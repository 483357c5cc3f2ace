-------------------------------- MODULE Window --------------------------------
(***************************************************************************)
(* The window of gui/src in front of dchat: it runs the process and reads  *)
(* its standard output.  ChatSource interprets the notices, each of which  *)
(* changes the list of participants that ParticipantListModel keeps.  The  *)
(* window knows nothing but that output, and reads it when it gets to it.  *)
(***************************************************************************)
EXTENDS Chat

VARIABLES
    roster, \* ParticipantListModel: participants and leader, by nickname
    reader, \* DChatSource: the thread that reads the process's output
    missed  \* history: processes that have dropped a PARTICIPANT_UPDATE

windowVars == <<roster, reader, missed>>

Name == {Nick[n] : n \in Node}

NamesOf(nodes) == {Nick[nodes[i]] : i \in DOMAIN nodes}

\* A window shows a leader that it lists, or none.
WindowTypeOK ==
    /\ roster \in [Windowed -> [participants: SUBSET Name,
                                leader: Name \cup {Nobody}]]
    /\ \A n \in Windowed :
           roster[n].leader \in roster[n].participants \cup {Nobody}
    /\ reader \in [Windowed -> {"reading", "threw", "ended"}]
    /\ missed \subseteq Node

\* The windows of a group that has been formed have read how it was.
WindowInit ==
    /\ roster = [n \in Windowed |->
                    IF Founding(n)
                    THEN [participants |-> NamesOf(Founders),
                          leader |-> Nick[Founders[1]]]
                    ELSE [participants |-> {}, leader |-> Nobody]]
    /\ reader = [n \in Windowed |-> "reading"]
    /\ missed = {}

-----------------------------------------------------------------------------
(* ParticipantListModel *)

setParticipants(names, leader) == [participants |-> names, leader |-> leader]

\* Mutant of addParticipant: the newcomer is announced and not listed.
announceParticipant(list, name) == list

addParticipant(list, name) == [list EXCEPT !.participants = @ \cup {name}]

\* Mutants of removeParticipant: no leader is left in any case, or in none.
removeWithLeader(list, name) ==
    [participants |-> list.participants \ {name}, leader |-> Nobody]
removeParticipantOnly(list, name) ==
    [list EXCEPT !.participants = @ \ {name}]

removeParticipant(list, name) ==
    [participants |-> list.participants \ {name},
     leader |-> IF list.leader = name THEN Nobody ELSE list.leader]

setLeader(list, name) == [list EXCEPT !.leader = name]

-----------------------------------------------------------------------------
(* ChatSource *)

\* A notice that several have left has more than seven words: it is unknown.
Understood(notice) == notice.event = "left" => Len(notice.nodes) = 1

\* setLeader throws if it has not heard of the name.
Throws(list, notice) ==
    /\ notice.event = "leads"
    /\ Nick[notice.nodes[1]] \notin list.participants

\* The list after a notice that is understood.
Interpreted(list, notice) ==
    LET name == Nick[notice.nodes[1]]
    IN  CASE notice.event = "users"  -> setParticipants(NamesOf(notice.nodes), name)
          [] notice.event = "joined" -> addParticipant(list, name)
          [] notice.event = "left"   -> removeParticipant(list, name)
          [] notice.event = "leads"  -> setLeader(list, name)

interpretInput(n) ==
    LET notice == Head(output[n])
    IN  /\ reader[n] = "reading"
        /\ output[n] # <<>>
        /\ output' = [output EXCEPT ![n] = Tail(@)]
        /\ IF Throws(roster[n], notice)
           THEN /\ reader' = [reader EXCEPT ![n] = "threw"]
                /\ UNCHANGED roster
           ELSE /\ roster' = [roster EXCEPT ![n] =
                                 IF Understood(notice)
                                 THEN Interpreted(@, notice)
                                 ELSE @]
                /\ UNCHANGED reader
        /\ UNCHANGED <<status, group, is_leader, clock_num, election, heartbeat,
                       joining, work, lost, inbox, typed, shown, faults, missed>>

\* The end of the output: makeInactive.
EndOfStream(n) ==
    /\ reader[n] = "reading"
    /\ status[n] \in {"gone", "segfault"}
    /\ output[n] = <<>>
    /\ reader' = [reader EXCEPT ![n] = "ended"]
    /\ UNCHANGED <<vars, roster, missed>>

-----------------------------------------------------------------------------

\* n sends, and drops a PARTICIPANT_UPDATE that has come meanwhile.
Misses(n) ==
    /\ Task(n, "send")
    /\ \E i \in 1..(Len(inbox[n]) - Len(inbox'[n])) :
           inbox[n][i].msg.type = "PARTICIPANT_UPDATE"

ChatStep ==
    /\ Next
    /\ missed' = missed \cup {n \in Node : Misses(n)}
    /\ UNCHANGED <<roster, reader>>

WindowNext ==
    \/ ChatStep
    \/ \E n \in Windowed : interpretInput(n) \/ EndOfStream(n)

WindowSpec == Init /\ WindowInit /\ [][WindowNext]_<<vars, windowVars>>

-----------------------------------------------------------------------------
(* Properties *)

Listed(n) == {Nick[m] : m \in Addresses(group[n])}

\* The process waits for its next event, and the window has read its output.
CaughtUp(n) ==
    /\ status[n] = "chatting"
    /\ Idle(n)
    /\ output[n] = <<>>
    /\ n \notin missed

Gone == {Nick[m] : m \in Node \ Running}

(***************************************************************************)
(* In a group of three that answers in time, only a process that has       *)
(* dropped a PARTICIPANT_UPDATE ends by comparing its nickname with NULL:  *)
(* whoever has seen every update knows everybody who may call an election  *)
(* (dchat.c:335-339).  Among more, who has dropped one may win and hand    *)
(* its list on.                                                            *)
(***************************************************************************)
KnownUnlessMissed ==
    \A n \in Node : status[n] = "segfault" => n \in missed

(***************************************************************************)
(* Nor, in such a group, does the pointer to the leader part from the flag *)
(* of the participants but in a process that has dropped an update: there  *)
(* the victory of somebody who is not in the list clears all flags and     *)
(* leaves the pointer to the old leader (model.c:114-125).                 *)
(***************************************************************************)
PointerFollows ==
    \A n \in Chatting : Flagged(group[n]) # {group[n].leader} => n \in missed

(***************************************************************************)
(* Nor does setLeader throw, which would end the thread that reads, unless *)
(* the process has dropped the update that named the leader to the window. *)
(***************************************************************************)
ReaderGoesOn == \A n \in Windowed : reader[n] = "threw" => n \in missed

(***************************************************************************)
(* In a group of three, a window that has caught up shows everybody in the *)
(* list of its process, and nobody else but some that are gone: those of a *)
(* notice about several (ChatSource.java:71), or one whose arrival the     *)
(* leader prints after it has printed that it left (leader.c:55-56).       *)
(* Among more, a leader that crashes while it tells of a newcomer leaves   *)
(* different lists, and the notice of a new leader does not tell which of  *)
(* them is taken over.                                                     *)
(***************************************************************************)
RosterFollows ==
    \A n \in Windowed : CaughtUp(n) =>
        /\ Listed(n) \subseteq roster[n].participants
        /\ roster[n].participants \ Listed(n) \subseteq Gone

(***************************************************************************)
(* When nothing is under way, it shows the leader that its process         *)
(* follows, if that one lives.                                             *)
(***************************************************************************)
LeaderIsShown ==
    \A n \in Windowed :
        LET leader == group[n].leader
        IN  Quiet /\ CaughtUp(n) /\ leader \in Running
            => roster[n].leader = Nick[leader]
=============================================================================
