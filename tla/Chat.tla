--------------------------------- MODULE Chat ---------------------------------
(***************************************************************************)
(* The chat of dchat.c, leader.c and nonleader.c: the event loop, joining, *)
(* message exchange, heartbeats and the leader election.                   *)
(*                                                                         *)
(* A process is single-threaded: a handler runs to its end before the next *)
(* event.  What it still has to do is its "work", a sequence of tasks; one *)
(* step is one RMP_sendTo, so processes interleave, and crash, between the *)
(* sends of a broadcast.                                                   *)
(*                                                                         *)
(* RMP_sendTo is taken as a whole, as module RMP shows it to behave on a   *)
(* network without faults.  The message is in the receiver's inbox when    *)
(* the sender gets its ACK; a process that is gone makes it time out.  And *)
(* attemptSend drops the messages whose SYN_ACKs it reads in the sender's  *)
(* own socket before that ACK (rmp.c:267-289): any number of those that    *)
(* wait there, the oldest first.  Two sends that cross may both arrive.  A *)
(* process that lives, yet is late with its ACKs, is the fault "timeout".  *)
(*                                                                         *)
(* Time goes by in ticks, none while anybody has work, an unread message   *)
(* or a timer that has run out: messages take milliseconds, timers         *)
(* seconds.  All that is due at one tick happens in any order.             *)
(*                                                                         *)
(* A process prints what happens in its group.  Where the window of gui/   *)
(* runs it (Windowed), that output is kept for the window to read.         *)
(***************************************************************************)
EXTENDS Participants

CONSTANTS
    Founders,            \* the group at the start, in the order of joining
    HEARTBEAT_INTERVAL,  \* in ticks, as are the next two
    VICTORY_WAIT_MILLIS,
    RESTART_WAIT_MILLIS,
    MaxAttempts,         \* ADD_ME messages of a joining process
    Windowed,            \* processes whose output a window reads
    MaxTyped,            \* bound: lines typed in all
    MaxFaults            \* bound: how many faults of each kind happen

FaultKinds == {"crash", "timeout"}

ASSUME ConstantsAssumption ==
    /\ Founders \in Seq(Node) \ {<<>>}
    /\ NamesDiffer(Founders)
    /\ HEARTBEAT_INTERVAL \in Nat
    /\ VICTORY_WAIT_MILLIS \in Nat
    /\ RESTART_WAIT_MILLIS \in Nat
    /\ VICTORY_WAIT_MILLIS <= RESTART_WAIT_MILLIS
    /\ MaxAttempts \in Nat \ {0}
    /\ Windowed \subseteq Node
    /\ MaxTyped \in Nat
    /\ MaxFaults \in [FaultKinds -> Nat]

VARIABLES
    status,     \* where a process is in main
    group,      \* model.c: the participants and the leader
    is_leader,  \* model.c: this process leads
    clock_num,  \* dchat.c: the logical clock
    election,   \* dchat.c: in_election, started_election, last_election_start
    heartbeat,  \* ticks since last_heartbeat
    joining,    \* join_chat: leader_hint and failed_join_attempts
    work,       \* what the running handler has still to do
    lost,       \* leader_broadcast_message: update_buff, who was not reached
    inbox,      \* messages RMP_listen has still to hand out
    typed,      \* history: who typed each line, and to which leader
    shown,      \* history: the lines each process printed, with their ids
    output,     \* notices printed to the pipe that a window reads
    faults      \* number of faults of each kind so far

vars == <<status, group, is_leader, clock_num, election, heartbeat, joining,
          work, lost, inbox, typed, shown, output, faults>>

\* What processes have written to their standard output.
printed == <<shown, output>>

\* "segfault" is the end by strcmp of a NULL in respond_to_leader_election.
Status == {"out", "joining", "napping", "chatting", "gone", "segfault"}

-----------------------------------------------------------------------------
(* Messages and tasks *)

\* The join or leave message of a PARTICIPANT_UPDATE, which all print.
Notice(event, nodes) == [event |-> event, nodes |-> nodes]

Plain(type) == [type |-> type]
Update(g, notice) == [type |-> "PARTICIPANT_UPDATE",
                      nodes |-> generate_participant_update(g),
                      notice |-> notice]
LeaderId(n) == [type |-> "LEADER_ID", leader |-> n]
Request(k)  == [type |-> "MESSAGE_REQUEST", line |-> k]
Line(k, id) == [type |-> "MESSAGE_BROADCAST", line |-> k, id |-> id]

\* One RMP_sendTo, and what its caller does when it times out.
Send(to, msg, else) == [task |-> "send", to |-> to, msg |-> msg, else |-> else]
Then(task)          == [task |-> task]
Printing(k, id)     == [task |-> "print", line |-> k, id |-> id]

\* The leader prints a notice itself when the broadcast that carries it is over.
Telling(n, notice) ==
    IF n \in Windowed THEN <<[task |-> "tell", notice |-> notice]>> ELSE <<>>

SendAll(nodes, msg, else) ==
    [i \in DOMAIN nodes |-> Send(nodes[i], msg, else)]

\* leader_broadcast_message: everybody but the flagged; who is not reached is
\* removed, and in the end the others are told.
leader_broadcast_message(g, msg) ==
    SendAll(Others(g), msg, "remove") \o <<Then("settle")>>

\* nonleader_broadcast_message: everybody with another nickname.
nonleader_broadcast_message(n, g, msg) ==
    LET list   == g.participants
        others == Selected(list, {i \in DOMAIN list : Nick[list[i].node] # Nick[n]})
    IN  [i \in DOMAIN others |-> Send(others[i].node, msg, "ignore")]

start_election(n, g) ==
    nonleader_broadcast_message(n, g, Plain("START_ELECTION"))
        \o <<Then("campaign")>>

Notices ==
    [event: {"joined", "left", "leads", "users"}, nodes: Seq(Node) \ {<<>>}]

Messages ==
    [type: {"ADD_ME", "JOIN_FAILURE", "JOIN_NICKNAME_FAILURE", "HEARTBEAT",
            "START_ELECTION", "STOP_ELECTION", "ELECTION_VICTORY"}]
        \cup [type: {"PARTICIPANT_UPDATE"}, nodes: Seq(Node) \ {<<>>},
              notice: Notices]
        \cup [type: {"LEADER_ID"}, leader: Node]
        \cup [type: {"MESSAGE_REQUEST"}, line: Nat]
        \cup [type: {"MESSAGE_BROADCAST"}, line: Nat, id: Nat]

Tasks ==
    [task: {"send"}, to: Node, msg: Messages,
     else: {"ignore", "remove", "elect", "exit"}]
        \cup [task: {"campaign", "settle", "announce"}]
        \cup [task: {"print"}, line: Nat, id: Nat]
        \cup [task: {"tell"}, notice: Notices]

-----------------------------------------------------------------------------

TypeOK ==
    /\ status \in [Node -> Status]
    /\ group \in [Node -> Group]
    /\ is_leader \in [Node -> BOOLEAN]
    /\ clock_num \in [Node -> Nat]
    /\ election \in [Node -> [in: BOOLEAN, started: BOOLEAN,
                              age: 0..RESTART_WAIT_MILLIS]]
    /\ heartbeat \in [Node -> 0..HEARTBEAT_INTERVAL]
    /\ joining \in [Node -> [hint: Node \cup {Nobody},
                             attempts: 0..MaxAttempts]]
    /\ work \in [Node -> Seq(Tasks)]
    /\ lost \in [Node -> Seq(Node)]
    /\ inbox \in [Node -> Seq([from: Node, msg: Messages])]
    /\ typed \in Seq([by: Node, to: Node])
    /\ shown \in [Node -> Seq([line: Nat, id: Nat])]
    /\ output \in [Windowed -> Seq(Notices)]
    /\ faults \in [FaultKinds -> Nat]
    /\ \A kind \in FaultKinds : faults[kind] <= MaxFaults[kind]

Founding(n) == \E i \in DOMAIN Founders : Founders[i] = n

Init ==
    /\ status = [n \in Node |-> IF Founding(n) THEN "chatting" ELSE "out"]
    /\ group = [n \in Node |-> IF Founding(n)
                               THEN process_participant_update(Founders)
                               ELSE NoGroup]
    /\ is_leader = [n \in Node |-> n = Founders[1]]
    /\ clock_num = [n \in Node |-> 0]
    /\ election = [n \in Node |-> [in |-> FALSE, started |-> FALSE,
                                   age |-> RESTART_WAIT_MILLIS]]
    /\ heartbeat = [n \in Node |-> 0]
    /\ joining = [n \in Node |-> [hint |-> Nobody, attempts |-> 0]]
    /\ work = [n \in Node |-> <<>>]
    /\ lost = [n \in Node |-> <<>>]
    /\ inbox = [n \in Node |-> <<>>]
    /\ typed = <<>>
    /\ shown = [n \in Node |-> <<>>]
    /\ output = [n \in Windowed |-> <<>>]
    /\ faults = [kind \in FaultKinds |-> 0]

Fault(kind) ==
    /\ faults[kind] < MaxFaults[kind]
    /\ faults' = [faults EXCEPT ![kind] = @ + 1]

Running == {n \in Node : status[n] \in {"joining", "napping", "chatting"}}

\* The event loop or join_chat waits for its next event.
Idle(n) == n \in Running /\ work[n] = <<>>

\* The process ends: what it holds is lost with it.
End(n, how) ==
    /\ status' = [status EXCEPT ![n] = how]
    /\ work' = [work EXCEPT ![n] = <<>>]
    /\ lost' = [lost EXCEPT ![n] = <<>>]

\* EOF on stdin, which ends in exit_chat, a signal, or a fatal error.
Crash(n) ==
    /\ n \in Running
    /\ Fault("crash")
    /\ End(n, "gone")
    /\ inbox' = [inbox EXCEPT ![n] = <<>>]
    /\ UNCHANGED <<group, is_leader, clock_num, election, heartbeat, joining,
                   typed, printed>>

-----------------------------------------------------------------------------
(* The tasks of a running handler *)

\* The handler of n goes on with these tasks.
Do(n, tasks) == work' = [work EXCEPT ![n] = tasks]

Task(n, name) == work[n] # <<>> /\ Head(work[n]).task = name

\* Mutant of Deliver: the newest message is read first.
DeliverInFront(n, to, msg) ==
    \E k \in 0..Len(inbox[n]) :
        inbox' = [[inbox EXCEPT ![n] = SubSeq(@, k + 1, Len(@))]
                         EXCEPT ![to] = <<[from |-> n, msg |-> msg]>> \o @]

\* msg gets to its destination.  What has come to n by the time of its ACK,
\* the first k of the messages that wait, attemptSend has read and dropped.
Deliver(n, to, msg) ==
    \E k \in 0..Len(inbox[n]) :
        inbox' = [[inbox EXCEPT ![n] = SubSeq(@, k + 1, Len(@))]
                         EXCEPT ![to] = Append(@, [from |-> n, msg |-> msg])]

Acknowledged(n) ==
    LET send == Head(work[n])
    IN  /\ Task(n, "send")
        /\ send.to \in Running
        /\ Deliver(n, send.to, send.msg)
        /\ Do(n, Tail(work[n]))
        /\ UNCHANGED <<status, group, is_leader, clock_num, election, heartbeat,
                       joining, lost, typed, printed, faults>>

\* RMP_sendTo returns RMP_E_TIMEOUT.  If the receiver runs, its ACKs are late
\* (it sleeps, or a fault), and the message may have come through all the same.
TimesOut(n) ==
    LET send == Head(work[n])
    IN  /\ Task(n, "send")
        /\ IF send.to \in Running /\ status[send.to] # "napping"
           THEN Fault("timeout")
           ELSE UNCHANGED faults
        /\ \/ inbox' = [inbox EXCEPT ![n] = <<>>]
           \/ send.to \in Running /\ Deliver(n, send.to, send.msg)
        /\ CASE send.else = "ignore" ->
                  Do(n, Tail(work[n])) /\ UNCHANGED <<status, group, lost>>
             [] send.else = "remove" ->
                  /\ group' = [group EXCEPT ![n] = Without(@, send.to)]
                  /\ lost' = [lost EXCEPT ![n] = Append(@, send.to)]
                  /\ Do(n, Tail(work[n]))
                  /\ UNCHANGED status
             [] send.else = "elect" ->
                  /\ Do(n, start_election(n, group[n]) \o Tail(work[n]))
                  /\ UNCHANGED <<status, group, lost>>
             [] send.else = "exit" -> End(n, "gone") /\ UNCHANGED group
        /\ UNCHANGED <<is_leader, clock_num, election, heartbeat, joining,
                       typed, printed>>

\* The end of start_election.
Campaign(n) ==
    /\ Task(n, "campaign")
    /\ election' = [election EXCEPT ![n] = [in |-> TRUE, started |-> TRUE,
                                            age |-> 0]]
    /\ Do(n, Tail(work[n]))
    /\ UNCHANGED <<status, group, is_leader, clock_num, heartbeat, joining,
                   lost, inbox, typed, printed, faults>>

\* Mutant of BroadcastUpdate: the first of the others is passed over.
UpdateRest(n, g, notice) ==
    SendAll(SubSeq(Others(g), 2, Len(Others(g))), Update(g, notice), "remove")
        \o <<Then("settle")>> \o Telling(n, notice)

\* A PARTICIPANT_UPDATE to everybody, and the notice in it on n's own output.
BroadcastUpdate(n, g, notice) ==
    leader_broadcast_message(g, Update(g, notice)) \o Telling(n, notice)

\* The end of leader_broadcast_message: if somebody has been removed, the rest
\* learn it from another broadcast, before what the interrupted one was about.
Settle(n) ==
    /\ Task(n, "settle")
    /\ lost' = [lost EXCEPT ![n] = <<>>]
    /\ Do(n, (IF lost[n] # <<>>
              THEN BroadcastUpdate(n, group[n], Notice("left", lost[n]))
              ELSE <<>>) \o Tail(work[n]))
    /\ UNCHANGED <<status, group, is_leader, clock_num, election, heartbeat,
                   joining, inbox, typed, printed, faults>>

\* The second broadcast of declare_victory.
Announce(n) ==
    /\ Task(n, "announce")
    /\ Do(n, BroadcastUpdate(n, group[n], Notice("leads", <<n>>))
                \o Tail(work[n]))
    /\ UNCHANGED <<status, group, is_leader, clock_num, election, heartbeat,
                   joining, lost, inbox, typed, printed, faults>>

Show(n, line, id) ==
    /\ shown' = [shown EXCEPT ![n] = Append(@, [line |-> line, id |-> id])]
    /\ UNCHANGED output

Tell(n, notice) ==
    /\ output' = IF n \in Windowed
                 THEN [output EXCEPT ![n] = Append(@, notice)]
                 ELSE output
    /\ UNCHANGED shown

\* A leader prints a line after it has broadcast it.
PrintLine(n) ==
    LET print == Head(work[n])
    IN  /\ Task(n, "print")
        /\ Show(n, print.line, print.id)
        /\ Do(n, Tail(work[n]))
        /\ UNCHANGED <<status, group, is_leader, clock_num, election, heartbeat,
                       joining, lost, inbox, typed, faults>>

PrintNotice(n) ==
    /\ Task(n, "tell")
    /\ Tell(n, Head(work[n]).notice)
    /\ Do(n, Tail(work[n]))
    /\ UNCHANGED <<status, group, is_leader, clock_num, election, heartbeat,
                   joining, lost, inbox, typed, faults>>

Work(n) ==
    \/ Acknowledged(n)
    \/ TimesOut(n)
    \/ Campaign(n)
    \/ Settle(n)
    \/ Announce(n)
    \/ PrintLine(n)
    \/ PrintNotice(n)

-----------------------------------------------------------------------------
(* Joining: join_chat *)

AddMe(to) == <<Send(to, Plain("ADD_ME"), "exit")>>

Join(n, hint) ==
    /\ status[n] = "out"
    /\ hint # n
    /\ status' = [status EXCEPT ![n] = "joining"]
    /\ joining' = [joining EXCEPT ![n] = [hint |-> hint, attempts |-> 1]]
    /\ Do(n, AddMe(hint))
    /\ UNCHANGED <<group, is_leader, clock_num, election, heartbeat, lost, inbox,
                   typed, printed, faults>>

\* Mutant of TryAgain: one turn too many.
TryOnceMore(n, hint) ==
    IF joining[n].attempts <= MaxAttempts
    THEN /\ joining' = [joining EXCEPT ![n] = [hint |-> hint,
                                               attempts |-> @.attempts + 1]]
         /\ status' = [status EXCEPT ![n] = "joining"]
         /\ Do(n, AddMe(hint))
         /\ UNCHANGED lost
    ELSE End(n, "gone") /\ UNCHANGED joining

\* The next turn of join_chat's loop, if it has not had its last one.
TryAgain(n, hint) ==
    IF joining[n].attempts < MaxAttempts
    THEN /\ joining' = [joining EXCEPT ![n] = [hint |-> hint,
                                               attempts |-> @.attempts + 1]]
         /\ status' = [status EXCEPT ![n] = "joining"]
         /\ Do(n, AddMe(hint))
         /\ UNCHANGED lost
    ELSE End(n, "gone") /\ UNCHANGED joining

\* The first message that comes, whoever sends it, is taken for the reply.
Reply(n) ==
    LET msg == Head(inbox[n]).msg
    IN  /\ status[n] = "joining"
        /\ Idle(n)
        /\ inbox[n] # <<>>
        /\ CASE msg.type = "PARTICIPANT_UPDATE" ->
                  /\ status' = [status EXCEPT ![n] = "chatting"]
                  /\ group' = [group EXCEPT ![n] =
                                  process_participant_update(msg.nodes)]
                  /\ heartbeat' = [heartbeat EXCEPT ![n] = 0]
                  /\ Tell(n, Notice("users", msg.nodes))
                  /\ inbox' = [inbox EXCEPT ![n] = Tail(@)]
                  /\ UNCHANGED <<joining, work, lost>>
             [] msg.type = "JOIN_FAILURE" ->
                  /\ status' = [status EXCEPT ![n] = "napping"]
                  /\ inbox' = [inbox EXCEPT ![n] = Tail(@)]
                  /\ UNCHANGED <<group, heartbeat, joining, work, lost, printed>>
             [] msg.type = "LEADER_ID" ->
                  /\ TryAgain(n, msg.leader)
                  /\ inbox' = [inbox EXCEPT ![n] = Tail(@)]
                  /\ UNCHANGED <<group, heartbeat, printed>>
             [] OTHER ->
                  /\ End(n, "gone")
                  /\ inbox' = [inbox EXCEPT ![n] = <<>>]
                  /\ UNCHANGED <<group, heartbeat, joining, printed>>
        /\ UNCHANGED <<is_leader, clock_num, election, typed, faults>>

\* The nap of 500 ms after a JOIN_FAILURE is over.
Wake(n) ==
    /\ status[n] = "napping"
    /\ TryAgain(n, joining[n].hint)
    /\ UNCHANGED <<group, is_leader, clock_num, election, heartbeat, inbox,
                   typed, printed, faults>>

-----------------------------------------------------------------------------
(* Messages in the event loop of chat() *)

\* n's handler takes the message at the head of the inbox and has this to do.
Handles(n, tasks) ==
    /\ inbox' = [inbox EXCEPT ![n] = Tail(@)]
    /\ Do(n, tasks)

Broadcast(n, k) ==
    leader_broadcast_message(group[n], Line(k, clock_num[n]))
        \o <<Printing(k, clock_num[n])>>

\* respond_to_leader_election: a sender that is not in the list has no nickname
\* to compare with.
RespondToElection(n, from) ==
    IF from \notin Addresses(group[n])
    THEN /\ End(n, "segfault")
         /\ inbox' = [inbox EXCEPT ![n] = <<>>]
         /\ UNCHANGED election
    ELSE /\ IF Nick[n] > Nick[from]
            THEN /\ Handles(n, <<Send(from, Plain("STOP_ELECTION"), "ignore")>>
                                  \o start_election(n, group[n]))
                 /\ UNCHANGED election
            ELSE /\ Handles(n, <<>>)
                 /\ election' = [election EXCEPT ![n] =
                        [in |-> TRUE, started |-> FALSE, age |-> 0]]
         /\ UNCHANGED <<status, lost>>

\* leader_receive_message.
LeaderReceives(n) ==
    LET from == Head(inbox[n]).from
        msg  == Head(inbox[n]).msg
        added == insert_participant(group[n], from, FALSE)
    IN  /\ status[n] = "chatting"
        /\ Idle(n)
        /\ is_leader[n]
        /\ inbox[n] # <<>>
        /\ CASE msg.type = "ADD_ME" ->
                  /\ IF contains_participant(group[n], Nick[from])
                     THEN /\ Handles(n, <<Send(from,
                                     Plain("JOIN_NICKNAME_FAILURE"), "exit")>>)
                          /\ UNCHANGED group
                     ELSE /\ group' = [group EXCEPT ![n] = added]
                          /\ Handles(n, BroadcastUpdate(n, added,
                                            Notice("joined", <<from>>)))
                  /\ UNCHANGED <<status, clock_num, election, lost>>
             [] msg.type = "MESSAGE_REQUEST" ->
                  /\ clock_num' = [clock_num EXCEPT ![n] = @ + 1]
                  /\ Handles(n, Broadcast(n, msg.line))
                  /\ UNCHANGED <<status, group, election, lost>>
             [] msg.type = "START_ELECTION" ->
                  /\ RespondToElection(n, from)
                  /\ UNCHANGED <<group, clock_num>>
             [] OTHER ->
                  /\ Handles(n, <<>>)
                  /\ UNCHANGED <<status, group, clock_num, election, lost>>
        /\ UNCHANGED <<is_leader, heartbeat, joining, typed, printed, faults>>

\* non_leader_receive_message, the messages that concern the group.
MemberReceives(n) ==
    LET from == Head(inbox[n]).from
        msg  == Head(inbox[n]).msg
    IN  /\ status[n] = "chatting"
        /\ Idle(n)
        /\ ~is_leader[n]
        /\ inbox[n] # <<>>
        /\ CASE msg.type = "MESSAGE_BROADCAST" ->
                  /\ clock_num' = [clock_num EXCEPT ![n] = msg.id]
                  /\ Show(n, msg.line, msg.id)
                  /\ Handles(n, <<>>)
                  /\ UNCHANGED <<status, group, election, lost>>
             [] msg.type = "PARTICIPANT_UPDATE" ->
                  /\ group' = [group EXCEPT ![n] =
                                  process_participant_update(msg.nodes)]
                  /\ Tell(n, msg.notice)
                  /\ Handles(n, <<>>)
                  /\ UNCHANGED <<status, clock_num, election, lost>>
             [] msg.type = "ADD_ME" ->
                  /\ Handles(n, IF election[n].in
                                THEN <<Send(from, Plain("JOIN_FAILURE"),
                                            "ignore")>>
                                ELSE <<Send(from, LeaderId(group[n].leader),
                                            "exit")>>)
                  /\ UNCHANGED <<status, group, clock_num, election, printed, lost>>
             [] msg.type = "HEARTBEAT" ->
                  /\ Handles(n, <<>>)
                  /\ UNCHANGED <<status, group, clock_num, election, printed, lost>>
             [] msg.type = "START_ELECTION" ->
                  /\ RespondToElection(n, from)
                  /\ UNCHANGED <<group, clock_num, printed>>
             [] msg.type = "STOP_ELECTION" ->
                  /\ election' = [election EXCEPT ![n].in = TRUE,
                                                  ![n].started = FALSE]
                  /\ Handles(n, <<>>)
                  /\ UNCHANGED <<status, group, clock_num, printed, lost>>
             [] msg.type = "ELECTION_VICTORY" ->
                  /\ election' = [election EXCEPT ![n].in = FALSE,
                                                  ![n].started = FALSE]
                  /\ group' = [group EXCEPT ![n] = set_leader_by_addr(@, from)]
                  /\ Handles(n, <<>>)
                  /\ UNCHANGED <<status, clock_num, printed, lost>>
             [] OTHER ->
                  /\ End(n, "gone")
                  /\ inbox' = [inbox EXCEPT ![n] = <<>>]
                  /\ UNCHANGED <<group, clock_num, election, printed>>
        /\ UNCHANGED <<is_leader, heartbeat, joining, typed, faults>>

Receive(n) == Reply(n) \/ LeaderReceives(n) \/ MemberReceives(n)

-----------------------------------------------------------------------------
(* Lines typed, and timers *)

\* recv_stdin; somebody alone in the chat is not heard.
Type(n) ==
    LET k == Len(typed) + 1
    IN  /\ status[n] = "chatting"
        /\ Idle(n)
        /\ Len(typed) < MaxTyped
        /\ Len(group[n].participants) # 1
        /\ typed' = Append(typed, [by |-> n, to |-> group[n].leader])
        /\ IF is_leader[n]
           THEN /\ clock_num' = [clock_num EXCEPT ![n] = @ + 1]
                /\ Do(n, Broadcast(n, k))
           ELSE /\ Do(n, <<Send(group[n].leader, Request(k), "elect")>>)
                /\ UNCHANGED clock_num
        /\ UNCHANGED <<status, group, is_leader, election, heartbeat, joining,
                       lost, inbox, printed, faults>>

Beats(n) ==
    /\ status[n] = "chatting"
    /\ ~election[n].in
    /\ heartbeat[n] >= HEARTBEAT_INTERVAL

\* send_heartbeat.
Heartbeat(n) ==
    /\ Beats(n)
    /\ Idle(n)
    /\ heartbeat' = [heartbeat EXCEPT ![n] = 0]
    /\ Do(n, IF is_leader[n]
             THEN leader_broadcast_message(group[n], Plain("HEARTBEAT"))
             ELSE <<Send(group[n].leader, Plain("HEARTBEAT"), "elect")>>)
    /\ UNCHANGED <<status, group, is_leader, clock_num, election, joining, lost,
                   inbox, typed, printed, faults>>

\* Mutant of Wins: started_election is not asked.
WinsUnstarted(n) ==
    /\ status[n] = "chatting"
    /\ ~is_leader[n]
    /\ election[n].in
    /\ election[n].age >= VICTORY_WAIT_MILLIS

Wins(n) ==
    /\ status[n] = "chatting"
    /\ ~is_leader[n]
    /\ election[n].in
    /\ election[n].started
    /\ election[n].age >= VICTORY_WAIT_MILLIS

DeclareVictory(n) ==
    LET leading == set_leader_by_nickname(group[n], Nick[n])
    IN  /\ Wins(n)
        /\ Idle(n)
        /\ election' = [election EXCEPT ![n].in = FALSE, ![n].started = FALSE]
        /\ group' = [group EXCEPT ![n] = leading]
        /\ is_leader' = [is_leader EXCEPT ![n] = TRUE]
        /\ Do(n, leader_broadcast_message(leading, Plain("ELECTION_VICTORY"))
                    \o <<Then("announce")>>)
        /\ UNCHANGED <<status, clock_num, heartbeat, joining, lost, inbox, typed,
                       printed, faults>>

\* Mutant of Restarts: only who started the election starts it again.
RestartsOwn(n) ==
    /\ status[n] = "chatting"
    /\ ~is_leader[n]
    /\ election[n].in
    /\ election[n].started
    /\ election[n].age >= RESTART_WAIT_MILLIS

Restarts(n) ==
    /\ status[n] = "chatting"
    /\ ~is_leader[n]
    /\ election[n].in
    /\ ~election[n].started
    /\ election[n].age >= RESTART_WAIT_MILLIS

RestartElection(n) ==
    /\ Restarts(n)
    /\ Idle(n)
    /\ Do(n, start_election(n, group[n]))
    /\ UNCHANGED <<status, group, is_leader, clock_num, election, heartbeat,
                   joining, lost, inbox, typed, printed, faults>>

Timers(n) == Heartbeat(n) \/ DeclareVictory(n) \/ RestartElection(n)

\* Nothing is left to do at this tick.
Quiet ==
    \A n \in Running :
        work[n] = <<>> /\ inbox[n] = <<>> /\ ~Beats(n) /\ ~Wins(n) /\ ~Restarts(n)

Older(age, limit) == IF age < limit THEN age + 1 ELSE age

Tick ==
    /\ Quiet
    /\ heartbeat' = [n \in Node |-> Older(heartbeat[n], HEARTBEAT_INTERVAL)]
    /\ election' = [n \in Node |-> [election[n] EXCEPT
                        !.age = Older(@, RESTART_WAIT_MILLIS)]]
    /\ UNCHANGED <<status, group, is_leader, clock_num, joining, work, lost,
                   inbox, typed, printed, faults>>

-----------------------------------------------------------------------------

Next ==
    \/ \E n \in Node : \/ \E hint \in Node : Join(n, hint)
                       \/ Wake(n)
                       \/ Type(n)
                       \/ Receive(n)
                       \/ Timers(n)
                       \/ Work(n)
                       \/ Crash(n)
    \/ Tick

Spec == Init /\ [][Next]_vars

(***************************************************************************)
(* Fairness: a process that has something to do goes on, in its handler,   *)
(* its event loop or its nap, and time goes by.  Nobody need ever type,    *)
(* join or crash.                                                          *)
(***************************************************************************)
FairSpec ==
    /\ Spec
    /\ \A n \in Node :
           WF_vars(Work(n) \/ Receive(n) \/ Timers(n) \/ Wake(n))
    /\ WF_vars(Tick)

-----------------------------------------------------------------------------
(* Properties *)

Chatting == {n \in Node : status[n] = "chatting"}

Leaders == {n \in Chatting : is_leader[n]}

\* All who run answer in time: only a crash makes RMP_sendTo time out.
Prompt == faults["timeout"] = 0

(***************************************************************************)
(* Everybody in the chat is in its own list, whatever it missed and        *)
(* whoever takes it for dead: declare_victory finds its own entry by it.   *)
(***************************************************************************)
SelfListed == \A n \in Chatting : n \in Addresses(group[n])

(***************************************************************************)
(* A process that crashes is removed, one that lives is not: everybody is  *)
(* in the list of the leader it follows, which broadcasts by it.           *)
(***************************************************************************)
LiveAreListed ==
    Prompt =>
        \A n \in Leaders : \A m \in Chatting :
            group[m].leader = n => m \in Addresses(group[n])

(***************************************************************************)
(* The three places where model.c keeps who leads agree in a process that  *)
(* leads: the flag of the process, the leader pointer and the flags of the *)
(* participants, of whom its broadcasts skip only itself.                  *)
(***************************************************************************)
LeaderLeads ==
    \A n \in Leaders : group[n].leader = n /\ Flagged(group[n]) = {n}

(***************************************************************************)
(* No list names two participants alike, whoever joins, crashes or is      *)
(* elected meanwhile: messages carry nicknames, and elections compare      *)
(* them.                                                                   *)
(***************************************************************************)
DistinctNames ==
    \A n \in Node :
        LET list == group[n].participants
        IN  \A i, j \in DOMAIN list :
                Nick[list[i].node] = Nick[list[j].node] => i = j

\* n printed line x before line y.
ShownBefore(n, x, y) ==
    \E i, j \in DOMAIN shown[n] :
        i < j /\ shown[n][i].line = x /\ shown[n][j].line = y

(***************************************************************************)
(* All participants see the lines they see in the same order, through the  *)
(* loss of a leader and the election of another.                           *)
(***************************************************************************)
SameOrder ==
    \A a, b \in Node : \A x, y \in DOMAIN typed :
        ~(ShownBefore(a, x, y) /\ ShownBefore(b, y, x))

(***************************************************************************)
(* Lines typed to one leader are in the same order wherever they are seen, *)
(* and nobody sees one twice, whoever crashes, is late, drops messages, or *)
(* follows another leader by then.                                         *)
(***************************************************************************)
LeadersOrder ==
    \A a, b \in Node : \A x, y \in DOMAIN typed :
        typed[x].to = typed[y].to =>
            ~(ShownBefore(a, x, y) /\ ShownBefore(b, y, x))

(***************************************************************************)
(* The election leaves one leader at most.                                 *)
(***************************************************************************)
OneLeader == Prompt => \A a, b \in Leaders : a = b

(***************************************************************************)
(* When the leader is gone, another takes its place, whoever crashes       *)
(* during the election, and even if somebody is taken for dead.            *)
(***************************************************************************)
GetsLeader == []<>(Leaders # {} \/ Chatting = {})

InElection(n) == n \in Chatting /\ election[n].in

(***************************************************************************)
(* Elections come to an end: again and again there is none in which        *)
(* anybody takes part.                                                     *)
(***************************************************************************)
ElectionEnds == []<>((\A n \in Node : ~InElection(n)) \/ ~Prompt)

(***************************************************************************)
(* A line typed to a leader that is no more has reached the chat when its  *)
(* author has settled down with a new leader.                              *)
(***************************************************************************)
LineSurvives ==
    Quiet => \A k \in DOMAIN typed :
        LET n == typed[k].by
        IN  /\ n \in Chatting
            /\ ~InElection(n)
            /\ group[n].leader \in Leaders \ {typed[k].to}
            => \E i \in DOMAIN shown[n] : shown[n][i].line = k
=============================================================================
