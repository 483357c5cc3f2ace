----------------------------- MODULE Participants -----------------------------
(***************************************************************************)
(* model.c and the PARTICIPANT_UPDATE message: what one process knows of   *)
(* its group.  A participant is known by its address, the node itself, and *)
(* carries the flag that says it is the leader; "leader" is the separate   *)
(* pointer that get_leader returns.  num_participants, which every         *)
(* insertion and removal adjusts, is the length of the list.               *)
(***************************************************************************)
EXTENDS Lists, SequencesExt

CONSTANTS
    Node,   \* processes, each with its address
    Nobody, \* the NULL of the leader pointer
    Nick    \* the nickname of each node, as its place in the order of strcmp

ASSUME NodeAssumption ==
    /\ Nobody \notin Node
    /\ Nick \in [Node -> Nat]

Participant == [node: Node, is_leader: BOOLEAN]

Group == [participants: Seq(Participant), leader: Node \cup {Nobody}]

\* model_init.
NoGroup == [participants |-> <<>>, leader |-> Nobody]

Addresses(group) == {group.participants[i].node : i \in DOMAIN group.participants}

\* No two of these nodes have the same nickname.
NamesDiffer(nodes) ==
    \A i, j \in DOMAIN nodes : Nick[nodes[i]] = Nick[nodes[j]] => i = j

\* The flagged participants, whom leader_broadcast_message skips.
Flagged(group) ==
    {p.node : p \in {q \in Range(group.participants) : q.is_leader}}

insert_participant(group, n, is_leader) ==
    [participants |-> Append(group.participants,
                             [node |-> n, is_leader |-> is_leader]),
     leader |-> IF is_leader THEN n ELSE group.leader]

\* Mutant of contains_participant: the last participant is not looked at.
contains_but_last(group, nickname) ==
    \E i \in DOMAIN group.participants :
        /\ i < Len(group.participants)
        /\ Nick[group.participants[i].node] = nickname

contains_participant(group, nickname) ==
    \E i \in DOMAIN group.participants :
        Nick[group.participants[i].node] = nickname

\* Mutant of FlagLeaders: the flags of the others are left.
FlagAlso(group, found) ==
    [participants |-> [i \in DOMAIN group.participants |->
         [group.participants[i] EXCEPT !.is_leader = @ \/ i \in found]],
     leader |-> IF found = {}
                THEN group.leader
                ELSE group.participants[CHOOSE i \in found :
                         \A j \in found : j <= i].node]

\* The participants at the places in "found" get the flag, the others lose it;
\* the leader pointer moves only if there is one.
FlagLeaders(group, found) ==
    [participants |-> [i \in DOMAIN group.participants |->
         [group.participants[i] EXCEPT !.is_leader = i \in found]],
     leader |-> IF found = {}
                THEN group.leader
                ELSE group.participants[CHOOSE i \in found :
                         \A j \in found : j <= i].node]

set_leader_by_addr(group, address) ==
    FlagLeaders(group, {i \in DOMAIN group.participants :
                            group.participants[i].node = address})

set_leader_by_nickname(group, nickname) ==
    FlagLeaders(group, {i \in DOMAIN group.participants :
                            Nick[group.participants[i].node] = nickname})

\* Mutant of Without: everybody behind the participant is unlinked with it.
WithoutRest(group, n) ==
    [group EXCEPT !.participants = SubSeq(@, 1,
        (CHOOSE i \in DOMAIN @ : @[i].node = n) - 1)]

\* leader_broadcast_message unlinks a participant it could not reach.
Without(group, n) ==
    [group EXCEPT !.participants =
        Selected(@, {i \in DOMAIN @ : @[i].is_leader \/ @[i].node # n})]

\* Mutant of Others: the flag is not looked at.
WithTheLeader(group) ==
    LET list == group.participants
    IN  [i \in DOMAIN list |-> list[i].node]

\* The participants that are not flagged, in the order of the list.
Others(group) ==
    LET list  == group.participants
        plain == Selected(list, {i \in DOMAIN list : ~list[i].is_leader})
    IN  [i \in DOMAIN plain |-> plain[i].node]

\* generate_participant_update: the leader the pointer shows, then the rest.
generate_participant_update(group) == <<group.leader>> \o Others(group)

\* Mutant of process_participant_update: the last participant is not read.
process_but_last(nodes) ==
    [participants |-> [i \in 1..Len(nodes) - 1 |-> [node |-> nodes[i],
                                                    is_leader |-> i = 1]],
     leader |-> nodes[1]]

\* process_participant_update: the list is emptied and read anew.
process_participant_update(nodes) ==
    [participants |-> [i \in DOMAIN nodes |-> [node |-> nodes[i],
                                               is_leader |-> i = 1]],
     leader |-> nodes[1]]
=============================================================================
