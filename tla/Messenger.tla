------------------------------ MODULE Messenger ------------------------------
(***************************************************************************)
(* What RMP promises its users on a network that neither duplicates nor    *)
(* reorders datagrams, when no two processes share an IP address: each     *)
(* process sends one message at a time and learns how that went; a message *)
(* is handed out, if at all, at its destination, under its sender's name,  *)
(* after the sender's call has returned, once, and never after a later     *)
(* message of the same sender.  It does not promise that every message     *)
(* arrives, nor that the sender's result tells whether it did.             *)
(***************************************************************************)
EXTENDS Integers, Sequences

CONSTANT Node

VARIABLES
    sent,     \* for each node, its calls of RMP_sendTo: destination, result
    delivered \* for each node, the messages handed to its application

Init ==
    /\ sent = [n \in Node |-> <<>>]
    /\ delivered = [n \in Node |-> <<>>]

\* n is inside a call of RMP_sendTo, or it stopped in one.
Busy(n) == \E k \in 1..Len(sent[n]) : sent[n][k].result = "pending"

Submit(n, dst) ==
    /\ dst # n
    /\ ~Busy(n)
    /\ sent' = [sent EXCEPT ![n] = Append(@, [dst |-> dst,
                                              result |-> "pending"])]
    /\ UNCHANGED delivered

Settle(n, result) ==
    /\ Busy(n)
    /\ sent' = [sent EXCEPT ![n][Len(sent[n])].result = result]
    /\ UNCHANGED delivered

Hand(n, o, k) ==
    /\ k \in 1..Len(sent[o])
    /\ sent[o][k].dst = n
    /\ sent[o][k].result # "pending"
    /\ \A i \in 1..Len(delivered[n]) :
           delivered[n][i].origin = o => delivered[n][i].id < k
    /\ delivered' = [delivered EXCEPT ![n] =
                        Append(@, [from |-> o, origin |-> o, id |-> k])]
    /\ UNCHANGED sent

Next ==
    \E n \in Node :
        \/ \E dst \in Node : Submit(n, dst)
        \/ \E result \in {"ok", "timeout", "error"} : Settle(n, result)
        \/ \E o \in Node : \E k \in 1..Len(sent[o]) : Hand(n, o, k)

Spec == Init /\ [][Next]_<<sent, delivered>>
=============================================================================
