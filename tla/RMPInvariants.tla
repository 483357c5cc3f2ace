---------------------------- MODULE RMPInvariants ----------------------------
(***************************************************************************)
(* The inductive invariant behind the properties of RMP.  The run rmp_fifo *)
(* checks it on an instance, RMPProofs proves it.                          *)
(***************************************************************************)
EXTENDS RMP

\* At most the last message of a node is pending, and in a running process it
\* is the one attemptSend is working on.
SendingInv ==
    \A n \in Node :
        /\ \A k \in 1..Len(sent[n]) :
               sent[n][k].result = "pending" => k = Len(sent[n])
        /\ up[n] /\ ~inSend[n] =>
               \A k \in 1..Len(sent[n]) : sent[n][k].result # "pending"
        /\ inSend[n] =>
               /\ sendBuffer[n].id = Len(sent[n])
               /\ sendBuffer[n].id > 0
               /\ sent[n][sendBuffer[n].id].dst = sendBuffer[n].peer
               /\ sent[n][sendBuffer[n].id].result = "pending"

\* Of the calls in "calls", one of o sent message k to n.
SentTo(n, o, k, calls) == k \in 1..Len(calls[o]) /\ calls[o][k].dst = n

Settled(o, k, calls) == calls[o][k].result # "pending"

IsData(d) == d.type = "DATA"

(***************************************************************************)
(* What n may find in its queue q, its receive buffers and the messages it *)
(* handed out, given the calls made so far.                                *)
(***************************************************************************)
Genuine(n, q, buffers, handed, calls) ==
    /\ \A i \in 1..Len(q) : IsData(q[i]) => SentTo(n, q[i].src, q[i].id, calls)
    /\ \A h \in Host :
           buffers[h].occupied =>
               /\ HostOf[buffers[h].from] = h
               /\ SentTo(n, buffers[h].from, buffers[h].id, calls)
    /\ \A x \in 1..Len(handed) :
           /\ handed[x].from = handed[x].origin
           /\ SentTo(n, handed[x].origin, handed[x].id, calls)

(***************************************************************************)
(* The messages of one sender o grow in id from those handed out, over the *)
(* one in the receive buffer, to those in the queue.                       *)
(***************************************************************************)
Growing(q, buffers, handed) ==
    /\ \A i, j \in 1..Len(q) :
           i < j /\ IsData(q[i]) /\ IsData(q[j]) /\ q[i].src = q[j].src
               => q[i].id <= q[j].id
    /\ \A h \in Host, i \in 1..Len(q) :
           buffers[h].occupied /\ IsData(q[i]) /\ q[i].src = buffers[h].from
               => buffers[h].id <= q[i].id
    /\ \A x \in 1..Len(handed), i \in 1..Len(q) :
           IsData(q[i]) /\ q[i].src = handed[x].origin => handed[x].id < q[i].id
    /\ \A x \in 1..Len(handed), h \in Host :
           buffers[h].occupied /\ buffers[h].from = handed[x].origin
               => handed[x].id < buffers[h].id
    /\ \A x, y \in 1..Len(handed) :
           x < y /\ handed[x].origin = handed[y].origin
               => handed[x].id < handed[y].id

(***************************************************************************)
(* A SYN_ACK that will find its message in the buffer was sent after       *)
(* RMP_sendTo had returned and is behind every copy of the DATA.  (Others  *)
(* there are: an ACK retried to the wrong address makes a node send the    *)
(* SYN_ACK of a message it has not sent yet.)                              *)
(***************************************************************************)
Concluding(q, buffers, handed, calls) ==
    /\ \A i \in 1..Len(q) :
           (/\ q[i].type = "SYN_ACK"
            /\ \/ \E h \in Host : /\ buffers[h].occupied
                                  /\ buffers[h].from = q[i].src
                                  /\ buffers[h].id = q[i].id
               \/ \E j \in 1..i - 1 : /\ IsData(q[j])
                                      /\ q[j].src = q[i].src
                                      /\ q[j].id = q[i].id)
           => /\ Settled(q[i].src, q[i].id, calls)
              /\ \A j \in i + 1..Len(q) :
                     IsData(q[j]) /\ q[j].src = q[i].src => q[j].id # q[i].id
    /\ \A x \in 1..Len(handed) : Settled(handed[x].origin, handed[x].id, calls)

ChannelInv(n, q, buffers, handed, calls) ==
    /\ Genuine(n, q, buffers, handed, calls)
    /\ Growing(q, buffers, handed)
    /\ Concluding(q, buffers, handed, calls)

\* What holds on a FIFO network if no two nodes share a host.
InductiveInvariant ==
    /\ TypeOK
    /\ SendingInv
    /\ \A n \in Node :
           ChannelInv(n, net[n], receiveBuffer[n], delivered[n], sent)
=============================================================================
