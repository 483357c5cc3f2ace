------------------------------ MODULE RMPProofs ------------------------------
(***************************************************************************)
(* Theorems about RMP, for any nodes, hosts, budgets and number of         *)
(* retries.  Types hold on every network.  On a FIFO network and distinct  *)
(* hosts, InductiveInvariant is one, the safety properties of RMP follow   *)
(* from it, and RMP implements Messenger.  On any network and distinct     *)
(* hosts, messages are attributed rightly.                                 *)
(***************************************************************************)
EXTENDS RMPInvariants, ListProofs, TLAPS

USE ConstantsAssumption

-----------------------------------------------------------------------------
(* Queues *)

Queues == [Node -> Seq(Datagram)]

\* What Rest leaves in the queues.
LEMMA RestProperties ==
    ASSUME net \in Queues, NEW n \in Node, NEW i \in 1..Len(net[n])
    PROVE  /\ Rest(n, i) \in Queues
           /\ \A m \in Node \ {n} : Rest(n, i)[m] = net[m]
           /\ Len(Rest(n, i)[n]) = Len(net[n]) - 1
           /\ \A j \in 1..Len(net[n]) - 1 :
                  Rest(n, i)[n][j] = IF j < i THEN net[n][j] ELSE net[n][j + 1]
<1>1. net[n] \in Seq(Datagram)
  BY DEF Queues
<1>2. RemoveAt(net[n], i) \in Seq(Datagram)
  BY <1>1, RemoveAtProperties
<1>3. /\ Rest(n, i) \in Queues
      /\ Rest(n, i)[n] = RemoveAt(net[n], i)
      /\ \A m \in Node \ {n} : Rest(n, i)[m] = net[m]
  BY <1>2 DEF Rest, Queues
<1> QED BY <1>1, <1>3, RemoveAtProperties

\* What Post adds to the queues: d at the end of its destination's, or nothing.
LEMMA PostProperties ==
    ASSUME NEW q \in Queues, NEW d \in Datagram
    PROVE  /\ Post(q, d) \in Queues
           /\ \A m \in Node :
                  \/ Post(q, d)[m] = q[m]
                  \/ m = d.dst /\ Post(q, d)[m] = Append(q[m], d)
<1>1. d.dst \in Node
  BY DEF Datagram
<1>2. CASE up[d.dst]
  <2>1. Post(q, d) = [q EXCEPT ![d.dst] = Append(@, d)]
    BY <1>2 DEF Post
  <2>2. Append(q[d.dst], d) \in Seq(Datagram)
    BY <1>1, AppendProperties DEF Queues
  <2> QED BY <1>1, <2>1, <2>2 DEF Queues
<1>3. CASE ~up[d.dst]
  BY <1>3 DEF Post
<1> QED BY <1>2, <1>3

-----------------------------------------------------------------------------
(* Types, and what a sender knows of its own message *)

Call == [dst: Node, result: {"pending", "ok", "timeout", "error"}]
Calls == [Node -> Seq(Call)]

TypeInv == TypeOK /\ SendingInv

\* Calls are only added, and keep their destination and their final result.
Grows(calls, calls2) ==
    \A o \in Node :
        /\ Len(calls[o]) <= Len(calls2[o])
        /\ \A k \in 1..Len(calls[o]) :
               /\ calls2[o][k].dst = calls[o][k].dst
               /\ Settled(o, k, calls) => Settled(o, k, calls2)

\* RMP_sendTo adds a pending call.
LEMMA CallAdded ==
    ASSUME TypeInv, NEW n \in Node, NEW dst \in Node, SendTo(n, dst)
    PROVE  /\ sent' \in Calls
           /\ Len(sent[n]) \in Nat
           /\ Len(sent'[n]) = Len(sent[n]) + 1
           /\ sent'[n][Len(sent[n]) + 1] = [dst |-> dst, result |-> "pending"]
           /\ \A k \in 1..Len(sent[n]) : sent'[n][k] = sent[n][k]
           /\ \A m \in Node \ {n} : sent'[m] = sent[m]
           /\ Grows(sent, sent')
<1> DEFINE call == [dst |-> dst, result |-> "pending"]
<1>1. sent \in Calls /\ call \in Call
  BY DEF TypeInv, TypeOK, Calls, Call
<1>2. sent' = [sent EXCEPT ![n] = Append(@, call)]
  BY DEF SendTo
<1>3. /\ Append(sent[n], call) \in Seq(Call)
      /\ Len(Append(sent[n], call)) = Len(sent[n]) + 1
      /\ \A k \in 1..Len(sent[n]) : Append(sent[n], call)[k] = sent[n][k]
      /\ Append(sent[n], call)[Len(sent[n]) + 1] = call
      /\ Len(sent[n]) \in Nat
  BY <1>1, AppendProperties DEF Calls
<1>4. /\ sent' \in Calls
      /\ sent'[n] = Append(sent[n], call)
      /\ \A m \in Node \ {n} : sent'[m] = sent[m]
  BY <1>1, <1>2, <1>3 DEF Calls
<1>5. \A m \in Node : Len(sent[m]) \in Nat
  BY <1>1 DEF Calls
<1>6. Grows(sent, sent')
  <2> SUFFICES ASSUME NEW o \in Node
               PROVE  /\ Len(sent[o]) <= Len(sent'[o])
                      /\ \A k \in 1..Len(sent[o]) : sent'[o][k] = sent[o][k]
    BY DEF Grows, Settled
  <2>1. CASE o = n
    BY <1>3, <1>4, <2>1
  <2>2. CASE o # n
    BY <1>4, <1>5, <2>2
  <2> QED BY <2>1, <2>2
<1> QED BY <1>3, <1>4, <1>6

\* The end of attemptSend settles the one pending call.
LEMMA CallSettled ==
    ASSUME TypeInv, NEW n \in Node, inSend[n],
           NEW r \in {"ok", "timeout", "error"}, Return(n, r)
    PROVE  /\ sent' \in Calls
           /\ Len(sent[n]) \in Nat
           /\ Len(sent'[n]) = Len(sent[n])
           /\ \A k \in 1..Len(sent[n]) : sent'[n][k].result # "pending"
           /\ \A m \in Node \ {n} : sent'[m] = sent[m]
           /\ Grows(sent, sent')
<1> DEFINE id   == sendBuffer[n].id
           call == [sent[n][id] EXCEPT !.result = r]
           new  == [sent[n] EXCEPT ![id] = call]
<1>1. sent \in Calls /\ sent[n] \in Seq(Call) /\ Len(sent[n]) \in Nat
  <2>1. sent \in Calls
    BY DEF TypeInv, TypeOK, Calls, Call
  <2> QED BY <2>1 DEF Calls
<1>2. id = Len(sent[n]) /\ id \in 1..Len(sent[n])
  BY <1>1 DEF TypeInv, SendingInv
<1>3. sent[n][id] \in Call
  BY <1>1, <1>2, ElementOfSeq
<1>4. /\ call \in Call
      /\ call.dst = sent[n][id].dst
      /\ call.result = r
  BY <1>3 DEF Call
<1>5. sent' = [sent EXCEPT ![n] = new]
  BY <1>1 DEF Return, Calls
<1> HIDE DEF id, call
<1>6. /\ new \in Seq(Call)
      /\ Len(new) = Len(sent[n])
      /\ \A k \in 1..Len(sent[n]) : new[k] = IF k = id THEN call ELSE sent[n][k]
  BY <1>1, <1>2, <1>4, ExceptSeq
<1> HIDE DEF new
<1>7. /\ sent' \in Calls
      /\ sent'[n] = new
      /\ \A m \in Node \ {n} : sent'[m] = sent[m]
  BY <1>1, <1>5, <1>6 DEF Calls
<1>8. \A k \in 1..Len(sent[n]) : k # id => sent[n][k].result # "pending"
  BY <1>2 DEF TypeInv, SendingInv
<1>9. \A k \in 1..Len(sent[n]) : /\ new[k].result # "pending"
                                 /\ new[k].dst = sent[n][k].dst
  BY <1>2, <1>4, <1>6, <1>8
<1>10. \A m \in Node : Len(sent[m]) \in Nat
  BY <1>1 DEF Calls
<1>11. Grows(sent, sent')
  <2> SUFFICES ASSUME NEW o \in Node
               PROVE  /\ Len(sent[o]) <= Len(sent'[o])
                      /\ \A k \in 1..Len(sent[o]) :
                             /\ sent'[o][k].dst = sent[o][k].dst
                             /\ Settled(o, k, sent) => Settled(o, k, sent')
    BY DEF Grows
  <2>1. CASE o = n
    BY <1>1, <1>6, <1>7, <1>9, <2>1 DEF Settled
  <2>2. CASE o # n
    BY <1>7, <1>10, <2>2 DEF Settled
  <2> QED BY <2>1, <2>2
<1> QED BY <1>1, <1>6, <1>7, <1>9, <1>11

Sender == [occupied: BOOLEAN, id: Nat, peer: Node, retries: 0..NUM_RETRIES,
           failed: BOOLEAN]
Handed == [from: Node, origin: Node, id: Nat]

\* TypeOK, with the names the lemmas use.
LEMMA TypeOKUnfolded ==
    TypeOK <=> /\ up \in [Node -> BOOLEAN]
               /\ inSend \in [Node -> BOOLEAN]
               /\ sendBuffer \in [Node -> Sender]
               /\ receiveBuffer \in [Node -> [Host -> HoldingBuffer]]
               /\ maintained \in [Node -> SUBSET Host]
               /\ net \in Queues
               /\ sent \in Calls
               /\ delivered \in [Node -> Seq(Handed)]
               /\ faults \in 0..MaxFaults
BY DEF TypeOK, Sender, Queues, Calls, Call, Handed

\* The number of faults stays within its bound.
LEMMA FaultsType ==
    ASSUME TypeOK, NEW cond, NEW kind, Fault(kind) \/ FaultIf(cond, kind)
    PROVE  faults' \in 0..MaxFaults
<1>1. faults \in 0..MaxFaults
  BY DEF TypeOK
<1>2. CASE Fault(kind)
  BY <1>1, <1>2 DEF Fault
<1>3. CASE UNCHANGED faults
  BY <1>1, <1>3
<1> QED BY <1>2, <1>3 DEF FaultIf

\* What send_rmp_datagram puts on its way (protocol.c:29-36).
LEMMA DgramType ==
    ASSUME NEW t \in {"DATA", "ACK", "SYN_ACK"}, NEW k \in Nat,
           NEW a \in Node, NEW b \in Node
    PROVE  /\ Dgram(t, k, a, b) \in Datagram
           /\ Dgram(t, k, a, b).type = t
           /\ Dgram(t, k, a, b).id = k
           /\ Dgram(t, k, a, b).src = a
           /\ Dgram(t, k, a, b).dst = b
BY DEF Dgram, Datagram

\* What is known of the datagram a receive call processes.
LEMMA ArrivedType ==
    ASSUME TypeOK, NEW n \in Node, NEW i \in 1..Len(net[n])
    PROVE  /\ net \in Queues
           /\ net[n] \in Seq(Datagram)
           /\ Len(net[n]) \in Nat
           /\ net[n][i] \in Datagram
           /\ net[n][i].id \in Nat
           /\ net[n][i].src \in Node
           /\ HostOf[net[n][i].src] \in Host
           /\ Rest(n, i) \in Queues
<1>1. net \in Queues
  BY TypeOKUnfolded
<1>2. net[n] \in Seq(Datagram)
  BY <1>1 DEF Queues
<1>3. net[n][i] \in Datagram
  BY <1>2, ElementOfSeq
<1>4. net[n][i].id \in Nat /\ net[n][i].src \in Node
  BY <1>3 DEF Datagram
<1>5. HostOf[net[n][i].src] \in Host
  BY <1>4
<1>6. Rest(n, i) \in Queues
  BY <1>1, RestProperties
<1>7. Len(net[n]) \in Nat
  BY <1>2
<1> QED BY <1>1, <1>2, <1>3, <1>4, <1>5, <1>6, <1>7

\* A holding buffer as it is allocated (message_buffers.c:56-58).
LEMMA EmptyBufferType ==
    ASSUME NEW n \in Node
    PROVE  EmptyBuffer(n) \in HoldingBuffer /\ ~EmptyBuffer(n).occupied
BY DEF EmptyBuffer, HoldingBuffer

\* A step that starts and ends no RMP_sendTo keeps SendingInv.
LEMMA SendingUnchanged ==
    ASSUME SendingInv, UNCHANGED <<up, inSend, sent>>,
           \A m \in Node : /\ sendBuffer'[m].id = sendBuffer[m].id
                           /\ sendBuffer'[m].peer = sendBuffer[m].peer
    PROVE  SendingInv'
BY DEF SendingInv

\* Every return of attemptSend (rmp.c:257-290) keeps the types and SendingInv.
LEMMA ReturnType ==
    ASSUME TypeInv, NEW n \in Node, inSend[n], UNCHANGED up,
           NEW r \in {"ok", "timeout", "error"}, Return(n, r)
    PROVE  /\ inSend' \in [Node -> BOOLEAN]
           /\ sendBuffer' \in [Node -> Sender]
           /\ sent' \in Calls
           /\ SendingInv'
<1>1. /\ inSend \in [Node -> BOOLEAN]
      /\ sendBuffer \in [Node -> Sender]
  BY TypeOKUnfolded DEF TypeInv
<1>2. inSend' = [inSend EXCEPT ![n] = FALSE]
  BY DEF Return
<1>3. sendBuffer' = [sendBuffer EXCEPT ![n] =
                        [sendBuffer[n] EXCEPT !.occupied = FALSE]]
  BY <1>1 DEF Return
<1>4. [sendBuffer[n] EXCEPT !.occupied = FALSE] \in Sender
  <2>1. sendBuffer[n] \in Sender
    BY <1>1
  <2> QED BY <2>1 DEF Sender
<1>5. /\ inSend' \in [Node -> BOOLEAN]
      /\ sendBuffer' \in [Node -> Sender]
      /\ ~inSend'[n]
      /\ \A m \in Node \ {n} : /\ inSend'[m] = inSend[m]
                               /\ sendBuffer'[m] = sendBuffer[m]
  BY <1>1, <1>2, <1>3, <1>4
<1>6. SendingInv'
  <2> SUFFICES ASSUME NEW m \in Node
               PROVE  /\ \A k \in 1..Len(sent'[m]) :
                             sent'[m][k].result = "pending" => k = Len(sent'[m])
                      /\ up'[m] /\ ~inSend'[m] =>
                             \A k \in 1..Len(sent'[m]) :
                                 sent'[m][k].result # "pending"
                      /\ inSend'[m] =>
                             /\ sendBuffer'[m].id = Len(sent'[m])
                             /\ sendBuffer'[m].id > 0
                             /\ sent'[m][sendBuffer'[m].id].dst =
                                    sendBuffer'[m].peer
                             /\ sent'[m][sendBuffer'[m].id].result = "pending"
    BY DEF SendingInv
  <2>1. CASE m = n
    BY <1>5, <2>1, CallSettled
  <2>2. CASE m # n
    <3>1. sent'[m] = sent[m] /\ up'[m] = up[m]
      BY <2>2, CallSettled
    <3> QED BY <1>5, <2>2, <3>1 DEF TypeInv, SendingInv
  <2> QED BY <2>1, <2>2
<1> QED BY <1>5, <1>6, CallSettled

\* RMP_sendTo (rmp.c:295-312) keeps the types and SendingInv.
LEMMA SendToType ==
    ASSUME TypeInv, NEW n \in Node, NEW dst \in Node, SendTo(n, dst)
    PROVE  TypeOK' /\ SendingInv'
<1> DEFINE id        == Len(sent[n]) + 1
           Buffer(f) == [occupied |-> TRUE, id |-> id, peer |-> dst,
                         retries |-> NUM_RETRIES, failed |-> f]
<1>0. PICK failed \in BOOLEAN :
          /\ sendBuffer' = [sendBuffer EXCEPT ![n] = Buffer(failed)]
          /\ SendData(n, id, dst, failed)
          /\ FaultIf(failed, "sendError")
  BY DEF SendTo
<1> DEFINE buf == Buffer(failed)
<1>1. /\ up \in [Node -> BOOLEAN]
      /\ inSend \in [Node -> BOOLEAN]
      /\ sendBuffer \in [Node -> Sender]
      /\ net \in Queues
  BY TypeOKUnfolded DEF TypeInv
<1>2. /\ up[n] /\ UNCHANGED up
      /\ inSend' = [inSend EXCEPT ![n] = TRUE]
      /\ sendBuffer' = [sendBuffer EXCEPT ![n] = buf]
      /\ net' = net \/ net' = Post(net, Dgram("DATA", id, n, dst))
      /\ faults' \in 0..MaxFaults
      /\ UNCHANGED <<receiveBuffer, maintained, delivered>>
  BY <1>0, FaultsType DEF SendTo, SendData, TypeInv
<1>3. id \in Nat /\ id > 0
  BY CallAdded
<1>4. buf \in Sender /\ buf.id = id /\ buf.peer = dst
  BY <1>3 DEF Sender
<1>5. net' \in Queues
  <2>1. Post(net, Dgram("DATA", id, n, dst)) \in Queues
    BY <1>1, <1>3, DgramType, PostProperties
  <2> QED BY <1>1, <1>2, <2>1
<1> HIDE DEF buf
<1>6. /\ inSend' \in [Node -> BOOLEAN]
      /\ sendBuffer' \in [Node -> Sender]
      /\ inSend'[n]
      /\ sendBuffer'[n] = buf
      /\ \A m \in Node \ {n} : /\ inSend'[m] = inSend[m]
                               /\ sendBuffer'[m] = sendBuffer[m]
  BY <1>1, <1>2, <1>4
<1>7. TypeOK'
  <2>1. sent' \in Calls
    BY CallAdded
  <2> QED BY <1>1, <1>2, <1>5, <1>6, <2>1, TypeOKUnfolded DEF TypeInv, TypeOK,
             Sender, Queues, Calls, Call
<1>8. SendingInv'
  <2> SUFFICES ASSUME NEW m \in Node
               PROVE  /\ \A k \in 1..Len(sent'[m]) :
                             sent'[m][k].result = "pending" => k = Len(sent'[m])
                      /\ up'[m] /\ ~inSend'[m] =>
                             \A k \in 1..Len(sent'[m]) :
                                 sent'[m][k].result # "pending"
                      /\ inSend'[m] =>
                             /\ sendBuffer'[m].id = Len(sent'[m])
                             /\ sendBuffer'[m].id > 0
                             /\ sent'[m][sendBuffer'[m].id].dst =
                                    sendBuffer'[m].peer
                             /\ sent'[m][sendBuffer'[m].id].result = "pending"
    BY DEF SendingInv
  <2>1. CASE m = n
    <3>1. \A k \in 1..Len(sent[n]) : sent[n][k].result # "pending"
      BY <1>2 DEF SendTo, TypeInv, SendingInv
    <3>2. /\ Len(sent[n]) \in Nat
          /\ Len(sent'[n]) = id
          /\ sent'[n][id] = [dst |-> dst, result |-> "pending"]
          /\ \A k \in 1..Len(sent[n]) : sent'[n][k] = sent[n][k]
      BY CallAdded
    <3>3. \A k \in 1..Len(sent'[n]) :
             sent'[n][k].result = "pending" => k = Len(sent'[n])
      <4>1. \A k \in 1..Len(sent'[n]) : k # id => k \in 1..Len(sent[n])
        BY <3>2
      <4> QED BY <3>1, <3>2, <4>1
    <3>4. /\ sendBuffer'[n].id = id
          /\ sendBuffer'[n].peer = dst
          /\ sent'[n][id].dst = dst
          /\ sent'[n][id].result = "pending"
      BY <1>4, <1>6, <3>2
    <3> QED BY <1>3, <1>6, <2>1, <3>2, <3>3, <3>4
  <2>2. CASE m # n
    <3>1. sent'[m] = sent[m] /\ up'[m] = up[m]
      BY <1>2, <2>2, CallAdded
    <3>2. inSend'[m] = inSend[m] /\ sendBuffer'[m] = sendBuffer[m]
      BY <1>6, <2>2
    <3>3. /\ \A k \in 1..Len(sent[m]) :
                 sent[m][k].result = "pending" => k = Len(sent[m])
          /\ up[m] /\ ~inSend[m] =>
                 \A k \in 1..Len(sent[m]) : sent[m][k].result # "pending"
          /\ inSend[m] =>
                 /\ sendBuffer[m].id = Len(sent[m])
                 /\ sendBuffer[m].id > 0
                 /\ sent[m][sendBuffer[m].id].dst = sendBuffer[m].peer
                 /\ sent[m][sendBuffer[m].id].result = "pending"
      BY DEF TypeInv, SendingInv
    <3> QED BY <3>1, <3>2, <3>3
  <2> QED BY <2>1, <2>2
<1> QED BY <1>7, <1>8

\* A retransmission or its end (rmp.c:254-265) keeps the types and SendingInv.
LEMMA TimeoutType ==
    ASSUME TypeInv, NEW n \in Node, Timeout(n)
    PROVE  TypeOK' /\ SendingInv'
<1>1. /\ up \in [Node -> BOOLEAN]
      /\ sendBuffer \in [Node -> Sender]
      /\ net \in Queues
  BY TypeOKUnfolded DEF TypeInv
<1>2. CASE Retransmit(n)
  <2>0. PICK failed \in BOOLEAN :
            /\ sendBuffer' = [sendBuffer EXCEPT ![n].retries = @ - 1,
                                                ![n].failed = failed]
            /\ SendData(n, sendBuffer[n].id, sendBuffer[n].peer, failed)
            /\ LateOr(n, failed)
    BY <1>2 DEF Retransmit
  <2> DEFINE buf == [sendBuffer[n] EXCEPT !.retries = @ - 1, !.failed = failed]
  <2>1. /\ sendBuffer[n] \in Sender
        /\ sendBuffer[n].retries > 0
        /\ sendBuffer' = [sendBuffer EXCEPT ![n] = buf]
        /\ \/ net' = net
           \/ net' = Post(net, Dgram("DATA", sendBuffer[n].id, n,
                                     sendBuffer[n].peer))
        /\ UNCHANGED <<up, inSend, receiveBuffer, maintained, sent, delivered>>
    BY <1>1, <1>2, <2>0 DEF Retransmit, SendData
  <2>2. /\ buf \in Sender
        /\ buf.id = sendBuffer[n].id
        /\ buf.peer = sendBuffer[n].peer
        /\ sendBuffer[n].id \in Nat
        /\ sendBuffer[n].peer \in Node
    <3> DEFINE once == [sendBuffer[n] EXCEPT !.retries = @ - 1]
    <3>1. /\ once \in Sender
          /\ once.id = sendBuffer[n].id /\ once.peer = sendBuffer[n].peer
          /\ sendBuffer[n].id \in Nat /\ sendBuffer[n].peer \in Node
      BY <2>1 DEF Sender
    <3>2. buf = [once EXCEPT !.failed = failed]
      BY <2>1 DEF Sender
    <3> HIDE DEF once, buf
    <3>3. /\ buf \in Sender /\ buf.id = once.id /\ buf.peer = once.peer
      BY <3>1, <3>2 DEF Sender
    <3> QED BY <3>1, <3>3
  <2>3. net' \in Queues
    <3>1. Post(net, Dgram("DATA", sendBuffer[n].id, n, sendBuffer[n].peer))
              \in Queues
      BY <1>1, <2>2, DgramType, PostProperties
    <3> QED BY <1>1, <2>1, <3>1
  <2>4. faults' \in 0..MaxFaults
    BY <2>0, FaultsType DEF TypeInv, LateOr
  <2> HIDE DEF buf
  <2>5. /\ sendBuffer' \in [Node -> Sender]
        /\ \A m \in Node : /\ sendBuffer'[m].id = sendBuffer[m].id
                           /\ sendBuffer'[m].peer = sendBuffer[m].peer
    BY <1>1, <2>1, <2>2 DEF buf
  <2>6. TypeOK'
    BY <2>1, <2>3, <2>4, <2>5 DEF TypeInv, TypeOK, Sender, Queues
  <2>7. SendingInv'
    BY <2>1, <2>5, SendingUnchanged DEF TypeInv
  <2> QED BY <2>6, <2>7
<1>3. CASE GiveUp(n)
  <2>1. /\ inSend[n]
        /\ Return(n, "timeout")
        /\ FaultIf(Late(n), "delay")
        /\ UNCHANGED <<up, receiveBuffer, maintained, net, delivered>>
    BY <1>3 DEF GiveUp
  <2>2. faults' \in 0..MaxFaults
    BY <2>1, FaultsType DEF TypeInv
  <2>3. /\ inSend' \in [Node -> BOOLEAN]
        /\ sendBuffer' \in [Node -> Sender]
        /\ sent' \in Calls
        /\ SendingInv'
    BY <2>1, ReturnType
  <2> QED BY <2>1, <2>2, <2>3 DEF TypeInv, TypeOK, Sender, Calls, Call
<1> QED BY <1>2, <1>3 DEF Timeout

\* A holding buffer filled from a datagram.
LEMMA StoreType ==
    ASSUME TypeInv, NEW n \in Node, NEW i \in 1..Len(net[n]),
           Store(n, net[n][i])
    PROVE  /\ receiveBuffer' \in [Node -> [Host -> HoldingBuffer]]
           /\ \A m \in Node \ {n} : receiveBuffer'[m] = receiveBuffer[m]
           /\ \A h \in Host \ {HostOf[net[n][i].src]} :
                  receiveBuffer'[n][h] = receiveBuffer[n][h]
           /\ receiveBuffer'[n][HostOf[net[n][i].src]] =
                  [occupied |-> TRUE, id |-> net[n][i].id,
                   from |-> net[n][i].src, retries |-> NUM_RETRIES]
<1> DEFINE d   == net[n][i]
           buf == [occupied |-> TRUE, id |-> d.id, from |-> d.src,
                   retries |-> NUM_RETRIES]
           row == [receiveBuffer[n] EXCEPT ![HostOf[d.src]] = buf]
<1>1. /\ d.id \in Nat /\ d.src \in Node /\ HostOf[d.src] \in Host
      /\ receiveBuffer \in [Node -> [Host -> HoldingBuffer]]
  BY ArrivedType, TypeOKUnfolded DEF TypeInv
<1>2. receiveBuffer' = [receiveBuffer EXCEPT ![n] = row]
  BY DEF Store, KeyOf
<1> HIDE DEF d
<1>3. buf \in HoldingBuffer
  <2>1. NUM_RETRIES \in 0..NUM_RETRIES
    OBVIOUS
  <2> QED BY <1>1, <2>1 DEF HoldingBuffer
<1> HIDE DEF buf
<1>4. /\ row \in [Host -> HoldingBuffer]
      /\ row[HostOf[d.src]] = buf
      /\ \A h \in Host \ {HostOf[d.src]} : row[h] = receiveBuffer[n][h]
  BY <1>1, <1>3
<1> HIDE DEF row
<1>5. /\ receiveBuffer' \in [Node -> [Host -> HoldingBuffer]]
      /\ receiveBuffer'[n] = row
      /\ \A m \in Node \ {n} : receiveBuffer'[m] = receiveBuffer[m]
  BY <1>1, <1>2, <1>4
<1> QED BY <1>4, <1>5 DEF buf, d

\* A holding buffer freed.
LEMMA ReleaseType ==
    ASSUME TypeInv, NEW n \in Node, NEW h \in Host, Release(n, h)
    PROVE  /\ receiveBuffer' \in [Node -> [Host -> HoldingBuffer]]
           /\ \A m \in Node \ {n} : receiveBuffer'[m] = receiveBuffer[m]
           /\ \A g \in Host \ {h} : receiveBuffer'[n][g] = receiveBuffer[n][g]
           /\ ~receiveBuffer'[n][h].occupied
<1> DEFINE row == [receiveBuffer[n] EXCEPT ![h] = EmptyBuffer(n)]
<1>1. receiveBuffer \in [Node -> [Host -> HoldingBuffer]]
  BY TypeOKUnfolded DEF TypeInv
<1>2. receiveBuffer' = [receiveBuffer EXCEPT ![n] = row]
  BY <1>1 DEF Release
<1>3. /\ row \in [Host -> HoldingBuffer]
      /\ ~row[h].occupied
      /\ \A g \in Host \ {h} : row[g] = receiveBuffer[n][g]
  BY <1>1, EmptyBufferType
<1> HIDE DEF row
<1>4. /\ receiveBuffer' \in [Node -> [Host -> HoldingBuffer]]
      /\ receiveBuffer'[n] = row
      /\ \A m \in Node \ {n} : receiveBuffer'[m] = receiveBuffer[m]
  BY <1>1, <1>2, <1>3
<1> QED BY <1>3, <1>4

\* The end of a receive call keeps the type of what it maintained.
LEMMA ReceivedType ==
    ASSUME TypeOK, NEW n \in Node, Received(n)
    PROVE  maintained' \in [Node -> SUBSET Host]
BY DEF TypeOK, Received

\* A DATA (rmp.c:98-119) keeps the types and SendingInv.
LEMMA ReceiveDataType ==
    ASSUME TypeInv, NEW n \in Node, NEW i \in 1..Len(net[n]), ReceiveData(n, i)
    PROVE  TypeOK' /\ SendingInv'
<1> DEFINE d == net[n][i]
<1>1. /\ FaultIf(i # 1, "reorder")
      /\ Received(n)
      /\ Store(n, d)
      /\ net' = Post(Rest(n, i), Dgram("ACK", d.id, n, d.src))
      /\ UNCHANGED <<up, inSend, sendBuffer, sent, delivered>>
  BY DEF ReceiveData
<1>2. /\ Rest(n, i) \in Queues /\ d.id \in Nat /\ d.src \in Node
  BY ArrivedType DEF TypeInv
<1>3. net' \in Queues
  BY <1>1, <1>2, DgramType, PostProperties
<1>4. faults' \in 0..MaxFaults /\ maintained' \in [Node -> SUBSET Host]
  BY <1>1, FaultsType, ReceivedType DEF TypeInv
<1>5. receiveBuffer' \in [Node -> [Host -> HoldingBuffer]]
  BY <1>1, StoreType
<1>6. TypeOK'
  BY <1>1, <1>3, <1>4, <1>5 DEF TypeInv, TypeOK, Queues
<1>7. SendingInv'
  BY <1>1, SendingUnchanged DEF TypeInv
<1> QED BY <1>6, <1>7

\* An ACK (rmp.c:120-131) keeps the types and SendingInv.
LEMMA ReceiveAckType ==
    ASSUME TypeInv, NEW n \in Node, NEW i \in 1..Len(net[n]), ReceiveAck(n, i)
    PROVE  TypeOK' /\ SendingInv'
<1> DEFINE d       == net[n][i]
           matches == d.id = sendBuffer[n].id
<1>1. /\ FaultIf(i # 1, "reorder")
      /\ Received(n)
      /\ net' = Post(Rest(n, i), Dgram("SYN_ACK", d.id, n, d.src))
      /\ \/ inSend[n] /\ (Return(n, "ok") \/ Return(n, "error"))
         \/ /\ sendBuffer' = [sendBuffer EXCEPT ![n].occupied = @ /\ ~matches]
            /\ UNCHANGED <<inSend, sent>>
      /\ UNCHANGED <<up, receiveBuffer, delivered>>
  BY DEF ReceiveAck
<1>2. /\ Rest(n, i) \in Queues /\ d.id \in Nat /\ d.src \in Node
  BY ArrivedType DEF TypeInv
<1>3. net' \in Queues
  BY <1>1, <1>2, DgramType, PostProperties
<1>4. faults' \in 0..MaxFaults /\ maintained' \in [Node -> SUBSET Host]
  BY <1>1, FaultsType, ReceivedType DEF TypeInv
<1>5. CASE inSend[n] /\ (Return(n, "ok") \/ Return(n, "error"))
  <2>1. /\ inSend' \in [Node -> BOOLEAN]
        /\ sendBuffer' \in [Node -> Sender]
        /\ sent' \in Calls
        /\ SendingInv'
    BY <1>1, <1>5, ReturnType
  <2> QED BY <1>1, <1>3, <1>4, <2>1 DEF TypeInv, TypeOK, Queues, Sender, Calls, Call
<1>6. CASE /\ sendBuffer' = [sendBuffer EXCEPT ![n].occupied = @ /\ ~matches]
           /\ UNCHANGED <<inSend, sent>>
  <2> DEFINE buf == [sendBuffer[n] EXCEPT !.occupied = @ /\ ~matches]
  <2>1. sendBuffer \in [Node -> Sender] /\ sendBuffer[n] \in Sender
    BY TypeOKUnfolded DEF TypeInv
  <2> HIDE DEF matches
  <2>2. (sendBuffer[n].occupied /\ ~matches) \in BOOLEAN
    OBVIOUS
  <2>3. /\ buf \in Sender
        /\ buf.id = sendBuffer[n].id
        /\ buf.peer = sendBuffer[n].peer
    BY <2>1, <2>2 DEF Sender
  <2>4. sendBuffer' = [sendBuffer EXCEPT ![n] = buf]
    BY <1>6, <2>1
  <2> HIDE DEF buf
  <2>5. /\ sendBuffer' \in [Node -> Sender]
        /\ \A m \in Node : /\ sendBuffer'[m].id = sendBuffer[m].id
                           /\ sendBuffer'[m].peer = sendBuffer[m].peer
    BY <2>1, <2>3, <2>4
  <2>6. TypeOK'
    BY <1>1, <1>3, <1>4, <1>6, <2>5 DEF TypeInv, TypeOK, Queues, Sender
  <2>7. SendingInv'
    BY <1>1, <1>6, <2>5, SendingUnchanged DEF TypeInv
  <2> QED BY <2>6, <2>7
<1> QED BY <1>1, <1>5, <1>6

\* A failing reply (rmp.c:116, 123) keeps the types and SendingInv.
LEMMA ReplyFailsType ==
    ASSUME TypeInv, NEW n \in Node, NEW i \in 1..Len(net[n]), ReplyFails(n, i)
    PROVE  TypeOK' /\ SendingInv'
<1>1. /\ Fault("sendError")
      /\ Received(n)
      /\ Store(n, net[n][i]) \/ UNCHANGED receiveBuffer
      /\ net' = Rest(n, i)
      /\ \/ inSend[n] /\ Return(n, "error")
         \/ UNCHANGED <<inSend, sendBuffer, sent>>
      /\ UNCHANGED <<up, delivered>>
  BY DEF ReplyFails
<1>2. net' \in Queues
  BY <1>1, ArrivedType DEF TypeInv
<1>3. faults' \in 0..MaxFaults /\ maintained' \in [Node -> SUBSET Host]
  BY <1>1, FaultsType, ReceivedType DEF TypeInv
<1>4. receiveBuffer' \in [Node -> [Host -> HoldingBuffer]]
  BY <1>1, StoreType, TypeOKUnfolded DEF TypeInv
<1>5. CASE inSend[n] /\ Return(n, "error")
  <2>1. /\ inSend' \in [Node -> BOOLEAN]
        /\ sendBuffer' \in [Node -> Sender]
        /\ sent' \in Calls
        /\ SendingInv'
    BY <1>1, <1>5, ReturnType
  <2> QED BY <1>1, <1>2, <1>3, <1>4, <2>1
             DEF TypeInv, TypeOK, Queues, Sender, Calls, Call
<1>6. CASE UNCHANGED <<inSend, sendBuffer, sent>>
  <2>1. TypeOK'
    BY <1>1, <1>2, <1>3, <1>4, <1>6 DEF TypeInv, TypeOK, Queues
  <2>2. SendingInv'
    BY <1>1, <1>6, SendingUnchanged DEF TypeInv
  <2> QED BY <2>1, <2>2
<1> QED BY <1>1, <1>5, <1>6

\* What a SYN_ACK changes.
LEMMA SynAckCases ==
    ASSUME NEW n \in Node, NEW i, ReceiveSynAck(n, i)
    PROVE  LET d      == net[n][i]
               buffer == receiveBuffer[n][HostOf[d.src]]
           IN  \/ /\ buffer.occupied
                  /\ buffer.id = d.id
                  /\ Release(n, HostOf[d.src])
                  /\ \/ UNCHANGED delivered
                     \/ delivered' = [delivered EXCEPT ![n] =
                            Append(@, [from |-> d.src, origin |-> buffer.from,
                                       id |-> buffer.id])]
               \/ UNCHANGED <<receiveBuffer, delivered>>
BY DEF ReceiveSynAck, Completes, KeyOf

\* A SYN_ACK (rmp.c:132-143) keeps the types and SendingInv.
LEMMA ReceiveSynAckType ==
    ASSUME TypeInv, NEW n \in Node, NEW i \in 1..Len(net[n]), ReceiveSynAck(n, i)
    PROVE  TypeOK' /\ SendingInv'
<1> DEFINE d      == net[n][i]
           buffer == receiveBuffer[n][HostOf[d.src]]
           m      == [from |-> d.src, origin |-> buffer.from, id |-> buffer.id]
<1>1. /\ FaultIf(i # 1, "reorder")
      /\ Received(n)
      /\ net' = Rest(n, i)
      /\ UNCHANGED <<up, inSend, sendBuffer, sent>>
  BY DEF ReceiveSynAck
<1>2. /\ net' \in Queues
      /\ d.src \in Node
      /\ HostOf[d.src] \in Host
  BY <1>1, ArrivedType DEF TypeInv
<1>3. faults' \in 0..MaxFaults /\ maintained' \in [Node -> SUBSET Host]
  BY <1>1, FaultsType, ReceivedType DEF TypeInv
<1>4. /\ receiveBuffer \in [Node -> [Host -> HoldingBuffer]]
      /\ delivered \in [Node -> Seq(Handed)]
  BY TypeOKUnfolded DEF TypeInv
<1>5. buffer \in HoldingBuffer
  BY <1>2, <1>4
<1>6. m \in Handed
  BY <1>2, <1>5 DEF HoldingBuffer, Handed
<1>7. receiveBuffer' \in [Node -> [Host -> HoldingBuffer]]
  BY <1>2, <1>4, SynAckCases, ReleaseType
<1>8. delivered' \in [Node -> Seq(Handed)]
  <2>1. CASE UNCHANGED delivered
    BY <1>4, <2>1
  <2>2. CASE delivered' = [delivered EXCEPT ![n] = Append(@, m)]
    <3>1. Append(delivered[n], m) \in Seq(Handed)
      BY <1>4, <1>6, AppendProperties
    <3> QED BY <1>4, <2>2, <3>1
  <2> QED BY <2>1, <2>2, SynAckCases
<1>9. TypeOK'
  BY <1>1, <1>2, <1>3, <1>7, <1>8 DEF TypeInv, TypeOK, Queues, Handed
<1>10. SendingInv'
  BY <1>1, SendingUnchanged DEF TypeInv
<1> QED BY <1>9, <1>10

\* What the maintenance of one buffer element changes in the receive buffers.
LEMMA MaintainedBuffers ==
    ASSUME TypeInv, NEW n \in Node, NEW h \in Host, MaintainBufferElement(n, h)
    PROVE  /\ receiveBuffer[n][h].occupied
           /\ receiveBuffer[n][h].id \in Nat
           /\ receiveBuffer' \in [Node -> [Host -> HoldingBuffer]]
           /\ \A m \in Node, g \in Host :
                  receiveBuffer'[m][g].occupied =>
                      /\ receiveBuffer[m][g].occupied
                      /\ receiveBuffer'[m][g].id = receiveBuffer[m][g].id
                      /\ receiveBuffer'[m][g].from = receiveBuffer[m][g].from
<1> DEFINE buffer == receiveBuffer[n][h]
           aged   == [buffer EXCEPT !.retries = @ - 1]
           row    == [receiveBuffer[n] EXCEPT ![h] = aged]
<1>1. receiveBuffer \in [Node -> [Host -> HoldingBuffer]]
  BY TypeOKUnfolded DEF TypeInv
<1>2. buffer.occupied
  BY DEF MaintainBufferElement
<1>3. buffer \in HoldingBuffer
  BY <1>1
<1>4. CASE Release(n, h)
  BY <1>1, <1>2, <1>3, <1>4, ReleaseType DEF HoldingBuffer
<1>5. CASE /\ buffer.retries # 0
           /\ receiveBuffer' = [receiveBuffer EXCEPT ![n][h].retries = @ - 1]
  <2>1. receiveBuffer' = [receiveBuffer EXCEPT ![n] = row]
    BY <1>1, <1>5
  <2> HIDE DEF buffer
  <2>2. /\ aged \in HoldingBuffer
        /\ aged.id = buffer.id
        /\ aged.from = buffer.from
        /\ buffer.id \in Nat
    BY <1>3, <1>5 DEF HoldingBuffer
  <2> HIDE DEF aged
  <2>3. /\ row \in [Host -> HoldingBuffer]
        /\ row[h] = aged
        /\ \A g \in Host \ {h} : row[g] = receiveBuffer[n][g]
    BY <1>1, <2>2
  <2> HIDE DEF row
  <2>4. /\ receiveBuffer' \in [Node -> [Host -> HoldingBuffer]]
        /\ receiveBuffer'[n] = row
        /\ \A m \in Node \ {n} : receiveBuffer'[m] = receiveBuffer[m]
    BY <1>1, <2>1, <2>3
  <2> QED BY <1>2, <2>2, <2>3, <2>4 DEF buffer
<1> QED BY <1>4, <1>5 DEF MaintainBufferElement

\* maintain_buffer_element (rmp.c:46-63) keeps the types and SendingInv.
LEMMA MaintainType ==
    ASSUME TypeInv, NEW n \in Node, NEW h \in Host, MaintainBufferElement(n, h)
    PROVE  TypeOK' /\ SendingInv'
<1> DEFINE buffer == receiveBuffer[n][h]
<1>1. /\ FaultIf(InFlight(n, buffer.from, buffer.id), "delay")
      /\ \/ UNCHANGED net
         \/ \E to \in Node : net' = Post(net, Dgram("ACK", buffer.id, n, to))
      /\ \/ UNCHANGED maintained
         \/ maintained' = [maintained EXCEPT ![n] = @ \cup {h}]
      /\ UNCHANGED <<up, inSend, sendBuffer, sent, delivered>>
  BY DEF MaintainBufferElement
<1>2. /\ receiveBuffer' \in [Node -> [Host -> HoldingBuffer]]
      /\ buffer.id \in Nat
  BY MaintainedBuffers
<1>3. faults' \in 0..MaxFaults
  BY <1>1, FaultsType DEF TypeInv
<1>4. net' \in Queues
  <2>1. net \in Queues
    BY TypeOKUnfolded DEF TypeInv
  <2> HIDE DEF buffer
  <2>2. ASSUME NEW to \in Node
        PROVE  Post(net, Dgram("ACK", buffer.id, n, to)) \in Queues
    BY <1>2, <2>1, DgramType, PostProperties
  <2> QED BY <1>1, <2>1, <2>2
<1>5. maintained' \in [Node -> SUBSET Host]
  <2>1. maintained \in [Node -> SUBSET Host]
    BY TypeOKUnfolded DEF TypeInv
  <2> QED BY <1>1, <2>1
<1>6. TypeOK'
  BY <1>1, <1>2, <1>3, <1>4, <1>5 DEF TypeInv, TypeOK, Queues
<1>7. SendingInv'
  BY <1>1, SendingUnchanged DEF TypeInv
<1> QED BY <1>6, <1>7

\* The loss of a datagram keeps the types and SendingInv.
LEMMA LoseType ==
    ASSUME TypeInv, NEW n \in Node, Lose(n)
    PROVE  TypeOK' /\ SendingInv'
<1>1. PICK i \in 1..Len(net[n]) : net' = Rest(n, i)
  BY DEF Lose, Rest
<1>2. /\ Fault("lose")
      /\ UNCHANGED <<up, inSend, sendBuffer, receiveBuffer, maintained, sent,
                     delivered>>
  BY DEF Lose
<1>3. net' \in Queues /\ faults' \in 0..MaxFaults
  BY <1>1, <1>2, ArrivedType, FaultsType DEF TypeInv
<1> QED BY <1>2, <1>3, SendingUnchanged DEF TypeInv, TypeOK, Queues

\* The duplication of a datagram keeps the types and SendingInv.
LEMMA DuplicateType ==
    ASSUME TypeInv, NEW n \in Node, Duplicate(n)
    PROVE  TypeOK' /\ SendingInv'
<1>1. PICK i \in 1..Len(net[n]) :
          net' = [net EXCEPT ![n] = Append(net[n], net[n][i])]
  BY DEF Duplicate
<1>2. /\ Fault("duplicate")
      /\ UNCHANGED <<up, inSend, sendBuffer, receiveBuffer, maintained, sent,
                     delivered>>
  BY DEF Duplicate
<1>3. /\ net \in Queues
      /\ net[n] \in Seq(Datagram)
      /\ net[n][i] \in Datagram
  BY ArrivedType DEF TypeInv
<1>4. Append(net[n], net[n][i]) \in Seq(Datagram)
  BY <1>3, AppendProperties
<1>5. net' \in Queues /\ faults' \in 0..MaxFaults
  BY <1>1, <1>2, <1>3, <1>4, FaultsType DEF TypeInv, Queues
<1> QED BY <1>2, <1>5, SendingUnchanged DEF TypeInv, TypeOK, Queues

\* The end of a process keeps the types and SendingInv.
LEMMA CrashType ==
    ASSUME TypeInv, NEW n \in Node, Crash(n)
    PROVE  TypeOK' /\ SendingInv'
<1>1. /\ Fault("crash")
      /\ up' = [up EXCEPT ![n] = FALSE]
      /\ inSend' = [inSend EXCEPT ![n] = FALSE]
      /\ receiveBuffer' = [receiveBuffer EXCEPT ![n] =
                              [h \in Host |-> EmptyBuffer(n)]]
      /\ maintained' = [maintained EXCEPT ![n] = {}]
      /\ net' = [net EXCEPT ![n] = <<>>]
      /\ UNCHANGED <<sendBuffer, sent, delivered>>
  BY DEF Crash
<1>2. /\ up \in [Node -> BOOLEAN]
      /\ inSend \in [Node -> BOOLEAN]
      /\ receiveBuffer \in [Node -> [Host -> HoldingBuffer]]
      /\ maintained \in [Node -> SUBSET Host]
      /\ net \in Queues
  BY TypeOKUnfolded DEF TypeInv
<1>3. [h \in Host |-> EmptyBuffer(n)] \in [Host -> HoldingBuffer]
  BY EmptyBufferType
<1>4. receiveBuffer' \in [Node -> [Host -> HoldingBuffer]]
  BY <1>1, <1>2, <1>3
<1>5. net' \in Queues
  BY <1>1, <1>2 DEF Queues
<1>6. faults' \in 0..MaxFaults
  BY <1>1, FaultsType DEF TypeInv
<1>7. /\ up' \in [Node -> BOOLEAN]
      /\ inSend' \in [Node -> BOOLEAN]
      /\ maintained' \in [Node -> SUBSET Host]
  BY <1>1, <1>2
<1>8. TypeOK'
  BY <1>1, <1>4, <1>5, <1>6, <1>7 DEF TypeInv, TypeOK, Queues
<1>9. ~up'[n] /\ ~inSend'[n]
  BY <1>1, <1>2
<1>10. \A m \in Node \ {n} : up'[m] = up[m] /\ inSend'[m] = inSend[m]
  BY <1>1, <1>2
<1>11. SendingInv'
  BY <1>1, <1>9, <1>10 DEF TypeInv, SendingInv
<1> QED BY <1>8, <1>11

\* The initial states have their types, and nobody is sending.
LEMMA TypeInit == Init => TypeInv
<1> SUFFICES ASSUME Init PROVE TypeInv
  OBVIOUS
<1>1. \A n \in Node : [occupied |-> FALSE, id |-> 0, peer |-> n, retries |-> 0,
                       failed |-> FALSE] \in Sender
  BY DEF Sender
<1>2. TypeOK
  BY <1>1, EmptyBufferType, TypeOKUnfolded DEF Init, Queues, Calls
<1>3. SendingInv
  BY DEF Init, SendingInv
<1> QED BY <1>2, <1>3 DEF TypeInv

\* One step per action of Next.
LEMMA TypeStep == TypeInv /\ [Next]_vars => TypeInv'
<1> SUFFICES ASSUME TypeInv, [Next]_vars PROVE TypeOK' /\ SendingInv'
  BY DEF TypeInv
<1>1. CASE UNCHANGED vars
  BY <1>1, SendingUnchanged DEF vars, TypeInv, TypeOK
<1>2. ASSUME NEW n \in Node, NEW dst \in Node, SendTo(n, dst)
      PROVE  TypeOK' /\ SendingInv'
  BY <1>2, SendToType
<1>3. ASSUME NEW n \in Node, Timeout(n)
      PROVE  TypeOK' /\ SendingInv'
  BY <1>3, TimeoutType
<1>4. ASSUME NEW n \in Node, Receive(n)
      PROVE  TypeOK' /\ SendingInv'
  BY <1>4, ReceiveDataType, ReceiveAckType, ReceiveSynAckType DEF Receive
<1>5. ASSUME NEW n \in Node, NEW i \in 1..Len(net[n]), ReplyFails(n, i)
      PROVE  TypeOK' /\ SendingInv'
  BY <1>5, ReplyFailsType
<1>6. ASSUME NEW n \in Node, NEW h \in Host, MaintainBufferElement(n, h)
      PROVE  TypeOK' /\ SendingInv'
  BY <1>6, MaintainType
<1>7. ASSUME NEW n \in Node, Lose(n)
      PROVE  TypeOK' /\ SendingInv'
  BY <1>7, LoseType
<1>8. ASSUME NEW n \in Node, Duplicate(n)
      PROVE  TypeOK' /\ SendingInv'
  BY <1>8, DuplicateType
<1>9. ASSUME NEW n \in Node, Crash(n)
      PROVE  TypeOK' /\ SendingInv'
  BY <1>9, CrashType
<1> QED BY <1>1, <1>2, <1>3, <1>4, <1>5, <1>6, <1>7, <1>8, <1>9 DEF Next

(***************************************************************************)
(* Every variable of RMP keeps its type, on every network: in particular   *)
(* no retry counter falls below zero (rmp.c:53 and rmp.c:258 stop before). *)
(***************************************************************************)
THEOREM TypeCorrect == Spec => []TypeOK
<1>1. Spec => []TypeInv
  BY TypeInit, TypeStep, PTL DEF Spec
<1>2. TypeInv => TypeOK
  BY DEF TypeInv
<1> QED BY <1>1, <1>2, PTL

-----------------------------------------------------------------------------
(* One channel *)

(***************************************************************************)
(* ChannelInv under the changes the steps of RMP make: to one queue, the   *)
(* receive buffers and the messages handed out at its end, or to the calls *)
(* made.  Each lemma is about one node n and any values, not about a step. *)
(***************************************************************************)
Buffers == [Host -> HoldingBuffer]

\* buffers2 holds nothing that buffers does not hold.
Weaker(buffers, buffers2) ==
    \A h \in Host :
        buffers2[h].occupied => /\ buffers[h].occupied
                                /\ buffers2[h].id = buffers[h].id
                                /\ buffers2[h].from = buffers[h].from

\* Freeing a buffer or counting its retries down.
LEMMA ChannelBuffers ==
    ASSUME NEW n \in Node, NEW q \in Seq(Datagram), NEW buffers \in Buffers,
           NEW buffers2 \in Buffers, NEW handed \in Seq(Handed),
           NEW calls \in Calls,
           Weaker(buffers, buffers2), ChannelInv(n, q, buffers, handed, calls)
    PROVE  ChannelInv(n, q, buffers2, handed, calls)
<1>1. Genuine(n, q, buffers2, handed, calls)
  BY DEF ChannelInv, Genuine, Weaker
<1>2. Growing(q, buffers2, handed)
  BY DEF ChannelInv, Growing, Weaker
<1>3. Concluding(q, buffers2, handed, calls)
  BY DEF ChannelInv, Concluding, Weaker
<1> QED BY <1>1, <1>2, <1>3 DEF ChannelInv

\* Calls being added and settled.
LEMMA ChannelCalls ==
    ASSUME NEW n \in Node, NEW q \in Seq(Datagram), NEW buffers \in Buffers,
           NEW handed \in Seq(Handed), NEW calls \in Calls, NEW calls2 \in Calls,
           Grows(calls, calls2), ChannelInv(n, q, buffers, handed, calls)
    PROVE  ChannelInv(n, q, buffers, handed, calls2)
<1>1. \A i \in 1..Len(q) : q[i].src \in Node
  <2>1. \A i \in 1..Len(q) : q[i] \in Datagram
    BY ElementOfSeq
  <2> QED BY <2>1 DEF Datagram
<1>2. \A h \in Host : buffers[h].from \in Node
  BY DEF Buffers, HoldingBuffer
<1>3. \A x \in 1..Len(handed) : handed[x].origin \in Node
  <2>1. \A x \in 1..Len(handed) : handed[x] \in Handed
    BY ElementOfSeq
  <2> QED BY <2>1 DEF Handed
<1>4. ASSUME NEW o \in Node, NEW k, SentTo(n, o, k, calls)
      PROVE  /\ SentTo(n, o, k, calls2)
             /\ Settled(o, k, calls) => Settled(o, k, calls2)
  <2>1. Len(calls[o]) \in Nat /\ Len(calls2[o]) \in Nat
    BY DEF Calls
  <2> QED BY <1>4, <2>1 DEF Grows, SentTo
<1>5. Genuine(n, q, buffers, handed, calls2)
  BY <1>1, <1>2, <1>3, <1>4 DEF ChannelInv, Genuine
<1>6. Growing(q, buffers, handed)
  BY DEF ChannelInv
<1>7. Concluding(q, buffers, handed, calls2)
  <2>1. \A x \in 1..Len(handed) : Settled(handed[x].origin, handed[x].id, calls2)
    BY <1>3, <1>4 DEF ChannelInv, Genuine, Concluding
  <2>2. ASSUME NEW i \in 1..Len(q), q[i].type = "SYN_ACK",
               \/ \E h \in Host : /\ buffers[h].occupied
                                  /\ buffers[h].from = q[i].src
                                  /\ buffers[h].id = q[i].id
               \/ \E j \in 1..i - 1 : /\ IsData(q[j])
                                      /\ q[j].src = q[i].src
                                      /\ q[j].id = q[i].id
        PROVE  /\ Settled(q[i].src, q[i].id, calls2)
               /\ \A j \in i + 1..Len(q) :
                      IsData(q[j]) /\ q[j].src = q[i].src => q[j].id # q[i].id
    <3>1. SentTo(n, q[i].src, q[i].id, calls)
      <4>1. \A j \in 1..i - 1 : j \in 1..Len(q)
        OBVIOUS
      <4> QED BY <2>2, <4>1 DEF ChannelInv, Genuine
    <3> QED BY <1>1, <1>4, <2>2, <3>1 DEF ChannelInv, Concluding
  <2> QED BY <2>1, <2>2 DEF Concluding
<1> QED BY <1>5, <1>6, <1>7 DEF ChannelInv

\* A datagram leaving the queue.
LEMMA ChannelThinner ==
    ASSUME NEW n \in Node, NEW q \in Seq(Datagram), NEW buffers \in Buffers,
           NEW handed \in Seq(Handed), NEW calls \in Calls,
           NEW e \in 1..Len(q), NEW q2 \in Seq(Datagram),
           Len(q2) = Len(q) - 1,
           \A j \in 1..Len(q) - 1 : q2[j] = IF j < e THEN q[j] ELSE q[j + 1],
           ChannelInv(n, q, buffers, handed, calls)
    PROVE  ChannelInv(n, q2, buffers, handed, calls)
<1> DEFINE f(j) == IF j < e THEN j ELSE j + 1
<1>1. Len(q) \in Nat /\ Len(q2) \in Nat
  OBVIOUS
<1>2. \A j \in 1..Len(q2) : f(j) \in 1..Len(q) /\ q2[j] = q[f(j)]
  BY <1>1
<1>3. \A i, j \in 1..Len(q2) : i < j => f(i) < f(j)
  BY <1>1
<1>4. \A i \in 1..Len(q2) : \A j \in 1..i - 1 :
          j \in 1..Len(q2) /\ f(j) \in 1..f(i) - 1
  BY <1>1
<1>5. \A i \in 1..Len(q2) : \A j \in i + 1..Len(q2) :
          j \in 1..Len(q2) /\ f(j) \in f(i) + 1..Len(q)
  BY <1>1
<1> HIDE DEF f
<1>6. Genuine(n, q2, buffers, handed, calls)
  BY <1>2 DEF ChannelInv, Genuine
<1>7. Growing(q2, buffers, handed)
  BY <1>2, <1>3 DEF ChannelInv, Growing
<1>8. Concluding(q2, buffers, handed, calls)
  <2>1. ASSUME NEW i \in 1..Len(q2), q2[i].type = "SYN_ACK",
               \/ \E h \in Host : /\ buffers[h].occupied
                                  /\ buffers[h].from = q2[i].src
                                  /\ buffers[h].id = q2[i].id
               \/ \E j \in 1..i - 1 : /\ IsData(q2[j])
                                      /\ q2[j].src = q2[i].src
                                      /\ q2[j].id = q2[i].id
        PROVE  /\ Settled(q2[i].src, q2[i].id, calls)
               /\ \A j \in i + 1..Len(q2) :
                      IsData(q2[j]) /\ q2[j].src = q2[i].src => q2[j].id # q2[i].id
    <3>1. \/ \E h \in Host : /\ buffers[h].occupied
                             /\ buffers[h].from = q[f(i)].src
                             /\ buffers[h].id = q[f(i)].id
          \/ \E j \in 1..f(i) - 1 : /\ IsData(q[j])
                                    /\ q[j].src = q[f(i)].src
                                    /\ q[j].id = q[f(i)].id
      BY <1>2, <1>4, <2>1
    <3>2. /\ Settled(q[f(i)].src, q[f(i)].id, calls)
          /\ \A j \in f(i) + 1..Len(q) :
                 IsData(q[j]) /\ q[j].src = q[f(i)].src => q[j].id # q[f(i)].id
      BY <1>2, <2>1, <3>1 DEF ChannelInv, Concluding
    <3> QED BY <1>2, <1>5, <3>2
  <2> QED BY <2>1 DEF ChannelInv, Concluding
<1> QED BY <1>6, <1>7, <1>8 DEF ChannelInv

\* A datagram that is no DATA joining the queue.  If it is the SYN_ACK of a
\* message sent to n, that message is settled.
LEMMA ChannelReply ==
    ASSUME NEW n \in Node, NEW q \in Seq(Datagram), NEW buffers \in Buffers,
           NEW handed \in Seq(Handed), NEW calls \in Calls, NEW d \in Datagram,
           ~IsData(d),
           d.type = "SYN_ACK" /\ SentTo(n, d.src, d.id, calls)
               => Settled(d.src, d.id, calls),
           ChannelInv(n, q, buffers, handed, calls)
    PROVE  ChannelInv(n, Append(q, d), buffers, handed, calls)
<1> DEFINE q2 == Append(q, d)
<1>1. /\ Len(q) \in Nat
      /\ Len(q2) = Len(q) + 1
      /\ q2[Len(q) + 1] = d
      /\ \A i \in 1..Len(q) : q2[i] = q[i]
  BY AppendProperties
<1> HIDE DEF q2
<1>2. \A i \in 1..Len(q2) : IsData(q2[i]) => i \in 1..Len(q) /\ IsData(q[i])
  BY <1>1
<1>3. Genuine(n, q2, buffers, handed, calls)
  BY <1>1, <1>2 DEF ChannelInv, Genuine
<1>4. Growing(q2, buffers, handed)
  BY <1>1, <1>2 DEF ChannelInv, Growing
<1>5. Concluding(q2, buffers, handed, calls)
  <2>1. ASSUME NEW i \in 1..Len(q2), q2[i].type = "SYN_ACK",
               \/ \E h \in Host : /\ buffers[h].occupied
                                  /\ buffers[h].from = q2[i].src
                                  /\ buffers[h].id = q2[i].id
               \/ \E j \in 1..i - 1 : /\ IsData(q2[j])
                                      /\ q2[j].src = q2[i].src
                                      /\ q2[j].id = q2[i].id
        PROVE  /\ Settled(q2[i].src, q2[i].id, calls)
               /\ \A j \in i + 1..Len(q2) :
                      IsData(q2[j]) /\ q2[j].src = q2[i].src => q2[j].id # q2[i].id
    <3>1. CASE i \in 1..Len(q)
      <4>1. q2[i] = q[i] /\ \A j \in 1..i - 1 : q2[j] = q[j]
        BY <1>1, <3>1
      <4>2. /\ Settled(q[i].src, q[i].id, calls)
            /\ \A j \in i + 1..Len(q) :
                   IsData(q[j]) /\ q[j].src = q[i].src => q[j].id # q[i].id
        BY <2>1, <3>1, <4>1 DEF ChannelInv, Concluding
      <4>3. \A j \in i + 1..Len(q2) :
                IsData(q2[j]) => j \in i + 1..Len(q) /\ q2[j] = q[j]
        BY <1>1, <1>2, <3>1
      <4> QED BY <4>1, <4>2, <4>3
    <3>2. CASE i = Len(q) + 1
      <4>1. SentTo(n, d.src, d.id, calls)
        <5>1. q2[i] = d /\ \A j \in 1..i - 1 : j \in 1..Len(q) /\ q2[j] = q[j]
          BY <1>1, <3>2
        <5> QED BY <2>1, <5>1 DEF ChannelInv, Genuine
      <4>2. \A j \in i + 1..Len(q2) : FALSE
        BY <1>1, <3>2
      <4> QED BY <1>1, <2>1, <3>2, <4>1, <4>2
    <3> QED BY <1>1, <3>1, <3>2
  <2> QED BY <2>1 DEF ChannelInv, Concluding
<1> QED BY <1>3, <1>4, <1>5 DEF ChannelInv, q2

\* A DATA joining the queue: its sender is working on it and has sent nothing
\* after it.
LEMMA ChannelData ==
    ASSUME NEW n \in Node, NEW q \in Seq(Datagram), NEW buffers \in Buffers,
           NEW handed \in Seq(Handed), NEW calls \in Calls, NEW d \in Datagram,
           IsData(d), SentTo(n, d.src, d.id, calls), d.id = Len(calls[d.src]),
           ~Settled(d.src, d.id, calls),
           ChannelInv(n, q, buffers, handed, calls)
    PROVE  ChannelInv(n, Append(q, d), buffers, handed, calls)
<1> DEFINE q2 == Append(q, d)
<1>1. /\ Len(q) \in Nat
      /\ Len(q2) = Len(q) + 1
      /\ q2[Len(q) + 1] = d
      /\ \A i \in 1..Len(q) : q2[i] = q[i]
  BY AppendProperties
<1>2. d.src \in Node /\ d.id \in Nat /\ d.type # "SYN_ACK"
  BY DEF Datagram, IsData
<1> HIDE DEF q2
<1>3. \A i \in 1..Len(q2) : i \in 1..Len(q) \/ i = Len(q) + 1
  BY <1>1
<1>4. \A k \in 1..Len(calls[d.src]) : k \in Nat /\ k <= d.id
  BY <1>2
<1>5. Genuine(n, q2, buffers, handed, calls)
  BY <1>1, <1>3 DEF ChannelInv, Genuine
<1>6. Growing(q2, buffers, handed)
  <2>1. ASSUME NEW i \in 1..Len(q), IsData(q[i]), q[i].src = d.src
        PROVE  q[i].id <= d.id
    BY <1>4, <2>1 DEF ChannelInv, Genuine, SentTo
  <2>2. ASSUME NEW h \in Host, buffers[h].occupied, buffers[h].from = d.src
        PROVE  buffers[h].id <= d.id
    BY <1>4, <2>2 DEF ChannelInv, Genuine, SentTo
  <2>3. ASSUME NEW x \in 1..Len(handed), handed[x].origin = d.src
        PROVE  handed[x].id < d.id
    <3>1. handed[x].id \in Nat /\ handed[x].id <= d.id
      BY <1>4, <2>3 DEF ChannelInv, Genuine, SentTo
    <3>2. handed[x].id # d.id
      BY <2>3 DEF ChannelInv, Concluding
    <3> QED BY <1>2, <3>1, <3>2
  <2>4. \A i, j \in 1..Len(q2) :
            i < j /\ IsData(q2[i]) /\ IsData(q2[j]) /\ q2[i].src = q2[j].src
                => q2[i].id <= q2[j].id
    <3> SUFFICES ASSUME NEW i \in 1..Len(q2), NEW j \in 1..Len(q2), i < j,
                        IsData(q2[i]), IsData(q2[j]), q2[i].src = q2[j].src
                 PROVE  q2[i].id <= q2[j].id
      OBVIOUS
    <3>1. i \in 1..Len(q)
      BY <1>1
    <3>2. CASE j \in 1..Len(q)
      BY <1>1, <3>1, <3>2 DEF ChannelInv, Growing
    <3>3. CASE j = Len(q) + 1
      BY <1>1, <2>1, <3>1, <3>3
    <3> QED BY <1>3, <3>2, <3>3
  <2>5. \A h \in Host, i \in 1..Len(q2) :
            buffers[h].occupied /\ IsData(q2[i]) /\ q2[i].src = buffers[h].from
                => buffers[h].id <= q2[i].id
    BY <1>1, <1>3, <2>2 DEF ChannelInv, Growing
  <2>6. \A x \in 1..Len(handed), i \in 1..Len(q2) :
            IsData(q2[i]) /\ q2[i].src = handed[x].origin
                => handed[x].id < q2[i].id
    BY <1>1, <1>3, <2>3 DEF ChannelInv, Growing
  <2> QED BY <2>4, <2>5, <2>6 DEF ChannelInv, Growing
<1>7. Concluding(q2, buffers, handed, calls)
  <2>1. ASSUME NEW i \in 1..Len(q2), q2[i].type = "SYN_ACK",
               \/ \E h \in Host : /\ buffers[h].occupied
                                  /\ buffers[h].from = q2[i].src
                                  /\ buffers[h].id = q2[i].id
               \/ \E j \in 1..i - 1 : /\ IsData(q2[j])
                                      /\ q2[j].src = q2[i].src
                                      /\ q2[j].id = q2[i].id
        PROVE  /\ Settled(q2[i].src, q2[i].id, calls)
               /\ \A j \in i + 1..Len(q2) :
                      IsData(q2[j]) /\ q2[j].src = q2[i].src => q2[j].id # q2[i].id
    <3>1. i \in 1..Len(q)
      BY <1>1, <1>2, <1>3, <2>1
    <3>2. q2[i] = q[i] /\ \A j \in 1..i - 1 : q2[j] = q[j]
      BY <1>1, <3>1
    <3>3. /\ Settled(q[i].src, q[i].id, calls)
          /\ \A j \in i + 1..Len(q) :
                 IsData(q[j]) /\ q[j].src = q[i].src => q[j].id # q[i].id
      <4>1. /\ q[i].type = "SYN_ACK"
            /\ \/ \E h \in Host : /\ buffers[h].occupied
                                  /\ buffers[h].from = q[i].src
                                  /\ buffers[h].id = q[i].id
               \/ \E j \in 1..i - 1 : /\ IsData(q[j])
                                      /\ q[j].src = q[i].src
                                      /\ q[j].id = q[i].id
        BY <2>1, <3>2
      <4> QED BY <3>1, <4>1 DEF ChannelInv, Concluding
    <3>4. \A j \in i + 1..Len(q2) :
              (j \in i + 1..Len(q) /\ q2[j] = q[j]) \/ q2[j] = d
      BY <1>1, <1>3, <3>1
    <3> QED BY <3>2, <3>3, <3>4
  <2> QED BY <2>1 DEF ChannelInv, Concluding
<1> QED BY <1>5, <1>6, <1>7 DEF ChannelInv, q2

\* Storing the DATA at the head of the queue.
LEMMA ChannelStore ==
    ASSUME NEW n \in Node, NEW q \in Seq(Datagram), NEW buffers \in Buffers,
           NEW buffers2 \in Buffers, NEW handed \in Seq(Handed),
           NEW calls \in Calls, q # <<>>, IsData(q[1]),
           \A h \in Host \ {HostOf[q[1].src]} : buffers2[h] = buffers[h],
           buffers2[HostOf[q[1].src]].id = q[1].id,
           buffers2[HostOf[q[1].src]].from = q[1].src,
           ChannelInv(n, q, buffers, handed, calls)
    PROVE  ChannelInv(n, q, buffers2, handed, calls)
<1> DEFINE key == HostOf[q[1].src]
<1>1. Len(q) \in Nat /\ 1 \in 1..Len(q)
  BY EmptySeq
<1>2. q[1] \in Datagram
  BY <1>1, ElementOfSeq
<1>3. key \in Host /\ q[1].id \in Nat
  BY <1>2 DEF Datagram
<1>4. \A h \in Host : h = key \/ buffers2[h] = buffers[h]
  OBVIOUS
<1>5. buffers2[key].id = q[1].id /\ buffers2[key].from = q[1].src
  OBVIOUS
<1>6. key = HostOf[buffers2[key].from]
  BY <1>5
<1> HIDE DEF key
<1>7. Genuine(n, q, buffers2, handed, calls)
  <2>1. SentTo(n, q[1].src, q[1].id, calls)
    BY <1>1 DEF ChannelInv, Genuine
  <2>2. ASSUME NEW h \in Host, buffers2[h].occupied
        PROVE  /\ HostOf[buffers2[h].from] = h
               /\ SentTo(n, buffers2[h].from, buffers2[h].id, calls)
    <3>1. CASE h = key
      BY <1>5, <1>6, <2>1, <3>1
    <3>2. CASE buffers2[h] = buffers[h]
      BY <2>2, <3>2 DEF ChannelInv, Genuine
    <3> QED BY <1>4, <3>1, <3>2
  <2> QED BY <2>2 DEF ChannelInv, Genuine
<1>8. Growing(q, buffers2, handed)
  <2>1. ASSUME NEW i \in 1..Len(q), IsData(q[i]), q[i].src = q[1].src
        PROVE  q[1].id <= q[i].id
    BY <1>1, <1>3, <2>1 DEF ChannelInv, Growing
  <2>2. ASSUME NEW x \in 1..Len(handed), q[1].src = handed[x].origin
        PROVE  handed[x].id < q[1].id
    BY <1>1, <2>2 DEF ChannelInv, Growing
  <2>3. \A h \in Host, i \in 1..Len(q) :
            buffers2[h].occupied /\ IsData(q[i]) /\ q[i].src = buffers2[h].from
                => buffers2[h].id <= q[i].id
    BY <1>4, <1>5, <2>1 DEF ChannelInv, Growing
  <2>4. \A x \in 1..Len(handed), h \in Host :
            buffers2[h].occupied /\ buffers2[h].from = handed[x].origin
                => handed[x].id < buffers2[h].id
    BY <1>4, <1>5, <2>2 DEF ChannelInv, Growing
  <2> QED BY <2>3, <2>4 DEF ChannelInv, Growing
<1>9. Concluding(q, buffers2, handed, calls)
  <2>1. ASSUME NEW i \in 1..Len(q), q[i].type = "SYN_ACK",
               \/ \E h \in Host : /\ buffers2[h].occupied
                                  /\ buffers2[h].from = q[i].src
                                  /\ buffers2[h].id = q[i].id
               \/ \E j \in 1..i - 1 : /\ IsData(q[j])
                                      /\ q[j].src = q[i].src
                                      /\ q[j].id = q[i].id
        PROVE  \/ \E h \in Host : /\ buffers[h].occupied
                                  /\ buffers[h].from = q[i].src
                                  /\ buffers[h].id = q[i].id
               \/ \E j \in 1..i - 1 : /\ IsData(q[j])
                                      /\ q[j].src = q[i].src
                                      /\ q[j].id = q[i].id
    <3>1. i # 1
      BY <2>1 DEF IsData
    <3>2. 1 \in 1..i - 1
      BY <1>1, <3>1
    <3> QED BY <1>4, <1>5, <2>1, <3>2
  <2> QED BY <2>1 DEF ChannelInv, Concluding
<1> QED BY <1>7, <1>8, <1>9 DEF ChannelInv

\* Handing out the message whose SYN_ACK is at the head of the queue.
LEMMA ChannelHand ==
    ASSUME NEW n \in Node, NEW q \in Seq(Datagram), NEW buffers \in Buffers,
           NEW buffers2 \in Buffers, NEW handed \in Seq(Handed),
           NEW calls \in Calls, NEW h \in Host, NEW m \in Handed,
           q # <<>>, q[1].type = "SYN_ACK",
           buffers[h].occupied, buffers[h].id = q[1].id, buffers[h].from = q[1].src,
           m.from = q[1].src, m.origin = q[1].src, m.id = q[1].id,
           Weaker(buffers, buffers2), ~buffers2[h].occupied,
           ChannelInv(n, q, buffers, handed, calls)
    PROVE  ChannelInv(n, q, buffers2, Append(handed, m), calls)
<1> DEFINE handed2 == Append(handed, m)
<1>1. /\ Len(handed) \in Nat
      /\ Len(handed2) = Len(handed) + 1
      /\ handed2[Len(handed) + 1] = m
      /\ \A x \in 1..Len(handed) : handed2[x] = handed[x]
  BY AppendProperties
<1> HIDE DEF handed2
<1>2. \A x \in 1..Len(handed2) : x \in 1..Len(handed) \/ x = Len(handed) + 1
  BY <1>1
<1>3. Len(q) \in Nat /\ 1 \in 1..Len(q)
  BY EmptySeq
<1>4. ChannelInv(n, q, buffers2, handed, calls)
  BY ChannelBuffers
<1>5. /\ Settled(m.origin, m.id, calls)
      /\ \A j \in 2..Len(q) : IsData(q[j]) /\ q[j].src = m.origin => q[j].id # m.id
  BY <1>3 DEF ChannelInv, Concluding
<1>6. Genuine(n, q, buffers2, handed2, calls)
  <2>1. SentTo(n, m.origin, m.id, calls)
    BY DEF ChannelInv, Genuine
  <2> QED BY <1>1, <1>2, <1>4, <2>1 DEF ChannelInv, Genuine
<1>7. Growing(q, buffers2, handed2)
  <2>1. ASSUME NEW i \in 1..Len(q), IsData(q[i]), q[i].src = m.origin
        PROVE  m.id < q[i].id
    <3>1. q[i] \in Datagram
      BY ElementOfSeq
    <3>2. q[i].id \in Nat /\ m.id \in Nat
      BY <3>1 DEF Datagram, Handed
    <3>3. m.id <= q[i].id
      BY <2>1 DEF ChannelInv, Growing
    <3>4. i # 1
      BY <2>1 DEF IsData
    <3> QED BY <1>3, <1>5, <2>1, <3>2, <3>3, <3>4
  <2>2. ASSUME NEW g \in Host, buffers2[g].occupied
        PROVE  buffers2[g].from # m.origin
    <3>1. /\ HostOf[buffers[g].from] = g
          /\ HostOf[buffers[h].from] = h
          /\ buffers2[g].from = buffers[g].from
      BY <2>2 DEF ChannelInv, Genuine, Weaker
    <3> QED BY <2>2, <3>1
  <2>3. ASSUME NEW x \in 1..Len(handed), handed[x].origin = m.origin
        PROVE  handed[x].id < m.id
    BY <2>3 DEF ChannelInv, Growing
  <2>4. \A x \in 1..Len(handed2), i \in 1..Len(q) :
            IsData(q[i]) /\ q[i].src = handed2[x].origin => handed2[x].id < q[i].id
    BY <1>1, <1>2, <1>4, <2>1 DEF ChannelInv, Growing
  <2>5. \A x \in 1..Len(handed2), g \in Host :
            buffers2[g].occupied /\ buffers2[g].from = handed2[x].origin
                => handed2[x].id < buffers2[g].id
    BY <1>1, <1>2, <1>4, <2>2 DEF ChannelInv, Growing
  <2>6. \A x, y \in 1..Len(handed2) :
            x < y /\ handed2[x].origin = handed2[y].origin
                => handed2[x].id < handed2[y].id
    <3> SUFFICES ASSUME NEW x \in 1..Len(handed2), NEW y \in 1..Len(handed2),
                        x < y, handed2[x].origin = handed2[y].origin
                 PROVE  handed2[x].id < handed2[y].id
      OBVIOUS
    <3>1. x \in 1..Len(handed)
      BY <1>1
    <3>2. CASE y \in 1..Len(handed)
      BY <1>1, <1>4, <3>1, <3>2 DEF ChannelInv, Growing
    <3>3. CASE y = Len(handed) + 1
      BY <1>1, <2>3, <3>1, <3>3
    <3> QED BY <1>2, <3>2, <3>3
  <2> QED BY <1>4, <2>4, <2>5, <2>6 DEF ChannelInv, Growing
<1>8. Concluding(q, buffers2, handed2, calls)
  BY <1>1, <1>2, <1>4, <1>5 DEF ChannelInv, Concluding
<1> QED BY <1>6, <1>7, <1>8 DEF ChannelInv, handed2

-----------------------------------------------------------------------------
(* All channels *)

Channels(queues, buffers, handed, calls) ==
    \A n \in Node : ChannelInv(n, queues[n], buffers[n], handed[n], calls)

AllBuffers == [Node -> Buffers]
AllHanded  == [Node -> Seq(Handed)]

\* The types that the lemmas on channels need, before a step.
LEMMA InvariantTypes ==
    ASSUME TypeInv
    PROVE  /\ net \in Queues
           /\ receiveBuffer \in AllBuffers
           /\ delivered \in AllHanded
           /\ sent \in Calls
BY TypeOKUnfolded DEF TypeInv, AllBuffers, Buffers, AllHanded

\* The same after it.
LEMMA NextTypes ==
    ASSUME TypeOK'
    PROVE  /\ receiveBuffer' \in AllBuffers
           /\ delivered' \in AllHanded
           /\ sent' \in Calls
BY DEF TypeOK, AllBuffers, Buffers, AllHanded, Handed, Calls, Call

-----------------------------------------------------------------------------
(* All channels at once *)

\* Sending an ACK, or a SYN_ACK of a settled message, keeps all channels.
LEMMA PostReply ==
    ASSUME NEW queues \in Queues, NEW buffers \in AllBuffers,
           NEW handed \in AllHanded, NEW calls \in Calls, NEW d \in Datagram,
           ~IsData(d),
           d.type = "SYN_ACK" /\ SentTo(d.dst, d.src, d.id, calls)
               => Settled(d.src, d.id, calls),
           Channels(queues, buffers, handed, calls)
    PROVE  Channels(Post(queues, d), buffers, handed, calls)
<1> SUFFICES ASSUME NEW n \in Node
             PROVE  ChannelInv(n, Post(queues, d)[n], buffers[n], handed[n], calls)
  BY DEF Channels
<1>1. /\ queues[n] \in Seq(Datagram)
      /\ buffers[n] \in Buffers
      /\ handed[n] \in Seq(Handed)
      /\ ChannelInv(n, queues[n], buffers[n], handed[n], calls)
  BY DEF Queues, AllBuffers, AllHanded, Channels
<1>2. CASE Post(queues, d)[n] = queues[n]
  BY <1>1, <1>2
<1>3. CASE n = d.dst /\ Post(queues, d)[n] = Append(queues[n], d)
  BY <1>1, <1>3, ChannelReply
<1> QED BY <1>2, <1>3, PostProperties

\* Sending the DATA of a node's last, still pending, call keeps all channels.
LEMMA PostData ==
    ASSUME NEW queues \in Queues, NEW buffers \in AllBuffers,
           NEW handed \in AllHanded, NEW calls \in Calls, NEW d \in Datagram,
           IsData(d), SentTo(d.dst, d.src, d.id, calls),
           d.id = Len(calls[d.src]), ~Settled(d.src, d.id, calls),
           Channels(queues, buffers, handed, calls)
    PROVE  Channels(Post(queues, d), buffers, handed, calls)
<1> SUFFICES ASSUME NEW n \in Node
             PROVE  ChannelInv(n, Post(queues, d)[n], buffers[n], handed[n], calls)
  BY DEF Channels
<1>1. /\ queues[n] \in Seq(Datagram)
      /\ buffers[n] \in Buffers
      /\ handed[n] \in Seq(Handed)
      /\ ChannelInv(n, queues[n], buffers[n], handed[n], calls)
  BY DEF Queues, AllBuffers, AllHanded, Channels
<1>2. CASE Post(queues, d)[n] = queues[n]
  BY <1>1, <1>2
<1>3. CASE n = d.dst /\ Post(queues, d)[n] = Append(queues[n], d)
  BY <1>1, <1>3, ChannelData
<1> QED BY <1>2, <1>3, PostProperties

\* A datagram that leaves its queue keeps all channels.
LEMMA RestChannels ==
    ASSUME net \in Queues, NEW n \in Node, NEW i \in 1..Len(net[n]),
           NEW buffers \in AllBuffers, NEW handed \in AllHanded,
           NEW calls \in Calls, Channels(net, buffers, handed, calls)
    PROVE  Channels(Rest(n, i), buffers, handed, calls)
<1>1. \A m \in Node \ {n} : Rest(n, i)[m] = net[m]
  BY RestProperties
<1>2. ChannelInv(n, Rest(n, i)[n], buffers[n], handed[n], calls)
  <2>1. /\ net[n] \in Seq(Datagram)
        /\ Rest(n, i)[n] \in Seq(Datagram)
        /\ buffers[n] \in Buffers
        /\ handed[n] \in Seq(Handed)
        /\ ChannelInv(n, net[n], buffers[n], handed[n], calls)
    BY RestProperties DEF Queues, AllBuffers, AllHanded, Channels
  <2>2. /\ Len(Rest(n, i)[n]) = Len(net[n]) - 1
        /\ \A j \in 1..Len(net[n]) - 1 :
               Rest(n, i)[n][j] = IF j < i THEN net[n][j] ELSE net[n][j + 1]
    BY RestProperties
  <2> QED BY <2>1, <2>2, ChannelThinner
<1> QED BY <1>1, <1>2 DEF Channels

\* A call added or settled keeps all channels.
LEMMA CallsChannels ==
    ASSUME NEW queues \in Queues, NEW buffers \in AllBuffers,
           NEW handed \in AllHanded, NEW calls \in Calls, NEW calls2 \in Calls,
           Grows(calls, calls2), Channels(queues, buffers, handed, calls)
    PROVE  Channels(queues, buffers, handed, calls2)
BY ChannelCalls DEF Queues, AllBuffers, AllHanded, Channels

\* A buffer freed, or its retries counted down, keeps all channels.
LEMMA BuffersChannels ==
    ASSUME NEW queues \in Queues, NEW buffers \in AllBuffers,
           NEW buffers2 \in AllBuffers, NEW handed \in AllHanded,
           NEW calls \in Calls, \A n \in Node : Weaker(buffers[n], buffers2[n]),
           Channels(queues, buffers, handed, calls)
    PROVE  Channels(queues, buffers2, handed, calls)
BY ChannelBuffers DEF Queues, AllBuffers, AllHanded, Channels

\* The DATA at the head of n's queue has been stored.
LEMMA StoreChannels ==
    ASSUME TypeInv, NEW n \in Node, 1 \in 1..Len(net[n]), IsData(net[n][1]),
           Store(n, net[n][1]), Channels(net, receiveBuffer, delivered, sent)
    PROVE  Channels(net, receiveBuffer', delivered, sent)
<1> DEFINE d == net[n][1]
<1>1. /\ receiveBuffer' \in [Node -> [Host -> HoldingBuffer]]
      /\ \A m \in Node \ {n} : receiveBuffer'[m] = receiveBuffer[m]
      /\ \A h \in Host \ {HostOf[d.src]} :
             receiveBuffer'[n][h] = receiveBuffer[n][h]
      /\ receiveBuffer'[n][HostOf[d.src]].id = d.id
      /\ receiveBuffer'[n][HostOf[d.src]].from = d.src
  <2> DEFINE stored == [occupied |-> TRUE, id |-> d.id, from |-> d.src,
                        retries |-> NUM_RETRIES]
  <2>1. stored.id = d.id /\ stored.from = d.src
    OBVIOUS
  <2>2. receiveBuffer'[n][HostOf[d.src]] = stored
    BY StoreType
  <2> HIDE DEF stored
  <2>3. /\ receiveBuffer' \in [Node -> [Host -> HoldingBuffer]]
        /\ \A m \in Node \ {n} : receiveBuffer'[m] = receiveBuffer[m]
        /\ \A h \in Host \ {HostOf[d.src]} :
               receiveBuffer'[n][h] = receiveBuffer[n][h]
    BY StoreType
  <2> QED BY <2>1, <2>2, <2>3
<1>2. /\ net[n] \in Seq(Datagram)
      /\ receiveBuffer[n] \in Buffers
      /\ receiveBuffer'[n] \in Buffers
      /\ delivered[n] \in Seq(Handed)
      /\ sent \in Calls
      /\ ChannelInv(n, net[n], receiveBuffer[n], delivered[n], sent)
  <2>1. receiveBuffer'[n] \in Buffers
    BY <1>1 DEF Buffers
  <2>2. /\ net \in Queues
        /\ receiveBuffer \in AllBuffers
        /\ delivered \in AllHanded
        /\ sent \in Calls
    BY InvariantTypes
  <2> QED BY <2>1, <2>2 DEF Queues, AllBuffers, AllHanded, Channels
<1>3. net[n] # <<>>
  BY <1>2, EmptySeq, SMTT(30)
<1>4. ChannelInv(n, net[n], receiveBuffer'[n], delivered[n], sent)
  BY <1>1, <1>2, <1>3, ChannelStore
<1> QED BY <1>1, <1>4 DEF Channels

-----------------------------------------------------------------------------
(* The actions *)

Inv == TypeInv /\ Channels(net, receiveBuffer, delivered, sent)

\* On a FIFO network only the head of a queue arrives.
LEMMA HeadArrives ==
    ASSUME FifoNetwork, NEW i, FaultIf(i # 1, "reorder")
    PROVE  i = 1
BY DEF FifoNetwork, FaultIf, Fault

\* RMP_sendTo (rmp.c:295-312) keeps all channels.
LEMMA SendToChannels ==
    ASSUME Inv, NEW n \in Node, NEW dst \in Node, SendTo(n, dst)
    PROVE  Channels(net, receiveBuffer, delivered, sent)'
<1> DEFINE id == Len(sent[n]) + 1
           d  == Dgram("DATA", id, n, dst)
<1>1. /\ net' = net \/ net' = Post(net, d)
      /\ UNCHANGED <<receiveBuffer, delivered>>
  BY DEF SendTo, SendData
<1>2. /\ sent' \in Calls
      /\ id \in Nat
      /\ id \in 1..Len(sent'[n])
      /\ id = Len(sent'[n])
      /\ sent'[n][id].dst = dst
      /\ sent'[n][id].result = "pending"
      /\ Grows(sent, sent')
  <2>1. /\ sent' \in Calls
        /\ Len(sent[n]) \in Nat
        /\ Len(sent'[n]) = Len(sent[n]) + 1
        /\ sent'[n][Len(sent[n]) + 1] = [dst |-> dst, result |-> "pending"]
        /\ Grows(sent, sent')
    BY CallAdded DEF Inv
  <2> QED BY <2>1
<1> HIDE DEF id
<1>3. /\ d \in Datagram /\ d.type = "DATA" /\ d.id = id /\ d.src = n /\ d.dst = dst
  BY <1>2, DgramType
<1> HIDE DEF d
<1>4. /\ net \in Queues /\ receiveBuffer \in AllBuffers
      /\ delivered \in AllHanded /\ sent \in Calls
  BY InvariantTypes DEF Inv
<1>5. Channels(net, receiveBuffer, delivered, sent')
  BY <1>2, <1>4, CallsChannels DEF Inv
<1>6. Channels(Post(net, d), receiveBuffer, delivered, sent')
  BY <1>2, <1>3, <1>4, <1>5, PostData DEF SentTo, Settled, IsData
<1> QED BY <1>1, <1>5, <1>6 DEF Channels

\* A retransmission or its end (rmp.c:254-265) keeps all channels.
LEMMA TimeoutChannels ==
    ASSUME Inv, NEW n \in Node, Timeout(n)
    PROVE  Channels(net, receiveBuffer, delivered, sent)'
<1>1. /\ net \in Queues /\ receiveBuffer \in AllBuffers
      /\ delivered \in AllHanded /\ sent \in Calls
  BY InvariantTypes DEF Inv
<1>2. CASE Retransmit(n)
  <2> DEFINE id == sendBuffer[n].id
             d  == Dgram("DATA", id, n, sendBuffer[n].peer)
  <2>1. /\ inSend[n]
        /\ net' = net \/ net' = Post(net, d)
        /\ UNCHANGED <<receiveBuffer, delivered, sent>>
    BY <1>2 DEF Retransmit, SendData
  <2>2. /\ id = Len(sent[n])
        /\ id > 0
        /\ sent[n][id].dst = sendBuffer[n].peer
        /\ sent[n][id].result = "pending"
    BY <2>1 DEF Inv, TypeInv, SendingInv
  <2>3. Len(sent[n]) \in Nat /\ sendBuffer[n].peer \in Node
    <3>1. sendBuffer[n] \in Sender
      BY TypeOKUnfolded DEF Inv, TypeInv
    <3> QED BY <1>1, <3>1 DEF Calls, Sender
  <2>4. id \in Nat /\ id \in 1..Len(sent[n])
    BY <2>2, <2>3
  <2>5. /\ d \in Datagram /\ d.type = "DATA" /\ d.id = id /\ d.src = n
        /\ d.dst = sendBuffer[n].peer
    BY <2>3, <2>4, DgramType
  <2> HIDE DEF d, id
  <2>6. Channels(Post(net, d), receiveBuffer, delivered, sent)
    BY <1>1, <2>2, <2>4, <2>5, PostData DEF Inv, SentTo, Settled, IsData
  <2> QED BY <2>1, <2>6 DEF Inv, Channels
<1>3. CASE GiveUp(n)
  <2>1. /\ inSend[n] /\ Return(n, "timeout")
        /\ UNCHANGED <<receiveBuffer, net, delivered>>
    BY <1>3 DEF GiveUp
  <2>2. sent' \in Calls /\ Grows(sent, sent')
    BY <2>1, CallSettled DEF Inv
  <2> QED BY <1>1, <2>1, <2>2, CallsChannels DEF Inv, Channels
<1> QED BY <1>2, <1>3 DEF Timeout

\* A DATA (rmp.c:98-119) keeps all channels.
LEMMA ReceiveDataChannels ==
    ASSUME Inv, FifoNetwork, NEW n \in Node, NEW i \in 1..Len(net[n]),
           ReceiveData(n, i)
    PROVE  Channels(net, receiveBuffer, delivered, sent)'
<1> DEFINE d   == net[n][i]
           ack == Dgram("ACK", d.id, n, d.src)
<1>1. /\ i = 1
      /\ IsData(d)
      /\ Store(n, d)
      /\ net' = Post(Rest(n, i), ack)
      /\ UNCHANGED <<delivered, sent>>
  BY HeadArrives DEF ReceiveData, Arrives, IsData
<1>2. /\ net \in Queues /\ delivered \in AllHanded /\ sent \in Calls
      /\ receiveBuffer' \in AllBuffers
  BY <1>1, InvariantTypes, ReceiveDataType, NextTypes DEF Inv
<1>3. /\ Rest(n, i) \in Queues /\ ack \in Datagram /\ ack.type = "ACK"
  BY ArrivedType, DgramType DEF Inv, TypeInv
<1> HIDE DEF ack
<1>4. Channels(net, receiveBuffer', delivered, sent)
  BY <1>1, StoreChannels DEF Inv
<1>5. Channels(Rest(n, i), receiveBuffer', delivered, sent)
  BY <1>2, <1>4, RestChannels
<1>6. Channels(Post(Rest(n, i), ack), receiveBuffer', delivered, sent)
  BY <1>2, <1>3, <1>5, PostReply DEF IsData
<1> QED BY <1>1, <1>6 DEF Channels

\* A SYN_ACK is sent for a settled message, or for one not sent to that node.
LEMMA ReceiveAckChannels ==
    ASSUME Inv, NEW n \in Node, NEW i \in 1..Len(net[n]), ReceiveAck(n, i)
    PROVE  Channels(net, receiveBuffer, delivered, sent)'
<1> DEFINE d      == net[n][i]
           synAck == Dgram("SYN_ACK", d.id, n, d.src)
<1>1. /\ up[n]
      /\ net' = Post(Rest(n, i), synAck)
      /\ UNCHANGED <<receiveBuffer, delivered>>
  BY DEF ReceiveAck, Arrives
<1>2. \/ inSend[n] /\ (Return(n, "ok") \/ Return(n, "error"))
      \/ /\ ~(inSend[n] /\ d.id = sendBuffer[n].id /\ d.src = sendBuffer[n].peer)
         /\ UNCHANGED sent
  BY DEF ReceiveAck
<1>3. /\ net \in Queues /\ receiveBuffer \in AllBuffers
      /\ delivered \in AllHanded /\ sent \in Calls
  BY InvariantTypes DEF Inv
<1>4. /\ Rest(n, i) \in Queues /\ synAck \in Datagram
      /\ synAck.type = "SYN_ACK" /\ synAck.id = d.id
      /\ synAck.src = n /\ synAck.dst = d.src
  BY ArrivedType, DgramType DEF Inv, TypeInv
<1> HIDE DEF synAck, d
<1>5. Channels(Rest(n, i), receiveBuffer, delivered, sent)
  BY <1>3, RestChannels DEF Inv
<1>6. CASE inSend[n] /\ (Return(n, "ok") \/ Return(n, "error"))
  <2>1. /\ sent' \in Calls /\ Grows(sent, sent')
        /\ Len(sent'[n]) = Len(sent[n])
        /\ \A k \in 1..Len(sent[n]) : sent'[n][k].result # "pending"
    BY <1>6, CallSettled DEF Inv
  <2>2. Channels(Rest(n, i), receiveBuffer, delivered, sent')
    BY <1>3, <1>4, <1>5, <2>1, CallsChannels
  <2>3. SentTo(d.src, n, d.id, sent') => Settled(n, d.id, sent')
    BY <2>1 DEF SentTo, Settled
  <2>4. Channels(Post(Rest(n, i), synAck), receiveBuffer, delivered, sent')
    BY <1>3, <1>4, <2>1, <2>2, <2>3, PostReply DEF IsData
  <2> QED BY <1>1, <2>4 DEF Channels
<1>7. CASE /\ ~(inSend[n] /\ d.id = sendBuffer[n].id /\ d.src = sendBuffer[n].peer)
           /\ UNCHANGED sent
  <2>1. SentTo(d.src, n, d.id, sent) => Settled(n, d.id, sent)
    <3> SUFFICES ASSUME d.id \in 1..Len(sent[n]), sent[n][d.id].dst = d.src,
                        sent[n][d.id].result = "pending"
                 PROVE  FALSE
      BY DEF SentTo, Settled
    <3>1. d.id = Len(sent[n]) /\ inSend[n]
      BY <1>1 DEF Inv, TypeInv, SendingInv
    <3>2. sendBuffer[n].id = d.id /\ sendBuffer[n].peer = d.src
      BY <3>1 DEF Inv, TypeInv, SendingInv
    <3> QED BY <1>7, <3>1, <3>2
  <2>2. Channels(Post(Rest(n, i), synAck), receiveBuffer, delivered, sent)
    BY <1>3, <1>4, <1>5, <2>1, PostReply DEF IsData
  <2> QED BY <1>1, <1>7, <2>2 DEF Channels
<1> QED BY <1>2, <1>6, <1>7

\* A failing reply (rmp.c:116, 123) keeps all channels.
LEMMA ReplyFailsChannels ==
    ASSUME Inv, NEW n \in Node, NEW i \in 1..Len(net[n]), ReplyFails(n, i)
    PROVE  Channels(net, receiveBuffer, delivered, sent)'
<1>1. /\ i = 1
      /\ \/ IsData(net[n][1]) /\ Store(n, net[n][1])
         \/ UNCHANGED receiveBuffer
      /\ net' = Rest(n, i)
      /\ (inSend[n] /\ Return(n, "error")) \/ UNCHANGED sent
      /\ UNCHANGED <<up, delivered>>
  BY DEF ReplyFails, Arrives, IsData
<1>2. /\ net \in Queues /\ delivered \in AllHanded /\ sent \in Calls
      /\ receiveBuffer' \in AllBuffers
      /\ sent' \in Calls
      /\ Rest(n, i) \in Queues
  BY InvariantTypes, ReplyFailsType, NextTypes, ArrivedType DEF Inv, TypeInv
<1>3. Channels(net, receiveBuffer', delivered, sent)
  BY <1>1, StoreChannels DEF Inv
<1>4. Channels(Rest(n, i), receiveBuffer', delivered, sent)
  BY <1>2, <1>3, RestChannels
<1>5. Channels(Rest(n, i), receiveBuffer', delivered, sent')
  <2>1. CASE inSend[n] /\ Return(n, "error")
    <3>1. Grows(sent, sent')
      BY <2>1, CallSettled DEF Inv
    <3> QED BY <1>2, <1>4, <3>1, CallsChannels
  <2>2. CASE UNCHANGED sent
    BY <1>4, <2>2
  <2> QED BY <1>1, <2>1, <2>2
<1> QED BY <1>1, <1>5 DEF Channels

\* A SYN_ACK (rmp.c:132-143) keeps all channels: the handing out is in order.
LEMMA ReceiveSynAckChannels ==
    ASSUME Inv, FifoNetwork, DistinctHosts,
           NEW n \in Node, NEW i \in 1..Len(net[n]), ReceiveSynAck(n, i)
    PROVE  Channels(net, receiveBuffer, delivered, sent)'
<1> DEFINE d      == net[n][i]
           key    == HostOf[d.src]
           buffer == receiveBuffer[n][key]
           m      == [from |-> d.src, origin |-> buffer.from, id |-> buffer.id]
<1>1. /\ i = 1
      /\ d.type = "SYN_ACK"
      /\ net' = Rest(n, i)
      /\ UNCHANGED sent
  BY HeadArrives DEF ReceiveSynAck, Arrives
<1>2. /\ net \in Queues /\ delivered \in AllHanded /\ sent \in Calls
      /\ receiveBuffer \in AllBuffers
      /\ receiveBuffer' \in AllBuffers
      /\ delivered' \in AllHanded
      /\ Rest(n, i) \in Queues
      /\ key \in Host
      /\ d.src \in Node
      /\ net[n] \in Seq(Datagram)
  BY InvariantTypes, ReceiveSynAckType, NextTypes, ArrivedType DEF Inv, TypeInv
<1>3. \/ /\ buffer.occupied
         /\ buffer.id = d.id
         /\ Release(n, key)
         /\ \/ UNCHANGED delivered
            \/ delivered' = [delivered EXCEPT ![n] = Append(@, m)]
      \/ UNCHANGED <<receiveBuffer, delivered>>
  BY SynAckCases
<1> SUFFICES Channels(net, receiveBuffer', delivered', sent)
  <2>1. Channels(Rest(n, i), receiveBuffer', delivered', sent)
    BY <1>2, RestChannels
  <2> QED BY <1>1, <2>1 DEF Channels
<1>4. CASE UNCHANGED <<receiveBuffer, delivered>>
  BY <1>4, SMTT(30) DEF Inv
<1>5. CASE Release(n, key)
  <2>1. /\ \A o \in Node \ {n} : receiveBuffer'[o] = receiveBuffer[o]
        /\ \A g \in Host \ {key} : receiveBuffer'[n][g] = receiveBuffer[n][g]
        /\ ~receiveBuffer'[n][key].occupied
    BY <1>2, <1>5, ReleaseType DEF Inv
  <2>2. \A o \in Node : Weaker(receiveBuffer[o], receiveBuffer'[o])
    BY <2>1 DEF Weaker
  <2>3. CASE UNCHANGED delivered
    <3>1. Channels(net, receiveBuffer', delivered, sent)
      BY <1>2, <2>2, BuffersChannels DEF Inv
    <3> QED BY <2>3, <3>1
  <2>4. CASE /\ buffer.occupied
             /\ buffer.id = d.id
             /\ delivered' = [delivered EXCEPT ![n] = Append(@, m)]
    <3>1. /\ buffer \in HoldingBuffer
          /\ receiveBuffer[n] \in Buffers
          /\ receiveBuffer'[n] \in Buffers
          /\ delivered[n] \in Seq(Handed)
          /\ ChannelInv(n, net[n], receiveBuffer[n], delivered[n], sent)
      BY <1>2 DEF AllBuffers, Buffers, AllHanded, Inv, Channels
    <3>2. buffer.from \in Node /\ buffer.id \in Nat
      BY <3>1, SMTT(30) DEF HoldingBuffer
    <3>3. HostOf[buffer.from] = key
      BY <1>2, <2>4, <3>1 DEF ChannelInv, Genuine
    <3>4. buffer.from = d.src
      BY <1>2, <3>2, <3>3 DEF DistinctHosts
    <3>5. m \in Handed /\ m.from = d.src /\ m.origin = d.src /\ m.id = d.id
      BY <1>2, <2>4, <3>2, <3>4, SMTT(30) DEF Handed
    <3>6. /\ delivered'[n] = Append(delivered[n], m)
          /\ \A o \in Node \ {n} : delivered'[o] = delivered[o]
      BY <1>2, <2>4 DEF AllHanded
    <3>7. net[n] # <<>>
      BY <1>1, <1>2, EmptySeq
    <3>8. /\ net[n][1].type = "SYN_ACK"
          /\ receiveBuffer[n][key].occupied
          /\ receiveBuffer[n][key].id = net[n][1].id
          /\ receiveBuffer[n][key].from = net[n][1].src
          /\ m.from = net[n][1].src
          /\ m.origin = net[n][1].src
          /\ m.id = net[n][1].id
      BY <1>1, <2>4, <3>4, <3>5
    <3> HIDE DEF m, buffer, d, key
    <3>9. ChannelInv(n, net[n], receiveBuffer'[n], Append(delivered[n], m), sent)
      BY <1>2, <2>1, <2>2, <3>1, <3>5, <3>7, <3>8, ChannelHand
    <3>10. ASSUME NEW o \in Node \ {n}
           PROVE  ChannelInv(o, net[o], receiveBuffer'[o], delivered'[o], sent)
      BY <2>1, <3>6 DEF Inv, Channels
    <3> QED BY <3>6, <3>9, <3>10 DEF Channels
  <2> QED BY <1>2, <1>3, <1>4, <2>3, <2>4
<1> QED BY <1>3, <1>4, <1>5

\* maintain_buffer_element (rmp.c:46-63) keeps all channels.
LEMMA MaintainChannels ==
    ASSUME Inv, NEW n \in Node, NEW h \in Host, MaintainBufferElement(n, h)
    PROVE  Channels(net, receiveBuffer, delivered, sent)'
<1> DEFINE id == receiveBuffer[n][h].id
<1>1. /\ \/ UNCHANGED net
         \/ \E to \in Node : net' = Post(net, Dgram("ACK", id, n, to))
      /\ UNCHANGED <<sent, delivered>>
  BY DEF MaintainBufferElement
<1>2. id \in Nat /\ \A m \in Node : Weaker(receiveBuffer[m], receiveBuffer'[m])
  BY MaintainedBuffers DEF Inv, Weaker
<1>3. /\ net \in Queues /\ delivered \in AllHanded /\ sent \in Calls
      /\ receiveBuffer \in AllBuffers
      /\ receiveBuffer' \in AllBuffers
  BY InvariantTypes, MaintainType, NextTypes DEF Inv
<1> HIDE DEF id
<1>4. Channels(net, receiveBuffer', delivered, sent)
  BY <1>2, <1>3, BuffersChannels DEF Inv
<1>5. ASSUME NEW to \in Node
      PROVE  Channels(Post(net, Dgram("ACK", id, n, to)), receiveBuffer',
                      delivered, sent)
  <2> DEFINE ack == Dgram("ACK", id, n, to)
  <2>1. ack \in Datagram /\ ack.type = "ACK"
    BY <1>2, DgramType
  <2> HIDE DEF ack
  <2>2. Channels(Post(net, ack), receiveBuffer', delivered, sent)
    BY <1>3, <1>4, <2>1, PostReply DEF IsData
  <2> QED BY <2>2 DEF ack
<1> QED BY <1>1, <1>4, <1>5 DEF Channels

\* The loss of a datagram keeps all channels.
LEMMA LoseChannels ==
    ASSUME Inv, NEW n \in Node, Lose(n)
    PROVE  Channels(net, receiveBuffer, delivered, sent)'
<1>1. PICK i \in 1..Len(net[n]) : net' = Rest(n, i)
  BY DEF Lose, Rest
<1>2. UNCHANGED <<receiveBuffer, sent, delivered>>
  BY DEF Lose
<1>3. Channels(Rest(n, i), receiveBuffer, delivered, sent)
  BY InvariantTypes, RestChannels DEF Inv
<1> QED BY <1>1, <1>2, <1>3 DEF Channels

\* The end of a process keeps all channels.
LEMMA CrashChannels ==
    ASSUME Inv, NEW n \in Node, Crash(n)
    PROVE  Channels(net, receiveBuffer, delivered, sent)'
<1>1. /\ net' = [net EXCEPT ![n] = <<>>]
      /\ receiveBuffer' = [receiveBuffer EXCEPT ![n] =
                              [h \in Host |-> EmptyBuffer(n)]]
      /\ UNCHANGED <<sent, delivered>>
  BY DEF Crash
<1>2. /\ net \in Queues /\ receiveBuffer \in AllBuffers
  BY InvariantTypes DEF Inv
<1>3. /\ net'[n] = <<>>
      /\ receiveBuffer'[n] = [h \in Host |-> EmptyBuffer(n)]
      /\ \A m \in Node \ {n} : /\ net'[m] = net[m]
                               /\ receiveBuffer'[m] = receiveBuffer[m]
  BY <1>1, <1>2 DEF Queues, AllBuffers
<1>4. \A h \in Host : ~receiveBuffer'[n][h].occupied
  BY <1>3, EmptyBufferType
<1>5. \A i \in 1..Len(net'[n]) : FALSE
  BY <1>3
<1>6. ChannelInv(n, net[n], receiveBuffer[n], delivered[n], sent)
  BY DEF Inv, Channels
<1>7. ChannelInv(n, net'[n], receiveBuffer'[n], delivered[n], sent)
  <2>1. Genuine(n, net'[n], receiveBuffer'[n], delivered[n], sent)
    BY <1>4, <1>5, <1>6 DEF ChannelInv, Genuine
  <2>2. Growing(net'[n], receiveBuffer'[n], delivered[n])
    BY <1>4, <1>5, <1>6 DEF ChannelInv, Growing
  <2>3. Concluding(net'[n], receiveBuffer'[n], delivered[n], sent)
    BY <1>4, <1>5, <1>6 DEF ChannelInv, Concluding
  <2> QED BY <2>1, <2>2, <2>3 DEF ChannelInv
<1> QED BY <1>1, <1>3, <1>7 DEF Inv, Channels

-----------------------------------------------------------------------------
(* The invariant and what follows from it *)

\* In the initial states all channels are empty.
LEMMA InvInit == Init => Inv
<1> SUFFICES ASSUME Init PROVE Inv
  OBVIOUS
<1>1. ASSUME NEW n \in Node
      PROVE  ChannelInv(n, net[n], receiveBuffer[n], delivered[n], sent)
  <2>1. net[n] = <<>> /\ delivered[n] = <<>>
    BY DEF Init
  <2>2. \A h \in Host : ~receiveBuffer[n][h].occupied
    BY EmptyBufferType DEF Init
  <2>3. (\A i \in 1..Len(net[n]) : FALSE) /\ (\A i \in 1..Len(delivered[n]) : FALSE)
    BY <2>1
  <2> QED BY <2>2, <2>3 DEF ChannelInv, Genuine, Growing, Concluding
<1> QED BY <1>1, TypeInit DEF Inv, Channels

\* One step per action of Next.
LEMMA InvStep ==
    ASSUME DistinctHosts, FifoNetwork
    PROVE  Inv /\ [Next]_vars => Inv'
<1> SUFFICES ASSUME Inv, [Next]_vars
             PROVE  Channels(net, receiveBuffer, delivered, sent)'
  BY TypeStep DEF Inv
<1>1. CASE UNCHANGED vars
  BY <1>1 DEF vars, Inv, Channels
<1>2. ASSUME NEW n \in Node, NEW dst \in Node, SendTo(n, dst)
      PROVE  Channels(net, receiveBuffer, delivered, sent)'
  BY <1>2, SendToChannels
<1>3. ASSUME NEW n \in Node, Timeout(n)
      PROVE  Channels(net, receiveBuffer, delivered, sent)'
  BY <1>3, TimeoutChannels
<1>4. ASSUME NEW n \in Node, Receive(n)
      PROVE  Channels(net, receiveBuffer, delivered, sent)'
  BY <1>4, ReceiveDataChannels, ReceiveAckChannels, ReceiveSynAckChannels
     DEF Receive
<1>5. ASSUME NEW n \in Node, NEW i \in 1..Len(net[n]), ReplyFails(n, i)
      PROVE  Channels(net, receiveBuffer, delivered, sent)'
  BY <1>5, ReplyFailsChannels
<1>6. ASSUME NEW n \in Node, NEW h \in Host, MaintainBufferElement(n, h)
      PROVE  Channels(net, receiveBuffer, delivered, sent)'
  BY <1>6, MaintainChannels
<1>7. ASSUME NEW n \in Node, Lose(n)
      PROVE  Channels(net, receiveBuffer, delivered, sent)'
  BY <1>7, LoseChannels
<1>8. ASSUME NEW n \in Node, Duplicate(n)
      PROVE  Channels(net, receiveBuffer, delivered, sent)'
  BY <1>8 DEF Duplicate, Fault, FifoNetwork
<1>9. ASSUME NEW n \in Node, Crash(n)
      PROVE  Channels(net, receiveBuffer, delivered, sent)'
  BY <1>9, CrashChannels
<1> QED BY <1>1, <1>2, <1>3, <1>4, <1>5, <1>6, <1>7, <1>8, <1>9 DEF Next

\* The invariant holds in every reachable state.
LEMMA InvAlways ==
    ASSUME DistinctHosts, FifoNetwork
    PROVE  Spec => []Inv
<1>1. Inv /\ [Next]_vars => Inv'
  BY InvStep
<1> QED BY <1>1, InvInit, PTL DEF Spec

\* The invariant that the runs check is the one proved here.
THEOREM Inductive ==
    ASSUME DistinctHosts, FifoNetwork
    PROVE  Spec => []InductiveInvariant
<1>1. Inv => InductiveInvariant
  BY DEF Inv, TypeInv, Channels, InductiveInvariant
<1> QED BY <1>1, InvAlways, PTL

(***************************************************************************)
(* Messages of one sender are handed out in the order they were sent and   *)
(* none twice (rmp.c:98-143), whatever is lost, late or retried, wherever  *)
(* the ACK retries go, and whoever crashes.                                *)
(***************************************************************************)
THEOREM OrderedOnce ==
    ASSUME DistinctHosts, FifoNetwork
    PROVE  Spec => []InOrderOnce
<1>1. Inv => InOrderOnce
  BY DEF Inv, Channels, ChannelInv, Growing, InOrderOnce
<1> QED BY <1>1, InvAlways, PTL

(***************************************************************************)
(* No message is handed out before its sender's RMP_sendTo has returned    *)
(* (rmp.c:120-142).                                                        *)
(***************************************************************************)
THEOREM SettledFirst ==
    ASSUME DistinctHosts, FifoNetwork
    PROVE  Spec => []DeliveredIsSettled
<1>1. Inv => DeliveredIsSettled
  <2> SUFFICES ASSUME Inv, NEW n \in Node, NEW i \in 1..Len(delivered[n])
               PROVE  /\ delivered[n][i].id <= Len(sent[delivered[n][i].origin])
                      /\ sent[delivered[n][i].origin][delivered[n][i].id].result
                             # "pending"
    BY DEF DeliveredIsSettled
  <2>1. ChannelInv(n, net[n], receiveBuffer[n], delivered[n], sent)
    BY DEF Inv, Channels
  <2>2. /\ delivered[n][i].id \in 1..Len(sent[delivered[n][i].origin])
        /\ Settled(delivered[n][i].origin, delivered[n][i].id, sent)
    BY <2>1 DEF ChannelInv, Genuine, SentTo, Concluding
  <2>3. delivered[n][i].origin \in Node
    <3>1. delivered[n] \in Seq(Handed)
      BY InvariantTypes DEF Inv, AllHanded
    <3>2. delivered[n][i] \in Handed
      BY <3>1, ElementOfSeq
    <3> QED BY <3>2 DEF Handed
  <2>4. Len(sent[delivered[n][i].origin]) \in Nat
    BY <2>3, InvariantTypes DEF Inv, Calls
  <2> QED BY <2>2, <2>4 DEF Settled
<1> QED BY <1>1, InvAlways, PTL

-----------------------------------------------------------------------------
(* Whatever the network does, a message is the one its sender sent: this   *)
(* part of the invariant needs no order.                                   *)

\* Every DATA on its way was sent to the node it is on its way to.
Sources(queues, calls) ==
    \A m \in Node : \A i \in 1..Len(queues[m]) :
        IsData(queues[m][i]) => SentTo(m, queues[m][i].src, queues[m][i].id, calls)

\* So was every message that is held, ...
Held(buffers, calls) ==
    \A m \in Node, h \in Host :
        buffers[m][h].occupied =>
            /\ HostOf[buffers[m][h].from] = h
            /\ SentTo(m, buffers[m][h].from, buffers[m][h].id, calls)

\* ... and every message that was handed out.
HandedFrom(handed, calls) ==
    \A m \in Node : \A x \in 1..Len(handed[m]) :
        /\ handed[m][x].from = handed[m][x].origin
        /\ SentTo(m, handed[m][x].origin, handed[m][x].id, calls)

GenuineInv ==
    /\ TypeInv
    /\ Sources(net, sent)
    /\ Held(receiveBuffer, sent)
    /\ HandedFrom(delivered, sent)

LEMMA SourcesRest ==
    ASSUME GenuineInv, NEW n \in Node, NEW i \in 1..Len(net[n])
    PROVE  Sources(Rest(n, i), sent)
<1> SUFFICES ASSUME NEW m \in Node, NEW j \in 1..Len(Rest(n, i)[m]),
                    IsData(Rest(n, i)[m][j])
             PROVE  SentTo(m, Rest(n, i)[m][j].src, Rest(n, i)[m][j].id, sent)
  BY DEF Sources
<1>1. net \in Queues
  BY InvariantTypes DEF GenuineInv
<1>2. CASE m # n
  BY <1>1, <1>2, RestProperties DEF GenuineInv, Sources
<1>3. CASE m = n
  <2>1. Len(net[n]) \in Nat
    BY <1>1 DEF Queues
  <2>2. /\ Len(Rest(n, i)[n]) = Len(net[n]) - 1
        /\ Rest(n, i)[n][j] = IF j < i THEN net[n][j] ELSE net[n][j + 1]
    BY <1>1, <1>3, RestProperties
  <2>3. PICK l \in 1..Len(net[n]) : Rest(n, i)[n][j] = net[n][l]
    BY <1>3, <2>1, <2>2
  <2> QED BY <1>3, <2>3 DEF GenuineInv, Sources
<1> QED BY <1>2, <1>3

LEMMA SourcesPost ==
    ASSUME NEW queues \in Queues, NEW calls, Sources(queues, calls),
           NEW d \in Datagram, IsData(d) => SentTo(d.dst, d.src, d.id, calls)
    PROVE  Sources(Post(queues, d), calls)
<1> SUFFICES ASSUME NEW m \in Node, NEW j \in 1..Len(Post(queues, d)[m]),
                    IsData(Post(queues, d)[m][j])
             PROVE  SentTo(m, Post(queues, d)[m][j].src, Post(queues, d)[m][j].id, calls)
  BY DEF Sources
<1>1. CASE Post(queues, d)[m] = queues[m]
  BY <1>1 DEF Sources
<1>2. CASE m = d.dst /\ Post(queues, d)[m] = Append(queues[m], d)
  <2>1. queues[m] \in Seq(Datagram)
    BY DEF Queues
  <2>2. \/ Append(queues[m], d)[j] = d
        \/ j \in 1..Len(queues[m]) /\ Append(queues[m], d)[j] = queues[m][j]
    BY <1>2, <2>1, AppendProperties
  <2> QED BY <1>2, <2>2 DEF Sources
<1> QED BY <1>1, <1>2, PostProperties

LEMMA GenuineCalls ==
    ASSUME NEW queues \in Queues, NEW buffers \in AllBuffers, NEW handed \in AllHanded,
           NEW calls \in Calls, NEW calls2 \in Calls, Grows(calls, calls2)
    PROVE  /\ Sources(queues, calls) => Sources(queues, calls2)
           /\ Held(buffers, calls) => Held(buffers, calls2)
           /\ HandedFrom(handed, calls) => HandedFrom(handed, calls2)
<1>1. ASSUME NEW m \in Node, NEW o \in Node, NEW k, SentTo(m, o, k, calls)
      PROVE  SentTo(m, o, k, calls2)
  <2>1. Len(calls[o]) \in Nat /\ Len(calls2[o]) \in Nat
    BY DEF Calls
  <2> QED BY <1>1, <2>1 DEF Grows, SentTo
<1>2. ASSUME NEW m \in Node, NEW i \in 1..Len(queues[m])
      PROVE  queues[m][i].src \in Node
  <2>1. queues[m] \in Seq(Datagram)
    BY DEF Queues
  <2>2. queues[m][i] \in Datagram
    BY <2>1, ElementOfSeq
  <2> QED BY <2>2 DEF Datagram
<1>3. ASSUME NEW m \in Node, NEW h \in Host
      PROVE  buffers[m][h].from \in Node
  BY DEF AllBuffers, Buffers, HoldingBuffer
<1>4. ASSUME NEW m \in Node, NEW x \in 1..Len(handed[m])
      PROVE  handed[m][x].origin \in Node
  <2>1. handed[m] \in Seq(Handed)
    BY DEF AllHanded
  <2>2. handed[m][x] \in Handed
    BY <2>1, ElementOfSeq
  <2> QED BY <2>2 DEF Handed
<1>5. Sources(queues, calls) => Sources(queues, calls2)
  BY <1>1, <1>2 DEF Sources
<1>6. Held(buffers, calls) => Held(buffers, calls2)
  BY <1>1, <1>3 DEF Held
<1>7. HandedFrom(handed, calls) => HandedFrom(handed, calls2)
  BY <1>1, <1>4 DEF HandedFrom
<1> QED BY <1>5, <1>6, <1>7

\* A call that is added or settled makes nothing false.
LEMMA GenuineGrows ==
    ASSUME GenuineInv, sent' \in Calls, Grows(sent, sent')
    PROVE  /\ Sources(net, sent') /\ Held(receiveBuffer, sent')
           /\ HandedFrom(delivered, sent')
  BY InvariantTypes, GenuineCalls DEF GenuineInv

\* A DATA that is stored was sent here.
LEMMA GenuineStore ==
    ASSUME GenuineInv, NEW n \in Node, NEW i \in 1..Len(net[n]), IsData(net[n][i]),
           Store(n, net[n][i])
    PROVE  Held(receiveBuffer', sent)
<1> DEFINE d == net[n][i]
<1>1. /\ \A m \in Node \ {n} : receiveBuffer'[m] = receiveBuffer[m]
      /\ \A h \in Host \ {HostOf[d.src]} : receiveBuffer'[n][h] = receiveBuffer[n][h]
      /\ receiveBuffer'[n][HostOf[d.src]] =
             [occupied |-> TRUE, id |-> d.id, from |-> d.src, retries |-> NUM_RETRIES]
  BY StoreType DEF GenuineInv
<1>2. SentTo(n, d.src, d.id, sent)
  BY DEF GenuineInv, Sources
<1> SUFFICES ASSUME NEW m \in Node, NEW h \in Host, receiveBuffer'[m][h].occupied
             PROVE  /\ HostOf[receiveBuffer'[m][h].from] = h
                    /\ SentTo(m, receiveBuffer'[m][h].from, receiveBuffer'[m][h].id, sent)
  BY DEF Held
<1>3. CASE m = n /\ h = HostOf[d.src]
  <2> DEFINE held == receiveBuffer'[m][h]
  <2>1. held = [occupied |-> TRUE, id |-> d.id, from |-> d.src, retries |-> NUM_RETRIES]
    BY <1>1, <1>3
  <2> HIDE DEF d, held
  <2>2. held.id = d.id /\ held.from = d.src
    BY <2>1
  <2>3. HostOf[held.from] = h /\ SentTo(m, held.from, held.id, sent)
    BY <1>2, <1>3, <2>2
  <2> QED BY <2>3 DEF held
<1>4. CASE ~(m = n /\ h = HostOf[d.src])
  <2>1. receiveBuffer'[m][h] = receiveBuffer[m][h]
    BY <1>1, <1>4
  <2> QED BY <2>1 DEF GenuineInv, Held
<1> QED BY <1>3, <1>4

\* A message that a SYN_ACK completes is handed out under its sender's name:
\* the buffer's key is the host of both.
LEMMA GenuineHand ==
    ASSUME GenuineInv, DistinctHosts, NEW n \in Node, NEW i \in 1..Len(net[n]),
           ReceiveSynAck(n, i)
    PROVE  Held(receiveBuffer', sent) /\ HandedFrom(delivered', sent)
<1> DEFINE d      == net[n][i]
           key    == HostOf[d.src]
           buffer == receiveBuffer[n][key]
           m      == [from |-> d.src, origin |-> buffer.from, id |-> buffer.id]
<1>1. /\ receiveBuffer \in AllBuffers /\ delivered \in AllHanded
      /\ d.src \in Node /\ key \in Host
  BY InvariantTypes, ArrivedType, SMTT(30) DEF GenuineInv, TypeInv
<1>2. \/ /\ buffer.occupied
         /\ buffer.id = d.id
         /\ Release(n, key)
         /\ \/ UNCHANGED delivered
            \/ delivered' = [delivered EXCEPT ![n] = Append(@, m)]
      \/ UNCHANGED <<receiveBuffer, delivered>>
  BY DEF ReceiveSynAck, Completes, KeyOf
<1>3. CASE UNCHANGED <<receiveBuffer, delivered>>
  BY <1>3 DEF GenuineInv
<1>4. CASE buffer.occupied /\ Release(n, key)
  <2>1. /\ \A o \in Node \ {n} : receiveBuffer'[o] = receiveBuffer[o]
        /\ \A g \in Host \ {key} : receiveBuffer'[n][g] = receiveBuffer[n][g]
        /\ ~receiveBuffer'[n][key].occupied
    BY <1>1, <1>4, ReleaseType DEF GenuineInv
  <2>2. Held(receiveBuffer', sent)
    BY <2>1, SMTT(30) DEF GenuineInv, Held
  <2>3. buffer \in HoldingBuffer /\ delivered[n] \in Seq(Handed)
    BY <1>1 DEF AllBuffers, Buffers, AllHanded
  <2>4. HostOf[buffer.from] = key /\ SentTo(n, buffer.from, buffer.id, sent)
    BY <1>1, <1>4 DEF GenuineInv, Held
  <2>5. buffer.from \in Node /\ buffer.id \in Nat
    BY <2>3 DEF HoldingBuffer
  <2> HIDE DEF buffer
  <2>6. buffer.from = d.src
    BY <1>1, <2>4, <2>5 DEF DistinctHosts
  <2>7. m.from = m.origin /\ SentTo(n, m.origin, m.id, sent) /\ m \in Handed
    BY <1>1, <2>4, <2>5, <2>6 DEF Handed
  <2> HIDE DEF m
  <2>8. CASE delivered' = [delivered EXCEPT ![n] = Append(@, m)]
    <3> SUFFICES ASSUME NEW o \in Node, NEW x \in 1..Len(delivered'[o])
                 PROVE  /\ delivered'[o][x].from = delivered'[o][x].origin
                        /\ SentTo(o, delivered'[o][x].origin, delivered'[o][x].id, sent)
      BY <2>2 DEF HandedFrom
    <3>1. CASE o # n
      <4>1. delivered'[o] = delivered[o]
        BY <1>1, <2>8, <3>1 DEF AllHanded
      <4> QED BY <4>1 DEF GenuineInv, HandedFrom
    <3>2. CASE o = n
      <4>1. delivered'[n] = Append(delivered[n], m)
        BY <1>1, <2>8 DEF AllHanded
      <4>2. \/ delivered'[n][x] = m
            \/ x \in 1..Len(delivered[n]) /\ delivered'[n][x] = delivered[n][x]
        BY <2>3, <2>7, <3>2, <4>1, AppendProperties
      <4> QED BY <2>7, <3>2, <4>2 DEF GenuineInv, HandedFrom
    <3> QED BY <3>1, <3>2
  <2>9. CASE UNCHANGED delivered
    BY <2>2, <2>9 DEF GenuineInv
  <2>10. UNCHANGED delivered \/ delivered' = [delivered EXCEPT ![n] = Append(@, m)]
        \/ UNCHANGED <<receiveBuffer, delivered>>
    BY <1>2
  <2> QED BY <2>2, <2>8, <2>9, <2>10
<1> QED BY <1>2, <1>3, <1>4

LEMMA GenuineStep ==
    ASSUME GenuineInv, DistinctHosts, [Next]_vars
    PROVE  GenuineInv'
<1>1. TypeInv'
  BY TypeStep DEF GenuineInv
<1>2. /\ net \in Queues /\ receiveBuffer \in AllBuffers
      /\ delivered \in AllHanded /\ sent \in Calls
  BY InvariantTypes DEF GenuineInv
<1> SUFFICES Sources(net, sent)' /\ Held(receiveBuffer, sent)' /\ HandedFrom(delivered, sent)'
  BY <1>1 DEF GenuineInv
<1>3. CASE UNCHANGED vars
  BY <1>3 DEF vars, GenuineInv, Sources, Held, HandedFrom
<1>4. ASSUME NEW n \in Node, NEW dst \in Node, SendTo(n, dst)
      PROVE  Sources(net, sent)' /\ Held(receiveBuffer, sent)' /\ HandedFrom(delivered, sent)'
  <2> DEFINE id == Len(sent[n]) + 1
             d  == Dgram("DATA", id, n, dst)
  <2>1. /\ net' = net \/ net' = Post(net, d)
        /\ UNCHANGED <<receiveBuffer, delivered>>
    BY <1>4 DEF SendTo, SendData
  <2>2. /\ sent' \in Calls /\ Len(sent[n]) \in Nat
        /\ Len(sent'[n]) = Len(sent[n]) + 1
        /\ sent'[n][Len(sent[n]) + 1] = [dst |-> dst, result |-> "pending"]
        /\ Grows(sent, sent')
    BY <1>4, CallAdded DEF GenuineInv
  <2>3. id \in Nat /\ SentTo(dst, n, id, sent')
    BY <2>2 DEF SentTo
  <2> HIDE DEF id
  <2>4. /\ d \in Datagram /\ d.id = id /\ d.src = n /\ d.dst = dst
    BY <2>3, DgramType
  <2> HIDE DEF d
  <2>5. /\ Sources(net, sent') /\ Held(receiveBuffer, sent')
        /\ HandedFrom(delivered, sent')
    BY <2>2, GenuineGrows
  <2>6. Sources(Post(net, d), sent')
    BY <1>2, <2>3, <2>4, <2>5, SourcesPost
  <2> QED BY <2>1, <2>5, <2>6 DEF Sources, Held, HandedFrom
<1>5. ASSUME NEW n \in Node, Retransmit(n)
      PROVE  Sources(net, sent)' /\ Held(receiveBuffer, sent)' /\ HandedFrom(delivered, sent)'
  <2> DEFINE id == sendBuffer[n].id
             to == sendBuffer[n].peer
             d  == Dgram("DATA", id, n, to)
  <2>1. /\ inSend[n]
        /\ net' = net \/ net' = Post(net, d)
        /\ UNCHANGED <<receiveBuffer, delivered, sent>>
    BY <1>5 DEF Retransmit, SendData
  <2>2. /\ id = Len(sent[n]) /\ id > 0 /\ sent[n][id].dst = to
    BY <2>1 DEF GenuineInv, TypeInv, SendingInv
  <2>3. Len(sent[n]) \in Nat /\ to \in Node
    <3>1. sendBuffer[n] \in Sender
      BY TypeOKUnfolded DEF GenuineInv, TypeInv
    <3> QED BY <1>2, <3>1 DEF Calls, Sender
  <2>4. id \in Nat /\ SentTo(to, n, id, sent)
    BY <2>2, <2>3 DEF SentTo
  <2> HIDE DEF id, to
  <2>5. d \in Datagram /\ d.id = id /\ d.src = n /\ d.dst = to
    BY <2>3, <2>4, DgramType
  <2> HIDE DEF d
  <2>6. Sources(Post(net, d), sent)
    BY <1>2, <2>4, <2>5, SourcesPost DEF GenuineInv
  <2> QED BY <2>1, <2>6 DEF GenuineInv, Sources, Held, HandedFrom
<1>6. ASSUME NEW n \in Node, NEW r \in {"ok", "timeout", "error"}, inSend[n], Return(n, r)
      PROVE  sent' \in Calls /\ Grows(sent, sent')
  BY <1>6, CallSettled DEF GenuineInv
<1>7. ASSUME NEW n \in Node, GiveUp(n)
      PROVE  Sources(net, sent)' /\ Held(receiveBuffer, sent)' /\ HandedFrom(delivered, sent)'
  <2>1. inSend[n] /\ Return(n, "timeout") /\ UNCHANGED <<receiveBuffer, net, delivered>>
    BY <1>7 DEF GiveUp
  <2>2. /\ Sources(net, sent') /\ Held(receiveBuffer, sent')
        /\ HandedFrom(delivered, sent')
    BY <1>6, <2>1, GenuineGrows
  <2> QED BY <2>1, <2>2 DEF Sources, Held, HandedFrom
<1>8. ASSUME NEW n \in Node, NEW i \in 1..Len(net[n]), ReceiveData(n, i)
      PROVE  Sources(net, sent)' /\ Held(receiveBuffer, sent)' /\ HandedFrom(delivered, sent)'
  <2> DEFINE ack == Dgram("ACK", net[n][i].id, n, net[n][i].src)
  <2>1. /\ IsData(net[n][i]) /\ Store(n, net[n][i])
        /\ net' = Post(Rest(n, i), ack) /\ UNCHANGED <<delivered, sent>>
    BY <1>8 DEF ReceiveData, Arrives, IsData
  <2>2. Held(receiveBuffer', sent)
    BY <2>1, GenuineStore
  <2>3. ack \in Datagram /\ ack.type = "ACK" /\ Rest(n, i) \in Queues
    BY ArrivedType, DgramType DEF GenuineInv, TypeInv
  <2> HIDE DEF ack
  <2>4. Sources(Post(Rest(n, i), ack), sent)
    BY <2>3, SourcesRest, SourcesPost DEF IsData
  <2> QED BY <2>1, <2>2, <2>4 DEF GenuineInv, Sources, Held, HandedFrom
<1>9. ASSUME NEW n \in Node, NEW i \in 1..Len(net[n]), ReceiveAck(n, i)
      PROVE  Sources(net, sent)' /\ Held(receiveBuffer, sent)' /\ HandedFrom(delivered, sent)'
  <2> DEFINE synAck == Dgram("SYN_ACK", net[n][i].id, n, net[n][i].src)
  <2>1. /\ net' = Post(Rest(n, i), synAck) /\ UNCHANGED <<receiveBuffer, delivered>>
        /\ \/ inSend[n] /\ (Return(n, "ok") \/ Return(n, "error"))
           \/ UNCHANGED sent
    BY <1>9 DEF ReceiveAck
  <2>2. synAck \in Datagram /\ synAck.type = "SYN_ACK" /\ Rest(n, i) \in Queues
    BY ArrivedType, DgramType DEF GenuineInv, TypeInv
  <2> HIDE DEF synAck
  <2>3. Sources(Rest(n, i), sent)
    BY SourcesRest
  <2>4. Sources(Post(Rest(n, i), synAck), sent)
    BY <2>2, <2>3, SourcesPost DEF IsData
  <2>5. sent' \in Calls /\ (Grows(sent, sent') \/ UNCHANGED sent)
    BY <1>2, <1>6, <2>1
  <2>6. Post(Rest(n, i), synAck) \in Queues
    BY <2>2, PostProperties
  <2>7. /\ Sources(Post(Rest(n, i), synAck), sent') /\ Held(receiveBuffer, sent')
        /\ HandedFrom(delivered, sent')
    BY <1>2, <2>4, <2>5, <2>6, GenuineCalls DEF GenuineInv
  <2> QED BY <2>1, <2>7 DEF Sources, Held, HandedFrom
<1>10. ASSUME NEW n \in Node, NEW i \in 1..Len(net[n]), ReceiveSynAck(n, i)
       PROVE  Sources(net, sent)' /\ Held(receiveBuffer, sent)' /\ HandedFrom(delivered, sent)'
  <2>1. net' = Rest(n, i) /\ UNCHANGED sent
    BY <1>10 DEF ReceiveSynAck
  <2>2. Held(receiveBuffer', sent) /\ HandedFrom(delivered', sent)
    BY <1>10, GenuineHand
  <2> QED BY <2>1, <2>2, SourcesRest DEF Sources, Held, HandedFrom
<1>11. ASSUME NEW n \in Node, NEW i \in 1..Len(net[n]), ReplyFails(n, i)
       PROVE  Sources(net, sent)' /\ Held(receiveBuffer, sent)' /\ HandedFrom(delivered, sent)'
  <2>1. /\ \/ IsData(net[n][i]) /\ Store(n, net[n][i])
           \/ UNCHANGED receiveBuffer
        /\ net' = Rest(n, i) /\ UNCHANGED delivered
        /\ (inSend[n] /\ Return(n, "error")) \/ UNCHANGED sent
    BY <1>11 DEF ReplyFails, Arrives, IsData
  <2>2. Held(receiveBuffer', sent)
    BY <2>1, GenuineStore DEF GenuineInv
  <2>3. Sources(Rest(n, i), sent) /\ Rest(n, i) \in Queues
    BY SourcesRest, ArrivedType DEF GenuineInv, TypeInv
  <2>4. receiveBuffer' \in AllBuffers
    BY <1>1, InvariantTypes DEF TypeInv, TypeOK, AllBuffers, Buffers
  <2>5. sent' \in Calls /\ (Grows(sent, sent') \/ UNCHANGED sent)
    BY <1>2, <1>6, <2>1
  <2>6. /\ Sources(Rest(n, i), sent') /\ Held(receiveBuffer', sent')
        /\ HandedFrom(delivered, sent')
    BY <1>2, <2>2, <2>3, <2>4, <2>5, GenuineCalls DEF GenuineInv
  <2> QED BY <2>1, <2>6 DEF Sources, Held, HandedFrom
<1>12. ASSUME NEW n \in Node, NEW h \in Host, MaintainBufferElement(n, h)
       PROVE  Sources(net, sent)' /\ Held(receiveBuffer, sent)' /\ HandedFrom(delivered, sent)'
  <2>1. /\ receiveBuffer[n][h].id \in Nat
        /\ \A m \in Node, g \in Host :
               receiveBuffer'[m][g].occupied =>
                   /\ receiveBuffer[m][g].occupied
                   /\ receiveBuffer'[m][g].id = receiveBuffer[m][g].id
                   /\ receiveBuffer'[m][g].from = receiveBuffer[m][g].from
    BY <1>12, MaintainedBuffers DEF GenuineInv
  <2>2. Held(receiveBuffer', sent)
    BY <2>1 DEF GenuineInv, Held
  <2>3. /\ UNCHANGED <<delivered, sent>>
        /\ \/ UNCHANGED net
           \/ \E to \in Node :
                  net' = Post(net, Dgram("ACK", receiveBuffer[n][h].id, n, to))
    BY <1>12 DEF MaintainBufferElement
  <2>4. CASE UNCHANGED net
    BY <2>2, <2>3, <2>4 DEF GenuineInv, Sources, Held, HandedFrom
  <2>5. ASSUME NEW to \in Node,
               net' = Post(net, Dgram("ACK", receiveBuffer[n][h].id, n, to))
        PROVE  Sources(net, sent)' /\ Held(receiveBuffer, sent)' /\ HandedFrom(delivered, sent)'
    <3> DEFINE ack == Dgram("ACK", receiveBuffer[n][h].id, n, to)
    <3>1. ack \in Datagram /\ ack.type = "ACK" /\ net' = Post(net, ack)
      BY <2>1, <2>5, DgramType
    <3> HIDE DEF ack
    <3>2. Sources(Post(net, ack), sent)
      BY <1>2, <3>1, SourcesPost DEF GenuineInv, IsData
    <3> QED BY <2>2, <2>3, <3>1, <3>2 DEF GenuineInv, Sources, Held, HandedFrom
  <2> QED BY <2>3, <2>4, <2>5
<1>13. ASSUME NEW n \in Node, Lose(n)
       PROVE  Sources(net, sent)' /\ Held(receiveBuffer, sent)' /\ HandedFrom(delivered, sent)'
  <2>1. PICK i \in 1..Len(net[n]) : net' = Rest(n, i)
    BY <1>13 DEF Lose, Rest
  <2>2. UNCHANGED <<receiveBuffer, delivered, sent>>
    BY <1>13 DEF Lose
  <2>3. Sources(Rest(n, i), sent)
    BY SourcesRest
  <2> QED BY <2>1, <2>2, <2>3 DEF GenuineInv, Sources, Held, HandedFrom
<1>14. ASSUME NEW n \in Node, Duplicate(n)
       PROVE  Sources(net, sent)' /\ Held(receiveBuffer, sent)' /\ HandedFrom(delivered, sent)'
  <2>1. PICK i \in 1..Len(net[n]) : net' = [net EXCEPT ![n] = Append(@, @[i])]
    BY <1>14 DEF Duplicate
  <2>2. UNCHANGED <<receiveBuffer, delivered, sent>>
    BY <1>14 DEF Duplicate
  <2>3. /\ net'[n] = Append(net[n], net[n][i])
        /\ \A m \in Node \ {n} : net'[m] = net[m]
        /\ net[n] \in Seq(Datagram) /\ net[n][i] \in Datagram
    BY <1>2, <2>1, ArrivedType DEF Queues, GenuineInv, TypeInv
  <2>4. ASSUME NEW m \in Node, NEW j \in 1..Len(net'[m]), IsData(net'[m][j])
        PROVE  SentTo(m, net'[m][j].src, net'[m][j].id, sent)
    <3>1. PICK l \in 1..Len(net[m]) : net'[m][j] = net[m][l]
      <4>1. CASE m # n
        BY <2>3, <4>1
      <4>2. CASE m = n
        <5>1. \/ net'[n][j] = net[n][i]
              \/ j \in 1..Len(net[n]) /\ net'[n][j] = net[n][j]
          BY <2>3, <2>4, <4>2, AppendProperties
        <5> QED BY <4>2, <5>1
      <4> QED BY <4>1, <4>2
    <3> QED BY <2>4, <3>1 DEF GenuineInv, Sources
  <2>5. Sources(net', sent)
    BY <2>4 DEF Sources
  <2> QED BY <2>2, <2>5 DEF GenuineInv, Sources, Held, HandedFrom
<1>15. ASSUME NEW n \in Node, Crash(n)
       PROVE  Sources(net, sent)' /\ Held(receiveBuffer, sent)' /\ HandedFrom(delivered, sent)'
  <2>1. /\ receiveBuffer' = [receiveBuffer EXCEPT ![n] = [h \in Host |-> EmptyBuffer(n)]]
        /\ net' = [net EXCEPT ![n] = <<>>]
        /\ UNCHANGED <<sent, delivered>>
    BY <1>15 DEF Crash
  <2>2. /\ net'[n] = <<>> /\ \A m \in Node \ {n} : net'[m] = net[m]
        /\ \A h \in Host : ~receiveBuffer'[n][h].occupied
        /\ \A m \in Node \ {n} : receiveBuffer'[m] = receiveBuffer[m]
    BY <1>2, <2>1, EmptyBufferType DEF Queues, AllBuffers
  <2>3. Sources(net', sent)
    BY <2>2 DEF GenuineInv, Sources
  <2>4. Held(receiveBuffer', sent)
    BY <2>2 DEF GenuineInv, Held
  <2> QED BY <2>1, <2>3, <2>4 DEF GenuineInv, Sources, Held, HandedFrom
<1> QED BY <1>3, <1>4, <1>5, <1>7, <1>8, <1>9, <1>10, <1>11, <1>12, <1>13, <1>14, <1>15
        DEF Next, Timeout, Receive

(***************************************************************************)
(* A message is handed out under the name of the node that sent it, at the *)
(* node it was sent to (rmp.c:132-142, message_buffers.c:49-63), even if   *)
(* the network duplicates and reorders datagrams.                          *)
(***************************************************************************)
THEOREM Attributed ==
    ASSUME DistinctHosts
    PROVE  Spec => []Attribution
<1>1. Init => GenuineInv
  <2>1. Init => TypeInv
    BY TypeInit
  <2> QED BY <2>1, EmptyBufferType
          DEF Init, GenuineInv, Sources, Held, HandedFrom
<1>2. GenuineInv /\ [Next]_vars => GenuineInv'
  BY GenuineStep
<1>3. GenuineInv => Attribution
  BY DEF GenuineInv, HandedFrom, SentTo, Attribution
<1> QED BY <1>1, <1>2, <1>3, PTL DEF Spec

-----------------------------------------------------------------------------
(* RMP implements Messenger: each step is one of its steps, or none. *)

\* A call of RMP_sendTo (rmp.c:295-312) is a Submit: nothing is pending.
LEMMA SubmitStep ==
    ASSUME Inv, NEW n \in Node, NEW dst \in Node, SendTo(n, dst)
    PROVE  Messenger!Submit(n, dst)
<1>1. /\ up[n] /\ ~inSend[n] /\ dst # n
      /\ sent' = [sent EXCEPT ![n] = Append(@, [dst |-> dst, result |-> "pending"])]
      /\ UNCHANGED delivered
  BY DEF SendTo
<1>2. \A k \in 1..Len(sent[n]) : sent[n][k].result # "pending"
  BY <1>1 DEF Inv, TypeInv, SendingInv
<1> QED BY <1>1, <1>2 DEF Messenger!Submit, Messenger!Busy

\* The end of attemptSend (rmp.c:222-293) is a Settle: one call is pending.
LEMMA SettleStep ==
    ASSUME Inv, NEW n \in Node, inSend[n],
           NEW r \in {"ok", "timeout", "error"}, Return(n, r), UNCHANGED delivered
    PROVE  Messenger!Settle(n, r)
<1>1. sent[n] \in Seq(Call) /\ Len(sent[n]) \in Nat
  BY InvariantTypes DEF Inv, Calls
<1>2. /\ sendBuffer[n].id = Len(sent[n]) /\ sendBuffer[n].id > 0
      /\ sent[n][sendBuffer[n].id].result = "pending"
  BY DEF Inv, TypeInv, SendingInv
<1>3. Len(sent[n]) \in 1..Len(sent[n]) /\ sent[n][Len(sent[n])].result = "pending"
  BY <1>1, <1>2
<1>4. sent' = [sent EXCEPT ![n][Len(sent[n])].result = r]
  BY <1>2 DEF Return
<1> QED BY <1>3, <1>4 DEF Messenger!Settle, Messenger!Busy

\* A SYN_ACK that completes a message (rmp.c:132-142) is a Hand: the message
\* was sent here, its call has returned, and no later one has been handed out.
LEMMA HandStep ==
    ASSUME Inv, FifoNetwork, DistinctHosts,
           NEW n \in Node, NEW i \in 1..Len(net[n]), ReceiveSynAck(n, i),
           delivered' # delivered
    PROVE  \E o \in Node : \E k \in 1..Len(sent[o]) : Messenger!Hand(n, o, k)
<1> DEFINE d      == net[n][i]
           key    == HostOf[d.src]
           buffer == receiveBuffer[n][key]
           m      == [from |-> d.src, origin |-> buffer.from, id |-> buffer.id]
<1>1. /\ i = 1 /\ d.type = "SYN_ACK" /\ UNCHANGED sent
  BY HeadArrives DEF ReceiveSynAck, Arrives
<1>2. /\ buffer.occupied /\ buffer.id = d.id
      /\ delivered' = [delivered EXCEPT ![n] = Append(@, m)]
  BY SynAckCases
<1>3. /\ key \in Host /\ d.src \in Node /\ receiveBuffer \in AllBuffers
      /\ receiveBuffer[n] \in Buffers
      /\ delivered[n] \in Seq(Handed)
      /\ sent \in Calls
  BY InvariantTypes, ArrivedType DEF Inv, TypeInv, AllBuffers, AllHanded
<1>4. buffer \in HoldingBuffer
  BY <1>3 DEF Buffers
<1>5. buffer.from \in Node
  BY <1>4, SMTT(30) DEF HoldingBuffer
<1>6. ChannelInv(n, net[n], receiveBuffer[n], delivered[n], sent)
  BY DEF Inv, Channels
<1>7. HostOf[buffer.from] = key /\ SentTo(n, buffer.from, buffer.id, sent)
  BY <1>2, <1>3, <1>6 DEF ChannelInv, Genuine
<1>8. buffer.from = d.src
  BY <1>3, <1>5, <1>7 DEF DistinctHosts
<1>9. Settled(d.src, d.id, sent)
  <2>1. /\ net[n][1].type = "SYN_ACK"
        /\ \E h \in Host : /\ receiveBuffer[n][h].occupied
                           /\ receiveBuffer[n][h].from = net[n][1].src
                           /\ receiveBuffer[n][h].id = net[n][1].id
    BY <1>1, <1>2, <1>3, <1>8
  <2>2. 1 \in 1..Len(net[n])
    BY <1>1
  <2>3. Settled(net[n][1].src, net[n][1].id, sent)
    BY <1>6, <2>1, <2>2, SMTT(30) DEF ChannelInv, Concluding
  <2> QED BY <1>1, <2>3
<1>10. \A x \in 1..Len(delivered[n]) :
           delivered[n][x].origin = buffer.from => delivered[n][x].id < buffer.id
  BY <1>2, <1>3, <1>6 DEF ChannelInv, Growing
<1> HIDE DEF d, key, buffer
<1>11. /\ d.id \in 1..Len(sent[d.src]) /\ sent[d.src][d.id].dst = n
       /\ m = [from |-> d.src, origin |-> d.src, id |-> d.id]
  BY <1>2, <1>7, <1>8 DEF SentTo
<1> HIDE DEF m
<1>12. Messenger!Hand(n, d.src, d.id)
  BY <1>1, <1>2, <1>8, <1>9, <1>10, <1>11 DEF Messenger!Hand, Settled
<1> QED BY <1>3, <1>11, <1>12

\* One step per action of Next: the others touch neither calls nor messages
\* handed out.
LEMMA MessengerStep ==
    ASSUME Inv, FifoNetwork, DistinctHosts, [Next]_vars
    PROVE  [Messenger!Next]_<<sent, delivered>>
<1>1. CASE UNCHANGED vars
  BY <1>1 DEF vars
<1>2. ASSUME NEW n \in Node, NEW dst \in Node, SendTo(n, dst)
      PROVE  Messenger!Next
  BY <1>2, SubmitStep DEF Messenger!Next
<1>3. ASSUME NEW n \in Node, NEW r \in {"ok", "timeout", "error"},
             inSend[n], Return(n, r), UNCHANGED delivered
      PROVE  Messenger!Next
  BY <1>3, SettleStep DEF Messenger!Next
<1>4. ASSUME NEW n \in Node, Timeout(n)
      PROVE  [Messenger!Next]_<<sent, delivered>>
  BY <1>3, <1>4 DEF Timeout, Retransmit, GiveUp
<1>5. ASSUME NEW n \in Node, Receive(n)
      PROVE  [Messenger!Next]_<<sent, delivered>>
  <2>1. PICK i \in 1..Len(net[n]) :
            ReceiveData(n, i) \/ ReceiveAck(n, i) \/ ReceiveSynAck(n, i)
    BY <1>5 DEF Receive
  <2>2. CASE ReceiveData(n, i)
    BY <2>2 DEF ReceiveData
  <2>3. CASE ReceiveAck(n, i)
    BY <1>3, <2>3 DEF ReceiveAck
  <2>4. CASE ReceiveSynAck(n, i)
    <3>1. CASE delivered' = delivered
      BY <2>4, <3>1 DEF ReceiveSynAck
    <3>2. CASE delivered' # delivered
      BY <2>4, <3>2, HandStep DEF Messenger!Next
    <3> QED BY <3>1, <3>2
  <2> QED BY <2>1, <2>2, <2>3, <2>4
<1>6. ASSUME NEW n \in Node, NEW i \in 1..Len(net[n]), ReplyFails(n, i)
      PROVE  [Messenger!Next]_<<sent, delivered>>
  BY <1>3, <1>6 DEF ReplyFails
<1>7. ASSUME NEW n \in Node, NEW h \in Host, MaintainBufferElement(n, h)
      PROVE  UNCHANGED <<sent, delivered>>
  BY <1>7 DEF MaintainBufferElement
<1>8. ASSUME NEW n \in Node, Lose(n) \/ Duplicate(n) \/ Crash(n)
      PROVE  UNCHANGED <<sent, delivered>>
  BY <1>8 DEF Lose, Duplicate, Crash
<1> QED BY <1>1, <1>2, <1>4, <1>5, <1>6, <1>7, <1>8 DEF Next

(***************************************************************************)
(* RMP_sendTo and RMP_listen keep the promise of Messenger, on distinct    *)
(* hosts and a network that may lose, delay and be cut: calls one at a     *)
(* time, messages handed out after their call, in order, once, under their *)
(* sender's name.                                                          *)
(***************************************************************************)
THEOREM MessengerImplemented ==
    ASSUME DistinctHosts, FifoNetwork
    PROVE  Spec => ImplementsMessenger
<1>1. Init => Messenger!Init
  BY DEF Init, Messenger!Init
<1>2. Inv /\ [Next]_vars => [Messenger!Next]_<<sent, delivered>>
  BY MessengerStep
<1> QED BY <1>1, <1>2, InvAlways, PTL DEF Spec, ImplementsMessenger, Messenger!Spec
=============================================================================
