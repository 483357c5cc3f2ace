--------------------------------- MODULE RMP ---------------------------------
(***************************************************************************)
(* The reliable messaging protocol of RMP/: rmp.c, message_buffers.c and   *)
(* protocol.c, over UDP.                                                   *)
(*                                                                         *)
(* A node is one process with one socket.  RMP_sendTo blocks: it sends     *)
(* DATA, then receives and processes whatever arrives until the ACK of its *)
(* own message comes or NUM_RETRIES retransmissions have timed out.        *)
(* RMP_listen receives and processes one datagram, and hands a message to  *)
(* the application when that datagram is the SYN_ACK that completes it.    *)
(*                                                                         *)
(* Message ids come from random(), which nothing seeds: every process      *)
(* draws the same sequence of distinct numbers, so the k-th message of     *)
(* each node has the k-th id, here k itself.                               *)
(*                                                                         *)
(* net[n] is what is on its way to n's socket, in order of arrival.  With  *)
(* no fault allowed the network neither loses, delays, duplicates nor      *)
(* reorders; each kind in FaultKinds relaxes that, MaxFaults times in all. *)
(***************************************************************************)
EXTENDS Integers, Sequences, SequencesExt

CONSTANTS
    Node,        \* processes, each with one RMP socket
    Host,        \* IP addresses
    HostOf,      \* the IP address a node's socket is bound to
    NUM_RETRIES, \* retransmissions of a DATA or of an ACK
    Budget,      \* bound: number of RMP_sendTo calls each node may make
    FaultKinds,  \* which of AllFaultKinds may happen
    MaxFaults    \* bound: how many faults happen in a behaviour

AllFaultKinds == {"lose", "duplicate", "reorder", "delay", "crash", "sendError"}

ASSUME ConstantsAssumption ==
    /\ HostOf \in [Node -> Host]
    /\ NUM_RETRIES \in Nat
    /\ Budget \in [Node -> Nat]
    /\ FaultKinds \subseteq AllFaultKinds
    /\ MaxFaults \in Nat

VARIABLES
    up,            \* the process runs and its socket is open
    inSend,        \* the process is inside attemptSend
    sendBuffer,    \* message_buffers.c: the one message being sent, and whether
                   \* the last sendto of it failed (num_bytes_sent is -1)
    receiveBuffer, \* message_buffers.c: one incomplete message per key
    maintained,    \* keys found expired by the receive call in progress
    net,           \* datagrams on their way to each node
    sent,          \* history: the calls of RMP_sendTo and their results
    delivered,     \* history: the messages RMP_listen handed out
    faults         \* number of faults so far

vars == <<up, inSend, sendBuffer, receiveBuffer, maintained, net, sent,
          delivered, faults>>

Datagram == [type: {"DATA", "ACK", "SYN_ACK"}, id: Nat, src: Node, dst: Node]

Dgram(t, k, a, b) == [type |-> t, id |-> k, src |-> a, dst |-> b]

(***************************************************************************)
(* A holding buffer for an incoming message.  "from" stands for the stored *)
(* payload, which the sender and the id identify.  The peer pointer that   *)
(* the code stores is not a field: see MaintainBufferElement.              *)
(***************************************************************************)
HoldingBuffer ==
    [occupied: BOOLEAN, id: Nat, from: Node, retries: 0..NUM_RETRIES]

EmptyBuffer(n) == [occupied |-> FALSE, id |-> 0, from |-> n, retries |-> 0]

TypeOK ==
    /\ up \in [Node -> BOOLEAN]
    /\ inSend \in [Node -> BOOLEAN]
    /\ sendBuffer \in [Node -> [occupied: BOOLEAN, id: Nat, peer: Node,
                                retries: 0..NUM_RETRIES, failed: BOOLEAN]]
    /\ receiveBuffer \in [Node -> [Host -> HoldingBuffer]]
    /\ maintained \in [Node -> SUBSET Host]
    /\ net \in [Node -> Seq(Datagram)]
    /\ sent \in [Node -> Seq([dst: Node,
                              result: {"pending", "ok", "timeout", "error"}])]
    /\ delivered \in [Node -> Seq([from: Node, origin: Node, id: Nat])]
    /\ faults \in 0..MaxFaults

Init ==
    /\ up = [n \in Node |-> TRUE]
    /\ inSend = [n \in Node |-> FALSE]
    /\ sendBuffer = [n \in Node |-> [occupied |-> FALSE, id |-> 0, peer |-> n,
                                     retries |-> 0, failed |-> FALSE]]
    /\ receiveBuffer = [n \in Node |-> [h \in Host |-> EmptyBuffer(n)]]
    /\ maintained = [n \in Node |-> {}]
    /\ net = [n \in Node |-> <<>>]
    /\ sent = [n \in Node |-> <<>>]
    /\ delivered = [n \in Node |-> <<>>]
    /\ faults = 0

-----------------------------------------------------------------------------
(* The network *)

\* A fault of the given kind happens in this step.
Fault(kind) ==
    /\ kind \in FaultKinds
    /\ faults < MaxFaults
    /\ faults' = faults + 1

\* This step is a fault of the given kind exactly when cond holds.
FaultIf(cond, kind) == IF cond THEN Fault(kind) ELSE UNCHANGED faults

\* The queues once d has been sent; nothing reaches a closed socket.
Post(queues, d) ==
    IF up[d.dst] THEN [queues EXCEPT ![d.dst] = Append(@, d)] ELSE queues

\* Datagrams about message id travel between a and b, both running: a timer
\* of 20 ms that runs out now ran out because one of them is late.
InFlight(a, b, id) ==
    /\ up[b]
    /\ \/ \E i \in 1..Len(net[a]) : net[a][i].src = b /\ net[a][i].id = id
       \/ \E i \in 1..Len(net[b]) : net[b][i].src = a /\ net[b][i].id = id

Lose(n) ==
    /\ Fault("lose")
    /\ \E i \in 1..Len(net[n]) : net' = [net EXCEPT ![n] = RemoveAt(@, i)]
    /\ UNCHANGED <<up, inSend, sendBuffer, receiveBuffer, maintained, sent,
                   delivered>>

Duplicate(n) ==
    /\ Fault("duplicate")
    /\ \E i \in 1..Len(net[n]) : net' = [net EXCEPT ![n] = Append(@, @[i])]
    /\ UNCHANGED <<up, inSend, sendBuffer, receiveBuffer, maintained, sent,
                   delivered>>

\* The process exits or is killed, or RMP_closeSocket is called.
Crash(n) ==
    /\ up[n]
    /\ Fault("crash")
    /\ up' = [up EXCEPT ![n] = FALSE]
    /\ inSend' = [inSend EXCEPT ![n] = FALSE]
    /\ receiveBuffer' = [receiveBuffer EXCEPT ![n] =
                            [h \in Host |-> EmptyBuffer(n)]]
    /\ maintained' = [maintained EXCEPT ![n] = {}]
    /\ net' = [net EXCEPT ![n] = <<>>]
    /\ UNCHANGED <<sendBuffer, sent, delivered>>

-----------------------------------------------------------------------------
(* Sending *)

\* attemptSend sends the DATA, or its sendto fails: then it waits all the same.
SendData(n, id, dst, failed) ==
    net' = IF failed THEN net ELSE Post(net, Dgram("DATA", id, n, dst))

\* RMP_sendTo fills the send buffer and attemptSend sends the DATA.
SendTo(n, dst) ==
    LET id == Len(sent[n]) + 1
    IN  /\ up[n]
        /\ ~inSend[n]
        /\ maintained[n] = {}
        /\ dst # n
        /\ Len(sent[n]) < Budget[n]
        /\ inSend' = [inSend EXCEPT ![n] = TRUE]
        /\ sent' = [sent EXCEPT ![n] = Append(@, [dst |-> dst,
                                                  result |-> "pending"])]
        /\ \E failed \in BOOLEAN :
               /\ sendBuffer' = [sendBuffer EXCEPT ![n] =
                      [occupied |-> TRUE, id |-> id, peer |-> dst,
                       retries |-> NUM_RETRIES, failed |-> failed]]
               /\ SendData(n, id, dst, failed)
               /\ FaultIf(failed, "sendError")
        /\ UNCHANGED <<up, receiveBuffer, maintained, delivered>>

\* attemptSend returns r, and the send buffer is free.  (It would not be after a
\* failure of setsockopt on the open socket, rmp.c:227, which is left out.)
Return(n, r) ==
    /\ inSend' = [inSend EXCEPT ![n] = FALSE]
    /\ sendBuffer' = [sendBuffer EXCEPT ![n].occupied = FALSE]
    /\ sent' = [sent EXCEPT ![n][sendBuffer[n].id].result = r]

\* The peer's answer is not here in time although both sides are working on it.
Late(n) == InFlight(n, sendBuffer[n].peer, sendBuffer[n].id)

\* The answer is late, or the sendto fails, or both.
LateOr(n, failed) ==
    IF failed
    THEN Fault("sendError") /\ (Late(n) => "delay" \in FaultKinds)
    ELSE FaultIf(Late(n), "delay")

\* Mutant of Retransmit: the retries are not counted down to zero.
RetransmitUnbounded(n) ==
    LET call == sendBuffer[n]
    IN  /\ up[n]
        /\ inSend[n]
        /\ \E failed \in BOOLEAN :
               /\ sendBuffer' = [sendBuffer EXCEPT ![n].retries = @ - 1,
                                                  ![n].failed = failed]
               /\ SendData(n, call.id, call.peer, failed)
               /\ LateOr(n, failed)
        /\ UNCHANGED <<up, inSend, receiveBuffer, maintained, sent, delivered>>

\* Mutant of Retransmit: every attempt sets retries_remaining anew.
RetransmitForever(n) ==
    LET call == sendBuffer[n]
    IN  /\ up[n]
        /\ inSend[n]
        /\ call.retries > 0
        /\ \E failed \in BOOLEAN :
               /\ sendBuffer' = [sendBuffer EXCEPT ![n].retries = NUM_RETRIES,
                                                  ![n].failed = failed]
               /\ SendData(n, call.id, call.peer, failed)
               /\ LateOr(n, failed)
        /\ UNCHANGED <<up, inSend, receiveBuffer, maintained, sent, delivered>>

\* No ACK within ACK_TIMEOUT_USEC, retries left: send the DATA again.
Retransmit(n) ==
    LET call == sendBuffer[n]
    IN  /\ up[n]
        /\ inSend[n]
        /\ call.retries > 0
        /\ \E failed \in BOOLEAN :
               /\ sendBuffer' = [sendBuffer EXCEPT ![n].retries = @ - 1,
                                                  ![n].failed = failed]
               /\ SendData(n, call.id, call.peer, failed)
               /\ LateOr(n, failed)
        /\ UNCHANGED <<up, inSend, receiveBuffer, maintained, sent, delivered>>

\* No ACK after the last retransmission: RMP_sendTo returns RMP_E_TIMEOUT.
GiveUp(n) ==
    /\ up[n]
    /\ inSend[n]
    /\ sendBuffer[n].retries = 0
    /\ FaultIf(Late(n), "delay")
    /\ Return(n, "timeout")
    /\ UNCHANGED <<up, receiveBuffer, maintained, net, delivered>>

-----------------------------------------------------------------------------
(* Receiving: receive_and_process_message, called by RMP_listen when the   *)
(* socket is readable and by attemptSend over and over.                    *)

\* The i-th datagram arrives; an overtaken one is a reordering.
Arrives(n, i, type) ==
    /\ up[n]
    /\ i \in 1..Len(net[n])
    /\ net[n][i].type = type

Rest(n, i) == [net EXCEPT ![n] = RemoveAt(@, i)]

\* The receive call is over.
Received(n) == maintained' = [maintained EXCEPT ![n] = {}]

\* Mutant of KeyOf: one buffer for all.
KeyOfNothing(src) == CHOOSE h \in Host : TRUE

\* get_receive_buffer_for: rmp_address_hash keeps the IP address of a sender
\* and writes its port outside of the key, so a key is a host.
KeyOf(src) == HostOf[src]

Store(n, d) ==
    receiveBuffer' = [receiveBuffer EXCEPT ![n][KeyOf(d.src)] =
        [occupied |-> TRUE, id |-> d.id, from |-> d.src, retries |-> NUM_RETRIES]]

\* A DATA replaces whatever its key's buffer held and is answered by an ACK.
ReceiveData(n, i) ==
    LET d == net[n][i]
    IN  /\ Arrives(n, i, "DATA")
        /\ FaultIf(i # 1, "reorder")
        /\ Received(n)
        /\ Store(n, d)
        /\ net' = Post(Rest(n, i), Dgram("ACK", d.id, n, d.src))
        /\ UNCHANGED <<up, inSend, sendBuffer, sent, delivered>>

\* An ACK is answered by a SYN_ACK whoever sent it and whenever it comes; it
\* ends attemptSend if it comes from the peer and has the id being sent, with -1
\* if the last sendto failed and this answers an earlier copy of the DATA.
ReceiveAck(n, i) ==
    LET d       == net[n][i]
        matches == d.id = sendBuffer[n].id
    IN  /\ Arrives(n, i, "ACK")
        /\ FaultIf(i # 1, "reorder")
        /\ Received(n)
        /\ net' = Post(Rest(n, i), Dgram("SYN_ACK", d.id, n, d.src))
        /\ IF inSend[n] /\ matches /\ d.src = sendBuffer[n].peer
           THEN Return(n, IF sendBuffer[n].failed THEN "error" ELSE "ok")
           ELSE /\ sendBuffer' = [sendBuffer EXCEPT ![n].occupied =
                                     @ /\ ~matches]
                /\ UNCHANGED <<inSend, sent>>
        /\ UNCHANGED <<up, receiveBuffer, delivered>>

\* Sending the reply to a DATA or to an ACK fails: receive_and_process_message
\* returns -1, after the DATA was stored but before an ACK had any effect.
ReplyFails(n, i) ==
    LET d == net[n][i]
    IN  /\ i = 1
        /\ \/ Arrives(n, i, "DATA") /\ Store(n, d)
           \/ Arrives(n, i, "ACK") /\ UNCHANGED receiveBuffer
        /\ Fault("sendError")
        /\ Received(n)
        /\ net' = Rest(n, i)
        /\ IF inSend[n]
           THEN Return(n, "error")
           ELSE UNCHANGED <<inSend, sendBuffer, sent>>
        /\ UNCHANGED <<up, delivered>>

\* Mutant of Completes: the id of the SYN_ACK is not compared.
CompletesAnyId(n, d) == receiveBuffer[n][KeyOf(d.src)].occupied

\* The SYN_ACK completes the message its key's buffer holds, if the ids agree.
Completes(n, d) ==
    LET buffer == receiveBuffer[n][KeyOf(d.src)]
    IN  buffer.occupied /\ buffer.id = d.id

\* Mutant of Release: occupied = 0 is forgotten.
KeepBuffer(n, key) == UNCHANGED receiveBuffer

Release(n, key) ==
    receiveBuffer' = [receiveBuffer EXCEPT ![n][key] = EmptyBuffer(n)]

\* The completed message goes to the caller of receive_and_process_message:
\* RMP_listen hands it to the application with the SYN_ACK's source address,
\* attemptSend frees the buffer it was copied to and goes on waiting.
ReceiveSynAck(n, i) ==
    LET d      == net[n][i]
        buffer == receiveBuffer[n][KeyOf(d.src)]
    IN  /\ Arrives(n, i, "SYN_ACK")
        /\ FaultIf(i # 1, "reorder")
        /\ Received(n)
        /\ net' = Rest(n, i)
        /\ IF Completes(n, d)
           THEN /\ Release(n, KeyOf(d.src))
                /\ IF inSend[n]
                   THEN UNCHANGED delivered
                   ELSE delivered' = [delivered EXCEPT ![n] =
                            Append(@, [from |-> d.src, origin |-> buffer.from,
                                       id |-> buffer.id])]
           ELSE UNCHANGED <<receiveBuffer, delivered>>
        /\ UNCHANGED <<up, inSend, sendBuffer, sent>>

(***************************************************************************)
(* clean_receive_buffer runs at the head of every receive call, so a       *)
(* process that is not sending runs it only when a datagram has made its   *)
(* socket readable, and then receives; attemptSend runs it every           *)
(* ACK_TIMEOUT_USEC at least.  Which elements are older than that is a     *)
(* matter of time: one is visited per step, in any order, and "maintained" *)
(* stops a listener from finding one expired twice in a call.              *)
(*                                                                         *)
(* An expired element is removed when it has no retries left; otherwise    *)
(* its ACK is sent again, to the address buffer->peer points to.  That     *)
(* pointer is to a local variable of a call that has returned: what is     *)
(* read there may be any node's address, or garbage that sendto rejects.   *)
(***************************************************************************)
MaintainBufferElement(n, h) ==
    LET buffer == receiveBuffer[n][h]
    IN  /\ up[n]
        /\ buffer.occupied
        /\ IF inSend[n]
           THEN UNCHANGED maintained
           ELSE /\ net[n] # <<>>
                /\ h \notin maintained[n]
                /\ maintained' = [maintained EXCEPT ![n] = @ \cup {h}]
        /\ FaultIf(InFlight(n, buffer.from, buffer.id), "delay")
        /\ IF buffer.retries = 0
           THEN Release(n, h) /\ UNCHANGED net
           ELSE /\ receiveBuffer' = [receiveBuffer EXCEPT ![n][h].retries =
                                        @ - 1]
                /\ \/ UNCHANGED net
                   \/ \E to \in Node :
                          net' = Post(net, Dgram("ACK", buffer.id, n, to))
        /\ UNCHANGED <<up, inSend, sendBuffer, sent, delivered>>

-----------------------------------------------------------------------------

Receive(n) ==
    \E i \in 1..Len(net[n]) :
        \/ ReceiveData(n, i)
        \/ ReceiveAck(n, i)
        \/ ReceiveSynAck(n, i)

Timeout(n) == Retransmit(n) \/ GiveUp(n)

Next ==
    \E n \in Node :
        \/ \E dst \in Node : SendTo(n, dst)
        \/ Timeout(n)
        \/ Receive(n)
        \/ \E i \in 1..Len(net[n]) : ReplyFails(n, i)
        \/ \E h \in Host : MaintainBufferElement(n, h)
        \/ Lose(n)
        \/ Duplicate(n)
        \/ Crash(n)

Spec == Init /\ [][Next]_vars

(***************************************************************************)
(* Fairness: a process reads its socket again and again (the loop of       *)
(* chat() or that of attemptSend) and its timers run out.  No fault need   *)
(* ever happen.                                                            *)
(***************************************************************************)
FairSpec ==
    /\ Spec
    /\ \A n \in Node : WF_vars(Receive(n)) /\ WF_vars(Timeout(n))

-----------------------------------------------------------------------------
(* Properties *)

\* No two nodes share an IP address.
DistinctHosts == \A a, b \in Node : HostOf[a] = HostOf[b] => a = b

\* The network may lose, delay and be cut, but keeps each datagram single and
\* in its place.
FifoNetwork == {"duplicate", "reorder"} \cap FaultKinds = {}

(***************************************************************************)
(* RMP_listen reports the address of the process that sent the message,    *)
(* not just of the one whose SYN_ACK completed it, and that process sent   *)
(* it to the one it is handed out at.                                      *)
(***************************************************************************)
Attribution ==
    \A n \in Node : \A i \in 1..Len(delivered[n]) :
        LET m == delivered[n][i]
        IN  /\ m.from = m.origin
            /\ m.id \in 1..Len(sent[m.origin])
            /\ sent[m.origin][m.id].dst = n

(***************************************************************************)
(* A message is handed out only after its sender's RMP_sendTo returned:    *)
(* the third leg of the handshake ends nothing the second has not ended.   *)
(***************************************************************************)
DeliveredIsSettled ==
    \A n \in Node : \A i \in 1..Len(delivered[n]) :
        LET m == delivered[n][i]
        IN  m.id <= Len(sent[m.origin]) /\ sent[m.origin][m.id].result # "pending"

(***************************************************************************)
(* Messages of one sender are handed out in the order of their sending,    *)
(* none of them twice, whatever is lost, late, or sent again.              *)
(***************************************************************************)
InOrderOnce ==
    \A n \in Node : \A i, j \in 1..Len(delivered[n]) :
        i < j /\ delivered[n][i].origin = delivered[n][j].origin
            => delivered[n][i].id < delivered[n][j].id

\* Message k of o has been handed out at its destination.
HandedOut(o, k) ==
    /\ k <= Len(sent[o])
    /\ LET n == sent[o][k].dst
       IN  \E i \in 1..Len(delivered[n]) :
               delivered[n][i].origin = o /\ delivered[n][i].id = k

\* Nobody is sending and nothing is on its way.
AtRest == \A n \in Node : ~inSend[n] /\ net[n] = <<>>

(***************************************************************************)
(* When everything has come to rest, each message whose RMP_sendTo         *)
(* reported success has been handed out to the application.                *)
(***************************************************************************)
OkMeansDelivered ==
    AtRest => \A o \in Node : \A k \in 1..Len(sent[o]) :
                  sent[o][k].result = "ok" => HandedOut(o, k)

(***************************************************************************)
(* While there are no faults, a message to a process that only listens is  *)
(* handed out in the end.                                                  *)
(***************************************************************************)
ListenerGetsAll ==
    \A o \in Node : \A k \in 1..Budget[o] :
        (k <= Len(sent[o]) /\ Budget[sent[o][k].dst] = 0)
            ~> (HandedOut(o, k) \/ faults > 0)

(***************************************************************************)
(* RMP_sendTo returns, whatever the peer and the network do.               *)
(***************************************************************************)
SendReturns == \A n \in Node : inSend[n] ~> ~inSend[n]

-----------------------------------------------------------------------------
(* What the protocol promises, of the calls and the messages handed out. *)

Messenger == INSTANCE Messenger WITH
    Node <- Node, sent <- sent, delivered <- delivered

(***************************************************************************)
(* On distinct hosts and a FIFO network, RMP implements Messenger.         *)
(***************************************************************************)
ImplementsMessenger == Messenger!Spec
=============================================================================
