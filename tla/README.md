# A TLA+ model of dchat

dchat is a chat for a terminal: processes form a group, one of them leads and
puts all lines in order, and when the leader disappears the others elect a new
one. Everything travels over RMP, a small reliable messaging protocol on UDP.
These modules model RMP with its buffers, the group's data, the chat, the text
of its lines and the window in front of it. TLC checks them on small instances,
and TLAPS proves, for all values of the constants, the main safety properties of
RMP, of its buffers, of the chat and of the text, and that RMP, its buffers and
the order of the chat's lines implement their abstract specifications.

Contents: [the system](#the-system), [modules](#modules),
[RMP](#rmp), [the holding buffers](#the-holding-buffers),
[the chat](#the-chat), [the text of a line](#the-text-of-a-line),
[the window](#the-window), [runs](#runs),
[disagreements](#disagreements), [proofs](#proofs), [limits](#limits),
[plan](#plan).

## The system

| part | source | state | operations | who calls it |
|---|---|---|---|---|
| RMP | `RMP/rmp.c`, `message_buffers.c`, `protocol.c` | the send buffer, one holding buffer per sender, the socket | `RMP_sendTo` (blocking), `RMP_listen`, `RMP_closeSocket`, address helpers | chat, leader, nonleader |
| map | `structures/map.c` | a list of key/value pairs | put, get, remove, iterate | RMP's holding buffers |
| group model | `model.c` | the list of participants, `num_participants`, the `leader` pointer, `is_leader` | insert, contains, empty, two ways to set the leader | leader, nonleader, chat |
| chat | `dchat.c` | `in_election`, `started_election`, `last_election_start`, `clock_num`, `last_heartbeat` | start, join, the event loop, typed lines, heartbeat, election | main |
| leader's part | `leader.c` | none of its own | handling of each message, broadcast with removal of who is not reached | event loop |
| non-leader's part | `nonleader.c` | none of its own | handling of each message, broadcast without removal | event loop |
| encryption | `encryption/encryption.c` | none | encrypt, decrypt | typed lines, printing |
| GUI | `gui/src/*.java` | the list of participants and the leader, as read from dchat's output | interprets lines, sends lines | the user |

A process has one thread. `chat()` waits in `select` and then runs one handler
to its end: a line from stdin, one `RMP_listen`, a heartbeat, or an election
timer. A handler sends with `RMP_sendTo`, which blocks until the receiver's
ACK or until the retries are used up, and which goes on *processing* datagrams
while it waits. So nothing runs concurrently inside a process, but the sends of
one broadcast interleave with everything the others do, and a message that is
complete while its receiver is itself inside `RMP_sendTo` is dropped
(`rmp.c:267-280`). Most of what is hard in this system comes from there.

What makes each part correct:

- RMP: a message is handed out at its destination, under its sender's name, at
  most once and in order; a sender gets an answer in any case; what is
  incomplete does not stay for ever; success means delivery.
- group model: the flag of the process, the leader pointer and the flags in the
  list agree; nicknames are unique; members who live are listed.
- chat: all see lines in one order, those of one leader in the order in which
  it has numbered them; a typed line is not lost; there is one
  leader at most, and one in the end; every election ends; what a
  process knows of the others fails it only where it has missed an update.
- encryption: what is decrypted and printed is what was typed.
- GUI: its list of participants is that of the process it wraps.

What is hard: the swallowing of messages by a sender; retries crossing late
answers; addresses kept by pointer; crashes between the sends of a broadcast;
elections that overlap; timers measured from different events; lists that
differ after a missed update. `PROJECT.json` lists each of these hazards at its
line, with the properties that watch it or the reason why none does.

## Modules

| module | what it is |
|---|---|
| `Messenger` | abstract: what RMP promises of calls and messages handed out |
| `RMP` | the protocol: datagrams, buffers, retries, faults |
| `RMPInvariants` | the inductive invariant of RMP |
| `Lists`, `ListProofs` | the loops that pass over some elements of a list; what they leave, and what removing one element leaves |
| `RMPProofs` | type correctness; lemmas on one channel (a queue, its buffers, its messages), the inductive invariants, the safety theorems, and that RMP implements `Messenger` |
| `Participants` | `model.c` and PARTICIPANT_UPDATE, as operators on a group |
| `LineOrder` | abstract: what the chat promises of the lines of each leader |
| `Chat` | `dchat.c`, `leader.c`, `nonleader.c` over `Participants` |
| `ChatInvariants` | three inductive invariants of the chat: of single processes, of who lists whom, of where lines are; and the mapping to `LineOrder` |
| `ChatProofs` | what the operators of `Participants` do to addresses, flags and nicknames; that the first invariant is one, and what follows |
| `ListingProofs` | that the second is one given the first, and what follows |
| `LinesProofs` | that the third is one given the first, that the lines of one leader are seen in one order, and that the chat implements `LineOrder` |
| `BufferTable` | abstract: a table with one incomplete message per key, and sweeps over it |
| `HoldingBuffers` | `map.c` and `message_buffers.c`: list, heap, iterator |
| `HoldingBuffersProofs` | type correctness, well-formedness, safety of the iterator, and that the map implements `BufferTable` |
| `LineText` | `encryption.c` and the C strings a line goes through |
| `LineTextProofs` | that a line is printed as it was typed |
| `Window` | `gui/src`: a window that reads the output of a process of `Chat`; extends `Chat` |
| `WindowProofs` | that what is proved of the chat holds with windows, too, and that these are type correct |
| `MCRMP`, `MCChat`, `MCLineText`, `MCWindow` | instances for TLC |

`RMP` implements `Messenger` (`ImplementsMessenger`, through an INSTANCE whose
variables are RMP's `sent` and `delivered`), and `Chat` implements `LineOrder`
(`ImplementsLineOrder`). `Chat` does not run RMP inside it: it takes a whole `RMP_sendTo` as a step whose outcomes are those RMP shows
(below).

`HoldingBuffers` implements `BufferTable` (`ImplementsTable`), which is how RMP
sees its buffers: in `RMP`, `receiveBuffer` is a function of the key, and a
receive call may maintain each expired element once. `LineText` looks into the
lines that `Chat` numbers. `Window` adds the window's variables to those of
`Chat` and interleaves its reader with the steps of the processes.

In these modules some operators are named "Mutant of X". They are X with a
plausible mistake, stand before X, and are used by no other definition: a
property is worth its run only if such a mistake breaks it.

## RMP

State and code:

| variable | code |
|---|---|
| `up` | the process runs, its socket is open |
| `inSend` | control is inside `attemptSend` |
| `sendBuffer` | `get_send_buffer()`: occupied, id, peer, retries, and `failed`, `num_bytes_sent` of the last `sendto` being -1 |
| `receiveBuffer[n][h]` | the holding buffer under key `h` of `get_receive_buffer()` |
| `maintained` | the elements found expired by the receive call in progress |
| `net[n]` | UDP datagrams on their way to `n`, in order of arrival |
| `sent`, `delivered` | histories of the calls and of what `RMP_listen` handed out |

| action | code |
|---|---|
| `SendTo` | `RMP_sendTo` up to the first `sendto` of `attemptSend` (`SendData`) |
| `Retransmit`, `GiveUp` | the timeout branch of `attemptSend`, `rmp.c:254-265` |
| `ReceiveData`, `ReceiveAck`, `ReceiveSynAck` | the three cases of `receive_and_process_message`, whoever called it |
| `ReplyFails` | `send_rmp_datagram` fails in two of them |
| `MaintainBufferElement` | `maintain_buffer_element` for one expired element |
| `Crash` | the process ends, or `RMP_closeSocket` |
| `Lose`, `Duplicate`, and a receive out of turn | UDP |

Points where the code is surprising, and modelled as it is:

- The key of a holding buffer is the IP address alone: `rmp_address_hash`
  writes the port behind the key (`message_buffers.c:17`). `KeyOf` is the host.
- `random()` is never seeded, so the k-th message of each process has the same
  id. Ids are the number of the call.
- `buffer->peer` points to a local variable of a call that has returned
  (`rmp.c:113`). A retried ACK goes to any node, or to none.
- An ACK is answered by a SYN_ACK whatever its id (`rmp.c:122`).
- A `sendto` that fails for the DATA itself does not end `attemptSend`: it waits
  all the same, and returns -1 if the ACK of an earlier copy comes
  (`rmp.c:213,290`), although the message is going to be handed out.
- A listener maintains its buffers only when its socket is readable
  (`dchat.c:478`), a sender in every turn of its loop.

Time is not modelled. A 20 ms timer may run out when no datagram about its
message is under way between two processes that run; when one is, running out
is the fault `delay`. Faults are `lose`, `duplicate`, `reorder`, `delay`,
`crash` and `sendError`; a run allows some of them, `MaxFaults` times in all.

## The holding buffers

A pair is known by its address, a `Cell`; `pairs` is the order of the list,
`pair` what is on the heap. Reading `pair` at an address that has been freed is
what `NoDangling` and `WellFormed` exclude. An address that was freed may be
handed out again by the next `malloc`.

| operator or action | code |
|---|---|
| `find_pair_by_key`, `Insert` | `map_get` and `map_put`; without memory `map_put` fails and its caller goes on |
| `Store`, `SynAck` | what a DATA and a SYN_ACK do with the buffer `get_receive_buffer_for` finds or makes |
| `Begin`, `map_iterator_next`, `End` | `iterate_over_send_buffer` and the iterator |
| `Young`, `Expired` | `maintain_buffer_element` for the pair that was returned last |
| `map_iterator_remove` | the removal it asks for |

One sweep is several steps, during which nothing else happens to the buffers:
the process has one thread. In the code a sweep precedes every `Store` and
`SynAck`; in the model it may, so the model has some behaviours more. Ages are
not kept: a pair that is looked at is young or expired.

## The chat

`Participants` gives the operations on a group under their names in the source.
A participant is its node, which stands for address and nickname; `Nick` gives
the order of `strcmp`, and two nodes may have the same name.

`Chat` has one action per handler. What a handler still has to do is `work[n]`,
a sequence of tasks; a step does one `RMP_sendTo`, or the end of a function
that follows its sends (`campaign`: the assignments at the end of
`start_election`; `settle`: the second half of `leader_broadcast_message`;
`announce`: the second broadcast of `declare_victory`; `print`: the leader's own
output).

A process prints a notice when somebody joins, leaves or becomes leader
(`Tell`, `PrintNotice`). Where a window runs it, notices are kept in `output`;
elsewhere they have no effect.

| actions | code |
|---|---|
| `Join`, `Reply`, `Wake` (`TryAgain`) | `join_chat` |
| `Acknowledged`, `TimesOut` | one `RMP_sendTo` and what its caller does with the result |
| `Campaign`, `Settle`, `Announce`, `PrintLine` | ends of functions, as above |
| `LeaderReceives` | `leader_receive_message` |
| `MemberReceives` | `non_leader_receive_message` |
| `RespondToElection` | `respond_to_leader_election` |
| `Type` | `recv_stdin` |
| `Heartbeat`, `DeclareVictory`, `RestartElection` | the timers of `chat()` |
| `Tick` | time |
| `Crash` | the process ends: EOF, a signal |

What a send does follows from RMP on a network without faults:

- Receiver alive: it gets the message, in order (`InOrderOnce`), and the sender
  goes on.
- Receiver gone: the sender gets `RMP_E_TIMEOUT`.
- In both cases the sender may drop what has arrived for it: this is
  `rmp_swallow` seen from above. A message is dropped if its SYN_ACK is read
  before the ACK that ends the send. So a send that is answered (`Deliver`) takes
  any number of messages from the front of the sender's `inbox`, none or all of
  them included, and two sends that cross may both arrive, or one, or none. A
  send that times out goes through them all.
- Receiver asleep in `nanosleep` (`napping`), or late (fault `timeout`): the
  sender gets `RMP_E_TIMEOUT`, and the message may or may not have arrived.

`MaxFaults` bounds the crashes and the late answers of a behaviour separately.

A group starts formed (`Founders`, the first one leads), with the lists a
sequence of joins leaves; the runs that are about joining start small and let
the rest join.

Time: `Tick` ages the heartbeat and election timers when nobody has work, an
unread message or an expired timer. Handlers take milliseconds, the intervals
are 3, 3 and 6 seconds, so they are 1, 1 and 2 ticks, and all that is due in a
tick happens in any order. `MaxAttempts` is the 10 of `join_chat`, smaller in the runs.

## The text of a line

Texts are sequences of bytes, and C strings what comes before the first NUL. A
buffer that nobody has initialised, or the part of one behind what was written
into it, holds any member of `Junk`.

| operator or action | code |
|---|---|
| `Buf` | the read in `chat()`, with NUL for the last byte |
| `encrypt`, `decrypt`, `Cipher` | `encryption.c`, and what `%s` takes for the ciphertext |
| `LeaderTypes`, `MemberTypes` | the two branches of `recv_stdin` |
| `LeaderReceives`, `MemberReceives` | MESSAGE_REQUEST and MESSAGE_BROADCAST |
| `Fitted`, `Scanned` | `snprintf`, and the two `sscanf` a line passes: the message is cut at its first newline (`leader.c:19`, `nonleader.c:97`), then blanks are skipped |

What ends a line is the NUL that is encrypted with it: the ciphertext has no
end of its own (`dchat.c:259`), so what follows it in the buffer is sent too,
and is cut off when the NUL appears again after decryption. `Plain`, the bytes
1 to 136, are those that no byte of the key turns into NUL, a newline or a
leading blank: they include ASCII. Other bytes do lose text, and the chunks of
the run contain some of each kind.

## The window

| variable | code |
|---|---|
| `roster` | `ParticipantListModel`: `participants`, `leader` |
| `reader` | the thread of `DChatSource` that reads the output: reading, ended, or dead of an exception |
| `missed` | history: which processes have dropped a PARTICIPANT_UPDATE in `attemptSend` |

| operator or action | code |
|---|---|
| `setParticipants`, `addParticipant`, `removeParticipant`, `setLeader` | the methods of `ParticipantListModel` |
| `interpretInput` | `ChatSource.interpretInput` for one notice |
| `EndOfStream` | the end of `InputHandlerThread.run` |

A window knows the group by nicknames. It reads a notice when it gets to it,
maybe after its process has gone on or has ended. A notice about several who
left has more than seven words and is not understood (`ChatSource.java:71`).

## Runs

Every run takes less than five minutes with two workers.

| run | instance | checked |
|---|---|---|
| `rmp_fifo` | 3 hosts, of which 2 send (2 and 1 messages), 1 retry, 2 faults among loss, delay, crash, failing send; 1.7 million states | `InductiveInvariant`, `InOrderOnce`, `DeliveredIsSettled`, `ImplementsMessenger` |
| `rmp_faults` | 3 hosts, one message from each of two, 1 retry, 2 faults of any kind | `TypeOK`, `Attribution`, `SendReturns`, `ListenerGetsAll` |
| `chat_lines` | 3 members led by B, two lines, 1 crash; 1.2 million states | `SameOrder`, `LeadersOrder`, `OrderInvariant`, `ImplementsLineOrder` |
| `chat_join` | A leads C; B and D, with the same nickname, join; A's notices are kept; 1 crash; 1 million states | `TypeOK`, `GroupInvariant`, `SelfListed`, `LiveAreListed`, `LeaderLeads`, `DistinctNames` |
| `chat_election` | 3 members, no lines, 2 crashes and 1 late answer; 0.24 million states | `OneLeader`, `ElectionEnds`, `GetsLeader` |
| `window` | C leads A, both with a window, B joins; 2 crashes; 0.19 million states | `WindowTypeOK`, `ListingInvariant`, `KnownUnlessMissed`, `PointerFollows`, `ReaderGoesOn`, `RosterFollows`, `LeaderIsShown` |
| `buffers` | 4 keys, memory for 3 pairs, 1 retry, 3 messages stored; 0.16 million states | `TypeOK`, `WellFormed`, `NoDangling`, `ImplementsTable`, `HeldEnds` |
| `text` | all chunks of 2 and 3 bytes out of 7, 11 long ones, rooms of 12 and 10 bytes | `TypeOK`, `PrintedAsTyped`, `BeginsAsTyped` |

Four more runs end in a violation; see [disagreements](#disagreements).

Bounds and why they suffice for the question asked:

- RMP: two messages in one direction are what order and duplication need, and a
  message in the other direction makes the receiver a sender, the case that
  swallows. One retry gives a retransmission of each kind of datagram; two
  faults let one of them hit the recovery from the other. The third process
  only listens: it is where misdirected ACK retries go and where
  `ListenerGetsAll` bites.
- Chat: three members are the leader who crashes, the one who wins and the one
  who loses; the nicknames are such that the founding leader has the middle
  one. Two lines are what an order needs. Two crashes in `chat_election` take
  the leader and a candidate, and one late answer has a member taken for dead
  besides. Joins happen in a group that also elects.
- Window: two crashes can be those of two members in one broadcast, which is
  the notice of several; the newcomer is the one whose update may be dropped
  and who then calls an election. Without their exception, `KnownUnlessMissed`
  and `PointerFollows` are violated in this instance, so the cases are there. The join may go through the leader or
  the member and meets elections, so petitions are sent on, turned away and
  made again: this is where `ListingInvariant` is checked. (It holds in
  `chat_join` as well, with four processes, but takes too long to check in
  every run.)
- Buffers: memory runs out one pair before the keys do, and three messages with
  the pairs that SYN_ACKs leave behind make lists in which the first, a middle
  and the last pair are removed, also two in one sweep.
- Text: the short chunks hold bytes that the key turns into NUL, newline and a
  tab at one of the first three places; the long ones go through the nine
  bytes of the key and stop below, between and above the two rooms. The real
  rooms are of about a thousand bytes; the theorems cover them.
- `Chat` never deadlocks (`Tick`), and the runs check it. `RMP` runs stop when the budgets
  are used up, so they do not.

Fairness. `RMP!FairSpec`: a process goes on reading its socket, and its send
timer runs out; these are the loops of `chat()` and `attemptSend`. Faults are
never forced, and buffers need never be maintained. `Chat!FairSpec`: a process
that has something to do, in its handler, its event loop, its timers or its
nap, does something, whatever `select` gives it first; and time passes, which
it does only when nobody has anything to do. Nobody need ever type, join or
crash.
`HoldingBuffers!FairSpec`: receive calls, and with them sweeps, are made again
and again, and a message that sweeps keep meeting is found expired by one of
them (strong fairness, because a sweep stands on it only now and then): its
timestamp stays while time passes. A DATA that replaces the message starts its
time again; `MaxStores` ends that.

What the passing runs show of the hazards: retries never reorder or duplicate
on a FIFO network; a sender always returns; a crash at any point of a broadcast,
of a victory or of a join leaves complete lists, a consistent leader and one
order of lines; a group without leader gets one, also if live members are
taken for dead; a quiet group of three has one leader at most and ends its
elections. The walk over the holding buffers survives its own removals, and no
message stays in them for ever. A line of ASCII is printed by all as it was
typed. The window follows its process. What goes wrong inside a process or a
reader, a pointer that stays with a former leader, strcmp of a NULL, an
exception, goes back to a dropped PARTICIPANT_UPDATE. All this holds whether
messages that cross arrive or are dropped.

What they do **not** show:

- `OneLeader` holds for the instance of `chat_election`. It fails as soon as a
  line is typed during the election, in a group of four, or with a join in
  between, because a process that leads does not process ELECTION_VICTORY
  (`leader.c:79`) and `is_leader` is never reset in it. The property is kept
  for the case it covers, the crash of a leader of two silent members.
- `ElectionEnds` fails with one typed line: `chat_stuck`.
- A member that misses the update about a newcomer, because it is sending its
  heartbeat, compares its nickname with NULL when the newcomer calls an election
  (`dchat.c:335-339`), and when the newcomer wins one it clears all its flags and
  keeps the pointer to the old leader (`model.c:114-125`). `KnownUnlessMissed`
  and `PointerFollows` state what remains true in a group of three: neither
  happens to whoever has seen all updates. In a group of four that is no longer
  so: who has missed an update may win the next election and hand its list,
  without the newcomer, on to others who have missed nothing.
- `RosterFollows`, `ReaderGoesOn` and `LeaderIsShown` are about groups of three
  in which all answer in time. In a group of four a leader may crash after it
  has told one member of a newcomer and before it has told the next; if that
  one wins, the first takes its list over, with a notice that only names the
  new leader, and its window goes on showing the newcomer.
- `SameOrder` also relates lines typed to different leaders. With two leaders
  at once, which four members or a late answer make possible, nothing orders
  these. What holds always is `LeadersOrder`, for the lines of each leader.
- `HeldEnds` needs receive calls: a process to which nothing is sent sweeps no
  more (`rmp.c:84` under `dchat.c:478`), and keeps an incomplete message with
  its retries for as long.
- `RosterFollows` allows a window to list processes that are gone. It does, in
  two cases: the notice of several, and a newcomer that crashes during the
  broadcast of its own arrival, whose leaving the leader prints first
  (`leader.c:55-56`).
- `PrintedAsTyped` is about whole lines of plain bytes. A line whose NUL does
  not fit is followed by what the buffers held; the part before it is right
  (`BeginsAsTyped`).
- `LiveAreListed` and `OneLeader` are stated for behaviours in which all who
  run answer in time (`Prompt`). A live member taken for dead goes on with its
  own list. `SelfListed`, `LeaderLeads` and `DistinctNames` hold for it, too.
- On networks that duplicate or reorder, neither order nor settlement holds in
  RMP, so these are stated for networks that do not (`FifoNetwork`).

## Disagreements

Each of these runs finds a behaviour of the code that a document or a comment
of the repository excludes; the entries are in `PROJECT.json`.

| run | what happens |
|---|---|
| `rmp_swallow` | A and B send to each other. B gets the ACK of its own message after A's SYN_ACK, which completed A's message inside B's `attemptSend`: it is freed. A was told that it arrived. No fault is needed. |
| `rmp_same_host` | A and B on one host send to C. B's DATA replaces A's in the buffer they share, and A's SYN_ACK, whose id is the same, hands B's message out as A's. |
| `chat_stuck` | The leader crashes, one member wins, the other has typed a line to the dead leader and starts an election that reaches the winner: a leader in an election sends no heartbeats, and members restart elections for ever. |
| `chat_lost_line` | A line typed to a dead leader starts the election and is forgotten. |

## Proofs

All are checked by TLAPS with Z3, Zenon and LS4.

| theorem | statement | assumptions |
|---|---|---|
| `RMPProofs!TypeCorrect` | `Spec => []TypeOK` | those on the constants |
| `RMPProofs!Inductive` | `Spec => []InductiveInvariant` | `DistinctHosts`, `FifoNetwork` |
| `RMPProofs!OrderedOnce` | `Spec => []InOrderOnce` | the same |
| `RMPProofs!SettledFirst` | `Spec => []DeliveredIsSettled` | the same |
| `RMPProofs!MessengerImplemented` | `Spec => ImplementsMessenger` | the same |
| `RMPProofs!Attributed` | `Spec => []Attribution` | `DistinctHosts` |
| `HoldingBuffersProofs!BuffersTypeCorrect` | `Spec => []TypeOK` | those on the constants |
| `HoldingBuffersProofs!MapWellFormed` | `Spec => []WellFormed` | the same |
| `HoldingBuffersProofs!IteratorIsSafe` | `Spec => []NoDangling` | the same |
| `HoldingBuffersProofs!TableImplemented` | `Spec => ImplementsTable` | the same |
| `ChatProofs!GroupInductive` | `Spec => []GroupInvariant` | the same |
| `ChatProofs!ChatTypeCorrect` | `Spec => []TypeOK` | the same |
| `ChatProofs!SelfAlwaysListed` | `Spec => []SelfListed` | the same |
| `ChatProofs!LeaderAlwaysLeads` | `Spec => []LeaderLeads` | the same |
| `ChatProofs!NamesStayDistinct` | `Spec => []DistinctNames` | the same |
| `ListingProofs!ListingInductive` | `Spec => []ListingInvariant` | the same |
| `ListingProofs!LiveAlwaysListed` | `Spec => []LiveAreListed` | the same |
| `LinesProofs!LinesInOrder` | `Spec => []OrderInvariant` | the same |
| `LinesProofs!LeadersOrderHolds` | `Spec => []LeadersOrder` | the same |
| `LinesProofs!LineOrderImplemented` | `Spec => ImplementsLineOrder` | the same |
| `WindowProofs!WindowGroup` | `WindowSpec => []GroupInvariant` | the same |
| `WindowProofs!WindowListing` | `WindowSpec => []ListingInvariant` | the same |
| `WindowProofs!WindowLines` | `WindowSpec => []LeadersOrder` | the same |
| `WindowProofs!WindowTypeCorrect` | `WindowSpec => []WindowTypeOK` | the same |
| `LineTextProofs!RoundTrip` | decrypting undoes encrypting | none, for any sequence of bytes |
| `LineTextProofs!TextTypeCorrect` | `Spec => []TypeOK` | those on the constants |
| `LineTextProofs!SameText` | `Spec => []PrintedAsTyped` | the same |
| `LineTextProofs!SameBeginning` | `Spec => []BeginsAsTyped` | the same |

The assumptions on the constants are in the modules that declare them. Those of
the chat: nicknames are numbers (their order is that of `strcmp`), the group
that starts formed is not empty and has distinct nicknames, `join_chat` tries at
least once. The buffers' `NULL` is neither a cell nor an iterator.

### RMP's messages

The theorems hold for any number of nodes, retries, messages and faults. `FifoNetwork`
allows loss, delay, crashes and failing sends. `DistinctHosts` is necessary
(`rmp_same_host`).

`TypeOK` is inductive only with `SendingInv`: that a process in `attemptSend`
has exactly one pending call, the last one, whose id and destination are in the
send buffer. Without it, `Return` could settle a call that does not exist.

The safety properties need to know what is under way. `ChannelInv(n, ...)`, for
the queue, buffers and messages of one receiver, has three parts:

- `Genuine`: each DATA in the queue, each held message and each message handed
  out was sent to `n` by the node it names, and is held under that node's host.
- `Growing`: the ids of one sender grow from the messages handed out, over the
  held one, to the DATA in the queue. `InOrderOnce` is its last conjunct.
- `Concluding`: a SYN_ACK that will find its message, held or still in front of
  it in the queue, belongs to a call that has returned, and no copy of the DATA
  comes after it. So the message cannot be stored again once it has been handed
  out. `DeliveredIsSettled` is its last conjunct.

`Concluding` speaks only of SYN_ACKs that will find their message, since others
exist: an ACK retried to the wrong address makes a node send the SYN_ACK of a
message that it has not sent yet. That is why a simpler invariant, "a SYN_ACK
under way belongs to a settled call", does not hold.

The proof has one lemma per action (`SendToChannels`, `ReceiveAckChannels`,
...), which rest on lemmas about one channel (`ChannelReply`, `ChannelData`,
`ChannelStore`, `ChannelHand`, ...): these speak of sequences alone. `InvStep`
puts the actions together.

`Attribution` does not need the network to be FIFO. `GenuineInv`, that every
DATA under way, every held message and every message handed out was sent by the
node it names, survives duplicates and any order of arrival, and is inductive by
itself; `Growing` and `Concluding` are not.

That RMP implements `Messenger` is shown step by step (`MessengerStep`).
`RMP_sendTo` up to its first datagram is a submission (`SubmitStep`), the end of
a call, by ACK, give-up or failure, settles it (`SettleStep`), and a SYN_ACK
that completes a message hands it out (`HandStep`); everything else leaves calls
and messages as they are. `HandStep` is where `Growing` and `Concluding` are
needed: `Messenger` hands a message out only after the end of its call and after
all earlier ones of its sender.

### The buffers

`TypeOK`, `WellFormed` and `NoDangling` are inductive together, and none is
alone. That the iterator's next pair is the one behind the pair it stands on
makes the removal of the latter safe; that an address is in the list once
makes the place of a pair in it well defined; and that keys differ keeps
`find_pair_by_key` from leaving a second pair for a key behind. The lemmas say
what each operation does to list and heap (`FindProperties`, `InsertProperties`,
`RemoveProperties`, over `RemoveAtProperties`); `IndStep` has one step per
action.

The refinement maps list and heap to `Table`, the message under each key, and
the iterator to `Todo`, the keys of the pairs from the iterator's next one on.
With the same invariant each action is one of `BufferTable` or a stutter
(`TableStep`). The delicate ones are `map_iterator_next`, which takes exactly
one key off `Todo` since no address comes twice (`LookedAt`), and `Expired`,
which frees the pair the iterator has just left and must change neither `Todo`
nor another key's message.

### The chat

`GroupInvariant` is `TypeOK` with `ProcessInv(n)` for each process. None of
`SelfListed`, `LeaderLeads` and `DistinctNames` is inductive: each depends on
what a process is told and on what it still has to do. `ProcessInv` adds

- of an inbox, and of what a process is going to send: a PARTICIPANT_UPDATE names
  its receiver, and no nickname twice (`Informs`). So a member that takes over
  a list stays in it. The leader sends the updates of one broadcast while its
  list may shrink with the next, so this is said of each message and not of
  the list it was made from;
- of the work that is left: a process that does not lead has none of the tasks
  of `leader_broadcast_message` and `declare_victory` (`MembersTasks`). So only
  a leader, who is flagged, unlinks somebody, and never itself;
- of a joiner: it knows whom it asked, and it is not a leader; of who is in the
  chat: it knows a leader, so that no line and no JOIN goes to a NULL.

`TypeOK` says that these addresses are processes, and rests on them in turn.
That a leader is the only flagged one in its own list holds at each point of a
broadcast, because `set_leader_by_addr` finds the process itself in it, once:
that is where `SelfListed` and `DistinctNames` are needed.

`ChatProofs` first says what each operator on a group does to addresses, flags
and nicknames (`InsertProperties`, `WithoutProperties`, `ProcessProperties`,
...), over `SelectedProperties` of `ListProofs`: what a loop that passes over
some elements leaves is a list of the others. Then it has one lemma per action,
and `GroupNext` puts them together. All this holds with late answers and any
number of crashes: `Prompt` is not assumed.

`LiveAreListed` relates two processes, a member and the leader it follows, and
is far from inductive: between them are a petition, an answer, an update, a
victory. `ListingInvariant` follows them in four steps.

1. The petition of a joiner (its ADD_ME, then a JOIN_FAILURE or LEADER_ID that
   answers it) is in one place at a time, in somebody's next send or in
   somebody's inbox, and nowhere while the joiner naps (`PetitionInvariant`).
   An ADD_ME is read, answered and gone in one handler; `TryAgain` makes the
   next one only when the answer has been read.
2. So a joiner that a leader puts in its list has no petition left, cannot be
   turned away any more and does not go to its nap: whoever is in any list is
   joining or chatting, or has ended (`Granted`). An update under way names
   only such processes, too (`ListOf`).
3. Whoever neither naps nor is late answers. So while nobody is late a
   timeout in a leader's broadcast removes only who has ended.
4. Hence whoever is going to be sent an update or a victory, has it in its
   inbox, or has taken it over as its leader, is in the sender's list or has
   ended (`Keeps`). An election's winner takes its own list with it, and it
   sends its victory to exactly those in it.

That a leader never ceases to lead (`is_leader` is not reset) is part of
`Keeps`, and it is what makes `OneLeader` fail in larger groups. Here it helps:
a leader that has promised to keep somebody still keeps it when the message is
read. The first two steps do not assume `Prompt`; `Keeps` does. `ListingStep`
says what any step of one process has to show, given that no grant and no
promise is broken (`Onward`); each action has a lemma that shows it.

### The lines

A line is in many places at once: typed and asked for in a MESSAGE_REQUEST,
then, with its number, in what its leader has still to send and print, in
inboxes and on screens. `Copies` are those that have a number. `LeadersOrder`
speaks of screens alone; `OrderInvariant` follows the line there.

- `FromLeader`: whoever tells a line is whom it was typed to, and has each of
  the others to tell at most once.
- `Counted`: all copies of one line have one number, and the leader's clock is
  beyond it.
- `Ascending`: what somebody has seen, what waits for it and what the leader
  has still to tell it are, for one leader, in the order of the numbers.
- `OneRequest`: the request for a line is in one place alone, and while it is
  there no copy of the line is anywhere; so a line is counted once.

The first part of the proof disposes of the steps that do nothing with lines.
They only drop: tasks from the front, inboxes whole or from the front
(`LessWork`, `LessInbox`), and dropping keeps all four parts (`LessOrder`). The
second is about the one line that a step moves. `Fits` says that it is the next
for its reader; the first task (`TaskTaken`) and the first message
(`MessageTaken`) fit, and what fits may be shown (`LineShown`), or may arrive if
nothing greater waits (`LineArrives`). The third is the step that counts a line
(`LineCounted`), whose broadcast tells it to each of the others once
(`BroadcastRelays`), since no address is in the list twice (`GroupInvariant`).

None of this asks who leads. A leader that is taken for dead goes on counting,
and a new one starts from the number of the last line it has seen
(`nonleader.c:110`), which the old one may use as well. That is why the order
is that of each leader's own lines, and why it survives two leaders, late
answers and any number of crashes: `Prompt` is not assumed.

The refinement of `LineOrder` maps its `numbered` to `Copies`. Each lemma about
a step of the chat also shows the step of `LineOrder` it is (`LineStep`): mostly
`Lose`, as numbers go with what is dropped, but never the number of a line that
is shown. `OrderCounts` is `Number`, and `OrderTypes`
`Type` or, for a leader, `Say`; `OrderPrints` and `OrderReads` are `Show`, which
has to come above all that was shown of that leader: `Fits` again.

### The windows

A window reads the output of its process and changes nothing else of the chat
(`OutputRead`). So each step of `Window` is one of `Chat` or leaves all but
`output` alone, and the invariants, which say of the output only that it
consists of notices, are kept by both (`WindowKeeps`): the theorems hold for
processes with windows, too. `WindowTypeOK` also says that a window lists the
leader it shows. It is inductive because `setLeader` throws when it does not find the
name, and `removeParticipant` forgets a leader with its name
(`InterpretedShows`).

### The text

The arithmetic of one byte (`ByteSums`: what is added is taken away, and bytes
up to 136 leave 100..255, where no NUL, newline or blank is) gives `RoundTrip`
for texts. `Kept(c)` is how much of a line fits in both messages, and a text
*carries* a line if it begins with that much of its ciphertext: each of
`String`, `Fitted` and `Scanned` preserves it (`CipherCarries`,
`FittedCarries`, `ScannedCarries`), and what is printed of such a text *says*
the line (`PrintedSays`). The invariant `LineIsKept` is that the message under
way carries the line and all that is printed says it; both properties follow.

### What is only model-checked

All liveness, which is out of TLAPS's reach: `SendReturns`, `ListenerGetsAll`,
`HeldEnds`, `ElectionEnds`, `GetsLeader`. And these safety properties:

- `SameOrder` and `OneLeader` are not theorems: they hold for the instances
  described above and fail, or are expected to, in larger ones.
- Nor are `KnownUnlessMissed`, `PointerFollows`, `ReaderGoesOn`, `RosterFollows` and
  `LeaderIsShown`, for the reasons given under [runs](#runs): each is about a
  group of three whose members answer in time.

A lemma over data of any length, such as `SelectedProperties`, is proved by the
smallest counterexample, with `NatLessThanWellFounded`; the library's induction
theorems, which take an operator as a parameter, cannot be used. `RECURSIVE`
operators cannot be proved about, so there are none: `Selected` is a recursive
function, because the provers have no definition of `SelectSeq`.

## Limits

Not modelled, and why:

- `RMP_createSocket`, `RMP_getAddressFor`: system calls without protocol state.
- A failing `setsockopt` on the open socket, after which `attemptSend` returns
  with the send buffer still occupied (`rmp.c:226-229`), and a failing
  `gettimeofday`.
- Memory: leaks of removed buffers and participants (`message_buffers.c:79`,
  `leader.c:144`), the iterator that is not freed, a failing `malloc` of a
  buffer itself, which ends the process (`rmp.c:101`).
- Parsing and formatting of commands; a message is a record. So the length of a
  PARTICIPANT_UPDATE (`leader.c:100`), and characters and lengths of nicknames
  (`leader.c:58`, `dchat.c:554`) are left out. `LineText` keeps the text of a
  line and the room the headers leave.
- A chunk read from stdin is taken for a line, as the code does; whether it
  ends with a newline is a matter of `Chunks`.
- `map_free`, `map_remove`, `map_size`: nothing but the tests calls them.
- `encrypt` and `decrypt` return -1 for a buffer that is too short; no caller
  has one.
- Of the GUI: the Swing window, the display of lines, the start of a new chat
  (`initAsLeader`), the thread that reads the error stream, and `MockSource`,
  which makes up data.
- RMP's test programs, which are run by hand.
- The three minor errors of `chat()` that end the process (`select`, fatal
  RMP errors) are `Crash`.
- `join_chat` waits in `RMP_listen` rather than in `select`, so a joiner
  maintains its RMP buffers once before it blocks; RMP's listener does so only
  when something has arrived. The difference is one ACK retry.
- Uniqueness of line ids in the group: a new leader goes on with the id of the
  last line it has seen (`nonleader.c:110`), so ids repeat after an election.
  `LeadersOrder` and `LineOrder` claim it only of the lines of one leader.
- A joiner whose ADD_ME is swallowed waits for ever (`dchat.c:190`); no
  property claims that a join ends.

## Plan

Done: `Messenger`, `RMP`, its invariants and proofs, its refinement;
`Participants`, `Chat` and the proofs of `GroupInvariant`, `ListingInvariant`
and `OrderInvariant`; `LineOrder`, which `Chat` implements; `BufferTable`,
`HoldingBuffers`, their proofs and refinement; `LineText` and its proofs;
`Window`, its type correctness, and that it keeps the chat's invariants.

Left: the safety properties without a theorem are false in larger groups (see
[what is only model-checked](#what-is-only-model-checked)). They become worth
proving when the code changes:

1. `OneLeader` and `ElectionEnds`, once a leader processes ELECTION_VICTORY.
2. `RosterFollows`, once the list of a new leader comes with notices of all that
   it changes.
3. `SameOrder`, once there is one leader at a time and it numbers above all that
   the last one has numbered.
