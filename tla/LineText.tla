------------------------------- MODULE LineText -------------------------------
(***************************************************************************)
(* The text of a line on its way from the standard input of one process to *)
(* the standard output of all: recv_stdin encrypts it, the leader decrypts *)
(* it for itself and passes it on, the others decrypt it.  The ciphertext  *)
(* travels in messages that are C strings, written with %s and read with   *)
(* " %[^\n]", in buffers that hold whatever was in them before.            *)
(*                                                                         *)
(* A message is known by the ciphertext in it; of the headers in front of  *)
(* it only the room they leave for it is kept.                             *)
(***************************************************************************)
EXTENDS Integers, Sequences, FiniteSets, SequencesExt

CONSTANTS
    Chunks,        \* what a read of the standard input may return
    Junk,          \* what an uninitialised buffer, or its rest, may hold
    REQUEST_ROOM,  \* bytes of MAX_BUFFER_LEN behind MESSAGE_REQUEST's header
    BROADCAST_ROOM \* the same for MESSAGE_BROADCAST, which has an id, too

Byte == 0..255

ASSUME LineTextAssumption ==
    /\ Chunks \subseteq {c \in Seq(Byte) : Len(c) > 1}
    /\ Junk \subseteq Seq(Byte)
    /\ REQUEST_ROOM \in Nat
    /\ BROADCAST_ROOM \in Nat

VARIABLES
    typed,  \* history: the chunk that was read last
    wire,   \* the message that is under way, with its text
    printed \* history: the text the leader, and another, printed for it

vars == <<typed, wire, printed>>

NUL == 0
Newline == 10
Blank == (9..13) \cup {32}

Message(type, text) == [type |-> type, text |-> text]
NoMessage == Message("none", <<>>)

TypeOK ==
    /\ typed \in Chunks \cup {<<>>}
    /\ wire \in [type: {"none", "MESSAGE_REQUEST", "MESSAGE_BROADCAST"},
                 text: Seq(Byte)]
    /\ printed \in [{"leader", "member"} -> SUBSET Seq(Byte)]

Nothing == [who \in {"leader", "member"} |-> {}]

Init ==
    /\ typed = <<>>
    /\ wire = NoMessage
    /\ printed = Nothing

-----------------------------------------------------------------------------
(* Encryption: the key is "swordfish" *)

ENCRYPTION_KEY == <<115, 119, 111, 114, 100, 102, 105, 115, 104>>

KeyAt(i) == ENCRYPTION_KEY[((i - 1) % 9) + 1]

\* Mutant of encrypt: the sum is not that of two bytes.
encrypt_wide(text) == [i \in DOMAIN text |-> text[i] + KeyAt(i)]

encrypt(text) == [i \in DOMAIN text |-> (text[i] + KeyAt(i)) % 256]

decrypt(text) == [i \in DOMAIN text |-> (text[i] - KeyAt(i)) % 256]

-----------------------------------------------------------------------------
(* C strings *)

\* How many bytes come before the first that is one of the ends.
Before(bytes, ends) ==
    Cardinality({i \in DOMAIN bytes : \A j \in 1..i : bytes[j] \notin ends})

UpTo(bytes, ends) == SubSeq(bytes, 1, Before(bytes, ends))

String(bytes) == UpTo(bytes, {NUL})

\* Mutant of Fitted: one byte less, as if for another NUL.
FittedLess(bytes, room) ==
    SubSeq(bytes, 1, IF Len(bytes) < room THEN Len(bytes) ELSE room - 1)

\* snprintf ends where its buffer does.
Fitted(bytes, room) ==
    SubSeq(bytes, 1, IF Len(bytes) < room THEN Len(bytes) ELSE room)

\* The message is cut at its first newline (leader.c:19, nonleader.c:97), then
\* sscanf with " %[^\n]" skips blanks, and writes nothing if nothing is left.
Scanned(bytes, junk) ==
    LET message == UpTo(bytes, {Newline})
        start   == Before(message, Byte \ Blank) + 1
        line    == SubSeq(message, start, Len(message))
    IN  IF line = <<>> THEN String(junk) ELSE line

\* What printf prints of a buffer into which the payload has been decrypted.
Printed(payload, junk) == String(decrypt(payload) \o junk)

-----------------------------------------------------------------------------

\* buf of chat(): a NUL takes the place of the last byte.
Buf(chunk) == Append(Front(chunk), NUL)

\* Mutant of Cipher: the NUL is not encrypted with the text.
CipherUnended(chunk, junk) == String(encrypt(Front(chunk)) \o junk)

\* The ciphertext has no NUL of its own: it goes on to the next in the buffer.
Cipher(chunk, junk) == String(encrypt(Buf(chunk)) \o junk)

\* recv_stdin of a leader, which prints what is in buf.
LeaderTypes(chunk, junk) ==
    /\ wire = NoMessage
    /\ typed' = chunk
    /\ wire' = Message("MESSAGE_BROADCAST",
                       Fitted(Cipher(chunk, junk), BROADCAST_ROOM))
    /\ printed' = [Nothing EXCEPT !["leader"] = {String(Buf(chunk))}]

MemberTypes(chunk, junk) ==
    /\ wire = NoMessage
    /\ typed' = chunk
    /\ wire' = Message("MESSAGE_REQUEST",
                       Fitted(Cipher(chunk, junk), REQUEST_ROOM))
    /\ printed' = Nothing

\* leader_receive_message of a MESSAGE_REQUEST.
LeaderReceives(junk, rest) ==
    LET payload == Scanned(wire.text, junk)
    IN  /\ wire.type = "MESSAGE_REQUEST"
        /\ wire' = Message("MESSAGE_BROADCAST", Fitted(payload, BROADCAST_ROOM))
        /\ printed' = [printed EXCEPT !["leader"] =
                          {Printed(payload, rest)}]
        /\ UNCHANGED typed

\* non_leader_receive_message of a MESSAGE_BROADCAST, by a member, then by another.
MemberReceives(junk, rest) ==
    /\ wire.type = "MESSAGE_BROADCAST"
    /\ printed' = [printed EXCEPT !["member"] =
                      {Printed(Scanned(wire.text, junk), rest)}]
    /\ UNCHANGED <<typed, wire>>

\* All have got it, or are gone; the next line may come.
BroadcastEnds ==
    /\ wire.type = "MESSAGE_BROADCAST"
    /\ typed' = <<>>
    /\ wire' = NoMessage
    /\ printed' = Nothing

Next ==
    \E junk \in Junk :
        \/ \E chunk \in Chunks :
               LeaderTypes(chunk, junk) \/ MemberTypes(chunk, junk)
        \/ \E rest \in Junk :
               LeaderReceives(junk, rest) \/ MemberReceives(junk, rest)
        \/ BroadcastEnds

Spec == Init /\ [][Next]_vars

-----------------------------------------------------------------------------
(* Properties *)

\* The bytes that the key neither turns into NUL, newline or a blank, nor
\* carries beyond a byte: all of ASCII is among them.
Plain == 1..136

\* One or more lines of plain text, whole.
IsPlain(chunk) ==
    /\ chunk # <<>>
    /\ chunk[Len(chunk)] = Newline
    /\ \A i \in DOMAIN chunk : chunk[i] \in Plain

Fits(chunk) == Len(chunk) <= REQUEST_ROOM /\ Len(chunk) <= BROADCAST_ROOM

(***************************************************************************)
(* Everybody prints the text that was typed, whatever is in the buffers    *)
(* behind it: the encrypted NUL ends it again when it has been decrypted.  *)
(* For whole lines of ASCII that fit in both messages (leader.c:73,        *)
(* nonleader.c:112).                                                       *)
(***************************************************************************)
PrintedAsTyped ==
    IsPlain(typed) /\ Fits(typed) =>
        \A who \in {"leader", "member"} : printed[who] \subseteq {Front(typed)}

(***************************************************************************)
(* Of a line that does not fit, everybody prints at least the part that    *)
(* does, before what is left in their buffers.                             *)
(***************************************************************************)
BeginsAsTyped ==
    IsPlain(typed) =>
        \A who \in {"leader", "member"} : \A text \in printed[who] :
            \A i \in 1..(Len(typed) - 1) :
                i <= REQUEST_ROOM /\ i <= BROADCAST_ROOM =>
                    i <= Len(text) /\ text[i] = typed[i]
=============================================================================
