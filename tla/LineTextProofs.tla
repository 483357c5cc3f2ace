---------------------------- MODULE LineTextProofs ----------------------------
(***************************************************************************)
(* Theorems about LineText, for any chunks, any leftovers in the buffers   *)
(* and any room in the messages.                                           *)
(***************************************************************************)
EXTENDS LineText, SequenceTheorems, FiniteSetTheorems, TLAPS

USE LineTextAssumption

-----------------------------------------------------------------------------
(* Encryption *)

\* Arithmetic of bytes.
LEMMA ByteSums ==
    ASSUME NEW a \in 0..255, NEW k \in 100..119
    PROVE  /\ (a + k) % 256 \in 0..255
           /\ (a - k) % 256 \in 0..255
           /\ (((a + k) % 256) - k) % 256 = a
           /\ a <= 136 => (a + k) % 256 \in 100..255
  OBVIOUS

\* Every byte of the key is a small letter.
LEMMA KeyLetters == ASSUME NEW i \in Nat \ {0} PROVE KeyAt(i) \in 100..119
<1> DEFINE j == (i - 1) % 9
<1>1. j \in 0..8
  OBVIOUS
<1>2. KeyAt(i) = ENCRYPTION_KEY[j + 1]
  BY DEF KeyAt
<1> HIDE DEF j
<1>3. j = 0 \/ j = 1 \/ j = 2 \/ j = 3 \/ j = 4 \/ j = 5 \/ j = 6 \/ j = 7 \/ j = 8
  BY <1>1
<1>4. CASE j = 0
  BY <1>2, <1>4 DEF ENCRYPTION_KEY
<1>5. CASE j = 1
  BY <1>2, <1>5 DEF ENCRYPTION_KEY
<1>6. CASE j = 2
  BY <1>2, <1>6 DEF ENCRYPTION_KEY
<1>7. CASE j = 3
  BY <1>2, <1>7 DEF ENCRYPTION_KEY
<1>8. CASE j = 4
  BY <1>2, <1>8 DEF ENCRYPTION_KEY
<1>9. CASE j = 5
  BY <1>2, <1>9 DEF ENCRYPTION_KEY
<1>10. CASE j = 6
  BY <1>2, <1>10 DEF ENCRYPTION_KEY
<1>11. CASE j = 7
  BY <1>2, <1>11 DEF ENCRYPTION_KEY
<1>12. CASE j = 8
  BY <1>2, <1>12 DEF ENCRYPTION_KEY
<1> QED BY <1>3, <1>4, <1>5, <1>6, <1>7, <1>8, <1>9, <1>10, <1>11, <1>12

LEMMA CipherBytes ==
    ASSUME NEW s \in Seq(Byte)
    PROVE  /\ encrypt(s) \in Seq(Byte) /\ Len(encrypt(s)) = Len(s)
           /\ decrypt(s) \in Seq(Byte) /\ Len(decrypt(s)) = Len(s)
<1>1. Len(s) \in Nat /\ DOMAIN s = 1..Len(s) /\ \A i \in 1..Len(s) : s[i] \in Byte
  OBVIOUS
<1>2. ASSUME NEW i \in 1..Len(s)
      PROVE  (s[i] + KeyAt(i)) % 256 \in Byte /\ (s[i] - KeyAt(i)) % 256 \in Byte
  <2>1. s[i] \in 0..255 /\ i \in Nat \ {0}
    BY <1>1 DEF Byte
  <2> QED BY <2>1, KeyLetters, ByteSums, SMTT(20) DEF Byte
<1> QED BY <1>1, <1>2 DEF encrypt, decrypt

(***************************************************************************)
(* decrypt undoes encrypt for any bytes (encryption.c:14 and 30).          *)
(***************************************************************************)
THEOREM RoundTrip == ASSUME NEW s \in Seq(Byte) PROVE decrypt(encrypt(s)) = s
<1>1. Len(s) \in Nat /\ DOMAIN s = 1..Len(s) /\ \A i \in 1..Len(s) : s[i] \in Byte
  OBVIOUS
<1>2. ASSUME NEW i \in 1..Len(s)
      PROVE  (((s[i] + KeyAt(i)) % 256) - KeyAt(i)) % 256 = s[i]
  <2>1. s[i] \in 0..255 /\ i \in Nat \ {0}
    BY <1>1 DEF Byte
  <2> QED BY <2>1, KeyLetters, ByteSums
<1>3. decrypt(encrypt(s)) = [i \in 1..Len(s) |-> s[i]]
  BY <1>1, <1>2 DEF encrypt, decrypt
<1> QED BY <1>1, <1>3

-----------------------------------------------------------------------------
(* Strings *)

\* The first k bytes are no ends: then Before is k at least, and just k if
\* the next byte is one.
LEMMA BeforeProperties ==
    ASSUME NEW s \in Seq(Byte), NEW ends, NEW k \in 0..Len(s),
           \A i \in 1..k : s[i] \notin ends
    PROVE  /\ Before(s, ends) \in k..Len(s)
           /\ k < Len(s) /\ s[k + 1] \in ends => Before(s, ends) = k
<1> DEFINE free == {i \in DOMAIN s : \A j \in 1..i : s[j] \notin ends}
<1>1. Len(s) \in Nat /\ DOMAIN s = 1..Len(s)
  OBVIOUS
<1>2. IsFiniteSet(1..Len(s)) /\ Cardinality(1..Len(s)) = Len(s)
  <2>1. 1 \in Int /\ Len(s) \in Int
    BY <1>1
  <2>2. /\ IsFiniteSet(1..Len(s))
        /\ Cardinality(1..Len(s)) = IF 1 > Len(s) THEN 0 ELSE Len(s) - 1 + 1
    BY <2>1, FS_Interval
  <2> QED BY <1>1, <2>2
<1>3. IsFiniteSet(free) /\ Cardinality(free) <= Len(s)
  BY <1>1, <1>2, FS_Subset
<1>4. Cardinality(free) \in Nat
  BY <1>3, FS_CardinalityType
<1>5. 1..k \subseteq free
  BY <1>1
<1>6. Cardinality(1..k) = k
  BY FS_Interval
<1>7. k <= Cardinality(free)
  BY <1>3, <1>5, <1>6, FS_Subset
<1>8. ASSUME k < Len(s), s[k + 1] \in ends
      PROVE  free = 1..k
  BY <1>1, <1>5, <1>8
<1>9. Before(s, ends) = Cardinality(free)
  BY DEF Before
<1> HIDE DEF free
<1> QED BY <1>1, <1>3, <1>4, <1>6, <1>7, <1>8, <1>9

\* UpTo keeps what comes before the first end.
LEMMA UpToProperties ==
    ASSUME NEW s \in Seq(Byte), NEW ends, NEW k \in 0..Len(s),
           \A i \in 1..k : s[i] \notin ends
    PROVE  /\ UpTo(s, ends) \in Seq(Byte)
           /\ Len(UpTo(s, ends)) \in k..Len(s)
           /\ \A i \in 1..Len(UpTo(s, ends)) : UpTo(s, ends)[i] = s[i]
           /\ k < Len(s) /\ s[k + 1] \in ends => Len(UpTo(s, ends)) = k
<1> DEFINE n == Before(s, ends)
<1>1. n \in k..Len(s) /\ (k < Len(s) /\ s[k + 1] \in ends => n = k)
  BY BeforeProperties
<1>2. \A i \in 1..Len(s) : s[i] \in Byte
  OBVIOUS
<1> HIDE DEF n
<1>3. /\ SubSeq(s, 1, n) \in Seq(Byte)
      /\ Len(SubSeq(s, 1, n)) = IF 1 <= n THEN n - 1 + 1 ELSE 0
      /\ \A i \in 1..n - 1 + 1 : SubSeq(s, 1, n)[i] = s[1 + i - 1]
  BY <1>1, <1>2, SubSeqProperties
<1>4. UpTo(s, ends) = SubSeq(s, 1, n)
  BY DEF UpTo, n
<1> QED BY <1>1, <1>3, <1>4

LEMMA UpToType ==
    ASSUME NEW s \in Seq(Byte), NEW ends PROVE UpTo(s, ends) \in Seq(Byte)
<1>1. 0 \in 0..Len(s)
  OBVIOUS
<1> QED BY <1>1, UpToProperties

LEMMA FittedProperties ==
    ASSUME NEW s \in Seq(Byte), NEW room \in Nat
    PROVE  /\ Fitted(s, room) \in Seq(Byte)
           /\ \A i \in 1..Len(s) : i <= room =>
                  i <= Len(Fitted(s, room)) /\ Fitted(s, room)[i] = s[i]
<1> DEFINE n == IF Len(s) < room THEN Len(s) ELSE room
<1>1. n \in 0..Len(s) /\ \A i \in 1..Len(s) : i <= room => i <= n
  OBVIOUS
<1>2. \A i \in 1..Len(s) : s[i] \in Byte
  OBVIOUS
<1>3. Fitted(s, room) = SubSeq(s, 1, n)
  BY DEF Fitted
<1> HIDE DEF n
<1>4. /\ SubSeq(s, 1, n) \in Seq(Byte)
      /\ Len(SubSeq(s, 1, n)) = IF 1 <= n THEN n - 1 + 1 ELSE 0
      /\ \A i \in 1..n - 1 + 1 : SubSeq(s, 1, n)[i] = s[1 + i - 1]
  BY <1>1, <1>2, SubSeqProperties
<1> QED BY <1>1, <1>3, <1>4

LEMMA ScannedType ==
    ASSUME NEW s \in Seq(Byte), NEW junk \in Seq(Byte)
    PROVE  Scanned(s, junk) \in Seq(Byte)
<1> DEFINE message == UpTo(s, {Newline})
           n       == Before(message, Byte \ Blank)
<1>1. message \in Seq(Byte)
  BY UpToType
<1> HIDE DEF message
<1>2. n \in 0..Len(message)
  <2>1. 0 \in 0..Len(message)
    BY <1>1
  <2> QED BY <1>1, <2>1, BeforeProperties
<1>3. \A i \in 1..Len(message) : message[i] \in Byte
  BY <1>1
<1> HIDE DEF n
<1>4. SubSeq(message, n + 1, Len(message)) \in Seq(Byte)
  BY <1>1, <1>2, <1>3, SubSeqProperties
<1> QED BY <1>4, UpToType DEF Scanned, String, n, message

\* sscanf reads on to the first byte that is blank, at least.
LEMMA ScannedKeeps ==
    ASSUME NEW s \in Seq(Byte), NEW junk \in Seq(Byte), NEW k \in 1..Len(s),
           \A i \in 1..k : s[i] \notin Blank
    PROVE  /\ k <= Len(Scanned(s, junk))
           /\ \A i \in 1..k : Scanned(s, junk)[i] = s[i]
<1> DEFINE line == UpTo(s, {Newline})
<1>3. \A i \in 1..k : s[i] \notin {Newline}
  BY DEF Blank, Newline
<1>4. k \in 0..Len(s)
  OBVIOUS
<1>5. /\ line \in Seq(Byte)
      /\ Len(line) \in k..Len(s)
      /\ \A i \in 1..Len(line) : line[i] = s[i]
  BY <1>3, <1>4, UpToProperties
<1> HIDE DEF line
<1>1. Before(line, Byte \ Blank) = 0
  <2>1. 0 \in 0..Len(line) /\ line[0 + 1] \in Byte \ Blank /\ 0 < Len(line)
    BY <1>5
  <2>2. line \in Seq(Byte) /\ \A i \in 1..0 : line[i] \notin Byte \ Blank
    BY <1>5
  <2> HIDE DEF Blank
  <2> QED BY <2>1, <2>2, BeforeProperties
<1>2. SubSeq(line, 0 + 1, Len(line)) = line
  BY <1>5
<1>6. Scanned(s, junk) = IF line = <<>> THEN String(junk) ELSE line
  BY <1>1, <1>2 DEF Scanned, line
<1>7. line # <<>>
  BY <1>5
<1> QED BY <1>5, <1>6, <1>7

-----------------------------------------------------------------------------
(* A line that is typed *)

LEMMA BufProperties ==
    ASSUME NEW c \in Chunks
    PROVE  /\ Len(c) \in Nat /\ Len(c) > 1
           /\ Front(c) \in Seq(Byte) /\ Len(Front(c)) = Len(c) - 1
           /\ \A i \in 1..Len(c) - 1 : Front(c)[i] = c[i]
           /\ Buf(c) \in Seq(Byte) /\ Len(Buf(c)) = Len(c)
           /\ \A i \in 1..Len(c) - 1 : Buf(c)[i] = c[i]
           /\ Buf(c)[Len(c)] = NUL
<1>1. c \in Seq(Byte) /\ Len(c) \in Nat /\ Len(c) > 1
  OBVIOUS
<1>2. \A i \in 1..Len(c) : c[i] \in Byte
  BY <1>1
<1>3. /\ SubSeq(c, 1, Len(c) - 1) \in Seq(Byte)
      /\ Len(SubSeq(c, 1, Len(c) - 1)) = Len(c) - 1
      /\ \A i \in 1..Len(c) - 1 : SubSeq(c, 1, Len(c) - 1)[i] = c[i]
  BY <1>1, <1>2
<1>4. Front(c) = SubSeq(c, 1, Len(c) - 1)
  BY DEF Front
<1>5. NUL \in Byte
  BY DEF NUL, Byte
<1> HIDE DEF NUL
<1> QED BY <1>1, <1>3, <1>4, <1>5 DEF Buf

\* How much of the line fits in both messages.
Kept(c) == IF Fits(c) THEN Len(c)
           ELSE IF REQUEST_ROOM <= BROADCAST_ROOM THEN REQUEST_ROOM
           ELSE BROADCAST_ROOM

LEMMA KeptProperties ==
    ASSUME NEW c \in Chunks
    PROVE  /\ Kept(c) \in 0..Len(c)
           /\ Kept(c) <= REQUEST_ROOM /\ Kept(c) <= BROADCAST_ROOM
           /\ \A i \in 1..Len(c) :
                  i <= Kept(c) <=> i <= REQUEST_ROOM /\ i <= BROADCAST_ROOM
  BY BufProperties DEF Kept, Fits

\* A text has, at its start, all of the line that is kept.
Carries(text, c) ==
    /\ text \in Seq(Byte)
    /\ Kept(c) <= Len(text)
    /\ \A i \in 1..Kept(c) : text[i] = encrypt(Buf(c))[i]

\* No ciphertext byte of a plain line ends or shortens a string.
LEMMA CipherIsSafe ==
    ASSUME NEW c \in Chunks, IsPlain(c), NEW i \in 1..Len(c)
    PROVE  /\ encrypt(Buf(c))[i] \in 100..255
           /\ encrypt(Buf(c))[i] \notin Blank
           /\ encrypt(Buf(c))[i] \notin {NUL}
           /\ decrypt(encrypt(Buf(c)))[i] = Buf(c)[i]
<1>1. Buf(c)[i] \in 0..136
  <2>1. \A j \in DOMAIN c : c[j] \in 1..136
    BY DEF IsPlain, Plain
  <2>2. CASE i = Len(c)
    BY <2>2, BufProperties DEF NUL
  <2>3. CASE i # Len(c)
    <3>1. i \in 1..Len(c) - 1 /\ i \in DOMAIN c
      BY <2>3, BufProperties
    <3>2. Buf(c)[i] = c[i] /\ c[i] \in 1..136
      BY <3>1, <2>1, BufProperties
    <3> QED BY <3>2
  <2> QED BY <2>2, <2>3
<1>2. i \in Nat \ {0} /\ i \in DOMAIN Buf(c)
  BY BufProperties
<1>3. encrypt(Buf(c))[i] = (Buf(c)[i] + KeyAt(i)) % 256
  BY <1>2 DEF encrypt
<1>4. KeyAt(i) \in 100..119
  BY <1>2, KeyLetters
<1>5. encrypt(Buf(c))[i] \in 100..255
  <2>1. \A v \in 0..136 : v \in 0..255 /\ v <= 136
    OBVIOUS
  <2>2. Buf(c)[i] \in 0..255 /\ Buf(c)[i] <= 136
    BY <1>1, <2>1
  <2> QED BY <1>3, <1>4, <2>2, ByteSums, SMTT(20)
<1>6. \A v \in 100..255 : v \notin Blank /\ v \notin {NUL}
  BY DEF Blank, NUL
<1>7. decrypt(encrypt(Buf(c))) = Buf(c)
  BY BufProperties, RoundTrip
<1> QED BY <1>5, <1>6, <1>7

LEMMA CipherCarries ==
    ASSUME NEW c \in Chunks, NEW junk \in Junk
    PROVE  /\ Cipher(c, junk) \in Seq(Byte)
           /\ IsPlain(c) => Carries(Cipher(c, junk), c)
<1> DEFINE e == encrypt(Buf(c))
           s == e \o junk
<1>1. e \in Seq(Byte) /\ Len(e) = Len(c)
  BY BufProperties, CipherBytes
<1>2. junk \in Seq(Byte)
  OBVIOUS
<1>3. Cipher(c, junk) = UpTo(s, {NUL})
  BY DEF Cipher, String
<1>4. ASSUME IsPlain(c), NEW i \in 1..Len(c) PROVE e[i] \notin {NUL}
  BY <1>4, CipherIsSafe
<1>5. Kept(c) \in 0..Len(c) /\ Len(c) \in Nat
  BY KeptProperties, BufProperties
<1> HIDE DEF e
<1>6. s \in Seq(Byte) /\ Len(c) \in 0..Len(s) /\ \A i \in 1..Len(c) : s[i] = e[i]
  BY <1>1, <1>2, <1>5
<1> DEFINE u == UpTo(s, {NUL})
<1> HIDE DEF s
<1>7. u \in Seq(Byte)
  BY <1>6, UpToType
<1>8. ASSUME IsPlain(c) PROVE Carries(u, c)
  <2>1. \A i \in 1..Len(c) : s[i] \notin {NUL}
    BY <1>4, <1>6, <1>8
  <2>2. Len(u) \in Len(c)..Len(s) /\ \A i \in 1..Len(u) : u[i] = s[i]
    <3>1. s \in Seq(Byte) /\ Len(c) \in 0..Len(s)
      BY <1>6
    <3> QED BY <2>1, <3>1, UpToProperties
  <2> HIDE DEF u
  <2>3. \A i \in 1..Kept(c) : i \in 1..Len(c) /\ i \in 1..Len(u)
    BY <1>5, <1>6, <2>2
  <2>4. \A i \in 1..Kept(c) : u[i] = e[i]
    BY <1>6, <2>2, <2>3
  <2>5. Kept(c) <= Len(u)
    BY <1>5, <1>6, <2>2
  <2> QED BY <1>7, <2>4, <2>5 DEF Carries, e
<1> QED BY <1>3, <1>7, <1>8

LEMMA FittedCarries ==
    ASSUME NEW c \in Chunks, NEW text, Carries(text, c),
           NEW room \in {REQUEST_ROOM, BROADCAST_ROOM}
    PROVE  Carries(Fitted(text, room), c)
<1>1. /\ text \in Seq(Byte) /\ room \in Nat
      /\ Kept(c) \in Nat /\ Kept(c) <= Len(text) /\ Kept(c) <= room
  BY KeptProperties, BufProperties DEF Carries
<1>2. /\ Fitted(text, room) \in Seq(Byte)
      /\ \A i \in 1..Len(text) : i <= room =>
             i <= Len(Fitted(text, room)) /\ Fitted(text, room)[i] = text[i]
  BY <1>1, FittedProperties
<1>3. \A i \in 1..Kept(c) :
          i <= Len(Fitted(text, room)) /\ Fitted(text, room)[i] = text[i]
  BY <1>1, <1>2
<1>4. Kept(c) <= Len(Fitted(text, room))
  <2>1. CASE Kept(c) = 0
    BY <1>2, <2>1
  <2>2. CASE Kept(c) # 0
    BY <1>1, <1>3, <2>2
  <2> QED BY <2>1, <2>2
<1> QED BY <1>2, <1>3, <1>4 DEF Carries

LEMMA ScannedCarries ==
    ASSUME NEW c \in Chunks, IsPlain(c), NEW text, Carries(text, c),
           NEW junk \in Junk
    PROVE  Carries(Scanned(text, junk), c)
<1>1. /\ text \in Seq(Byte) /\ junk \in Seq(Byte)
      /\ Kept(c) \in 0..Len(c) /\ Kept(c) <= Len(text)
  BY KeptProperties DEF Carries
<1>2. Scanned(text, junk) \in Seq(Byte)
  BY <1>1, ScannedType
<1>3. \A i \in 1..Kept(c) : text[i] = encrypt(Buf(c))[i] /\ text[i] \notin Blank
  <2>1. \A i \in 1..Kept(c) : i \in 1..Len(c)
    BY <1>1, BufProperties
  <2> QED BY <2>1, CipherIsSafe DEF Carries
<1>4. CASE Kept(c) = 0
  BY <1>2, <1>4 DEF Carries
<1>5. CASE Kept(c) # 0
  <2>1. Kept(c) \in 1..Len(text)
    BY <1>1, <1>5, BufProperties
  <2>2. /\ Kept(c) <= Len(Scanned(text, junk))
        /\ \A i \in 1..Kept(c) : Scanned(text, junk)[i] = text[i]
    BY <1>1, <1>3, <2>1, ScannedKeeps
  <2> QED BY <1>2, <1>3, <2>2 DEF Carries
<1> QED BY <1>4, <1>5

\* What a text says of the line it was made from.
Says(text, c) ==
    /\ Fits(c) => text = Front(c)
    /\ \A i \in 1..Len(c) - 1 : i <= Kept(c) => i <= Len(text) /\ text[i] = c[i]

LEMMA PrintedType ==
    ASSUME NEW payload \in Seq(Byte), NEW rest \in Junk
    PROVE  Printed(payload, rest) \in Seq(Byte)
<1>1. decrypt(payload) \in Seq(Byte) /\ rest \in Seq(Byte)
  BY CipherBytes
<1>2. decrypt(payload) \o rest \in Seq(Byte)
  BY <1>1
<1> QED BY <1>2, UpToType DEF Printed, String

\* The text of a buffer with the line at its start, as far as it is kept.
LEMMA StringSays ==
    ASSUME NEW c \in Chunks, IsPlain(c), NEW s \in Seq(Byte), Kept(c) <= Len(s),
           \A i \in 1..Kept(c) : s[i] = Buf(c)[i]
    PROVE  Says(String(s), c)
<1> DEFINE k == IF Fits(c) THEN Len(c) - 1
                ELSE IF Kept(c) < Len(c) THEN Kept(c) ELSE Len(c) - 1
           u == UpTo(s, {NUL})
<1>1. /\ Len(c) \in Nat /\ Len(c) > 1 /\ Kept(c) \in 0..Len(c)
      /\ Fits(c) => Kept(c) = Len(c)
  BY BufProperties, KeptProperties DEF Kept
<1>2. /\ k \in 0..Len(s) /\ k <= Kept(c) /\ k <= Len(c) - 1
      /\ \A i \in 1..Len(c) - 1 : i <= Kept(c) => i <= k
  BY <1>1
<1>3. \A i \in 1..k : i \in 1..Kept(c) /\ i \in 1..Len(c) - 1
  BY <1>1, <1>2
<1>4. Fits(c) => k = Len(c) - 1
  OBVIOUS
<1> HIDE DEF k
<1>5. \A i \in 1..k : s[i] = c[i] /\ s[i] \notin {NUL}
  <2>1. \A i \in DOMAIN c : c[i] \notin {NUL}
    <3>1. \A v \in Plain : v \notin {NUL}
      BY DEF Plain, NUL
    <3> QED BY <3>1 DEF IsPlain
  <2>2. \A i \in 1..Len(c) - 1 : i \in DOMAIN c
    BY <1>1
  <2>3. \A i \in 1..k : s[i] = c[i]
    BY <1>3, BufProperties
  <2> QED BY <1>3, <2>1, <2>2, <2>3
<1>6. /\ u \in Seq(Byte)
      /\ Len(u) \in k..Len(s)
      /\ \A i \in 1..Len(u) : u[i] = s[i]
      /\ k < Len(s) /\ s[k + 1] \in {NUL} => Len(u) = k
  BY <1>2, <1>5, UpToProperties
<1> HIDE DEF u
<1>7. \A i \in 1..k : i <= Len(u) /\ u[i] = c[i]
  <2>1. \A i \in 1..k : i \in 1..Len(u)
    BY <1>2, <1>6
  <2> QED BY <1>5, <1>6, <2>1
<1>8. ASSUME NEW i \in 1..Len(c) - 1, i <= Kept(c)
      PROVE  i <= Len(u) /\ u[i] = c[i]
  <2>1. i \in 1..k
    BY <1>2, <1>8
  <2> QED BY <1>7, <2>1
<1>9. ASSUME Fits(c) PROVE u = Front(c)
  <2>1. s[Len(c)] = NUL /\ k + 1 = Len(c) /\ k < Len(s)
    BY <1>1, <1>4, <1>9, BufProperties
  <2>2. Len(u) = Len(c) - 1
    BY <1>1, <1>6, <2>1
  <2>3. /\ Front(c) \in Seq(Byte) /\ Len(Front(c)) = Len(c) - 1
        /\ \A i \in 1..Len(c) - 1 : Front(c)[i] = c[i]
    BY BufProperties
  <2>4. \A i \in 1..Len(c) - 1 : u[i] = Front(c)[i]
    BY <1>4, <1>7, <1>9, <2>3
  <2> QED BY <1>6, <2>2, <2>3, <2>4
<1> QED BY <1>8, <1>9 DEF Says, String, u

LEMMA PrintedSays ==
    ASSUME NEW c \in Chunks, IsPlain(c), NEW payload, Carries(payload, c),
           NEW rest \in Junk
    PROVE  Says(Printed(payload, rest), c)
<1> DEFINE d == decrypt(payload)
           s == d \o rest
<1>1. /\ payload \in Seq(Byte) /\ rest \in Seq(Byte)
      /\ Kept(c) \in 0..Len(c) /\ Len(c) \in Nat /\ Kept(c) <= Len(payload)
  BY KeptProperties, BufProperties DEF Carries
<1>2. d \in Seq(Byte) /\ Len(d) = Len(payload)
  BY <1>1, CipherBytes
<1>3. \A i \in 1..Kept(c) : i \in 1..Len(c) /\ i \in DOMAIN payload
  BY <1>1
<1>4. ASSUME NEW i \in 1..Kept(c) PROVE d[i] = Buf(c)[i]
  <2>1. i \in DOMAIN encrypt(Buf(c))
    BY <1>3, BufProperties, CipherBytes
  <2>2. d[i] = (payload[i] - KeyAt(i)) % 256
    BY <1>3 DEF decrypt
  <2>3. decrypt(encrypt(Buf(c)))[i] = (encrypt(Buf(c))[i] - KeyAt(i)) % 256
    BY <2>1 DEF decrypt
  <2>4. payload[i] = encrypt(Buf(c))[i]
    BY DEF Carries
  <2> QED BY <1>3, <2>2, <2>3, <2>4, CipherIsSafe
<1> HIDE DEF d
<1>5. s \in Seq(Byte) /\ Kept(c) <= Len(s) /\ \A i \in 1..Kept(c) : s[i] = d[i]
  BY <1>1, <1>2
<1> HIDE DEF s
<1>6. Says(String(s), c)
  BY <1>4, <1>5, StringSays
<1> QED BY <1>6 DEF Printed, s, d

\* What recv_stdin of a leader prints itself.
LEMMA OwnLine ==
    ASSUME NEW c \in Chunks
    PROVE  String(Buf(c)) \in Seq(Byte) /\ (IsPlain(c) => Says(String(Buf(c)), c))
<1>1. /\ Buf(c) \in Seq(Byte) /\ Len(Buf(c)) = Len(c) /\ Len(c) \in Nat
      /\ Kept(c) \in 0..Len(c)
  BY BufProperties, KeptProperties
<1>2. Kept(c) <= Len(Buf(c))
  BY <1>1
<1> QED BY <1>1, <1>2, UpToType, StringSays DEF String

-----------------------------------------------------------------------------
(* The invariant *)

\* The message under way carries the line, and what is printed says it.
LineIsKept ==
    IsPlain(typed) =>
        /\ wire.type # "none" => Carries(wire.text, typed)
        /\ \A who \in {"leader", "member"} : \A text \in printed[who] :
               Says(text, typed)

IndInv == TypeOK /\ LineIsKept

LEMMA IndInit == Init => IndInv
<1> SUFFICES ASSUME Init PROVE IndInv
  OBVIOUS
<1>1. TypeOK
  BY DEF Init, TypeOK, Nothing, NoMessage, Message
<1>2. ~IsPlain(typed)
  BY DEF Init, IsPlain
<1> QED BY <1>1, <1>2 DEF IndInv, LineIsKept

LEMMA IndStep == IndInv /\ [Next]_vars => IndInv'
<1> SUFFICES ASSUME IndInv, [Next]_vars PROVE IndInv'
  OBVIOUS
<1> USE DEF IndInv
<1>1. ASSUME NEW junk \in Junk, NEW chunk \in Chunks, LeaderTypes(chunk, junk)
      PROVE  IndInv'
  <2> DEFINE text == Fitted(Cipher(chunk, junk), BROADCAST_ROOM)
  <2>1. text \in Seq(Byte) /\ (IsPlain(chunk) => Carries(text, chunk))
    BY CipherCarries, FittedCarries, FittedProperties
  <2>2. /\ typed' = chunk /\ wire' = Message("MESSAGE_BROADCAST", text)
        /\ printed' = [Nothing EXCEPT !["leader"] = {String(Buf(chunk))}]
    BY <1>1 DEF LeaderTypes
  <2> HIDE DEF text
  <2>3. TypeOK'
    BY <2>1, <2>2, OwnLine DEF TypeOK, Message, Nothing
  <2>4. LineIsKept'
    BY <2>1, <2>2, OwnLine DEF LineIsKept, Message, Nothing
  <2> QED BY <2>3, <2>4
<1>2. ASSUME NEW junk \in Junk, NEW chunk \in Chunks, MemberTypes(chunk, junk)
      PROVE  IndInv'
  <2> DEFINE text == Fitted(Cipher(chunk, junk), REQUEST_ROOM)
  <2>1. text \in Seq(Byte) /\ (IsPlain(chunk) => Carries(text, chunk))
    BY CipherCarries, FittedCarries, FittedProperties
  <2>2. /\ typed' = chunk /\ wire' = Message("MESSAGE_REQUEST", text)
        /\ printed' = Nothing
    BY <1>2 DEF MemberTypes
  <2> HIDE DEF text
  <2>3. TypeOK'
    BY <2>1, <2>2 DEF TypeOK, Message, Nothing
  <2>4. LineIsKept'
    BY <2>1, <2>2 DEF LineIsKept, Message, Nothing
  <2> QED BY <2>3, <2>4
<1>3. ASSUME NEW junk \in Junk, NEW rest \in Junk, LeaderReceives(junk, rest)
      PROVE  IndInv'
  <2> DEFINE payload == Scanned(wire.text, junk)
             text == Fitted(payload, BROADCAST_ROOM)
             own == Printed(payload, rest)
  <2>1. payload \in Seq(Byte)
    BY ScannedType DEF TypeOK
  <2>2. text \in Seq(Byte) /\ own \in Seq(Byte)
    BY <2>1, FittedProperties, PrintedType
  <2>3. /\ wire.type = "MESSAGE_REQUEST" /\ UNCHANGED typed
        /\ wire' = Message("MESSAGE_BROADCAST", text)
        /\ printed' = [printed EXCEPT !["leader"] = {own}]
    BY <1>3 DEF LeaderReceives
  <2>4. ASSUME IsPlain(typed)
        PROVE  Carries(text, typed) /\ Says(own, typed)
    <3>1. typed \in Chunks /\ Carries(wire.text, typed)
      BY <2>3, <2>4 DEF TypeOK, LineIsKept, IsPlain
    <3>2. Carries(payload, typed)
      BY <2>4, <3>1, ScannedCarries
    <3> QED BY <2>4, <3>1, <3>2, FittedCarries, PrintedSays
  <2> HIDE DEF text, own
  <2>5. TypeOK'
    BY <2>2, <2>3 DEF TypeOK, Message
  <2>6. LineIsKept'
    BY <2>3, <2>4 DEF LineIsKept, Message, TypeOK
  <2> QED BY <2>5, <2>6
<1>4. ASSUME NEW junk \in Junk, NEW rest \in Junk, MemberReceives(junk, rest)
      PROVE  IndInv'
  <2> DEFINE payload == Scanned(wire.text, junk)
             own == Printed(payload, rest)
  <2>1. payload \in Seq(Byte) /\ own \in Seq(Byte)
    BY ScannedType, PrintedType DEF TypeOK
  <2>2. /\ wire.type = "MESSAGE_BROADCAST" /\ UNCHANGED <<typed, wire>>
        /\ printed' = [printed EXCEPT !["member"] = {own}]
    BY <1>4 DEF MemberReceives
  <2>3. ASSUME IsPlain(typed) PROVE Says(own, typed)
    <3>1. typed \in Chunks /\ Carries(wire.text, typed)
      BY <2>2, <2>3 DEF TypeOK, LineIsKept, IsPlain
    <3>2. Carries(payload, typed)
      BY <2>3, <3>1, ScannedCarries
    <3> QED BY <2>3, <3>1, <3>2, PrintedSays
  <2> HIDE DEF own
  <2>4. TypeOK'
    BY <2>1, <2>2 DEF TypeOK
  <2>5. LineIsKept'
    BY <2>2, <2>3 DEF LineIsKept, TypeOK
  <2> QED BY <2>4, <2>5
<1>5. CASE BroadcastEnds
  <2>1. typed' = <<>> /\ wire' = NoMessage /\ printed' = Nothing
    BY <1>5 DEF BroadcastEnds
  <2>2. TypeOK'
    BY <2>1 DEF TypeOK, NoMessage, Message, Nothing
  <2>3. ~IsPlain(typed)'
    BY <2>1 DEF IsPlain
  <2> QED BY <2>2, <2>3 DEF LineIsKept
<1>6. CASE UNCHANGED vars
  BY <1>6 DEF vars, TypeOK, LineIsKept, IsPlain, Carries, Says, Kept, Fits
<1> QED BY <1>1, <1>2, <1>3, <1>4, <1>5, <1>6 DEF Next

-----------------------------------------------------------------------------
(* Theorems *)

LEMMA IndAlways == Spec => []IndInv
  BY IndInit, IndStep, PTL DEF Spec

(***************************************************************************)
(* LineText is type correct: what is on its way and what is printed are    *)
(* bytes, whatever the buffers held.                                       *)
(***************************************************************************)
THEOREM TextTypeCorrect == Spec => []TypeOK
<1>1. IndInv => TypeOK
  BY DEF IndInv
<1> QED BY IndAlways, <1>1, PTL

(***************************************************************************)
(* Whole lines of ASCII that fit are printed as they were typed, for lines *)
(* of any length, any room and any leftovers in the buffers.               *)
(***************************************************************************)
THEOREM SameText == Spec => []PrintedAsTyped
<1>1. IndInv => PrintedAsTyped
  BY DEF IndInv, LineIsKept, PrintedAsTyped, Says
<1> QED BY IndAlways, <1>1, PTL

(***************************************************************************)
(* Of any whole line of ASCII, the part that fits is printed by all.       *)
(***************************************************************************)
THEOREM SameBeginning == Spec => []BeginsAsTyped
<1>1. ASSUME IndInv, IsPlain(typed), NEW who \in {"leader", "member"},
             NEW text \in printed[who], NEW i \in 1..(Len(typed) - 1),
             i <= REQUEST_ROOM, i <= BROADCAST_ROOM
      PROVE  i <= Len(text) /\ text[i] = typed[i]
  <2>1. typed \in Chunks /\ Says(text, typed)
    BY <1>1 DEF IndInv, TypeOK, LineIsKept, IsPlain
  <2>2. i \in 1..Len(typed)
    BY <2>1, BufProperties
  <2>3. i <= Kept(typed)
    BY <1>1, <2>1, <2>2, KeptProperties
  <2> QED BY <2>1, <2>3 DEF Says
<1>2. IndInv => BeginsAsTyped
  BY <1>1 DEF BeginsAsTyped
<1> QED BY IndAlways, <1>2, PTL
=============================================================================
