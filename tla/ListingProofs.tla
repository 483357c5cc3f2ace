------------------------------ MODULE ListingProofs ------------------------------
(***************************************************************************)
(* Whoever follows a leader that is in the chat is in its list, as long as *)
(* all who run answer in time: ListingInvariant is inductive.              *)
(***************************************************************************)
EXTENDS ChatProofs

-----------------------------------------------------------------------------
(* Places of an inbox *)

LEMMA TailPlaces ==
    ASSUME NEW s \in Seq(AnyMessage), s # <<>>
    PROVE  /\ DOMAIN Tail(s) = 1..Len(s) - 1
           /\ 1 \in DOMAIN s /\ Head(s) = s[1]
           /\ \A i \in DOMAIN Tail(s) :
                  i \in Int /\ i + 1 \in DOMAIN s /\ i + 1 # 1 /\ Tail(s)[i] = s[i + 1]
<1>1. Len(s) \in Nat /\ DOMAIN s = 1..Len(s) /\ Len(s) # 0
  OBVIOUS
<1>2. Tail(s) \in Seq(AnyMessage) /\ Len(Tail(s)) = Len(s) - 1 /\ Head(s) = s[1]
  OBVIOUS
<1>3. \A i \in 1..Len(s) - 1 : Tail(s)[i] = s[i + 1]
  OBVIOUS
<1>4. DOMAIN Tail(s) = 1..Len(s) - 1
  BY <1>2
<1> QED BY <1>1, <1>2, <1>3, <1>4

LEMMA AppendPlaces ==
    ASSUME NEW s \in Seq(AnyMessage), NEW e \in AnyMessage
    PROVE  /\ Len(s) + 1 \in DOMAIN Append(s, e)
           /\ Append(s, e)[Len(s) + 1] = e
           /\ \A i \in DOMAIN Append(s, e) :
                  \/ i \in DOMAIN s /\ Append(s, e)[i] = s[i]
                  \/ i = Len(s) + 1
<1>1. Len(s) \in Nat /\ DOMAIN s = 1..Len(s)
  OBVIOUS
<1>2. Append(s, e) \in Seq(AnyMessage) /\ Len(Append(s, e)) = Len(s) + 1
  OBVIOUS
<1>3. /\ \A i \in 1..Len(s) : Append(s, e)[i] = s[i]
      /\ Append(s, e)[Len(s) + 1] = e
  OBVIOUS
<1>4. DOMAIN Append(s, e) = 1..Len(s) + 1
  BY <1>2
<1> QED BY <1>1, <1>3, <1>4

-----------------------------------------------------------------------------
(* The petition of one process *)

\* Inboxes b2 hold no more petitions of x than inboxes b, and none twice.
Fewer(b, b2, x) ==
    \A n \in Node :
        /\ Waits(b2, n, x) => Waits(b, n, x)
        /\ (\A i, j \in DOMAIN b[n] :
                InMessage(n, b[n][i], x) /\ InMessage(n, b[n][j], x) => i = j) =>
           (\A i, j \in DOMAIN b2[n] :
                InMessage(n, b2[n][i], x) /\ InMessage(n, b2[n][j], x) => i = j)

LEMMA Losing ==
    ASSUME NEW x \in Node, NEW w, NEW b, NEW w2, NEW b2,
           \A n \in Node : Sends(w2, n, x) => Sends(w, n, x), Fewer(b, b2, x)
    PROVE  /\ OnePetition(w, b, x) => OnePetition(w2, b2, x)
           /\ NoPetition(w, b, x) => NoPetition(w2, b2, x)
  BY DEF OnePetition, NoPetition, Fewer

Inboxes == [Node -> Seq(AnyMessage)]

\* A process reads what comes first, or drops everything.
LEMMA ReadingLoses ==
    ASSUME NEW b \in Inboxes, NEW b2, NEW k \in Node, NEW x \in Node,
           \/ b2 = b
           \/ b2 = [b EXCEPT ![k] = <<>>]
           \/ b[k] # <<>> /\ b2 = [b EXCEPT ![k] = Tail(@)]
    PROVE  Fewer(b, b2, x)
<1>1. CASE b2 = b
  BY <1>1 DEF Fewer
<1>2. CASE b2 = [b EXCEPT ![k] = <<>>]
  <2>1. ASSUME NEW n \in Node PROVE b2[n] = <<>> \/ b2[n] = b[n]
    BY <1>2 DEF Inboxes
  <2> QED BY <2>1 DEF Fewer, Waits
<1>3. CASE b[k] # <<>> /\ b2 = [b EXCEPT ![k] = Tail(@)]
  <2>1. /\ b[k] \in Seq(AnyMessage) /\ b2[k] = Tail(b[k])
        /\ \A n \in Node : n # k => b2[n] = b[n]
    BY <1>3 DEF Inboxes
  <2>2. \A i \in DOMAIN b2[k] :
            i \in Int /\ i + 1 \in DOMAIN b[k] /\ b2[k][i] = b[k][i + 1]
    <3>1. b[k] # <<>>
      BY <1>3
    <3>2. \A i \in DOMAIN Tail(b[k]) :
              i \in Int /\ i + 1 \in DOMAIN b[k] /\ Tail(b[k])[i] = b[k][i + 1]
      BY <2>1, <3>1, TailPlaces
    <3> QED BY <2>1, <3>2
  <2>3. \A i, j \in DOMAIN b2[k] : i + 1 = j + 1 => i = j
    BY <2>2
  <2>4. ASSUME NEW n \in Node, n # k
        PROVE  b2[n] = b[n] /\ (Waits(b2, n, x) => Waits(b, n, x))
    BY <2>1, <2>4 DEF Waits
  <2>5. Waits(b2, k, x) => Waits(b, k, x)
    BY <2>2 DEF Waits
  <2>6. ASSUME \A i, j \in DOMAIN b[k] :
                   InMessage(k, b[k][i], x) /\ InMessage(k, b[k][j], x) => i = j,
               NEW i \in DOMAIN b2[k], NEW j \in DOMAIN b2[k],
               InMessage(k, b2[k][i], x), InMessage(k, b2[k][j], x)
        PROVE  i = j
    <3>1. InMessage(k, b[k][i + 1], x) /\ InMessage(k, b[k][j + 1], x)
      BY <2>2, <2>6
    <3>2. i + 1 = j + 1
      BY <2>2, <2>6, <3>1
    <3> QED BY <2>3, <3>2
  <2> QED BY <2>4, <2>5, <2>6 DEF Fewer
<1> QED BY <1>1, <1>2, <1>3

\* A process drops some of what came first.
LEMMA DroppingLoses ==
    ASSUME NEW b \in Inboxes, NEW k \in Node, NEW x \in Node, NEW j \in 0..Len(b[k])
    PROVE  LET c == [b EXCEPT ![k] = SubSeq(@, j + 1, Len(@))]
           IN  c \in Inboxes /\ Fewer(b, c, x)
<1> DEFINE c == [b EXCEPT ![k] = SubSeq(@, j + 1, Len(@))]
           rest == SubSeq(b[k], j + 1, Len(b[k]))
<1>1. b[k] \in Seq(AnyMessage)
  BY DEF Inboxes
<1>2. /\ rest \in Seq(AnyMessage) /\ Len(rest) = Len(b[k]) - j
      /\ \A i \in 1..Len(b[k]) - j :
             j + i \in 1..Len(b[k]) /\ rest[i] = b[k][j + i]
  BY <1>1, SuffixProperties
<1>3. c = [b EXCEPT ![k] = rest]
  OBVIOUS
<1> HIDE DEF c, rest
<1>4. c \in Inboxes
  BY <1>2, <1>3 DEF Inboxes
<1>5. c[k] = rest /\ \A n \in Node : n # k => c[n] = b[n]
  BY <1>3 DEF Inboxes
<1>6. \A i \in DOMAIN c[k] :
          i \in Int /\ j + i \in DOMAIN b[k] /\ c[k][i] = b[k][j + i]
  <2>1. DOMAIN b[k] = 1..Len(b[k]) /\ DOMAIN rest = 1..Len(b[k]) - j
    BY <1>1, <1>2
  <2> QED BY <1>2, <1>5, <2>1
<1>7. ASSUME NEW n \in Node, n # k
      PROVE  c[n] = b[n] /\ (Waits(c, n, x) => Waits(b, n, x))
  BY <1>5, <1>7 DEF Waits
<1>8. Waits(c, k, x) => Waits(b, k, x)
  BY <1>6 DEF Waits
<1>9. ASSUME \A i, l \in DOMAIN b[k] :
                 InMessage(k, b[k][i], x) /\ InMessage(k, b[k][l], x) => i = l,
             NEW i \in DOMAIN c[k], NEW l \in DOMAIN c[k],
             InMessage(k, c[k][i], x), InMessage(k, c[k][l], x)
      PROVE  i = l
  <2>1. InMessage(k, b[k][j + i], x) /\ InMessage(k, b[k][j + l], x)
    BY <1>6, <1>9
  <2>2. j + i = j + l
    BY <1>6, <1>9, <2>1
  <2> QED BY <1>6, <2>2
<1>10. Fewer(b, c, x)
  BY <1>7, <1>8, <1>9 DEF Fewer
<1> QED BY <1>4, <1>10 DEF c

\* What is at the head of an inbox was there once: then it is gone.
LEMMA ReadPetition ==
    ASSUME NEW b \in Inboxes, NEW w, NEW k \in Node, NEW x \in Node,
           b[k] # <<>>, InMessage(k, Head(b[k]), x), OnePetition(w, b, x)
    PROVE  NoPetition(w, [b EXCEPT ![k] = Tail(@)], x)
<1> DEFINE b2 == [b EXCEPT ![k] = Tail(@)]
<1>1. /\ b[k] \in Seq(AnyMessage) /\ b2[k] = Tail(b[k])
      /\ \A n \in Node : n # k => b2[n] = b[n]
  BY DEF Inboxes
<1>2. /\ 1 \in DOMAIN b[k] /\ Head(b[k]) = b[k][1]
      /\ \A i \in DOMAIN b2[k] :
             i + 1 \in DOMAIN b[k] /\ i + 1 # 1 /\ b2[k][i] = b[k][i + 1]
  <2>1. /\ 1 \in DOMAIN b[k] /\ Head(b[k]) = b[k][1]
        /\ \A i \in DOMAIN Tail(b[k]) :
               i + 1 \in DOMAIN b[k] /\ i + 1 # 1 /\ Tail(b[k])[i] = b[k][i + 1]
    BY <1>1, TailPlaces
  <2> QED BY <1>1, <2>1
<1>3. Waits(b, k, x)
  BY <1>2 DEF Waits
<1>4. ASSUME NEW n \in Node PROVE ~Sends(w, n, x)
  BY <1>3 DEF OnePetition
<1>5. ASSUME NEW n \in Node PROVE ~Waits(b2, n, x)
  <2>1. CASE n # k
    BY <1>1, <1>3, <2>1 DEF OnePetition, Waits
  <2>2. CASE n = k
    <3>1. ASSUME NEW i \in DOMAIN b2[k], InMessage(k, b2[k][i], x) PROVE FALSE
      <4>1. i + 1 \in DOMAIN b[k] /\ i + 1 # 1 /\ InMessage(k, b[k][i + 1], x)
        BY <1>2, <3>1
      <4>2. InMessage(k, b[k][1], x)
        BY <1>2
      <4> QED BY <1>2, <4>1, <4>2 DEF OnePetition
    <3> QED BY <2>2, <3>1 DEF Waits
  <2> QED BY <2>1, <2>2
<1> QED BY <1>4, <1>5 DEF NoPetition

\* k drops some of what came first, and m gets to its destination.
Arrives(b, b2, k, to, m) ==
    \E j \in 0..Len(b[k]) :
        b2 = [[b EXCEPT ![k] = SubSeq(@, j + 1, Len(@))] EXCEPT ![to] = Append(@, m)]

\* With it goes the petition of x, if that was what k sent.
Carries(b, w, w2, k, to, m, x) ==
    /\ b \in Inboxes /\ to \in Node /\ m \in AnyMessage
    /\ InMessage(to, m, x) => Sends(w, k, x)
    /\ \A n \in Node : Sends(w2, n, x) => Sends(w, n, x) /\ n # k

\* What arrives is the petition of x only if what k sent was.
LEMMA DeliveredPetition ==
    ASSUME NEW b, NEW w, NEW w2, NEW k \in Node, NEW x \in Node,
           NEW to, NEW m, NEW b2,
           Carries(b, w, w2, k, to, m, x), Arrives(b, b2, k, to, m)
    PROVE  /\ OnePetition(w, b, x) => OnePetition(w2, b2, x)
           /\ NoPetition(w, b, x) => NoPetition(w2, b2, x)
<1>0. /\ b \in Inboxes /\ to \in Node /\ m \in AnyMessage
      /\ InMessage(to, m, x) => Sends(w, k, x)
      /\ \A n \in Node : Sends(w2, n, x) => Sends(w, n, x) /\ n # k
  BY DEF Carries
<1>00. PICK drop \in 0..Len(b[k]) :
           b2 = [[b EXCEPT ![k] = SubSeq(@, drop + 1, Len(@))] EXCEPT ![to] = Append(@, m)]
  BY DEF Arrives
<1> DEFINE c == [b EXCEPT ![k] = SubSeq(@, drop + 1, Len(@))]
<1>1. c \in Inboxes
  BY <1>0, DroppingLoses
<1>2. Fewer(b, c, x)
  BY <1>0, DroppingLoses
<1>3. b2 = [c EXCEPT ![to] = Append(@, m)]
  BY <1>00
<1> HIDE DEF c
<1>4. /\ c[to] \in Seq(AnyMessage) /\ b2[to] = Append(c[to], m)
      /\ \A n \in Node : n # to => b2[n] = c[n]
  BY <1>0, <1>1, <1>3 DEF Inboxes
<1>5. \A i \in DOMAIN b2[to] :
          \/ i \in DOMAIN c[to] /\ b2[to][i] = c[to][i]
          \/ i = Len(c[to]) + 1 /\ b2[to][i] = m
  <2> DEFINE q == c[to]
  <2>1. q \in Seq(AnyMessage) /\ b2[to] = Append(q, m)
    BY <1>4
  <2> HIDE DEF q
  <2>2. /\ Append(q, m)[Len(q) + 1] = m
        /\ \A i \in DOMAIN Append(q, m) :
               \/ i \in DOMAIN q /\ Append(q, m)[i] = q[i]
               \/ i = Len(q) + 1
    BY <1>0, <2>1, AppendPlaces
  <2>3. \A i \in DOMAIN b2[to] :
            \/ i \in DOMAIN q /\ b2[to][i] = q[i]
            \/ i = Len(q) + 1 /\ b2[to][i] = m
    BY <2>1, <2>2
  <2> QED BY <2>3 DEF q
<1>7. CASE ~InMessage(to, m, x)
  <2>1. \A i \in DOMAIN b2[to] : InMessage(to, b2[to][i], x) =>
            i \in DOMAIN c[to] /\ InMessage(to, c[to][i], x)
    BY <1>5, <1>7
  <2>2. Fewer(c, b2, x)
    <3>1. Waits(b2, to, x) => Waits(c, to, x)
      BY <2>1 DEF Waits
    <3>2. ASSUME NEW n \in Node, n # to
          PROVE  b2[n] = c[n] /\ (Waits(b2, n, x) => Waits(c, n, x))
      BY <1>4, <3>2 DEF Waits
    <3>3. (\A i, j \in DOMAIN c[to] : InMessage(to, c[to][i], x)
                                       /\ InMessage(to, c[to][j], x) => i = j) =>
          (\A i, j \in DOMAIN b2[to] : InMessage(to, b2[to][i], x)
                                        /\ InMessage(to, b2[to][j], x) => i = j)
      BY <2>1
    <3> QED BY <3>1, <3>2, <3>3 DEF Fewer
  <2>3. Fewer(b, b2, x)
    BY <1>2, <2>2 DEF Fewer
  <2> QED BY <1>0, <2>3, Losing
<1>8. CASE InMessage(to, m, x)
  <2>1. Sends(w, k, x)
    BY <1>0, <1>8
  <2>2. SUFFICES ASSUME OnePetition(w, b, x) PROVE OnePetition(w2, b2, x)
    BY <2>1 DEF NoPetition
  <2>3. \A n \in Node : ~Waits(b, n, x) /\ ~Sends(w2, n, x)
    BY <1>0, <2>1, <2>2 DEF OnePetition
  <2>4. \A n \in Node : ~Waits(c, n, x)
    BY <1>2, <2>3 DEF Fewer
  <2>5. \A n \in Node : Waits(b2, n, x) => n = to
    BY <1>4, <2>4 DEF Waits
  <2>6. \A i \in DOMAIN b2[to] : InMessage(to, b2[to][i], x) => i = Len(c[to]) + 1
    BY <1>0, <1>5, <2>4 DEF Waits
  <2>7. ASSUME NEW n \in Node, n # to, NEW i \in DOMAIN b2[n]
        PROVE  ~InMessage(n, b2[n][i], x)
    BY <2>5, <2>7 DEF Waits
  <2> QED BY <2>3, <2>5, <2>6, <2>7 DEF OnePetition
<1> QED BY <1>7, <1>8

\* A handler of n has this alone to do, and n had no petition left or has it.
LEMMA NewPetition ==
    ASSUME NEW b, NEW w \in [Node -> Seq(ProperTasks)], NEW w2, NEW k \in Node,
           NEW x \in Node, NEW task \in ProperTasks, NoPetition(w, b, x),
           w2 = [w EXCEPT ![k] = <<task>>]
    PROVE  OnePetition(w2, b, x)
<1>1. \A n \in Node : n # k => w2[n] = w[n]
  OBVIOUS
<1>2. \A n \in Node : Sends(w2, n, x) => n = k
  BY <1>1 DEF NoPetition, Sends
<1>3. \A n \in Node : \A i \in DOMAIN b[n] : ~InMessage(n, b[n][i], x)
  BY DEF NoPetition, Waits
<1> QED BY <1>2, <1>3 DEF OnePetition, NoPetition

-----------------------------------------------------------------------------
(* PetitionInvariant: steps *)

PetitionTypes == Answers \cup {"ADD_ME"}

LEMMA SequenceParts ==
    ASSUME NEW S, NEW s \in Seq(S)
    PROVE  s # <<>> => Head(s) \in S /\ Tail(s) \in Seq(S)
  OBVIOUS

LEMMA GroupTypesHold ==
    ASSUME GroupInvariant
    PROVE  /\ inbox \in Inboxes
           /\ work \in [Node -> Seq(ProperTasks)]
           /\ status \in [Node -> Status]
<1>1. inbox \in Inboxes
  BY OfAll DEF InboxesProper, Inboxes
<1>2. CoreTypes
  BY Parts DEF Together
<1> QED BY <1>1, <1>2 DEF CoreTypes

\* Who has plain tasks to do does not send a petition.
LEMMA PlainWork ==
    ASSUME NEW w \in [Node -> Seq(ProperTasks)], NEW k \in Node,
           NEW tasks \in Seq(PlainTasks), NEW w2, w2 = [w EXCEPT ![k] = tasks]
    PROVE  \A x, n \in Node : Sends(w2, n, x) => Sends(w, n, x) /\ n # k
<1>1. ASSUME NEW x \in Node, NEW n \in Node, n # k
      PROVE  Sends(w2, n, x) => Sends(w, n, x)
  BY <1>1 DEF Sends
<1>2. ASSUME NEW x \in Node PROVE ~Sends(w2, k, x)
  <2>1. w2[k] = tasks
    OBVIOUS
  <2>2. SUFFICES ASSUME tasks # <<>> PROVE ~InTask(k, Head(tasks), x)
    BY <2>1 DEF Sends
  <2>3. Head(tasks) \in PlainTasks
    BY <2>2, SequenceParts
  <2> QED BY <2>3 DEF PlainTasks, InTask
<1> QED BY <1>1, <1>2

\* Nobody begins to nap, or is out again.
NobodyRests ==
    \A x \in Node : status'[x] \in {"out", "napping"} => status[x] \in {"out", "napping"}

\* Petitions are lost, if anything, where k goes on with plain tasks.
PetitionsLost ==
    \A x \in Node : NoPetition(work, inbox, x) => NoPetition(work', inbox', x)

LEMMA PetitionStep ==
    ASSUME PetitionInvariant, GroupInvariant, NEW k \in Node,
           NEW tasks \in Seq(PlainTasks), work' = [work EXCEPT ![k] = tasks],
           \A x \in Node :
               /\ OnePetition(work, inbox, x) => OnePetition(work', inbox', x)
               /\ NoPetition(work, inbox, x) => NoPetition(work', inbox', x),
           NobodyRests
    PROVE  PetitionInvariant' /\ PetitionsLost
<1>1. ASSUME NEW n \in Node, work'[n] # <<>> PROVE Tail(work'[n]) \in Seq(PlainTasks)
  <2>1. work \in [Node -> Seq(ProperTasks)]
    BY GroupTypesHold
  <2>2. CASE n = k
    <3>1. work'[n] = tasks
      BY <2>1, <2>2
    <3> QED BY <1>1, <3>1, SequenceParts
  <2>3. CASE n # k
    <3>1. work'[n] = work[n]
      BY <2>1, <2>3
    <3> QED BY <1>1, <3>1 DEF PetitionInvariant
  <2> QED BY <2>2, <2>3
<1>2. \A x \in Node : OnePetition(work', inbox', x)
  BY DEF PetitionInvariant
<1>3. \A x \in Node :
          status'[x] \in {"out", "napping"} => NoPetition(work', inbox', x)
  BY DEF PetitionInvariant, NobodyRests
<1> QED BY <1>1, <1>2, <1>3 DEF PetitionInvariant, PetitionsLost

\* k reads, at most, and has nothing to do with petitions from now on.
LEMMA PlainStep ==
    ASSUME PetitionInvariant, GroupInvariant, NEW k \in Node,
           NEW tasks \in Seq(PlainTasks), work' = [work EXCEPT ![k] = tasks],
           \/ inbox' = inbox
           \/ inbox' = [inbox EXCEPT ![k] = <<>>]
           \/ inbox[k] # <<>> /\ inbox' = [inbox EXCEPT ![k] = Tail(@)],
           NobodyRests
    PROVE  PetitionInvariant' /\ PetitionsLost
<1>1. inbox \in Inboxes /\ work \in [Node -> Seq(ProperTasks)]
  BY GroupTypesHold
<1>2. \A x, n \in Node : Sends(work', n, x) => Sends(work, n, x)
  BY <1>1, PlainWork
<1>3. \A x \in Node : Fewer(inbox, inbox', x)
  BY <1>1, ReadingLoses
<1>4. \A x \in Node :
          /\ OnePetition(work, inbox, x) => OnePetition(work', inbox', x)
          /\ NoPetition(work, inbox, x) => NoPetition(work', inbox', x)
  BY <1>2, <1>3, Losing
<1> QED BY <1>4, PetitionStep

\* A message gets to its destination.
LEMMA DeliveredStep ==
    ASSUME PetitionInvariant, GroupInvariant, NEW k \in Node, Task(k, "send"),
           Deliver(k, Head(work[k]).to, Head(work[k]).msg),
           NEW tasks \in Seq(PlainTasks), work' = [work EXCEPT ![k] = tasks],
           NobodyRests
    PROVE  PetitionInvariant' /\ PetitionsLost
<1> DEFINE send == Head(work[k])
<1>1. inbox \in Inboxes /\ work \in [Node -> Seq(ProperTasks)]
  BY GroupTypesHold
<1>2. \A x, n \in Node : Sends(work', n, x) => Sends(work, n, x) /\ n # k
  BY <1>1, PlainWork
<1>3. send.to \in Node /\ send.msg \in Messages
  BY SendTask
<1> DEFINE m == [from |-> k, msg |-> send.msg]
<1>4. \A x \in Node : InMessage(send.to, m, x) => Sends(work, k, x)
  BY DEF InMessage, InTask, Sends, Task
<1>5. Arrives(inbox, inbox', k, send.to, m) /\ m \in AnyMessage
  <2>1. m \in AnyMessage
    BY <1>3 DEF AnyMessage
  <2>2. Arrives(inbox, inbox', k, send.to, m)
    BY DEF Deliver, Arrives
  <2> QED BY <2>1, <2>2
<1> DEFINE b == inbox
           b2 == inbox'
           w == work
           w2 == work'
           to == send.to
<1>6. /\ b \in Inboxes /\ to \in Node /\ m \in AnyMessage /\ Arrives(b, b2, k, to, m)
      /\ \A x \in Node : InMessage(to, m, x) => Sends(w, k, x)
      /\ \A x, n \in Node : Sends(w2, n, x) => Sends(w, n, x) /\ n # k
  BY <1>1, <1>2, <1>3, <1>4, <1>5
<1> HIDE DEF b, b2, w, w2, to, send, m
<1>7. ASSUME NEW x \in Node
      PROVE  /\ OnePetition(w, b, x) => OnePetition(w2, b2, x)
             /\ NoPetition(w, b, x) => NoPetition(w2, b2, x)
  <2>1. Carries(b, w, w2, k, to, m, x)
    BY <1>6 DEF Carries
  <2>2. Arrives(b, b2, k, to, m)
    BY <1>6
  <2> QED BY <2>1, <2>2, DeliveredPetition
<1>8. \A x \in Node :
          /\ OnePetition(work, inbox, x) => OnePetition(work', inbox', x)
          /\ NoPetition(work, inbox, x) => NoPetition(work', inbox', x)
  BY <1>7 DEF b, b2, w, w2
<1> QED BY <1>8, PetitionStep

\* What a step of k does to inboxes: it reads its own, or sends.
InboxMoves(k) ==
    \/ inbox' = inbox
    \/ inbox' = [inbox EXCEPT ![k] = <<>>]
    \/ inbox[k] # <<>> /\ inbox' = [inbox EXCEPT ![k] = Tail(@)]
    \/ Task(k, "send") /\ Deliver(k, Head(work[k]).to, Head(work[k]).msg)

LEMMA PetitionMoves ==
    ASSUME PetitionInvariant, GroupInvariant, NEW k \in Node, InboxMoves(k),
           NEW tasks \in Seq(PlainTasks), work' = [work EXCEPT ![k] = tasks],
           NobodyRests
    PROVE  PetitionInvariant' /\ PetitionsLost
  BY PlainStep, DeliveredStep DEF InboxMoves

-----------------------------------------------------------------------------
(* Whoever is granted its petition, or is kept in a list, stays so *)

Onward ==
    /\ \A x \in Node : Granted(x) => Granted(x)'
    /\ \A n, x \in Node : Keeps(n, x) => Keeps(n, x)'

LEMMA OnwardTasks ==
    ASSUME Onward, NEW n \in Node
    PROVE  ListingTasks(n) \subseteq ListingTasks(n)'
<1>1. ASSUME NEW task \in Tasks, task.task = "send"
      PROVE  /\ task.to \in Node
             /\ task.msg.type = "PARTICIPANT_UPDATE" =>
                    task.msg.nodes \in Seq(Node) \ {<<>>}
  <2>1. task \in [task: {"send"}, to: Node, msg: Messages,
                  else: {"ignore", "remove", "elect", "exit"}]
    BY <1>1 DEF Tasks
  <2>2. task.to \in Node /\ task.msg \in Messages
    BY <2>1
  <2> QED BY <2>2, MessageFields
<1>2. ASSUME NEW nodes \in Seq(Node), ListOf(n, nodes) PROVE ListOf(n, nodes)'
  <2>1. \A i \in DOMAIN nodes : nodes[i] \in Node
    OBVIOUS
  <2> QED BY <1>2, <2>1 DEF ListOf, Onward
<1>3. SUFFICES ASSUME NEW task \in ListingTasks(n), task.task = "send"
               PROVE  /\ task.else = "remove" => Keeps(n, task.to)'
                      /\ task.msg.type = "PARTICIPANT_UPDATE" =>
                             ListOf(n, task.msg.nodes)'
  BY DEF ListingTasks
<1>4. task \in Tasks
  BY DEF ListingTasks
<1>5. task.else = "remove" => Keeps(n, task.to)
  BY <1>3 DEF ListingTasks
<1>6. task.msg.type = "PARTICIPANT_UPDATE" => ListOf(n, task.msg.nodes)
  BY <1>3 DEF ListingTasks
<1>7. task.else = "remove" => Keeps(n, task.to)'
  BY <1>1, <1>3, <1>4, <1>5 DEF Onward
<1>8. task.msg.type = "PARTICIPANT_UPDATE" => ListOf(n, task.msg.nodes)'
  BY <1>1, <1>2, <1>3, <1>4, <1>6
<1> QED BY <1>7, <1>8

LEMMA OnwardMessages ==
    ASSUME Onward, NEW n \in Node
    PROVE  ListingMessages(n) \subseteq ListingMessages(n)'
<1>1. SUFFICES ASSUME NEW m \in ListingMessages(n)
               PROVE  /\ m.msg.type \in {"PARTICIPANT_UPDATE", "ELECTION_VICTORY"} =>
                             Keeps(m.from, n)'
                      /\ m.msg.type = "PARTICIPANT_UPDATE" =>
                             ListOf(m.from, m.msg.nodes)'
  BY DEF ListingMessages
<1>2. m.from \in Node /\ m.msg \in Messages
  BY DEF ListingMessages
<1>3. m.msg.type \in {"PARTICIPANT_UPDATE", "ELECTION_VICTORY"} => Keeps(m.from, n)
  BY DEF ListingMessages
<1>4. m.msg.type = "PARTICIPANT_UPDATE" => ListOf(m.from, m.msg.nodes)
  BY DEF ListingMessages
<1>5. m.msg.type \in {"PARTICIPANT_UPDATE", "ELECTION_VICTORY"} => Keeps(m.from, n)'
  BY <1>2, <1>3 DEF Onward
<1>6. ASSUME m.msg.type = "PARTICIPANT_UPDATE" PROVE ListOf(m.from, m.msg.nodes)'
  <2>1. m.msg.nodes \in Seq(Node)
    BY <1>2, <1>6, MessageFields
  <2>2. \A i \in DOMAIN m.msg.nodes : m.msg.nodes[i] \in Node
    BY <2>1
  <2> QED BY <1>4, <1>6, <2>2 DEF ListOf, Onward
<1> QED BY <1>5, <1>6

LEMMA OnwardSequences ==
    ASSUME Onward, NEW n \in Node
    PROVE  /\ Seq(ListingTasks(n)) \subseteq Seq(ListingTasks(n)')
           /\ Seq(ListingMessages(n)) \subseteq Seq(ListingMessages(n)')
<1>1. ListingTasks(n) \subseteq ListingTasks(n)'
  BY OnwardTasks
<1>2. ListingMessages(n) \subseteq ListingMessages(n)'
  BY OnwardMessages
<1> DEFINE A == ListingTasks(n)
           A2 == ListingTasks(n)'
           B == ListingMessages(n)
           B2 == ListingMessages(n)'
<1> HIDE DEF A, A2, B, B2
<1>3. A \subseteq A2 => Seq(A) \subseteq Seq(A2)
  OBVIOUS
<1>4. B \subseteq B2 => Seq(B) \subseteq Seq(B2)
  OBVIOUS
<1> QED BY <1>1, <1>2, <1>3, <1>4 DEF A, A2, B, B2

\* Who was late once was late.
Later == Prompt' => Prompt

\* A process that answers its petitions leaves everybody's state alone but its own.
LEMMA OnwardStep ==
    ASSUME GroupInvariant, NEW k \in Node, NEW st, NEW g, Later,
           status' = [status EXCEPT ![k] = st],
           group' = [group EXCEPT ![k] = g],
           \A n \in Node : is_leader[n] => is_leader'[n],
           ~Ended(k),
           \A x \in Node : Granted(x) /\ ~Ended(x) =>
                              NoPetition(work', inbox', x),
           Granted(k) => st \in {"joining", "chatting", "gone", "segfault"},
           is_leader[k] => \A x \in Addresses(group[k]) :
               x \in Addresses(g) \/ ~Prompt' \/ (x \in Node /\ Ended(x))
    PROVE  Onward
<1>1. status \in [Node -> Status] /\ group \in [Node -> Group]
  BY GroupTypesHold, Parts DEF Together, CoreTypes
<1>2. \A x \in Node : x # k => status'[x] = status[x] /\ group'[x] = group[x]
  BY <1>1
<1>3. status'[k] = st /\ group'[k] = g
  BY <1>1
<1>4. \A x \in Node : Ended(x) => Ended(x)'
  BY <1>2 DEF Ended
<1>5. ASSUME NEW x \in Node, Granted(x) PROVE Granted(x)'
  <2>1. CASE Ended(x)
    BY <1>4, <2>1 DEF Granted
  <2>2. CASE ~Ended(x)
    <3>1. NoPetition(work', inbox', x) /\ status[x] \in {"joining", "chatting"}
      BY <1>5, <2>2 DEF Granted
    <3>2. Ended(x)' \/ status'[x] \in {"joining", "chatting"}
      BY <1>2, <1>3, <1>5, <3>1 DEF Ended
    <3> QED BY <3>1, <3>2 DEF Granted
  <2> QED BY <2>1, <2>2
<1>6. ASSUME NEW n \in Node, NEW x \in Node, Keeps(n, x) PROVE Keeps(n, x)'
  <2>1. is_leader[n] /\ is_leader'[n]
    BY <1>6 DEF Keeps
  <2>2. SUFFICES ASSUME Prompt' PROVE Ended(x)' \/ x \in Addresses(group'[n])
    BY <2>1 DEF Keeps
  <2>3. Ended(x) \/ x \in Addresses(group[n])
    BY <1>6, <2>2 DEF Keeps, Later
  <2>4. CASE Ended(x)
    BY <1>4, <2>4
  <2>5. CASE x \in Addresses(group[n]) /\ n # k
    BY <1>2, <2>5
  <2>6. CASE x \in Addresses(group[n]) /\ n = k
    BY <1>3, <1>4, <2>1, <2>2, <2>6
  <2> QED BY <2>3, <2>4, <2>5, <2>6
<1> QED BY <1>5, <1>6 DEF Onward

\* What comes to n is told by a leader that lists it.
LEMMA ListingInboxes ==
    ASSUME ListingInvariant, GroupInvariant, Onward, NEW k \in Node, InboxMoves(k),
           NEW n \in Node
    PROVE  inbox'[n] \in Seq(ListingMessages(n)')
<1> DEFINE M == ListingMessages(n)
<1>1. /\ inbox \in Inboxes
      /\ inbox[n] \in Seq(M)
  BY GroupTypesHold DEF ListingInvariant
<1>2. Seq(M) \subseteq Seq(ListingMessages(n)')
  BY OnwardSequences
<1> SUFFICES inbox'[n] \in Seq(M)
  BY <1>2
<1> HIDE DEF M
<1>3. CASE inbox' = inbox
  BY <1>1, <1>3
<1>4. CASE inbox' = [inbox EXCEPT ![k] = <<>>]
  BY <1>1, <1>4 DEF Inboxes
<1>5. CASE inbox[k] # <<>> /\ inbox' = [inbox EXCEPT ![k] = Tail(@)]
  <2>1. inbox'[n] = inbox[n] \/ (n = k /\ inbox'[n] = Tail(inbox[n]))
    BY <1>1, <1>5 DEF Inboxes
  <2>2. inbox[n] # <<>> => Tail(inbox[n]) \in Seq(M)
    BY <1>1, SequenceParts
  <2> QED BY <1>1, <1>5, <2>1, <2>2
<1>6. CASE Task(k, "send") /\ Deliver(k, Head(work[k]).to, Head(work[k]).msg)
  <2> DEFINE send == Head(work[k])
             to == send.to
             m == [from |-> k, msg |-> send.msg]
  <2>0. PICK j \in 0..Len(inbox[k]) :
            inbox' = [[inbox EXCEPT ![k] = SubSeq(@, j + 1, Len(@))]
                              EXCEPT ![to] = Append(@, m)]
    BY <1>6 DEF Deliver
  <2> DEFINE left == [inbox EXCEPT ![k] = SubSeq(@, j + 1, Len(@))]
             rest == SubSeq(inbox[k], j + 1, Len(inbox[k]))
  <2>1. to \in Node /\ send.msg \in Messages /\ work[k] # <<>> /\ send.task = "send"
    BY <1>6, SendTask DEF Task
  <2>2. send \in ListingTasks(k)
    <3>1. work[k] \in Seq(ListingTasks(k))
      BY DEF ListingInvariant
    <3> QED BY <2>1, <3>1, SequenceParts
  <2>3. to = n => m \in M
    <3>1. send.msg.type \in {"PARTICIPANT_UPDATE", "ELECTION_VICTORY"} => Keeps(k, to)
      BY <2>1, <2>2 DEF ListingTasks
    <3>2. send.msg.type = "PARTICIPANT_UPDATE" => ListOf(k, send.msg.nodes)
      BY <2>1, <2>2 DEF ListingTasks
    <3> HIDE DEF send
    <3> QED BY <2>1, <3>1, <3>2 DEF ListingMessages, M
  <2>4. inbox' = [left EXCEPT ![to] = Append(@, m)] /\ left = [inbox EXCEPT ![k] = rest]
    BY <2>0
  <2>5. \A x \in Node : inbox[x] \in Seq(AnyMessage)
    BY <1>1 DEF Inboxes
  <2>6. n = k => rest \in Seq(M)
    BY <1>1, <2>5, SuffixProperties
  <2>7. rest \in Seq(AnyMessage)
    BY <2>5, SuffixProperties
  <2> HIDE DEF m, send, to, left, rest
  <2>8. left \in Inboxes /\ left[n] \in Seq(M)
    BY <1>1, <2>4, <2>6, <2>7 DEF Inboxes
  <2>9. inbox'[n] = left[n] \/ (to = n /\ inbox'[n] = Append(left[n], m))
    BY <2>1, <2>4, <2>8 DEF Inboxes
  <2>10. m \in M => Append(left[n], m) \in Seq(M)
    BY <2>8
  <2> QED BY <2>3, <2>8, <2>9, <2>10
<1> QED BY <1>3, <1>4, <1>5, <1>6 DEF InboxMoves

\* What the invariant says of one process.
LEMMA ListedGranted ==
    ASSUME ListingInvariant, GroupInvariant, NEW n \in Node
    PROVE  /\ \A x \in Addresses(group[n]) : x \in Node /\ Granted(x)
           /\ status[n] = "chatting" =>
                  group[n].leader \in Node /\ Keeps(group[n].leader, n)
<1>1. group[n] \in Group
  BY OfProcess
<1>2. \A x \in Addresses(group[n]) : x \in Node
  BY <1>1, GroupTypes
<1>3. status[n] = "chatting" => group[n].leader \in Node
  BY KnowsLeader
<1> QED BY <1>2, <1>3 DEF ListingInvariant

\* A step of k, whatever else it does.
LEMMA ListingStep ==
    ASSUME ListingInvariant, GroupInvariant, PetitionInvariant', Onward,
           NEW k \in Node, InboxMoves(k), NEW st, NEW g, NEW tasks,
           status' = [status EXCEPT ![k] = st],
           group' = [group EXCEPT ![k] = g],
           work' = [work EXCEPT ![k] = tasks],
           tasks \in Seq(ListingTasks(k)'),
           \A x \in Addresses(g) : Granted(x)',
           st = "chatting" => (\E l \in Node : l = g.leader /\ Keeps(l, k)')
    PROVE  ListingInvariant'
<1>1. /\ status \in [Node -> Status] /\ group \in [Node -> Group]
      /\ work \in [Node -> Seq(ProperTasks)]
  BY GroupTypesHold, Parts DEF Together, CoreTypes
<1>2. ASSUME NEW n \in Node PROVE inbox'[n] \in Seq(ListingMessages(n)')
  BY ListingInboxes
<1>3. ASSUME NEW n \in Node
      PROVE  /\ work'[n] \in Seq(ListingTasks(n)')
             /\ \A x \in Addresses(group'[n]) : Granted(x)'
             /\ status'[n] = "chatting" =>
                    \E l \in Node : l = group'[n].leader /\ Keeps(l, n)'
  <2>1. CASE n = k
    <3>1. status'[n] = st /\ group'[n] = g /\ work'[n] = tasks
      BY <1>1, <2>1
    <3> QED BY <2>1, <3>1
  <2>2. CASE n # k
    <3>1. status'[n] = status[n] /\ group'[n] = group[n] /\ work'[n] = work[n]
      BY <1>1, <2>2
    <3>2. work[n] \in Seq(ListingTasks(n)')
      <4>1. work[n] \in Seq(ListingTasks(n))
        BY DEF ListingInvariant
      <4> QED BY <4>1, OnwardSequences
    <3>3. \A x \in Addresses(group[n]) : x \in Node /\ Granted(x)
      BY ListedGranted
    <3>4. ASSUME status[n] = "chatting"
          PROVE  group[n].leader \in Node /\ Keeps(group[n].leader, n)
      BY <3>4, ListedGranted
    <3>5. \A x \in Addresses(group[n]) : Granted(x)'
      BY <3>3 DEF Onward
    <3>6. status[n] = "chatting" => (\E l \in Node : l = group[n].leader /\ Keeps(l, n)')
      BY <3>4 DEF Onward
    <3> QED BY <3>1, <3>2, <3>5, <3>6
  <2> QED BY <2>1, <2>2
<1> QED BY <1>2, <1>3 DEF ListingInvariant

LEMMA GrantedHas ==
    ASSUME NEW x, Granted(x), ~Ended(x), PetitionsLost, x \in Node
    PROVE  NoPetition(work', inbox', x)
  BY DEF Granted, PetitionsLost

\* A handler goes on; no list and no leader changes.
LEMMA ListingProceeds ==
    ASSUME ListingInvariant, GroupInvariant, Later, NEW k \in Node, InboxMoves(k),
           status[k] \in {"joining", "napping", "chatting"},
           UNCHANGED <<status, group, is_leader>>,
           NEW tasks \in Seq(PlainTasks), tasks \in Seq(ListingTasks(k)),
           work' = [work EXCEPT ![k] = tasks]
    PROVE  ListingInvariant'
<1>1. PetitionInvariant' /\ PetitionsLost
  <2>1. PetitionInvariant /\ NobodyRests
    BY DEF ListingInvariant, NobodyRests
  <2> QED BY <2>1, PetitionMoves
<1>2. /\ status' = [status EXCEPT ![k] = status[k]]
      /\ group' = [group EXCEPT ![k] = group[k]]
  BY OfProcess
<1>3. Onward
  <2>1. \A x \in Node : Granted(x) /\ ~Ended(x) => NoPetition(work', inbox', x)
    BY <1>1, GrantedHas
  <2>2. \A n \in Node : is_leader[n] => is_leader'[n]
    OBVIOUS
  <2>3. ~Ended(k) /\ (Granted(k) =>
                        status[k] \in {"joining", "chatting", "gone", "segfault"})
    BY DEF Ended, Granted
  <2> QED BY <1>2, <2>1, <2>2, <2>3, OnwardStep
<1>4. tasks \in Seq(ListingTasks(k)')
  BY <1>3, OnwardSequences
<1>5. /\ \A x \in Addresses(group[k]) : Granted(x)'
      /\ status[k] = "chatting" => (\E l \in Node : l = group[k].leader /\ Keeps(l, k)')
  BY <1>3, ListedGranted DEF Onward
<1> QED BY <1>1, <1>2, <1>3, <1>4, <1>5, ListingStep

LEMMA ListingEnds ==
    ASSUME ListingInvariant, GroupInvariant, Later, NEW k \in Node, InboxMoves(k),
           k \in Running, NEW how \in {"gone", "segfault"}, End(k, how),
           UNCHANGED <<group, is_leader>>
    PROVE  ListingInvariant'
<1>1. PetitionInvariant' /\ PetitionsLost
  <2>1. PetitionInvariant
    BY DEF ListingInvariant
  <2>2. NobodyRests
    <3>1. status \in [Node -> Status] /\ status' = [status EXCEPT ![k] = how]
      BY GroupTypesHold DEF End
    <3> QED BY <3>1 DEF NobodyRests
  <2>3. <<>> \in Seq(PlainTasks) /\ work' = [work EXCEPT ![k] = <<>>]
    BY DEF End
  <2> QED BY <2>1, <2>2, <2>3, PetitionMoves
<1>2. /\ status' = [status EXCEPT ![k] = how]
      /\ group' = [group EXCEPT ![k] = group[k]]
      /\ work' = [work EXCEPT ![k] = <<>>]
  BY OfProcess DEF End
<1>3. Onward
  <2>1. \A x \in Node : Granted(x) /\ ~Ended(x) => NoPetition(work', inbox', x)
    BY <1>1, GrantedHas
  <2>2. \A n \in Node : is_leader[n] => is_leader'[n]
    OBVIOUS
  <2>3. ~Ended(k) /\ how \in {"joining", "chatting", "gone", "segfault"}
    BY DEF Ended, Running
  <2> QED BY <1>2, <2>1, <2>2, <2>3, OnwardStep
<1>4. <<>> \in Seq(ListingTasks(k)')
  OBVIOUS
<1>5. /\ \A x \in Addresses(group[k]) : Granted(x)'
      /\ how = "chatting" => (\E l \in Node : l = group[k].leader /\ Keeps(l, k)')
  BY <1>3, ListedGranted DEF Onward
<1> QED BY <1>1, <1>2, <1>3, <1>4, <1>5, ListingStep

-----------------------------------------------------------------------------
(* What handlers have to do *)

\* Neither a petition, nor for leaders only.
SafeTasks ==
    {task \in PlainTasks : task.task = "send" =>
        /\ task.msg.type \notin {"PARTICIPANT_UPDATE", "ELECTION_VICTORY"}
        /\ task.else # "remove"}

LEMMA SafeSequences ==
    ASSUME NEW n
    PROVE  /\ SafeTasks \subseteq PlainTasks
           /\ Seq(SafeTasks) \subseteq Seq(PlainTasks)
           /\ Seq(SafeTasks) \subseteq Seq(ListingTasks(n))
           /\ Seq(SafeTasks) \subseteq Seq(ListingTasks(n)')
<1>1. /\ SafeTasks \subseteq PlainTasks /\ SafeTasks \subseteq ListingTasks(n)
      /\ SafeTasks \subseteq ListingTasks(n)'
  BY DEF SafeTasks, PlainTasks, ListingTasks
<1> DEFINE A == ListingTasks(n)
           A2 == ListingTasks(n)'
<1> HIDE DEF A, A2
<1>2. /\ SafeTasks \subseteq A => Seq(SafeTasks) \subseteq Seq(A)
      /\ SafeTasks \subseteq A2 => Seq(SafeTasks) \subseteq Seq(A2)
  OBVIOUS
<1> QED BY <1>1, <1>2 DEF A, A2

LEMMA SendSafe ==
    ASSUME NEW to \in Node, NEW msg \in Messages,
           msg.type \notin Answers \cup {"ADD_ME", "PARTICIPANT_UPDATE", "ELECTION_VICTORY"},
           NEW else \in {"ignore", "elect", "exit"}
    PROVE  Send(to, msg, else) \in SafeTasks
<1> DEFINE t == Send(to, msg, else)
<1>1. t.task = "send" /\ t.to = to /\ t.msg = msg /\ t.else = else /\ t \in Tasks
  BY DEF Send, Tasks
<1> HIDE DEF t
<1>2. t \in SafeTasks
  BY <1>1 DEF SafeTasks, PlainTasks
<1> QED BY <1>2 DEF t

LEMMA ThenSafe ==
    /\ \A t \in {"campaign", "settle", "announce"} : Then(t) \in SafeTasks
    /\ \A k, id \in Nat : Printing(k, id) \in SafeTasks
    /\ \A n \in Node, notice \in Notices : Telling(n, notice) \in Seq(SafeTasks)
<1>1. \A t \in {"campaign", "settle", "announce"} : Then(t) \in SafeTasks
  BY DEF Then, Tasks, PlainTasks, SafeTasks
<1>2. \A k, id \in Nat : Printing(k, id) \in SafeTasks
  BY DEF Printing, Tasks, PlainTasks, SafeTasks
<1>3. \A notice \in Notices : [task |-> "tell", notice |-> notice] \in SafeTasks
  BY DEF Tasks, PlainTasks, SafeTasks
<1> QED BY <1>1, <1>2, <1>3 DEF Telling

\* An election is for anybody.
LEMMA ElectionSafe ==
    ASSUME NEW n \in Node, NEW g \in Group
    PROVE  start_election(n, g) \in Seq(SafeTasks)
<1> DEFINE s == g.participants
           places == {i \in DOMAIN s : Nick[s[i].node] # Nick[n]}
           r == Selected(s, places)
           msg == Plain("START_ELECTION")
           send(i) == Send(r[i].node, msg, "ignore")
           sends == nonleader_broadcast_message(n, g, msg)
<1>1. r \in Seq(Participant)
  <2>1. s \in Seq(Participant)
    BY GroupTypes
  <2> QED BY <2>1, SelectedProperties
<1>2. Len(r) \in Nat /\ DOMAIN r = 1..Len(r)
  <2> HIDE DEF r
  <2> QED BY <1>1
<1>3. sends = [i \in 1..Len(r) |-> send(i)]
  BY <1>2 DEF nonleader_broadcast_message
<1>4. msg \in Messages /\ msg.type = "START_ELECTION"
  BY PlainMessages DEF Plain
<1>5. start_election(n, g) = sends \o <<Then("campaign")>>
  BY DEF start_election
<1> HIDE DEF r, msg, sends
<1>6. ASSUME NEW i \in 1..Len(r) PROVE send(i) \in SafeTasks
  <2>1. r[i] \in Participant
    BY <1>1, <1>2
  <2>2. r[i].node \in Node
    BY <2>1 DEF Participant
  <2> QED BY <1>4, <2>2, SendSafe DEF Answers
<1> HIDE DEF send
<1>7. sends \in Seq(SafeTasks)
  BY <1>2, <1>3, <1>6
<1> QED BY <1>5, <1>7, ThenSafe

LEMMA OthersListed ==
    ASSUME NEW g \in Group
    PROVE  /\ Others(g) \in Seq(Node)
           /\ \A i \in DOMAIN Others(g) : Others(g)[i] \in Addresses(g)
<1>1. /\ Others(g) \in Seq(Node)
      /\ \E at \in [1..Len(Others(g)) -> 1..Len(g.participants)] :
             \A i \in 1..Len(Others(g)) : Others(g)[i] = g.participants[at[i]].node
  BY OthersProperties
<1>2. DOMAIN Others(g) = 1..Len(Others(g))
  BY <1>1
<1>3. ASSUME NEW i \in 1..Len(Others(g)) PROVE Others(g)[i] \in Addresses(g)
  <2>1. \E j \in 1..Len(g.participants) : Others(g)[i] = g.participants[j].node
    BY <1>1
  <2> QED BY <2>1, InAddresses
<1> QED BY <1>1, <1>2, <1>3

\* A broadcast is what one of its sends is.
LEMMA BroadcastIn ==
    ASSUME NEW S, NEW g \in Group, NEW msg, Then("settle") \in S,
           \A to \in Addresses(g) : Send(to, msg, "remove") \in S
    PROVE  leader_broadcast_message(g, msg) \in Seq(S)
<1> DEFINE to == Others(g)
           sends == SendAll(to, msg, "remove")
           send(i) == Send(to[i], msg, "remove")
<1>1. Len(to) \in Nat /\ DOMAIN to = 1..Len(to)
  <2>1. to \in Seq(Node)
    BY OthersListed
  <2> HIDE DEF to
  <2> QED BY <2>1
<1>2. \A i \in 1..Len(to) : send(i) \in S
  BY <1>1, OthersListed
<1>3. leader_broadcast_message(g, msg) = sends \o <<Then("settle")>>
  BY DEF leader_broadcast_message
<1>4. sends = [i \in 1..Len(to) |-> send(i)]
  BY <1>1 DEF SendAll
<1> HIDE DEF to, sends, send
<1>5. sends \in Seq(S)
  BY <1>1, <1>2, <1>4
<1> QED BY <1>3, <1>5

LEMMA RemovingSend ==
    ASSUME NEW k \in Node, NEW to \in Node, NEW msg \in Messages,
           msg.type \notin Answers \cup {"ADD_ME"}
    PROVE  LET t == Send(to, msg, "remove")
           IN  /\ t \in PlainTasks
               /\ /\ Keeps(k, to)
                  /\ msg.type = "PARTICIPANT_UPDATE" => ListOf(k, msg.nodes)
                  => t \in ListingTasks(k)
               /\ /\ Keeps(k, to)'
                  /\ msg.type = "PARTICIPANT_UPDATE" => ListOf(k, msg.nodes)'
                  => t \in ListingTasks(k)'
<1> DEFINE t == Send(to, msg, "remove")
<1>1. t.task = "send" /\ t.to = to /\ t.msg = msg /\ t.else = "remove" /\ t \in Tasks
  BY DEF Send, Tasks
<1> HIDE DEF t
<1>2. t \in PlainTasks
  BY <1>1 DEF PlainTasks
<1>3. ASSUME Keeps(k, to), msg.type = "PARTICIPANT_UPDATE" => ListOf(k, msg.nodes)
      PROVE  t \in ListingTasks(k)
  BY <1>1, <1>3 DEF ListingTasks
<1>4. ASSUME Keeps(k, to)', msg.type = "PARTICIPANT_UPDATE" => ListOf(k, msg.nodes)'
      PROVE  t \in ListingTasks(k)'
  BY <1>1, <1>4 DEF ListingTasks
<1> QED BY <1>2, <1>3, <1>4 DEF t

\* A broadcast without a list, to those whom the leader keeps.
LEMMA PlainListed ==
    ASSUME NEW k \in Node, NEW g \in Group, NEW msg \in Messages,
           msg.type \notin Answers \cup {"ADD_ME", "PARTICIPANT_UPDATE"}
    PROVE  LET tasks == leader_broadcast_message(g, msg)
           IN  /\ tasks \in Seq(PlainTasks)
               /\ (\A x \in Addresses(g) : Keeps(k, x)) => tasks \in Seq(ListingTasks(k))
               /\ (\A x \in Addresses(g) : Keeps(k, x)') => tasks \in Seq(ListingTasks(k)')
<1> DEFINE A == ListingTasks(k)
           A2 == ListingTasks(k)'
           send(x) == Send(x, msg, "remove")
           settle == Then("settle")
<1>1. \A x \in Addresses(g) :
          /\ send(x) \in PlainTasks
          /\ Keeps(k, x) => send(x) \in A
          /\ Keeps(k, x)' => send(x) \in A2
  <2>1. \A x \in Addresses(g) : x \in Node
    BY GroupTypes
  <2> QED BY <2>1, RemovingSend
<1>2. settle \in PlainTasks /\ settle \in A /\ settle \in A2
  BY DEF Then, Tasks, PlainTasks, ListingTasks
<1> HIDE DEF A, A2
<1>3. leader_broadcast_message(g, msg) \in Seq(PlainTasks)
  BY <1>1, <1>2, BroadcastIn
<1>4. ASSUME \A x \in Addresses(g) : Keeps(k, x)
      PROVE  leader_broadcast_message(g, msg) \in Seq(A)
  BY <1>1, <1>2, <1>4, BroadcastIn
<1>5. ASSUME \A x \in Addresses(g) : Keeps(k, x)'
      PROVE  leader_broadcast_message(g, msg) \in Seq(A2)
  BY <1>1, <1>2, <1>5, BroadcastIn
<1> QED BY <1>3, <1>4, <1>5 DEF A, A2

\* The list of a PARTICIPANT_UPDATE is that of the leader which sends it.
LEMMA GeneratedList ==
    ASSUME NEW g \in Group, g.leader \in Addresses(g)
    PROVE  LET nodes == generate_participant_update(g)
           IN  nodes[1] = g.leader /\ \A i \in DOMAIN nodes : nodes[i] \in Addresses(g)
<1> DEFINE rest == Others(g)
           nodes == generate_participant_update(g)
<1>1. /\ rest \in Seq(Addresses(g))
  <2>1. rest \in Seq(Node) /\ \A i \in DOMAIN rest : rest[i] \in Addresses(g)
    BY OthersListed
  <2> HIDE DEF rest
  <2> QED BY <2>1
<1>2. nodes = <<g.leader>> \o rest
  BY DEF generate_participant_update
<1> HIDE DEF rest, nodes
<1>3. nodes \in Seq(Addresses(g)) /\ nodes[1] = g.leader
  BY <1>1, <1>2
<1> QED BY <1>3 DEF nodes

LEMMA UpdateListed ==
    ASSUME NEW k \in Node, NEW g \in Group, NEW notice \in Notices,
           Distinct(g), g.leader = k, Flagged(g) = {k}
    PROVE  LET tasks == BroadcastUpdate(k, g, notice)
           IN  /\ tasks \in Seq(PlainTasks)
               /\ (\A x \in Addresses(g) : Keeps(k, x) /\ Granted(x)) =>
                      tasks \in Seq(ListingTasks(k))
               /\ (\A x \in Addresses(g) : Keeps(k, x)' /\ Granted(x)') =>
                      tasks \in Seq(ListingTasks(k)')
<1> DEFINE nodes == generate_participant_update(g)
           msg == Update(g, notice)
           A == ListingTasks(k)
           A2 == ListingTasks(k)'
           first == leader_broadcast_message(g, msg)
           last == Telling(k, notice)
           send(x) == Send(x, msg, "remove")
           settle == Then("settle")
<1>1. k \in Addresses(g) /\ nodes \in Seq(Node) \ {<<>>}
  BY FlaggedIsListed, GenerateProperties
<1>2. nodes[1] = k /\ \A i \in DOMAIN nodes : nodes[i] \in Addresses(g)
  BY <1>1, GeneratedList
<1>3. msg = [type |-> "PARTICIPANT_UPDATE", nodes |-> nodes, notice |-> notice]
  BY DEF Update
<1>4. (\A x \in Addresses(g) : Granted(x)) => ListOf(k, nodes)
  BY <1>2 DEF ListOf
<1>5. (\A x \in Addresses(g) : Granted(x)') => ListOf(k, nodes)'
  BY <1>2 DEF ListOf
<1> HIDE DEF nodes
<1>6. msg \in Messages /\ msg.type = "PARTICIPANT_UPDATE" /\ msg.nodes = nodes
  BY <1>1, <1>3 DEF Messages
<1> HIDE DEF msg
<1>7. \A x \in Addresses(g) :
          /\ send(x) \in PlainTasks
          /\ Keeps(k, x) /\ ListOf(k, nodes) => send(x) \in A
          /\ Keeps(k, x)' /\ ListOf(k, nodes)' => send(x) \in A2
  <2>1. \A x \in Addresses(g) : x \in Node
    BY GroupTypes
  <2>2. msg.type \notin Answers \cup {"ADD_ME"}
    BY <1>6 DEF Answers
  <2> QED BY <1>6, <2>1, <2>2, RemovingSend
<1>8. settle \in PlainTasks /\ settle \in A /\ settle \in A2
  BY DEF Then, Tasks, PlainTasks, ListingTasks
<1>9. last \in Seq(PlainTasks) /\ last \in Seq(A) /\ last \in Seq(A2)
  BY ThenSafe, SafeSequences
<1>10. BroadcastUpdate(k, g, notice) = first \o last
  BY DEF BroadcastUpdate, msg
<1> HIDE DEF A, A2, send, settle, last
<1>11. first \in Seq(PlainTasks)
  BY <1>7, <1>8, BroadcastIn DEF send, settle
<1>12. ASSUME \A x \in Addresses(g) : Keeps(k, x) /\ Granted(x) PROVE first \in Seq(A)
  BY <1>4, <1>7, <1>8, <1>12, BroadcastIn DEF send, settle
<1>13. ASSUME \A x \in Addresses(g) : Keeps(k, x)' /\ Granted(x)' PROVE first \in Seq(A2)
  BY <1>5, <1>7, <1>8, <1>13, BroadcastIn DEF send, settle
<1> HIDE DEF first
<1>14. first \o last \in Seq(PlainTasks)
  BY <1>9, <1>11
<1>15. first \in Seq(A) => first \o last \in Seq(A)
  BY <1>9
<1>16. first \in Seq(A2) => first \o last \in Seq(A2)
  BY <1>9
<1> QED BY <1>10, <1>12, <1>13, <1>14, <1>15, <1>16 DEF A, A2

-----------------------------------------------------------------------------
(* Steps that change no list *)

\* What is left to do when a task is done.
LEMMA Remaining ==
    ASSUME ListingInvariant, GroupInvariant, NEW k \in Node, work[k] # <<>>
    PROVE  /\ status[k] \in {"joining", "napping", "chatting"}
           /\ Tail(work[k]) \in Seq(PlainTasks)
           /\ Tail(work[k]) \in Seq(ListingTasks(k))
<1>1. work[k] \in Seq(ListingTasks(k))
  BY DEF ListingInvariant
<1>2. Tail(work[k]) \in Seq(ListingTasks(k))
  BY <1>1, SequenceParts
<1> QED BY <1>2, TaskProperties DEF ListingInvariant, PetitionInvariant

LEMMA FaultLater ==
    ASSUME GroupInvariant, NEW kind \in {"crash", "timeout"}, Fault(kind)
    PROVE  Later /\ (kind = "timeout" => ~Prompt')
<1>1. faults \in [FaultKinds -> Nat]
  BY OfAll DEF LooseTypes, FaultCounts
<1>2. faults["timeout"] \in Nat /\ {"crash", "timeout"} = FaultKinds
  BY <1>1 DEF FaultKinds
<1>3. kind = "timeout" => faults'["timeout"] = faults["timeout"] + 1
  BY <1>1, <1>2 DEF Fault
<1>4. kind = "crash" => faults'["timeout"] = faults["timeout"]
  BY <1>1, <1>2 DEF Fault
<1> QED BY <1>2, <1>3, <1>4 DEF Later, Prompt

LEMMA ListingCrash ==
    ASSUME ListingInvariant, GroupInvariant, NEW n \in Node, Crash(n)
    PROVE  ListingInvariant'
<1>1. /\ n \in Running /\ End(n, "gone") /\ UNCHANGED <<group, is_leader>>
      /\ InboxMoves(n)
  BY DEF Crash, InboxMoves
<1>2. Later
  BY FaultLater DEF Crash
<1> QED BY <1>1, <1>2, ListingEnds

\* A task is done, and others may take its place.
LEMMA ListingTask ==
    ASSUME ListingInvariant, GroupInvariant, Later, NEW k \in Node, InboxMoves(k),
           work[k] # <<>>, UNCHANGED <<status, group, is_leader>>,
           NEW tasks, tasks \in Seq(PlainTasks), tasks \in Seq(ListingTasks(k)),
           Do(k, tasks \o Tail(work[k]))
    PROVE  ListingInvariant'
<1> DEFINE rest == Tail(work[k])
           A == ListingTasks(k)
           all == tasks \o rest
<1>1. rest \in Seq(PlainTasks) /\ rest \in Seq(A)
  BY Remaining
<1>2. status[k] \in {"joining", "napping", "chatting"}
  BY Remaining
<1> HIDE DEF rest, A
<1>3. all \in Seq(PlainTasks)
  BY <1>1
<1>4. all \in Seq(A)
  BY <1>1 DEF A
<1>5. work' = [work EXCEPT ![k] = all]
  BY DEF Do, rest
<1> HIDE DEF all
<1> QED BY <1>2, <1>3, <1>4, <1>5, ListingProceeds DEF A

LEMMA ListingDone ==
    ASSUME ListingInvariant, GroupInvariant, Later, NEW k \in Node, InboxMoves(k),
           work[k] # <<>>, UNCHANGED <<status, group, is_leader>>,
           Do(k, Tail(work[k]))
    PROVE  ListingInvariant'
<1>1. work' = [work EXCEPT ![k] = Tail(work[k])]
  BY DEF Do
<1> QED BY <1>1, Remaining, ListingProceeds

LEMMA ListingAcknowledged ==
    ASSUME ListingInvariant, GroupInvariant, NEW n \in Node, Acknowledged(n)
    PROVE  ListingInvariant'
<1>1. /\ work[n] # <<>> /\ UNCHANGED <<status, group, is_leader>>
      /\ InboxMoves(n) /\ Do(n, Tail(work[n]))
  BY DEF Acknowledged, InboxMoves, Task
<1>2. Later
  BY DEF Acknowledged, Later, Prompt
<1> QED BY <1>1, <1>2, ListingDone

LEMMA ListingSmall ==
    ASSUME ListingInvariant, GroupInvariant, NEW n \in Node,
           Campaign(n) \/ PrintLine(n) \/ PrintNotice(n)
    PROVE  ListingInvariant'
<1>1. /\ work[n] # <<>> /\ UNCHANGED <<status, group, is_leader>>
      /\ inbox' = inbox /\ Do(n, Tail(work[n])) /\ faults' = faults
  BY DEF Campaign, PrintLine, PrintNotice, Task
<1>2. Later /\ InboxMoves(n)
  BY <1>1 DEF Later, Prompt, InboxMoves
<1> QED BY <1>1, <1>2, ListingDone

\* A leader tells those whom it lists.
LEMMA LeaderTells ==
    ASSUME ListingInvariant, GroupInvariant, NEW n \in Node, Leading(n),
           NEW notice \in Notices
    PROVE  /\ BroadcastUpdate(n, group[n], notice) \in Seq(PlainTasks)
           /\ BroadcastUpdate(n, group[n], notice) \in Seq(ListingTasks(n))
<1>1. group[n] \in Group
  BY OfProcess
<1>2. Distinct(group[n]) /\ group[n].leader = n /\ Flagged(group[n]) = {n}
  BY LeaderProperties
<1>3. \A x \in Addresses(group[n]) : Keeps(n, x) /\ Granted(x)
  BY ListedGranted DEF Keeps, Leading
<1> QED BY <1>1, <1>2, <1>3, UpdateListed

LEMMA ListingSettle ==
    ASSUME ListingInvariant, GroupInvariant, NEW n \in Node, Settle(n)
    PROVE  ListingInvariant'
<1> DEFINE told == IF lost[n] # <<>>
                   THEN BroadcastUpdate(n, group[n], Notice("left", lost[n]))
                   ELSE <<>>
<1>1. /\ work[n] # <<>> /\ Head(work[n]).task = "settle"
      /\ Do(n, told \o Tail(work[n])) /\ inbox' = inbox
      /\ UNCHANGED <<status, group, is_leader, faults>>
  BY DEF Settle, Task
<1>2. Leading(n)
  BY <1>1, TaskProperties DEF MembersTasks, IsLeaders
<1>3. told \in Seq(PlainTasks) /\ told \in Seq(ListingTasks(n))
  <2>1. CASE lost[n] # <<>>
    <3>1. Notice("left", lost[n]) \in Notices
      BY <2>1, OfAll DEF LooseTypes, Notice, Notices
    <3> QED BY <1>2, <2>1, <3>1, LeaderTells
  <2>2. CASE lost[n] = <<>>
    BY <2>2
  <2> QED BY <2>1, <2>2
<1> HIDE DEF told
<1>4. Later /\ InboxMoves(n)
  BY <1>1 DEF Later, Prompt, InboxMoves
<1> QED BY <1>1, <1>3, <1>4, ListingTask

LEMMA ListingAnnounce ==
    ASSUME ListingInvariant, GroupInvariant, NEW n \in Node, Announce(n)
    PROVE  ListingInvariant'
<1> DEFINE told == BroadcastUpdate(n, group[n], Notice("leads", <<n>>))
<1>1. /\ work[n] # <<>> /\ Head(work[n]).task = "announce"
      /\ Do(n, told \o Tail(work[n])) /\ inbox' = inbox
      /\ UNCHANGED <<status, group, is_leader, faults>>
  BY DEF Announce, Task
<1>2. Leading(n)
  BY <1>1, TaskProperties DEF MembersTasks, IsLeaders
<1>3. told \in Seq(PlainTasks) /\ told \in Seq(ListingTasks(n))
  <2>1. Notice("leads", <<n>>) \in Notices
    BY DEF Notice, Notices
  <2> QED BY <1>2, <2>1, LeaderTells
<1> HIDE DEF told
<1>4. Later /\ InboxMoves(n)
  BY <1>1 DEF Later, Prompt, InboxMoves
<1> QED BY <1>1, <1>3, <1>4, ListingTask

\* Whoever does not answer is removed: it has ended, or it was late.
LEMMA ListingRemoves ==
    ASSUME ListingInvariant, GroupInvariant, Later, NEW n \in Node, InboxMoves(n),
           work[n] # <<>>, Leading(n), NEW to \in Node,
           status[to] \in {"joining", "chatting"} => ~Prompt',
           group' = [group EXCEPT ![n] = Without(@, to)],
           Do(n, Tail(work[n])), UNCHANGED <<status, is_leader>>
    PROVE  ListingInvariant'
<1> DEFINE g == group[n]
           h == Without(g, to)
           rest == Tail(work[n])
<1>1. g \in Group /\ g.leader = n /\ status[n] = "chatting" /\ is_leader[n]
  BY OfProcess, LeaderProperties DEF Leading
<1>2. /\ h.leader = g.leader
      /\ \A x \in Addresses(g) : x # to => x \in Addresses(h)
      /\ \A x \in Addresses(h) : x \in Addresses(g)
  BY <1>1, WithoutProperties
<1>3. /\ group' = [group EXCEPT ![n] = h]
      /\ status' = [status EXCEPT ![n] = "chatting"]
      /\ work' = [work EXCEPT ![n] = rest]
  BY <1>1, OfProcess DEF Do
<1>4. rest \in Seq(PlainTasks) /\ rest \in Seq(ListingTasks(n))
  BY Remaining
<1>5. \A x \in Addresses(g) : x \in Node /\ Granted(x)
  BY ListedGranted
<1> HIDE DEF g, h, rest
<1>6. PetitionInvariant' /\ PetitionsLost
  <2>1. PetitionInvariant /\ NobodyRests
    BY DEF ListingInvariant, NobodyRests
  <2> QED BY <1>3, <1>4, <2>1, PetitionMoves
<1>7. Onward
  <2>1. \A x \in Node : Granted(x) /\ ~Ended(x) => NoPetition(work', inbox', x)
    BY <1>6, GrantedHas
  <2>2. \A x \in Node : is_leader[x] => is_leader'[x]
    OBVIOUS
  <2>3. ~Ended(n)
    BY <1>1 DEF Ended
  <2>4. ASSUME NEW x \in Addresses(g)
        PROVE  x \in Addresses(h) \/ ~Prompt' \/ (x \in Node /\ Ended(x))
    BY <1>2, <1>5 DEF Granted
  <2> QED BY <1>3, <2>1, <2>2, <2>3, <2>4, OnwardStep DEF g
<1>8. rest \in Seq(ListingTasks(n)')
  BY <1>4, <1>7, OnwardSequences
<1>9. \A x \in Addresses(h) : Granted(x)'
  BY <1>2, <1>5, <1>7 DEF Onward
<1>10. \E l \in Node : l = h.leader /\ Keeps(l, n)'
  BY <1>1, <1>2, <1>7, ListedGranted DEF Onward, g
<1> QED BY <1>3, <1>6, <1>7, <1>8, <1>9, <1>10, ListingStep

LEMMA ListingTimesOut ==
    ASSUME ListingInvariant, GroupInvariant, NEW n \in Node, TimesOut(n)
    PROVE  ListingInvariant'
<1> DEFINE send == Head(work[n])
           to == send.to
           else == send.else
           rest == Tail(work[n])
<1>1. Task(n, "send") /\ work[n] # <<>> /\ UNCHANGED is_leader
  BY DEF TimesOut, Task
<1>2. /\ to \in Node /\ else \in {"ignore", "remove", "elect", "exit"}
      /\ else = "remove" => Leading(n)
  BY <1>1, SendTask
<1>3. InboxMoves(n)
  BY <1>1 DEF TimesOut, InboxMoves
<1>4. Later /\ (status[to] \in {"joining", "chatting"} => ~Prompt')
  <2>1. CASE Fault("timeout")
    BY <2>1, FaultLater
  <2>2. CASE ~Fault("timeout")
    <3>1. faults' = faults /\ ~(to \in Running /\ status[to] # "napping")
      BY <2>2 DEF TimesOut
    <3> QED BY <1>2, <3>1 DEF Later, Prompt, Running
  <2> QED BY <2>1, <2>2
<1>5. CASE else = "ignore"
  <2>1. Do(n, rest) /\ UNCHANGED <<status, group>>
    BY <1>5 DEF TimesOut
  <2> QED BY <1>1, <1>3, <1>4, <2>1, ListingDone
<1>6. CASE else = "elect"
  <2> DEFINE tasks == start_election(n, group[n])
  <2>1. Do(n, tasks \o rest) /\ UNCHANGED <<status, group>>
    BY <1>6 DEF TimesOut
  <2>2. tasks \in Seq(PlainTasks) /\ tasks \in Seq(ListingTasks(n))
    BY OfProcess, ElectionSafe, SafeSequences
  <2> HIDE DEF tasks
  <2> QED BY <1>1, <1>3, <1>4, <2>1, <2>2, ListingTask
<1>7. CASE else = "exit"
  <2>1. End(n, "gone") /\ UNCHANGED group
    BY <1>7 DEF TimesOut
  <2>2. n \in Running
    BY <1>1, Remaining DEF Running
  <2> QED BY <1>1, <1>3, <1>4, <2>1, <2>2, ListingEnds
<1>8. CASE else = "remove"
  <2>1. /\ group' = [group EXCEPT ![n] = Without(@, to)]
        /\ Do(n, rest) /\ UNCHANGED status
    BY <1>8 DEF TimesOut
  <2> QED BY <1>1, <1>2, <1>3, <1>4, <1>8, <2>1, ListingRemoves
<1> QED BY <1>2, <1>5, <1>6, <1>7, <1>8

\* A process that is idle begins with these tasks.
LEMMA ListingBegins ==
    ASSUME ListingInvariant, GroupInvariant, NEW n \in Node, status[n] = "chatting",
           inbox' = inbox, UNCHANGED <<status, group, is_leader, faults>>,
           NEW tasks, tasks \in Seq(PlainTasks), tasks \in Seq(ListingTasks(n)),
           Do(n, tasks)
    PROVE  ListingInvariant'
<1>1. work' = [work EXCEPT ![n] = tasks] /\ Later /\ InboxMoves(n)
  BY DEF Do, Later, Prompt, InboxMoves
<1> QED BY <1>1, ListingProceeds

\* A leader broadcasts to those whom it lists.
LEMMA LeaderBroadcasts ==
    ASSUME ListingInvariant, GroupInvariant, NEW n \in Node, is_leader[n],
           NEW msg \in Messages,
           msg.type \notin Answers \cup {"ADD_ME", "PARTICIPANT_UPDATE"}
    PROVE  /\ leader_broadcast_message(group[n], msg) \in Seq(PlainTasks)
           /\ leader_broadcast_message(group[n], msg) \in Seq(ListingTasks(n))
<1>1. group[n] \in Group
  BY OfProcess
<1>2. \A x \in Addresses(group[n]) : Keeps(n, x)
  BY DEF Keeps
<1> QED BY <1>1, <1>2, PlainListed

LEMMA LineListed ==
    ASSUME ListingInvariant, GroupInvariant, NEW n \in Node, is_leader[n],
           NEW k \in Nat
    PROVE  /\ Broadcast(n, k) \in Seq(PlainTasks)
           /\ Broadcast(n, k) \in Seq(ListingTasks(n))
<1> DEFINE id == clock_num[n]
           first == leader_broadcast_message(group[n], Line(k, id))
           last == <<Printing(k, id)>>
           A == ListingTasks(n)
<1>1. id \in Nat
  BY OfAll DEF LooseTypes
<1>2. Line(k, id) \in Messages /\ Line(k, id).type = "MESSAGE_BROADCAST"
  BY <1>1, OtherMessages DEF Line
<1>3. first \in Seq(PlainTasks) /\ first \in Seq(A)
  <2> HIDE DEF id
  <2> QED BY <1>2, LeaderBroadcasts DEF Answers
<1>4. last \in Seq(PlainTasks) /\ last \in Seq(A)
  <2>1. last \in Seq(SafeTasks)
    BY <1>1, ThenSafe
  <2> QED BY <2>1, SafeSequences
<1>5. Broadcast(n, k) = first \o last
  BY DEF Broadcast
<1> HIDE DEF first, last, A
<1>6. first \o last \in Seq(PlainTasks) /\ first \o last \in Seq(A)
  BY <1>3, <1>4
<1> QED BY <1>5, <1>6 DEF A

LEMMA SendOnly ==
    ASSUME NEW n, NEW to \in Node, NEW msg \in Messages,
           msg.type \notin Answers \cup {"ADD_ME", "PARTICIPANT_UPDATE", "ELECTION_VICTORY"},
           NEW else \in {"ignore", "elect", "exit"}
    PROVE  /\ <<Send(to, msg, else)>> \in Seq(SafeTasks)
           /\ <<Send(to, msg, else)>> \in Seq(PlainTasks)
           /\ <<Send(to, msg, else)>> \in Seq(ListingTasks(n))
<1>1. Send(to, msg, else) \in SafeTasks
  BY SendSafe
<1>2. <<Send(to, msg, else)>> \in Seq(SafeTasks)
  BY <1>1
<1> QED BY <1>2, SafeSequences

LEMMA ListingType ==
    ASSUME ListingInvariant, GroupInvariant, NEW n \in Node, Type(n)
    PROVE  ListingInvariant'
<1> DEFINE k == Len(typed) + 1
           leader == group[n].leader
           one == <<Send(leader, Request(k), "elect")>>
<1>1. /\ status[n] = "chatting" /\ inbox' = inbox
      /\ UNCHANGED <<status, group, is_leader, faults>>
  BY DEF Type
<1>2. leader \in Node /\ k \in Nat
  BY <1>1, KnowsLeader, OfAll DEF LooseTypes
<1>3. CASE is_leader[n]
  <2>1. Do(n, Broadcast(n, k))
    BY <1>3 DEF Type
  <2>2. Broadcast(n, k) \in Seq(PlainTasks) /\ Broadcast(n, k) \in Seq(ListingTasks(n))
    BY <1>2, <1>3, LineListed
  <2> QED BY <1>1, <2>1, <2>2, ListingBegins
<1>4. CASE ~is_leader[n]
  <2>1. Do(n, one)
    BY <1>4 DEF Type
  <2>2. one \in Seq(PlainTasks) /\ one \in Seq(ListingTasks(n))
    <3>1. Request(k) \in Messages /\ Request(k).type = "MESSAGE_REQUEST"
      BY <1>2, OtherMessages DEF Request
    <3> HIDE DEF k, leader
    <3> QED BY <1>2, <3>1, SendOnly DEF Answers
  <2> HIDE DEF one
  <2> QED BY <1>1, <2>1, <2>2, ListingBegins
<1> QED BY <1>3, <1>4

LEMMA ListingHeartbeat ==
    ASSUME ListingInvariant, GroupInvariant, NEW n \in Node, Heartbeat(n)
    PROVE  ListingInvariant'
<1> DEFINE beat == Plain("HEARTBEAT")
           leader == group[n].leader
           all == leader_broadcast_message(group[n], beat)
           one == <<Send(leader, beat, "elect")>>
<1>1. /\ status[n] = "chatting" /\ inbox' = inbox
      /\ UNCHANGED <<status, group, is_leader, faults>>
  BY DEF Heartbeat, Beats
<1>2. beat \in Messages /\ beat.type = "HEARTBEAT"
  BY PlainMessages DEF Plain
<1>3. leader \in Node
  BY <1>1, KnowsLeader
<1>4. CASE is_leader[n]
  <2>1. Do(n, all)
    BY <1>4 DEF Heartbeat
  <2>2. all \in Seq(PlainTasks) /\ all \in Seq(ListingTasks(n))
    <3> HIDE DEF beat
    <3> QED BY <1>2, <1>4, LeaderBroadcasts DEF Answers
  <2> HIDE DEF all
  <2> QED BY <1>1, <2>1, <2>2, ListingBegins
<1>5. CASE ~is_leader[n]
  <2>1. Do(n, one)
    BY <1>5 DEF Heartbeat
  <2>2. one \in Seq(PlainTasks) /\ one \in Seq(ListingTasks(n))
    <3> HIDE DEF beat, leader
    <3> QED BY <1>2, <1>3, SendOnly DEF Answers
  <2> HIDE DEF one
  <2> QED BY <1>1, <2>1, <2>2, ListingBegins
<1> QED BY <1>4, <1>5

LEMMA ListingRestarts ==
    ASSUME ListingInvariant, GroupInvariant, NEW n \in Node, RestartElection(n)
    PROVE  ListingInvariant'
<1> DEFINE tasks == start_election(n, group[n])
<1>1. /\ status[n] = "chatting" /\ inbox' = inbox /\ Do(n, tasks)
      /\ UNCHANGED <<status, group, is_leader, faults>>
  BY DEF RestartElection, Restarts
<1>2. tasks \in Seq(PlainTasks) /\ tasks \in Seq(ListingTasks(n))
  BY OfProcess, ElectionSafe, SafeSequences
<1> HIDE DEF tasks
<1> QED BY <1>1, <1>2, ListingBegins

-----------------------------------------------------------------------------
(* Petitions that begin *)

\* k sends, or answers, the petition of y, and does nothing else.
LEMMA PetitionBegins ==
    ASSUME ListingInvariant, GroupInvariant, NEW k \in Node, NEW y \in Node,
           NEW task \in ProperTasks, \A x \in Node : InTask(k, task, x) => x = y,
           work' = [work EXCEPT ![k] = <<task>>],
           inbox' = inbox \/ (inbox[k] # <<>> /\ inbox' = [inbox EXCEPT ![k] = Tail(@)]),
           NoPetition(work, inbox', y),
           status'[y] \notin {"out", "napping"}, NobodyRests
    PROVE  /\ PetitionInvariant'
           /\ \A x \in Node : x # y /\ NoPetition(work, inbox, x) =>
                                  NoPetition(work', inbox', x)
<1>1. inbox \in Inboxes /\ work \in [Node -> Seq(ProperTasks)] /\ PetitionInvariant
  BY GroupTypesHold DEF ListingInvariant
<1>2. work'[k] = <<task>> /\ \A n \in Node : n # k => work'[n] = work[n]
  BY <1>1
<1>3. ASSUME NEW n \in Node, work'[n] # <<>> PROVE Tail(work'[n]) \in Seq(PlainTasks)
  <2>1. CASE n = k
    <3>1. Tail(<<task>>) = <<>>
      OBVIOUS
    <3>2. <<>> \in Seq(PlainTasks)
      OBVIOUS
    <3>3. Tail(work'[n]) = <<>>
      BY <1>2, <2>1, <3>1
    <3> QED BY <3>2, <3>3
  <2>2. CASE n # k
    BY <1>1, <1>2, <1>3, <2>2 DEF PetitionInvariant
  <2> QED BY <2>1, <2>2
<1>4. ASSUME NEW x \in Node, x # y
      PROVE  /\ OnePetition(work, inbox, x) => OnePetition(work', inbox', x)
             /\ NoPetition(work, inbox, x) => NoPetition(work', inbox', x)
  <2>1. Fewer(inbox, inbox', x)
    BY <1>1, ReadingLoses
  <2>2. ~Sends(work', k, x)
    BY <1>2, <1>4 DEF Sends
  <2>3. \A n \in Node : Sends(work', n, x) => Sends(work, n, x)
    BY <1>2, <2>2 DEF Sends
  <2> QED BY <2>1, <2>3, Losing
<1>5. OnePetition(work', inbox', y)
  <2> DEFINE b == inbox'
             w2 == work'
  <2>1. NoPetition(work, b, y) /\ w2 = [work EXCEPT ![k] = <<task>>]
    OBVIOUS
  <2> HIDE DEF b, w2
  <2>2. OnePetition(w2, b, y)
    BY <1>1, <2>1, NewPetition
  <2> QED BY <2>2 DEF b, w2
<1>6. \A x \in Node : OnePetition(work', inbox', x)
  BY <1>1, <1>4, <1>5 DEF PetitionInvariant
<1>7. ASSUME NEW x \in Node, status'[x] \in {"out", "napping"}
      PROVE  NoPetition(work', inbox', x)
  <2>1. x # y /\ NoPetition(work, inbox, x)
    BY <1>1, <1>7 DEF PetitionInvariant, NobodyRests
  <2> QED BY <1>4, <2>1
<1> QED BY <1>3, <1>4, <1>6, <1>7 DEF PetitionInvariant

LEMMA AddMeTask ==
    ASSUME NEW n \in Node, NEW hint \in Node
    PROVE  LET task == Send(hint, Plain("ADD_ME"), "exit")
           IN  /\ AddMe(hint) = <<task>>
               /\ task \in ProperTasks
               /\ \A x \in Node : InTask(n, task, x) => x = n
               /\ <<task>> \in Seq(ListingTasks(n)')
<1> DEFINE msg == Plain("ADD_ME")
           task == Send(hint, msg, "exit")
<1>1. msg \in Messages /\ msg.type = "ADD_ME"
  BY PlainMessages DEF Plain
<1> HIDE DEF msg
<1>2. /\ task.task = "send" /\ task.to = hint /\ task.msg = msg
      /\ task.else = "exit"
  BY DEF Send
<1>3. task \in ProperTasks
  BY <1>1, SendPlain, TasksApart
<1> HIDE DEF task
<1>4. task \in ListingTasks(n)'
  BY <1>1, <1>2, <1>3, TasksApart DEF ListingTasks
<1> DEFINE A2 == ListingTasks(n)'
<1> HIDE DEF A2
<1>5. <<task>> \in Seq(A2)
  BY <1>4 DEF A2
<1> QED BY <1>1, <1>2, <1>3, <1>5 DEF AddMe, InTask, Answers, A2, task, msg

\* A process that is not in a list asks to join.
LEMMA ListingJoins ==
    ASSUME ListingInvariant, GroupInvariant, Later, NEW n \in Node, NEW hint \in Node,
           status[n] \in {"out", "joining", "napping"},
           NoPetition(work, inbox', n), ~Granted(n),
           inbox' = inbox \/ (inbox[n] # <<>> /\ inbox' = [inbox EXCEPT ![n] = Tail(@)]),
           status' = [status EXCEPT ![n] = "joining"],
           Do(n, AddMe(hint)), UNCHANGED <<group, is_leader>>
    PROVE  ListingInvariant'
<1> DEFINE task == Send(hint, Plain("ADD_ME"), "exit")
<1>1. /\ AddMe(hint) = <<task>> /\ task \in ProperTasks
      /\ \A x \in Node : InTask(n, task, x) => x = n
      /\ <<task>> \in Seq(ListingTasks(n)')
  BY AddMeTask
<1> HIDE DEF task
<1>2. work' = [work EXCEPT ![n] = <<task>>] /\ group' = [group EXCEPT ![n] = group[n]]
  BY <1>1, OfProcess DEF Do
<1>3. status'[n] = "joining" /\ \A x \in Node : x # n => status'[x] = status[x]
  BY GroupTypesHold
<1>4. /\ PetitionInvariant'
      /\ \A x \in Node : x # n /\ NoPetition(work, inbox, x) =>
                             NoPetition(work', inbox', x)
  <2>1. NobodyRests /\ status'[n] \notin {"out", "napping"}
    BY <1>3 DEF NobodyRests
  <2> QED BY <1>1, <1>2, <2>1, PetitionBegins
<1>5. Onward
  <2>1. ASSUME NEW x \in Node, Granted(x), ~Ended(x) PROVE NoPetition(work', inbox', x)
    <3>1. x # n /\ NoPetition(work, inbox, x)
      BY <2>1 DEF Granted
    <3> QED BY <1>4, <3>1
  <2>2. \A x \in Node : is_leader[x] => is_leader'[x]
    OBVIOUS
  <2>3. ~Ended(n)
    BY DEF Ended
  <2> QED BY <1>2, <2>1, <2>2, <2>3, OnwardStep
<1>6. InboxMoves(n)
  BY DEF InboxMoves
<1>7. \A x \in Addresses(group[n]) : Granted(x)'
  BY <1>5, ListedGranted DEF Onward
<1> QED BY <1>1, <1>2, <1>4, <1>5, <1>6, <1>7, ListingStep

LEMMA ListingJoin ==
    ASSUME ListingInvariant, GroupInvariant, NEW n \in Node, NEW hint \in Node,
           Join(n, hint)
    PROVE  ListingInvariant'
<1>1. /\ status[n] = "out" /\ status' = [status EXCEPT ![n] = "joining"]
      /\ Do(n, AddMe(hint)) /\ inbox' = inbox
      /\ UNCHANGED <<group, is_leader, faults>>
  BY DEF Join
<1>2. NoPetition(work, inbox, n)
  BY <1>1 DEF ListingInvariant, PetitionInvariant
<1>3. NoPetition(work, inbox', n)
  BY <1>1, <1>2
<1>4. Later /\ ~Granted(n)
  BY <1>1 DEF Later, Prompt, Granted, Ended
<1> QED BY <1>1, <1>3, <1>4, ListingJoins

LEMMA ListingTries ==
    ASSUME ListingInvariant, GroupInvariant, Later, NEW n \in Node, NEW hint \in Node,
           status[n] \in {"joining", "napping"}, TryAgain(n, hint),
           NoPetition(work, inbox', n), ~Granted(n),
           inbox' = inbox \/ (inbox[n] # <<>> /\ inbox' = [inbox EXCEPT ![n] = Tail(@)]),
           UNCHANGED <<group, is_leader>>
    PROVE  ListingInvariant'
<1>1. CASE joining[n].attempts < MaxAttempts
  <2>1. status' = [status EXCEPT ![n] = "joining"] /\ Do(n, AddMe(hint))
    BY <1>1 DEF TryAgain
  <2> QED BY <2>1, ListingJoins
<1>2. CASE ~(joining[n].attempts < MaxAttempts)
  <2>1. End(n, "gone") /\ n \in Running /\ InboxMoves(n)
    BY <1>2 DEF TryAgain, Running, InboxMoves
  <2> QED BY <2>1, ListingEnds
<1> QED BY <1>1, <1>2

LEMMA ListingWake ==
    ASSUME ListingInvariant, GroupInvariant, NEW n \in Node, Wake(n)
    PROVE  ListingInvariant'
<1>1. /\ status[n] = "napping" /\ TryAgain(n, joining[n].hint) /\ inbox' = inbox
      /\ UNCHANGED <<group, is_leader, faults>>
  BY DEF Wake
<1>2. joining[n].hint \in Node
  <2>1. joining[n] \in Attempts
    BY OfProcess
  <2>2. Sound(n, status[n], group[n], is_leader[n], joining[n], work[n])
    BY OfProcess
  <2>3. joining[n].hint # Nobody
    BY <1>1, <2>2 DEF Sound
  <2> QED BY <2>1, <2>3 DEF Attempts
<1>3. NoPetition(work, inbox, n)
  BY <1>1 DEF ListingInvariant, PetitionInvariant
<1>4. NoPetition(work, inbox', n)
  BY <1>1, <1>3
<1>5. Later /\ ~Granted(n)
  BY <1>1 DEF Later, Prompt, Granted, Ended
<1> QED BY <1>1, <1>2, <1>4, <1>5, ListingTries

-----------------------------------------------------------------------------
(* Messages that are read *)

\* A petition that is read was there, once.
LEMMA PetitionRead ==
    ASSUME ListingInvariant, GroupInvariant, NEW n \in Node, inbox[n] # <<>>,
           inbox' = [inbox EXCEPT ![n] = Tail(@)],
           NEW x \in Node, InMessage(n, Head(inbox[n]), x)
    PROVE  /\ NoPetition(work, inbox', x)
           /\ ~NoPetition(work, inbox, x)
           /\ status[x] \in {"joining", "chatting", "gone", "segfault"}
<1>1. inbox \in Inboxes /\ PetitionInvariant /\ status[x] \in Status
  BY GroupTypesHold DEF ListingInvariant
<1>2. OnePetition(work, inbox, x)
  BY <1>1 DEF PetitionInvariant
<1>3. NoPetition(work, inbox', x)
  BY <1>1, <1>2, ReadPetition
<1>4. 1 \in DOMAIN inbox[n] /\ Head(inbox[n]) = inbox[n][1]
  <2>1. inbox[n] \in Seq(AnyMessage)
    BY <1>1 DEF Inboxes
  <2> QED BY <2>1, TailPlaces
<1>5. ~NoPetition(work, inbox, x)
  BY <1>4 DEF NoPetition, Waits
<1> QED BY <1>1, <1>3, <1>5 DEF PetitionInvariant, Status

LEMMA MessageRead ==
    ASSUME ListingInvariant, GroupInvariant, NEW n \in Node, inbox[n] # <<>>
    PROVE  LET m == Head(inbox[n])
           IN  /\ m.from \in Node /\ m.msg \in Messages
               /\ m.msg.type \in {"PARTICIPANT_UPDATE", "ELECTION_VICTORY"} =>
                      Keeps(m.from, n)
               /\ m.msg.type = "PARTICIPANT_UPDATE" => ListOf(m.from, m.msg.nodes)
<1> DEFINE m == Head(inbox[n])
<1>1. inbox[n] \in Seq(ListingMessages(n))
  BY DEF ListingInvariant
<1>2. m \in ListingMessages(n)
  BY <1>1, SequenceParts
<1> HIDE DEF m
<1>3. m.from \in Node /\ m.msg \in Messages
  BY <1>2 DEF ListingMessages
<1> QED BY <1>2, <1>3 DEF ListingMessages, m

LEMMA ListingHandles ==
    ASSUME ListingInvariant, GroupInvariant, NEW n \in Node, status[n] = "chatting",
           inbox[n] # <<>>, UNCHANGED <<status, group, is_leader, faults>>,
           NEW tasks, tasks \in Seq(PlainTasks), tasks \in Seq(ListingTasks(n)),
           Handles(n, tasks)
    PROVE  ListingInvariant'
<1>1. work' = [work EXCEPT ![n] = tasks] /\ Later /\ InboxMoves(n)
  BY DEF Handles, Do, Later, Prompt, InboxMoves
<1> QED BY <1>1, ListingProceeds

LEMMA ListingIgnores ==
    ASSUME ListingInvariant, GroupInvariant, NEW n \in Node, status[n] = "chatting",
           inbox[n] # <<>>, UNCHANGED <<status, group, is_leader, faults>>,
           Handles(n, <<>>)
    PROVE  ListingInvariant'
<1>1. <<>> \in Seq(PlainTasks) /\ <<>> \in Seq(ListingTasks(n))
  OBVIOUS
<1> QED BY <1>1, ListingHandles

LEMMA ListingLast ==
    ASSUME ListingInvariant, GroupInvariant, NEW n \in Node, n \in Running,
           NEW how \in {"gone", "segfault"}, End(n, how),
           inbox' = [inbox EXCEPT ![n] = <<>>], UNCHANGED <<group, is_leader, faults>>
    PROVE  ListingInvariant'
<1>1. Later /\ InboxMoves(n)
  BY DEF Later, Prompt, InboxMoves
<1> QED BY <1>1, ListingEnds

LEMMA ListingResponds ==
    ASSUME ListingInvariant, GroupInvariant, NEW n \in Node, status[n] = "chatting",
           inbox[n] # <<>>, NEW from \in Node, RespondToElection(n, from),
           UNCHANGED <<group, is_leader, faults>>
    PROVE  ListingInvariant'
<1>1. CASE from \notin Addresses(group[n])
  <2>1. End(n, "segfault") /\ inbox' = [inbox EXCEPT ![n] = <<>>] /\ n \in Running
    BY <1>1 DEF RespondToElection, Running
  <2> QED BY <2>1, ListingLast
<1>2. CASE from \in Addresses(group[n]) /\ Nick[n] > Nick[from]
  <2> DEFINE stop == <<Send(from, Plain("STOP_ELECTION"), "ignore")>>
             campaign == start_election(n, group[n])
             tasks == stop \o campaign
  <2>1. Handles(n, tasks) /\ UNCHANGED status
    BY <1>2 DEF RespondToElection
  <2>2. stop \in Seq(SafeTasks)
    <3> DEFINE msg == Plain("STOP_ELECTION")
    <3>1. msg \in Messages /\ msg.type = "STOP_ELECTION"
      BY PlainMessages DEF Plain
    <3> HIDE DEF msg
    <3>2. <<Send(from, msg, "ignore")>> \in Seq(SafeTasks)
      BY <3>1, SendOnly DEF Answers
    <3> QED BY <3>2 DEF msg
  <2>3. campaign \in Seq(SafeTasks)
    BY OfProcess, ElectionSafe
  <2> HIDE DEF stop, campaign
  <2>4. tasks \in Seq(SafeTasks)
    BY <2>2, <2>3
  <2> HIDE DEF tasks
  <2>5. tasks \in Seq(PlainTasks) /\ tasks \in Seq(ListingTasks(n))
    BY <2>4, SafeSequences
  <2> QED BY <2>1, <2>5, ListingHandles
<1>3. CASE from \in Addresses(group[n]) /\ ~(Nick[n] > Nick[from])
  <2>1. Handles(n, <<>>) /\ UNCHANGED status
    BY <1>3 DEF RespondToElection
  <2> QED BY <2>1, ListingIgnores
<1> QED BY <1>1, <1>2, <1>3

\* What somebody that does not lead makes of its list when it is told.
LEMMA ListingRegroups ==
    ASSUME ListingInvariant, GroupInvariant, NEW n \in Node, NEW g,
           inbox[n] # <<>>, inbox' = [inbox EXCEPT ![n] = Tail(@)],
           ~is_leader[n], UNCHANGED <<is_leader, faults>>,
           status[n] \in {"joining", "chatting"},
           status' = [status EXCEPT ![n] = "chatting"],
           group' = [group EXCEPT ![n] = g],
           Do(n, <<>>),
           \A x \in Addresses(g) : x \in Node /\ Granted(x),
           g.leader \in Node, Keeps(g.leader, n)
    PROVE  ListingInvariant'
<1>1. Later /\ InboxMoves(n) /\ work' = [work EXCEPT ![n] = <<>>]
  BY DEF Later, Prompt, InboxMoves, Do
<1>2. PetitionInvariant' /\ PetitionsLost
  <2>1. PetitionInvariant
    BY DEF ListingInvariant
  <2>2. NobodyRests
    <3>1. status \in [Node -> Status]
      BY GroupTypesHold
    <3> QED BY <3>1 DEF NobodyRests
  <2>3. <<>> \in Seq(PlainTasks)
    OBVIOUS
  <2> QED BY <1>1, <2>1, <2>2, <2>3, PetitionMoves
<1>3. Onward
  <2>1. \A x \in Node : Granted(x) /\ ~Ended(x) => NoPetition(work', inbox', x)
    BY <1>2, GrantedHas
  <2>2. \A x \in Node : is_leader[x] => is_leader'[x]
    OBVIOUS
  <2>3. ~Ended(n)
    BY DEF Ended
  <2> QED BY <1>1, <2>1, <2>2, <2>3, OnwardStep
<1>4. <<>> \in Seq(ListingTasks(n)')
  OBVIOUS
<1>5. (\A x \in Addresses(g) : Granted(x)') /\ (\E l \in Node : l = g.leader /\ Keeps(l, n)')
  BY <1>3 DEF Onward
<1> QED BY <1>1, <1>2, <1>3, <1>4, <1>5, ListingStep

\* The list in a PARTICIPANT_UPDATE is that of a leader which keeps its reader.
LEMMA ToldList ==
    ASSUME ListingInvariant, GroupInvariant, NEW n \in Node, inbox[n] # <<>>,
           Head(inbox[n]).msg.type = "PARTICIPANT_UPDATE"
    PROVE  LET g == process_participant_update(Head(inbox[n]).msg.nodes)
           IN  /\ \A x \in Addresses(g) : x \in Node /\ Granted(x)
               /\ g.leader \in Node /\ Keeps(g.leader, n)
<1> DEFINE m == Head(inbox[n])
           nodes == m.msg.nodes
           g == process_participant_update(nodes)
<1>1. /\ m.from \in Node /\ m.msg \in Messages
      /\ Keeps(m.from, n) /\ ListOf(m.from, nodes)
  BY MessageRead
<1>2. Informs(n, m.msg)
  BY OfAll, ReadInbox
<1>3. nodes \in Seq(Node) \ {<<>>} /\ NamesDiffer(nodes)
  BY <1>1, <1>2, MessageFields DEF Informs
<1> HIDE DEF nodes
<1>4. /\ g.leader = nodes[1]
      /\ \A x \in Addresses(g) : \E i \in DOMAIN nodes : nodes[i] = x
  BY <1>3, ProcessProperties
<1>5. \A i \in DOMAIN nodes : nodes[i] \in Node /\ Granted(nodes[i])
  BY <1>1, <1>3 DEF ListOf
<1>6. g.leader = m.from
  BY <1>1, <1>4 DEF ListOf
<1> QED BY <1>1, <1>4, <1>5, <1>6 DEF nodes

LEMMA ListingReply ==
    ASSUME ListingInvariant, GroupInvariant, NEW n \in Node, Reply(n)
    PROVE  ListingInvariant'
<1> DEFINE m == Head(inbox[n])
           msg == m.msg
<1>1. /\ status[n] = "joining" /\ work[n] = <<>> /\ inbox[n] # <<>>
      /\ UNCHANGED <<is_leader, faults>>
  BY DEF Reply, Idle
<1>2. m.from \in Node /\ msg \in Messages
  BY <1>1, MessageRead
<1>3. ~is_leader[n] /\ work = [work EXCEPT ![n] = <<>>]
  <2>1. Sound(n, status[n], group[n], is_leader[n], joining[n], work[n])
    BY OfProcess
  <2>2. ~is_leader[n]
    BY <1>1, <2>1 DEF Sound
  <2>3. work = [work EXCEPT ![n] = work[n]]
    BY OfProcess
  <2> QED BY <1>1, <2>2, <2>3
<1>4. CASE msg.type = "PARTICIPANT_UPDATE"
  <2> DEFINE g == process_participant_update(msg.nodes)
  <2>1. /\ status' = [status EXCEPT ![n] = "chatting"]
        /\ group' = [group EXCEPT ![n] = g]
        /\ inbox' = [inbox EXCEPT ![n] = Tail(@)]
        /\ work' = work
    BY <1>4 DEF Reply
  <2>2. /\ \A x \in Addresses(g) : x \in Node /\ Granted(x)
        /\ g.leader \in Node /\ Keeps(g.leader, n)
    BY <1>1, <1>4, ToldList
  <2>3. Do(n, <<>>)
    BY <1>3, <2>1 DEF Do
  <2> HIDE DEF g
  <2> QED BY <1>1, <1>3, <2>1, <2>2, <2>3, ListingRegroups
<1>5. CASE msg.type = "JOIN_FAILURE"
  <2>1. /\ status' = [status EXCEPT ![n] = "napping"]
        /\ inbox' = [inbox EXCEPT ![n] = Tail(@)]
        /\ UNCHANGED <<group, work>>
    BY <1>5 DEF Reply
  <2>2. NoPetition(work, inbox', n) /\ ~NoPetition(work, inbox, n)
    <3>1. InMessage(n, m, n)
      BY <1>5 DEF InMessage, Answers
    <3> QED BY <1>1, <2>1, <3>1, PetitionRead
  <2>3. /\ \A x \in Node : OnePetition(work, inbox, x) => OnePetition(work', inbox', x)
        /\ PetitionsLost
    <3>1. inbox \in Inboxes
      BY GroupTypesHold
    <3>2. \A x \in Node : Fewer(inbox, inbox', x)
      BY <1>1, <2>1, <3>1, ReadingLoses
    <3>3. \A x, k \in Node : Sends(work', k, x) => Sends(work, k, x)
      BY <2>1
    <3> QED BY <3>2, <3>3, Losing DEF PetitionsLost
  <2>4. PetitionInvariant'
    <3>1. PetitionInvariant
      BY DEF ListingInvariant
    <3>2. ASSUME NEW x \in Node, status'[x] \in {"out", "napping"}
          PROVE  NoPetition(work', inbox', x)
      <4>1. CASE x = n
        BY <2>1, <2>2, <4>1
      <4>2. CASE x # n
        <5>1. status'[x] = status[x]
          BY <2>1, <4>2, GroupTypesHold
        <5> QED BY <2>3, <3>1, <3>2, <5>1 DEF PetitionInvariant, PetitionsLost
      <4> QED BY <4>1, <4>2
    <3>3. \A k \in Node : work'[k] # <<>> => Tail(work'[k]) \in Seq(PlainTasks)
      BY <2>1, <3>1 DEF PetitionInvariant
    <3>4. \A x \in Node : OnePetition(work', inbox', x)
      BY <2>3, <3>1 DEF PetitionInvariant
    <3> QED BY <3>2, <3>3, <3>4 DEF PetitionInvariant
  <2>5. /\ group' = [group EXCEPT ![n] = group[n]]
        /\ work' = [work EXCEPT ![n] = <<>>] /\ InboxMoves(n) /\ Later
    BY <1>1, <1>3, <2>1, OfProcess DEF InboxMoves, Later, Prompt
  <2>6. Onward
    <3>1. \A x \in Node : Granted(x) /\ ~Ended(x) => NoPetition(work', inbox', x)
      BY <2>3, GrantedHas
    <3>2. \A x \in Node : is_leader[x] => is_leader'[x]
      BY <1>1
    <3>3. ~Ended(n) /\ ~Granted(n)
      BY <1>1, <2>2 DEF Ended, Granted
    <3> QED BY <1>3, <2>1, <2>5, <3>1, <3>2, <3>3, OnwardStep
  <2>7. <<>> \in Seq(ListingTasks(n)')
    OBVIOUS
  <2>8. \A x \in Addresses(group[n]) : Granted(x)'
    BY <2>6, ListedGranted DEF Onward
  <2> QED BY <2>1, <2>4, <2>5, <2>6, <2>7, <2>8, ListingStep
<1>6. CASE msg.type = "LEADER_ID"
  <2>1. /\ TryAgain(n, msg.leader)
        /\ inbox' = [inbox EXCEPT ![n] = Tail(@)]
        /\ UNCHANGED group
    BY <1>6 DEF Reply
  <2>2. msg.leader \in Node
    BY <1>2, <1>6, MessageFields
  <2>3. NoPetition(work, inbox', n) /\ ~NoPetition(work, inbox, n)
    <3>1. InMessage(n, m, n)
      BY <1>6 DEF InMessage, Answers
    <3> QED BY <1>1, <2>1, <3>1, PetitionRead
  <2>4. Later /\ ~Granted(n)
    BY <1>1, <2>3 DEF Later, Prompt, Granted, Ended
  <2> HIDE DEF msg
  <2> QED BY <1>1, <2>1, <2>2, <2>3, <2>4, ListingTries
<1>7. CASE msg.type \notin {"PARTICIPANT_UPDATE", "JOIN_FAILURE", "LEADER_ID"}
  <2>1. /\ End(n, "gone") /\ inbox' = [inbox EXCEPT ![n] = <<>>]
        /\ UNCHANGED group /\ n \in Running
    BY <1>1, <1>7 DEF Reply, Running
  <2> QED BY <1>1, <2>1, ListingLast
<1> QED BY <1>4, <1>5, <1>6, <1>7

\* A leader lists whoever asks to join, and tells the group.
LEMMA ListingAdds ==
    ASSUME ListingInvariant, GroupInvariant, NEW n \in Node, Leading(n),
           inbox[n] # <<>>, inbox' = [inbox EXCEPT ![n] = Tail(@)],
           NEW from \in Node, InMessage(n, Head(inbox[n]), from),
           ~contains_participant(group[n], Nick[from]),
           group' = [group EXCEPT ![n] = insert_participant(@, from, FALSE)],
           Do(n, BroadcastUpdate(n, insert_participant(group[n], from, FALSE),
                                 Notice("joined", <<from>>))),
           UNCHANGED <<status, is_leader, faults>>
    PROVE  ListingInvariant'
<1> DEFINE g == group[n]
           h == insert_participant(g, from, FALSE)
           notice == Notice("joined", <<from>>)
           tasks == BroadcastUpdate(n, h, notice)
<1>1. /\ g \in Group /\ Distinct(g) /\ g.leader = n /\ Flagged(g) = {n}
      /\ status[n] = "chatting" /\ is_leader[n] /\ is_leader'[n]
  BY OfProcess, LeaderProperties DEF Leading
<1>2. /\ h \in Group /\ h.leader = n /\ Flagged(h) = {n} /\ Distinct(h)
      /\ \A x \in Addresses(g) : x \in Addresses(h)
      /\ \A x \in Addresses(h) : x = from \/ x \in Addresses(g)
  BY <1>1, InsertProperties
<1>3. notice \in Notices
  BY DEF Notice, Notices
<1>4. /\ group' = [group EXCEPT ![n] = h]
      /\ status' = [status EXCEPT ![n] = "chatting"]
      /\ work' = [work EXCEPT ![n] = tasks]
      /\ InboxMoves(n) /\ Later
  BY <1>1, OfProcess DEF Do, InboxMoves, Later, Prompt
<1>5. group'[n] = h
  BY <1>4, GroupTypesHold, Parts DEF Together, CoreTypes
<1>6. \A x \in Addresses(g) : x \in Node /\ Granted(x)
  BY ListedGranted
<1> HIDE DEF g, h, notice
<1>7. tasks \in Seq(PlainTasks)
  BY <1>2, <1>3, UpdateListed
<1>8. PetitionInvariant' /\ PetitionsLost
  <2>1. PetitionInvariant /\ NobodyRests
    BY DEF ListingInvariant, NobodyRests
  <2> HIDE DEF tasks
  <2> QED BY <1>4, <1>7, <2>1, PetitionMoves
<1>9. Onward
  <2>1. \A x \in Node : Granted(x) /\ ~Ended(x) => NoPetition(work', inbox', x)
    BY <1>8, GrantedHas
  <2>2. \A x \in Node : is_leader[x] => is_leader'[x]
    OBVIOUS
  <2>3. ~Ended(n)
    BY <1>1 DEF Ended
  <2> QED BY <1>2, <1>4, <2>1, <2>2, <2>3, OnwardStep DEF g
<1>10. Granted(from)'
  <2>1. /\ NoPetition(work, inbox', from)
        /\ status[from] \in {"joining", "chatting", "gone", "segfault"}
    BY PetitionRead
  <2>2. NoPetition(work', inbox', from)
    <3>1. work \in [Node -> Seq(ProperTasks)]
      BY GroupTypesHold
    <3> HIDE DEF tasks
    <3>2. \A x, m \in Node : Sends(work', m, x) => Sends(work, m, x)
      BY <1>4, <1>7, <3>1, PlainWork
    <3> QED BY <2>1, <3>2 DEF NoPetition
  <2> QED BY <2>1, <2>2 DEF Granted, Ended
<1>11. ASSUME NEW x \in Addresses(h) PROVE Granted(x)' /\ Keeps(n, x)'
  <2>1. Granted(x)'
    BY <1>2, <1>6, <1>9, <1>10 DEF Onward
  <2> QED BY <1>1, <1>5, <2>1 DEF Keeps
<1>12. tasks \in Seq(ListingTasks(n)')
  BY <1>2, <1>3, <1>11, UpdateListed
<1>13. \E l \in Node : l = h.leader /\ Keeps(l, n)'
  BY <1>2, <1>11, FlaggedIsListed
<1> HIDE DEF tasks
<1> QED BY <1>4, <1>8, <1>9, <1>11, <1>12, <1>13, ListingStep

LEMMA ListingLeaderReceives ==
    ASSUME ListingInvariant, GroupInvariant, NEW n \in Node, LeaderReceives(n)
    PROVE  ListingInvariant'
<1> DEFINE m == Head(inbox[n])
           from == m.from
           msg == m.msg
<1>1. /\ status[n] = "chatting" /\ is_leader[n] /\ inbox[n] # <<>>
      /\ UNCHANGED <<is_leader, faults>>
  BY DEF LeaderReceives
<1>2. from \in Node /\ msg \in Messages
  BY <1>1, MessageRead
<1>3. CASE msg.type = "ADD_ME" /\ contains_participant(group[n], Nick[from])
  <2> DEFINE no == Plain("JOIN_NICKNAME_FAILURE")
             tasks == <<Send(from, no, "exit")>>
  <2>1. Handles(n, tasks) /\ UNCHANGED <<status, group>>
    BY <1>3 DEF LeaderReceives
  <2>2. no \in Messages /\ no.type = "JOIN_NICKNAME_FAILURE"
    BY PlainMessages DEF Plain
  <2> HIDE DEF no, from
  <2>3. tasks \in Seq(PlainTasks) /\ tasks \in Seq(ListingTasks(n))
    BY <1>2, <2>2, SendOnly DEF Answers
  <2> HIDE DEF tasks
  <2> QED BY <1>1, <2>1, <2>3, ListingHandles
<1>4. CASE msg.type = "ADD_ME" /\ ~contains_participant(group[n], Nick[from])
  <2> DEFINE h == insert_participant(group[n], from, FALSE)
             tasks == BroadcastUpdate(n, h, Notice("joined", <<from>>))
  <2>1. /\ group' = [group EXCEPT ![n] = h]
        /\ Handles(n, tasks) /\ UNCHANGED status
    BY <1>4 DEF LeaderReceives
  <2>2. inbox' = [inbox EXCEPT ![n] = Tail(@)] /\ Do(n, tasks)
    BY <2>1 DEF Handles
  <2>3. InMessage(n, m, from) /\ Leading(n)
    BY <1>1, <1>4 DEF InMessage, Leading
  <2>4. group' = [group EXCEPT ![n] = insert_participant(@, from, FALSE)]
    BY <2>1
  <2> HIDE DEF from
  <2> QED BY <1>1, <1>2, <1>4, <2>1, <2>2, <2>3, <2>4, ListingAdds
<1>5. CASE msg.type = "MESSAGE_REQUEST"
  <2>1. Handles(n, Broadcast(n, msg.line)) /\ UNCHANGED <<status, group>>
    BY <1>5 DEF LeaderReceives
  <2>2. msg.line \in Nat
    BY <1>2, <1>5, MessageFields
  <2>3. /\ Broadcast(n, msg.line) \in Seq(PlainTasks)
        /\ Broadcast(n, msg.line) \in Seq(ListingTasks(n))
    BY <1>1, <2>2, LineListed
  <2> QED BY <1>1, <2>1, <2>3, ListingHandles
<1>6. CASE msg.type = "START_ELECTION"
  <2>1. RespondToElection(n, from) /\ UNCHANGED group
    BY <1>6 DEF LeaderReceives
  <2> QED BY <1>1, <1>2, <2>1, ListingResponds
<1>7. CASE msg.type \notin {"ADD_ME", "MESSAGE_REQUEST", "START_ELECTION"}
  <2>1. Handles(n, <<>>) /\ UNCHANGED <<status, group>>
    BY <1>7 DEF LeaderReceives
  <2> QED BY <1>1, <2>1, ListingIgnores
<1> QED BY <1>3, <1>4, <1>5, <1>6, <1>7

\* Somebody that does not lead sends an answer to a petition.
LEMMA ListingAnswers ==
    ASSUME ListingInvariant, GroupInvariant, NEW n \in Node, status[n] = "chatting",
           inbox[n] # <<>>, NEW from \in Node, InMessage(n, Head(inbox[n]), from),
           NEW msg \in Messages, msg.type \in Answers,
           NEW else \in {"ignore", "exit"}, Handles(n, <<Send(from, msg, else)>>),
           UNCHANGED <<status, group, is_leader, faults>>
    PROVE  ListingInvariant'
<1> DEFINE task == Send(from, msg, else)
           A2 == ListingTasks(n)'
<1>1. /\ inbox' = [inbox EXCEPT ![n] = Tail(@)]
      /\ work' = [work EXCEPT ![n] = <<task>>]
      /\ status' = [status EXCEPT ![n] = status[n]]
      /\ group' = [group EXCEPT ![n] = group[n]]
      /\ InboxMoves(n) /\ Later /\ NobodyRests
  BY OfProcess DEF Handles, Do, InboxMoves, Later, Prompt, NobodyRests
<1>2. /\ NoPetition(work, inbox', from) /\ ~NoPetition(work, inbox, from)
      /\ status[from] \in {"joining", "chatting", "gone", "segfault"}
  BY <1>1, PetitionRead
<1>3. /\ task.task = "send" /\ task.to = from /\ task.msg = msg /\ task.else = else
  BY DEF Send
<1>4. task \in ProperTasks
  BY SendPlain, TasksApart DEF Answers
<1> HIDE DEF task
<1>5. \A x \in Node : InTask(n, task, x) => x = from
  BY <1>3 DEF InTask, Answers
<1>6. task \in A2
  BY <1>3, <1>4, TasksApart DEF ListingTasks, Answers
<1> HIDE DEF A2
<1>7. <<task>> \in Seq(A2)
  BY <1>6
<1>8. /\ PetitionInvariant'
      /\ \A x \in Node : x # from /\ NoPetition(work, inbox, x) =>
                             NoPetition(work', inbox', x)
  <2>1. status'[from] \notin {"out", "napping"}
    BY <1>2
  <2> QED BY <1>1, <1>2, <1>4, <1>5, <2>1, PetitionBegins
<1>9. Onward
  <2>1. ASSUME NEW x \in Node, Granted(x), ~Ended(x) PROVE NoPetition(work', inbox', x)
    <3>1. x # from /\ NoPetition(work, inbox, x)
      BY <1>2, <2>1 DEF Granted
    <3> QED BY <1>8, <3>1
  <2>2. \A x \in Node : is_leader[x] => is_leader'[x]
    OBVIOUS
  <2>3. ~Ended(n)
    BY DEF Ended
  <2> QED BY <1>1, <2>1, <2>2, <2>3, OnwardStep
<1>10. /\ \A x \in Addresses(group[n]) : Granted(x)'
       /\ (\E l \in Node : l = group[n].leader /\ Keeps(l, n)')
  BY <1>9, ListedGranted DEF Onward
<1> QED BY <1>1, <1>7, <1>8, <1>9, <1>10, ListingStep DEF A2

\* The leader by address is the one there was or whoever has the address.
LEMMA LeaderByAddress ==
    ASSUME NEW g \in Group, NEW x
    PROVE  LET h == set_leader_by_addr(g, x)
           IN  /\ Addresses(h) = Addresses(g)
               /\ h.leader = g.leader \/ h.leader = x
<1> DEFINE found == {i \in DOMAIN g.participants : g.participants[i].node = x}
           h == FlagLeaders(g, found)
<1>1. set_leader_by_addr(g, x) = h
  BY DEF set_leader_by_addr
<1>2. found \subseteq 1..Len(g.participants)
  BY GroupTypes
<1>3. \A i \in found : g.participants[i].node = x
  OBVIOUS
<1> HIDE DEF found
<1>4. Addresses(h) = Addresses(g)
  BY <1>2, FlagProperties
<1>5. h.leader = g.leader \/ \E i \in found : h.leader = g.participants[i].node
  <2>1. \A f : f \subseteq 1..Len(g.participants) =>
            \/ FlagLeaders(g, f).leader = g.leader
            \/ \E i \in f : FlagLeaders(g, f).leader = g.participants[i].node
    BY FlagProperties
  <2> QED BY <1>2, <2>1
<1> QED BY <1>1, <1>3, <1>4, <1>5

LEMMA ListingMemberReceives ==
    ASSUME ListingInvariant, GroupInvariant, NEW n \in Node, MemberReceives(n)
    PROVE  ListingInvariant'
<1> DEFINE m == Head(inbox[n])
           from == m.from
           msg == m.msg
<1>1. /\ status[n] = "chatting" /\ ~is_leader[n] /\ inbox[n] # <<>>
      /\ UNCHANGED <<is_leader, faults>>
  BY DEF MemberReceives
<1>2. from \in Node /\ msg \in Messages
  BY <1>1, MessageRead
<1>3. status = [status EXCEPT ![n] = "chatting"]
  BY <1>1, OfProcess
<1>4. CASE msg.type \in {"MESSAGE_BROADCAST", "HEARTBEAT", "STOP_ELECTION"}
  <2>1. Handles(n, <<>>) /\ UNCHANGED <<status, group>>
    BY <1>4 DEF MemberReceives
  <2> QED BY <1>1, <2>1, ListingIgnores
<1>5. CASE msg.type = "PARTICIPANT_UPDATE"
  <2> DEFINE g == process_participant_update(msg.nodes)
  <2>1. group' = [group EXCEPT ![n] = g] /\ Handles(n, <<>>) /\ UNCHANGED status
    BY <1>5 DEF MemberReceives
  <2>2. /\ \A x \in Addresses(g) : x \in Node /\ Granted(x)
        /\ g.leader \in Node /\ Keeps(g.leader, n)
    BY <1>1, <1>5, ToldList
  <2>3. /\ inbox' = [inbox EXCEPT ![n] = Tail(@)] /\ Do(n, <<>>)
        /\ status' = [status EXCEPT ![n] = "chatting"]
    BY <1>3, <2>1 DEF Handles
  <2> HIDE DEF g
  <2> QED BY <1>1, <2>1, <2>2, <2>3, ListingRegroups
<1>6. CASE msg.type = "ADD_ME" /\ election[n].in
  <2> DEFINE no == Plain("JOIN_FAILURE")
  <2>1. Handles(n, <<Send(from, no, "ignore")>>) /\ UNCHANGED <<status, group>>
    BY <1>6 DEF MemberReceives
  <2>2. no \in Messages /\ no.type \in Answers /\ InMessage(n, m, from)
    BY <1>6, PlainMessages DEF Plain, Answers, InMessage
  <2> HIDE DEF no, from
  <2> QED BY <1>1, <1>2, <2>1, <2>2, ListingAnswers
<1>7. CASE msg.type = "ADD_ME" /\ ~election[n].in
  <2> DEFINE id == LeaderId(group[n].leader)
  <2>1. Handles(n, <<Send(from, id, "exit")>>) /\ UNCHANGED <<status, group>>
    BY <1>7 DEF MemberReceives
  <2>2. id \in Messages /\ id.type \in Answers /\ InMessage(n, m, from)
    <3>1. group[n].leader \in Node
      BY <1>1, KnowsLeader
    <3> QED BY <1>7, <3>1, OtherMessages DEF LeaderId, Answers, InMessage
  <2> HIDE DEF id, from
  <2> QED BY <1>1, <1>2, <2>1, <2>2, ListingAnswers
<1>8. CASE msg.type = "START_ELECTION"
  <2>1. RespondToElection(n, from) /\ UNCHANGED group
    BY <1>8 DEF MemberReceives
  <2> QED BY <1>1, <1>2, <2>1, ListingResponds
<1>9. CASE msg.type = "ELECTION_VICTORY"
  <2> DEFINE g == group[n]
             h == set_leader_by_addr(g, from)
  <2>1. group' = [group EXCEPT ![n] = h] /\ Handles(n, <<>>) /\ UNCHANGED status
    BY <1>9 DEF MemberReceives
  <2>2. g \in Group
    BY OfProcess
  <2>3. /\ \A x \in Addresses(g) : x \in Node /\ Granted(x)
        /\ g.leader \in Node /\ Keeps(g.leader, n)
    BY <1>1, ListedGranted
  <2>4. Keeps(from, n)
    BY <1>1, <1>9, MessageRead
  <2>5. Addresses(h) = Addresses(g) /\ (h.leader = g.leader \/ h.leader = from)
    BY <2>2, LeaderByAddress
  <2> HIDE DEF h, g, from
  <2>6. /\ inbox' = [inbox EXCEPT ![n] = Tail(@)] /\ Do(n, <<>>)
        /\ status' = [status EXCEPT ![n] = "chatting"]
    BY <1>3, <2>1 DEF Handles
  <2>7. /\ \A x \in Addresses(h) : x \in Node /\ Granted(x)
        /\ h.leader \in Node /\ Keeps(h.leader, n)
    BY <1>2, <2>3, <2>4, <2>5
  <2> QED BY <1>1, <2>1, <2>6, <2>7, ListingRegroups
<1>10. CASE msg.type \notin {"MESSAGE_BROADCAST", "PARTICIPANT_UPDATE", "ADD_ME",
                             "HEARTBEAT", "START_ELECTION", "STOP_ELECTION",
                             "ELECTION_VICTORY"}
  <2>1. /\ End(n, "gone") /\ inbox' = [inbox EXCEPT ![n] = <<>>]
        /\ UNCHANGED group /\ n \in Running
    BY <1>1, <1>10 DEF MemberReceives, Running
  <2> QED BY <1>1, <2>1, ListingLast
<1> QED BY <1>4, <1>5, <1>6, <1>7, <1>8, <1>9, <1>10

-----------------------------------------------------------------------------
(* Victory, time and the beginning *)

\* Whoever wins takes over the list it has: that of the leader it followed.
LEMMA ListingVictory ==
    ASSUME ListingInvariant, GroupInvariant, NEW n \in Node, DeclareVictory(n)
    PROVE  ListingInvariant'
<1> DEFINE g == group[n]
           h == set_leader_by_nickname(g, Nick[n])
           victory == Plain("ELECTION_VICTORY")
           first == leader_broadcast_message(h, victory)
           tasks == first \o <<Then("announce")>>
           A2 == ListingTasks(n)'
<1>1. /\ status[n] = "chatting" /\ inbox' = inbox
      /\ group' = [group EXCEPT ![n] = h]
      /\ is_leader' = [is_leader EXCEPT ![n] = TRUE]
      /\ Do(n, tasks) /\ UNCHANGED <<status, faults>>
  BY DEF DeclareVictory, Wins
<1>2. g \in Group /\ Distinct(g) /\ n \in Addresses(g)
  BY <1>1, OfProcess, KnowsLeader
<1>3. /\ h \in Group /\ Addresses(h) = Addresses(g) /\ h.leader = n
  BY <1>2, VictoryProperties
<1>4. /\ status' = [status EXCEPT ![n] = "chatting"]
      /\ work' = [work EXCEPT ![n] = tasks] /\ InboxMoves(n) /\ Later
  BY <1>1, OfProcess DEF Do, InboxMoves, Later, Prompt
<1>5. group'[n] = h /\ is_leader'[n] /\ \A x \in Node : is_leader[x] => is_leader'[x]
  <2>1. CoreTypes
    BY Parts DEF Together
  <2>2. group'[n] = h
    BY <1>1, <2>1 DEF CoreTypes
  <2>3. is_leader'[n] /\ \A x \in Node : is_leader[x] => is_leader'[x]
    BY <1>1, <2>1 DEF CoreTypes
  <2> QED BY <2>2, <2>3
<1>6. victory \in Messages /\ victory.type = "ELECTION_VICTORY"
  BY PlainMessages DEF Plain
<1>7. \A x \in Addresses(g) : x \in Node /\ Granted(x)
  BY ListedGranted
<1> HIDE DEF g, h, victory
<1>8. \A x \in Addresses(h) : Keeps(n, x)'
  BY <1>5 DEF Keeps
<1>9. first \in Seq(PlainTasks) /\ first \in Seq(A2)
  BY <1>3, <1>6, <1>8, PlainListed DEF Answers
<1>10. Then("announce") \in PlainTasks /\ Then("announce") \in A2
  BY ThenSafe DEF SafeTasks, ListingTasks, PlainTasks, Then
<1> HIDE DEF first, A2
<1>11. tasks \in Seq(PlainTasks) /\ tasks \in Seq(A2)
  BY <1>9, <1>10
<1> HIDE DEF tasks
<1>12. PetitionInvariant' /\ PetitionsLost
  <2>1. PetitionInvariant /\ NobodyRests
    BY <1>1 DEF ListingInvariant, NobodyRests
  <2> QED BY <1>4, <1>11, <2>1, PetitionMoves
<1>13. Onward
  <2>1. \A x \in Node : Granted(x) /\ ~Ended(x) => NoPetition(work', inbox', x)
    BY <1>12, GrantedHas
  <2>2. ~Ended(n)
    BY <1>1 DEF Ended
  <2> QED BY <1>1, <1>3, <1>4, <1>5, <2>1, <2>2, OnwardStep DEF g
<1>14. (\A x \in Addresses(h) : Granted(x)') /\ (\E l \in Node : l = h.leader /\ Keeps(l, n)')
  BY <1>2, <1>3, <1>7, <1>8, <1>13 DEF Onward
<1> QED BY <1>1, <1>4, <1>11, <1>12, <1>13, <1>14, ListingStep DEF A2

LEMMA ListingStays ==
    ASSUME ListingInvariant,
           UNCHANGED <<status, group, is_leader, work, inbox, faults>>
    PROVE  ListingInvariant'
<1>1. \A n, x \in Node : Sends(work', n, x) = Sends(work, n, x)
                         /\ Waits(inbox', n, x) = Waits(inbox, n, x)
  OBVIOUS
<1>2. PetitionInvariant'
  BY DEF ListingInvariant, PetitionInvariant, OnePetition, NoPetition
<1>3. \A x : (Granted(x) <=> Granted(x)')
  BY DEF Granted, Ended
<1>4. \A n, x : (Keeps(n, x) <=> Keeps(n, x)')
  BY DEF Keeps, Ended, Prompt
<1>5. Onward
  BY <1>3, <1>4 DEF Onward
<1>6. ASSUME NEW n \in Node
      PROVE  /\ work'[n] \in Seq(ListingTasks(n)')
             /\ inbox'[n] \in Seq(ListingMessages(n)')
  <2>1. work[n] \in Seq(ListingTasks(n)) /\ inbox[n] \in Seq(ListingMessages(n))
    BY DEF ListingInvariant
  <2> QED BY <1>5, <2>1, OnwardSequences
<1>7. ASSUME NEW n \in Node
      PROVE  /\ \A x \in Addresses(group'[n]) : Granted(x)'
             /\ status'[n] = "chatting" => \A l : l = group[n].leader => Keeps(l, n)'
  <2>1. /\ \A x \in Addresses(group[n]) : Granted(x)
        /\ status[n] = "chatting" => Keeps(group[n].leader, n)
    BY DEF ListingInvariant
  <2> QED BY <1>3, <1>4, <2>1
<1> QED BY <1>2, <1>6, <1>7 DEF ListingInvariant

LEMMA ListingInit ==
    ASSUME ConstantsAssumption, Init
    PROVE  ListingInvariant
<1> DEFINE g == process_participant_update(Founders)
<1>1. /\ g.leader = Founders[1] /\ Founders[1] \in Node
      /\ \A i \in DOMAIN Founders : Founders[i] \in Addresses(g)
      /\ \A x \in Addresses(g) : \E i \in DOMAIN Founders : Founders[i] = x
      /\ \A i \in DOMAIN Founders : Founders[i] \in Node
  BY ProcessProperties DEF ConstantsAssumption
<1>2. \A n \in Node : work[n] = <<>> /\ inbox[n] = <<>>
  BY DEF Init
<1>3. \A x \in Node : NoPetition(work, inbox, x)
  BY <1>2 DEF NoPetition, Sends, Waits
<1>4. PetitionInvariant
  <2>1. \A n \in Node : DOMAIN inbox[n] = {}
    BY <1>2
  <2> QED BY <1>2, <1>3, <2>1 DEF PetitionInvariant, OnePetition, NoPetition
<1> HIDE DEF g
<1>5. ASSUME NEW n \in Node
      PROVE  /\ work[n] \in Seq(ListingTasks(n))
             /\ inbox[n] \in Seq(ListingMessages(n))
  <2> DEFINE T == ListingTasks(n)
             M == ListingMessages(n)
  <2> HIDE DEF T, M
  <2>1. <<>> \in Seq(T) /\ <<>> \in Seq(M)
    OBVIOUS
  <2> QED BY <1>2, <2>1 DEF T, M
<1>6. \A x \in Addresses(g) : Granted(x)
  <2>1. \A x \in Addresses(g) : x \in Node /\ Founding(x)
    BY <1>1 DEF Founding
  <2> QED BY <1>3, <2>1 DEF Granted, Init
<1>7. ASSUME NEW n \in Node
      PROVE  /\ \A x \in Addresses(group[n]) : Granted(x)
             /\ status[n] = "chatting" => Keeps(group[n].leader, n)
  <2>1. CASE Founding(n)
    <3>1. group[n] = g
      BY <2>1 DEF Init, g
    <3>2. n \in Addresses(g)
      BY <1>1, <2>1 DEF Founding
    <3>3. is_leader[Founders[1]] /\ group[Founders[1]] = g
      <4>1. 1 \in DOMAIN Founders
        BY DEF ConstantsAssumption
      <4>2. Founding(Founders[1])
        BY <4>1 DEF Founding
      <4> QED BY <1>1, <4>2 DEF Init, g
    <3> QED BY <1>1, <1>6, <3>1, <3>2, <3>3 DEF Keeps
  <2>2. CASE ~Founding(n)
    <3>1. group[n] = NoGroup /\ status[n] = "out"
      BY <2>2 DEF Init
    <3>2. Addresses(NoGroup) = {}
      BY DEF Addresses, NoGroup
    <3> QED BY <3>1, <3>2
  <2> QED BY <2>1, <2>2
<1> QED BY <1>4, <1>5, <1>7 DEF ListingInvariant

LEMMA ListingNext ==
    ASSUME GroupInvariant, ListingInvariant, [Next]_vars
    PROVE  ListingInvariant'
<1>1. ASSUME NEW n \in Node, NEW hint \in Node, Join(n, hint) PROVE ListingInvariant'
  BY <1>1, ListingJoin
<1>2. ASSUME NEW n \in Node, Wake(n) PROVE ListingInvariant'
  BY <1>2, ListingWake
<1>3. ASSUME NEW n \in Node, Type(n) PROVE ListingInvariant'
  BY <1>3, ListingType
<1>4. ASSUME NEW n \in Node, Receive(n) PROVE ListingInvariant'
  BY <1>4, ListingReply, ListingLeaderReceives, ListingMemberReceives DEF Receive
<1>5. ASSUME NEW n \in Node, Timers(n) PROVE ListingInvariant'
  BY <1>5, ListingHeartbeat, ListingVictory, ListingRestarts DEF Timers
<1>6. ASSUME NEW n \in Node, Work(n) PROVE ListingInvariant'
  BY <1>6, ListingAcknowledged, ListingTimesOut, ListingSmall, ListingSettle,
     ListingAnnounce DEF Work
<1>7. ASSUME NEW n \in Node, Crash(n) PROVE ListingInvariant'
  BY <1>7, ListingCrash
<1>8. ASSUME Tick \/ UNCHANGED vars PROVE ListingInvariant'
  BY <1>8, ListingStays DEF Tick, vars
<1> QED BY <1>1, <1>2, <1>3, <1>4, <1>5, <1>6, <1>7, <1>8 DEF Next

-----------------------------------------------------------------------------
(* Theorems *)

(***************************************************************************)
(* A petition is granted once, and whoever a leader tells of its list or   *)
(* of its victory is in that list or has ended: ListingInvariant is        *)
(* inductive, given GroupInvariant.                                        *)
(***************************************************************************)
THEOREM ListingInductive == Spec => []ListingInvariant
<1>1. Init => ListingInvariant
  BY ListingInit, ConstantsAssumption
<1>2. GroupInvariant /\ ListingInvariant /\ [Next]_vars => ListingInvariant'
  BY ListingNext
<1> QED BY <1>1, <1>2, GroupInductive, PTL DEF Spec

(***************************************************************************)
(* Everybody that lives is in the list of the leader it follows, through   *)
(* crashes, elections and petitions that go from one process to another,   *)
(* unless somebody was too late with an answer.                            *)
(***************************************************************************)
THEOREM LiveAlwaysListed == Spec => []LiveAreListed
<1>1. ASSUME ListingInvariant PROVE LiveAreListed
  <2>1. SUFFICES ASSUME Prompt, NEW n \in Leaders, NEW m \in Chatting,
                        group[m].leader = n
                 PROVE  m \in Addresses(group[n])
    BY DEF LiveAreListed
  <2>2. m \in Node /\ status[m] = "chatting"
    BY DEF Chatting
  <2>3. Keeps(n, m)
    BY <1>1, <2>1, <2>2 DEF ListingInvariant
  <2> QED BY <2>1, <2>2, <2>3 DEF Keeps, Ended
<1> QED BY <1>1, ListingInductive, PTL
=============================================================================
