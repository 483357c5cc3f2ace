------------------------------ MODULE ListProofs ------------------------------
(***************************************************************************)
(* What the operators on lists do that several components use: taking out  *)
(* one element (the list of a map, a queue of datagrams) and selecting     *)
(* some (the participants a broadcast goes to).                            *)
(***************************************************************************)
EXTENDS Lists, SequencesExt, SequenceTheorems, WellFoundedInduction, TLAPS

-----------------------------------------------------------------------------
(* The rest of a list, when its first elements have been dropped. *)

LEMMA SuffixProperties ==
    ASSUME NEW S, NEW s \in Seq(S), NEW k \in 0..Len(s)
    PROVE  /\ SubSeq(s, k + 1, Len(s)) \in Seq(S)
           /\ Len(SubSeq(s, k + 1, Len(s))) = Len(s) - k
           /\ \A i \in 1..Len(s) - k :
                  k + i \in 1..Len(s) /\ SubSeq(s, k + 1, Len(s))[i] = s[k + i]
<1>1. Len(s) \in Nat /\ \A j \in 1..Len(s) : s[j] \in S
  BY ElementOfSeq, LenProperties
<1>2. \A j \in k + 1..Len(s) : s[j] \in S
  BY <1>1
<1>3. /\ SubSeq(s, k + 1, Len(s)) \in Seq(S)
      /\ Len(SubSeq(s, k + 1, Len(s))) =
             IF k + 1 <= Len(s) THEN Len(s) - (k + 1) + 1 ELSE 0
      /\ \A i \in 1..Len(s) - (k + 1) + 1 :
             SubSeq(s, k + 1, Len(s))[i] = s[k + 1 + i - 1]
  BY <1>1, <1>2, SubSeqProperties
<1> QED BY <1>1, <1>3

-----------------------------------------------------------------------------
(* RemoveAt *)

\* RemoveAt takes out one element and keeps the others in their order.
LEMMA RemoveAtProperties ==
    ASSUME NEW S, NEW s \in Seq(S), NEW i \in 1..Len(s)
    PROVE  /\ RemoveAt(s, i) \in Seq(S)
           /\ Len(RemoveAt(s, i)) = Len(s) - 1
           /\ \A j \in 1..Len(s) - 1 :
                  RemoveAt(s, i)[j] = IF j < i THEN s[j] ELSE s[j + 1]
<1> DEFINE l == SubSeq(s, 1, i - 1)
           r == SubSeq(s, i + 1, Len(s))
<1>1. Len(s) \in Nat /\ \A j \in 1..Len(s) : s[j] \in S
  BY ElementOfSeq, LenProperties
<1>2. /\ l \in Seq(S)
      /\ Len(l) = i - 1
      /\ \A j \in 1..i - 1 : l[j] = s[j]
  <2>1. \A j \in 1..i - 1 : s[j] \in S
    BY <1>1
  <2> HIDE DEF l
  <2>2. /\ l \in Seq(S)
        /\ Len(l) = IF 1 <= i - 1 THEN i - 1 - 1 + 1 ELSE 0
        /\ \A j \in 1..i - 1 - 1 + 1 : l[j] = s[1 + j - 1]
    BY <1>1, <2>1, SubSeqProperties DEF l
  <2> QED BY <1>1, <2>2
<1>3. /\ r \in Seq(S)
      /\ Len(r) = Len(s) - i
      /\ \A j \in 1..Len(s) - i : r[j] = s[i + j]
  <2>1. \A j \in i + 1..Len(s) : s[j] \in S
    BY <1>1
  <2> HIDE DEF r
  <2>2. /\ r \in Seq(S)
        /\ Len(r) = IF i + 1 <= Len(s) THEN Len(s) - (i + 1) + 1 ELSE 0
        /\ \A j \in 1..Len(s) - (i + 1) + 1 : r[j] = s[i + 1 + j - 1]
    BY <1>1, <2>1, SubSeqProperties DEF r
  <2> QED BY <1>1, <2>2
<1>4. RemoveAt(s, i) = l \o r
  BY DEF RemoveAt
<1> HIDE DEF l, r
<1>5. /\ l \o r \in Seq(S)
      /\ Len(l \o r) = Len(l) + Len(r)
      /\ \A j \in 1..Len(l) + Len(r) :
             (l \o r)[j] = IF j <= Len(l) THEN l[j] ELSE r[j - Len(l)]
  BY <1>2, <1>3, ConcatProperties
<1>6. ASSUME NEW j \in 1..Len(s) - 1
      PROVE  (l \o r)[j] = IF j < i THEN s[j] ELSE s[j + 1]
  <2>1. (l \o r)[j] = IF j <= i - 1 THEN l[j] ELSE r[j - (i - 1)]
    BY <1>1, <1>2, <1>3, <1>5, SMTT(20)
  <2>2. CASE j < i
    BY <1>1, <1>2, <2>1, <2>2
  <2>3. CASE i <= j
    <3>1. j - (i - 1) \in 1..Len(s) - i
      BY <1>1, <2>3
    <3>2. r[j - (i - 1)] = s[i + (j - (i - 1))]
      BY <1>3, <3>1
    <3> QED BY <1>1, <2>1, <2>3, <3>2
  <2>4. j < i \/ i <= j
    BY <1>1
  <2> QED BY <2>2, <2>3, <2>4
<1> QED BY <1>1, <1>2, <1>3, <1>4, <1>5, <1>6

-----------------------------------------------------------------------------
(* Selected *)

LessThan == {p \in Nat \X Nat : p[1] < p[2]}

\* Induction on the natural numbers, as the existence of a smallest element.
LEMMA Smallest ==
    ASSUME NEW T, T \subseteq Nat, T # {}
    PROVE  \E x \in T : \A y \in T : x <= y
<1>1. IsWellFoundedOn(OpToRel(<, Nat), Nat)
  BY NatLessThanWellFounded
<1>2. OpToRel(<, Nat) = LessThan
  BY DEF OpToRel, LessThan
<1>3. IsWellFoundedOn(LessThan, Nat)
  BY <1>1, <1>2, Zenon
<1>4. \E x \in T : \A y \in T : ~(<<y, x>> \in LessThan)
  BY <1>3, WFMin
<1>5. \A x, y \in Nat : <<y, x>> \in LessThan <=> y < x
  BY DEF LessThan
<1>6. \A x, y \in Nat : ~(y < x) => x <= y
  OBVIOUS
<1> QED BY <1>4, <1>5, <1>6

\* One turn of Selected's recursion, and f after n turns of it.
Turn(s, places, f, k) ==
    IF k = 0 THEN <<>>
    ELSE IF k \in places THEN Append(f[k - 1], s[k])
    ELSE f[k - 1]

Turns(s, places, f, n) == f = [k \in 0..n |-> Turn(s, places, f, k)]

LEMMA TurnsExist ==
    ASSUME NEW s, NEW places, NEW n \in Nat
    PROVE  \E f : Turns(s, places, f, n)
<1> DEFINE Bad == {m \in Nat : ~\E f : Turns(s, places, f, m)}
<1>1. SUFFICES ASSUME Bad # {} PROVE FALSE
  BY DEF Bad
<1>2. PICK m \in Bad : \A y \in Bad : m <= y
  BY <1>1, Smallest
<1>3. m \in Nat /\ ~\E f : Turns(s, places, f, m)
  BY <1>2
<1>4. CASE m = 0
  <2> DEFINE f == [k \in 0..0 |-> <<>>]
  <2>1. Turns(s, places, f, 0)
    BY DEF Turns, Turn
  <2> QED BY <1>3, <1>4, <2>1
<1>5. CASE m # 0
  <2>1. m - 1 \in Nat /\ m - 1 \notin Bad
    BY <1>2, <1>3, <1>5
  <2>2. PICK f : Turns(s, places, f, m - 1)
    BY <2>1
  <2> DEFINE g == [k \in 0..m |-> IF k < m THEN f[k] ELSE Turn(s, places, f, m)]
  <2>3. ASSUME NEW k \in 0..m PROVE g[k] = Turn(s, places, g, k)
    <3>1. k # 0 => k - 1 \in 0..m /\ k - 1 < m
      BY <1>3
    <3>2. k # 0 => g[k - 1] = f[k - 1]
      BY <3>1
    <3>3. Turn(s, places, g, k) = Turn(s, places, f, k)
      BY <3>2 DEF Turn
    <3>4. CASE k = m
      BY <1>3, <3>3, <3>4
    <3>5. CASE k # m
      <4>1. k < m /\ k \in 0..m - 1
        BY <1>3, <3>5
      <4>2. f[k] = Turn(s, places, f, k)
        BY <2>2, <4>1 DEF Turns
      <4> QED BY <3>3, <4>1, <4>2
    <3> QED BY <3>4, <3>5
  <2>4. g = [k \in 0..m |-> Turn(s, places, g, k)]
    BY <2>3
  <2> QED BY <1>3, <2>4 DEF Turns
<1> QED BY <1>4, <1>5

\* "at" gives for each element of r its place in s.
Selects(r, at, s, places, n) ==
    /\ at \in [1..Len(r) -> 1..n]
    /\ \A i \in 1..Len(r) : at[i] \in places /\ r[i] = s[at[i]]
    /\ \A i, j \in 1..Len(r) : i < j => at[i] < at[j]
    /\ \A p \in 1..n : p \in places => \E i \in 1..Len(r) : at[i] = p

\* After each turn, the elements selected are those at the places so far.
LEMMA TurnsSelect ==
    ASSUME NEW S, NEW s \in Seq(S), NEW places, NEW f,
           Turns(s, places, f, Len(s)), NEW n \in 0..Len(s)
    PROVE  f[n] \in Seq(S) /\ \E at : Selects(f[n], at, s, places, n)
<1> DEFINE Good(m) == f[m] \in Seq(S) /\ \E at : Selects(f[m], at, s, places, m)
           Bad == {m \in 0..Len(s) : ~Good(m)}
<1>0. Len(s) \in Nat /\ \A i \in 1..Len(s) : s[i] \in S
  OBVIOUS
<1>1. SUFFICES ASSUME Bad # {} PROVE FALSE
  BY DEF Good
<1> HIDE DEF Good
<1>2. PICK m \in Bad : \A y \in Bad : m <= y
  <2>1. Bad \subseteq Nat
    BY <1>0
  <2> QED BY <1>1, <2>1, Smallest
<1>3. m \in 0..Len(s) /\ f[m] = Turn(s, places, f, m) /\ ~Good(m)
  BY <1>2 DEF Turns
<1>4. CASE m = 0
  <2>1. f[m] = <<>>
    BY <1>3, <1>4 DEF Turn
  <2> DEFINE at == [i \in 1..0 |-> i]
  <2>2. Selects(f[m], at, s, places, m)
    BY <1>4, <2>1 DEF Selects
  <2> QED BY <1>3, <2>1, <2>2 DEF Good
<1>5. CASE m # 0
  <2> DEFINE r == f[m - 1]
  <2>1. m \in 1..Len(s) /\ m - 1 \in 0..Len(s) /\ m - 1 \notin Bad
    BY <1>0, <1>2, <1>3, <1>5
  <2>2. r \in Seq(S) /\ \E at : Selects(r, at, s, places, m - 1)
    BY <2>1 DEF Good
  <2>3. PICK at : Selects(r, at, s, places, m - 1)
    BY <2>2
  <2>4. f[m] = IF m \in places THEN Append(r, s[m]) ELSE r
    BY <1>3, <1>5 DEF Turn
  <2> HIDE DEF r
  <2>5. CASE m \notin places
    <3>1. Selects(r, at, s, places, m)
      BY <2>1, <2>2, <2>3, <2>5, <1>0 DEF Selects
    <3> QED BY <1>3, <2>2, <2>4, <2>5, <3>1 DEF Good
  <2>6. CASE m \in places
    <3> DEFINE q == Append(r, s[m])
               l == Len(r)
               to == [i \in 1..l + 1 |-> IF i = l + 1 THEN m ELSE at[i]]
    <3>1. /\ q \in Seq(S) /\ Len(q) = l + 1 /\ l \in Nat
          /\ q[l + 1] = s[m]
          /\ \A i \in 1..l : q[i] = r[i]
      BY <1>0, <2>1, <2>2
    <3> HIDE DEF q
    <3>2. to \in [1..Len(q) -> 1..m]
      BY <2>1, <2>3, <3>1, <1>0 DEF Selects
    <3>3. \A i \in 1..Len(q) : to[i] \in places /\ q[i] = s[to[i]]
      BY <2>3, <2>6, <3>1 DEF Selects
    <3>4. \A i, j \in 1..Len(q) : i < j => to[i] < to[j]
      <4>1. SUFFICES ASSUME NEW i \in 1..Len(q), NEW j \in 1..Len(q), i < j
                     PROVE  to[i] < to[j]
        OBVIOUS
      <4>2. i \in 1..l /\ to[i] = at[i] /\ at[i] \in 1..m - 1
        BY <2>3, <3>1, <4>1 DEF Selects
      <4>3. CASE j = l + 1
        BY <1>0, <2>1, <3>1, <4>2, <4>3
      <4>4. CASE j # l + 1
        <5>1. j \in 1..l /\ to[j] = at[j]
          BY <3>1, <4>4
        <5> QED BY <2>3, <4>1, <4>2, <5>1 DEF Selects
      <4> QED BY <4>3, <4>4
    <3>5. \A p \in 1..m : p \in places => \E i \in 1..Len(q) : to[i] = p
      <4>1. SUFFICES ASSUME NEW p \in 1..m, p \in places
                     PROVE  \E i \in 1..Len(q) : to[i] = p
        OBVIOUS
      <4>2. CASE p = m
        BY <3>1, <4>2
      <4>3. CASE p # m
        <5>1. p \in 1..m - 1
          BY <2>1, <4>3, <1>0
        <5>2. PICK i \in 1..l : at[i] = p
          BY <2>3, <4>1, <5>1 DEF Selects
        <5>3. i \in 1..Len(q) /\ to[i] = p
          BY <3>1, <5>2
        <5> QED BY <5>3
      <4> QED BY <4>2, <4>3
    <3> HIDE DEF to
    <3>6. Selects(q, to, s, places, m)
      BY <3>2, <3>3, <3>4, <3>5 DEF Selects
    <3> QED BY <1>3, <2>4, <2>6, <3>1, <3>6 DEF q, Good
  <2> QED BY <2>5, <2>6
<1> QED BY <1>4, <1>5 DEF Good

\* Selected keeps the order, takes nothing else and leaves nothing out.
LEMMA SelectedProperties ==
    ASSUME NEW S, NEW s \in Seq(S), NEW places
    PROVE  /\ Selected(s, places) \in Seq(S)
           /\ \E at : Selects(Selected(s, places), at, s, places, Len(s))
<1> DEFINE F == CHOOSE f : f = [k \in 0..Len(s) |-> Turn(s, places, f, k)]
<1>1. Len(s) \in Nat
  OBVIOUS
<1>2. \E f : f = [k \in 0..Len(s) |-> Turn(s, places, f, k)]
  BY <1>1, TurnsExist DEF Turns
<1>3. Turns(s, places, F, Len(s))
  BY <1>2 DEF Turns
<1>4. Selected(s, places) = F[Len(s)]
  BY DEF Selected, Turn
<1> HIDE DEF F
<1> QED BY <1>1, <1>3, <1>4, TurnsSelect
=============================================================================
