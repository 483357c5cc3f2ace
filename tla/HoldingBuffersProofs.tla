------------------------- MODULE HoldingBuffersProofs -------------------------
(***************************************************************************)
(* Theorems about HoldingBuffers, for any keys, addresses and retries.     *)
(***************************************************************************)
EXTENDS HoldingBuffers, ListProofs

USE BuffersAssumption

\* The list, the heap and the iterator agree: this is inductive as it stands.
IndInv == TypeOK /\ WellFormed /\ NoDangling

-----------------------------------------------------------------------------
(* Addresses in the list *)

LEMMA PlaceProperties ==
    ASSUME TypeOK, WellFormed, NEW c \in Allocated
    PROVE  /\ c \in Cell /\ c # NULL
           /\ Len(pairs) \in Nat /\ DOMAIN pairs = 1..Len(pairs)
           /\ Place(c) \in 1..Len(pairs)
           /\ pairs[Place(c)] = c
           /\ \A i \in 1..Len(pairs) : pairs[i] = c => i = Place(c)
<1>1. Len(pairs) \in Nat /\ DOMAIN pairs = 1..Len(pairs) /\ c \in Cell
  BY DEF TypeOK
<1>2. \E i \in DOMAIN pairs : pairs[i] = c
  BY DEF WellFormed, Range
<1>3. Place(c) \in DOMAIN pairs /\ pairs[Place(c)] = c
  BY <1>2 DEF Place
<1> QED BY <1>1, <1>3 DEF WellFormed

LEMMA InList ==
    ASSUME TypeOK, WellFormed, NEW i \in 1..Len(pairs)
    PROVE  pairs[i] \in Allocated
<1>1. i \in DOMAIN pairs
  BY DEF TypeOK
<1> QED BY <1>1 DEF WellFormed, Range

LEMMA AfterProperties ==
    ASSUME TypeOK, WellFormed, NEW c \in Allocated
    PROVE  After(c) \in (Allocated \ {c}) \cup {NULL}
<1>1. CASE Place(c) < Len(pairs)
  <2>1. /\ Place(c) + 1 \in 1..Len(pairs) /\ Place(c) + 1 # Place(c)
        /\ After(c) = pairs[Place(c) + 1]
    BY <1>1, PlaceProperties DEF After
  <2> QED BY <2>1, InList, PlaceProperties
<1>2. CASE ~(Place(c) < Len(pairs))
  BY <1>2 DEF After
<1> QED BY <1>1, <1>2

\* find_pair_by_key finds the pair with the key if there is one.
LEMMA FindProperties ==
    ASSUME TypeOK, WellFormed, NEW k \in Key
    PROVE  \/ /\ find_pair_by_key(k) = NULL
              /\ \A c \in Allocated : pair[c].key # k
           \/ /\ find_pair_by_key(k) \in Allocated
              /\ pair[find_pair_by_key(k)].key = k
<1> DEFINE found == {i \in DOMAIN pairs : pair[pairs[i]].key = k}
<1>1. Len(pairs) \in Nat /\ DOMAIN pairs = 1..Len(pairs)
  BY DEF TypeOK
<1>2. CASE found = {}
  <2>1. find_pair_by_key(k) = NULL
    BY <1>2 DEF find_pair_by_key
  <2>2. ASSUME NEW c \in Allocated PROVE pair[c].key # k
    BY <1>1, <1>2, PlaceProperties
  <2> QED BY <2>1, <2>2
<1>3. CASE found # {}
  <2>1. PICK i \in found : TRUE
    BY <1>3
  <2>2. i \in 1..Len(pairs) /\ pair[pairs[i]].key = k
    BY <1>1, <2>1
  <2>3. \A j \in found : j = i
    <3>1. SUFFICES ASSUME NEW j \in found PROVE j = i
      OBVIOUS
    <3>2. pairs[i] \in Allocated /\ pairs[j] \in Allocated
      BY <1>1, <2>2, InList
    <3>3. pairs[i] = pairs[j]
      BY <2>2, <3>2 DEF WellFormed
    <3> QED BY <1>1, <2>2, <3>3 DEF WellFormed
  <2>4. \A j \in found : i <= j
    BY <1>1, <2>2, <2>3
  <2>5. (CHOOSE l \in found : \A j \in found : l <= j) = i
    BY <2>1, <2>3, <2>4
  <2>6. find_pair_by_key(k) = pairs[i]
    BY <1>3, <2>5 DEF find_pair_by_key
  <2> QED BY <2>2, <2>6, InList
<1> QED BY <1>2, <1>3

\* Taking out the pair at c leaves a list and a heap that agree.
LEMMA RemoveProperties ==
    ASSUME TypeOK, WellFormed, NEW c \in Allocated,
           pairs' = RemoveAt(pairs, Place(c)),
           pair' = [a \in Allocated \ {c} |-> pair[a]],
           size' = size - 1
    PROVE  /\ pairs' \in Seq(Cell)
           /\ Allocated' = Allocated \ {c}
           /\ pair' \in [Allocated' -> Pair]
           /\ size' \in Int
           /\ WellFormed'
<1> DEFINE p == Place(c)
           n == Len(pairs)
<1>1. /\ pairs \in Seq(Cell) /\ n \in Nat /\ p \in 1..n /\ pairs[p] = c
      /\ DOMAIN pairs = 1..n
  BY PlaceProperties DEF TypeOK
<1>2. /\ pairs' \in Seq(Cell) /\ Len(pairs') = n - 1
      /\ \A j \in 1..n - 1 :
             pairs'[j] = IF j < p THEN pairs[j] ELSE pairs[j + 1]
  BY <1>1, RemoveAtProperties
<1>3. Allocated' = Allocated \ {c} /\ pair' \in [Allocated' -> Pair] /\ size' \in Int
  BY DEF Allocated, TypeOK
<1>4. DOMAIN pairs' = 1..n - 1
  BY <1>1, <1>2
<1> DEFINE old(j) == IF j < p THEN j ELSE j + 1
<1>5. \A j \in 1..n - 1 :
          /\ old(j) \in 1..n /\ old(j) # p
          /\ pairs'[j] = pairs[old(j)]
  BY <1>1, <1>2
<1>6. \A i, j \in 1..n - 1 : old(i) = old(j) => i = j
  BY <1>1
<1>7. \A i \in 1..n : i # p => \E j \in 1..n - 1 : old(j) = i
  <2>1. SUFFICES ASSUME NEW i \in 1..n, i # p
                 PROVE  \E j \in 1..n - 1 : old(j) = i
    OBVIOUS
  <2>2. CASE i < p
    BY <1>1, <2>2
  <2>3. CASE i > p
    <3>1. i - 1 \in 1..n - 1 /\ old(i - 1) = i
      BY <1>1, <2>3
    <3> QED BY <3>1
  <2> QED BY <1>1, <2>1, <2>2, <2>3
<1> HIDE DEF old, p, n
<1>8. \A i, j \in 1..n : pairs[i] = pairs[j] => i = j
  BY <1>1 DEF WellFormed
<1>9. \A i, j \in DOMAIN pairs' : pairs'[i] = pairs'[j] => i = j
  BY <1>4, <1>5, <1>6, <1>8
<1>10. Range(pairs') = Allocated'
  <2>1. ASSUME NEW j \in DOMAIN pairs' PROVE pairs'[j] \in Allocated \ {c}
    <3>1. pairs'[j] = pairs[old(j)] /\ old(j) \in 1..n /\ old(j) # p
      BY <1>4, <1>5
    <3>2. pairs[old(j)] \in Allocated
      BY <3>1, InList DEF n
    <3>3. pairs[old(j)] # c
      BY <1>1, <1>8, <3>1
    <3> QED BY <3>1, <3>2, <3>3
  <2>2. ASSUME NEW a \in Allocated \ {c}
        PROVE  \E j \in DOMAIN pairs' : pairs'[j] = a
    <3>1. PICK i \in 1..n : pairs[i] = a
      BY PlaceProperties DEF n
    <3>2. i # p
      BY <1>1, <3>1
    <3> QED BY <1>4, <1>5, <1>7, <3>1, <3>2
  <2> QED BY <1>3, <2>1, <2>2 DEF Range
<1>11. \A a, b \in Allocated' : pair'[a].key = pair'[b].key => a = b
  BY <1>3 DEF WellFormed
<1>12. size' = Len(pairs')
  BY <1>1, <1>2 DEF WellFormed, n
<1> QED BY <1>2, <1>3, <1>9, <1>10, <1>11, <1>12 DEF WellFormed

\* A new pair in front of the list under a key that is not there.
LEMMA InsertProperties ==
    ASSUME TypeOK, WellFormed, NEW new \in Pair, Insert(new),
           \A c \in Allocated : pair[c].key # new.key
    PROVE  /\ pairs' \in Seq(Cell)
           /\ Allocated' \subseteq Cell
           /\ pair' \in [Allocated' -> Pair]
           /\ size' \in Int
           /\ WellFormed'
<1>1. CASE UNCHANGED <<pairs, pair, size>>
  BY <1>1 DEF TypeOK, WellFormed, Allocated, Iterator
<1>2. ASSUME NEW c \in Cell \ Allocated,
             pairs' = <<c>> \o pairs,
             pair' = [a \in Allocated \cup {c} |-> IF a = c THEN new ELSE pair[a]],
             size' = size + 1
      PROVE  /\ pairs' \in Seq(Cell)
             /\ Allocated' \subseteq Cell
             /\ pair' \in [Allocated' -> Pair]
             /\ size' \in Int
             /\ WellFormed'
  <2>1. /\ pairs \in Seq(Cell) /\ Len(pairs) \in Nat
        /\ DOMAIN pairs = 1..Len(pairs)
    BY DEF TypeOK
  <2>2. /\ pairs' \in Seq(Cell) /\ Len(pairs') = Len(pairs) + 1
        /\ DOMAIN pairs' = 1..Len(pairs) + 1
        /\ pairs'[1] = c
        /\ \A j \in 2..Len(pairs) + 1 : pairs'[j] = pairs[j - 1]
    BY <1>2, <2>1
  <2>3. /\ Allocated' = Allocated \cup {c} /\ Allocated' \subseteq Cell
        /\ pair' \in [Allocated' -> Pair] /\ size' \in Int
        /\ pair'[c] = new
        /\ \A a \in Allocated : pair'[a] = pair[a]
    BY <1>2 DEF Allocated, TypeOK
  <2>4. \A i \in 1..Len(pairs) : pairs[i] \in Allocated /\ pairs[i] # c
    BY InList
  <2>5. \A i, j \in DOMAIN pairs' : pairs'[i] = pairs'[j] => i = j
    <3>1. SUFFICES ASSUME NEW i \in DOMAIN pairs', NEW j \in DOMAIN pairs',
                          pairs'[i] = pairs'[j]
                   PROVE  i = j
      OBVIOUS
    <3>2. CASE i = 1 /\ j = 1
      BY <3>2
    <3>3. CASE i = 1 /\ j # 1
      <4>1. j \in 2..Len(pairs) + 1 /\ j - 1 \in 1..Len(pairs)
        BY <2>1, <2>2, <3>3
      <4> QED BY <2>2, <2>4, <3>1, <3>3, <4>1
    <3>4. CASE i # 1 /\ j = 1
      <4>1. i \in 2..Len(pairs) + 1 /\ i - 1 \in 1..Len(pairs)
        BY <2>1, <2>2, <3>4
      <4> QED BY <2>2, <2>4, <3>1, <3>4, <4>1
    <3>5. CASE i # 1 /\ j # 1
      <4>1. /\ i \in 2..Len(pairs) + 1 /\ i - 1 \in DOMAIN pairs
            /\ j \in 2..Len(pairs) + 1 /\ j - 1 \in DOMAIN pairs
        BY <2>1, <2>2, <3>5
      <4>2. pairs[i - 1] = pairs[j - 1]
        BY <2>2, <3>1, <4>1
      <4>3. i - 1 = j - 1
        BY <4>1, <4>2 DEF WellFormed
      <4> QED BY <2>1, <4>1, <4>3
    <3> QED BY <3>2, <3>3, <3>4, <3>5
  <2>6. Range(pairs') = Allocated'
    <3>1. ASSUME NEW j \in DOMAIN pairs' PROVE pairs'[j] \in Allocated'
      <4>1. CASE j = 1
        BY <2>2, <2>3, <4>1
      <4>2. CASE j # 1
        <5>1. j \in 2..Len(pairs) + 1 /\ j - 1 \in 1..Len(pairs)
          BY <2>1, <2>2, <4>2
        <5> QED BY <2>2, <2>3, <2>4, <5>1
      <4> QED BY <4>1, <4>2
    <3>2. ASSUME NEW a \in Allocated PROVE \E j \in DOMAIN pairs' : pairs'[j] = a
      <4>1. Place(a) \in 1..Len(pairs) /\ pairs[Place(a)] = a
        BY PlaceProperties
      <4>2. Place(a) + 1 \in 2..Len(pairs) + 1 /\ Place(a) + 1 \in DOMAIN pairs'
            /\ (Place(a) + 1) - 1 = Place(a)
        BY <2>1, <2>2, <4>1
      <4>3. pairs'[Place(a) + 1] = a
        BY <2>2, <4>1, <4>2
      <4> QED BY <4>2, <4>3
    <3>3. 1 \in DOMAIN pairs'
      BY <2>1, <2>2
    <3> QED BY <2>2, <2>3, <3>1, <3>2, <3>3 DEF Range
  <2>7. \A a, b \in Allocated' : pair'[a].key = pair'[b].key => a = b
    BY <2>3 DEF WellFormed
  <2>8. size' = Len(pairs')
    BY <1>2, <2>1, <2>2 DEF WellFormed
  <2> QED BY <2>2, <2>3, <2>5, <2>6, <2>7, <2>8 DEF WellFormed
<1> QED BY <1>1, <1>2 DEF Insert

\* What is at an address changes, but not its key.
LEMMA UpdateProperties ==
    ASSUME TypeOK, WellFormed, NEW c \in Allocated, NEW new \in Pair,
           new.key = pair[c].key,
           pair' = [pair EXCEPT ![c] = new], UNCHANGED <<pairs, size>>
    PROVE  /\ pairs' \in Seq(Cell)
           /\ Allocated' = Allocated
           /\ pair' \in [Allocated' -> Pair]
           /\ size' \in Int
           /\ WellFormed'
<1>1. Allocated' = Allocated /\ pair' \in [Allocated' -> Pair]
  BY DEF Allocated, TypeOK
<1>2. \A a \in Allocated : pair'[a].key = pair[a].key
  BY DEF Allocated, TypeOK
<1> QED BY <1>1, <1>2 DEF TypeOK, WellFormed

-----------------------------------------------------------------------------
(* The invariant *)

LEMMA IndInit == Init => IndInv
<1> SUFFICES ASSUME Init PROVE IndInv
  OBVIOUS
<1>1. pairs = <<>> /\ Allocated = {} /\ size = 0 /\ iterator = NULL
  BY DEF Init, Allocated
<1>2. TypeOK
  BY <1>1 DEF Init, TypeOK
<1>3. WellFormed
  BY <1>1 DEF WellFormed, Range
<1> QED BY <1>1, <1>2, <1>3 DEF IndInv, NoDangling

\* Outside a sweep, what keeps the list and the heap right is all that counts.
LEMMA OutsideSweep ==
    ASSUME IndInv, iterator = NULL, iterator' = NULL,
           pairs' \in Seq(Cell), Allocated' \subseteq Cell,
           pair' \in [Allocated' -> Pair], size' \in Int, WellFormed',
           stores' \in 0..MaxStores
    PROVE  IndInv'
  BY DEF IndInv, TypeOK, NoDangling

LEMMA IndStep == IndInv /\ [Next]_vars => IndInv'
<1> SUFFICES ASSUME IndInv, [Next]_vars PROVE IndInv'
  OBVIOUS
<1>0. TypeOK /\ WellFormed /\ NoDangling
  BY DEF IndInv
<1>1. ASSUME NEW k \in Key, Store(k) PROVE IndInv'
  <2>1. Data(k) \in Pair /\ Data(k).key = k
    BY DEF Data, Buffer, Pair
  <2>2. iterator = NULL /\ iterator' = NULL /\ stores' \in 0..MaxStores
    BY <1>0, <1>1 DEF Store, TypeOK
  <2>3. CASE find_pair_by_key(k) = NULL
    <3>1. \A c \in Allocated : pair[c].key # Data(k).key
      BY <1>0, <2>1, <2>3, FindProperties, PlaceProperties
    <3>2. Insert(Data(k))
      BY <1>1, <2>3 DEF Store
    <3> QED BY <1>0, <2>1, <2>2, <3>1, <3>2, InsertProperties, OutsideSweep
  <2>4. CASE find_pair_by_key(k) # NULL
    <3> DEFINE c == find_pair_by_key(k)
    <3>1. c \in Allocated /\ pair[c].key = k
      BY <1>0, <2>4, FindProperties
    <3>2. pair' = [pair EXCEPT ![c] = Data(k)] /\ UNCHANGED <<pairs, size>>
      BY <1>1, <2>4 DEF Store
    <3> HIDE DEF c
    <3>3. Allocated \subseteq Cell
      BY <1>0 DEF TypeOK
    <3> QED BY <1>0, <2>1, <2>2, <3>1, <3>2, <3>3, UpdateProperties, OutsideSweep
  <2> QED BY <2>3, <2>4
<1>2. ASSUME NEW k \in Key, SynAck(k) PROVE IndInv'
  <2>1. iterator = NULL /\ iterator' = NULL /\ stores' \in 0..MaxStores
    BY <1>0, <1>2 DEF SynAck, TypeOK
  <2>2. CASE find_pair_by_key(k) = NULL
    <3> DEFINE new == Buffer(k, FALSE, 0)
    <3>1. new \in Pair /\ new.key = k
      BY DEF Buffer, Pair
    <3>2. \A c \in Allocated : pair[c].key # new.key
      BY <1>0, <2>2, <3>1, FindProperties, PlaceProperties
    <3>3. Insert(new)
      BY <1>2, <2>2 DEF SynAck
    <3> HIDE DEF new
    <3> QED BY <1>0, <2>1, <3>1, <3>2, <3>3, InsertProperties, OutsideSweep
  <2>3. CASE find_pair_by_key(k) # NULL
    <3> DEFINE c == find_pair_by_key(k)
               new == [pair[c] EXCEPT !.occupied = FALSE]
    <3>1. c \in Allocated /\ pair[c] \in Pair
      BY <1>0, <2>3, FindProperties DEF TypeOK
    <3>2. pair' = [pair EXCEPT ![c] = new] /\ UNCHANGED <<pairs, size>>
      BY <1>2, <2>3 DEF SynAck
    <3> HIDE DEF c
    <3>3. new \in Pair /\ new.key = pair[c].key
      BY <3>1 DEF Pair
    <3>4. Allocated \subseteq Cell
      BY <1>0 DEF TypeOK
    <3> HIDE DEF new
    <3> QED BY <1>0, <2>1, <3>1, <3>2, <3>3, <3>4, UpdateProperties, OutsideSweep
  <2> QED BY <2>2, <2>3
<1>3. CASE Begin
  <2>1. First \in Allocated \cup {NULL}
    <3>1. CASE pairs = <<>>
      BY <3>1 DEF First
    <3>2. CASE pairs # <<>>
      <4>1. 1 \in 1..Len(pairs) /\ First = pairs[1]
        BY <1>0, <3>2 DEF First, TypeOK
      <4> QED BY <1>0, <4>1, InList
    <3> QED BY <3>1, <3>2
  <2>2. /\ iterator' = [current |-> First, previous |-> NULL, visiting |-> FALSE]
        /\ UNCHANGED <<pairs, pair, size, stores>>
    BY <1>3 DEF Begin
  <2>3. TypeOK' /\ WellFormed' /\ NoDangling'
    BY <1>0, <2>1, <2>2 DEF TypeOK, WellFormed, NoDangling, Allocated, Iterator
  <2> QED BY <2>3 DEF IndInv
<1>4. CASE map_iterator_next
  <2> DEFINE c == iterator.current
  <2>1. /\ iterator # NULL /\ c # NULL
        /\ iterator' = [current |-> After(c), previous |-> c, visiting |-> TRUE]
        /\ UNCHANGED <<pairs, pair, size, stores>>
    BY <1>4 DEF map_iterator_next
  <2>2. c \in Allocated
    BY <1>0, <2>1 DEF NoDangling
  <2>3. After(c) \in Allocated \cup {NULL}
    BY <1>0, <2>2, AfterProperties
  <2> DEFINE next == After(c)
  <2>4. /\ iterator' = [current |-> next, previous |-> c, visiting |-> TRUE]
        /\ pairs' = pairs /\ iterator'.previous = c
    BY <2>1
  <2>5. After(iterator.previous)' = next
    BY <2>4 DEF After, Place
  <2> HIDE DEF c, next
  <2>6. next \in Allocated \cup {NULL}
    BY <2>3 DEF next
  <2>7. TypeOK' /\ WellFormed'
    BY <1>0, <2>1, <2>2, <2>4, <2>6 DEF TypeOK, WellFormed, Allocated, Iterator
  <2>8. NoDangling'
    BY <2>1, <2>2, <2>4, <2>5, <2>6 DEF NoDangling, Allocated
  <2> QED BY <2>7, <2>8 DEF IndInv
<1>5. ASSUME NEW c \in Cell, Young(c) PROVE IndInv'
  <2>1. /\ iterator # NULL /\ iterator' = [iterator EXCEPT !.visiting = FALSE]
        /\ UNCHANGED <<pairs, pair, size, stores>>
    BY <1>5 DEF Young, Visits
  <2>2. TypeOK' /\ WellFormed' /\ NoDangling'
    BY <1>0, <2>1 DEF TypeOK, WellFormed, NoDangling, Allocated, Iterator
  <2> QED BY <2>2 DEF IndInv
<1>6. ASSUME NEW c \in Cell, Expired(c) PROVE IndInv'
  <2>1. /\ iterator # NULL /\ iterator.visiting /\ iterator.previous = c
        /\ iterator' = [iterator EXCEPT !.visiting = FALSE]
        /\ stores' = stores
    BY <1>6 DEF Expired, Visits
  <2>2. c \in Allocated /\ iterator.current \in (Allocated \ {c}) \cup {NULL}
    BY <1>0, <2>1, AfterProperties DEF NoDangling
  <2>3. CASE pair[c].retries = 0 \/ ~pair[c].occupied
    <3>1. /\ pairs' = RemoveAt(pairs, Place(c))
          /\ pair' = [a \in Allocated \ {c} |-> pair[a]]
          /\ size' = size - 1
      BY <1>6, <2>1, <2>3 DEF Expired, map_iterator_remove
    <3>2. /\ pairs' \in Seq(Cell) /\ Allocated' = Allocated \ {c}
          /\ pair' \in [Allocated' -> Pair] /\ size' \in Int /\ WellFormed'
      BY <1>0, <2>2, <3>1, RemoveProperties
    <3>3. TypeOK'
      BY <1>0, <2>1, <3>2 DEF TypeOK, Iterator
    <3>4. NoDangling'
      BY <1>0, <2>1, <2>2, <3>2 DEF NoDangling, TypeOK, Iterator
    <3> QED BY <3>2, <3>3, <3>4 DEF IndInv
  <2>4. CASE ~(pair[c].retries = 0 \/ ~pair[c].occupied)
    <3> DEFINE new == [pair[c] EXCEPT !.retries = @ - 1]
    <3>1. pair[c] \in Pair
      BY <1>0, <2>2 DEF TypeOK
    <3>2. new \in Pair /\ new.key = pair[c].key
      BY <2>4, <3>1 DEF Pair
    <3>3. pair' = [pair EXCEPT ![c] = new] /\ UNCHANGED <<pairs, size>>
      BY <1>6, <2>4 DEF Expired
    <3> HIDE DEF new
    <3>4. /\ pairs' \in Seq(Cell) /\ Allocated' = Allocated
          /\ pair' \in [Allocated' -> Pair] /\ size' \in Int /\ WellFormed'
      BY <1>0, <2>2, <3>2, <3>3, UpdateProperties
    <3>5. TypeOK'
      BY <1>0, <2>1, <3>4 DEF TypeOK, Iterator
    <3>6. NoDangling'
      BY <1>0, <2>1, <2>2, <3>4 DEF NoDangling, TypeOK, Iterator
    <3> QED BY <3>4, <3>5, <3>6 DEF IndInv
  <2> QED BY <2>3, <2>4
<1>7. CASE End
  <2>1. iterator' = NULL /\ UNCHANGED <<pairs, pair, size, stores>>
    BY <1>7 DEF End
  <2>2. TypeOK' /\ WellFormed' /\ NoDangling'
    BY <1>0, <2>1 DEF TypeOK, WellFormed, NoDangling, Allocated, Iterator
  <2> QED BY <2>2 DEF IndInv
<1>8. CASE UNCHANGED vars
  <2>1. UNCHANGED <<pairs, pair, size, iterator, stores>>
    BY <1>8 DEF vars
  <2>2. TypeOK' /\ WellFormed' /\ NoDangling'
    BY <1>0, <2>1 DEF TypeOK, WellFormed, NoDangling, Allocated, Iterator, After, Place
  <2> QED BY <2>2 DEF IndInv
<1> QED BY <1>1, <1>2, <1>3, <1>4, <1>5, <1>6, <1>7, <1>8 DEF Next, SweepGoesOn

-----------------------------------------------------------------------------
(* Theorems *)

LEMMA IndAlways == Spec => []IndInv
  BY IndInit, IndStep, PTL DEF Spec

(***************************************************************************)
(* The map is type correct: no buffer has retries beyond 0..NUM_RETRIES.   *)
(***************************************************************************)
THEOREM BuffersTypeCorrect == Spec => []TypeOK
<1>1. IndInv => TypeOK
  BY DEF IndInv
<1> QED BY IndAlways, <1>1, PTL

(***************************************************************************)
(* The list, the heap and the size of the map agree, for any number of     *)
(* keys and addresses: no pair leaks, is listed twice or after it is freed, *)
(* and no key has two.                                                     *)
(***************************************************************************)
THEOREM MapWellFormed == Spec => []WellFormed
<1>1. IndInv => WellFormed
  BY DEF IndInv
<1> QED BY IndAlways, <1>1, PTL

(***************************************************************************)
(* A sweep follows no pointer to a pair it has freed, for lists of any     *)
(* length and whatever it removes.                                         *)
(***************************************************************************)
THEOREM IteratorIsSafe == Spec => []NoDangling
<1>1. IndInv => NoDangling
  BY DEF IndInv
<1> QED BY IndAlways, <1>1, PTL

-----------------------------------------------------------------------------
(* The map is a table: what it holds *)

\* What a heap p of pairs holds under k, and the table that it is.
HeldIn(p, k) == {c \in DOMAIN p : p[c].key = k /\ p[c].occupied}

TableOf(p) ==
    [k \in Key |->
        IF HeldIn(p, k) = {}
        THEN [held |-> FALSE]
        ELSE [held |-> TRUE,
              retries |-> p[CHOOSE c \in HeldIn(p, k) : TRUE].retries]]

KeysDiffer(p) == \A a, b \in DOMAIN p : p[a].key = p[b].key => a = b

LEMMA TableIs == Table = TableOf(pair) /\ Table' = TableOf(pair')
  BY DEF Table, TableOf, HeldUnder, HeldIn, Allocated

\* The entry of a key whose pair is the only one, so that CHOOSE chooses it.
LEMMA EntryOf ==
    ASSUME NEW p, NEW c \in DOMAIN p, NEW v \in Pair, p[c] = v,
           \A a \in DOMAIN p : p[a].key = v.key => a = c
    PROVE  TableOf(p)[v.key] =
               IF v.occupied THEN [held |-> TRUE, retries |-> v.retries]
                             ELSE [held |-> FALSE]
<1>1. v.key \in Key
  BY DEF Pair
<1>2. CASE v.occupied
  <2>1. HeldIn(p, v.key) = {c}
    BY <1>2 DEF HeldIn
  <2>2. (CHOOSE a \in HeldIn(p, v.key) : TRUE) = c
    BY <2>1
  <2> QED BY <1>1, <1>2, <2>1, <2>2 DEF TableOf
<1>3. CASE ~v.occupied
  <2>1. HeldIn(p, v.key) = {}
    BY <1>3 DEF HeldIn
  <2> QED BY <1>1, <1>3, <2>1 DEF TableOf
<1> QED BY <1>2, <1>3

\* A heap that changes at one address, under one key, is a table that changes
\* under that key.
ChangeAt(p, q, c, k) ==
    /\ DOMAIN q \ {c} = DOMAIN p \ {c}
    /\ \A a \in DOMAIN p \ {c} : q[a] = p[a]
    /\ c \in DOMAIN p => p[c].key = k
    /\ c \in DOMAIN q => q[c].key = k

LEMMA TableChange ==
    ASSUME NEW p, NEW q, NEW c, NEW k \in Key, ChangeAt(p, q, c, k)
    PROVE  TableOf(q) = [TableOf(p) EXCEPT ![k] = TableOf(q)[k]]
<1> USE DEF ChangeAt
<1>1. ASSUME NEW j \in Key, j # k PROVE TableOf(q)[j] = TableOf(p)[j]
  <2>1. ASSUME NEW a \in HeldIn(q, j) PROVE a \in HeldIn(p, j)
    BY <1>1, <2>1 DEF HeldIn
  <2>2. ASSUME NEW a \in HeldIn(p, j) PROVE a \in HeldIn(q, j) /\ q[a] = p[a]
    BY <1>1, <2>2 DEF HeldIn
  <2>3. HeldIn(q, j) = HeldIn(p, j)
    BY <2>1, <2>2
  <2>4. CASE HeldIn(p, j) = {}
    BY <2>3, <2>4 DEF TableOf
  <2>5. CASE HeldIn(p, j) # {}
    <3> DEFINE a == CHOOSE b \in HeldIn(p, j) : TRUE
    <3>1. q[a] = p[a]
      BY <2>2, <2>5
    <3> QED BY <2>3, <2>5, <3>1 DEF TableOf
  <2> QED BY <2>4, <2>5
<1> QED BY <1>1 DEF TableOf

-----------------------------------------------------------------------------
(* The map is a table: what the sweep has still to look at *)

\* The addresses in the list ps from c on, and the keys of those in use.
From(ps, c) ==
    {ps[i] : i \in {i \in DOMAIN ps : \E j \in DOMAIN ps : ps[j] = c /\ j <= i}}

KeysOf(p, cells) == {p[c].key : c \in {a \in cells : p[a].occupied}}

CellsAhead == {pairs[i] : i \in Ahead}

LEMMA FromPlace ==
    ASSUME NEW ps \in Seq(Cell), NEW n \in 1..Len(ps),
           \A i, j \in 1..Len(ps) : ps[i] = ps[j] => i = j
    PROVE  From(ps, ps[n]) = {ps[i] : i \in n..Len(ps)}
<1>1. DOMAIN ps = 1..Len(ps) /\ Len(ps) \in Nat
  OBVIOUS
<1>2. {i \in DOMAIN ps : \E j \in DOMAIN ps : ps[j] = ps[n] /\ j <= i}
          = n..Len(ps)
  BY <1>1
<1> QED BY <1>2 DEF From

LEMMA FromNowhere ==
    ASSUME NEW ps \in Seq(Cell), NEW c, \A i \in 1..Len(ps) : ps[i] # c
    PROVE  From(ps, c) = {}
  BY DEF From

LEMMA TodoIs ==
    /\ iterator # NULL =>
          Todo = [sweep |-> TRUE, keys |-> KeysOf(pair, CellsAhead)]
    /\ iterator = NULL => Todo = [sweep |-> FALSE]
<1>1. {pair[pairs[i]].key : i \in {j \in Ahead : pair[pairs[j]].occupied}}
          = KeysOf(pair, CellsAhead)
  BY DEF KeysOf, CellsAhead
<1> QED BY <1>1 DEF Todo

LEMMA AheadIs ==
    ASSUME iterator # NULL
    PROVE  /\ ~iterator.visiting => CellsAhead = From(pairs, iterator.current)
           /\ iterator.visiting /\ iterator.previous \in Range(pairs) =>
                  CellsAhead = {iterator.previous} \cup From(pairs, iterator.current)
<1>1. CASE ~iterator.visiting
  BY <1>1 DEF CellsAhead, Ahead, From
<1>2. ASSUME iterator.visiting, iterator.previous \in Range(pairs)
      PROVE  CellsAhead = {iterator.previous} \cup From(pairs, iterator.current)
  <2>1. PICK i \in DOMAIN pairs : pairs[i] = iterator.previous
    BY <1>2 DEF Range
  <2> QED BY <1>2, <2>1 DEF CellsAhead, Ahead, From
<1> QED BY <1>1, <1>2

\* What the list is from a pair on: the pair, and the list from the next on.
LEMMA FromAfter ==
    ASSUME TypeOK, WellFormed, NEW c \in Allocated
    PROVE  /\ From(pairs, c) = {c} \cup From(pairs, After(c))
           /\ c \notin From(pairs, After(c))
           /\ From(pairs, After(c)) =
                  {pairs[i] : i \in Place(c) + 1..Len(pairs)}
           /\ From(pairs, c) \subseteq Allocated
<1> DEFINE n == Place(c)
           l == Len(pairs)
<1>1. /\ pairs \in Seq(Cell) /\ l \in Nat /\ n \in 1..l /\ pairs[n] = c
      /\ DOMAIN pairs = 1..l /\ NULL \notin Cell
      /\ \A i, j \in 1..l : pairs[i] = pairs[j] => i = j
      /\ \A i \in 1..l : pairs[i] \in Cell /\ pairs[i] \in Allocated
  BY PlaceProperties, InList DEF TypeOK, WellFormed
<1>2. From(pairs, c) = {pairs[i] : i \in n..l}
  BY <1>1, FromPlace
<1>3. From(pairs, After(c)) = {pairs[i] : i \in n + 1..l}
  <2>1. CASE n < l
    <3>1. After(c) = pairs[n + 1] /\ n + 1 \in 1..l
      BY <1>1, <2>1 DEF After
    <3> HIDE DEF n, l
    <3>2. From(pairs, pairs[n + 1]) = {pairs[i] : i \in n + 1..l}
      BY <1>1, <3>1, FromPlace DEF l
    <3> QED BY <3>1, <3>2
  <2>2. CASE n = l
    <3>1. After(c) = NULL
      BY <2>2, <1>1 DEF After
    <3>2. \A i \in 1..Len(pairs) : pairs[i] # NULL
      BY <1>1
    <3>3. From(pairs, NULL) = {}
      BY <1>1, <3>2, FromNowhere
    <3>4. n + 1..l = {}
      BY <1>1, <2>2
    <3> QED BY <3>1, <3>3, <3>4
  <2> QED BY <1>1, <2>1, <2>2
<1> HIDE DEF n, l
<1>4. n..l = {n} \cup (n + 1..l) /\ n \notin n + 1..l /\ n..l \subseteq 1..l
  BY <1>1
<1>5. {pairs[i] : i \in n..l} = {c} \cup {pairs[i] : i \in n + 1..l}
  BY <1>1, <1>4
<1>6. c \notin {pairs[i] : i \in n + 1..l}
  BY <1>1, <1>4
<1>7. {pairs[i] : i \in n..l} \subseteq Allocated
  BY <1>1, <1>4
<1> QED BY <1>2, <1>3, <1>5, <1>6, <1>7 DEF n, l

\* Taking out a pair leaves what comes after it.
LEMMA FromRemoved ==
    ASSUME TypeOK, WellFormed, NEW c \in Allocated,
           pairs' = RemoveAt(pairs, Place(c)), WellFormed', pairs' \in Seq(Cell)
    PROVE  From(pairs', After(c)) = From(pairs, After(c))
<1> DEFINE n == Place(c)
           l == Len(pairs)
<1>1. /\ pairs \in Seq(Cell) /\ l \in Nat /\ n \in 1..l /\ pairs[n] = c
      /\ NULL \notin Cell
  BY PlaceProperties DEF TypeOK
<1>2. /\ Len(pairs') = l - 1 /\ DOMAIN pairs' = 1..l - 1
      /\ \A j \in 1..l - 1 : pairs'[j] = IF j < n THEN pairs[j] ELSE pairs[j + 1]
  <2>1. /\ Len(pairs') = l - 1
        /\ \A j \in 1..l - 1 :
               pairs'[j] = IF j < n THEN pairs[j] ELSE pairs[j + 1]
    BY <1>1, RemoveAtProperties
  <2>2. DOMAIN pairs' = 1..Len(pairs')
    OBVIOUS
  <2> QED BY <2>1, <2>2
<1>3. \A i, j \in 1..l - 1 : pairs'[i] = pairs'[j] => i = j
  BY <1>2 DEF WellFormed
<1>4. From(pairs, After(c)) = {pairs[i] : i \in n + 1..l}
  BY FromAfter
<1>5. CASE n < l
  <2>1. After(c) = pairs'[n] /\ n \in 1..l - 1
    BY <1>1, <1>2, <1>5 DEF After
  <2> HIDE DEF n, l
  <2>2. From(pairs', pairs'[n]) = {pairs'[i] : i \in n..l - 1}
    <3> DEFINE ps == pairs'
    <3>1. /\ ps \in Seq(Cell) /\ n \in 1..Len(ps) /\ Len(ps) = l - 1
          /\ \A i, j \in 1..Len(ps) : ps[i] = ps[j] => i = j
      BY <1>2, <1>3, <2>1
    <3> HIDE DEF ps
    <3>2. From(ps, ps[n]) = {ps[i] : i \in n..Len(ps)}
      BY <3>1, FromPlace
    <3> QED BY <3>1, <3>2 DEF ps
  <2>3. \A i \in n..l - 1 : i + 1 \in n + 1..l /\ pairs'[i] = pairs[i + 1]
    BY <1>1, <1>2
  <2>4. \A i \in n + 1..l : i - 1 \in n..l - 1 /\ pairs'[i - 1] = pairs[i]
    BY <1>1, <1>2
  <2>5. {pairs'[i] : i \in n..l - 1} = {pairs[i] : i \in n + 1..l}
    BY <2>3, <2>4
  <2> QED BY <1>4, <2>1, <2>2, <2>5
<1>6. CASE n = l
  <2>1. After(c) = NULL
    BY <1>1, <1>6 DEF After
  <2>2. \A i \in 1..Len(pairs') : pairs'[i] # NULL
    BY <1>1
  <2>3. From(pairs', NULL) = {}
    BY <2>2, FromNowhere
  <2>4. n + 1..l = {}
    BY <1>1, <1>6
  <2> QED BY <1>4, <2>1, <2>3, <2>4
<1> QED BY <1>1, <1>5, <1>6

\* The keys that are ahead once the pair at c is not.
LEMMA KeysAhead ==
    ASSUME NEW p, KeysDiffer(p), NEW cells \in SUBSET DOMAIN p, NEW c \in DOMAIN p,
           c \notin cells,
           NEW q, \A a \in cells : q[a] = p[a]
    PROVE  /\ KeysOf(q, cells) = KeysOf(p, cells)
           /\ ~p[c].occupied => KeysOf(p, {c} \cup cells) = KeysOf(p, cells)
           /\ p[c].occupied =>
                  /\ p[c].key \in KeysOf(p, {c} \cup cells)
                  /\ KeysOf(p, {c} \cup cells) \ {p[c].key} = KeysOf(p, cells)
<1>1. KeysOf(q, cells) = KeysOf(p, cells)
  BY DEF KeysOf
<1>2. ~p[c].occupied => KeysOf(p, {c} \cup cells) = KeysOf(p, cells)
  BY DEF KeysOf
<1>3. ASSUME p[c].occupied
      PROVE  /\ p[c].key \in KeysOf(p, {c} \cup cells)
             /\ KeysOf(p, {c} \cup cells) \ {p[c].key} = KeysOf(p, cells)
  <2>1. KeysOf(p, {c} \cup cells) = {p[c].key} \cup KeysOf(p, cells)
    BY <1>3 DEF KeysOf
  <2>2. p[c].key \notin KeysOf(p, cells)
    BY DEF KeysOf, KeysDiffer
  <2> QED BY <2>1, <2>2
<1> QED BY <1>1, <1>2, <1>3

-----------------------------------------------------------------------------
(* The map is a table: each step is one of its steps, or none *)

\* What the steps need of the invariant, before and after.
LEMMA StepFacts ==
    ASSUME IndInv, IndInv'
    PROVE  /\ TypeOK /\ WellFormed /\ NoDangling /\ WellFormed' /\ pairs' \in Seq(Cell)
           /\ KeysDiffer(pair) /\ KeysDiffer(pair')
           /\ \A c \in Allocated : pair[c] \in Pair
  BY DEF IndInv, WellFormed, KeysDiffer, Allocated, TypeOK

\* A new pair, if there is memory for it, is a new entry.
LEMMA InsertedEntry ==
    ASSUME NEW new \in Pair, Insert(new), KeysDiffer(pair), KeysDiffer(pair'),
           \A c \in Allocated : pair[c].key # new.key
    PROVE  \/ pair' = pair
           \/ /\ TableOf(pair') =
                    [TableOf(pair) EXCEPT ![new.key] = TableOf(pair')[new.key]]
              /\ TableOf(pair')[new.key] =
                    IF new.occupied THEN [held |-> TRUE, retries |-> new.retries]
                                    ELSE [held |-> FALSE]
<1>1. CASE pair' = pair
  BY <1>1
<1>2. CASE pair' # pair
  <2>1. PICK c \in Cell \ Allocated :
            pair' = [a \in Allocated \cup {c} |-> IF a = c THEN new ELSE pair[a]]
    BY <1>2 DEF Insert
  <2>2. /\ new.key \in Key
        /\ DOMAIN pair' \ {c} = DOMAIN pair \ {c} /\ c \in DOMAIN pair'
        /\ pair'[c] = new /\ \A a \in DOMAIN pair : pair'[a] = pair[a]
        /\ c \notin DOMAIN pair
    BY <2>1 DEF Allocated, Pair
  <2>3. TableOf(pair') = [TableOf(pair) EXCEPT ![new.key] = TableOf(pair')[new.key]]
    <3>1. ChangeAt(pair, pair', c, new.key)
      BY <2>2 DEF ChangeAt
    <3> QED BY <2>2, <3>1, TableChange
  <2>4. \A a \in DOMAIN pair' : pair'[a].key = new.key => a = c
    BY <2>2 DEF KeysDiffer
  <2>5. TableOf(pair')[new.key] =
            IF new.occupied THEN [held |-> TRUE, retries |-> new.retries]
                            ELSE [held |-> FALSE]
    BY <2>2, <2>4, EntryOf
  <2> QED BY <2>3, <2>5
<1> QED BY <1>1, <1>2

\* So is a pair that is replaced by one under the same key.
LEMMA ReplacedEntry ==
    ASSUME NEW c \in Allocated, NEW new \in Pair, new.key = pair[c].key,
           pair' = [pair EXCEPT ![c] = new], KeysDiffer(pair), KeysDiffer(pair')
    PROVE  /\ TableOf(pair') =
                 [TableOf(pair) EXCEPT ![new.key] = TableOf(pair')[new.key]]
           /\ TableOf(pair')[new.key] =
                 IF new.occupied THEN [held |-> TRUE, retries |-> new.retries]
                                 ELSE [held |-> FALSE]
<1>1. /\ new.key \in Key
      /\ DOMAIN pair' = DOMAIN pair /\ c \in DOMAIN pair
      /\ pair'[c] = new /\ \A a \in DOMAIN pair \ {c} : pair'[a] = pair[a]
  BY DEF Allocated, Pair
<1>2. TableOf(pair') = [TableOf(pair) EXCEPT ![new.key] = TableOf(pair')[new.key]]
  <2>1. ChangeAt(pair, pair', c, new.key)
    BY <1>1 DEF ChangeAt
  <2>2. \A q : ChangeAt(pair, q, c, new.key) =>
                  TableOf(q) = [TableOf(pair) EXCEPT ![new.key] = TableOf(q)[new.key]]
    BY <1>1, TableChange
  <2> QED BY <2>1, <2>2
<1>3. \A a \in DOMAIN pair' : pair'[a].key = new.key => a = c
  BY <1>1 DEF KeysDiffer
<1>4. TableOf(pair')[new.key] =
          IF new.occupied THEN [held |-> TRUE, retries |-> new.retries]
                          ELSE [held |-> FALSE]
  BY <1>1, <1>3, EntryOf, ZenonT(40)
<1> QED BY <1>2, <1>4

\* A pair that is taken out leaves no entry.
LEMMA RemovedEntry ==
    ASSUME NEW c \in Allocated, pair[c] \in Pair,
           pair' = [a \in Allocated \ {c} |-> pair[a]],
           KeysDiffer(pair), KeysDiffer(pair')
    PROVE  TableOf(pair') = [TableOf(pair) EXCEPT ![pair[c].key] = [held |-> FALSE]]
<1>1. pair[c].key \in Key
  BY DEF Pair
<1>2. ChangeAt(pair, pair', c, pair[c].key)
  BY DEF Allocated, ChangeAt
<1>3. HeldIn(pair', pair[c].key) = {}
  BY DEF Allocated, KeysDiffer, HeldIn
<1>4. TableOf(pair')[pair[c].key] = [held |-> FALSE]
  BY <1>1, <1>3 DEF TableOf
<1>5. TableOf(pair') = [TableOf(pair) EXCEPT ![pair[c].key] = TableOf(pair')[pair[c].key]]
  BY <1>1, <1>2, TableChange
<1> QED BY <1>4, <1>5

\* Outside a sweep a step changes what is held; there is nothing to look at.
LEMMA StoreStep ==
    ASSUME IndInv, IndInv', NEW k \in Key, Store(k)
    PROVE  BufferTable!Store(k) \/ UNCHANGED <<Table, Todo>>
<1> DEFINE c == find_pair_by_key(k)
<1>1. iterator = NULL /\ iterator' = NULL /\ Todo = [sweep |-> FALSE] /\ Todo' = Todo
  BY DEF Store, Todo
<1>2. Data(k) \in Pair /\ Data(k) = [key |-> k, occupied |-> TRUE, retries |-> NUM_RETRIES]
  BY DEF Data, Buffer, Pair
<1>3. \/ pair' = pair
      \/ /\ TableOf(pair') = [TableOf(pair) EXCEPT ![k] = TableOf(pair')[k]]
         /\ TableOf(pair')[k] = [held |-> TRUE, retries |-> NUM_RETRIES]
  <2>1. CASE c = NULL
    <3>1. \A a \in Allocated : pair[a].key # k
      BY <2>1, FindProperties, StepFacts, PlaceProperties
    <3>2. Insert(Data(k))
      BY <2>1 DEF Store
    <3> QED BY <1>2, <3>1, <3>2, StepFacts, InsertedEntry
  <2>2. CASE c # NULL
    <3>1. c \in Allocated /\ pair[c].key = k
      BY <2>2, FindProperties, StepFacts
    <3>2. pair' = [pair EXCEPT ![c] = Data(k)]
      BY <2>2 DEF Store
    <3> DEFINE new == Data(k)
    <3> HIDE DEF c
    <3>3. new \in Pair /\ new.key = k /\ new.occupied /\ new.retries = NUM_RETRIES
      BY <1>2
    <3>4. new.key = pair[c].key /\ pair' = [pair EXCEPT ![c] = new]
      BY <3>1, <3>2, <3>3
    <3> HIDE DEF new
    <3> QED BY <3>1, <3>3, <3>4, StepFacts, ReplacedEntry
  <2> QED BY <2>1, <2>2
<1>4. CASE pair' = pair
  BY <1>1, <1>4, TableIs
<1>5. CASE /\ TableOf(pair') = [TableOf(pair) EXCEPT ![k] = TableOf(pair')[k]]
           /\ TableOf(pair')[k] = [held |-> TRUE, retries |-> NUM_RETRIES]
  <2>1. Table' = [Table EXCEPT ![k] = [held |-> TRUE, retries |-> NUM_RETRIES]]
    BY <1>5, TableIs
  <2> QED BY <1>1, <2>1
          DEF BufferTable!Store, BufferTable!NoSweep, BufferTable!Message
<1> QED BY <1>3, <1>4, <1>5

LEMMA CompleteStep ==
    ASSUME IndInv, IndInv', NEW k \in Key, SynAck(k)
    PROVE  BufferTable!Complete(k) \/ UNCHANGED <<Table, Todo>>
<1> DEFINE c == find_pair_by_key(k)
<1>1. iterator = NULL /\ iterator' = NULL /\ Todo = [sweep |-> FALSE] /\ Todo' = Todo
  BY DEF SynAck, Todo
<1>2. \/ pair' = pair
      \/ /\ TableOf(pair') = [TableOf(pair) EXCEPT ![k] = TableOf(pair')[k]]
         /\ TableOf(pair')[k] = [held |-> FALSE]
  <2>1. CASE c = NULL
    <3> DEFINE new == Buffer(k, FALSE, 0)
    <3>1. new \in Pair /\ new.key = k /\ ~new.occupied
      BY DEF Buffer, Pair
    <3>2. \A a \in Allocated : pair[a].key # k
      BY <2>1, FindProperties, StepFacts, PlaceProperties
    <3>3. Insert(new)
      BY <2>1 DEF SynAck
    <3> HIDE DEF new
    <3> QED BY <3>1, <3>2, <3>3, StepFacts, InsertedEntry
  <2>2. CASE c # NULL
    <3> DEFINE new == [pair[c] EXCEPT !.occupied = FALSE]
    <3>1. c \in Allocated /\ pair[c].key = k
      BY <2>2, FindProperties, StepFacts
    <3>2. pair' = [pair EXCEPT ![c] = new]
      BY <2>2 DEF SynAck
    <3> HIDE DEF c
    <3>3. new \in Pair /\ new.key = k /\ ~new.occupied
      BY <3>1, StepFacts DEF Pair
    <3> HIDE DEF new
    <3> QED BY <3>1, <3>2, <3>3, StepFacts, ReplacedEntry
  <2> QED BY <2>1, <2>2
<1>3. CASE pair' = pair
  BY <1>1, <1>3, TableIs
<1>4. CASE /\ TableOf(pair') = [TableOf(pair) EXCEPT ![k] = TableOf(pair')[k]]
           /\ TableOf(pair')[k] = [held |-> FALSE]
  <2>1. Table' = [Table EXCEPT ![k] = [held |-> FALSE]]
    BY <1>4, TableIs
  <2> QED BY <1>1, <2>1
          DEF BufferTable!Complete, BufferTable!NoSweep, BufferTable!Nothing
<1> QED BY <1>2, <1>3, <1>4

\* An iterator is not NULL.
LEMMA IteratorNotNull ==
    ASSUME NEW c \in Cell \cup {NULL}, NEW d \in Cell \cup {NULL}, NEW v \in BOOLEAN
    PROVE  [current |-> c, previous |-> d, visiting |-> v] # NULL
<1>1. [current |-> c, previous |-> d, visiting |-> v] \in Iterator
  BY DEF Iterator
<1> QED BY <1>1

\* A sweep begins with the whole list ahead.
LEMMA BeginStep ==
    ASSUME IndInv, IndInv', Begin
    PROVE  BufferTable!Begin
<1>1. /\ iterator = NULL /\ iterator' # NULL
      /\ iterator' = [current |-> First, previous |-> NULL, visiting |-> FALSE]
      /\ pairs' = pairs /\ pair' = pair
  <2>1. First \in Cell \cup {NULL}
    <3>1. CASE pairs = <<>>
      BY <3>1 DEF First
    <3>2. CASE pairs # <<>>
      BY <3>2, StepFacts DEF First, TypeOK
    <3> QED BY <3>1, <3>2
  <2>2. [current |-> First, previous |-> NULL, visiting |-> FALSE] # NULL
    BY <2>1, IteratorNotNull
  <2> QED BY <2>2 DEF Begin
<1>2. Table' = Table /\ Todo = [sweep |-> FALSE]
  BY <1>1, TableIs, TodoIs
<1>3. CellsAhead' = From(pairs, First)
  BY <1>1 DEF CellsAhead, Ahead, From
<1>4. From(pairs, First) = Allocated
  <2>1. /\ pairs \in Seq(Cell) /\ Len(pairs) \in Nat /\ DOMAIN pairs = 1..Len(pairs)
        /\ Range(pairs) = Allocated
        /\ \A i, j \in 1..Len(pairs) : pairs[i] = pairs[j] => i = j
    BY StepFacts DEF TypeOK, WellFormed
  <2>2. Allocated = {pairs[i] : i \in 1..Len(pairs)}
    BY <2>1 DEF Range
  <2>3. CASE pairs = <<>>
    <3>1. Allocated = {} /\ DOMAIN pairs = {}
      BY <2>1, <2>2, <2>3
    <3>2. From(pairs, First) = {}
      BY <3>1 DEF From
    <3> QED BY <3>1, <3>2
  <2>4. CASE pairs # <<>>
    <3>1. 1 \in 1..Len(pairs) /\ First = pairs[1]
      BY <2>1, <2>4 DEF First
    <3> QED BY <2>1, <2>2, <3>1, FromPlace
  <2> QED BY <2>3, <2>4
<1>5. KeysOf(pair, Allocated) = BufferTable!Occupied
  <2>1. ASSUME NEW k \in KeysOf(pair, Allocated)
        PROVE  k \in Key /\ Table[k].held
    <3>1. PICK c \in Allocated : pair[c].occupied /\ pair[c].key = k
      BY DEF KeysOf
    <3>2. k \in Key
      BY <3>1, StepFacts DEF Pair
    <3>3. HeldUnder(k) # {}
      BY <3>1 DEF HeldUnder
    <3> QED BY <3>2, <3>3 DEF Table
  <2>2. ASSUME NEW k \in Key, Table[k].held
        PROVE  k \in KeysOf(pair, Allocated)
    <3>1. HeldUnder(k) # {}
      BY <2>2 DEF Table
    <3> QED BY <3>1 DEF HeldUnder, KeysOf
  <2> QED BY <2>1, <2>2 DEF BufferTable!Occupied
<1>6. Todo' = [sweep |-> TRUE, keys |-> KeysOf(pair', CellsAhead')]
  BY <1>1 DEF Todo, KeysOf, CellsAhead
<1>7. Todo' = [sweep |-> TRUE, keys |-> BufferTable!Occupied]
  BY <1>1, <1>3, <1>4, <1>5, <1>6
<1> QED BY <1>2, <1>7 DEF BufferTable!Begin, BufferTable!NoSweep, BufferTable!Sweep

\* The pair that is returned is ahead as long as nobody has looked at it.
LEMMA NextStep ==
    ASSUME IndInv, IndInv', map_iterator_next
    PROVE  UNCHANGED <<Table, Todo>>
<1> DEFINE c == iterator.current
           next == After(c)
<1>1. /\ iterator # NULL /\ ~iterator.visiting /\ c # NULL
      /\ iterator' = [current |-> next, previous |-> c, visiting |-> TRUE]
      /\ pairs' = pairs /\ pair' = pair
  BY DEF map_iterator_next
<1>2. c \in Allocated /\ c \in Cell
  BY <1>1, StepFacts DEF NoDangling, TypeOK
<1>3. next \in Cell \cup {NULL}
  BY <1>2, AfterProperties, StepFacts DEF TypeOK
<1>4. /\ From(pairs, c) = {c} \cup From(pairs, next) /\ c \in Range(pairs)
  BY <1>2, FromAfter, StepFacts DEF WellFormed
<1>5. CellsAhead = From(pairs, c)
  BY <1>1, AheadIs
<1> HIDE DEF next, c
<1>6. iterator' # NULL
  BY <1>1, <1>2, <1>3, IteratorNotNull
<1>7. CellsAhead' = {c} \cup From(pairs, next)
  <2>1. iterator'.visiting /\ iterator'.previous = c /\ iterator'.current = next
    BY <1>1
  <2>2. PICK i \in DOMAIN pairs : pairs[i] = c
    BY <1>4 DEF Range
  <2> QED BY <1>1, <2>1, <2>2 DEF CellsAhead, Ahead, From
<1>8. Todo = [sweep |-> TRUE, keys |-> KeysOf(pair, CellsAhead)]
  BY <1>1, TodoIs
<1>9. Todo' = [sweep |-> TRUE, keys |-> KeysOf(pair', CellsAhead')]
  BY <1>6 DEF Todo, KeysOf, CellsAhead
<1>10. Todo' = Todo
  BY <1>1, <1>4, <1>5, <1>7, <1>8, <1>9
<1>11. Table' = Table
  BY <1>1, TableIs
<1> QED BY <1>10, <1>11

\* What a look at the pair at c does to what is ahead.
LEMMA LookedAt ==
    ASSUME IndInv, IndInv', NEW c \in Cell, Visits(c),
           \/ pairs' = pairs
           \/ pairs' = RemoveAt(pairs, Place(c)),
           \A a \in Allocated \ {c} : pair'[a] = pair[a]
    PROVE  /\ c \in Allocated
           /\ Todo.sweep
           /\ ~pair[c].occupied => Todo' = Todo
           /\ pair[c].occupied =>
                 /\ pair[c].key \in Todo.keys
                 /\ Todo' = [sweep |-> TRUE, keys |-> Todo.keys \ {pair[c].key}]
<1> DEFINE next == After(c)
           cells == From(pairs, next)
<1>1. /\ iterator # NULL /\ iterator.visiting /\ iterator.previous = c
      /\ iterator' = [iterator EXCEPT !.visiting = FALSE]
  BY DEF Visits
<1>2. c \in Allocated /\ iterator.current = next /\ c \in Range(pairs)
  BY <1>1, StepFacts DEF NoDangling, WellFormed
<1>3. iterator \in Iterator
  BY <1>1, StepFacts DEF TypeOK
<1>4. /\ iterator' \in Iterator /\ iterator' # NULL
      /\ ~iterator'.visiting /\ iterator'.current = next
  BY <1>1, <1>2, <1>3 DEF Iterator
<1>5. CellsAhead = {c} \cup cells
  BY <1>1, <1>2, AheadIs
<1>6. c \notin cells /\ cells \subseteq Allocated
  BY <1>2, FromAfter, StepFacts
<1>7. From(pairs', next) = cells
  BY <1>2, FromRemoved, StepFacts
<1> HIDE DEF next
<1>8. CellsAhead' = cells
  <2>1. CellsAhead' = From(pairs', next)
    BY <1>4 DEF CellsAhead, Ahead, From
  <2> QED BY <1>7, <2>1
<1> HIDE DEF cells
<1>9. Todo = [sweep |-> TRUE, keys |-> KeysOf(pair, {c} \cup cells)]
  BY <1>1, <1>5, TodoIs
<1>10. Todo' = [sweep |-> TRUE, keys |-> KeysOf(pair', cells)]
  <2>1. Todo' = [sweep |-> TRUE, keys |-> KeysOf(pair', CellsAhead')]
    <3> DEFINE q == pair'
               qs == pairs'
               places == Ahead'
    <3>1. Todo' = [sweep |-> TRUE,
                   keys |-> {q[qs[i]].key : i \in {j \in places : q[qs[j]].occupied}}]
      BY <1>4 DEF Todo
    <3>2. CellsAhead' = {qs[i] : i \in places}
      BY DEF CellsAhead
    <3> HIDE DEF q, qs, places
    <3>3. {q[qs[i]].key : i \in {j \in places : q[qs[j]].occupied}}
              = KeysOf(q, {qs[i] : i \in places})
      BY DEF KeysOf
    <3>4. Todo' = [sweep |-> TRUE, keys |-> KeysOf(q, CellsAhead')]
      BY <3>1, <3>2, <3>3
    <3> QED BY <3>4 DEF q
  <2> QED BY <1>8, <2>1
<1>11. /\ KeysOf(pair', cells) = KeysOf(pair, cells)
       /\ ~pair[c].occupied => KeysOf(pair, {c} \cup cells) = KeysOf(pair, cells)
       /\ pair[c].occupied =>
             /\ pair[c].key \in KeysOf(pair, {c} \cup cells)
             /\ KeysOf(pair, {c} \cup cells) \ {pair[c].key} = KeysOf(pair, cells)
  <2>1. cells \in SUBSET DOMAIN pair /\ c \in DOMAIN pair /\ KeysDiffer(pair)
    BY <1>2, <1>6, StepFacts DEF Allocated
  <2>2. \A a \in cells : pair'[a] = pair[a]
    BY <1>6
  <2> QED BY <1>6, <2>1, <2>2, KeysAhead
<1> QED BY <1>2, <1>9, <1>10, <1>11

\* A look at the message under k.
LEMMA LookIs ==
    ASSUME NEW k \in Key, Todo.sweep, k \in Todo.keys,
           Todo' = [sweep |-> TRUE, keys |-> Todo.keys \ {k}],
           NEW left, left = Table[k].retries,
           Table' = [Table EXCEPT ![k] = IF left = 0
                                         THEN [held |-> FALSE]
                                         ELSE [held |-> TRUE, retries |-> left - 1]]
    PROVE  \E j \in Key : BufferTable!Look(j)
<1>1. BufferTable!Look(k)
  BY DEF BufferTable!Look, BufferTable!Sweep, BufferTable!Nothing, BufferTable!Message
<1> QED BY <1>1

\* Nothing is done about a pair that is young.
LEMMA YoungStep ==
    ASSUME IndInv, IndInv', NEW c \in Cell, Young(c)
    PROVE  (\E k \in Key : BufferTable!Look(k)) \/ UNCHANGED <<Table, Todo>>
<1>1. Visits(c) /\ pairs' = pairs /\ pair' = pair
  BY DEF Young
<1>2. /\ c \in Allocated /\ Todo.sweep
      /\ ~pair[c].occupied => Todo' = Todo
      /\ pair[c].occupied =>
            /\ pair[c].key \in Todo.keys
            /\ Todo' = [sweep |-> TRUE, keys |-> Todo.keys \ {pair[c].key}]
  BY <1>1, LookedAt
<1>3. Table' = Table /\ pair[c].key \in Key
  BY <1>1, <1>2, TableIs, StepFacts DEF Pair
<1> QED BY <1>2, <1>3 DEF BufferTable!Look, BufferTable!Sweep

\* One that has expired is dropped or has one retry less.
LEMMA ExpiredStep ==
    ASSUME IndInv, IndInv', NEW c \in Cell, Expired(c)
    PROVE  (\E k \in Key : BufferTable!Look(k)) \/ UNCHANGED <<Table, Todo>>
<1>1. Visits(c) /\ c \in Allocated /\ iterator.previous = c
  BY StepFacts DEF Expired, Visits, NoDangling
<1> DEFINE k == pair[c].key
<1>2. pair[c] \in Pair /\ k \in Key
  BY <1>1, StepFacts DEF Pair
<1>3. CASE pair[c].retries = 0 \/ ~pair[c].occupied
  <2>1. /\ pairs' = RemoveAt(pairs, Place(c))
        /\ pair' = [a \in Allocated \ {c} |-> pair[a]]
    BY <1>1, <1>3 DEF Expired, map_iterator_remove
  <2>2. Table' = [Table EXCEPT ![k] = [held |-> FALSE]]
    BY <1>1, <1>2, <2>1, StepFacts, RemovedEntry, TableIs
  <2>3. Table[k] = IF pair[c].occupied THEN [held |-> TRUE, retries |-> pair[c].retries]
                                       ELSE [held |-> FALSE]
    <3>1. \A a \in DOMAIN pair : pair[a].key = k => a = c
      BY <1>1, StepFacts DEF KeysDiffer, Allocated
    <3>2. c \in DOMAIN pair
      BY <1>1 DEF Allocated
    <3> QED BY <1>2, <3>1, <3>2, EntryOf, TableIs
  <2>4. /\ Todo.sweep
        /\ ~pair[c].occupied => Todo' = Todo
        /\ pair[c].occupied =>
              /\ k \in Todo.keys
              /\ Todo' = [sweep |-> TRUE, keys |-> Todo.keys \ {k}]
    BY <1>1, <2>1, LookedAt
  <2> HIDE DEF k
  <2>5. CASE pair[c].occupied
    <3> DEFINE left == Table[k].retries
    <3>1. left = 0
      BY <1>3, <2>3, <2>5
    <3>2. Table' = [Table EXCEPT ![k] = IF left = 0
                                        THEN [held |-> FALSE]
                                        ELSE [held |-> TRUE, retries |-> left - 1]]
      BY <2>2, <3>1
    <3>3. left = Table[k].retries
      OBVIOUS
    <3> HIDE DEF left
    <3> QED BY <1>2, <2>4, <2>5, <3>2, <3>3, LookIs
  <2>6. CASE ~pair[c].occupied
    <3>1. Table' = Table
      BY <1>2, <2>2, <2>3, <2>6 DEF Table
    <3> QED BY <2>4, <2>6, <3>1
  <2> QED BY <2>5, <2>6
<1>4. CASE ~(pair[c].retries = 0 \/ ~pair[c].occupied)
  <2> DEFINE new == [pair[c] EXCEPT !.retries = @ - 1]
  <2>1. pair' = [pair EXCEPT ![c] = new] /\ pairs' = pairs
    BY <1>4 DEF Expired
  <2>2. /\ new \in Pair /\ new.key = k /\ new.occupied
        /\ new.retries = pair[c].retries - 1
    BY <1>2, <1>4 DEF Pair
  <2> HIDE DEF new
  <2>3. Table' = [Table EXCEPT ![k] = [held |-> TRUE, retries |-> pair[c].retries - 1]]
    <3>1. /\ TableOf(pair') =
                 [TableOf(pair) EXCEPT ![new.key] = TableOf(pair')[new.key]]
          /\ TableOf(pair')[new.key] =
                 IF new.occupied THEN [held |-> TRUE, retries |-> new.retries]
                                 ELSE [held |-> FALSE]
      BY <1>1, <2>1, <2>2, StepFacts, ReplacedEntry
    <3>2. TableOf(pair')[k] = [held |-> TRUE, retries |-> pair[c].retries - 1]
      BY <2>2, <3>1
    <3>3. TableOf(pair') = [TableOf(pair) EXCEPT ![k] = TableOf(pair')[k]]
      BY <2>2, <3>1
    <3> QED BY <3>2, <3>3, TableIs
  <2>4. Table[k] = [held |-> TRUE, retries |-> pair[c].retries]
    <3>1. \A a \in DOMAIN pair : pair[a].key = k => a = c
      BY <1>1, StepFacts DEF KeysDiffer, Allocated
    <3>2. c \in DOMAIN pair
      BY <1>1 DEF Allocated
    <3> QED BY <1>2, <1>4, <3>1, <3>2, EntryOf, TableIs
  <2>5. /\ Todo.sweep /\ k \in Todo.keys
        /\ Todo' = [sweep |-> TRUE, keys |-> Todo.keys \ {k}]
    <3>1. \A a \in Allocated \ {c} : pair'[a] = pair[a]
      BY <2>1 DEF Allocated
    <3> QED BY <1>1, <1>4, <2>1, <3>1, LookedAt
  <2> DEFINE left == Table[k].retries
  <2>6. left = pair[c].retries /\ left # 0
    BY <1>4, <2>4
  <2> HIDE DEF k
  <2>7. Table' = [Table EXCEPT ![k] = IF left = 0
                                      THEN [held |-> FALSE]
                                      ELSE [held |-> TRUE, retries |-> left - 1]]
    BY <2>3, <2>6
  <2>8. left = Table[k].retries
    OBVIOUS
  <2> HIDE DEF left
  <2> QED BY <1>2, <2>5, <2>7, <2>8, LookIs
<1> QED BY <1>3, <1>4

\* At the end there is nothing ahead.
LEMMA EndStep ==
    ASSUME IndInv, IndInv', End
    PROVE  BufferTable!End
<1>1. /\ iterator # NULL /\ ~iterator.visiting /\ iterator.current = NULL
      /\ iterator' = NULL /\ pair' = pair
  BY DEF End
<1>2. \A i \in 1..Len(pairs) : pairs[i] # NULL
  BY StepFacts, InList, PlaceProperties
<1>3. pairs \in Seq(Cell)
  BY StepFacts DEF TypeOK
<1>4. CellsAhead = {}
  BY <1>1, <1>2, <1>3, AheadIs, FromNowhere
<1>5. KeysOf(pair, CellsAhead) = {}
  BY <1>4 DEF KeysOf
<1>6. Todo = [sweep |-> TRUE, keys |-> {}]
  BY <1>1, <1>5, TodoIs
<1>7. Todo' = [sweep |-> FALSE]
  BY <1>1 DEF Todo
<1>8. Table' = Table
  BY <1>1, TableIs
<1> QED BY <1>6, <1>7, <1>8 DEF BufferTable!End, BufferTable!NoSweep, BufferTable!Sweep

LEMMA TableStep ==
    ASSUME IndInv, IndInv', [Next]_vars
    PROVE  [BufferTable!Next]_<<Table, Todo>>
<1>1. CASE UNCHANGED vars
  BY <1>1 DEF vars, Table, Todo, HeldUnder, Ahead, Allocated
<1>2. ASSUME NEW k \in Key, Store(k) PROVE [BufferTable!Next]_<<Table, Todo>>
  BY <1>2, StoreStep DEF BufferTable!Next
<1>3. ASSUME NEW k \in Key, SynAck(k) PROVE [BufferTable!Next]_<<Table, Todo>>
  BY <1>3, CompleteStep DEF BufferTable!Next
<1>4. CASE Begin
  BY <1>4, BeginStep DEF BufferTable!Next
<1>5. CASE map_iterator_next
  BY <1>5, NextStep
<1>6. ASSUME NEW c \in Cell, Young(c) PROVE [BufferTable!Next]_<<Table, Todo>>
  BY <1>6, YoungStep DEF BufferTable!Next
<1>7. ASSUME NEW c \in Cell, Expired(c) PROVE [BufferTable!Next]_<<Table, Todo>>
  BY <1>7, ExpiredStep DEF BufferTable!Next
<1>8. CASE End
  BY <1>8, EndStep DEF BufferTable!Next
<1> QED BY <1>1, <1>2, <1>3, <1>4, <1>5, <1>6, <1>7, <1>8 DEF Next, SweepGoesOn

(***************************************************************************)
(* The list on the heap, searched and swept by an iterator that removes    *)
(* pairs under itself, implements the table that RMP relies on             *)
(* (map.c, message_buffers.c:73-91): one message per key, and a sweep that *)
(* looks once at each message held and touches no other.                   *)
(***************************************************************************)
THEOREM TableImplemented == Spec => ImplementsTable
<1>1. Init => BufferTable!Init
  BY DEF Init, BufferTable!Init, BufferTable!Nothing, BufferTable!NoSweep,
         Table, Todo, HeldUnder, Allocated
<1>2. IndInv /\ IndInv' /\ [Next]_vars => [BufferTable!Next]_<<Table, Todo>>
  BY TableStep
<1> QED BY <1>1, <1>2, IndAlways, PTL
        DEF Spec, ImplementsTable, BufferTable!Spec
=============================================================================
