---------------------------- MODULE HoldingBuffers ----------------------------
(***************************************************************************)
(* The holding buffers of message_buffers.c in the map of structures/map.c *)
(* that get_receive_buffer creates: a LIST of pairs on the heap, searched  *)
(* from its head, and an iterator that removes pairs from the list it      *)
(* walks along.  The pairs are known by their address, a Cell: one that    *)
(* has been freed may be handed out again.                                 *)
(*                                                                         *)
(* A receive call sweeps the map (clean_receive_buffer), then stores a     *)
(* DATA, completes a message, or does neither.                             *)
(***************************************************************************)
EXTENDS Integers, Sequences, SequencesExt

CONSTANTS
    Key,         \* what rmp_address_hash gives
    Cell,        \* addresses malloc has for pairs
    NULL,
    NUM_RETRIES, \* retries of the ACK of a held message
    MaxStores    \* bound: DATA that are stored in all

\* Where a sweep is (map_iterator): the pair to go on with, the pair that was
\* returned last, and whether that one has still to be looked at.
Iterator == [current: Cell \cup {NULL}, previous: Cell \cup {NULL},
             visiting: BOOLEAN]

ASSUME BuffersAssumption ==
    /\ NULL \notin Cell \cup Iterator
    /\ NUM_RETRIES \in Nat
    /\ MaxStores \in Nat

VARIABLES
    pairs,    \* map.pairs: the addresses of the pairs, in their order
    pair,     \* what is at the addresses that are allocated
    size,     \* map.size
    iterator, \* the iterator of the sweep in progress, or NULL
    stores    \* number of DATA stored so far

vars == <<pairs, pair, size, iterator, stores>>

Allocated == DOMAIN pair

\* A pair with the holding buffer it points to.
Pair == [key: Key, occupied: BOOLEAN, retries: 0..NUM_RETRIES]

TypeOK ==
    /\ pairs \in Seq(Cell)
    /\ Allocated \subseteq Cell
    /\ pair \in [Allocated -> Pair]
    /\ size \in Int
    /\ iterator \in Iterator \cup {NULL}
    /\ stores \in 0..MaxStores

\* map_new.
Init ==
    /\ pairs = <<>>
    /\ pair = [c \in {} |-> NULL]
    /\ size = 0
    /\ iterator = NULL
    /\ stores = 0

-----------------------------------------------------------------------------
(* The map *)

First == IF pairs = <<>> THEN NULL ELSE Head(pairs)

Place(c) == CHOOSE i \in DOMAIN pairs : pairs[i] = c

\* LIST_NEXT.
After(c) == IF Place(c) < Len(pairs) THEN pairs[Place(c) + 1] ELSE NULL

\* Mutant of find_pair_by_key: the loop ends before the last pair.
find_but_last(k) ==
    LET found == {i \in DOMAIN pairs : i < Len(pairs) /\ pair[pairs[i]].key = k}
    IN  IF found = {}
        THEN NULL
        ELSE pairs[CHOOSE i \in found : \A j \in found : i <= j]

\* The first pair with the key.
find_pair_by_key(k) ==
    LET found == {i \in DOMAIN pairs : pair[pairs[i]].key = k}
    IN  IF found = {}
        THEN NULL
        ELSE pairs[CHOOSE i \in found : \A j \in found : i <= j]

\* Mutant of map_iterator_remove: the pair that comes next is removed.
map_iterator_remove_current ==
    LET c == IF iterator.current = NULL THEN iterator.previous
             ELSE iterator.current
    IN  /\ pairs' = RemoveAt(pairs, Place(c))
        /\ pair' = [a \in Allocated \ {c} |-> pair[a]]
        /\ size' = size - 1

\* LIST_REMOVE and free.
map_iterator_remove ==
    /\ pairs' = RemoveAt(pairs, Place(iterator.previous))
    /\ pair' = [a \in Allocated \ {iterator.previous} |-> pair[a]]
    /\ size' = size - 1

-----------------------------------------------------------------------------
(* The receive call *)

Buffer(k, occupied, retries) ==
    [key |-> k, occupied |-> occupied, retries |-> retries]

Data(k) == Buffer(k, TRUE, NUM_RETRIES)

\* map_put of a new pair, in front of the others.  If malloc has none left,
\* map_put fails, which nobody asks, and the buffer is nowhere in the map.
Insert(new) ==
    \/ \E c \in Cell \ Allocated :
           /\ pairs' = <<c>> \o pairs
           /\ pair' = [a \in Allocated \cup {c} |->
                          IF a = c THEN new ELSE pair[a]]
           /\ size' = size + 1
    \/ /\ Cell = Allocated
       /\ UNCHANGED <<pairs, pair, size>>

\* A DATA is stored in the buffer that get_receive_buffer_for finds or makes.
Store(k) ==
    LET c == find_pair_by_key(k)
    IN  /\ iterator = NULL
        /\ stores < MaxStores
        /\ stores' = stores + 1
        /\ IF c = NULL
           THEN Insert(Data(k))
           ELSE pair' = [pair EXCEPT ![c] = Data(k)] /\ UNCHANGED <<pairs, size>>
        /\ UNCHANGED iterator

\* A SYN_ACK completes the message under its key; if there is no buffer, it
\* gets one that is not occupied, whose other fields nobody sets or needs.
SynAck(k) ==
    LET c == find_pair_by_key(k)
    IN  /\ iterator = NULL
        /\ IF c = NULL
           THEN Insert(Buffer(k, FALSE, 0))
           ELSE /\ pair' = [pair EXCEPT ![c].occupied = FALSE]
                /\ UNCHANGED <<pairs, size>>
        /\ UNCHANGED <<iterator, stores>>

\* iterate_over_send_buffer: a new iterator.
Begin ==
    /\ iterator = NULL
    /\ iterator' = [current |-> First, previous |-> NULL, visiting |-> FALSE]
    /\ UNCHANGED <<pairs, pair, size, stores>>

\* Mutant of map_iterator_next: the place in the list is left as it is.
map_iterator_again ==
    /\ iterator # NULL
    /\ ~iterator.visiting
    /\ iterator.current # NULL
    /\ iterator' = [iterator EXCEPT !.previous = iterator.current,
                                    !.visiting = TRUE]
    /\ UNCHANGED <<pairs, pair, size, stores>>

map_iterator_next ==
    /\ iterator # NULL
    /\ ~iterator.visiting
    /\ iterator.current # NULL
    /\ iterator' = [current |-> After(iterator.current),
                    previous |-> iterator.current,
                    visiting |-> TRUE]
    /\ UNCHANGED <<pairs, pair, size, stores>>

\* maintain_buffer_element looks at the pair that was returned last.
Visits(c) ==
    /\ iterator # NULL
    /\ iterator.visiting
    /\ iterator.previous = c
    /\ iterator' = [iterator EXCEPT !.visiting = FALSE]
    /\ UNCHANGED stores

\* It is younger than ACK_TIMEOUT_USEC.
Young(c) == Visits(c) /\ UNCHANGED <<pairs, pair, size>>

\* Mutant of Expired: the retries are not counted down.
ExpiredForEver(c) ==
    /\ Visits(c)
    /\ IF pair[c].retries = 0 \/ ~pair[c].occupied
       THEN map_iterator_remove
       ELSE UNCHANGED <<pairs, pair, size>>

\* Mutant of Expired: there is no last retry.
ExpiredUnchecked(c) ==
    /\ Visits(c)
    /\ IF ~pair[c].occupied
       THEN map_iterator_remove
       ELSE /\ pair' = [pair EXCEPT ![c].retries = @ - 1]
            /\ UNCHANGED <<pairs, size>>

\* It is older, and has its ACK sent again or is removed.
Expired(c) ==
    /\ Visits(c)
    /\ IF pair[c].retries = 0 \/ ~pair[c].occupied
       THEN map_iterator_remove
       ELSE /\ pair' = [pair EXCEPT ![c].retries = @ - 1]
            /\ UNCHANGED <<pairs, size>>

\* The iterator has come to the end; it is not freed.
End ==
    /\ iterator # NULL
    /\ ~iterator.visiting
    /\ iterator.current = NULL
    /\ iterator' = NULL
    /\ UNCHANGED <<pairs, pair, size, stores>>

SweepGoesOn == Begin \/ map_iterator_next \/ (\E c \in Cell : Young(c) \/ Expired(c)) \/ End

Next ==
    \/ \E k \in Key : Store(k) \/ SynAck(k)
    \/ SweepGoesOn

Spec == Init /\ [][Next]_vars

(***************************************************************************)
(* Fairness: receive calls are made again and again, as attemptSend and a  *)
(* readable socket do, and a message that stays gets older: it cannot be   *)
(* found young by all of them.                                             *)
(***************************************************************************)
ExpiredUnder(k) == \E c \in Allocated : pair[c].key = k /\ Expired(c)

FairSpec ==
    /\ Spec
    /\ WF_vars(SweepGoesOn)
    /\ \A k \in Key : SF_vars(ExpiredUnder(k))

-----------------------------------------------------------------------------
(* Properties *)

(***************************************************************************)
(* The list, the heap and the size agree: every pair that is allocated is  *)
(* in the list, once, under a key of its own, and no pair is in it that    *)
(* has been freed.                                                         *)
(***************************************************************************)
WellFormed ==
    /\ \A i, j \in DOMAIN pairs : pairs[i] = pairs[j] => i = j
    /\ Range(pairs) = Allocated
    /\ \A a, b \in Allocated : pair[a].key = pair[b].key => a = b
    /\ size = Len(pairs)

(***************************************************************************)
(* The iterator follows no pointer to a pair that has been freed, although *)
(* pairs are removed under it: the pair it goes on with is in the list,    *)
(* and the one it is to remove is in front of it.                          *)
(***************************************************************************)
NoDangling ==
    iterator # NULL =>
        /\ iterator.current \in Allocated \cup {NULL}
        /\ iterator.visiting =>
              /\ iterator.previous \in Allocated
              /\ iterator.current = After(iterator.previous)

\* The places in the list that the sweep has still to look at.
Ahead ==
    {i \in DOMAIN pairs :
        \/ iterator.visiting /\ pairs[i] = iterator.previous
        \/ \E j \in DOMAIN pairs : pairs[j] = iterator.current /\ j <= i}

HeldUnder(k) == {c \in Allocated : pair[c].key = k /\ pair[c].occupied}

\* The table that the map is: what is held under each key, ...
Table ==
    [k \in Key |->
        IF HeldUnder(k) = {}
        THEN [held |-> FALSE]
        ELSE [held |-> TRUE,
              retries |-> pair[CHOOSE c \in HeldUnder(k) : TRUE].retries]]

\* ... and the messages that the sweep has still to look at.
Todo ==
    IF iterator = NULL
    THEN [sweep |-> FALSE]
    ELSE [sweep |-> TRUE,
          keys |-> {pair[pairs[i]].key :
                       i \in {j \in Ahead : pair[pairs[j]].occupied}}]

BufferTable == INSTANCE BufferTable WITH
    Key <- Key, NUM_RETRIES <- NUM_RETRIES, held <- Table, todo <- Todo

(***************************************************************************)
(* The map with its iterator is a table: each sweep looks at each message  *)
(* that is held once, whatever it removes on its way, and touches no other. *)
(***************************************************************************)
ImplementsTable == BufferTable!Spec

(***************************************************************************)
(* A process that goes on making receive calls does not hold an incomplete *)
(* message for ever.                                                       *)
(***************************************************************************)
HeldEnds == \A k \in Key : HeldUnder(k) # {} ~> HeldUnder(k) = {}
=============================================================================
