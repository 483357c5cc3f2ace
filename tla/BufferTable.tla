------------------------------ MODULE BufferTable ------------------------------
(***************************************************************************)
(* What RMP relies on in its holding buffers: a table with one incomplete  *)
(* message per key at most.  A message is stored in it, completed, or, in  *)
(* a sweep, looked after: a sweep looks at every message that is held when *)
(* it begins, once, and nothing else happens meanwhile.  A message that is *)
(* looked after has one retry less, or is dropped if it has none left.     *)
(***************************************************************************)
EXTENDS Naturals

CONSTANTS
    Key,        \* what rmp_address_hash gives
    NUM_RETRIES \* retries of the ACK of a held message

VARIABLES
    held, \* for each key, the retries its message has left, or Nothing
    todo  \* keys of the messages the sweep has still to look at, or NoSweep

Nothing == [held |-> FALSE]
Message(retries) == [held |-> TRUE, retries |-> retries]

NoSweep == [sweep |-> FALSE]
Sweep(keys) == [sweep |-> TRUE, keys |-> keys]

Occupied == {k \in Key : held[k].held}

Init ==
    /\ held = [k \in Key |-> Nothing]
    /\ todo = NoSweep

Store(k) ==
    /\ todo = NoSweep
    /\ held' = [held EXCEPT ![k] = Message(NUM_RETRIES)]
    /\ UNCHANGED todo

Complete(k) ==
    /\ todo = NoSweep
    /\ held' = [held EXCEPT ![k] = Nothing]
    /\ UNCHANGED todo

Begin ==
    /\ todo = NoSweep
    /\ todo' = Sweep(Occupied)
    /\ UNCHANGED held

\* The message under k is too young, is retried, or is dropped.
Look(k) ==
    /\ todo.sweep
    /\ k \in todo.keys
    /\ todo' = Sweep(todo.keys \ {k})
    /\ held' \in {held,
                  [held EXCEPT ![k] = IF @.retries = 0
                                      THEN Nothing
                                      ELSE Message(@.retries - 1)]}

End ==
    /\ todo = Sweep({})
    /\ todo' = NoSweep
    /\ UNCHANGED held

Next ==
    \/ \E k \in Key : Store(k) \/ Complete(k) \/ Look(k)
    \/ Begin
    \/ End

Spec == Init /\ [][Next]_<<held, todo>>
=============================================================================
