-------------------------------- MODULE MCWindow --------------------------------
(***************************************************************************)
(* An instance of Window for TLC: two processes, and one that may join.    *)
(***************************************************************************)
EXTENDS Window, ChatInvariants

CONSTANTS A, B, C

Names == A :> 1 @@ B :> 2 @@ C :> 3

CThenA == <<C, A>>

TwoCrashes == [crash |-> 2, timeout |-> 0]
=============================================================================
