-------------------------------- MODULE MCChat --------------------------------
(***************************************************************************)
(* Instances of Chat for TLC: groups of up to three processes led by one   *)
(* of them, or two and some who want to join.                              *)
(***************************************************************************)
EXTENDS ChatInvariants

CONSTANTS A, B, C, D

Names     == A :> 1 @@ B :> 2 @@ C :> 3
SameNames == A :> 1 @@ B :> 2 @@ C :> 3 @@ D :> 2

AThenC == <<A, C>>
LedByB == <<B, A, C>>

OneCrash          == [crash |-> 1, timeout |-> 0]
TwoCrashesOneLate == [crash |-> 2, timeout |-> 1]
=============================================================================
