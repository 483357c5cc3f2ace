-------------------------------- MODULE MCRMP --------------------------------
(***************************************************************************)
(* Instances of RMP for TLC: up to three processes A, B and C, each alone  *)
(* on its host or two on the same one.                                     *)
(***************************************************************************)
EXTENDS RMPInvariants, TLC

CONSTANTS A, B, C, H1, H2, H3

OwnHosts   == A :> H1 @@ B :> H2
SameHosts  == A :> H1 @@ B :> H1 @@ C :> H2
ThreeHosts == A :> H1 @@ B :> H2 @@ C :> H3

OneOne     == A :> 1 @@ B :> 1
TwoOneNone == A :> 2 @@ B :> 1 @@ C :> 0
OneOneNone == A :> 1 @@ B :> 1 @@ C :> 0
Listening  == A :> 2 @@ B :> 2 @@ C :> 0

NoFaults   == {}
LossOnly   == {"lose"}
FifoFaults == {"lose", "delay", "crash", "sendError"}
=============================================================================
