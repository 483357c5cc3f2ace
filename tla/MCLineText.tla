------------------------------ MODULE MCLineText ------------------------------
(***************************************************************************)
(* An instance of LineText for TLC.  The short chunks are made of letters  *)
(* and of bytes that the key, at one of the first places, turns into NUL   *)
(* (141, 137), newline (151) or a tab (150); the long ones go through the  *)
(* whole key and beyond the room in one message or both.                   *)
(***************************************************************************)
EXTENDS LineText

Some == {10, 97, 126, 137, 141, 150, 151}

Short == [1..2 -> Some] \cup [1..3 -> Some]

Long == {[i \in 1..n |-> IF i = n THEN 10 ELSE 32 + i] : n \in 5..15}

ShortAndLong == Short \cup Long

Leftovers == {<<>>, <<0>>, <<97, 10, 0>>, <<32, 200, 98, 98>>}
=============================================================================
