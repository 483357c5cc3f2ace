-------------------------------- MODULE Lists --------------------------------
(***************************************************************************)
(* The loops over a list of participants that pass over some of them.      *)
(***************************************************************************)
EXTENDS Integers, Sequences

\* The elements of s at these places, in their order.  (A recursive function,
\* because the provers know nothing about SelectSeq.)
Selected(s, places) ==
    LET f[k \in 0..Len(s)] ==
            IF k = 0 THEN <<>>
            ELSE IF k \in places THEN Append(f[k - 1], s[k])
            ELSE f[k - 1]
    IN  f[Len(s)]
=============================================================================
