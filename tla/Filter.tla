-------------------------------- MODULE Filter --------------------------------
(***************************************************************************)
(* Iterator::filter, as a recursive function.                              *)
(***************************************************************************)
EXTENDS Integers, Sequences

\* The elements of s that belong to S, in their order.
Sift(s, S) ==
    LET f[n \in Nat] ==
            IF n = 0 THEN << >>
            ELSE IF s[n] \in S THEN Append(f[n - 1], s[n]) ELSE f[n - 1]
    IN f[Len(s)]
===============================================================================
