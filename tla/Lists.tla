-------------------------------- MODULE Lists --------------------------------
(***************************************************************************)
(* Array.prototype.filter for a condition that is membership in a set, and *)
(* ORDER BY for an order that is a set of pairs.  They are SelectSeq and   *)
(* SetToSortSeq written without operators as parameters, which the provers *)
(* do not expand.                                                          *)
(***************************************************************************)
EXTENDS Integers, Sequences, FiniteSets

Filter(s, T) ==
  LET K[n \in 0..Len(s)] ==
        IF n = 0 THEN <<>> ELSE IF s[n] \in T THEN Append(K[n - 1], s[n]) ELSE K[n - 1]
  IN  K[Len(s)]

\* Each member of S stands at the place the number of those before it gives.
Behind(S, before, n) == CHOOSE x \in S : Cardinality({y \in S : <<y, x>> \in before}) = n
Ordered(S, before) == [i \in 1..Cardinality(S) |-> Behind(S, before, i - 1)]
=============================================================================
