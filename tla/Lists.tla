------------------------------ MODULE Lists -------------------------------
(* Lists of the program as sequences, for what the libraries have only     *)
(* with the name of a predicate or an order for a parameter.               *)
EXTENDS Integers, FiniteSets, SequencesExt

(* What is left of a list when these elements are erased, one by one. *)
Without(s, removed) ==
  LET kept[n \in 0..Len(s)] ==
        IF n = 0 THEN <<>>
        ELSE IF s[n] \in removed THEN kept[n - 1]
        ELSE Append(kept[n - 1], s[n])
  IN  kept[Len(s)]

(* The elements of a list that are wanted. *)
OnlyIn(s, wanted) == Without(s, ToSet(s) \ wanted)

(* The numbers of a set from the least on: each has as many that are not   *)
(* greater as its place says.                                              *)
InOrder(S) ==
  [i \in 1..Cardinality(S) |->
     CHOOSE n \in S : Cardinality({m \in S : m <= n}) = i]
=============================================================================
