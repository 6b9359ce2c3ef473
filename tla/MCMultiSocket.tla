---------------------------- MODULE MCMultiSocket ---------------------------
(* Small instances of MultiSocket. *)
EXTENDS MultiSocket, TLC

CONSTANTS r1, r2, a, b

TwoRequesters == {r1, r2}
First == {r1}
AB == {a, b}
AskedTwo == [r \in {r1, r2} |-> a]
=============================================================================
