---------------------------- MODULE MCQtDownload ----------------------------
(* Small instances of QtDownload. *)
EXTENDS QtDownload

CONSTANTS r1, r2, a, b

OneRequester == {r1}
TwoRequesters == {r1, r2}
AB == {a, b}
AskedOne == [r \in {r1} |-> a]
AskedTwo == [r \in {r1, r2} |-> IF r = r1 THEN a ELSE b]
OneHop == {1}
NoLimit == {-1}
AnyLimit == {-1, 1, 3}
=============================================================================
