----------------------------- MODULE MCCrawler ------------------------------
(* Crawler on small sites. *)
EXTENDS Crawler, TLC

CONSTANTS a, b, c, w1, w2

MCThreads == Workers \cup {MainThread}
MCUrlLists == {<<>>} \cup {<<r>> : r \in Requests}
                     \cup {<<r, s>> : r \in Requests, s \in Requests}

(* A page with two lists of links to two and three others. *)
Three == {a, b, c}
ThreeChains == [r \in Three |-> <<r>>]
ThreeLists == [r \in Three |-> IF r = a THEN <<<<b>>, <<c>>>> ELSE <<>>]

(* Two pages that link to each other. *)
Two == {a, b}
TwoChains == (a :> <<a>>) @@ (b :> <<b>>)
TwoLists == (a :> <<<<b>>>>) @@ (b :> <<<<a>>>>)

(* A page with a link to one that redirects to a third, which links back. *)
LoopChains == (a :> <<a>>) @@ (b :> <<b, c>>) @@ (c :> <<c>>)
LoopLists == (a :> <<<<b, c>>>>) @@ (b :> <<>>) @@ (c :> <<<<>>, <<a>>>>)

NoLimit == {-1}
LimitOfTwo == {-1, 2}
OneWorker == {w1}
TwoWorkers == {w1, w2}
Symmetry == Permutations(Workers)
=============================================================================
