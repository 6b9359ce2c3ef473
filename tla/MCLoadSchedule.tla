--------------------------- MODULE MCLoadSchedule ---------------------------
(* LoadSchedule on three requests, two threads and lists of two requests. *)
EXTENDS LoadSchedule, TLC

CONSTANTS a, b, c, t1, t2

MCRequests == {a, b, c}
MCThreads == {t1, t2}
MCLimits == {-1, 1, 2}
MCUrlLists == UNION {[1..n -> MCRequests] : n \in 0..2}
MCSymmetry == Permutations(MCRequests) \cup Permutations(MCThreads)
=============================================================================
