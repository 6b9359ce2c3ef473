--------------------------- MODULE CrawlFrontier ---------------------------
(***************************************************************************)
(* What the crawl schedule promises, without threads, limits or loading:   *)
(* a request waits at most once and is handed out at most once between two *)
(* calls that forget the whole session.                                    *)
(***************************************************************************)
CONSTANT Requests

VARIABLES waiting,   \* requests nobody has taken yet
          done       \* requests handed out, or reached by a redirect

vars == <<waiting, done>>

Init == waiting = {} /\ done = {}

(* A request seen for the first time starts to wait. *)
Discover(r) ==
  /\ r \notin waiting \cup done
  /\ waiting' = waiting \cup {r}
  /\ UNCHANGED done

(* A waiting request is taken for loading, or found loaded as the target   *)
(* of a redirect; the latter may happen before it was ever discovered.     *)
Finish(r) ==
  /\ r \notin done
  /\ waiting' = waiting \ {r}
  /\ done' = done \cup {r}

Forget == waiting' = {} /\ done' = {}

Next == (\E r \in Requests : Discover(r) \/ Finish(r)) \/ Forget

Spec == Init /\ [][Next]_vars
=============================================================================
