----------------------------- MODULE Downloads ------------------------------
(***************************************************************************)
(* What a download handler promises to those who send it requests: a       *)
(* request is answered once, by a chain of the pages it was redirected     *)
(* over that begins with the page asked for.                               *)
(***************************************************************************)
EXTENDS Sequences

CONSTANTS
  Requesters,  \* requests sent to the handler, one for each Requester
  Urls,        \* addresses
  Asked        \* Asked[r]: the address r asks for

VARIABLES
  taken,       \* requests the handler has been given
  answers      \* answers[r]: the chains posted to r

vars == <<taken, answers>>

Init == taken = {} /\ answers = [r \in Requesters |-> <<>>]

Take(r) ==
  /\ r \notin taken
  /\ taken' = taken \cup {r}
  /\ UNCHANGED answers

Answer(r) ==
  /\ r \in taken
  /\ answers[r] = <<>>
  /\ Len(answers'[r]) = 1
  /\ LET chain == answers'[r][1]
     IN  /\ chain \in Seq(Urls) \ {<<>>}
         /\ chain[1] = Asked[r]
         /\ answers' = [answers EXCEPT ![r] = <<chain>>]
  /\ UNCHANGED taken

Next == \E r \in Requesters : Take(r) \/ Answer(r)

Spec == Init /\ [][Next]_vars
=============================================================================
