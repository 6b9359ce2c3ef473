----------------------------- MODULE Messaging ------------------------------
(***************************************************************************)
(* A MultiRequestPageLoader on its worker's thread and a download handler  *)
(* on another, and what passes between them: Requester, Message,           *)
(* MessageQueue, ThreadMessageDispatcher and HandlerRegistry.              *)
(*                                                                         *)
(* start() and postResponse both add to the queue of the loader's thread,  *)
(* and its dispatcher empties it at each tick of a timer, the last message *)
(* first: a request goes on to the event loop of the handler, a response   *)
(* to its callback at once.  Messages and queued calls share ownership of  *)
(* their Requester, the handler holds weak pointers.  A handler is         *)
(* modelled by what MultiSocket shows of it.  Requester::stop is called by *)
(* nobody, and handlers are unregistered only when the threads are gone.   *)
(***************************************************************************)
EXTENDS Naturals, Sequences, FiniteSets, SequencesExt

CONSTANTS
  Requesters,   \* the requests that performLoading may start
  MaxChanges,   \* bound on the calls of setReceiveState
  MaxClears     \* bound on the calls of clear

ASSUME BoundsAssumption == MaxChanges \in Nat /\ MaxClears \in Nat

VARIABLES
  canReceive,        \* m_state = CanReceivePages
  activeRequesters,  \* keys of m_activeRequesters
  aboutClearData,    \* keys of m_onAboutClearData
  started,           \* requests that performLoading has started
  changes, clears,   \* calls of setReceiveState and clear so far
  cleared,           \* requests that a clear has asked to be reset
  processed,         \* processed[r]: calls of onLoadingDone for r
  messages,          \* m_messages of the loader's thread
  executing,         \* that thread is in ThreadMessageDispatcher::execute
  invocations,       \* queued calls of handleRequest
  loading,           \* requests the handler is loading, or keeps waiting
  paused             \* m_pausedRequesters of the handler

loaderVars == <<canReceive, activeRequesters, aboutClearData, started,
                changes, clears, cleared, processed>>
handlerVars == <<loading, paused>>
messagingVars == <<loaderVars, messages, executing, invocations, handlerVars>>

RequestTypes == {"download", "pause", "unpause", "reset"}
ResponseTypes == {"downloaded", "resetDone"}
Messages ==
  [type : RequestTypes \cup ResponseTypes, requesters : SUBSET Requesters]

MessagingTypeOK ==
  /\ canReceive \in BOOLEAN /\ executing \in BOOLEAN
  /\ activeRequesters \subseteq started /\ started \subseteq Requesters
  /\ aboutClearData \subseteq cleared /\ cleared \subseteq started
  /\ changes \in 0..MaxChanges /\ clears \in 0..MaxClears
  /\ processed \in [Requesters -> Nat]
  /\ messages \in Seq(Messages)
  /\ invocations \in Seq({m \in Messages : m.type \in RequestTypes})
  /\ loading \subseteq started /\ paused \subseteq started

MessagingInit ==
  /\ canReceive = TRUE
  /\ activeRequesters = {} /\ aboutClearData = {}
  /\ started = {} /\ changes = 0 /\ clears = 0 /\ cleared = {}
  /\ processed = [r \in Requesters |-> 0]
  /\ messages = <<>> /\ executing = FALSE /\ invocations = <<>>
  /\ loading = {} /\ paused = {}

(* addMessage; a request of one Requester, or about those of a list. *)
AddMessage(type, rs) ==
  messages' = Append(messages, [type |-> type, requesters |-> rs])

-----------------------------------------------------------------------------
(* The loader.                                                             *)

PerformLoading(r) ==
  /\ ~executing
  /\ canReceive
  /\ r \notin started
  /\ AddMessage("download", {r})
  /\ started' = started \cup {r}
  /\ activeRequesters' = activeRequesters \cup {r}
  /\ UNCHANGED <<canReceive, aboutClearData, changes, clears, cleared,
                 processed, executing, invocations, handlerVars>>

(* Faulty: stopping the worker forgets what is active. *)
SetReceiveStateForgets(can) ==
  /\ ~executing
  /\ changes < MaxChanges
  /\ changes' = changes + 1
  /\ canReceive' = can
  /\ AddMessage(IF can THEN "unpause" ELSE "pause", activeRequesters)
  /\ activeRequesters' = IF can THEN activeRequesters ELSE {}
  /\ UNCHANGED <<aboutClearData, started, clears, cleared, processed,
                 executing, invocations, handlerVars>>

(* Starting the worker unpauses what is active, stopping it pauses it. *)
SetReceiveState(can) ==
  /\ ~executing
  /\ changes < MaxChanges
  /\ changes' = changes + 1
  /\ canReceive' = can
  /\ AddMessage(IF can THEN "unpause" ELSE "pause", activeRequesters)
  /\ UNCHANGED <<activeRequesters, aboutClearData, started, clears, cleared,
                 processed, executing, invocations, handlerVars>>

(* Faulty: what is reset stays in m_activeRequesters. *)
ClearKept ==
  /\ ~executing
  /\ ~canReceive
  /\ clears < MaxClears
  /\ clears' = clears + 1
  /\ AddMessage("reset", activeRequesters)
  /\ cleared' = cleared \cup activeRequesters
  /\ aboutClearData' = activeRequesters
  /\ UNCHANGED <<canReceive, activeRequesters, started, changes, processed,
                 executing, invocations, handlerVars>>

(* clear, of a stopped worker; what an earlier clear has left in           *)
(* m_onAboutClearData is dropped.                                          *)
Clear ==
  /\ ~executing
  /\ ~canReceive
  /\ clears < MaxClears
  /\ clears' = clears + 1
  /\ AddMessage("reset", activeRequesters)
  /\ cleared' = cleared \cup activeRequesters
  /\ aboutClearData' = activeRequesters
  /\ activeRequesters' = {}
  /\ UNCHANGED <<canReceive, started, changes, processed, executing,
                 invocations, handlerVars>>

OnLoadingDone(rs) ==
  /\ processed' = [r \in Requesters |->
                     processed[r] + IF r \in rs THEN 1 ELSE 0]
  /\ activeRequesters' = activeRequesters \ rs
  /\ UNCHANGED <<canReceive, aboutClearData, started, changes, clears,
                 cleared>>

OnResetConnectionsResponse ==
  /\ aboutClearData' = {}
  /\ UNCHANGED <<canReceive, activeRequesters, started, changes, clears,
                 cleared, processed>>

-----------------------------------------------------------------------------
(* ThreadMessageDispatcher of the loader's thread.                         *)

TimerEvent ==
  /\ ~executing
  /\ messages # <<>>
  /\ executing' = TRUE
  /\ UNCHANGED <<loaderVars, messages, invocations, handlerVars>>

(* Faulty: the whole queue is taken for one message. *)
NothingLeft == <<>>

(* extractMessage *)
Extracted == Last(messages)

(* extractMessage: m_messages.pop_back *)
Rest == Front(messages)

(* Faulty: a response goes the way of a request. *)
ExecuteForwards ==
  /\ executing
  /\ messages # <<>>
  /\ messages' = Rest
  /\ invocations' = Append(invocations, Extracted)
  /\ UNCHANGED <<loaderVars, executing, handlerVars>>

(* One turn of the loop in execute. *)
Execute ==
  /\ executing
  /\ messages # <<>>
  /\ messages' = Rest
  /\ CASE Extracted.type \in RequestTypes ->
            invocations' = Append(invocations, Extracted)
              /\ UNCHANGED loaderVars
       [] Extracted.type = "downloaded" ->
            OnLoadingDone(Extracted.requesters) /\ UNCHANGED invocations
       [] Extracted.type = "resetDone" ->
            OnResetConnectionsResponse /\ UNCHANGED invocations
  /\ UNCHANGED <<executing, handlerVars>>

(* The queue was empty, although it may be so no more. *)
ExecuteReturns ==
  /\ executing
  /\ messages = <<>>
  /\ executing' = FALSE
  /\ UNCHANGED <<loaderVars, messages, invocations, handlerVars>>

-----------------------------------------------------------------------------
(* The handler on its own thread.                                          *)

(* Faulty: a reset of what is not being loaded is not answered. *)
AnswerResetOfLoads(rs) ==
  IF rs \cap loading # {} THEN AddMessage("resetDone", {})
                          ELSE UNCHANGED messages

(* resetConnections: its response is posted at once. *)
AnswerReset(rs) == AddMessage("resetDone", {})

(* handleRequest, one request of the thread's event loop. *)
HandleRequest ==
  /\ invocations # <<>>
  /\ invocations' = Tail(invocations)
  /\ LET type == Head(invocations).type
         rs == Head(invocations).requesters
     IN  /\ loading' = CASE type = "download" -> loading \cup rs
                         [] type = "reset" -> loading \ rs
                         [] OTHER -> loading
         /\ paused' = CASE type = "pause" -> paused \cup rs
                        [] type \in {"unpause", "reset"} -> paused \ rs
                        [] OTHER -> paused
         /\ IF type = "reset" THEN AnswerReset(rs)
                              ELSE UNCHANGED messages
  /\ UNCHANGED <<loaderVars, executing>>

(* A Requester lives on while its loader keeps it, or a message or queued  *)
(* call that is its own.                                                   *)
Owns(m, r) == m.type \in {"download", "downloaded"} /\ r \in m.requesters

Alive(r) ==
  \/ r \in activeRequesters \cup aboutClearData
  \/ \E m \in ToSet(messages) \cup ToSet(invocations) : Owns(m, r)

(* Faulty: the load is answered and stays with the handler. *)
PostResponseKept(r) ==
  /\ r \in loading
  /\ Alive(r)
  /\ AddMessage("downloaded", {r})
  /\ paused' = paused \ {r}
  /\ UNCHANGED <<loaderVars, executing, invocations, loading>>

(* A page is there; when its Requester is gone it is thrown away. *)
PostResponse(r) ==
  /\ r \in loading
  /\ loading' = loading \ {r}
  /\ IF Alive(r) THEN /\ AddMessage("downloaded", {r})
                      /\ paused' = paused \ {r}
                 ELSE UNCHANGED <<messages, paused>>
  /\ UNCHANGED <<loaderVars, executing, invocations>>

-----------------------------------------------------------------------------
MessagingNext ==
  \/ \E r \in Requesters : PerformLoading(r)
  \/ \E can \in BOOLEAN : SetReceiveState(can)
  \/ Clear
  \/ TimerEvent \/ Execute \/ ExecuteReturns
  \/ HandleRequest
  \/ \E r \in Requesters : PostResponse(r)

MessagingSpec == MessagingInit /\ [][MessagingNext]_messagingVars

(* Both threads run, the handler's too unless a reset hangs it (hung, in   *)
(* MultiSocket).  Of its answers nothing is assumed: what waits for a free *)
(* transfer, or loads without a timeout, may do so for ever.               *)
FairMessagingSpec ==
  /\ MessagingSpec
  /\ WF_messagingVars(TimerEvent \/ Execute \/ ExecuteReturns)
  /\ WF_messagingVars(HandleRequest)

-----------------------------------------------------------------------------
(* Where a request is between its start and its answer. *)
Places(r) ==
  ({"message"} \X {i \in DOMAIN messages : Owns(messages[i], r)})
    \cup ({"call"} \X {i \in DOMAIN invocations : Owns(invocations[i], r)})
    \cup ({"handler"} \X ({r} \cap loading))

(* A load that no clear has named is on its way in exactly one place, in   *)
(* whatever order the two threads and the last-in first-out queue take its *)
(* messages: none is lost, none doubled.                                   *)
NoLoadIsLost == \A r \in activeRequesters : Cardinality(Places(r)) = 1

(* pageLoaded is emitted at most once for a load, and while the load is    *)
(* still to be answered not at all.                                        *)
DeliveredOnce ==
  \A r \in Requesters : processed[r] + Cardinality(Places(r)) <= 1

(* onLoadingDone asserts that its Requester is in one of the two maps.     *)
(* This holds of every answer to a load that has not been cleared.         *)
AnswersAreExpected ==
  \A m \in ToSet(messages) : m.type = "downloaded" =>
    m.requesters \subseteq activeRequesters \cup cleared

(* Requests and answers arrive: what performLoading has started comes to   *)
(* the handler, and what the handler has answered to onLoadingDone, unless *)
(* a clear comes first.  No message is left at the bottom of the queue.    *)
LoadsArrive ==
  \A r \in Requesters :
    r \in activeRequesters /\ r \notin loading
      ~> r \in loading \/ r \notin activeRequesters

(* What clear keeps for the answer to its reset request is let go, when    *)
(* the handler's thread runs.                                              *)
ClearEnds == aboutClearData # {} ~> aboutClearData = {}
=============================================================================
