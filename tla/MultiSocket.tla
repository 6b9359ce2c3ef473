---------------------------- MODULE MultiSocket -----------------------------
(***************************************************************************)
(* MultiSocketDownloadHandler and MultiSocketLoader on the downloader's    *)
(* thread: libcurl transfers, a queue for the requests above the limit of  *)
(* parallel transfers, redirects that are transfers of their own, and      *)
(* pausing, unpausing and resetting of requests that may be anywhere.      *)
(*                                                                         *)
(* libcurl is external.  It runs timerFunctionCallback from within its own *)
(* functions, with a timeout or without (TimerCallback); it notices the    *)
(* end of a transfer, paused or not (a timeout ends a paused one), in one  *)
(* of the actions.  The pause range of AbstractDownloadHandler is modelled *)
(* in QtDownload and not set here; get and head differ in no step; no      *)
(* request sets ignoreMaxParallelConnections.                              *)
(***************************************************************************)
EXTENDS Integers, FiniteSets, Sequences, SequencesExt, Lists

CONSTANTS
  Requesters,    \* each Requester sends one download request
  Urls,
  Asked,         \* Asked[r]: requestInfo.url of the request of r
  MaxParallel,   \* maxParrallelConnections()
  MaxRedirects,  \* maxRedirectsToFollow (not positive: no limit)
  Timed,         \* those loaded while m_timeoutMilliseconds is not zero
  MaxCalls       \* bound on the pause, unpause and reset requests

NoRedirect == "no redirect"

ASSUME RequestersAssumption == IsFiniteSet(Requesters) /\ IsFiniteSet(Urls)
ASSUME AskedAssumption == Asked \in [Requesters -> Urls]
ASSUME UrlsAssumption == NoRedirect \notin Urls
ASSUME TimedAssumption == Timed \subseteq Requesters
ASSUME LimitsAssumption ==
  MaxParallel \in Nat \ {0} /\ MaxRedirects \in Int /\ MaxCalls \in Nat

VARIABLES
  taken, expired,     \* requesters handed over, and those destroyed since
  calls,              \* pause, unpause and reset requests so far
  dropped,            \* requesters that a reset has named
  hung,               \* the handler's thread is in a loop without an end
  answers,            \* answers[r]: the chains posted to the thread of r
  pendingRequesters, pausedRequesters,
  activeRequesters,   \* keys of m_activeRequesters
  redirects,          \* keys of m_redirectRequestIdToParentId
  redirectLists,      \* keys of m_parentIdToRedirectIds
  responses,          \* m_responses, of the first id of each requester
  address,            \* address[r]: the address of the last transfer for r
  descriptors,        \* keys of m_activeRequestDescriptors
  transfers,          \* libcurl: transfers under way
  finished,           \* libcurl: the messages of transfers that have ended
  stillRunning,       \* libcurl's last word on the number of transfers
  loaded              \* the queued calls of onUrlLoaded

callVars == <<taken, expired, calls, dropped, hung>>
waitVars == <<pendingRequesters, pausedRequesters>>
tableVars == <<activeRequesters, redirects, redirectLists, responses, address>>
curlVars == <<descriptors, transfers, finished, stillRunning, loaded>>
socketVars == <<callVars, answers, waitVars, tableVars, curlVars>>

(* The id of the hop-th transfer for a requester: it is followed by the    *)
(* id of the redirect, the only element of its list.                       *)
Ids == [requester : Requesters, hop : Nat \ {0}]
FirstId(r) == [requester |-> r, hop |-> 1]
NextId(id) == [id EXCEPT !.hop = @ + 1]

SocketTypeOK ==
  /\ expired \subseteq taken /\ taken \subseteq Requesters
  /\ calls \in 0..MaxCalls
  /\ dropped \subseteq Requesters
  /\ hung \in BOOLEAN
  /\ answers \in [Requesters -> Seq(Seq(Urls))]
  /\ pendingRequesters \in Seq(Requesters)
  /\ pausedRequesters \subseteq Requesters
  /\ activeRequesters \subseteq {FirstId(r) : r \in Requesters}
  /\ redirects \subseteq Ids /\ redirectLists \subseteq Ids
  /\ responses \in [Requesters -> Seq(Urls)]
  /\ address \in [Requesters -> Urls]
  /\ transfers \subseteq descriptors /\ descriptors \subseteq Ids
  /\ ToSet(finished) \subseteq descriptors \ transfers
  /\ stillRunning \in Nat
  /\ loaded \in Seq(Ids)

SocketInit ==
  /\ taken = {} /\ expired = {} /\ calls = 0 /\ dropped = {} /\ hung = FALSE
  /\ answers = [r \in Requesters |-> <<>>]
  /\ pendingRequesters = <<>> /\ pausedRequesters = {}
  /\ activeRequesters = {} /\ redirects = {} /\ redirectLists = {}
  /\ responses = [r \in Requesters |-> <<>>]
  /\ address = Asked
  /\ descriptors = {} /\ transfers = {} /\ finished = <<>>
  /\ stillRunning = 0
  /\ loaded = <<>>

-----------------------------------------------------------------------------
(* The tables of ids.                                                      *)

(* The redirects that led to this id, itself included. *)
RedirectsTo(id) ==
  {p \in redirects :
     /\ p.requester = id.requester
     /\ \A h \in p.hop..id.hop : [id EXCEPT !.hop = h] \in redirects
     /\ p.hop <= id.hop}

(* parentIdFor, or the id itself when it has no parent. *)
Root(id) == [id EXCEPT !.hop = @ - Cardinality(RedirectsTo(id))]

(* The requester behind an id is found, and still alive. *)
RequesterFound(id) ==
  /\ id \in activeRequesters \/ Root(id) \in activeRequesters
  /\ id.requester \notin expired

(* Faulty: m_parentIdToRedirectIds is forgotten. *)
RemoveRedirectParentsOnly(ids) ==
  /\ redirects' = redirects \ UNION {RedirectsTo(id) : id \in ids}
  /\ UNCHANGED redirectLists

RemoveRequestIndexesChains(ids) ==
  /\ redirects' = redirects \ UNION {RedirectsTo(id) : id \in ids}
  /\ redirectLists' =
       redirectLists \ {Root(id) : id \in {i \in ids : RedirectsTo(i) # {}}}

(* Faulty: the id of the first transfer, redirected or not. *)
FirstRequestIndexes(rs) ==
  {id \in activeRequesters : id.requester \in rs \ expired}

(* The ids by which pause, unpause and reset know these requesters. *)
ActiveRequestIndexes(rs) ==
  {IF id \in redirectLists THEN NextId(id) ELSE id :
     id \in {i \in activeRequesters : i.requester \in rs \ expired}}

ForgetLoaded(id) ==
  /\ activeRequesters' = activeRequesters \ {Root(id)}
  /\ responses' = [responses EXCEPT
                     ![id.requester] = IF Root(id).hop = 1 THEN <<>> ELSE @]
  /\ RemoveRequestIndexesChains({id})
  /\ UNCHANGED address

-----------------------------------------------------------------------------
(* libcurl.                                                                *)

(* Faulty: if instead of while, the other messages are lost. *)
CheckFirstInfo(ds, queue) ==
  /\ finished' = <<>>
  /\ loaded' = IF finished = <<>> THEN queue ELSE Append(queue, Head(finished))
  /\ descriptors' = ds \ ToSet(finished)

(* checkMultiInfo: what has ended is announced and its descriptor deleted. *)
CheckMultiInfo(ds, queue) ==
  /\ finished' = <<>>
  /\ loaded' = queue \o finished
  /\ descriptors' = ds \ ToSet(finished)

(* What a function of libcurl does at its end: it asks for a timer, or     *)
(* makes timerFunctionCallback run timeoutAction at once.                  *)
TimerCallback(ds, queue, count) ==
  \/ /\ stillRunning' = count
     /\ descriptors' = ds /\ loaded' = queue
     /\ UNCHANGED finished
  \/ /\ stillRunning' = Cardinality(transfers')
     /\ CheckMultiInfo(ds, queue)

(* MultiSocketLoader::get and head *)
Get(id, queue) ==
  /\ transfers' = transfers \cup {id}
  /\ TimerCallback(descriptors \cup {id}, queue, stillRunning)

(* A transfer comes to its end. *)
Finish(id) ==
  /\ id \in transfers
  /\ transfers' = transfers \ {id}
  /\ finished' = Append(finished, id)
  /\ UNCHANGED <<callVars, answers, waitVars, tableVars, descriptors,
                 stillRunning, loaded>>

(* timerEvent: the new number of transfers is told to nobody. *)
TimerEvent ==
  /\ stillRunning # Cardinality(transfers) \/ finished # <<>>
  /\ stillRunning' = Cardinality(transfers)
  /\ CheckMultiInfo(descriptors, loaded)
  /\ UNCHANGED <<callVars, answers, waitVars, tableVars, transfers>>

-----------------------------------------------------------------------------
(* MultiSocketDownloadHandler.                                             *)

(* removeAllExpiredPendingRequesters, on what is left of the list. *)
WithoutExpired(s) == Without(s, expired)

FirstUnpaused(paused) ==
  SelectInSeq(pendingRequesters, LAMBDA r : r \notin expired \cup paused)

(* Faulty: what is before the unpaused requester goes, paused or not. *)
DropUpTo(first) ==
  IF first = 0 THEN WithoutExpired(pendingRequesters)
  ELSE SubSeq(pendingRequesters, first + 1, Len(pendingRequesters))

(* extractFirstUnpausedRequester: the expired ones before it go as well. *)
AfterExtraction(first) ==
  IF first = 0 THEN WithoutExpired(pendingRequesters)
  ELSE WithoutExpired(SubSeq(pendingRequesters, 1, first - 1))
         \o SubSeq(pendingRequesters, first + 1, Len(pendingRequesters))

(* load: above the limit, or paused, the request waits. *)
Load(r, queue) ==
  IF stillRunning >= MaxParallel \/ r \in pausedRequesters'
  THEN /\ pendingRequesters' = Append(queue, r)
       /\ UNCHANGED <<tableVars, curlVars>>
  ELSE /\ pendingRequesters' = queue
       /\ activeRequesters' = activeRequesters \cup {FirstId(r)}
       /\ Get(FirstId(r), loaded)
       /\ UNCHANGED <<redirects, redirectLists, responses, address>>

HandleRequest(r) ==
  /\ r \notin taken
  /\ taken' = taken \cup {r}
  /\ UNCHANGED pausedRequesters
  /\ Load(r, pendingRequesters)
  /\ UNCHANGED <<expired, calls, dropped, hung, answers>>

(* doAction: a new number of transfers lets one more request in. *)
DoAction ==
  LET count == Cardinality(transfers)
      first == FirstUnpaused(pausedRequesters)
      id == FirstId(pendingRequesters[first])
      wakes == count # stillRunning /\ count < MaxParallel
  IN  /\ stillRunning # count \/ finished # <<>>
      /\ pendingRequesters' = IF wakes THEN AfterExtraction(first)
                                       ELSE pendingRequesters
      /\ IF wakes /\ first # 0
         THEN /\ activeRequesters' = activeRequesters \cup {id}
              /\ transfers' = transfers \cup {id}
              /\ stillRunning' \in {count, count + 1}
              /\ CheckMultiInfo(descriptors \cup {id}, loaded)
         ELSE /\ stillRunning' = count
              /\ CheckMultiInfo(descriptors, loaded)
              /\ UNCHANGED <<activeRequesters, transfers>>
      /\ UNCHANGED <<callVars, answers, pausedRequesters, redirects,
                     redirectLists, responses, address>>

(* pauseRequesters: pausing a transfer keeps none from ending. *)
PauseRequesters(rs) ==
  /\ calls < MaxCalls
  /\ calls' = calls + 1
  /\ pausedRequesters' = pausedRequesters \cup rs
  /\ UNCHANGED <<taken, expired, dropped, hung, answers, pendingRequesters,
                 tableVars, curlVars>>

(* unpauseRequesters: when none of them is being loaded one request that   *)
(* waits is loaded in their place.                                         *)
UnpauseRequesters(rs) ==
  /\ calls < MaxCalls
  /\ calls' = calls + 1
  /\ pausedRequesters' = pausedRequesters \ rs
  /\ LET ids == ActiveRequestIndexes(rs)
         first == FirstUnpaused(pausedRequesters')
     IN  \/ /\ ids \cap descriptors # {}
            /\ UNCHANGED <<pendingRequesters, tableVars, transfers>>
            /\ TimerCallback(descriptors, loaded, Cardinality(transfers))
         \/ /\ ids # {} /\ ids \cap descriptors = {}
            /\ UNCHANGED <<pendingRequesters, tableVars, curlVars>>
         \/ /\ ids = {} /\ first # 0
            /\ Load(pendingRequesters[first], AfterExtraction(first))
         \/ /\ ids = {} /\ first = 0
            /\ pendingRequesters' = AfterExtraction(0)
            /\ UNCHANGED <<tableVars, curlVars>>
  /\ UNCHANGED <<taken, expired, dropped, hung, answers>>

(* resetRequesters, when no requester expires meanwhile: a transfer known  *)
(* by its id is removed, its descriptor stays behind.                      *)
ResetRequesters(rs) ==
  LET ids == ActiveRequestIndexes(rs)
      removed == ids \cap descriptors
  IN  /\ calls < MaxCalls
      /\ calls' = calls + 1
      /\ dropped' = dropped \cup rs
      /\ pausedRequesters' = pausedRequesters \ rs
      /\ pendingRequesters' = Without(pendingRequesters, rs \cup expired)
      /\ activeRequesters' = activeRequesters \ ids
      /\ responses' = [r \in Requesters |->
                         IF FirstId(r) \in ids THEN <<>> ELSE responses[r]]
      /\ RemoveRequestIndexesChains(ids)
      /\ transfers' = transfers \ removed
      /\ LET left == Without(finished, removed)
         IN  \/ /\ finished' = left
                /\ UNCHANGED <<stillRunning, loaded, descriptors>>
             \/ /\ removed # {}
                /\ finished' = <<>>
                /\ loaded' = loaded \o left
                /\ descriptors' = descriptors \ ToSet(left)
                /\ stillRunning' = Cardinality(transfers')
      /\ UNCHANGED <<taken, expired, hung, answers, address>>

(* removePendingRequesterIfExists does not get past a requester that has   *)
(* expired since removeAllExpiredPendingRequesters, on its owner's thread: *)
(* those in done have been removed, and the search for the next of rs      *)
(* comes to the expired one before it finds its own.                       *)
ResetHangs(rs, done) ==
  LET left == Without(pendingRequesters, done \cup expired)
  IN  /\ calls < MaxCalls
      /\ calls' = calls + 1
      /\ \E next \in rs \ done, i \in DOMAIN left :
           /\ \A j \in 1..(i - 1) : left[j] # next
           /\ expired' = expired \cup {left[i]}
           /\ pausedRequesters' = pausedRequesters \ (done \cup {next})
      /\ pendingRequesters' = left
      /\ dropped' = dropped \cup rs
      /\ hung' = TRUE
      /\ UNCHANGED <<taken, answers, tableVars, curlVars>>

(* An owner drops its Requester; the handler holds weak pointers only. *)
Expire(r) ==
  /\ r \in taken \ expired
  /\ expired' = expired \cup {r}
  /\ UNCHANGED <<taken, calls, dropped, hung, answers, waitVars, tableVars,
                 curlVars>>

-----------------------------------------------------------------------------
(* onUrlLoaded.                                                            *)

TimesIn(u, chain) == Cardinality({i \in DOMAIN chain : chain[i] = u})

(* Faulty: a chain of its own for every id. *)
ChainOfHop(id) == <<address[id.requester]>>

Chain(id) == Append(responses[id.requester], address[id.requester])

(* A redirect is followed unless the chain has reached the limit or has    *)
(* its target too often.                                                   *)
Follows(chain, target) ==
  /\ target # NoRedirect
  /\ ~(MaxRedirects > 0 /\ Len(chain) = MaxRedirects)
  /\ TimesIn(target, chain) <= 2

(* Faulty: load adds the redirect to m_activeRequesters. *)
FollowAsRequester(id, target) ==
  /\ redirects' = redirects \cup {NextId(id)}
  /\ redirectLists' = redirectLists \cup {id}
  /\ address' = [address EXCEPT ![id.requester] = target]
  /\ responses' = [responses EXCEPT ![id.requester] = Chain(id)]
  /\ activeRequesters' = activeRequesters \cup {NextId(id)}
  /\ Get(NextId(id), Tail(loaded))
  /\ UNCHANGED <<answers, pausedRequesters>>

(* followLocation: the target is loaded under an id of its own. *)
FollowLocation(id, target) ==
  /\ redirects' = redirects \cup {NextId(id)}
  /\ redirectLists' = redirectLists \cup {id}
  /\ address' = [address EXCEPT ![id.requester] = target]
  /\ responses' = [responses EXCEPT ![id.requester] = Chain(id)]
  /\ Get(NextId(id), Tail(loaded))
  /\ UNCHANGED <<answers, pausedRequesters, activeRequesters>>

PostResponse(id) ==
  /\ answers' = [answers EXCEPT ![id.requester] = Append(@, Chain(id))]
  /\ pausedRequesters' = pausedRequesters \ {id.requester}
  /\ ForgetLoaded(id)
  /\ loaded' = Tail(loaded)
  /\ UNCHANGED <<descriptors, transfers, finished, stillRunning>>

(* The requester is gone or unknown: removeLoadedResourceAssociatedData    *)
(* without a pointer to it.                                                *)
DropLoaded(id) ==
  /\ ForgetLoaded(id)
  /\ loaded' = Tail(loaded)
  /\ UNCHANGED <<answers, pausedRequesters, descriptors, transfers, finished,
                 stillRunning>>

OnUrlLoaded ==
  /\ loaded # <<>>
  /\ LET id == Head(loaded)
     IN  \/ ~RequesterFound(id) /\ DropLoaded(id)
         \/ /\ RequesterFound(id)
            /\ \E target \in Urls \cup {NoRedirect} :
                 IF Follows(Chain(id), target) THEN FollowLocation(id, target)
                                               ELSE PostResponse(id)
  /\ UNCHANGED <<callVars, pendingRequesters>>

-----------------------------------------------------------------------------
HandlerThread ==
  \/ \E r \in Requesters : HandleRequest(r)
  \/ \E rs \in SUBSET Requesters :
       \/ PauseRequesters(rs) \/ UnpauseRequesters(rs) \/ ResetRequesters(rs)
       \/ \E done \in SUBSET rs : ResetHangs(rs, done)
  \/ \E id \in transfers : Finish(id)
  \/ TimerEvent
  \/ DoAction
  \/ OnUrlLoaded

SocketNext ==
  \/ \E r \in Requesters : Expire(r)
  \/ ~hung /\ HandlerThread

SocketSpec == SocketInit /\ [][SocketNext]_socketVars

(* As long as the thread does not hang, transfers that are not paused end  *)
(* if libcurl has been given a timeout for them, libcurl is driven by its  *)
(* timer or by doAction, and the queued slots run.                         *)
FairSocketSpec ==
  /\ SocketSpec
  /\ \A r \in Timed : WF_socketVars(
       /\ ~hung /\ r \notin pausedRequesters
       /\ \E id \in transfers : id.requester = r /\ Finish(id))
  /\ WF_socketVars(~hung /\ (TimerEvent \/ DoAction))
  /\ WF_socketVars(~hung /\ OnUrlLoaded)

-----------------------------------------------------------------------------
Loading == transfers \cup ToSet(finished) \cup ToSet(loaded)
Undropped == Requesters \ (dropped \cup expired)

(* Until an owner drops it or has it reset, a request is in one place:     *)
(* waiting, being loaded under one id that leads back to                   *)
(* m_activeRequesters, or answered.  Nothing of it is left in the tables   *)
(* when it is answered, but for the entries of m_parentIdToRedirectIds.    *)
NoRequestIsLost ==
  \A r \in Undropped \cap taken :
    LET ids == {id \in Loading : id.requester = r}
    IN  /\ Cardinality(ids) + Len(answers[r])
             + TimesIn(r, pendingRequesters) = 1
        /\ \A id \in ids : RequesterFound(id) /\ Root(id) = FirstId(r)
        /\ ids = {} =>
             /\ FirstId(r) \notin activeRequesters
             /\ responses[r] = <<>>
             /\ \A id \in redirects : id.requester # r

(* resetConnection cleans a handle up and leaves its descriptor behind: no *)
(* later pause, unpause or reset may reach that handle (lines 191-212).    *)
HandlesAlive ==
  ActiveRequestIndexes(Requesters) \cap descriptors
    \subseteq transfers \cup ToSet(finished)

(* Pause, unpause and reset know a transfer as long as its request has     *)
(* been redirected at most once.                                           *)
TransfersAreKnown ==
  \A id \in transfers :
    id.requester \in Undropped /\ id.hop <= 2
      => id \in ActiveRequestIndexes({id.requester})

(* What a handler promises: each request is answered at most once, by a    *)
(* chain that begins with the page asked for.                              *)
SocketPromise == INSTANCE Downloads
SocketDownloadsSpec == SocketPromise!Spec

(* A request that is being loaded with a timeout is answered, whatever     *)
(* else is paused, redirected, left loading for ever or finished around it *)
(* and in whichever of the two actions: unless it is dropped or paused, or *)
(* a reset hangs the handler's thread.                                     *)
LoadedIsAnswered ==
  \A r \in Timed :
    FirstId(r) \in activeRequesters
      ~> \/ answers[r] # <<>>
         \/ r \notin Undropped \/ r \in pausedRequesters
         \/ hung

=============================================================================
