----------------------------- MODULE QtDownload -----------------------------
(***************************************************************************)
(* QtBasedDownloadHandler on its thread: it loads what it is asked for     *)
(* over QNetworkAccessManager, follows redirects, aborts what takes too    *)
(* long, and spaces the loads out when a pause range is set (the part of   *)
(* AbstractDownloadHandler and RandomIntervalRangeTimer).                  *)
(*                                                                         *)
(* The network is external: it answers a reply at any time with a page or  *)
(* a redirect, and may announce its headers before.  Only Requester::stop  *)
(* leads to stopRequestHandling, and nobody calls it: it is left out, and  *)
(* with it the branches of processReply for a requester that is gone       *)
(* (m_activeRequestersReplies keeps it alive).                             *)
(***************************************************************************)
EXTENDS Integers, FiniteSets, Sequences

CONSTANTS
  Requesters,      \* each Requester sends one request
  Urls,
  Asked,           \* Asked[r]: requestInfo.url of the request of r
  UseTimeout,      \* those whose request says useTimeout
  RedirectLimits,  \* values of maxRedirectsToFollow (not positive: no limit)
  MaxSettings      \* bound on the calls of the setters

NoRedirect == "no redirect"

ASSUME RequestersAssumption == IsFiniteSet(Requesters) /\ IsFiniteSet(Urls)
ASSUME AskedAssumption == Asked \in [Requesters -> Urls]
ASSUME UseTimeoutAssumption == UseTimeout \subseteq Requesters
ASSUME UrlsAssumption == NoRedirect \notin Urls
ASSUME SettingsAssumption ==
  RedirectLimits \subseteq Int /\ MaxSettings \in Nat

VARIABLES
  isValid,          \* m_randomIntervalRangeTimer has a range and runs
  requesterQueue,   \* requesters waiting for that timer
  maxRedirects, timeoutTimer,
  settings,         \* calls of the setters so far
  taken,            \* requesters handed over by the dispatchers
  requesters, activeRequests, activeRequestersReplies,
                    \* keys of m_requesters and m_activeRequestersReplies,
                    \* and m_activeRequests: a request id is its requester
  responses,        \* m_responses: the chain so far, <<>> without an entry
  activeReplies,    \* keys of m_activeReplies, the replies with a timeout
  replies,          \* replies not deleted yet
  processed,        \* those of them with the property "processed"
  announced,        \* those of them whose headers have come
  posted,           \* the queued slots and deletions of the thread
  answers           \* answers[r]: the chains posted to the thread of r

settingVars == <<isValid, maxRedirects, timeoutTimer, settings>>
requestVars == <<requesters, activeRequests, activeRequestersReplies,
                 responses, answers>>
replyVars == <<activeReplies, replies, processed, announced, posted>>
downloadVars == <<settingVars, requesterQueue, taken, requestVars, replyVars>>

(* The hop-th page loaded for a request. *)
Replies == [requester : Requesters, hop : Nat, url : Urls]

DownloadTypeOK ==
  /\ isValid \in BOOLEAN /\ timeoutTimer \in BOOLEAN
  /\ maxRedirects \in RedirectLimits
  /\ settings \in 0..MaxSettings
  /\ requesterQueue \in Seq(Requesters)
  /\ taken \subseteq Requesters
  /\ requesters \subseteq Requesters
  /\ activeRequests \subseteq Requesters
  /\ activeRequestersReplies \subseteq Requesters
  /\ responses \in [Requesters -> Seq(Urls)]
  /\ answers \in [Requesters -> Seq(Seq(Urls))]
  /\ replies \subseteq Replies
  /\ activeReplies \subseteq Replies
  /\ processed \subseteq replies /\ announced \subseteq replies
  /\ posted \in Seq([type : {"metaDataChanged", "delete"}, reply : Replies])

(* The handler after the first startCrawling has set it up. *)
DownloadInit ==
  /\ isValid \in BOOLEAN /\ timeoutTimer \in BOOLEAN
  /\ maxRedirects \in RedirectLimits
  /\ settings = 0
  /\ requesterQueue = <<>>
  /\ taken = {}
  /\ requesters = {} /\ activeRequests = {} /\ activeRequestersReplies = {}
  /\ responses = [r \in Requesters |-> <<>>]
  /\ answers = [r \in Requesters |-> <<>>]
  /\ activeReplies = {} /\ replies = {} /\ processed = {} /\ announced = {}
  /\ posted = <<>>

-----------------------------------------------------------------------------
(* The setters: blocking calls of Spider::startCrawling at any time. *)

Setting ==
  /\ settings < MaxSettings
  /\ settings' = settings + 1
  /\ UNCHANGED <<requesterQueue, taken, requestVars, replyVars>>

(* The timer starts anew; what waits in the queue waits on. *)
SetPauseRange ==
  /\ Setting
  /\ isValid' = TRUE
  /\ UNCHANGED <<maxRedirects, timeoutTimer>>

(* The timer stops, and what waits in the queue is left there. *)
ResetPauseRange ==
  /\ Setting
  /\ isValid' = FALSE
  /\ UNCHANGED <<maxRedirects, timeoutTimer>>

SetTimeout ==
  /\ Setting
  /\ timeoutTimer' \in BOOLEAN
  /\ UNCHANGED <<isValid, maxRedirects>>

SetMaxRedirects ==
  /\ Setting
  /\ maxRedirects' \in RedirectLimits
  /\ UNCHANGED <<isValid, timeoutTimer>>

-----------------------------------------------------------------------------
Watched(p) == p.requester \in UseTimeout

(* load, with loadHelper for a request without a parent. *)
Load(r) ==
  LET reply == [requester |-> r, hop |-> 1, url |-> Asked[r]]
  IN  /\ requesters' = requesters \cup {r}
      /\ activeRequests' = activeRequests \cup {r}
      /\ activeRequestersReplies' = activeRequestersReplies \cup {r}
      /\ replies' = replies \cup {reply}
      /\ activeReplies' = IF Watched(reply) THEN activeReplies \cup {reply}
                                            ELSE activeReplies
      /\ UNCHANGED <<responses, answers, processed, announced, posted>>

HandleRequest(r) ==
  /\ r \notin taken
  /\ taken' = taken \cup {r}
  /\ IF isValid
     THEN /\ requesterQueue' = Append(requesterQueue, r)
          /\ UNCHANGED <<requestVars, replyVars>>
     ELSE Load(r) /\ UNCHANGED requesterQueue
  /\ UNCHANGED settingVars

(* AbstractDownloadHandler::onTimerTicked; the timer is set again. *)
OnTimerTicked ==
  /\ isValid
  /\ requesterQueue # <<>>
  /\ Load(Head(requesterQueue))
  /\ requesterQueue' = Tail(requesterQueue)
  /\ UNCHANGED <<settingVars, taken>>

-----------------------------------------------------------------------------
(* A reply is answered, announced or aborted. *)

TimesIn(u, chain) == Cardinality({i \in DOMAIN chain : chain[i] = u})

(* Faulty: the status of the answer is not looked at. *)
FollowsAnyStatus(p, target) ==
  /\ ~(maxRedirects > 0 /\ Len(responses[p.requester]) = maxRedirects)
  /\ TimesIn(target, responses[p.requester]) <= 2

(* Faulty: the limit is passed by one page. *)
FollowsOneFurther(p, target) ==
  /\ target # NoRedirect
  /\ ~(maxRedirects > 0 /\ Len(responses[p.requester]) > maxRedirects)
  /\ TimesIn(target, responses[p.requester]) <= 2

(* Faulty: a page may come once more in the chain. *)
FollowsOnceMore(p, target) ==
  /\ target # NoRedirect
  /\ ~(maxRedirects > 0 /\ Len(responses[p.requester]) = maxRedirects)
  /\ TimesIn(target, responses[p.requester]) <= 3

(* A redirect is followed unless the chain has as many pages as the limit, *)
(* or its target too often.                                                *)
Follows(p, target) ==
  /\ target # NoRedirect
  /\ ~(maxRedirects > 0 /\ Len(responses[p.requester]) = maxRedirects)
  /\ TimesIn(target, responses[p.requester]) <= 2

(* Faulty: the reply is deleted before what is queued is delivered. *)
MarkReplyAsProcessedAtOnce(p, queue) ==
  /\ processed' = processed \cup {p}
  /\ posted' = <<[type |-> "delete", reply |-> p]>> \o queue
  /\ UNCHANGED announced

(* The reply becomes processed, and is deleted when the event loop is      *)
(* through with the queue.                                                 *)
MarkReplyAsProcessed(p, queue) ==
  /\ processed' = processed \cup {p}
  /\ posted' = Append(queue, [type |-> "delete", reply |-> p])
  /\ UNCHANGED announced

(* Faulty: the reply to a redirect is not watched. *)
FollowUnwatched(p, target) ==
  LET r == p.requester
      next == [requester |-> r, hop |-> p.hop + 1, url |-> target]
  IN  /\ responses' = [responses EXCEPT ![r] = Append(@, p.url)]
      /\ replies' = replies \cup {next}
      /\ activeReplies' = activeReplies \ {p}
      /\ UNCHANGED <<requesters, activeRequests, activeRequestersReplies,
                     answers>>

(* Faulty: the page that redirects is not recorded. *)
FollowUnrecorded(p, target) ==
  LET r == p.requester
      next == [requester |-> r, hop |-> p.hop + 1, url |-> target]
  IN  /\ replies' = replies \cup {next}
      /\ activeReplies' = (activeReplies \ {p})
                             \cup (IF Watched(p) THEN {next} ELSE {})
      /\ UNCHANGED <<responses, requesters, activeRequests,
                     activeRequestersReplies, answers>>

(* The target is loaded under the same request id, with the same timeout.  *)
Follow(p, target) ==
  LET r == p.requester
      next == [requester |-> r, hop |-> p.hop + 1, url |-> target]
  IN  /\ responses' = [responses EXCEPT ![r] = Append(@, p.url)]
      /\ replies' = replies \cup {next}
      /\ activeReplies' = (activeReplies \ {p})
                             \cup (IF Watched(p) THEN {next} ELSE {})
      /\ UNCHANGED <<requesters, activeRequests, activeRequestersReplies,
                     answers>>

(* Faulty: m_requesters keeps the requester that has its answer. *)
PostResponseKeeps(p) ==
  LET r == p.requester
  IN  /\ answers' = [answers EXCEPT ![r] =
                       Append(@, Append(responses[r], p.url))]
      /\ responses' = [responses EXCEPT ![r] = <<>>]
      /\ activeRequestersReplies' = activeRequestersReplies \ {r}
      /\ activeRequests' = activeRequests \ {r}
      /\ activeReplies' = activeReplies \ {p}
      /\ UNCHANGED <<requesters, replies>>

(* The chain is posted to the thread of the requester, and forgotten. *)
PostResponse(p) ==
  LET r == p.requester
  IN  /\ answers' = [answers EXCEPT ![r] =
                       Append(@, Append(responses[r], p.url))]
      /\ responses' = [responses EXCEPT ![r] = <<>>]
      /\ requesters' = requesters \ {r}
      /\ activeRequestersReplies' = activeRequestersReplies \ {r}
      /\ activeRequests' = activeRequests \ {r}
      /\ activeReplies' = activeReplies \ {p}
      /\ UNCHANGED replies

(* processReply of a reply that is not processed yet. *)
ProcessReply(p, target, queue) ==
  /\ MarkReplyAsProcessed(p, queue)
  /\ IF Follows(p, target) THEN Follow(p, target) ELSE PostResponse(p)
  /\ UNCHANGED <<settingVars, requesterQueue, taken>>

Running == replies \ processed

(* urlDownloaded, called by the network manager. *)
UrlDownloaded(p) ==
  /\ p \in Running
  /\ \E target \in Urls \cup {NoRedirect} : ProcessReply(p, target, posted)

(* The headers have come: metaDataChanged is queued. *)
Announce(p) ==
  /\ p \in Running \ announced
  /\ announced' = announced \cup {p}
  /\ posted' = Append(posted, [type |-> "metaDataChanged", reply |-> p])
  /\ UNCHANGED <<settingVars, requesterQueue, taken, requestVars,
                 activeReplies, replies, processed>>

(* onTimeoutTimerTicked, one step for each reply that has taken too long:  *)
(* abort makes the network manager call urlDownloaded at once.             *)
Timeout(p) ==
  /\ timeoutTimer
  /\ p \in activeReplies \cap Running
  /\ ProcessReply(p, NoRedirect, posted)

-----------------------------------------------------------------------------
Posted(type) == posted # <<>> /\ Head(posted).type = type

(* metaDataChanged: a reply processed meanwhile is let be, a page with     *)
(* text loads on, and any other is processed without its body and aborted. *)
MetaDataChanged ==
  /\ Posted("metaDataChanged")
  /\ \/ /\ posted' = Tail(posted)
        /\ UNCHANGED <<settingVars, requesterQueue, taken, requestVars,
                       activeReplies, replies, processed, announced>>
     \/ /\ Head(posted).reply \notin processed
        /\ ProcessReply(Head(posted).reply, NoRedirect, Tail(posted))

(* The event loop deletes a reply. *)
Delete ==
  /\ Posted("delete")
  /\ LET p == Head(posted).reply
     IN  /\ replies' = replies \ {p}
         /\ processed' = processed \ {p}
         /\ announced' = announced \ {p}
  /\ posted' = Tail(posted)
  /\ UNCHANGED <<settingVars, requesterQueue, taken, requestVars,
                 activeReplies>>

-----------------------------------------------------------------------------
DownloadNext ==
  \/ SetPauseRange \/ ResetPauseRange \/ SetTimeout \/ SetMaxRedirects
  \/ \E r \in Requesters : HandleRequest(r)
  \/ OnTimerTicked
  \/ \E p \in replies : UrlDownloaded(p) \/ Announce(p) \/ Timeout(p)
  \/ MetaDataChanged
  \/ Delete

DownloadSpec == DownloadInit /\ [][DownloadNext]_downloadVars

TimeoutOf(r) == \E p \in replies : p.requester = r /\ Timeout(p)

(* The thread runs its event loop and its timers.  Nothing is asked of the *)
(* network.                                                                *)
FairDownloadSpec ==
  /\ DownloadSpec
  /\ WF_downloadVars(OnTimerTicked)
  /\ WF_downloadVars(MetaDataChanged) /\ WF_downloadVars(Delete)
  /\ \A r \in Requesters : WF_downloadVars(TimeoutOf(r))

-----------------------------------------------------------------------------
InQueue == {requesterQueue[i] : i \in DOMAIN requesterQueue}

(* The five tables tell the same story, across redirects, aborts and       *)
(* timeouts: a request is in all of m_requesters, m_activeRequests and     *)
(* m_activeRequestersReplies or in none (line 278 erases without looking,  *)
(* 280 asserts), a request being loaded has one reply that is not          *)
(* processed, only such a request has a response, and what waits for the   *)
(* pause timer waits once and is not being loaded.                         *)
BookkeepingAgrees ==
  /\ requesters = activeRequests
  /\ requesters = activeRequestersReplies
  /\ \A r \in requesters :
       /\ answers[r] = <<>>
       /\ Cardinality({p \in Running : p.requester = r}) = 1
  /\ \A p \in Running : p.requester \in requesters
  /\ \A r \in Requesters : responses[r] # <<>> => r \in requesters
  /\ Cardinality(InQueue) = Len(requesterQueue)
  /\ InQueue \cap requesters = {}

(* A queued metaDataChanged holds a plain pointer to its reply and         *)
(* dereferences the requester of one that is not processed (lines 180-187, *)
(* 166-172): the reply is not deleted yet, and the requester still there.  *)
NotificationsAreSafe ==
  \A i \in DOMAIN posted :
    LET p == posted[i].reply
    IN  posted[i].type = "metaDataChanged" =>
          /\ p \in replies
          /\ p \in processed \/ p.requester \in requesters

(* m_activeReplies holds what the timeout is to abort and nothing else: an *)
(* entry that stayed for a processed reply would fail line 141, and one    *)
(* missing after a redirect would let a load hang for ever.                *)
TimeoutsWatch == activeReplies = {p \in Running : Watched(p)}

(* While the limit does not change, no answer has more pages than the      *)
(* redirects allowed and the page they lead to: line 245 looks for         *)
(* equality, which a chain that grew past the limit would never meet.      *)
RedirectLimitKept ==
  \A r \in Requesters : \A i \in DOMAIN answers[r] :
    \A limit \in RedirectLimits :
      limit > 0 => Len(answers[r][i]) <= limit + 1

(* Pages that redirect in a circle are given up, whatever happens to the   *)
(* limit: the page that redirects is not in the chain yet when the chain   *)
(* is searched (lines 252-261), so a page comes up to four times.          *)
LoopBound ==
  \A r \in Requesters, u \in Urls :
    /\ TimesIn(u, responses[r]) <= 4
    /\ \A i \in DOMAIN answers[r] : TimesIn(u, answers[r][i]) <= 4

(* The handler answers each request once, with a chain that begins with    *)
(* the page asked for: SpiderWorker::onLoadingDone takes the first page    *)
(* for the request to be removed from the active ones.                     *)
Promise == INSTANCE Downloads
DownloadsSpec == Promise!Spec

(* With a timeout a request is answered whatever the network does, unless  *)
(* resetPauseRange leaves it in the queue: the end of every wait of a      *)
(* SpiderWorker for a page rests on this.                                  *)
AnsweredInTime ==
  \A r \in UseTimeout :
    <>[](timeoutTimer /\ (r \in InQueue => isValid))
      => (r \in taken ~> answers[r] # <<>>)
=============================================================================
