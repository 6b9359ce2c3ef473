------------------------------ MODULE Crawler -------------------------------
(***************************************************************************)
(* The crawl of one Spider: the Spider and its RobotsTxtLoader on the main *)
(* thread, one SpiderWorker with its page loader on a thread of its own    *)
(* for each worker, the LoadSchedule they share, and the download handler  *)
(* as the loaders see it: it answers requests in any order, whether or not *)
(* the requester has been dropped meanwhile (messages and handler own it). *)
(*                                                                         *)
(* A worker's thread runs its event loop: posted events in the order they  *)
(* were posted, and between them, when it is idle, its retry timer and the *)
(* responses of the downloader.  A handler is several steps, one for each  *)
(* time it takes the schedule's mutex.                                     *)
(***************************************************************************)
EXTENDS LoadSchedule

CONSTANTS
  Workers,     \* m_workers
  MainThread,
  StartPage,   \* startCrawlingPage(), the same for every session
  Chains,      \* Chains[r]: addresses of the redirect chain that r answers with
  PageLists,   \* PageLists[r]: lists of links handlePage hands on for a page
  Loader,      \* the page loader: "QtPageLoader" or "MultiRequestPageLoader"
  MaxActive,   \* 50 in the code: loads that stop a loader from pulling more
  MaxStarts,   \* bound on the calls of startCrawling
  MaxClears    \* bound on the calls of clearData

ASSUME WorkersAssumption ==
  /\ IsFiniteSet(Workers) /\ Workers # {}
  /\ MainThread \notin Workers /\ NoThread \notin Workers
  /\ Workers \subseteq Threads
ASSUME SiteAssumption ==
  /\ StartPage \in Requests
  /\ Chains \in [Requests -> Seq(Requests)]
  /\ \A r \in Requests : Chains[r] # <<>> /\ Head(Chains[r]) = r
  /\ PageLists \in [Requests -> Seq(UrlLists)]
ASSUME LoaderAssumption ==
  Loader \in {"QtPageLoader", "MultiRequestPageLoader"}
ASSUME BoundsAssumption ==
  MaxActive \in Nat /\ MaxStarts \in Nat /\ MaxClears \in Nat

VARIABLES
  state,        \* Spider::m_state
  mainThread,   \* what the main thread is doing and for which workers still
  lastCall,     \* the application's last call to the Spider
  starts, clears,  \* calls of startCrawling and clearData so far
  isReady,      \* RobotsTxtLoader::m_isReady
  robotsLoads,  \* downloads of robots.txt not yet answered
  readySignals, \* emissions of RobotsTxtLoader::ready not yet delivered
  isRunning, receiveState, requester, timerActive,
                \* of each worker and its loader; requester: m_requester of
                \* a QtPageLoader is set
  events,       \* events posted to each worker
  pc,           \* where each worker is in its handlers
  chain, hop,   \* the response being handled and the page of it
  pageLists,    \* the lists of links of that page still to be scheduled
  inFlight      \* requests the downloader has not answered

spiderVars == <<state, mainThread, lastCall, starts, clears>>
robotsVars == <<isReady, robotsLoads, readySignals>>
loaderVars == <<isRunning, receiveState, requester, timerActive>>
handlerVars == <<pc, chain, hop, pageLists>>
workerVars == <<loaderVars, handlerVars, events, inFlight>>
crawlerVars == <<scheduleVars, spiderVars, robotsVars, workerVars>>

States == {"Working", "Pause", "Pending", "PreChecking"}
Events == [type : {"urlAdded", "start", "stop", "clear"}]
            \cup [type : {"page"}, request : Requests]
(* A load and the session, counted by clears, that asked for it. *)
Loads == [worker : Workers, request : Requests, session : 0..MaxClears]

(* at: the point the main thread has reached; todo: the workers a loop     *)
(* over m_workers has not come to.                                         *)
MainThreads ==
  [at : {"idle", "limit", "dependencies", "startPage", "startWorkers",
         "stopWorkers", "awaitStop"},
   todo : SUBSET Workers]

Idle == [at |-> "idle", todo |-> {}]

SpiderTypeOK ==
  /\ state \in States
  /\ mainThread \in MainThreads
  /\ lastCall \in {"none", "start", "stop", "clear"}
  /\ starts \in 0..MaxStarts
  /\ clears \in 0..MaxClears

RobotsTypeOK ==
  isReady \in BOOLEAN /\ robotsLoads \in Nat /\ readySignals \in Nat

LoaderTypeOK ==
  /\ isRunning \in [Workers -> BOOLEAN]
  /\ receiveState \in [Workers -> {"CanReceivePages", "CantReceivePages"}]
  /\ requester \in [Workers -> BOOLEAN]
  /\ timerActive \in [Workers -> BOOLEAN]

HandlerTypeOK ==
  /\ pc \in [Workers -> {"idle", "check", "extract", "hop", "lists", "adding"}]
  /\ chain \in [Workers -> Seq(Requests)]
  /\ hop \in [Workers -> Nat]
  /\ pageLists \in [Workers -> Seq(UrlLists)]

EventsTypeOK == events \in [Workers -> Seq(Events)]

TypeOK ==
  /\ ScheduleTypeOK
  /\ SpiderTypeOK
  /\ RobotsTypeOK
  /\ LoaderTypeOK
  /\ HandlerTypeOK
  /\ EventsTypeOK
  /\ inFlight \subseteq Loads

Init ==
  /\ ScheduleInit
  /\ state = "Pending" /\ mainThread = Idle /\ lastCall = "none"
  /\ starts = 0 /\ clears = 0
  /\ isReady = FALSE /\ robotsLoads = 0 /\ readySignals = 0
  /\ isRunning = [w \in Workers |-> FALSE]
  /\ receiveState = [w \in Workers |-> "CanReceivePages"]
  /\ requester = [w \in Workers |-> FALSE]
  /\ timerActive = [w \in Workers |-> FALSE]
  /\ events = [w \in Workers |-> <<>>]
  /\ pc = [w \in Workers |-> "idle"]
  /\ chain = [w \in Workers |-> <<>>]
  /\ hop = [w \in Workers |-> 0]
  /\ pageLists = [w \in Workers |-> <<>>]
  /\ inFlight = {}

Post(w, event) == events' = [events EXCEPT ![w] = Append(@, event)]

(* A queued signal of the main thread's or the schedule's object: every    *)
(* worker is connected.                                                    *)
Emit(type) == events' = [w \in Workers |-> Append(events[w], [type |-> type])]

-----------------------------------------------------------------------------
(* The main thread. *)

(* Spider::startCrawling; no state stops it.  It goes on to SetLimit after *)
(* blocking calls to the download handler, which never waits for others.   *)
StartCrawling ==
  /\ mainThread = Idle
  /\ starts < MaxStarts
  /\ starts' = starts + 1
  /\ lastCall' = "start"
  /\ state' = "PreChecking"
  /\ mainThread' = [mainThread EXCEPT !.at = "limit"]
  /\ UNCHANGED <<scheduleVars, clears, robotsVars, workerVars>>

SetLimit ==
  /\ mainThread.at = "limit"
  /\ \E value \in Limits : SetLimitCrawledLinksCount(value)
  /\ mainThread' = [mainThread EXCEPT !.at = "dependencies"]
  /\ UNCHANGED <<state, lastCall, starts, clears, robotsVars, workerVars>>

(* The first part of onCrawlingSessionInitialized. *)
BeginSession ==
  /\ state' = "Working"
  /\ mainThread' = [mainThread EXCEPT !.at = "startPage"]

(* tryToLoadCrawlingDependencies *)
TryToLoadCrawlingDependencies ==
  /\ mainThread.at = "dependencies"
  /\ IF isReady
     THEN BeginSession /\ UNCHANGED robotsLoads
     ELSE /\ robotsLoads' = robotsLoads + 1
          /\ mainThread' = Idle
          /\ UNCHANGED state
  /\ UNCHANGED <<scheduleVars, lastCall, starts, clears, isReady,
                 readySignals, workerVars>>

(* Faulty: an answer is taken for one that was never asked for. *)
RobotsTxtLoadedUnasked ==
  /\ mainThread = Idle
  /\ robotsLoads' = robotsLoads - 1
  /\ isReady' = TRUE
  /\ readySignals' = readySignals + 1
  /\ UNCHANGED <<scheduleVars, spiderVars, workerVars>>

(* RobotsTxtLoader::onLoadingDone; a load replaced by a later one answers  *)
(* as well.                                                                *)
RobotsTxtLoaded ==
  /\ mainThread = Idle
  /\ robotsLoads > 0
  /\ robotsLoads' = robotsLoads - 1
  /\ isReady' = TRUE
  /\ readySignals' = readySignals + 1
  /\ UNCHANGED <<scheduleVars, spiderVars, workerVars>>

(* onCrawlingSessionInitialized as the slot of ready: the state the        *)
(* Spider has by now is not looked at.                                     *)
OnReady ==
  /\ mainThread = Idle
  /\ readySignals > 0
  /\ readySignals' = readySignals - 1
  /\ isReady
  /\ BeginSession
  /\ UNCHANGED <<scheduleVars, lastCall, starts, clears, isReady, robotsLoads,
                 workerVars>>

AddStartPage ==
  /\ mainThread.at = "startPage"
  /\ AddUrl(StartPage)
  /\ IF Accepts(StartPage) THEN Emit("urlAdded") ELSE UNCHANGED events
  /\ mainThread' = [at |-> "startWorkers", todo |-> Workers]
  /\ UNCHANGED <<state, lastCall, starts, clears, robotsVars, loaderVars,
                 handlerVars, inFlight>>

StartWorker(w) ==
  /\ mainThread.at = "startWorkers"
  /\ w \in mainThread.todo
  /\ Post(w, [type |-> "start"])
  /\ mainThread' = IF mainThread.todo = {w} THEN Idle
                   ELSE [mainThread EXCEPT !.todo = @ \ {w}]
  /\ UNCHANGED <<scheduleVars, state, lastCall, starts, clears, robotsVars,
                 loaderVars, handlerVars, inFlight>>

(* Spider::stopCrawling *)
StopCrawling ==
  /\ mainThread = Idle
  /\ state \notin {"Pause", "Pending"}
  /\ state' = "Pause"
  /\ lastCall' = "stop"
  /\ mainThread' = [at |-> "stopWorkers", todo |-> Workers]
  /\ UNCHANGED <<scheduleVars, starts, clears, robotsVars, workerVars>>

(* Faulty: the stop is queued and not waited for. *)
StopWorkerQueued(w) ==
  /\ mainThread.at = "stopWorkers"
  /\ w \in mainThread.todo
  /\ Post(w, [type |-> "stop"])
  /\ mainThread' = IF mainThread.todo = {w} THEN Idle
                   ELSE [mainThread EXCEPT !.todo = @ \ {w}]
  /\ UNCHANGED <<scheduleVars, state, lastCall, starts, clears, robotsVars,
                 loaderVars, handlerVars, inFlight>>

(* A blocking call: the main thread waits until w has run its stop.  The   *)
(* other workers' turn comes after it.                                     *)
StopWorker(w) ==
  /\ mainThread.at = "stopWorkers"
  /\ w \in mainThread.todo
  /\ Post(w, [type |-> "stop"])
  /\ mainThread' = [at |-> "awaitStop", todo |-> mainThread.todo \ {w}]
  /\ UNCHANGED <<scheduleVars, state, lastCall, starts, clears, robotsVars,
                 loaderVars, handlerVars, inFlight>>

(* Faulty: the lists are emptied without waiting for the mutex. *)
ClearDataUnlocked ==
  /\ mainThread = Idle
  /\ clears < MaxClears
  /\ state \in {"Pause", "Pending"}
  /\ pendingUrlList' = {} /\ crawledUrlList' = {} /\ activeUrlList' = {}
  /\ state' = "Pending"
  /\ clears' = clears + 1
  /\ lastCall' = "clear"
  /\ Emit("clear")
  /\ UNCHANGED <<limitCrawledLinksCount, mutex, urlList, mainThread, starts,
                 robotsVars, loaderVars, handlerVars, inFlight>>

(* Spider::clearData, by an application that respects its ASSERT. *)
ClearData ==
  /\ mainThread = Idle
  /\ clears < MaxClears
  /\ state \in {"Pause", "Pending"}
  /\ Clear
  /\ state' = "Pending"
  /\ clears' = clears + 1
  /\ lastCall' = "clear"
  /\ Emit("clear")
  /\ UNCHANGED <<mainThread, starts, robotsVars, loaderVars, handlerVars,
                 inFlight>>

-----------------------------------------------------------------------------
(* A worker's event loop. *)

(* The next posted event is of this type and w is free to run it. *)
Receives(w, type) ==
  /\ pc[w] = "idle"
  /\ events[w] # <<>>
  /\ Head(events[w]).type = type

Consume(w) == events' = [events EXCEPT ![w] = Tail(@)]

Goto(w, label) == pc' = [pc EXCEPT ![w] = label]

OnUrlAdded(w) ==
  /\ Receives(w, "urlAdded")
  /\ Consume(w)
  /\ Goto(w, "check")
  /\ UNCHANGED <<scheduleVars, spiderVars, robotsVars, loaderVars, chain, hop,
                 pageLists, inFlight>>

(* SpiderWorker::start *)
OnStart(w) ==
  /\ Receives(w, "start")
  /\ Consume(w)
  /\ isRunning' = [isRunning EXCEPT ![w] = TRUE]
  /\ receiveState' = [receiveState EXCEPT ![w] = "CanReceivePages"]
  /\ Goto(w, "check")
  /\ UNCHANGED <<scheduleVars, spiderVars, robotsVars, requester, timerActive,
                 chain, hop, pageLists, inFlight>>

(* Faulty: a worker that is not running does not answer. *)
OnStopIfRunning(w) ==
  /\ isRunning[w]
  /\ Receives(w, "stop")
  /\ Consume(w)
  /\ isRunning' = [isRunning EXCEPT ![w] = FALSE]
  /\ receiveState' = [receiveState EXCEPT ![w] = "CantReceivePages"]
  /\ mainThread' = IF mainThread.todo = {} THEN Idle
                   ELSE [mainThread EXCEPT !.at = "stopWorkers"]
  /\ UNCHANGED <<scheduleVars, state, lastCall, starts, clears, robotsVars,
                 requester, timerActive, handlerVars, inFlight>>

(* SpiderWorker::stop: the main thread goes on to the next worker. *)
OnStop(w) ==
  /\ Receives(w, "stop")
  /\ Consume(w)
  /\ isRunning' = [isRunning EXCEPT ![w] = FALSE]
  /\ receiveState' = [receiveState EXCEPT ![w] = "CantReceivePages"]
  /\ mainThread' = IF mainThread.todo = {} THEN Idle
                   ELSE [mainThread EXCEPT !.at = "stopWorkers"]
  /\ UNCHANGED <<scheduleVars, state, lastCall, starts, clears, robotsVars,
                 requester, timerActive, handlerVars, inFlight>>

(* onAllLoadedDataToBeCleared: a QtPageLoader forgets its requester and    *)
(* the download goes on; a MultiRequestPageLoader asks the downloader to   *)
(* drop the connections, see ConnectionReset.                              *)
OnClear(w) ==
  /\ Receives(w, "clear")
  /\ Consume(w)
  /\ requester' = [requester EXCEPT ![w] = FALSE]
  /\ UNCHANGED <<scheduleVars, spiderVars, robotsVars, isRunning, receiveState,
                 timerActive, handlerVars, inFlight>>

OnTimer(w) ==
  /\ pc[w] = "idle"
  /\ timerActive[w]
  /\ timerActive' = [timerActive EXCEPT ![w] = FALSE]
  /\ Goto(w, "check")
  /\ UNCHANGED <<scheduleVars, spiderVars, robotsVars, isRunning, receiveState,
                 requester, events, chain, hop, pageLists, inFlight>>

(* Faulty: the requester stays set when its answer has come. *)
OnResponseNoReset(w, load) ==
  /\ pc[w] = "idle"
  /\ load \in inFlight /\ load.worker = w
  /\ Post(w, [type |-> "page", request |-> load.request])
  /\ inFlight' = inFlight \ {load}
  /\ UNCHANGED <<scheduleVars, spiderVars, robotsVars, loaderVars, handlerVars>>

(* onLoadingDone of the page loader: pageLoaded is queued, and a           *)
(* QtPageLoader drops the requester set now, be it this response's or a    *)
(* later one.                                                              *)
OnResponse(w, load) ==
  /\ pc[w] = "idle"
  /\ load \in inFlight /\ load.worker = w
  /\ Post(w, [type |-> "page", request |-> load.request])
  /\ requester' = [requester EXCEPT ![w] = FALSE]
  /\ inFlight' = inFlight \ {load}
  /\ UNCHANGED <<scheduleVars, spiderVars, robotsVars, isRunning, receiveState,
                 timerActive, handlerVars>>

(* Faulty: the reset hits the loads of the new session too. *)
ConnectionResetAny(w, load) ==
  /\ Loader = "MultiRequestPageLoader"
  /\ load \in inFlight /\ load.worker = w
  /\ clears > 0
  /\ inFlight' = inFlight \ {load}
  /\ UNCHANGED <<scheduleVars, spiderVars, robotsVars, loaderVars, handlerVars,
                 events>>

(* The downloader drops a connection that a MultiRequestPageLoader wanted  *)
(* reset when the data was cleared; it may have answered before.           *)
ConnectionReset(w, load) ==
  /\ Loader = "MultiRequestPageLoader"
  /\ load \in inFlight /\ load.worker = w
  /\ load.session < clears
  /\ [type |-> "clear"] \notin {events[w][i] : i \in 1..Len(events[w])}
  /\ inFlight' = inFlight \ {load}
  /\ UNCHANGED <<scheduleVars, spiderVars, robotsVars, loaderVars, handlerVars,
                 events>>

(* SpiderWorker::onLoadingDone, up to its call of extractUrlAndDownload;   *)
(* it runs in a stopped worker too.                                        *)
OnPageLoaded(w) ==
  /\ Receives(w, "page")
  /\ Consume(w)
  /\ ActiveRequestReceived(Head(events[w]).request)
  /\ chain' = [chain EXCEPT ![w] = Chains[Head(events[w]).request]]
  /\ hop' = [hop EXCEPT ![w] = 1]
  /\ Goto(w, "check")
  /\ UNCHANGED <<spiderVars, robotsVars, loaderVars, pageLists, inFlight>>

-----------------------------------------------------------------------------
(* The steps of a handler. *)

(* extractUrlAndDownload returns: to onLoadingDone, if that called it. *)
Return(w) == Goto(w, IF hop[w] > 0 THEN "hop" ELSE "idle")

(* Faulty: the loader's requester is not looked at. *)
CanPullWhileLoading(w) ==
  /\ receiveState[w] = "CanReceivePages"
  /\ Cardinality(activeUrlList) <= MaxActive

(* Faulty: the active requests are not counted. *)
CanPullUncounted(w) ==
  /\ ~requester[w]
  /\ receiveState[w] = "CanReceivePages"

CanPullLoading(w) ==
  /\ ~requester[w]
  /\ receiveState[w] = "CanReceivePages"
  /\ Cardinality(activeUrlList) <= MaxActive

(* extractUrlAndDownload: the count of active requests is read under the   *)
(* mutex and used after it is released.                                    *)
CheckLoader(w) ==
  /\ pc[w] = "check"
  /\ Unlocked \/ ~isRunning[w] \/ requester[w]
  /\ IF isRunning[w] /\ CanPullLoading(w) THEN Goto(w, "extract") ELSE Return(w)
  /\ timerActive' = IF isRunning[w] /\ ~CanPullLoading(w)
                    THEN [timerActive EXCEPT ![w] = TRUE] ELSE timerActive
  /\ UNCHANGED <<scheduleVars, spiderVars, robotsVars, isRunning, receiveState,
                 requester, events, chain, hop, pageLists, inFlight>>

(* extractUrl and performLoading *)
Extract(w) ==
  /\ pc[w] = "extract"
  /\ Return(w)
  /\ \E r \in pendingUrlList :
       /\ ExtractUrl(r)
       /\ requester' = [requester EXCEPT ![w] = Loader = "QtPageLoader"]
       /\ inFlight' = inFlight \cup
            {[worker |-> w, request |-> r, session |-> clears]}
  /\ UNCHANGED <<spiderVars, robotsVars, isRunning, receiveState, timerActive,
                 events, chain, hop, pageLists>>

ExtractNothing(w) ==
  /\ pc[w] = "extract"
  /\ Unlocked
  /\ pendingUrlList = {}
  /\ Return(w)
  /\ UNCHANGED <<scheduleVars, spiderVars, robotsVars, loaderVars, events,
                 chain, hop, pageLists, inFlight>>

(* handleResponse: the address of every page but the first is marked as    *)
(* crawled; the links of a page are taken whether or not it was so before. *)
HandlePage(w) ==
  /\ pc[w] = "hop"
  /\ hop[w] \in DOMAIN chain[w]
  /\ IF hop[w] > 1 THEN AddCrawledUrl(chain[w][hop[w]])
                   ELSE UNCHANGED scheduleVars
  /\ pageLists' = [pageLists EXCEPT ![w] = PageLists[chain[w][hop[w]]]]
  /\ Goto(w, "lists")
  /\ UNCHANGED <<spiderVars, robotsVars, loaderVars, events, chain, hop,
                 inFlight>>

ResponseHandled(w) ==
  /\ pc[w] = "hop"
  /\ hop[w] > Len(chain[w])
  /\ chain' = [chain EXCEPT ![w] = <<>>]
  /\ hop' = [hop EXCEPT ![w] = 0]
  /\ Goto(w, "idle")
  /\ UNCHANGED <<scheduleVars, spiderVars, robotsVars, loaderVars, events,
                 pageLists, inFlight>>

(* handlePage: one call of addUrlList for each of the page's lists. *)
ScheduleList(w) ==
  /\ pc[w] = "lists"
  /\ pageLists[w] # <<>>
  /\ pageLists' = [pageLists EXCEPT ![w] = Tail(@)]
  /\ IF Head(pageLists[w]) = <<>>
     THEN UNCHANGED <<scheduleVars, pc>>
     ELSE AddUrlListBegin(w, Head(pageLists[w])) /\ Goto(w, "adding")
  /\ UNCHANGED <<spiderVars, robotsVars, loaderVars, events, chain, hop,
                 inFlight>>

PageHandled(w) ==
  /\ pc[w] = "lists"
  /\ pageLists[w] = <<>>
  /\ hop' = [hop EXCEPT ![w] = @ + 1]
  /\ Goto(w, "hop")
  /\ UNCHANGED <<scheduleVars, spiderVars, robotsVars, loaderVars, events,
                 chain, pageLists, inFlight>>

AddLink(w) ==
  /\ pc[w] = "adding"
  /\ AddUrlListStep(w)
  /\ UNCHANGED <<spiderVars, robotsVars, workerVars>>


ListScheduled(w) ==
  /\ pc[w] = "adding"
  /\ AddUrlListEnd(w)
  /\ Emit("urlAdded")
  /\ Goto(w, "lists")
  /\ UNCHANGED <<spiderVars, robotsVars, loaderVars, chain, hop, pageLists,
                 inFlight>>

-----------------------------------------------------------------------------
Application == StartCrawling \/ StopCrawling \/ ClearData

MainStep ==
  \/ SetLimit \/ TryToLoadCrawlingDependencies
  \/ RobotsTxtLoaded \/ OnReady \/ AddStartPage
  \/ \E w \in Workers : StartWorker(w) \/ StopWorker(w)

PostedEvent(w) ==
  OnUrlAdded(w) \/ OnStart(w) \/ OnStop(w) \/ OnClear(w) \/ OnPageLoaded(w)

Response(w) == \E load \in inFlight : OnResponse(w, load)

Reset(w) == \E load \in inFlight : ConnectionReset(w, load)

HandlerStep(w) ==
  \/ CheckLoader(w) \/ Extract(w) \/ ExtractNothing(w)
  \/ HandlePage(w) \/ ResponseHandled(w)
  \/ ScheduleList(w) \/ PageHandled(w) \/ AddLink(w) \/ ListScheduled(w)

WorkerStep(w) ==
  PostedEvent(w) \/ OnTimer(w) \/ Response(w) \/ Reset(w) \/ HandlerStep(w)

Next == Application \/ MainStep \/ \E w \in Workers : WorkerStep(w)

Spec == Init /\ [][Next]_crawlerVars

(* Threads run, and an event loop keeps none of its sources waiting for    *)
(* ever: a retry timer that fires again and again does not starve posted   *)
(* events or responses.  The application owes nothing.  A QtPageLoader is  *)
(* answered (AnsweredInTime of QtDownload: its requests have the timeout,  *)
(* if one is set).  To a MultiRequestPageLoader the downloader owes        *)
(* nothing: requests that wait for a free transfer may wait for ever.      *)
Fairness ==
  /\ WF_crawlerVars(MainStep)
  /\ \A w \in Workers : /\ WF_crawlerVars(HandlerStep(w))
                        /\ WF_crawlerVars(OnTimer(w))
                        /\ SF_crawlerVars(PostedEvent(w))
  /\ Loader = "QtPageLoader" =>
       \A w \in Workers : SF_crawlerVars(Response(w))

FairSpec == Spec /\ Fairness

-----------------------------------------------------------------------------
(* Several workers may find a free slot before any of them takes it, so    *)
(* the loads under way exceed the limit; but they and those that workers   *)
(* past the test are about to begin exceed it by no more than one for each *)
(* worker.                                                                 *)
Extracting == {w \in Workers : pc[w] = "extract"}

ActiveBound ==
  Cardinality(activeUrlList) + Cardinality(Extracting)
    <= MaxActive + Cardinality(Workers)

(* A request counts as active only while its answer is on its way: no slot *)
(* is lost for ever, whatever is stopped, cleared or answered late.        *)
ActiveIsAwaited ==
  \A r \in activeUrlList :
    \/ \E load \in inFlight : load.request = r
    \/ \E w \in Workers : \E i \in 1..Len(events[w]) :
         events[w][i] = [type |-> "page", request |-> r]

(* After stopCrawling has returned no worker takes requests, and none will *)
(* before the next session begins: no start waits in its queue and it has  *)
(* not got past the test of m_isRunning.                                   *)
StoppedIsQuiet ==
  state \in {"Pause", "Pending"} /\ mainThread = Idle =>
    \A w \in Workers : /\ ~isRunning[w]
                       /\ pc[w] # "extract"
                       /\ \A i \in 1..Len(events[w]) :
                            events[w][i].type # "start"

(* QtPageLoader loads one page at a time, but for each clearData a worker  *)
(* may keep one abandoned load more: the late answer of one frees the      *)
(* loader although another load is under way.                              *)
LoadsPerWorker ==
  Loader = "QtPageLoader" => \A w \in Workers :
    Cardinality({load \in inFlight : load.worker = w}) <= 1 + clears

(* While the crawl goes on every scheduled request is taken, by loaders    *)
(* that are answered: no urlAdded, retry timer or finished load that       *)
(* should wake a worker is lost.                                           *)
EveryRequestIsTaken ==
  \A r \in Requests :
    r \in pendingUrlList /\ state = "Working"
      ~> r \notin pendingUrlList \/ state # "Working"


(* The calls of the application return: the blocking stop of a worker      *)
(* never waits on a worker that waits for the main thread.                 *)
CallsReturn == mainThread # Idle ~> mainThread = Idle

-----------------------------------------------------------------------------
(* Stated by the code, and not so.                                         *)

(* clearData asserts that the Spider is paused or pending.  An application *)
(* that has stopped the crawl and not started it again may rely on that.   *)
StoppedMayBeCleared ==
  mainThread = Idle /\ lastCall \in {"stop", "clear"}
    => state \in {"Pause", "Pending"}

CrawlExhausted ==
  /\ state = "Working" /\ mainThread = Idle
  /\ pendingUrlList = {} /\ inFlight = {}
  /\ \A w \in Workers : isRunning[w] /\ events[w] = <<>> /\ pc[w] = "idle"

(* StatePending is documented as the state after the crawl has ended. *)
EndedCrawlIsPending == CrawlExhausted ~> state # "Working"
=============================================================================
