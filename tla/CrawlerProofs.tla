--------------------------- MODULE CrawlerProofs ----------------------------
(***************************************************************************)
(* Proofs about Crawler for every site, every number of workers, either    *)
(* page loader and every number of sessions.                               *)
(***************************************************************************)
EXTENDS Crawler, LoadScheduleProofs

(* What a step of the crawler may do to the schedule. *)
ScheduleStepOrNone == [ScheduleNext]_scheduleVars

LEMMA MainThreadValues ==
  ASSUME mainThread \in MainThreads
  PROVE  /\ Idle \in MainThreads
         /\ [mainThread EXCEPT !.at = "limit"] \in MainThreads
         /\ [mainThread EXCEPT !.at = "dependencies"] \in MainThreads
         /\ [mainThread EXCEPT !.at = "startPage"] \in MainThreads
         /\ [mainThread EXCEPT !.at = "stopWorkers"] \in MainThreads
         /\ \A S \in SUBSET Workers :
              /\ [at |-> "startWorkers", todo |-> S] \in MainThreads
              /\ [at |-> "stopWorkers", todo |-> S] \in MainThreads
              /\ [at |-> "awaitStop", todo |-> S] \in MainThreads
         /\ \A w \in Workers :
              [mainThread EXCEPT !.todo = @ \ {w}] \in MainThreads
         /\ mainThread.todo \subseteq Workers
BY DEF MainThreads, Idle

LEMMA PostType ==
  ASSUME EventsTypeOK, NEW w \in Workers, NEW event \in Events,
         Post(w, event)
  PROVE  EventsTypeOK'
BY DEF EventsTypeOK, Post

LEMMA EmitType ==
  ASSUME EventsTypeOK, NEW type \in {"urlAdded", "clear"}, Emit(type)
  PROVE  EventsTypeOK'
BY DEF EventsTypeOK, Emit, Events

LEMMA ConsumeType ==
  ASSUME EventsTypeOK, NEW w \in Workers, events[w] # <<>>, Consume(w)
  PROVE  Head(events[w]) \in Events /\ EventsTypeOK'
BY DEF EventsTypeOK, Consume

(* Types of what the main thread changes, and its use of the schedule. *)
MainStepOK ==
  SpiderTypeOK' /\ RobotsTypeOK' /\ EventsTypeOK' /\ ScheduleStepOrNone
    /\ UNCHANGED <<loaderVars, handlerVars, inFlight>>

LEMMA MainStepType ==
  ASSUME TypeOK, Application \/ MainStep
  PROVE  MainStepOK
<1>. USE MainThreadValues
     DEF TypeOK, MainStepOK, ScheduleStepOrNone, SpiderTypeOK, RobotsTypeOK,
         spiderVars, robotsVars, workerVars
<1>1. CASE StartCrawling
  BY <1>1, BoundsAssumption DEF StartCrawling, States, EventsTypeOK
<1>2. CASE StopCrawling
  BY <1>2 DEF StopCrawling, States, EventsTypeOK
<1>3. CASE ClearData
  <2>1. EventsTypeOK' BY <1>3, EmitType DEF ClearData
  <2>. QED
    BY <1>3, <2>1, BoundsAssumption DEF ClearData, States, ScheduleNext
<1>4. CASE SetLimit
  BY <1>4 DEF SetLimit, ScheduleNext, EventsTypeOK
<1>5. CASE TryToLoadCrawlingDependencies
  BY <1>5 DEF TryToLoadCrawlingDependencies, BeginSession, States,
              EventsTypeOK
<1>6. CASE RobotsTxtLoaded
  BY <1>6 DEF RobotsTxtLoaded, EventsTypeOK
<1>7. CASE OnReady
  BY <1>7 DEF OnReady, BeginSession, States, EventsTypeOK
<1>8. CASE AddStartPage
  <2>1. EventsTypeOK'
    BY <1>8, EmitType DEF AddStartPage, EventsTypeOK
  <2>2. ScheduleStepOrNone
    BY <1>8, SiteAssumption DEF AddStartPage, ScheduleNext
  <2>. QED BY <1>8, <2>1, <2>2 DEF AddStartPage
<1>9. ASSUME NEW w \in Workers, StartWorker(w) PROVE MainStepOK
  <2>1. EventsTypeOK' BY <1>9, PostType DEF StartWorker, Events
  <2>. QED BY <1>9, <2>1 DEF StartWorker
<1>10. ASSUME NEW w \in Workers, StopWorker(w) PROVE MainStepOK
  <2>1. EventsTypeOK' BY <1>10, PostType DEF StopWorker, Events
  <2>. QED BY <1>10, <2>1 DEF StopWorker
<1>. QED
  BY <1>1, <1>2, <1>3, <1>4, <1>5, <1>6, <1>7, <1>8, <1>9, <1>10
     DEF Application, MainStep

-----------------------------------------------------------------------------
(* The same for what a worker's thread changes. *)
WorkerStepOK ==
  /\ SpiderTypeOK' /\ LoaderTypeOK' /\ HandlerTypeOK' /\ EventsTypeOK'
  /\ inFlight' \subseteq Loads
  /\ ScheduleStepOrNone
  /\ UNCHANGED robotsVars

(* A handler goes on to the point its code names. *)
LEMMA GotoType ==
  ASSUME HandlerTypeOK, NEW w \in Workers,
         NEW label \in {"idle", "check", "extract", "hop", "lists", "adding"},
         Goto(w, label)
  PROVE  pc' \in
           [Workers -> {"idle", "check", "extract", "hop", "lists", "adding"}]
BY DEF HandlerTypeOK, Goto

LEMMA PostedEventType ==
  ASSUME TypeOK, NEW w \in Workers, PostedEvent(w)
  PROVE  WorkerStepOK
<1>. USE DEF TypeOK, WorkerStepOK, ScheduleStepOrNone, spiderVars
<1>1. events[w] # <<>> /\ Consume(w)
  BY DEF PostedEvent, OnUrlAdded, OnStart, OnStop, OnClear, OnPageLoaded,
         Receives
<1>2. Head(events[w]) \in Events /\ EventsTypeOK'
  BY <1>1, ConsumeType
<1>3. CASE OnUrlAdded(w)
  BY <1>2, <1>3, GotoType
     DEF OnUrlAdded, SpiderTypeOK, LoaderTypeOK, HandlerTypeOK, loaderVars
<1>4. CASE OnStart(w)
  BY <1>2, <1>4, GotoType
     DEF OnStart, SpiderTypeOK, LoaderTypeOK, HandlerTypeOK
<1>5. CASE OnStop(w)
  BY <1>2, <1>5, MainThreadValues
     DEF OnStop, SpiderTypeOK, LoaderTypeOK, HandlerTypeOK, handlerVars
<1>6. CASE OnClear(w)
  BY <1>2, <1>6
     DEF OnClear, SpiderTypeOK, LoaderTypeOK, HandlerTypeOK, handlerVars
<1>7. CASE OnPageLoaded(w)
  <2>1. Head(events[w]).type = "page" BY <1>7 DEF OnPageLoaded, Receives
  <2>2. Head(events[w]).request \in Requests BY <1>2, <2>1 DEF Events
  <2>3. ScheduleStepOrNone
    BY <1>7, <2>2 DEF OnPageLoaded, ScheduleNext
  <2>4. HandlerTypeOK'
    BY <1>7, <2>2, GotoType, SiteAssumption DEF OnPageLoaded, HandlerTypeOK
  <2>. QED
    BY <1>2, <1>7, <2>3, <2>4
       DEF OnPageLoaded, SpiderTypeOK, LoaderTypeOK, loaderVars
<1>. QED BY <1>3, <1>4, <1>5, <1>6, <1>7 DEF PostedEvent

LEMMA HandlerStepType ==
  ASSUME TypeOK, NEW w \in Workers, HandlerStep(w)
  PROVE  WorkerStepOK
<1>. USE DEF TypeOK, WorkerStepOK, ScheduleStepOrNone, spiderVars, EventsTypeOK
<1>1. ASSUME Return(w)
      PROVE  pc' \in
        [Workers -> {"idle", "check", "extract", "hop", "lists", "adding"}]
  BY <1>1, GotoType DEF Return
<1>2. CASE CheckLoader(w)
  BY <1>1, <1>2, GotoType
     DEF CheckLoader, SpiderTypeOK, LoaderTypeOK, HandlerTypeOK
<1>3. CASE Extract(w)
  <2>1. PICK r \in pendingUrlList :
          /\ ExtractUrl(r)
          /\ requester' = [requester EXCEPT ![w] = Loader = "QtPageLoader"]
          /\ inFlight' = inFlight \cup
               {[worker |-> w, request |-> r, session |-> clears]}
    BY <1>3 DEF Extract
  <2>2. r \in Requests BY DEF ScheduleTypeOK
  <2>3. [worker |-> w, request |-> r, session |-> clears] \in Loads
    BY <2>2 DEF Loads, SpiderTypeOK
  <2>4. ScheduleStepOrNone BY <2>1, <2>2 DEF ScheduleNext
  <2>5. LoaderTypeOK' BY <1>3, <2>1 DEF Extract, LoaderTypeOK
  <2>. QED
    BY <1>1, <1>3, <2>1, <2>3, <2>4, <2>5
       DEF Extract, SpiderTypeOK, HandlerTypeOK
<1>4. CASE ExtractNothing(w)
  BY <1>1, <1>4
     DEF ExtractNothing, SpiderTypeOK, LoaderTypeOK, HandlerTypeOK, loaderVars
<1>5. CASE HandlePage(w)
  <2>1. chain[w][hop[w]] \in Requests
    BY <1>5 DEF HandlePage, HandlerTypeOK
  <2>2. AddCrawledUrl(chain[w][hop[w]]) \/ UNCHANGED scheduleVars
    BY <1>5 DEF HandlePage
  <2>3. ScheduleStepOrNone BY <2>1, <2>2 DEF ScheduleNext
  <2>4. HandlerTypeOK'
    BY <1>5, <2>1, GotoType, SiteAssumption DEF HandlePage, HandlerTypeOK
  <2>. QED
    BY <1>5, <2>3, <2>4
       DEF HandlePage, SpiderTypeOK, LoaderTypeOK, loaderVars
<1>6. CASE ResponseHandled(w)
  BY <1>6, GotoType
     DEF ResponseHandled, SpiderTypeOK, LoaderTypeOK, HandlerTypeOK, loaderVars
<1>7. CASE ScheduleList(w)
  <2>1. Head(pageLists[w]) \in UrlLists /\ Tail(pageLists[w]) \in Seq(UrlLists)
    BY <1>7 DEF ScheduleList, HandlerTypeOK
  <2>2. ScheduleStepOrNone
    BY <1>7, <2>1, WorkersAssumption DEF ScheduleList, ScheduleNext
  <2>3. HandlerTypeOK'
    BY <1>7, <2>1, GotoType DEF ScheduleList, HandlerTypeOK
  <2>. QED
    BY <1>7, <2>2, <2>3
       DEF ScheduleList, SpiderTypeOK, LoaderTypeOK, loaderVars
<1>8. CASE PageHandled(w)
  BY <1>8, GotoType
     DEF PageHandled, SpiderTypeOK, LoaderTypeOK, HandlerTypeOK, loaderVars
<1>9. CASE AddLink(w)
  <2>1. ScheduleStepOrNone
    BY <1>9, WorkersAssumption DEF AddLink, ScheduleNext
  <2>. QED
    BY <1>9, <2>1
       DEF AddLink, SpiderTypeOK, LoaderTypeOK, HandlerTypeOK, workerVars,
           loaderVars, handlerVars
<1>10. CASE ListScheduled(w)
  <2>1. ScheduleStepOrNone
    BY <1>10, WorkersAssumption DEF ListScheduled, ScheduleNext
  <2>2. EventsTypeOK' BY <1>10, EmitType DEF ListScheduled
  <2>. QED
    BY <1>10, <2>1, <2>2, GotoType
       DEF ListScheduled, SpiderTypeOK, LoaderTypeOK, HandlerTypeOK,
           loaderVars
<1>. QED
  BY <1>2, <1>3, <1>4, <1>5, <1>6, <1>7, <1>8, <1>9, <1>10 DEF HandlerStep

LEMMA WorkerStepType ==
  ASSUME TypeOK, NEW w \in Workers, WorkerStep(w)
  PROVE  WorkerStepOK
<1>. USE DEF TypeOK, WorkerStepOK, ScheduleStepOrNone, spiderVars
<1>1. CASE PostedEvent(w) BY <1>1, PostedEventType
<1>2. CASE OnTimer(w)
  BY <1>2, GotoType
     DEF OnTimer, SpiderTypeOK, LoaderTypeOK, HandlerTypeOK, EventsTypeOK
<1>3. CASE Response(w)
  <2>1. PICK load \in inFlight : OnResponse(w, load) BY <1>3 DEF Response
  <2>2. [type |-> "page", request |-> load.request] \in Events
    BY DEF Events, Loads
  <2>3. EventsTypeOK' BY <2>1, <2>2, PostType DEF OnResponse
  <2>. QED
    BY <2>1, <2>3
       DEF OnResponse, SpiderTypeOK, LoaderTypeOK, HandlerTypeOK, handlerVars
<1>4. CASE Reset(w)
  BY <1>4
     DEF Reset, ConnectionReset, SpiderTypeOK, LoaderTypeOK, HandlerTypeOK,
         EventsTypeOK, loaderVars, handlerVars
<1>5. CASE HandlerStep(w) BY <1>5, HandlerStepType
<1>. QED BY <1>1, <1>2, <1>3, <1>4, <1>5 DEF WorkerStep

-----------------------------------------------------------------------------
(* Every step keeps the types and is a step of the schedule or none. *)
LEMMA CrawlerStepType ==
  ASSUME TypeOK, [Next]_crawlerVars
  PROVE  SpiderTypeOK' /\ RobotsTypeOK' /\ LoaderTypeOK' /\ HandlerTypeOK'
         /\ EventsTypeOK' /\ inFlight' \subseteq Loads /\ ScheduleStepOrNone
<1>. USE DEF TypeOK
<1>1. CASE Application \/ MainStep
  BY <1>1, MainStepType
     DEF MainStepOK, LoaderTypeOK, HandlerTypeOK, loaderVars, handlerVars
<1>2. ASSUME NEW w \in Workers, WorkerStep(w)
      PROVE  SpiderTypeOK' /\ RobotsTypeOK' /\ LoaderTypeOK'
             /\ HandlerTypeOK' /\ EventsTypeOK' /\ inFlight' \subseteq Loads
             /\ ScheduleStepOrNone
  BY <1>2, WorkerStepType DEF WorkerStepOK, RobotsTypeOK, robotsVars
<1>3. CASE UNCHANGED crawlerVars
  BY <1>3
     DEF crawlerVars, spiderVars, robotsVars, workerVars, loaderVars,
         handlerVars, SpiderTypeOK, RobotsTypeOK, LoaderTypeOK, HandlerTypeOK,
         EventsTypeOK, ScheduleStepOrNone
<1>. QED BY <1>1, <1>2, <1>3 DEF Next

(* The schedule of a crawl is never touched otherwise than by its methods, *)
(* each under the mutex: all that is proved of LoadSchedule holds of it.   *)
CrawlerInv == TypeOK /\ ScheduleInv

LEMMA CrawlerInitInv == Init => CrawlerInv
<1>. SUFFICES ASSUME Init PROVE CrawlerInv OBVIOUS
<1>1. ScheduleInv BY ScheduleInitInv DEF Init
<1>2. SpiderTypeOK /\ RobotsTypeOK /\ inFlight \subseteq Loads
  <2>1. Idle \in MainThreads BY DEF MainThreads, Idle
  <2>2. 0 \in 0..MaxStarts /\ 0 \in 0..MaxClears BY BoundsAssumption
  <2>. QED
    BY <2>1, <2>2 DEF Init, SpiderTypeOK, RobotsTypeOK, States
<1>3. LoaderTypeOK /\ HandlerTypeOK /\ EventsTypeOK
  BY DEF Init, LoaderTypeOK, HandlerTypeOK, EventsTypeOK
<1>. QED BY <1>1, <1>2, <1>3 DEF CrawlerInv, TypeOK, ScheduleInv

LEMMA CrawlerStepInv ==
  ASSUME CrawlerInv, [Next]_crawlerVars
  PROVE  CrawlerInv' /\ ScheduleStepOrNone
<1>1. TypeOK /\ ScheduleInv BY DEF CrawlerInv
<1>2. ScheduleStepOrNone BY <1>1, CrawlerStepType
<1>3. ScheduleInv' BY <1>1, <1>2, ScheduleStep DEF ScheduleStepOrNone
<1>. QED
  BY <1>1, <1>2, <1>3, CrawlerStepType DEF CrawlerInv, TypeOK, ScheduleInv

(* The types of the crawler's variables. *)
THEOREM CrawlerTypes == Spec => []TypeOK
BY CrawlerInitInv, CrawlerStepInv, PTL DEF Spec, CrawlerInv

(* In a crawl the shared schedule behaves as LoadSchedule specifies: with  *)
(* ScheduleImplementsFrontier, a request is handed out at most once in a   *)
(* session, whatever is stopped, cleared, restarted or answered late.      *)
THEOREM CrawlerUsesSchedule == Spec => ScheduleSpec
<1>1. Init => ScheduleInit BY DEF Init
<1>2. CrawlerInv /\ [Next]_crawlerVars
        => CrawlerInv' /\ [ScheduleNext]_scheduleVars
  BY CrawlerStepInv DEF ScheduleStepOrNone
<1>. QED BY <1>1, <1>2, CrawlerInitInv, PTL DEF Spec, ScheduleSpec

-----------------------------------------------------------------------------
(* Why a stopped crawler is quiet: the blocking calls of stopCrawling.     *)

Stops(w) == {i \in 1..Len(events[w]) : events[w][i].type = "stop"}
Starts(w) == {i \in 1..Len(events[w]) : events[w][i].type = "start"}

Stopping == mainThread.at \in {"stopWorkers", "awaitStop"}

(* Where the main thread can be for each state of the Spider. *)
MainThreadInv ==
  /\ state \in {"Pause", "Pending"} => Stopping \/ mainThread.at = "idle"
  /\ Stopping => state = "Pause"

(* A stop is queued only while the main thread waits for it, for one       *)
(* worker at a time, and it comes after any start in that worker's queue.  *)
QueuedStopInv ==
  \A w \in Workers :
    /\ Stops(w) # {} => mainThread.at = "awaitStop" /\ w \notin mainThread.todo
    /\ \A i \in Stops(w), j \in Starts(w) : j < i
    /\ \A i, j \in Stops(w) : i = j
    /\ \A v \in Workers : Stops(v) # {} /\ Stops(w) # {} => v = w

Quiet(w) == ~isRunning[w] /\ pc[w] # "extract" /\ Starts(w) = {}

(* Whoever the stop has passed is quiet. *)
QuietInv ==
  state \in {"Pause", "Pending"} =>
    \A w \in Workers :
      Quiet(w) \/ Stops(w) # {} \/ (Stopping /\ w \in mainThread.todo)

StopInv == MainThreadInv /\ QueuedStopInv /\ QuietInv

LEMMA AppendEvent ==
  ASSUME EventsTypeOK, NEW w \in Workers, NEW event \in Events,
         events'[w] = Append(events[w], event)
  PROVE  /\ Stops(w)' = Stops(w) \cup
              (IF event.type = "stop" THEN {Len(events[w]) + 1} ELSE {})
         /\ Starts(w)' = Starts(w) \cup
              (IF event.type = "start" THEN {Len(events[w]) + 1} ELSE {})
<1>1. events[w] \in Seq(Events) BY DEF EventsTypeOK
<1>2. /\ Len(events'[w]) = Len(events[w]) + 1
      /\ Len(events[w]) \in Nat
      /\ events'[w][Len(events[w]) + 1] = event
      /\ \A i \in 1..Len(events[w]) : events'[w][i] = events[w][i]
  BY <1>1
<1>. QED BY <1>2 DEF Stops, Starts

LEMMA ConsumeEvent ==
  ASSUME EventsTypeOK, NEW w \in Workers, events[w] # <<>>, Consume(w)
  PROVE  /\ \A i \in Stops(w)' : i + 1 \in Stops(w)
         /\ \A i \in Starts(w)' : i + 1 \in Starts(w)
         /\ Head(events[w]).type # "stop" /\ Stops(w) # {} => Stops(w)' # {}
         /\ Stops(w)' \subseteq Nat /\ Starts(w)' \subseteq Nat
         /\ 1 \in Stops(w) <=> Head(events[w]).type = "stop"
         /\ 1 \in Starts(w) <=> Head(events[w]).type = "start"
         /\ \A v \in Workers \ {w} :
              Stops(v)' = Stops(v) /\ Starts(v)' = Starts(v)
<1>1. events[w] \in Seq(Events) /\ events' = [events EXCEPT ![w] = Tail(@)]
  BY DEF EventsTypeOK, Consume
<1>2. /\ events'[w] = Tail(events[w])
      /\ \A v \in Workers \ {w} : events'[v] = events[v]
  BY <1>1 DEF EventsTypeOK
<1>3. /\ Len(events[w]) \in Nat /\ Len(events[w]) >= 1
      /\ Len(events'[w]) = Len(events[w]) - 1
      /\ events[w][1] = Head(events[w])
      /\ \A i \in 1..Len(events'[w]) : events'[w][i] = events[w][i + 1]
  <2>1. ASSUME NEW q \in Seq(Events), q # <<>>
        PROVE  /\ Len(q) \in Nat /\ Len(q) >= 1
               /\ Len(Tail(q)) = Len(q) - 1
               /\ q[1] = Head(q)
               /\ \A i \in 1..Len(Tail(q)) : Tail(q)[i] = q[i + 1]
    BY <2>1
  <2>. QED BY <1>1, <1>2, <2>1
<1>4. \A v \in Workers \ {w} : Stops(v)' = Stops(v) /\ Starts(v)' = Starts(v)
  BY <1>2 DEF Stops, Starts
<1>5. ASSUME Head(events[w]).type # "stop", Stops(w) # {}
      PROVE  Stops(w)' # {}
  <2>1. PICK i \in 1..Len(events[w]) : events[w][i].type = "stop"
    BY <1>5 DEF Stops
  <2>2. i # 1 BY <1>3, <1>5, <2>1
  <2>3. i - 1 \in 1..Len(events'[w]) BY <1>3, <2>1, <2>2
  <2>4. events'[w][i - 1] = events[w][i] BY <1>3, <2>3
  <2>. QED BY <2>1, <2>3, <2>4 DEF Stops
<1>. QED BY <1>3, <1>4, <1>5 DEF Stops, Starts

(* Steps after which nobody has been started or stopped. *)
LEMMA StopInvIfEventsKept ==
  ASSUME StopInv, UNCHANGED <<state, mainThread>>,
         \A v \in Workers : Stops(v)' = Stops(v) /\ Starts(v)' = Starts(v),
         \A v \in Workers : Quiet(v) => Quiet(v)'
  PROVE  StopInv'
BY DEF StopInv, MainThreadInv, QueuedStopInv, QuietInv, Stopping

LEMMA StopInvIfEventConsumed ==
  ASSUME TypeOK, StopInv, NEW w \in Workers, events[w] # <<>>,
         Head(events[w]).type # "stop", Consume(w),
         UNCHANGED <<state, mainThread>>,
         \A v \in Workers : Quiet(v) => Quiet(v)'
  PROVE  StopInv'
<1>1. EventsTypeOK BY DEF TypeOK
<1>2. MainThreadInv' BY DEF StopInv, MainThreadInv, Stopping
<1>3. /\ \A i \in Stops(w)' : i \in Nat /\ i + 1 \in Stops(w)
      /\ \A i \in Starts(w)' : i \in Nat /\ i + 1 \in Starts(w)
      /\ Stops(w) # {} => Stops(w)' # {}
      /\ \A v \in Workers \ {w} :
           Stops(v)' = Stops(v) /\ Starts(v)' = Starts(v)
  BY <1>1, ConsumeEvent
<1>4. QuietInv' BY <1>3 DEF StopInv, QuietInv, Stopping
<1>5. QueuedStopInv'
  <2>1. ASSUME NEW v \in Workers
        PROVE  /\ Stops(v)' # {} =>
                    mainThread'.at = "awaitStop" /\ v \notin mainThread'.todo
               /\ \A i \in Stops(v)', j \in Starts(v)' : j < i
               /\ \A i, j \in Stops(v)' : i = j
    <3>1. CASE v # w BY <1>3, <3>1 DEF StopInv, QueuedStopInv
    <3>2. CASE v = w
      <4>1. \A i \in Stops(w)', j \in Starts(w)' : j + 1 < i + 1
        BY <1>3 DEF StopInv, QueuedStopInv
      <4>2. \A i, j \in Stops(w)' : i + 1 = j + 1
        BY <1>3 DEF StopInv, QueuedStopInv
      <4>3. Stops(w)' # {} => Stops(w) # {} BY <1>3
      <4>. QED
        BY <1>3, <3>2, <4>1, <4>2, <4>3 DEF StopInv, QueuedStopInv
    <3>. QED BY <3>1, <3>2
  <2>2. ASSUME NEW v \in Workers PROVE Stops(v)' # {} => Stops(v) # {}
    BY <1>3
  <2>. QED BY <2>1, <2>2 DEF StopInv, QueuedStopInv
<1>. QED BY <1>2, <1>4, <1>5 DEF StopInv

LEMMA EmitKeepsStops ==
  ASSUME EventsTypeOK, NEW type \in {"urlAdded", "clear"}, Emit(type)
  PROVE  \A v \in Workers : Stops(v)' = Stops(v) /\ Starts(v)' = Starts(v)
<1>1. [type |-> type] \in Events BY DEF Events
<1>2. \A v \in Workers : events'[v] = Append(events[v], [type |-> type])
  BY DEF Emit
<1>. QED BY <1>1, <1>2, AppendEvent

LEMMA PostKeepsStops ==
  ASSUME EventsTypeOK, NEW w \in Workers, NEW event \in Events,
         event.type \notin {"start", "stop"}, Post(w, event)
  PROVE  \A v \in Workers : Stops(v)' = Stops(v) /\ Starts(v)' = Starts(v)
<1>1. events'[w] = Append(events[w], event) BY DEF Post, EventsTypeOK
<1>2. \A v \in Workers \ {w} : events'[v] = events[v]
  BY DEF Post, EventsTypeOK
<1>3. Stops(w)' = Stops(w) /\ Starts(w)' = Starts(w) BY <1>1, AppendEvent
<1>. QED BY <1>2, <1>3 DEF Stops, Starts

LEMMA MainStopStep ==
  ASSUME TypeOK, StopInv, Application \/ MainStep
  PROVE  StopInv'
<1>. USE DEF Stopping
<1>1. EventsTypeOK BY DEF TypeOK
<1>2. UNCHANGED <<isRunning, pc>>
  BY MainStepType DEF MainStepOK, loaderVars, handlerVars
<1>3. mainThread.at # "awaitStop" => \A v \in Workers : Stops(v) = {}
  BY DEF StopInv, QueuedStopInv
<1>4. ASSUME \A v \in Workers : Stops(v)' = {}, MainThreadInv', QuietInv'
      PROVE  StopInv'
  BY <1>4 DEF StopInv, QueuedStopInv
<1>5. ASSUME UNCHANGED events
      PROVE  \A v \in Workers : /\ Stops(v)' = Stops(v)
                                /\ Starts(v)' = Starts(v)
                                /\ Quiet(v)' = Quiet(v)
  BY <1>2, <1>5 DEF Stops, Starts, Quiet
<1>6. CASE StartCrawling
  BY <1>3, <1>4, <1>5, <1>6
     DEF StartCrawling, Idle, MainThreadInv, QuietInv, workerVars
<1>7. CASE StopCrawling
  <2>1. mainThread' = [at |-> "stopWorkers", todo |-> Workers]
        /\ state' = "Pause" /\ mainThread = Idle /\ UNCHANGED events
    BY <1>7 DEF StopCrawling, workerVars
  <2>. QED
    BY <1>3, <1>4, <1>5, <2>1 DEF Idle, MainThreadInv, QuietInv
<1>8. CASE ClearData
  <2>1. \A v \in Workers : Stops(v)' = Stops(v) /\ Starts(v)' = Starts(v)
    BY <1>1, <1>8, EmitKeepsStops DEF ClearData
  <2>2. mainThread = Idle /\ state \in {"Pause", "Pending"}
        /\ state' = "Pending" /\ mainThread' = mainThread
    BY <1>8 DEF ClearData
  <2>. QED
    BY <1>2, <1>3, <1>4, <2>1, <2>2
       DEF StopInv, Idle, MainThreadInv, QuietInv, Quiet
<1>9. CASE SetLimit
  BY <1>3, <1>4, <1>5, <1>9
     DEF SetLimit, StopInv, MainThreadInv, QuietInv, workerVars, TypeOK,
         SpiderTypeOK, MainThreads
<1>10. CASE TryToLoadCrawlingDependencies
  BY <1>3, <1>4, <1>5, <1>10
     DEF TryToLoadCrawlingDependencies, BeginSession, Idle, StopInv,
         MainThreadInv, QuietInv, workerVars, TypeOK, SpiderTypeOK,
         MainThreads
<1>11. CASE RobotsTxtLoaded
  BY <1>5, <1>11, StopInvIfEventsKept
     DEF RobotsTxtLoaded, spiderVars, workerVars
<1>12. CASE OnReady
  BY <1>3, <1>4, <1>5, <1>12
     DEF OnReady, BeginSession, Idle, MainThreadInv, QuietInv, workerVars
<1>13. CASE AddStartPage
  <2>1. CASE UNCHANGED events
    BY <1>3, <1>4, <1>5, <1>13, <2>1
       DEF AddStartPage, StopInv, MainThreadInv, QuietInv
  <2>2. CASE Emit("urlAdded")
    BY <1>1, <1>3, <1>4, <1>13, <2>2, EmitKeepsStops
       DEF AddStartPage, StopInv, MainThreadInv, QuietInv
  <2>. QED BY <1>13, <2>1, <2>2 DEF AddStartPage
<1>14. ASSUME NEW w \in Workers, StartWorker(w) PROVE StopInv'
  <2>1. events'[w] = Append(events[w], [type |-> "start"])
        /\ \A v \in Workers \ {w} : events'[v] = events[v]
    BY <1>1, <1>14 DEF StartWorker, Post, EventsTypeOK
  <2>2. [type |-> "start"] \in Events BY DEF Events
  <2>3. Stops(w)' = Stops(w) BY <1>1, <2>1, <2>2, AppendEvent
  <2>4. \A v \in Workers : Stops(v)' = {}
    BY <1>3, <1>14, <2>1, <2>3 DEF StartWorker, Stops
  <2>5. state' = state /\ state \notin {"Pause", "Pending"}
    BY <1>14 DEF StartWorker, StopInv, MainThreadInv
  <2>6. mainThread'.at \notin {"stopWorkers", "awaitStop"}
    BY <1>14 DEF StartWorker, Idle, TypeOK, SpiderTypeOK, MainThreads
  <2>. QED BY <1>4, <2>4, <2>5, <2>6 DEF MainThreadInv, QuietInv
<1>15. ASSUME NEW w \in Workers, StopWorker(w) PROVE StopInv'
  <2>1. events'[w] = Append(events[w], [type |-> "stop"])
        /\ \A v \in Workers \ {w} : events'[v] = events[v]
    BY <1>1, <1>15 DEF StopWorker, Post, EventsTypeOK
  <2>2. [type |-> "stop"] \in Events BY DEF Events
  <2>3. Stops(w)' = Stops(w) \cup {Len(events[w]) + 1}
        /\ Starts(w)' = Starts(w)
    BY <1>1, <2>1, <2>2, AppendEvent
  <2>4. /\ Stops(w)' = {Len(events[w]) + 1}
        /\ \A v \in Workers \ {w} :
             Stops(v)' = {} /\ Starts(v)' = Starts(v)
    BY <1>3, <1>15, <2>1, <2>3 DEF StopWorker, Stops, Starts
  <2>5. \A j \in Starts(w)' : j < Len(events[w]) + 1
    BY <1>1, <2>3 DEF Starts, EventsTypeOK
  <2>6. /\ mainThread' = [at |-> "awaitStop", todo |-> mainThread.todo \ {w}]
        /\ mainThread.at = "stopWorkers" /\ state' = state
    BY <1>15 DEF StopWorker
  <2>7. QueuedStopInv' BY <2>4, <2>5, <2>6 DEF QueuedStopInv
  <2>8. MainThreadInv' BY <2>6 DEF StopInv, MainThreadInv
  <2>9. QuietInv'
    <3>1. ASSUME NEW v \in Workers \ {w} PROVE Quiet(v)' = Quiet(v)
      BY <1>2, <2>4, <3>1 DEF Quiet
    <3>. QED BY <1>3, <2>4, <2>6, <3>1 DEF StopInv, QuietInv
  <2>. QED BY <2>7, <2>8, <2>9 DEF StopInv
<1>. QED
  BY <1>6, <1>7, <1>8, <1>9, <1>10, <1>11, <1>12, <1>13, <1>14, <1>15
     DEF Application, MainStep

LEMMA WorkerStopStep ==
  ASSUME TypeOK, StopInv, NEW w \in Workers, WorkerStep(w)
  PROVE  StopInv'
<1>1. EventsTypeOK BY DEF TypeOK
<1>2. ASSUME Consume(w), events[w] # <<>>, Head(events[w]).type # "stop",
             UNCHANGED <<state, mainThread>>,
             \A v \in Workers \ {w} : UNCHANGED <<isRunning[v], pc[v]>>,
             Quiet(w) => ~isRunning'[w] /\ pc'[w] # "extract"
      PROVE  StopInv'
  <2>1. \A v \in Workers : Starts(v) = {} => Starts(v)' = {}
    BY <1>1, <1>2, ConsumeEvent
  <2>2. \A v \in Workers : Quiet(v) => Quiet(v)' BY <1>2, <2>1 DEF Quiet
  <2>. QED BY <1>2, <2>2, StopInvIfEventConsumed
<1>3. ASSUME \A v \in Workers : Stops(v)' = Stops(v) /\ Starts(v)' = Starts(v),
             UNCHANGED <<state, mainThread>>,
             \A v \in Workers \ {w} : UNCHANGED <<isRunning[v], pc[v]>>,
             Quiet(w) => ~isRunning'[w] /\ pc'[w] # "extract"
      PROVE  StopInv'
  BY <1>3, StopInvIfEventsKept DEF Quiet
<1>4. ASSUME UNCHANGED events
      PROVE  \A v \in Workers : Stops(v)' = Stops(v) /\ Starts(v)' = Starts(v)
  BY <1>4 DEF Stops, Starts
<1>5. ASSUME NEW label, Goto(w, label)
      PROVE  pc'[w] = label /\ \A v \in Workers \ {w} : pc'[v] = pc[v]
  BY <1>5 DEF Goto, TypeOK, HandlerTypeOK
<1>6. ASSUME Return(w)
      PROVE  pc'[w] # "extract" /\ \A v \in Workers \ {w} : pc'[v] = pc[v]
  BY <1>5, <1>6 DEF Return
<1>7. CASE OnUrlAdded(w)
  BY <1>2, <1>5, <1>7
     DEF OnUrlAdded, Receives, spiderVars, loaderVars, Quiet
<1>8. CASE OnStart(w)
  <2>1. Starts(w) # {}
    BY <1>1, <1>8, ConsumeEvent DEF OnStart, Receives
  <2>2. \A v \in Workers \ {w} : isRunning'[v] = isRunning[v]
    BY <1>8 DEF OnStart, TypeOK, LoaderTypeOK
  <2>. QED
    BY <1>2, <1>5, <1>8, <2>1, <2>2 DEF OnStart, Receives, spiderVars, Quiet
<1>9. CASE OnClear(w)
  BY <1>2, <1>9 DEF OnClear, Receives, spiderVars, handlerVars, Quiet
<1>10. CASE OnPageLoaded(w)
  BY <1>2, <1>5, <1>10
     DEF OnPageLoaded, Receives, spiderVars, loaderVars, Quiet
<1>11. CASE OnStop(w)
  <2>1. Consume(w) /\ events[w] # <<>> /\ Head(events[w]).type = "stop"
    BY <1>11 DEF OnStop, Receives
  <2>2. 1 \in Stops(w) BY <1>1, <2>1, ConsumeEvent
  <2>3. /\ mainThread.at = "awaitStop" /\ w \notin mainThread.todo
        /\ \A i \in Stops(w) : i = 1
        /\ \A j \in Starts(w) : j < 1
        /\ \A v \in Workers \ {w} : Stops(v) = {}
    BY <2>2 DEF StopInv, QueuedStopInv
  <2>4. /\ \A i \in Stops(w)' : i \in 1..Len(events'[w]) /\ i + 1 \in Stops(w)
        /\ \A i \in Starts(w)' : i \in 1..Len(events'[w]) /\ i + 1 \in Starts(w)
        /\ \A v \in Workers \ {w} :
             Stops(v)' = Stops(v) /\ Starts(v)' = Starts(v)
    BY <1>1, <2>1, ConsumeEvent DEF Stops, Starts
  <2>5. Stops(w)' = {} /\ Starts(w)' = {} BY <2>3, <2>4
  <2>6. /\ ~isRunning'[w] /\ pc'[w] # "extract"
        /\ \A v \in Workers \ {w} : isRunning'[v] = isRunning[v]
        /\ pc' = pc
    BY <1>11 DEF OnStop, Receives, handlerVars, TypeOK, LoaderTypeOK
  <2>7. /\ state' = state /\ state = "Pause"
        /\ \/ mainThread.todo = {} /\ mainThread' = Idle
           \/ mainThread' = [mainThread EXCEPT !.at = "stopWorkers"]
    BY <1>11, <2>3 DEF OnStop, StopInv, MainThreadInv, Stopping
  <2>8. \/ mainThread.todo = {} /\ mainThread'.at = "idle"
        \/ mainThread'.at = "stopWorkers"
           /\ mainThread'.todo = mainThread.todo
    BY <2>7 DEF Idle, TypeOK, SpiderTypeOK, MainThreads
  <2>9. MainThreadInv' BY <2>7, <2>8 DEF MainThreadInv, Stopping
  <2>10. QueuedStopInv' BY <2>3, <2>4, <2>5 DEF QueuedStopInv
  <2>11. QuietInv'
    <3>1. Quiet(w)' BY <2>5, <2>6 DEF Quiet
    <3>2. ASSUME NEW v \in Workers \ {w} PROVE Quiet(v)' = Quiet(v)
      BY <2>4, <2>6, <3>2 DEF Quiet
    <3>3. \A v \in Workers \ {w} : Quiet(v) \/ v \in mainThread.todo
      BY <2>3, <2>7 DEF StopInv, QuietInv
    <3>. QED BY <2>8, <3>1, <3>2, <3>3 DEF QuietInv, Stopping
  <2>. QED BY <2>9, <2>10, <2>11 DEF StopInv
<1>12. CASE OnTimer(w)
  BY <1>3, <1>4, <1>5, <1>12 DEF OnTimer, spiderVars, Quiet
<1>13. CASE Response(w)
  <2>1. PICK load \in inFlight : OnResponse(w, load) BY <1>13 DEF Response
  <2>2. [type |-> "page", request |-> load.request] \in Events
    BY DEF Events, Loads, TypeOK
  <2>3. \A v \in Workers : Stops(v)' = Stops(v) /\ Starts(v)' = Starts(v)
    BY <1>1, <2>1, <2>2, PostKeepsStops DEF OnResponse
  <2>. QED
    BY <1>3, <2>1, <2>3 DEF OnResponse, spiderVars, handlerVars, Quiet
<1>14. CASE Reset(w)
  BY <1>3, <1>4, <1>14
     DEF Reset, ConnectionReset, spiderVars, loaderVars, handlerVars, Quiet
<1>15. CASE CheckLoader(w)
  BY <1>3, <1>4, <1>5, <1>6, <1>15 DEF CheckLoader, spiderVars, Quiet
<1>16. CASE Extract(w) \/ ExtractNothing(w)
  BY <1>3, <1>4, <1>6, <1>16
     DEF Extract, ExtractNothing, spiderVars, loaderVars, Quiet
<1>17. CASE HandlePage(w) \/ ResponseHandled(w) \/ PageHandled(w)
  BY <1>3, <1>4, <1>5, <1>17
     DEF HandlePage, ResponseHandled, PageHandled, spiderVars, loaderVars,
         Quiet
<1>18. CASE ScheduleList(w)
  BY <1>3, <1>4, <1>5, <1>18 DEF ScheduleList, spiderVars, loaderVars, Quiet
<1>19. CASE AddLink(w)
  BY <1>3, <1>4, <1>19
     DEF AddLink, spiderVars, workerVars, loaderVars, handlerVars, Quiet
<1>20. CASE ListScheduled(w)
  <2>1. \A v \in Workers : Stops(v)' = Stops(v) /\ Starts(v)' = Starts(v)
    BY <1>1, <1>20, EmitKeepsStops DEF ListScheduled
  <2>. QED
    BY <1>3, <1>5, <1>20, <2>1 DEF ListScheduled, spiderVars, loaderVars, Quiet
<1>. QED
  BY <1>7, <1>8, <1>9, <1>10, <1>11, <1>12, <1>13, <1>14, <1>15, <1>16,
     <1>17, <1>18, <1>19, <1>20 DEF WorkerStep, PostedEvent, HandlerStep

LEMMA StopStep ==
  ASSUME CrawlerInv, StopInv, [Next]_crawlerVars
  PROVE  StopInv'
<1>1. TypeOK BY DEF CrawlerInv
<1>2. CASE UNCHANGED crawlerVars
  BY <1>2, StopInvIfEventsKept
     DEF crawlerVars, spiderVars, workerVars, loaderVars, handlerVars,
         Stops, Starts, Quiet
<1>. QED BY <1>1, <1>2, MainStopStep, WorkerStopStep DEF Next

LEMMA StopInvInit == Init => StopInv
BY DEF Init, StopInv, MainThreadInv, QueuedStopInv, QuietInv, Quiet,
       Stopping, Stops, Starts, Idle

LEMMA StopInvIsQuiet == TypeOK /\ StopInv => StoppedIsQuiet
<1>. SUFFICES ASSUME TypeOK, StopInv, state \in {"Pause", "Pending"},
                     mainThread = Idle, NEW w \in Workers
              PROVE  Quiet(w)
  BY DEF StoppedIsQuiet, Quiet, Starts
<1>. QED
  BY DEF StopInv, QueuedStopInv, QuietInv, Stopping, Idle

(* After stopCrawling has returned, and while the Spider stays paused or   *)
(* pending, no worker takes requests and none is about to: for any number  *)
(* of workers and whatever was queued for them when the stop was posted.   *)
THEOREM StopIsQuiet == Spec => []StoppedIsQuiet
<1>1. CrawlerInv /\ StopInv /\ [Next]_crawlerVars => (CrawlerInv /\ StopInv)'
  BY CrawlerStepInv, StopStep
<1>2. CrawlerInv /\ StopInv => StoppedIsQuiet
  BY StopInvIsQuiet DEF CrawlerInv
<1>. QED BY <1>1, <1>2, CrawlerInitInv, StopInvInit, PTL DEF Spec

-----------------------------------------------------------------------------
(* Why the loads under way are bounded: a worker that has passed the test  *)
(* of the count takes one request at most before it makes the test again.  *)
LEMMA ActiveCount ==
  ASSUME TypeOK
  PROVE  /\ IsFiniteSet(activeUrlList) /\ Cardinality(activeUrlList) \in Nat
         /\ IsFiniteSet(Extracting) /\ Cardinality(Extracting) \in Nat
         /\ Cardinality(Extracting) <= Cardinality(Workers)
         /\ Cardinality(Workers) \in Nat
<1>1. activeUrlList \subseteq Requests /\ Extracting \subseteq Workers
  BY DEF TypeOK, ScheduleTypeOK, Extracting
<1>. QED
  BY <1>1, FS_Subset, FS_CardinalityType, RequestsAssumption,
     WorkersAssumption

(* Steps by which nothing becomes active and nobody passes the test. *)
LEMMA ActiveBoundIfLess ==
  ASSUME TypeOK, ActiveBound, activeUrlList' \subseteq activeUrlList,
         \A w \in Workers : pc'[w] = "extract" => pc[w] = "extract"
  PROVE  ActiveBound'
<1>1. Extracting' \subseteq Extracting BY DEF Extracting
<1>2. /\ Cardinality(activeUrlList') \in Nat
      /\ Cardinality(Extracting') \in Nat
      /\ Cardinality(activeUrlList') <= Cardinality(activeUrlList)
      /\ Cardinality(Extracting') <= Cardinality(Extracting)
  BY <1>1, ActiveCount, FS_Subset, FS_CardinalityType
<1>. QED BY <1>2, ActiveCount, BoundsAssumption DEF ActiveBound

LEMMA BoundStep ==
  ASSUME CrawlerInv, ActiveBound, [Next]_crawlerVars
  PROVE  ActiveBound'
<1>1. TypeOK /\ TypeOK' BY CrawlerStepInv DEF CrawlerInv
<1>2. ASSUME UNCHANGED <<activeUrlList, pc>> PROVE ActiveBound'
  BY <1>1, <1>2, ActiveBoundIfLess
<1>3. ASSUME NEW w \in Workers, NEW label, Goto(w, label), label # "extract",
             activeUrlList' \subseteq activeUrlList
      PROVE  ActiveBound'
  BY <1>1, <1>3, ActiveBoundIfLess DEF Goto, TypeOK, HandlerTypeOK
<1>4. CASE UNCHANGED crawlerVars
  BY <1>2, <1>4
     DEF crawlerVars, scheduleVars, lists, workerVars, handlerVars
<1>5. CASE Application \/ MainStep
  <2>1. UNCHANGED pc
    BY <1>1, <1>5, MainStepType DEF MainStepOK, handlerVars
  <2>2. activeUrlList' \subseteq activeUrlList
    BY <1>5
       DEF Application, MainStep, StartCrawling, StopCrawling, ClearData,
           Clear, SetLimit, SetLimitCrawledLinksCount, RobotsTxtLoaded,
           TryToLoadCrawlingDependencies, OnReady, AddStartPage, AddUrl,
           AddUrlInternal, StartWorker, StopWorker, scheduleVars, lists
  <2>. QED BY <1>1, <2>1, <2>2, ActiveBoundIfLess
<1>6. ASSUME NEW w \in Workers, WorkerStep(w) PROVE ActiveBound'
  <2>1. CASE OnUrlAdded(w) \/ OnStart(w) \/ OnTimer(w) \/ ResponseHandled(w)
             \/ PageHandled(w)
    BY <1>3, <2>1
       DEF OnUrlAdded, OnStart, OnTimer, ResponseHandled, PageHandled,
           scheduleVars, lists
  <2>2. CASE OnStop(w) \/ OnClear(w) \/ Response(w) \/ Reset(w)
    BY <1>2, <2>2
       DEF OnStop, OnClear, Response, OnResponse, Reset, ConnectionReset,
           handlerVars, scheduleVars, lists
  <2>3. CASE OnPageLoaded(w)
    BY <1>3, <2>3 DEF OnPageLoaded, ActiveRequestReceived
  <2>4. CASE CheckLoader(w)
    <3>1. CASE Return(w)
      BY <1>3, <2>4, <3>1 DEF CheckLoader, Return, scheduleVars, lists
    <3>2. CASE CanPullLoading(w)
      <4>1. activeUrlList' = activeUrlList
            /\ Cardinality(activeUrlList) <= MaxActive
        BY <2>4, <3>2 DEF CheckLoader, CanPullLoading, scheduleVars, lists
      <4>2. Cardinality(Extracting)' <= Cardinality(Workers)
            /\ Cardinality(Extracting)' \in Nat
        <5>1. Extracting' \subseteq Workers BY DEF Extracting
        <5>. QED
          BY <5>1, FS_Subset, FS_CardinalityType, WorkersAssumption
      <4>. QED
        BY <1>1, <4>1, <4>2, ActiveCount, BoundsAssumption DEF ActiveBound
    <3>. QED BY <2>4, <3>1, <3>2 DEF CheckLoader
  <2>5. CASE Extract(w)
    <3>1. PICK r \in pendingUrlList : ExtractUrl(r) BY <2>5 DEF Extract
    <3>2. activeUrlList' = activeUrlList \cup {r} BY <3>1 DEF ExtractUrl
    <3>3. w \in Extracting /\ Extracting' = Extracting \ {w}
      BY <1>1, <2>5 DEF Extract, Return, Goto, Extracting, TypeOK,
                        HandlerTypeOK
    <3>4. /\ Cardinality(activeUrlList') <= Cardinality(activeUrlList) + 1
          /\ Cardinality(activeUrlList') \in Nat
      <4>1. IsFiniteSet(activeUrlList) /\ Cardinality(activeUrlList) \in Nat
        BY <1>1, ActiveCount
      <4>2. Cardinality(activeUrlList \cup {r})
              \in {Cardinality(activeUrlList), Cardinality(activeUrlList) + 1}
        BY <4>1, FS_AddElement
      <4>. QED BY <3>2, <4>1, <4>2
    <3>5. Cardinality(Extracting)' = Cardinality(Extracting) - 1
      BY <1>1, <3>3, ActiveCount, FS_RemoveElement
    <3>. QED
      BY <1>1, <3>4, <3>5, ActiveCount, BoundsAssumption DEF ActiveBound
  <2>6. CASE ExtractNothing(w)
    BY <1>3, <2>6 DEF ExtractNothing, Return, scheduleVars, lists
  <2>7. CASE HandlePage(w)
    BY <1>3, <2>7 DEF HandlePage, AddCrawledUrl, scheduleVars, lists
  <2>8. CASE ScheduleList(w)
    BY <1>2, <1>3, <2>8
       DEF ScheduleList, AddUrlListBegin, scheduleVars, lists
  <2>9. CASE AddLink(w)
    BY <1>2, <2>9
       DEF AddLink, AddUrlListStep, AddUrlInternal, workerVars, handlerVars
  <2>10. CASE ListScheduled(w)
    BY <1>3, <2>10 DEF ListScheduled, AddUrlListEnd, lists
  <2>. QED
    BY <1>6, <2>1, <2>2, <2>3, <2>4, <2>5, <2>6, <2>7, <2>8, <2>9, <2>10
       DEF WorkerStep, PostedEvent, HandlerStep
<1>. QED BY <1>4, <1>5, <1>6 DEF Next

LEMMA ActiveBoundInit == Init => ActiveBound
<1>. SUFFICES ASSUME Init PROVE ActiveBound OBVIOUS
<1>1. activeUrlList = {} /\ Extracting = {}
  BY DEF Init, ScheduleInit, Extracting
<1>2. Cardinality(Workers) \in Nat
  BY WorkersAssumption, FS_CardinalityType
<1>. QED BY <1>1, <1>2, FS_EmptySet, BoundsAssumption DEF ActiveBound

(* However many workers find a free slot before any of them takes it, the  *)
(* loads under way and about to begin exceed the limit by no more than one *)
(* for each worker.                                                        *)
THEOREM LoadsAreBounded == Spec => []ActiveBound
<1>1. CrawlerInv /\ ActiveBound /\ [Next]_crawlerVars
        => (CrawlerInv /\ ActiveBound)'
  BY CrawlerStepInv, BoundStep
<1>. QED BY <1>1, CrawlerInitInv, ActiveBoundInit, PTL DEF Spec

-----------------------------------------------------------------------------
(* Why no slot is lost: whoever is active was asked for in this session,   *)
(* whose loads no reset drops, or has its answer in some worker's queue.   *)
PageQueued(r) ==
  \E w \in Workers : \E i \in 1..Len(events[w]) :
    events[w][i] = [type |-> "page", request |-> r]

AskedFor(r) == \E load \in inFlight : load.request = r /\ load.session = clears

AwaitedInv == \A r \in activeUrlList : AskedFor(r) \/ PageQueued(r)

LEMMA AppendedPage ==
  ASSUME EventsTypeOK, EventsTypeOK', NEW r,
         \A v \in Workers : \/ events'[v] = events[v]
                            \/ \E event \in Events :
                                 events'[v] = Append(events[v], event)
  PROVE  PageQueued(r) => PageQueued(r)'
<1>. SUFFICES ASSUME PageQueued(r) PROVE PageQueued(r)' OBVIOUS
<1>0. PICK w \in Workers : \E i \in 1..Len(events[w]) :
         events[w][i] = [type |-> "page", request |-> r]
  BY DEF PageQueued
<1>1. PICK i \in 1..Len(events[w]) :
         events[w][i] = [type |-> "page", request |-> r]
  BY <1>0
<1>2. ASSUME NEW event \in Events, events'[w] = Append(events[w], event)
      PROVE  i \in 1..Len(events'[w]) /\ events'[w][i] = events[w][i]
  BY <1>2 DEF EventsTypeOK
<1>. QED BY <1>1, <1>2 DEF PageQueued

LEMMA ConsumedPage ==
  ASSUME EventsTypeOK, NEW w \in Workers, events[w] # <<>>, Consume(w), NEW r,
         Head(events[w]) # [type |-> "page", request |-> r], PageQueued(r)
  PROVE  PageQueued(r)'
<1>0. PICK v \in Workers : \E i \in 1..Len(events[v]) :
         events[v][i] = [type |-> "page", request |-> r]
  BY DEF PageQueued
<1>1. PICK i \in 1..Len(events[v]) :
         events[v][i] = [type |-> "page", request |-> r]
  BY <1>0
<1>2. /\ events'[w] = Tail(events[w])
      /\ \A u \in Workers \ {w} : events'[u] = events[u]
  BY DEF Consume, EventsTypeOK
<1>3. CASE v # w BY <1>1, <1>2, <1>3 DEF PageQueued
<1>4. CASE v = w
  <2>1. ASSUME NEW q \in Seq(Events), q # <<>>, NEW j \in 1..Len(q), j # 1
        PROVE  j - 1 \in 1..Len(Tail(q)) /\ Tail(q)[j - 1] = q[j]
    BY <2>1
  <2>2. i # 1 BY <1>1, <1>4 DEF EventsTypeOK
  <2>3. i - 1 \in 1..Len(events'[w]) /\ events'[w][i - 1] = events[w][i]
    BY <1>1, <1>2, <1>4, <2>1, <2>2 DEF EventsTypeOK
  <2>. QED BY <1>1, <1>4, <2>3 DEF PageQueued
<1>. QED BY <1>3, <1>4

LEMMA MainAwaited ==
  ASSUME TypeOK, AwaitedInv, Application \/ MainStep
  PROVE  AwaitedInv'
<1>1. UNCHANGED inFlight BY MainStepType DEF MainStepOK
<1>2. EventsTypeOK /\ EventsTypeOK' BY MainStepType DEF TypeOK, MainStepOK
<1>3. CASE ClearData BY <1>3 DEF ClearData, Clear, AwaitedInv
<1>4. CASE ~ClearData
  <2>1. UNCHANGED <<activeUrlList, clears>>
    BY <1>4
       DEF Application, MainStep, StartCrawling, StopCrawling,
           SetLimit, SetLimitCrawledLinksCount, RobotsTxtLoaded,
           TryToLoadCrawlingDependencies, OnReady, AddStartPage, AddUrl,
           AddUrlInternal, StartWorker, StopWorker, scheduleVars, lists,
           spiderVars
  <2>2. \A v \in Workers : \/ events'[v] = events[v]
                           \/ \E event \in Events :
                                 events'[v] = Append(events[v], event)
    BY <1>2, <1>4
       DEF Application, MainStep, StartCrawling, StopCrawling,
           SetLimit, RobotsTxtLoaded, TryToLoadCrawlingDependencies, OnReady,
           AddStartPage, StartWorker, StopWorker, workerVars, Emit, Post,
           EventsTypeOK
  <2>3. \A r : PageQueued(r) => PageQueued(r)' BY <1>2, <2>2, AppendedPage
  <2>. QED BY <1>1, <2>1, <2>3 DEF AwaitedInv, AskedFor
<1>. QED BY <1>3, <1>4

LEMMA WorkerAwaited ==
  ASSUME TypeOK, AwaitedInv, NEW w \in Workers, WorkerStep(w)
  PROVE  AwaitedInv'
<1>1. EventsTypeOK /\ EventsTypeOK'
  BY WorkerStepType DEF TypeOK, WorkerStepOK
<1>2. ASSUME UNCHANGED <<activeUrlList, clears, inFlight>>,
             \A r : PageQueued(r) => PageQueued(r)'
      PROVE  AwaitedInv'
  BY <1>2 DEF AwaitedInv, AskedFor
<1>3. ASSUME UNCHANGED events PROVE \A r : PageQueued(r) => PageQueued(r)'
  BY <1>3 DEF PageQueued
<1>4. ASSUME Consume(w), events[w] # <<>>, Head(events[w]).type # "page"
      PROVE  \A r : PageQueued(r) => PageQueued(r)'
  <2>1. \A r : Head(events[w]) # [type |-> "page", request |-> r] BY <1>4
  <2>. QED BY <1>1, <1>4, <2>1, ConsumedPage
<1>. USE DEF spiderVars, scheduleVars, lists
<1>5. CASE OnUrlAdded(w) \/ OnStart(w) \/ OnStop(w) \/ OnClear(w)
  BY <1>2, <1>4, <1>5 DEF OnUrlAdded, OnStart, OnStop, OnClear, Receives
<1>6. CASE OnPageLoaded(w)
  <2>1. /\ Consume(w) /\ events[w] # <<>> /\ Head(events[w]).type = "page"
        /\ activeUrlList' = activeUrlList \ {Head(events[w]).request}
        /\ UNCHANGED <<inFlight, clears>>
    BY <1>6 DEF OnPageLoaded, Receives, ActiveRequestReceived
  <2>2. \A r \in activeUrlList' :
          Head(events[w]) # [type |-> "page", request |-> r]
    BY <2>1
  <2>3. \A r \in activeUrlList' : PageQueued(r) => PageQueued(r)'
    BY <1>1, <2>1, <2>2, ConsumedPage
  <2>. QED BY <2>1, <2>3 DEF AwaitedInv, AskedFor
<1>7. CASE OnTimer(w) BY <1>2, <1>3, <1>7 DEF OnTimer
<1>8. CASE Response(w)
  <2>1. PICK load \in inFlight : OnResponse(w, load) BY <1>8 DEF Response
  <2>2. /\ events'[w] =
              Append(events[w], [type |-> "page", request |-> load.request])
        /\ \A v \in Workers \ {w} : events'[v] = events[v]
        /\ inFlight' = inFlight \ {load}
        /\ UNCHANGED <<activeUrlList, clears>>
    BY <1>1, <2>1 DEF OnResponse, Post, EventsTypeOK
  <2>3. \A r : PageQueued(r) => PageQueued(r)'
    <3>1. [type |-> "page", request |-> load.request] \in Events
      BY DEF Events, Loads, TypeOK
    <3>. QED BY <1>1, <2>2, <3>1, AppendedPage
  <2>4. PageQueued(load.request)'
    <3>1. Len(events[w]) + 1 \in 1..Len(events'[w])
          /\ events'[w][Len(events[w]) + 1]
                = [type |-> "page", request |-> load.request]
      BY <1>1, <2>2 DEF EventsTypeOK
    <3>. QED BY <3>1 DEF PageQueued
  <2>. QED BY <2>2, <2>3, <2>4 DEF AwaitedInv, AskedFor
<1>9. CASE Reset(w)
  <2>1. PICK load \in inFlight : ConnectionReset(w, load) BY <1>9 DEF Reset
  <2>2. /\ load.session # clears /\ inFlight' = inFlight \ {load}
        /\ UNCHANGED <<activeUrlList, clears, events>>
    BY <2>1 DEF ConnectionReset, TypeOK, SpiderTypeOK, Loads
  <2>. QED BY <1>3, <2>2 DEF AwaitedInv, AskedFor
<1>10. CASE Extract(w)
  <2>1. PICK r \in pendingUrlList :
          /\ activeUrlList' = activeUrlList \cup {r}
          /\ inFlight' = inFlight \cup
               {[worker |-> w, request |-> r, session |-> clears]}
    BY <1>10 DEF Extract, ExtractUrl
  <2>2. UNCHANGED <<clears, events>> BY <1>10 DEF Extract
  <2>3. \A q \in activeUrlList : AskedFor(q)' \/ PageQueued(q)'
    BY <1>3, <2>1, <2>2 DEF AwaitedInv, AskedFor
  <2>4. AskedFor(r)'
    <3>. DEFINE load == [worker |-> w, request |-> r, session |-> clears]
    <3>1. load \in inFlight' /\ load.request = r /\ load.session = clears'
      BY <2>1, <2>2
    <3>. QED BY <3>1 DEF AskedFor
  <2>. QED BY <2>1, <2>3, <2>4 DEF AwaitedInv
<1>11. CASE CheckLoader(w) \/ ExtractNothing(w) \/ HandlePage(w)
              \/ ResponseHandled(w) \/ ScheduleList(w) \/ PageHandled(w)
              \/ AddLink(w)
  BY <1>2, <1>3, <1>11
     DEF CheckLoader, ExtractNothing, HandlePage, AddCrawledUrl,
         ResponseHandled, ScheduleList, AddUrlListBegin, PageHandled, AddLink,
         AddUrlListStep, AddUrlInternal, workerVars
<1>12. CASE ListScheduled(w)
  <2>1. \A v \in Workers :
          \E event \in Events : events'[v] = Append(events[v], event)
    <3>1. [type |-> "urlAdded"] \in Events BY DEF Events
    <3>. QED BY <1>12, <3>1 DEF ListScheduled, Emit
  <2>2. \A r : PageQueued(r) => PageQueued(r)' BY <1>1, <2>1, AppendedPage
  <2>. QED BY <1>2, <1>12, <2>2 DEF ListScheduled, AddUrlListEnd
<1>. QED
  BY <1>5, <1>6, <1>7, <1>8, <1>9, <1>10, <1>11, <1>12
     DEF WorkerStep, PostedEvent, HandlerStep

LEMMA AwaitedStep ==
  ASSUME CrawlerInv, AwaitedInv, [Next]_crawlerVars
  PROVE  AwaitedInv'
<1>1. CASE UNCHANGED crawlerVars
  BY <1>1
     DEF crawlerVars, scheduleVars, lists, spiderVars, workerVars, AwaitedInv,
         AskedFor, PageQueued
<1>. QED BY <1>1, MainAwaited, WorkerAwaited DEF Next, CrawlerInv

(* No slot of an active load is lost for ever: every active request still  *)
(* has an answer on its way, with either loader, any number of workers and *)
(* sessions, and whatever answers late.                                    *)
THEOREM ActiveLoadsAreAwaited == Spec => []ActiveIsAwaited
<1>1. Init => AwaitedInv BY DEF Init, ScheduleInit, AwaitedInv
<1>2. CrawlerInv /\ AwaitedInv /\ [Next]_crawlerVars
        => (CrawlerInv /\ AwaitedInv)'
  BY CrawlerStepInv, AwaitedStep
<1>3. AwaitedInv => ActiveIsAwaited
  BY DEF AwaitedInv, ActiveIsAwaited, AskedFor, PageQueued
<1>. QED BY <1>1, <1>2, <1>3, CrawlerInitInv, PTL DEF Spec

-----------------------------------------------------------------------------
(* Why a QtPageLoader abandons one load for each clear at most: a worker   *)
(* has one load more than its requester only when a clear has come to it.  *)
ClearsIn(queue) == {i \in 1..Len(queue) : queue[i].type = "clear"}
WorkerLoads(w) == {load \in inFlight : load.worker = w}

PulledInv(w) ==
  /\ pc[w] = "extract" => ~requester[w]
  /\ IsFiniteSet(WorkerLoads(w))
  /\ Cardinality(WorkerLoads(w)) + Cardinality(ClearsIn(events[w]))
       <= clears + (IF requester[w] THEN 1 ELSE 0)

PullsInv == Loader = "QtPageLoader" => \A w \in Workers : PulledInv(w)

(* The clears in a queue can be counted. *)
LEMMA ClearsAreFinite ==
  ASSUME NEW queue \in Seq(Events)
  PROVE  IsFiniteSet(ClearsIn(queue)) /\ Cardinality(ClearsIn(queue)) \in Nat
<1>1. ClearsIn(queue) \subseteq 1..Len(queue) BY DEF ClearsIn
<1>2. IsFiniteSet(1..Len(queue)) BY FS_Interval
<1>. QED BY <1>1, <1>2, FS_Subset, FS_CardinalityType

(* A posted clear is one more, any other event none. *)
LEMMA ClearsAppended ==
  ASSUME NEW queue \in Seq(Events), NEW event \in Events
  PROVE  Cardinality(ClearsIn(Append(queue, event)))
           = Cardinality(ClearsIn(queue))
               + IF event.type = "clear" THEN 1 ELSE 0
<1>. DEFINE longer == Append(queue, event)
<1>1. /\ longer \in Seq(Events) /\ Len(longer) = Len(queue) + 1
      /\ \A i \in 1..Len(queue) : longer[i] = queue[i]
      /\ longer[Len(queue) + 1] = event
      /\ Len(queue) \in Nat
  OBVIOUS
<1> HIDE DEF longer
<1>2. CASE event.type = "clear"
  <2>1. ClearsIn(longer) = ClearsIn(queue) \cup {Len(queue) + 1}
    BY <1>1, <1>2 DEF ClearsIn
  <2>2. Len(queue) + 1 \notin ClearsIn(queue) BY <1>1 DEF ClearsIn
  <2>. QED BY <1>2, <2>1, <2>2, ClearsAreFinite, FS_AddElement DEF longer
<1>3. CASE event.type # "clear"
  <2>1. ClearsIn(longer) = ClearsIn(queue) BY <1>1, <1>3 DEF ClearsIn
  <2>. QED BY <1>3, <2>1, ClearsAreFinite DEF longer
<1>. QED BY <1>2, <1>3

(* A clear that is taken is one less. *)
LEMMA ClearsConsumed ==
  ASSUME NEW queue \in Seq(Events), queue # <<>>
  PROVE  Cardinality(ClearsIn(Tail(queue)))
           + (IF Head(queue).type = "clear" THEN 1 ELSE 0)
             <= Cardinality(ClearsIn(queue))
<1>. DEFINE tail == Tail(queue)
            shift == [i \in ClearsIn(tail) |-> i + 1]
<1>1. /\ tail \in Seq(Events) /\ Len(tail) = Len(queue) - 1
      /\ \A i \in 1..Len(tail) : tail[i] = queue[i + 1]
      /\ Len(queue) \in Nat /\ Len(queue) > 0
      /\ Head(queue) = queue[1]
  OBVIOUS
<1> HIDE DEF tail
<1>2. \A i \in ClearsIn(tail) : i + 1 \in ClearsIn(queue) \ {1}
  BY <1>1 DEF ClearsIn
<1>3. shift \in Injection(ClearsIn(tail), ClearsIn(queue) \ {1})
  <2>1. shift \in [ClearsIn(tail) -> ClearsIn(queue) \ {1}] BY <1>2
  <2>2. ASSUME NEW i \in ClearsIn(tail), NEW j \in ClearsIn(tail),
               shift[i] = shift[j]
        PROVE  i = j
    BY <1>1, <2>2 DEF ClearsIn
  <2>. QED BY <2>1, <2>2 DEF Injection, IsInjective
<1>4. IsFiniteSet(ClearsIn(queue) \ {1})
      /\ Cardinality(ClearsIn(queue) \ {1})
           = IF 1 \in ClearsIn(queue) THEN Cardinality(ClearsIn(queue)) - 1
                                      ELSE Cardinality(ClearsIn(queue))
  BY ClearsAreFinite, FS_RemoveElement
<1>5. Cardinality(ClearsIn(tail)) <= Cardinality(ClearsIn(queue) \ {1})
  BY <1>3, <1>4, FS_Injection
<1>6. 1 \in ClearsIn(queue) <=> Head(queue).type = "clear"
  BY <1>1 DEF ClearsIn
<1>7. Cardinality(ClearsIn(tail)) \in Nat /\ Cardinality(ClearsIn(queue)) \in Nat
  BY <1>1, ClearsAreFinite
<1>. QED BY <1>4, <1>5, <1>6, <1>7 DEF tail

(* Steps that begin no load at w and take no clear from its queue. *)
LEMMA PulledKept ==
  ASSUME TypeOK, EventsTypeOK', NEW w \in Workers, PulledInv(w),
         pc'[w] = "extract" => ~requester'[w],
         requester'[w] = requester[w], clears' = clears,
         WorkerLoads(w)' \subseteq WorkerLoads(w),
         \/ events'[w] = events[w]
         \/ events'[w] = Tail(events[w]) /\ events[w] # <<>>
         \/ \E event \in Events :
              event.type # "clear" /\ events'[w] = Append(events[w], event)
  PROVE  PulledInv(w)'
<1>1. events[w] \in Seq(Events) /\ events'[w] \in Seq(Events)
  BY DEF TypeOK, EventsTypeOK
<1>2. /\ Cardinality(ClearsIn(events[w])) \in Nat
      /\ Cardinality(ClearsIn(events'[w])) \in Nat
  BY <1>1, ClearsAreFinite
<1>3. Cardinality(ClearsIn(events'[w])) <= Cardinality(ClearsIn(events[w]))
  <2>1. CASE events'[w] = events[w] BY <1>2, <2>1
  <2>2. CASE events'[w] = Tail(events[w]) /\ events[w] # <<>>
    BY <1>1, <1>2, <2>2, ClearsConsumed
  <2>3. ASSUME NEW event \in Events, event.type # "clear",
               events'[w] = Append(events[w], event)
        PROVE  Cardinality(ClearsIn(events'[w]))
                 <= Cardinality(ClearsIn(events[w]))
    BY <1>1, <1>2, <2>3, ClearsAppended
  <2>. QED BY <2>1, <2>2, <2>3
<1>4. /\ IsFiniteSet(WorkerLoads(w)') /\ Cardinality(WorkerLoads(w)') \in Nat
      /\ Cardinality(WorkerLoads(w)) \in Nat
      /\ Cardinality(WorkerLoads(w)') <= Cardinality(WorkerLoads(w))
  BY FS_Subset, FS_CardinalityType DEF PulledInv
<1>5. clears \in Nat BY DEF TypeOK, SpiderTypeOK
<1>6. Cardinality(WorkerLoads(w)') + Cardinality(ClearsIn(events'[w]))
        <= clears' + (IF requester'[w] THEN 1 ELSE 0)
  BY <1>2, <1>3, <1>4, <1>5 DEF PulledInv
<1>. QED BY <1>4, <1>6 DEF PulledInv

(* The application and the main thread: only clearData adds a clear, and   *)
(* it counts it.                                                           *)
LEMMA MainPulls ==
  ASSUME TypeOK, Application \/ MainStep, NEW w \in Workers, PulledInv(w)
  PROVE  PulledInv(w)'
<1>1. /\ EventsTypeOK /\ EventsTypeOK'
      /\ UNCHANGED <<pc, requester, inFlight>>
  BY MainStepType DEF TypeOK, MainStepOK, loaderVars, handlerVars
<1>2. CASE ClearData
  <2>1. /\ events'[w] = Append(events[w], [type |-> "clear"])
        /\ clears' = clears + 1
    BY <1>2 DEF ClearData, Emit
  <2>2. [type |-> "clear"] \in Events BY DEF Events
  <2>3. events[w] \in Seq(Events) BY <1>1 DEF EventsTypeOK
  <2>4. Cardinality(ClearsIn(events'[w])) = Cardinality(ClearsIn(events[w])) + 1
    BY <2>1, <2>2, <2>3, ClearsAppended
  <2>5. /\ Cardinality(ClearsIn(events[w])) \in Nat
        /\ Cardinality(WorkerLoads(w)) \in Nat /\ clears \in Nat
    BY <2>3, ClearsAreFinite, FS_CardinalityType
       DEF PulledInv, TypeOK, SpiderTypeOK
  <2>6. WorkerLoads(w)' = WorkerLoads(w) BY <1>1 DEF WorkerLoads
  <2>. QED BY <1>1, <2>1, <2>4, <2>5, <2>6 DEF PulledInv
<1>3. CASE ~ClearData
  <2>1. clears' = clears
    BY <1>3
       DEF Application, MainStep, StartCrawling, StopCrawling, SetLimit,
           RobotsTxtLoaded, TryToLoadCrawlingDependencies, OnReady,
           AddStartPage, StartWorker, StopWorker, spiderVars
  <2>2. \/ events'[w] = events[w]
        \/ \E event \in Events :
             event.type # "clear" /\ events'[w] = Append(events[w], event)
    <3>1. /\ [type |-> "urlAdded"] \in Events /\ [type |-> "start"] \in Events
          /\ [type |-> "stop"] \in Events
      BY DEF Events
    <3>. QED
      BY <1>1, <1>3, <3>1
         DEF Application, MainStep, StartCrawling, StopCrawling, SetLimit,
             RobotsTxtLoaded, TryToLoadCrawlingDependencies, OnReady,
             AddStartPage, StartWorker, StopWorker, workerVars, Emit, Post,
             EventsTypeOK
  <2>3. WorkerLoads(w)' \subseteq WorkerLoads(w) BY <1>1 DEF WorkerLoads
  <2>. QED BY <1>1, <2>1, <2>2, <2>3, PulledKept DEF PulledInv
<1>. QED BY <1>2, <1>3

(* What a worker does to the queue and the loads of another. *)
LEMMA OthersPull ==
  ASSUME TypeOK, NEW v \in Workers, WorkerStep(v),
         NEW w \in Workers \ {v}, PulledInv(w)
  PROVE  PulledInv(w)'
<1>1. /\ EventsTypeOK /\ EventsTypeOK'
  BY WorkerStepType DEF TypeOK, WorkerStepOK
<1>2. w # v OBVIOUS
<1>3. ASSUME pc'[w] = pc[w], requester'[w] = requester[w], clears' = clears,
             WorkerLoads(w)' \subseteq WorkerLoads(w),
             \/ events'[w] = events[w]
             \/ events'[w] = Append(events[w], [type |-> "urlAdded"])
      PROVE  PulledInv(w)'
  <2>1. [type |-> "urlAdded"] \in Events BY DEF Events
  <2>. QED BY <1>1, <1>3, <2>1, PulledKept DEF PulledInv
<1>4. ASSUME Consume(v) PROVE events'[w] = events[w]
  BY <1>2, <1>4 DEF Consume, EventsTypeOK, TypeOK
<1>5. ASSUME NEW label, Goto(v, label) PROVE pc'[w] = pc[w]
  BY <1>2, <1>5 DEF Goto, TypeOK, HandlerTypeOK
<1>6. ASSUME NEW load, load.worker = v \/ load \in inFlight,
             inFlight' \subseteq inFlight \cup {load}
      PROVE  WorkerLoads(w)' \subseteq WorkerLoads(w)
  BY <1>2, <1>6 DEF WorkerLoads
<1>7. ASSUME inFlight' \subseteq inFlight
      PROVE  WorkerLoads(w)' \subseteq WorkerLoads(w)
  BY <1>7 DEF WorkerLoads
<1>8. CASE OnUrlAdded(v) \/ OnStart(v) \/ OnStop(v) \/ OnPageLoaded(v)
  BY <1>3, <1>4, <1>5, <1>7, <1>8
     DEF OnUrlAdded, OnStart, OnStop, OnPageLoaded, spiderVars, loaderVars,
         handlerVars
<1>9. CASE OnClear(v)
  BY <1>2, <1>3, <1>4, <1>7, <1>9
     DEF OnClear, spiderVars, handlerVars, TypeOK, LoaderTypeOK
<1>10. CASE OnTimer(v) BY <1>3, <1>5, <1>7, <1>10 DEF OnTimer, spiderVars
<1>11. CASE Response(v)
  BY <1>1, <1>2, <1>3, <1>7, <1>11
     DEF Response, OnResponse, Post, EventsTypeOK, spiderVars, handlerVars,
         TypeOK, LoaderTypeOK
<1>12. CASE Reset(v)
  BY <1>3, <1>7, <1>12
     DEF Reset, ConnectionReset, spiderVars, loaderVars, handlerVars
<1>13. CASE Extract(v)
  <2>1. pc'[w] = pc[w] BY <1>5, <1>13 DEF Extract, Return
  <2>2. requester'[w] = requester[w]
    BY <1>2, <1>13 DEF Extract, TypeOK, LoaderTypeOK
  <2>3. PICK r : inFlight' = inFlight \cup
                   {[worker |-> v, request |-> r, session |-> clears]}
    BY <1>13 DEF Extract
  <2>4. WorkerLoads(w)' \subseteq WorkerLoads(w) BY <1>6, <2>3
  <2>. QED BY <1>3, <1>13, <2>1, <2>2, <2>4 DEF Extract, spiderVars
<1>14. CASE CheckLoader(v) \/ ExtractNothing(v)
  BY <1>3, <1>5, <1>7, <1>14
     DEF CheckLoader, ExtractNothing, Return, spiderVars, loaderVars
<1>15. CASE HandlePage(v) \/ ResponseHandled(v) \/ PageHandled(v)
  BY <1>3, <1>5, <1>7, <1>15
     DEF HandlePage, ResponseHandled, PageHandled, spiderVars, loaderVars
<1>16. CASE ScheduleList(v) \/ AddLink(v)
  BY <1>3, <1>5, <1>7, <1>16
     DEF ScheduleList, AddLink, spiderVars, loaderVars, workerVars, handlerVars
<1>17. CASE ListScheduled(v)
  BY <1>3, <1>5, <1>7, <1>17
     DEF ListScheduled, Emit, spiderVars, loaderVars
<1>. QED
  BY <1>8, <1>9, <1>10, <1>11, <1>12, <1>13, <1>14, <1>15, <1>16, <1>17
     DEF WorkerStep, PostedEvent, HandlerStep

(* What a worker does to its own loads. *)
LEMMA OwnPulls ==
  ASSUME TypeOK, Loader = "QtPageLoader", NEW w \in Workers, WorkerStep(w),
         PulledInv(w)
  PROVE  PulledInv(w)'
<1>1. /\ EventsTypeOK /\ EventsTypeOK' /\ events[w] \in Seq(Events)
  BY WorkerStepType DEF TypeOK, WorkerStepOK, EventsTypeOK
<1>2. /\ Cardinality(ClearsIn(events[w])) \in Nat /\ clears \in Nat
      /\ IsFiniteSet(WorkerLoads(w)) /\ Cardinality(WorkerLoads(w)) \in Nat
  BY <1>1, ClearsAreFinite, FS_CardinalityType
     DEF PulledInv, TypeOK, SpiderTypeOK
<1>3. ASSUME NEW label, Goto(w, label), label # "extract"
      PROVE  pc'[w] # "extract"
  BY <1>3 DEF Goto, TypeOK, HandlerTypeOK
<1>4. ASSUME Consume(w) PROVE events'[w] = Tail(events[w])
  BY <1>4 DEF Consume, EventsTypeOK, TypeOK
<1>5. ASSUME inFlight' = inFlight PROVE WorkerLoads(w)' = WorkerLoads(w)
  BY <1>5 DEF WorkerLoads
<1>6. CASE OnUrlAdded(w) \/ OnStart(w) \/ OnStop(w) \/ OnPageLoaded(w)
  <2>1. /\ events'[w] = Tail(events[w]) /\ events[w] # <<>>
        /\ clears' = clears /\ requester' = requester /\ inFlight' = inFlight
    BY <1>4, <1>6 DEF OnUrlAdded, OnStart, OnStop, OnPageLoaded, Receives,
                      spiderVars, loaderVars
  <2>2. pc'[w] # "extract"
    BY <1>3, <1>6 DEF OnUrlAdded, OnStart, OnStop, OnPageLoaded, Receives,
                      handlerVars
  <2>. QED BY <1>1, <1>5, <2>1, <2>2, PulledKept
<1>7. CASE OnClear(w)
  <2>1. /\ events'[w] = Tail(events[w]) /\ events[w] # <<>>
        /\ Head(events[w]).type = "clear"
        /\ clears' = clears /\ inFlight' = inFlight /\ pc' = pc
        /\ requester'[w] = FALSE
    BY <1>4, <1>7
       DEF OnClear, Receives, spiderVars, handlerVars, TypeOK, LoaderTypeOK
  <2>2. Cardinality(ClearsIn(events'[w])) + 1
          <= Cardinality(ClearsIn(events[w]))
    BY <1>1, <2>1, ClearsConsumed
  <2>3. Cardinality(ClearsIn(events'[w])) \in Nat
    BY <1>1, ClearsAreFinite DEF EventsTypeOK
  <2>4. Cardinality(WorkerLoads(w)') + Cardinality(ClearsIn(events'[w]))
          <= clears' + 0
    BY <1>2, <1>5, <2>1, <2>2, <2>3 DEF PulledInv
  <2>. QED BY <1>2, <1>5, <2>1, <2>4 DEF PulledInv
<1>8. CASE OnTimer(w)
  BY <1>1, <1>3, <1>5, <1>8, PulledKept DEF OnTimer, spiderVars
<1>9. CASE Response(w)
  <2>1. PICK load \in inFlight : OnResponse(w, load) BY <1>9 DEF Response
  <2>2. /\ load \in WorkerLoads(w)
        /\ WorkerLoads(w)' = WorkerLoads(w) \ {load}
        /\ clears' = clears /\ pc' = pc /\ requester'[w] = FALSE
    BY <2>1 DEF OnResponse, WorkerLoads, spiderVars, handlerVars, TypeOK,
                LoaderTypeOK
  <2>3. Cardinality(ClearsIn(events'[w])) = Cardinality(ClearsIn(events[w]))
    <3>1. [type |-> "page", request |-> load.request] \in Events
      BY DEF Events, Loads, TypeOK
    <3>2. events'[w] =
            Append(events[w], [type |-> "page", request |-> load.request])
      BY <1>1, <2>1 DEF OnResponse, Post, EventsTypeOK
    <3>. QED BY <1>1, <1>2, <3>1, <3>2, ClearsAppended
  <2>4. /\ IsFiniteSet(WorkerLoads(w)')
        /\ Cardinality(WorkerLoads(w)') = Cardinality(WorkerLoads(w)) - 1
    BY <1>2, <2>2, FS_RemoveElement
  <2>5. Cardinality(WorkerLoads(w)') + Cardinality(ClearsIn(events'[w]))
          <= clears' + 0
    BY <1>2, <2>2, <2>3, <2>4 DEF PulledInv
  <2>. QED BY <2>2, <2>4, <2>5 DEF PulledInv
<1>10. CASE Reset(w)
  BY <1>10 DEF Reset, ConnectionReset
<1>11. CASE Extract(w)
  <2>1. PICK r \in pendingUrlList :
          /\ requester' = [requester EXCEPT ![w] = TRUE]
          /\ inFlight' = inFlight \cup
               {[worker |-> w, request |-> r, session |-> clears]}
    BY <1>11 DEF Extract
  <2>2. ~requester[w] /\ requester'[w]
    BY <1>11, <2>1 DEF Extract, PulledInv, TypeOK, LoaderTypeOK
  <2>3. pc'[w] # "extract" BY <1>3, <1>11 DEF Extract, Return
  <2>. DEFINE load == [worker |-> w, request |-> r, session |-> clears]
  <2>4. /\ WorkerLoads(w)' = WorkerLoads(w) \cup {load}
        /\ clears' = clears /\ events' = events
    BY <1>11, <2>1 DEF Extract, WorkerLoads, spiderVars
  <2>5. /\ IsFiniteSet(WorkerLoads(w)') /\ Cardinality(WorkerLoads(w)') \in Nat
        /\ Cardinality(WorkerLoads(w)') <= Cardinality(WorkerLoads(w)) + 1
    <3>1. /\ IsFiniteSet(WorkerLoads(w) \cup {load})
          /\ Cardinality(WorkerLoads(w) \cup {load})
               \in {Cardinality(WorkerLoads(w)), Cardinality(WorkerLoads(w)) + 1}
      <4>. HIDE DEF load
      <4>. QED BY <1>2, FS_AddElement
    <3>. QED BY <1>2, <2>4, <3>1
  <2>6. Cardinality(WorkerLoads(w)') + Cardinality(ClearsIn(events'[w]))
          <= clears' + 1
    BY <1>2, <2>2, <2>4, <2>5 DEF PulledInv
  <2>. QED BY <2>2, <2>3, <2>5, <2>6 DEF PulledInv
<1>12. CASE CheckLoader(w)
  <2>1. pc'[w] = "extract" => ~requester[w]
    BY <1>3, <1>12 DEF CheckLoader, CanPullLoading, Return
  <2>2. UNCHANGED <<requester, clears, events, inFlight>>
    BY <1>12 DEF CheckLoader, spiderVars
  <2>. QED BY <1>1, <1>5, <2>1, <2>2, PulledKept
<1>13. CASE ExtractNothing(w) \/ HandlePage(w) \/ ResponseHandled(w)
              \/ PageHandled(w) \/ ScheduleList(w) \/ AddLink(w)
  <2>1. UNCHANGED <<requester, clears, events, inFlight>>
    BY <1>13 DEF ExtractNothing, HandlePage, ResponseHandled, PageHandled,
                 ScheduleList, AddLink, spiderVars, loaderVars, workerVars
  <2>2. pc'[w] # "extract"
    BY <1>3, <1>13
       DEF ExtractNothing, HandlePage, ResponseHandled, PageHandled,
           ScheduleList, AddLink, Return, workerVars, handlerVars
  <2>. QED BY <1>1, <1>5, <2>1, <2>2, PulledKept
<1>14. CASE ListScheduled(w)
  <2>1. /\ UNCHANGED <<requester, clears, inFlight>>
        /\ events'[w] = Append(events[w], [type |-> "urlAdded"])
    BY <1>14 DEF ListScheduled, Emit, spiderVars, loaderVars
  <2>2. pc'[w] # "extract" BY <1>3, <1>14 DEF ListScheduled
  <2>3. [type |-> "urlAdded"] \in Events BY DEF Events
  <2>. QED BY <1>1, <1>5, <2>1, <2>2, <2>3, PulledKept
<1>. QED
  BY <1>6, <1>7, <1>8, <1>9, <1>10, <1>11, <1>12, <1>13, <1>14
     DEF WorkerStep, PostedEvent, HandlerStep

(* Every step of the crawler keeps the count. *)
LEMMA PullsStep ==
  ASSUME CrawlerInv, PullsInv, [Next]_crawlerVars
  PROVE  PullsInv'
<1>. SUFFICES ASSUME Loader = "QtPageLoader", NEW w \in Workers,
                     PulledInv(w)
              PROVE  PulledInv(w)'
  BY DEF PullsInv
<1>1. CASE UNCHANGED crawlerVars
  BY <1>1 DEF crawlerVars, spiderVars, workerVars, loaderVars, handlerVars,
              PulledInv, WorkerLoads
<1>. QED BY <1>1, MainPulls, OthersPull, OwnPulls DEF Next, CrawlerInv

(* A QtPageLoader has at most one load under way more than the clears so   *)
(* far, for any number of workers and whenever the abandoned loads answer. *)
THEOREM AbandonedLoadsAreCounted == Spec => []LoadsPerWorker
<1>1. Init => PullsInv
  <2>. SUFFICES ASSUME Init, NEW w \in Workers PROVE PulledInv(w)
    BY DEF PullsInv
  <2>1. WorkerLoads(w) = {} /\ ClearsIn(events[w]) = {}
    BY DEF Init, WorkerLoads, ClearsIn
  <2>2. pc[w] = "idle" /\ clears = 0 /\ ~requester[w] BY DEF Init
  <2>3. /\ IsFiniteSet(WorkerLoads(w)) /\ Cardinality(WorkerLoads(w)) = 0
        /\ Cardinality(ClearsIn(events[w])) = 0
    BY <2>1, FS_EmptySet
  <2>. QED BY <2>2, <2>3 DEF PulledInv
<1>2. CrawlerInv /\ PullsInv /\ [Next]_crawlerVars
        => (CrawlerInv /\ PullsInv)'
  BY CrawlerStepInv, PullsStep
<1>3. CrawlerInv /\ PullsInv => LoadsPerWorker
  <2>. SUFFICES ASSUME CrawlerInv, PullsInv, Loader = "QtPageLoader",
                       NEW w \in Workers
                PROVE  Cardinality(WorkerLoads(w)) <= 1 + clears
    BY DEF LoadsPerWorker, WorkerLoads
  <2>1. /\ Cardinality(ClearsIn(events[w])) \in Nat
        /\ Cardinality(WorkerLoads(w)) \in Nat /\ clears \in Nat
    BY ClearsAreFinite, FS_CardinalityType
       DEF PullsInv, PulledInv, CrawlerInv, TypeOK, SpiderTypeOK, EventsTypeOK
  <2>. QED BY <2>1 DEF PullsInv, PulledInv
<1>. QED BY <1>1, <1>2, <1>3, CrawlerInitInv, PTL DEF Spec

=============================================================================
