---------------------------- MODULE LoadSchedule ----------------------------
(***************************************************************************)
(* class LoadSchedule: the lists of requests shared by the crawler's       *)
(* threads.  Every method holds the recursive mutex from its first line to *)
(* its last, so a call is one step, with two exceptions that can be seen   *)
(* from outside: addUrlList takes the mutex once and adds its requests one *)
(* after the other, and setLimitCrawledLinksCount takes no lock, so that   *)
(* the limit may change in the middle of such a list.  The setters         *)
(* setCrawledUrls, setPendingUrls and clearPending have no caller in src/, *)
(* which hands the schedule out as a pointer to const: they are left out.  *)
(***************************************************************************)
EXTENDS Integers, FiniteSets, Sequences

CONSTANTS
  Requests,   \* values of DataToLoad: an address with its request type
  Threads,    \* threads that call the schedule
  NoThread,   \* the owner of the mutex when nobody holds it
  Limits,     \* values of the option limitSearchTotal (not positive: no limit)
  UrlLists    \* lists of requests a page may bring

ASSUME RequestsAssumption == IsFiniteSet(Requests)
ASSUME NoThreadAssumption == NoThread \notin Threads
ASSUME LimitsAssumption   == Limits \subseteq Int /\ -1 \in Limits
ASSUME UrlListsAssumption == UrlLists \subseteq Seq(Requests)

VARIABLES
  pendingUrlList, crawledUrlList, activeUrlList,
  limitCrawledLinksCount,
  mutex,      \* the thread inside addUrlList, or NoThread
  urlList     \* what the call of addUrlList has still to add

lists == <<pendingUrlList, crawledUrlList, activeUrlList>>
scheduleVars == <<lists, limitCrawledLinksCount, mutex, urlList>>

ScheduleTypeOK ==
  /\ pendingUrlList \subseteq Requests
  /\ crawledUrlList \subseteq Requests
  /\ activeUrlList \subseteq Requests
  /\ limitCrawledLinksCount \in Limits
  /\ mutex \in Threads \cup {NoThread}
  /\ urlList \in Seq(Requests)

ScheduleInit ==
  /\ pendingUrlList = {} /\ crawledUrlList = {} /\ activeUrlList = {}
  /\ limitCrawledLinksCount = -1
  /\ mutex = NoThread
  /\ urlList = <<>>

Unlocked == mutex = NoThread

CountLinks == Cardinality(pendingUrlList) + Cardinality(crawledUrlList)

(* Faulty: the limit may be passed by one. *)
LimitReachedLate ==
  limitCrawledLinksCount > 0 /\ CountLinks > limitCrawledLinksCount

LimitReached ==
  limitCrawledLinksCount > 0 /\ CountLinks >= limitCrawledLinksCount

(* Faulty: a request loaded before is not recognised. *)
AcceptsCrawled(r) == ~LimitReached

(* addUrlInternal inserts r, and then emits urlAdded, only if this holds.  *)
Accepts(r) == ~LimitReached /\ r \notin crawledUrlList

AddUrlInternal(r) ==
  /\ pendingUrlList' = IF Accepts(r) THEN pendingUrlList \cup {r}
                                     ELSE pendingUrlList
  /\ UNCHANGED <<crawledUrlList, activeUrlList, limitCrawledLinksCount>>

AddUrl(r) ==
  /\ Unlocked
  /\ AddUrlInternal(r)
  /\ UNCHANGED <<mutex, urlList>>

(* Faulty: a request is handed out without being marked as crawled. *)
ExtractUrlUnmarked(r) ==
  /\ Unlocked
  /\ r \in pendingUrlList
  /\ activeUrlList' = activeUrlList \cup {r}
  /\ pendingUrlList' = pendingUrlList \ {r}
  /\ UNCHANGED <<crawledUrlList, limitCrawledLinksCount, mutex, urlList>>

(* begin() of a hash set: any pending request.  On an empty list the       *)
(* method returns false and changes nothing.                               *)
ExtractUrl(r) ==
  /\ Unlocked
  /\ r \in pendingUrlList
  /\ crawledUrlList' = crawledUrlList \cup {r}
  /\ activeUrlList' = activeUrlList \cup {r}
  /\ pendingUrlList' = pendingUrlList \ {r}
  /\ UNCHANGED <<limitCrawledLinksCount, mutex, urlList>>

(* addUrlList: an empty list returns before the lock. *)
AddUrlListBegin(t, l) ==
  /\ Unlocked
  /\ l # <<>>
  /\ mutex' = t
  /\ urlList' = l
  /\ UNCHANGED <<lists, limitCrawledLinksCount>>

AddUrlListStep(t) ==
  /\ mutex = t
  /\ urlList # <<>>
  /\ AddUrlInternal(Head(urlList))
  /\ urlList' = Tail(urlList)
  /\ UNCHANGED mutex

(* The end of addUrlList: one urlAdded for the list, whatever was added. *)
AddUrlListEnd(t) ==
  /\ mutex = t
  /\ urlList = <<>>
  /\ mutex' = NoThread
  /\ UNCHANGED <<lists, limitCrawledLinksCount, urlList>>

(* At the limit the method returns without erasing r from the pending list. *)
AddCrawledUrl(r) ==
  /\ Unlocked
  /\ IF LimitReached
     THEN UNCHANGED <<pendingUrlList, crawledUrlList>>
     ELSE /\ crawledUrlList' = crawledUrlList \cup {r}
          /\ pendingUrlList' = pendingUrlList \ {r}
  /\ UNCHANGED <<activeUrlList, limitCrawledLinksCount, mutex, urlList>>

ActiveRequestReceived(r) ==
  /\ Unlocked
  /\ activeUrlList' = activeUrlList \ {r}
  /\ UNCHANGED <<pendingUrlList, crawledUrlList, limitCrawledLinksCount,
                 mutex, urlList>>

(* Faulty: the loads of the old session stay active. *)
ClearKeepsActive ==
  /\ Unlocked
  /\ pendingUrlList' = {} /\ crawledUrlList' = {}
  /\ UNCHANGED <<activeUrlList, limitCrawledLinksCount, mutex, urlList>>

Clear ==
  /\ Unlocked
  /\ pendingUrlList' = {} /\ crawledUrlList' = {} /\ activeUrlList' = {}
  /\ UNCHANGED <<limitCrawledLinksCount, mutex, urlList>>

(* Faulty: one more than the option says. *)
SetLimitOffByOne(value) ==
  /\ limitCrawledLinksCount' = value + 1
  /\ UNCHANGED <<lists, mutex, urlList>>

(* No lock is taken: enabled while another thread is inside addUrlList. *)
SetLimitCrawledLinksCount(value) ==
  /\ limitCrawledLinksCount' = value
  /\ UNCHANGED <<lists, mutex, urlList>>

ScheduleNext ==
  \/ \E r \in Requests : \/ AddUrl(r)
                         \/ ExtractUrl(r)
                         \/ AddCrawledUrl(r)
                         \/ ActiveRequestReceived(r)
  \/ \E t \in Threads : \/ \E l \in UrlLists : AddUrlListBegin(t, l)
                        \/ AddUrlListStep(t)
                        \/ AddUrlListEnd(t)
  \/ \E value \in Limits : SetLimitCrawledLinksCount(value)
  \/ Clear

ScheduleSpec == ScheduleInit /\ [][ScheduleNext]_scheduleVars

-----------------------------------------------------------------------------
(* A request being loaded, or loaded before, never waits again: the        *)
(* DEBUG_ASSERT of extractUrl, whatever the threads interleave.            *)
ListsDisjoint == pendingUrlList \cap crawledUrlList = {}

(* A request in flight counts as crawled, so that a link to it found       *)
(* meanwhile by another worker does not load it a second time.             *)
ActiveIsCrawled == activeUrlList \subseteq crawledUrlList

(* The lists grow only up to the limit in force at that moment, although   *)
(* addUrlList tests it once per request and another thread may change it   *)
(* between two tests.                                                      *)
LimitRespected ==
  [][limitCrawledLinksCount > 0 /\ CountLinks' > CountLinks
       => CountLinks' <= limitCrawledLinksCount]_scheduleVars

(* The schedule is a frontier: hand out at most once, forget only as a     *)
(* whole.                                                                  *)
Frontier == INSTANCE CrawlFrontier
              WITH waiting <- pendingUrlList, done <- crawledUrlList
FrontierSpec == Frontier!Spec
=============================================================================
