------------------------- MODULE LoadScheduleProofs -------------------------
(***************************************************************************)
(* Proofs about LoadSchedule for every set of requests and threads, every  *)
(* choice of limits and every list of links.                               *)
(***************************************************************************)
EXTENDS LoadSchedule, FiniteSetTheorems, TLAPS

(* The step of a frontier that a call makes, when it makes one. *)
FrontierStep == Frontier!Next \/ UNCHANGED <<pendingUrlList, crawledUrlList>>

ScheduleInv == ScheduleTypeOK /\ ListsDisjoint /\ ActiveIsCrawled

-----------------------------------------------------------------------------
(* Adding a request to the lists of a well-formed schedule. *)
LEMMA AddUrlInternalPreserves ==
  ASSUME ScheduleInv, NEW r \in Requests, AddUrlInternal(r)
  PROVE  /\ pendingUrlList' \subseteq Requests
         /\ crawledUrlList' \subseteq Requests
         /\ activeUrlList' \subseteq Requests
         /\ limitCrawledLinksCount' \in Limits
         /\ ListsDisjoint' /\ ActiveIsCrawled'
         /\ FrontierStep
BY DEF ScheduleInv, ScheduleTypeOK, ListsDisjoint, ActiveIsCrawled,
       AddUrlInternal, Accepts, FrontierStep, Frontier!Next,
       Frontier!Discover

(* The invariant is inductive, and each step of the schedule is one step   *)
(* of the frontier or none.                                                *)
LEMMA ScheduleStep ==
  ASSUME ScheduleInv, [ScheduleNext]_scheduleVars
  PROVE  ScheduleInv' /\ FrontierStep
<1> USE DEF ScheduleInv
<1>1. ASSUME NEW r \in Requests, AddUrl(r)
      PROVE  ScheduleInv' /\ FrontierStep
  <2>1. AddUrlInternal(r) BY <1>1 DEF AddUrl
  <2>2. UNCHANGED <<mutex, urlList>> BY <1>1 DEF AddUrl
  <2>. QED BY <2>1, <2>2, AddUrlInternalPreserves DEF ScheduleTypeOK
<1>2. ASSUME NEW r \in Requests, ExtractUrl(r)
      PROVE  ScheduleInv' /\ FrontierStep
  BY <1>2 DEF ExtractUrl, ScheduleTypeOK, ListsDisjoint, ActiveIsCrawled,
              FrontierStep, Frontier!Next, Frontier!Finish
<1>3. ASSUME NEW r \in Requests, AddCrawledUrl(r)
      PROVE  ScheduleInv' /\ FrontierStep
  <2>1. CASE LimitReached
    BY <1>3, <2>1 DEF AddCrawledUrl, ScheduleTypeOK, ListsDisjoint,
                      ActiveIsCrawled, FrontierStep
  <2>2. CASE ~LimitReached /\ r \notin crawledUrlList
    BY <1>3, <2>2 DEF AddCrawledUrl, ScheduleTypeOK, ListsDisjoint,
                      ActiveIsCrawled, FrontierStep, Frontier!Next,
                      Frontier!Finish
  <2>3. CASE ~LimitReached /\ r \in crawledUrlList
    <3>1. pendingUrlList \ {r} = pendingUrlList
      BY <2>3 DEF ListsDisjoint
    <3>. QED
      BY <1>3, <2>3, <3>1 DEF AddCrawledUrl, ScheduleTypeOK, ListsDisjoint,
                              ActiveIsCrawled, FrontierStep
  <2>. QED BY <2>1, <2>2, <2>3
<1>4. ASSUME NEW r \in Requests, ActiveRequestReceived(r)
      PROVE  ScheduleInv' /\ FrontierStep
  BY <1>4 DEF ActiveRequestReceived, ScheduleTypeOK, ListsDisjoint,
              ActiveIsCrawled, FrontierStep
<1>5. ASSUME NEW t \in Threads, NEW l \in UrlLists, AddUrlListBegin(t, l)
      PROVE  ScheduleInv' /\ FrontierStep
  BY <1>5, UrlListsAssumption
     DEF AddUrlListBegin, lists, ScheduleTypeOK, ListsDisjoint,
         ActiveIsCrawled, FrontierStep
<1>6. ASSUME NEW t \in Threads, AddUrlListStep(t)
      PROVE  ScheduleInv' /\ FrontierStep
  <2>1. /\ AddUrlInternal(Head(urlList))
        /\ Head(urlList) \in Requests
        /\ urlList' \in Seq(Requests)
        /\ UNCHANGED mutex
    BY <1>6 DEF AddUrlListStep, ScheduleTypeOK
  <2>. QED BY <2>1, AddUrlInternalPreserves DEF ScheduleTypeOK
<1>7. ASSUME NEW t \in Threads, AddUrlListEnd(t)
      PROVE  ScheduleInv' /\ FrontierStep
  BY <1>7 DEF AddUrlListEnd, lists, ScheduleTypeOK, ListsDisjoint,
              ActiveIsCrawled, FrontierStep
<1>8. ASSUME NEW value \in Limits, SetLimitCrawledLinksCount(value)
      PROVE  ScheduleInv' /\ FrontierStep
  BY <1>8 DEF SetLimitCrawledLinksCount, lists, ScheduleTypeOK,
              ListsDisjoint, ActiveIsCrawled, FrontierStep
<1>9. ASSUME Clear PROVE ScheduleInv' /\ FrontierStep
  BY <1>9 DEF Clear, ScheduleTypeOK, ListsDisjoint, ActiveIsCrawled,
              FrontierStep, Frontier!Next, Frontier!Forget
<1>10. ASSUME UNCHANGED scheduleVars PROVE ScheduleInv' /\ FrontierStep
  BY <1>10 DEF scheduleVars, lists, ScheduleTypeOK, ListsDisjoint,
               ActiveIsCrawled, FrontierStep
<1>. QED
  BY <1>1, <1>2, <1>3, <1>4, <1>5, <1>6, <1>7, <1>8, <1>9, <1>10
     DEF ScheduleNext

-----------------------------------------------------------------------------
LEMMA ScheduleInitInv == ScheduleInit => ScheduleInv
BY LimitsAssumption
   DEF ScheduleInit, ScheduleInv, ScheduleTypeOK, ListsDisjoint,
       ActiveIsCrawled

(* The lists hold requests, no request is both pending and crawled, and    *)
(* what is in flight counts as crawled, in every reachable state.          *)
THEOREM ScheduleInvariant == ScheduleSpec => []ScheduleInv
BY ScheduleInitInv, ScheduleStep, PTL DEF ScheduleSpec

(* The lists hold requests, whichever thread changes them. *)
THEOREM ScheduleIsTyped == ScheduleSpec => []ScheduleTypeOK
BY ScheduleInvariant, PTL DEF ScheduleInv

(* extractUrl's DEBUG_ASSERT never fails. *)
THEOREM PendingIsNotCrawled == ScheduleSpec => []ListsDisjoint
BY ScheduleInvariant, PTL DEF ScheduleInv

(* What is being loaded cannot be queued a second time. *)
THEOREM InFlightIsCrawled == ScheduleSpec => []ActiveIsCrawled
BY ScheduleInvariant, PTL DEF ScheduleInv

(* The schedule implements the abstract frontier: between two calls of     *)
(* clear a request is handed out at most once.                             *)
THEOREM ScheduleImplementsFrontier == ScheduleSpec => FrontierSpec
<1>1. ScheduleInit => Frontier!Init
  BY DEF ScheduleInit, Frontier!Init
<1>2. ScheduleInv /\ [ScheduleNext]_scheduleVars
        => [Frontier!Next]_(Frontier!vars)
  BY ScheduleStep DEF FrontierStep, Frontier!vars
<1>. QED
  BY <1>1, <1>2, ScheduleInvariant, PTL
     DEF ScheduleSpec, FrontierSpec, Frontier!Spec

-----------------------------------------------------------------------------
(* Sizes of the lists are numbers, and putting r in or taking it out moves *)
(* them by at most one.                                                    *)
LEMMA ListSizes ==
  ASSUME NEW S \in SUBSET Requests, NEW r \in Requests
  PROVE  /\ Cardinality(S) \in Nat
         /\ Cardinality(S \cup {r}) \in Nat
         /\ Cardinality(S \cup {r}) <= Cardinality(S) + 1
         /\ Cardinality(S \ {r}) \in Nat
         /\ Cardinality(S \ {r}) <= Cardinality(S)
         /\ r \in S => Cardinality(S \ {r}) = Cardinality(S) - 1
<1>1. IsFiniteSet(S) BY RequestsAssumption, FS_Subset
<1>2. Cardinality(S) \in Nat BY <1>1, FS_CardinalityType
<1>3. Cardinality(S \cup {r}) = IF r \in S THEN Cardinality(S)
                                ELSE Cardinality(S) + 1
  BY <1>1, FS_AddElement
<1>4. Cardinality(S \ {r}) = IF r \in S THEN Cardinality(S) - 1
                             ELSE Cardinality(S)
  BY <1>1, FS_RemoveElement
<1>5. IsFiniteSet(S \ {r}) BY <1>1, FS_RemoveElement
<1>6. Cardinality(S \ {r}) \in Nat BY <1>5, FS_CardinalityType
<1>. QED BY <1>2, <1>3, <1>4, <1>6

LEMMA CountLinksIsANumber ==
  ASSUME ScheduleTypeOK
  PROVE  /\ Cardinality(pendingUrlList) \in Nat
         /\ Cardinality(crawledUrlList) \in Nat
         /\ CountLinks \in Nat
BY RequestsAssumption, FS_Subset, FS_CardinalityType
   DEF CountLinks, ScheduleTypeOK

(* One step of the lists and the limit in force. *)
LimitStep == limitCrawledLinksCount > 0 /\ CountLinks' > CountLinks
               => CountLinks' <= limitCrawledLinksCount

LEMMA AddUrlInternalWithinLimit ==
  ASSUME ScheduleTypeOK, NEW r \in Requests, AddUrlInternal(r)
  PROVE  LimitStep
<1>1. CASE ~Accepts(r)
  <2>1. CountLinks' = CountLinks BY <1>1 DEF AddUrlInternal, CountLinks
  <2>. QED BY <2>1, CountLinksIsANumber DEF LimitStep
<1>2. CASE Accepts(r)
  <2>1. CountLinks' = Cardinality(pendingUrlList \cup {r})
                        + Cardinality(crawledUrlList)
    BY <1>2 DEF AddUrlInternal, CountLinks
  <2>2. /\ Cardinality(pendingUrlList \cup {r}) \in Nat
        /\ Cardinality(pendingUrlList \cup {r})
             <= Cardinality(pendingUrlList) + 1
    BY ListSizes DEF ScheduleTypeOK
  <2>3. CountLinks' \in Int /\ CountLinks' <= CountLinks + 1
    BY <2>1, <2>2, CountLinksIsANumber DEF CountLinks
  <2>4. limitCrawledLinksCount \in Int
    BY LimitsAssumption DEF ScheduleTypeOK
  <2>. QED BY <1>2, <2>4, <2>3, CountLinksIsANumber
           DEF LimitStep, Accepts, LimitReached
<1>. QED BY <1>1, <1>2

LEMMA ScheduleStepWithinLimit ==
  ASSUME ScheduleInv, [ScheduleNext]_scheduleVars
  PROVE  LimitStep
<1>. USE DEF ScheduleInv
<1>1. CountLinks \in Nat BY CountLinksIsANumber
<1>2. ASSUME UNCHANGED <<pendingUrlList, crawledUrlList>>
      PROVE  LimitStep
  BY <1>1, <1>2 DEF LimitStep, CountLinks
<1>3. ASSUME NEW r \in Requests, AddUrl(r) PROVE LimitStep
  BY <1>3, AddUrlInternalWithinLimit DEF AddUrl
<1>4. ASSUME NEW r \in Requests, ExtractUrl(r) PROVE LimitStep
  <2>1. CountLinks' = Cardinality(pendingUrlList \ {r})
                        + Cardinality(crawledUrlList \cup {r})
    BY <1>4 DEF ExtractUrl, CountLinks
  <2>2. r \in pendingUrlList BY <1>4 DEF ExtractUrl
  <2>3. /\ Cardinality(pendingUrlList \ {r}) \in Nat
        /\ Cardinality(pendingUrlList \ {r})
             = Cardinality(pendingUrlList) - 1
    BY <2>2, ListSizes DEF ScheduleTypeOK
  <2>4. /\ Cardinality(crawledUrlList \cup {r}) \in Nat
        /\ Cardinality(crawledUrlList \cup {r})
             <= Cardinality(crawledUrlList) + 1
    BY ListSizes DEF ScheduleTypeOK
  <2>5. CountLinks' \in Int /\ CountLinks' <= CountLinks
    BY <2>1, <2>3, <2>4, CountLinksIsANumber DEF CountLinks
  <2>. QED BY <1>1, <2>5 DEF LimitStep
<1>5. ASSUME NEW r \in Requests, AddCrawledUrl(r) PROVE LimitStep
  <2>1. CASE LimitReached
    BY <1>2, <1>5, <2>1 DEF AddCrawledUrl
  <2>2. CASE ~LimitReached
    <3>1. CountLinks' = Cardinality(pendingUrlList \ {r})
                          + Cardinality(crawledUrlList \cup {r})
      BY <1>5, <2>2 DEF AddCrawledUrl, CountLinks
    <3>2. /\ Cardinality(pendingUrlList \ {r}) \in Nat
          /\ Cardinality(pendingUrlList \ {r})
               <= Cardinality(pendingUrlList)
      BY ListSizes DEF ScheduleTypeOK
    <3>3. /\ Cardinality(crawledUrlList \cup {r}) \in Nat
          /\ Cardinality(crawledUrlList \cup {r})
               <= Cardinality(crawledUrlList) + 1
      BY ListSizes DEF ScheduleTypeOK
    <3>4. CountLinks' \in Int /\ CountLinks' <= CountLinks + 1
      BY <3>1, <3>2, <3>3, CountLinksIsANumber DEF CountLinks
    <3>5. limitCrawledLinksCount \in Int
      BY LimitsAssumption DEF ScheduleTypeOK
    <3>. QED BY <1>1, <2>2, <3>4, <3>5 DEF LimitStep, LimitReached
  <2>. QED BY <2>1, <2>2
<1>6. ASSUME NEW r \in Requests, ActiveRequestReceived(r) PROVE LimitStep
  BY <1>2, <1>6 DEF ActiveRequestReceived
<1>7. ASSUME NEW t \in Threads, NEW l \in UrlLists, AddUrlListBegin(t, l)
      PROVE  LimitStep
  BY <1>2, <1>7 DEF AddUrlListBegin, lists
<1>8. ASSUME NEW t \in Threads, AddUrlListStep(t) PROVE LimitStep
  <2>1. Head(urlList) \in Requests
    BY <1>8 DEF AddUrlListStep, ScheduleTypeOK
  <2>. QED BY <1>8, <2>1, AddUrlInternalWithinLimit DEF AddUrlListStep
<1>9. ASSUME NEW t \in Threads, AddUrlListEnd(t) PROVE LimitStep
  BY <1>2, <1>9 DEF AddUrlListEnd, lists
<1>10. ASSUME NEW value \in Limits, SetLimitCrawledLinksCount(value)
       PROVE  LimitStep
  BY <1>2, <1>10 DEF SetLimitCrawledLinksCount, lists
<1>11. ASSUME Clear PROVE LimitStep
  <2>1. CountLinks' = 0
    BY <1>11, FS_EmptySet DEF Clear, CountLinks
  <2>. QED BY <1>1, <2>1 DEF LimitStep
<1>12. ASSUME UNCHANGED scheduleVars PROVE LimitStep
  BY <1>2, <1>12 DEF scheduleVars, lists
<1>. QED
  BY <1>3, <1>4, <1>5, <1>6, <1>7, <1>8, <1>9, <1>10, <1>11, <1>12
     DEF ScheduleNext

(* No call makes the lists grow beyond the limit in force when it tests it, *)
(* even when the limit changes in the middle of a list of links.            *)
THEOREM GrowthStopsAtTheLimit == ScheduleSpec => LimitRespected
<1>1. ScheduleInv /\ [ScheduleNext]_scheduleVars
        => [LimitStep]_scheduleVars
  BY ScheduleStepWithinLimit
<1>. QED
  BY <1>1, ScheduleInvariant, PTL DEF ScheduleSpec, LimitRespected, LimitStep
=============================================================================
