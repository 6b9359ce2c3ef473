--------------------------- MODULE MessagingProofs --------------------------
(***************************************************************************)
(* Proofs about the loader, the dispatcher and the handler of Messaging,   *)
(* for any number of requests, pauses and clears: a load is in one place   *)
(* at most, and nowhere only when it has been answered or cleared.         *)
(***************************************************************************)
EXTENDS Messaging, FiniteSetTheorems, SequenceTheorems, TLAPS

(* A queue owns a request when one of its messages does. *)
OwnedBy(queue, r) == \E i \in 1..Len(queue) : Owns(queue[i], r)

OwnedOnceBy(queue, r) ==
  \A i, j \in 1..Len(queue) :
    Owns(queue[i], r) /\ Owns(queue[j], r) => i = j

(* What the loader has started, and of resets, what it has cleared. *)
Announced(m, all, gone) ==
  /\ m.requesters \subseteq all
  /\ m.type = "reset" => m.requesters \subseteq gone

AllAnnounced(queue, all, gone) ==
  \A i \in 1..Len(queue) : Announced(queue[i], all, gone)

QueuesInv ==
  /\ AllAnnounced(messages, started, cleared)
  /\ AllAnnounced(invocations, started, cleared)
  /\ activeRequesters \cap cleared = {}

(* A request is owned by one message, or one queued call, or the handler.  *)
(* While it is, it has not been delivered, and its loader still has it     *)
(* unless a clear has named it; an active one is in one of these places.   *)
PlaceInv(r) ==
  /\ OwnedOnceBy(messages, r) /\ OwnedOnceBy(invocations, r)
  /\ ~(OwnedBy(messages, r) /\ OwnedBy(invocations, r))
  /\ ~(OwnedBy(messages, r) /\ r \in loading)
  /\ ~(OwnedBy(invocations, r) /\ r \in loading)
  /\ r \in activeRequesters
       => OwnedBy(messages, r) \/ OwnedBy(invocations, r) \/ r \in loading
  /\ OwnedBy(messages, r) \/ OwnedBy(invocations, r) \/ r \in loading
       => r \in activeRequesters \cup cleared /\ processed[r] = 0
  /\ r \notin started => processed[r] = 0
  /\ processed[r] <= 1

PlacesInv == \A r \in Requesters : PlaceInv(r)

MessagingInv == MessagingTypeOK /\ QueuesInv /\ PlacesInv

-----------------------------------------------------------------------------
(* A queue of messages, and its ends.                                      *)

(* addMessage: what is added is announced, and a load's message is added   *)
(* only where the queue has none.                                          *)
LEMMA AppendToQueue ==
  ASSUME NEW queue \in Seq(Messages), NEW m \in Messages
  PROVE  LET longer == Append(queue, m)
         IN  /\ longer \in Seq(Messages)
             /\ \A all, gone :
                  AllAnnounced(queue, all, gone) /\ Announced(m, all, gone)
                    => AllAnnounced(longer, all, gone)
             /\ \A r : /\ OwnedBy(longer, r) <=> OwnedBy(queue, r) \/ Owns(m, r)
                       /\ /\ OwnedOnceBy(queue, r)
                          /\ ~(OwnedBy(queue, r) /\ Owns(m, r))
                          => OwnedOnceBy(longer, r)
<1> DEFINE longer == Append(queue, m)
           n == Len(queue) + 1
<1>1. /\ Len(queue) \in Nat /\ Len(longer) = n
      /\ longer[n] = m /\ \A i \in 1..Len(queue) : longer[i] = queue[i]
      /\ longer \in Seq(Messages)
  OBVIOUS
<1>2. \A i \in 1..Len(longer) : i \in 1..Len(queue) \/ i = n
  BY <1>1
<1>3. 1..Len(queue) \subseteq 1..Len(longer) /\ n \in 1..Len(longer)
  BY <1>1
<1> HIDE DEF longer, n
<1>4. ASSUME NEW all, NEW gone, AllAnnounced(queue, all, gone),
             Announced(m, all, gone)
      PROVE  AllAnnounced(longer, all, gone)
  BY <1>1, <1>2, <1>4 DEF AllAnnounced
<1>5. ASSUME NEW r
      PROVE  OwnedBy(longer, r) <=> OwnedBy(queue, r) \/ Owns(m, r)
  BY <1>1, <1>2, <1>3 DEF OwnedBy
<1>6. ASSUME NEW r, OwnedOnceBy(queue, r), ~(OwnedBy(queue, r) /\ Owns(m, r))
      PROVE  OwnedOnceBy(longer, r)
  BY <1>1, <1>2, <1>6 DEF OwnedBy, OwnedOnceBy
<1>. QED BY <1>1, <1>4, <1>5, <1>6 DEF longer

(* extractMessage takes the last message and leaves the others as they are. *)
LEMMA LastOfQueue ==
  ASSUME NEW queue \in Seq(Messages), queue # <<>>
  PROVE  /\ Front(queue) \in Seq(Messages) /\ Last(queue) \in Messages
         /\ \A all, gone : AllAnnounced(queue, all, gone) =>
              /\ AllAnnounced(Front(queue), all, gone)
              /\ Announced(Last(queue), all, gone)
         /\ \A r : /\ OwnedBy(queue, r)
                        <=> OwnedBy(Front(queue), r) \/ Owns(Last(queue), r)
                   /\ OwnedOnceBy(queue, r)
                        => /\ OwnedOnceBy(Front(queue), r)
                           /\ ~(OwnedBy(Front(queue), r)
                                  /\ Owns(Last(queue), r))
<1> DEFINE front == Front(queue)
           m == Last(queue)
           n == Len(queue)
<1>1. n \in Nat \ {0} /\ m \in Messages /\ m = queue[n]
  BY EmptySeq DEF Last
<1>2. /\ front \in Seq(Messages) /\ Len(front) = n - 1
      /\ \A i \in 1..Len(front) : front[i] = queue[i]
  <2>1. front = SubSeq(queue, 1, n - 1) BY DEF Front
  <2>2. 1 \in Int /\ n - 1 \in Int /\ \A i \in 1..(n - 1) : queue[i] \in Messages
    BY <1>1
  <2>3. /\ front \in Seq(Messages)
        /\ Len(front) = IF 1 <= n - 1 THEN (n - 1) - 1 + 1 ELSE 0
        /\ \A i \in 1..((n - 1) - 1 + 1) : front[i] = queue[1 + i - 1]
    BY <2>1, <2>2, SubSeqProperties
  <2> HIDE DEF front, n
  <2>4. Len(front) = n - 1 BY <1>1, <2>3
  <2>. QED BY <1>1, <2>3, <2>4
<1>3. \A i \in 1..n : i \in 1..Len(front) \/ i = n
  BY <1>1, <1>2
<1>4. 1..Len(front) \subseteq 1..n /\ n \in 1..n /\ n \notin 1..Len(front)
  BY <1>1, <1>2
<1>5. queue = queue /\ Len(queue) = n OBVIOUS
<1> HIDE DEF front, m, n
<1>6. ASSUME NEW all, NEW gone, AllAnnounced(queue, all, gone)
      PROVE  AllAnnounced(front, all, gone) /\ Announced(m, all, gone)
  BY <1>1, <1>2, <1>4, <1>5, <1>6 DEF AllAnnounced
<1>7. ASSUME NEW r
      PROVE  OwnedBy(queue, r) <=> OwnedBy(front, r) \/ Owns(m, r)
  BY <1>1, <1>2, <1>3, <1>4, <1>5 DEF OwnedBy
<1>8. ASSUME NEW r, OwnedOnceBy(queue, r)
      PROVE  OwnedOnceBy(front, r) /\ ~(OwnedBy(front, r) /\ Owns(m, r))
  BY <1>1, <1>2, <1>4, <1>5, <1>8 DEF OwnedBy, OwnedOnceBy
<1>. QED BY <1>1, <1>2, <1>6, <1>7, <1>8 DEF front, m

(* The event loop of the handler takes the first call. *)
LEMMA HeadOfQueue ==
  ASSUME NEW queue \in Seq(Messages), queue # <<>>
  PROVE  /\ Tail(queue) \in Seq(Messages) /\ Head(queue) \in Messages
         /\ \A all, gone : AllAnnounced(queue, all, gone) =>
              /\ AllAnnounced(Tail(queue), all, gone)
              /\ Announced(Head(queue), all, gone)
         /\ \A r : /\ OwnedBy(queue, r)
                        <=> OwnedBy(Tail(queue), r) \/ Owns(Head(queue), r)
                   /\ OwnedOnceBy(queue, r)
                        => /\ OwnedOnceBy(Tail(queue), r)
                           /\ ~(OwnedBy(Tail(queue), r)
                                  /\ Owns(Head(queue), r))
<1> DEFINE tail == Tail(queue)
           m == Head(queue)
           n == Len(queue)
<1>1. n \in Nat \ {0} /\ m \in Messages /\ m = queue[1]
  BY EmptySeq
<1>2. /\ tail \in Seq(Messages) /\ Len(tail) = n - 1
      /\ \A i \in 1..Len(tail) : tail[i] = queue[i + 1]
  BY <1>1, HeadTailProperties
<1>3. \A i \in 1..n : i = 1 \/ (i - 1 \in 1..Len(tail) /\ tail[i - 1] = queue[i])
  BY <1>1, <1>2
<1>4. /\ \A i \in 1..Len(tail) : i + 1 \in 1..n /\ i + 1 # 1
      /\ \A i, j \in 1..Len(tail) : i + 1 = j + 1 => i = j
      /\ 1 \in 1..n
  BY <1>1, <1>2
<1>5. Len(queue) = n OBVIOUS
<1> HIDE DEF tail, m, n
<1>6. ASSUME NEW all, NEW gone, AllAnnounced(queue, all, gone)
      PROVE  AllAnnounced(tail, all, gone) /\ Announced(m, all, gone)
  BY <1>1, <1>2, <1>4, <1>5, <1>6 DEF AllAnnounced
<1>7. ASSUME NEW r
      PROVE  OwnedBy(queue, r) <=> OwnedBy(tail, r) \/ Owns(m, r)
  BY <1>1, <1>2, <1>3, <1>4, <1>5 DEF OwnedBy
<1>8. ASSUME NEW r, OwnedOnceBy(queue, r)
      PROVE  OwnedOnceBy(tail, r) /\ ~(OwnedBy(tail, r) /\ Owns(m, r))
  BY <1>1, <1>2, <1>4, <1>5, <1>8 DEF OwnedBy, OwnedOnceBy
<1>. QED BY <1>1, <1>2, <1>6, <1>7, <1>8 DEF tail, m

(* What has been started or cleared stays so: what is announced now is     *)
(* announced later.                                                        *)
LEMMA AnnouncedForGood ==
  ASSUME NEW queue, NEW all, NEW gone, NEW allLater, NEW goneLater,
         all \subseteq allLater, gone \subseteq goneLater,
         AllAnnounced(queue, all, gone)
  PROVE  AllAnnounced(queue, allLater, goneLater)
BY DEF AllAnnounced, Announced

-----------------------------------------------------------------------------
(* What the loader and the handler post to the loader's queue.             *)
LEMMA PostedMessage ==
  ASSUME MessagingTypeOK, QueuesInv,
         NEW type \in RequestTypes \cup ResponseTypes,
         NEW rs, rs \subseteq Requesters, AddMessage(type, rs),
         started \subseteq started', cleared \subseteq cleared',
         rs \subseteq started', type = "reset" => rs \subseteq cleared'
  PROVE  /\ messages' \in Seq(Messages)
         /\ AllAnnounced(messages', started', cleared')
         /\ \A r :
              /\ OwnedBy(messages', r)
                   <=> \/ OwnedBy(messages, r)
                       \/ type \in {"download", "downloaded"} /\ r \in rs
              /\ /\ OwnedOnceBy(messages, r)
                 /\ ~(/\ OwnedBy(messages, r)
                      /\ type \in {"download", "downloaded"} /\ r \in rs)
                 => OwnedOnceBy(messages', r)
<1> DEFINE m == [type |-> type, requesters |-> rs]
<1>1. /\ m \in Messages /\ Announced(m, started', cleared')
      /\ \A r : Owns(m, r) <=> type \in {"download", "downloaded"} /\ r \in rs
  BY DEF Messages, Owns, Announced
<1>2. messages \in Seq(Messages) /\ messages' = Append(messages, m)
  BY DEF MessagingTypeOK, AddMessage
<1> HIDE DEF m
<1>3. AllAnnounced(messages, started', cleared')
  BY AnnouncedForGood DEF QueuesInv
<1>. QED BY <1>1, <1>2, <1>3, AppendToQueue

(* A fresh loader, dispatcher and handler satisfy the invariant. *)
LEMMA MessagingInitInv == MessagingInit => MessagingInv
<1>. SUFFICES ASSUME MessagingInit PROVE MessagingInv OBVIOUS
<1>1. MessagingTypeOK
  <2>1. /\ messages \in Seq(Messages)
        /\ invocations \in Seq({m \in Messages : m.type \in RequestTypes})
    BY EmptySeq DEF MessagingInit
  <2>2. changes \in 0..MaxChanges /\ clears \in 0..MaxClears
    BY BoundsAssumption DEF MessagingInit
  <2>. QED BY <2>1, <2>2 DEF MessagingInit, MessagingTypeOK
<1>2. QueuesInv BY DEF MessagingInit, QueuesInv, AllAnnounced
<1>3. PlacesInv
  BY DEF MessagingInit, PlacesInv, PlaceInv, OwnedBy, OwnedOnceBy
<1>. QED BY <1>1, <1>2, <1>3 DEF MessagingInv

(* The loader: a message of its own for a new request, and messages that   *)
(* own none.                                                               *)
LEMMA LoaderStep ==
  ASSUME MessagingInv,
         \/ \E r \in Requesters : PerformLoading(r)
         \/ \E can \in BOOLEAN : SetReceiveState(can)
         \/ Clear
  PROVE  MessagingInv'
<1>1. MessagingTypeOK /\ QueuesInv /\ PlacesInv BY DEF MessagingInv
<1>2. ASSUME NEW r \in Requesters, PerformLoading(r) PROVE MessagingInv'
  <2>1. /\ AddMessage("download", {r}) /\ started' = started \cup {r}
        /\ r \notin started /\ activeRequesters' = activeRequesters \cup {r}
        /\ UNCHANGED <<cleared, processed, invocations, loading, paused,
                       changes, clears, aboutClearData, canReceive, executing>>
    BY <1>2 DEF PerformLoading, handlerVars
  <2>2. /\ messages' \in Seq(Messages)
        /\ AllAnnounced(messages', started', cleared')
        /\ \A q : /\ OwnedBy(messages', q) <=> OwnedBy(messages, q) \/ q = r
                  /\ OwnedOnceBy(messages, q) /\ ~(OwnedBy(messages, q) /\ q = r)
                       => OwnedOnceBy(messages', q)
    BY <1>1, <2>1, PostedMessage DEF RequestTypes
  <2>3. /\ ~OwnedBy(messages, r) /\ ~OwnedBy(invocations, r)
        /\ r \notin loading /\ processed[r] = 0
    BY <1>1, <2>1 DEF PlacesInv, PlaceInv, MessagingTypeOK
  <2>4. MessagingTypeOK' BY <1>1, <2>1, <2>2 DEF MessagingTypeOK
  <2>5. QueuesInv'
    BY <1>1, <2>1, <2>2, AnnouncedForGood DEF QueuesInv, MessagingTypeOK
  <2>6. PlacesInv'
    <3>. SUFFICES ASSUME NEW q \in Requesters PROVE PlaceInv(q)'
      BY DEF PlacesInv
    <3>. QED BY <1>1, <2>1, <2>2, <2>3 DEF PlacesInv, PlaceInv
  <2>. QED BY <2>4, <2>5, <2>6 DEF MessagingInv
<1>3. ASSUME NEW can \in BOOLEAN, SetReceiveState(can) PROVE MessagingInv'
  <2>1. PICK type \in {"pause", "unpause"} : AddMessage(type, activeRequesters)
    BY <1>3 DEF SetReceiveState
  <2>2. UNCHANGED <<started, activeRequesters, cleared, processed, invocations,
                    loading, paused, clears, aboutClearData, executing>>
        /\ canReceive' \in BOOLEAN /\ changes' \in 0..MaxChanges
    BY <1>1, <1>3, BoundsAssumption
       DEF SetReceiveState, handlerVars, MessagingTypeOK
  <2>3. /\ messages' \in Seq(Messages)
        /\ AllAnnounced(messages', started', cleared')
        /\ \A q : /\ OwnedBy(messages', q) <=> OwnedBy(messages, q)
                  /\ OwnedOnceBy(messages, q) => OwnedOnceBy(messages', q)
    BY <1>1, <2>1, <2>2, PostedMessage DEF RequestTypes, MessagingTypeOK
  <2>4. MessagingTypeOK' BY <1>1, <2>2, <2>3 DEF MessagingTypeOK
  <2>5. QueuesInv' BY <1>1, <2>2, <2>3 DEF QueuesInv
  <2>6. PlacesInv' BY <1>1, <2>2, <2>3 DEF PlacesInv, PlaceInv
  <2>. QED BY <2>4, <2>5, <2>6 DEF MessagingInv
<1>4. CASE Clear
  <2>1. /\ AddMessage("reset", activeRequesters)
        /\ cleared' = cleared \cup activeRequesters
        /\ aboutClearData' = activeRequesters /\ activeRequesters' = {}
        /\ UNCHANGED <<started, processed, invocations, loading, paused,
                       changes, canReceive, executing>>
        /\ clears' \in 0..MaxClears
    BY <1>1, <1>4, BoundsAssumption DEF Clear, handlerVars, MessagingTypeOK
  <2>2. /\ messages' \in Seq(Messages)
        /\ AllAnnounced(messages', started', cleared')
        /\ \A q : /\ OwnedBy(messages', q) <=> OwnedBy(messages, q)
                  /\ OwnedOnceBy(messages, q) => OwnedOnceBy(messages', q)
    <3>1. /\ activeRequesters \subseteq Requesters
          /\ activeRequesters \subseteq started'
          /\ started \subseteq started' /\ cleared \subseteq cleared'
          /\ activeRequesters \subseteq cleared'
      BY <1>1, <2>1 DEF MessagingTypeOK
    <3>2. "reset" \in RequestTypes \cup ResponseTypes BY DEF RequestTypes
    <3>3. "reset" \notin {"download", "downloaded"} OBVIOUS
    <3>. QED BY <1>1, <2>1, <3>1, <3>2, <3>3, PostedMessage
  <2>3. MessagingTypeOK' BY <1>1, <2>1, <2>2 DEF MessagingTypeOK
  <2>4. QueuesInv' BY <1>1, <2>1, <2>2, AnnouncedForGood DEF QueuesInv
  <2>5. PlacesInv' BY <1>1, <2>1, <2>2 DEF PlacesInv, PlaceInv
  <2>. QED BY <2>3, <2>4, <2>5 DEF MessagingInv
<1>. QED BY <1>2, <1>3, <1>4

(* The dispatcher: what leaves the queue goes to the handler's event loop, *)
(* or is delivered and owned no more.                                      *)
LEMMA DispatcherStep ==
  ASSUME MessagingInv, TimerEvent \/ Execute \/ ExecuteReturns
  PROVE  MessagingInv'
<1>1. MessagingTypeOK /\ QueuesInv /\ PlacesInv BY DEF MessagingInv
<1>2. CASE TimerEvent \/ ExecuteReturns
  <2>1. /\ UNCHANGED <<loaderVars, messages, invocations, handlerVars>>
        /\ executing' \in BOOLEAN
    BY <1>2 DEF TimerEvent, ExecuteReturns
  <2>2. MessagingTypeOK'
    BY <1>1, <2>1 DEF MessagingTypeOK, loaderVars, handlerVars
  <2>3. QueuesInv' BY <1>1, <2>1 DEF QueuesInv, loaderVars
  <2>4. PlacesInv'
    BY <1>1, <2>1 DEF PlacesInv, PlaceInv, loaderVars, handlerVars
  <2>. QED BY <2>2, <2>3, <2>4 DEF MessagingInv
<1>3. CASE Execute
  <2> DEFINE m == Last(messages)
  <2>1. /\ messages # <<>> /\ messages' = Front(messages)
        /\ UNCHANGED <<executing, loading, paused>>
    BY <1>3 DEF Execute, Rest, handlerVars
  <2>2. messages \in Seq(Messages) /\ invocations \in Seq(Messages)
    <3>1. {q \in Messages : q.type \in RequestTypes} \subseteq Messages OBVIOUS
    <3>. QED BY <1>1, <3>1, SeqMonotonic DEF MessagingTypeOK
  <2>3. /\ messages' \in Seq(Messages) /\ m \in Messages
        /\ AllAnnounced(messages', started, cleared)
        /\ Announced(m, started, cleared)
        /\ \A q : /\ OwnedBy(messages, q) <=> OwnedBy(messages', q) \/ Owns(m, q)
                  /\ OwnedOnceBy(messages, q)
                       => /\ OwnedOnceBy(messages', q)
                          /\ ~(OwnedBy(messages', q) /\ Owns(m, q))
    BY <1>1, <2>1, <2>2, LastOfQueue DEF QueuesInv
  <2>4. \/ /\ m.type \in RequestTypes
           /\ invocations' = Append(invocations, m)
           /\ UNCHANGED loaderVars
        \/ /\ m.type = "downloaded"
           /\ OnLoadingDone(m.requesters) /\ UNCHANGED invocations
        \/ /\ m.type = "resetDone"
           /\ OnResetConnectionsResponse /\ UNCHANGED invocations
    BY <1>3, <2>3 DEF Execute, Extracted, Messages, RequestTypes, ResponseTypes
  <2> HIDE DEF m
  <2>5. CASE m.type \in RequestTypes /\ invocations' = Append(invocations, m)
             /\ UNCHANGED loaderVars
    <3>1. /\ AllAnnounced(invocations', started, cleared)
          /\ \A q : /\ OwnedBy(invocations', q)
                         <=> OwnedBy(invocations, q) \/ Owns(m, q)
                    /\ /\ OwnedOnceBy(invocations, q)
                       /\ ~(OwnedBy(invocations, q) /\ Owns(m, q))
                       => OwnedOnceBy(invocations', q)
      BY <1>1, <2>2, <2>3, <2>5, AppendToQueue DEF QueuesInv
    <3>2. invocations' \in Seq({q \in Messages : q.type \in RequestTypes})
      BY <1>1, <2>3, <2>5 DEF MessagingTypeOK
    <3>3. MessagingTypeOK'
      BY <1>1, <2>1, <2>3, <2>5, <3>2 DEF MessagingTypeOK, loaderVars
    <3>4. QueuesInv' BY <1>1, <2>3, <2>5, <3>1 DEF QueuesInv, loaderVars
    <3>5. PlacesInv'
      <4>. SUFFICES ASSUME NEW q \in Requesters PROVE PlaceInv(q)'
        BY DEF PlacesInv
      <4>. QED
        BY <1>1, <2>1, <2>3, <2>5, <3>1 DEF PlacesInv, PlaceInv, loaderVars
    <3>. QED BY <3>3, <3>4, <3>5 DEF MessagingInv
  <2>6. CASE /\ m.type = "downloaded"
             /\ OnLoadingDone(m.requesters) /\ UNCHANGED invocations
    <3>1. /\ \A q \in Requesters :
               processed'[q] = processed[q] + IF q \in m.requesters THEN 1 ELSE 0
          /\ processed' \in [Requesters -> Nat]
          /\ activeRequesters' = activeRequesters \ m.requesters
          /\ UNCHANGED <<canReceive, aboutClearData, started, changes, clears,
                         cleared>>
      BY <1>1, <2>6 DEF OnLoadingDone, MessagingTypeOK
    <3>2. \A q : Owns(m, q) <=> q \in m.requesters
      BY <2>6 DEF Owns
    <3>3. MessagingTypeOK' BY <1>1, <2>1, <2>3, <2>6, <3>1 DEF MessagingTypeOK
    <3>4. QueuesInv' BY <1>1, <2>3, <2>6, <3>1 DEF QueuesInv
    <3>5. PlacesInv'
      <4>. SUFFICES ASSUME NEW q \in Requesters PROVE PlaceInv(q)'
        BY DEF PlacesInv
      <4>1. CASE q \in m.requesters
        <5>1. q \in started BY <2>3, <4>1 DEF Announced
        <5>. QED
          BY <1>1, <2>1, <2>3, <2>6, <3>1, <3>2, <4>1, <5>1
             DEF PlacesInv, PlaceInv
      <4>2. CASE q \notin m.requesters
        <5>1. processed'[q] = processed[q]
          BY <1>1, <3>1, <4>2 DEF MessagingTypeOK
        <5>. QED
          BY <1>1, <2>1, <2>3, <2>6, <3>1, <3>2, <4>2, <5>1
             DEF PlacesInv, PlaceInv
      <4>. QED BY <4>1, <4>2
    <3>. QED BY <3>3, <3>4, <3>5 DEF MessagingInv
  <2>7. CASE /\ m.type = "resetDone"
             /\ OnResetConnectionsResponse /\ UNCHANGED invocations
    <3>1. /\ UNCHANGED <<invocations, canReceive, activeRequesters, started,
                         changes, clears, cleared, processed>>
          /\ aboutClearData' = {}
      BY <2>7 DEF OnResetConnectionsResponse
    <3>2. \A q : ~Owns(m, q) BY <2>7 DEF Owns
    <3>3. MessagingTypeOK' BY <1>1, <2>1, <2>3, <3>1 DEF MessagingTypeOK
    <3>4. QueuesInv' BY <1>1, <2>3, <3>1 DEF QueuesInv
    <3>5. PlacesInv'
      BY <1>1, <2>1, <2>3, <3>1, <3>2 DEF PlacesInv, PlaceInv
    <3>. QED BY <3>3, <3>4, <3>5 DEF MessagingInv
  <2>. QED BY <2>4, <2>5, <2>6, <2>7
<1>. QED BY <1>2, <1>3

(* The handler: a call of its own becomes a load, and a load of a living   *)
(* Requester a message of its own.                                         *)
LEMMA HandlerStep ==
  ASSUME MessagingInv, HandleRequest \/ \E r \in Requesters : PostResponse(r)
  PROVE  MessagingInv'
<1>1. MessagingTypeOK /\ QueuesInv /\ PlacesInv BY DEF MessagingInv
<1>2. CASE HandleRequest
  <2> DEFINE m == Head(invocations)
             Calls == {q \in Messages : q.type \in RequestTypes}
  <2>1. /\ invocations # <<>> /\ invocations' = Tail(invocations)
        /\ UNCHANGED <<loaderVars, executing>>
        /\ loading' = CASE m.type = "download" -> loading \cup m.requesters
                         [] m.type = "reset" -> loading \ m.requesters
                         [] OTHER -> loading
        /\ paused' = CASE m.type = "pause" -> paused \cup m.requesters
                        [] m.type \in {"unpause", "reset"}
                             -> paused \ m.requesters
                        [] OTHER -> paused
        /\ IF m.type = "reset" THEN AddMessage("resetDone", {})
                                ELSE UNCHANGED messages
    BY <1>2 DEF HandleRequest, AnswerReset
  <2>2. messages \in Seq(Messages) /\ invocations \in Seq(Messages)
    <3>1. Calls \subseteq Messages OBVIOUS
    <3>. QED BY <1>1, <3>1, SeqMonotonic DEF MessagingTypeOK
  <2>3. m \in Calls /\ invocations' \in Seq(Calls)
    BY <1>1, <2>1, HeadTailProperties DEF MessagingTypeOK
  <2>4. /\ AllAnnounced(invocations', started, cleared)
        /\ Announced(m, started, cleared)
        /\ \A q : /\ OwnedBy(invocations, q)
                       <=> OwnedBy(invocations', q) \/ Owns(m, q)
                  /\ OwnedOnceBy(invocations, q)
                       => /\ OwnedOnceBy(invocations', q)
                          /\ ~(OwnedBy(invocations', q) /\ Owns(m, q))
    BY <1>1, <2>1, <2>2, HeadOfQueue DEF QueuesInv
  <2> HIDE DEF m
  <2>5. /\ messages' \in Seq(Messages)
        /\ AllAnnounced(messages', started, cleared)
        /\ \A q : /\ OwnedBy(messages', q) <=> OwnedBy(messages, q)
                  /\ OwnedOnceBy(messages, q) => OwnedOnceBy(messages', q)
    <3>1. CASE UNCHANGED messages
      BY <1>1, <2>2, <3>1 DEF QueuesInv
    <3>2. CASE AddMessage("resetDone", {})
      BY <1>1, <2>1, <3>2, PostedMessage DEF ResponseTypes, loaderVars
    <3>. QED BY <2>1, <3>1, <3>2
  <2>6. \A q : Owns(m, q) <=> m.type = "download" /\ q \in m.requesters
    BY <2>3 DEF Owns, RequestTypes
  <2>7. /\ m.requesters \subseteq started
        /\ m.type = "reset" => m.requesters \subseteq cleared
    BY <2>4 DEF Announced
  <2>8. MessagingTypeOK'
    BY <1>1, <2>1, <2>3, <2>5, <2>7 DEF MessagingTypeOK, loaderVars
  <2>9. QueuesInv' BY <1>1, <2>1, <2>4, <2>5 DEF QueuesInv, loaderVars
  <2>10. PlacesInv'
    <3>. SUFFICES ASSUME NEW q \in Requesters PROVE PlaceInv(q)'
      BY DEF PlacesInv
    <3>1. UNCHANGED <<activeRequesters, started, cleared, processed>>
      BY <2>1 DEF loaderVars
    <3>2. PlaceInv(q) /\ (q \in activeRequesters => q \notin cleared)
      BY <1>1 DEF PlacesInv, QueuesInv
    <3>3. CASE m.type = "download"
      BY <2>1, <2>4, <2>5, <2>6, <3>1, <3>2, <3>3 DEF PlaceInv
    <3>4. CASE m.type = "reset"
      BY <2>1, <2>4, <2>5, <2>6, <2>7, <3>1, <3>2, <3>4 DEF PlaceInv
    <3>5. CASE m.type \notin {"download", "reset"}
      BY <2>1, <2>4, <2>5, <2>6, <3>1, <3>2, <3>5 DEF PlaceInv
    <3>. QED BY <3>3, <3>4, <3>5
  <2>. QED BY <2>8, <2>9, <2>10 DEF MessagingInv
<1>3. ASSUME NEW r \in Requesters, PostResponse(r) PROVE MessagingInv'
  <2>1. /\ r \in loading /\ loading' = loading \ {r}
        /\ UNCHANGED <<loaderVars, executing, invocations>>
        /\ paused' \in {paused, paused \ {r}}
        /\ r \in activeRequesters => Alive(r)
        /\ IF Alive(r) THEN AddMessage("downloaded", {r})
                       ELSE UNCHANGED messages
    BY <1>3 DEF PostResponse, Alive
  <2>2. PlaceInv(r) BY <1>1 DEF PlacesInv
  <2>3. /\ messages' \in Seq(Messages)
        /\ AllAnnounced(messages', started, cleared)
        /\ \A q : /\ OwnedBy(messages', q)
                       <=> OwnedBy(messages, q) \/ (Alive(r) /\ q = r)
                  /\ /\ OwnedOnceBy(messages, q)
                     /\ ~(OwnedBy(messages, q) /\ Alive(r) /\ q = r)
                     => OwnedOnceBy(messages', q)
    <3>1. CASE ~Alive(r)
      BY <1>1, <2>1, <3>1 DEF QueuesInv, MessagingTypeOK
    <3>2. CASE Alive(r)
      <4>1. {r} \subseteq started'
        BY <1>1, <2>1 DEF MessagingTypeOK, loaderVars
      <4>. QED
        BY <1>1, <2>1, <3>2, <4>1, PostedMessage DEF ResponseTypes, loaderVars
    <3>. QED BY <3>1, <3>2
  <2>4. MessagingTypeOK'
    BY <1>1, <2>1, <2>3 DEF MessagingTypeOK, loaderVars
  <2>5. QueuesInv' BY <1>1, <2>1, <2>3 DEF QueuesInv, loaderVars
  <2>6. PlacesInv'
    <3>. SUFFICES ASSUME NEW q \in Requesters PROVE PlaceInv(q)'
      BY DEF PlacesInv
    <3>. QED BY <1>1, <2>1, <2>2, <2>3 DEF PlacesInv, PlaceInv, loaderVars
  <2>. QED BY <2>4, <2>5, <2>6 DEF MessagingInv
<1>. QED BY <1>2, <1>3

(* Every step of the loader, the dispatcher and the handler keeps the      *)
(* invariant.                                                              *)
LEMMA MessagingStepInv ==
  MessagingInv /\ [MessagingNext]_messagingVars => MessagingInv'
<1>. SUFFICES ASSUME MessagingInv, [MessagingNext]_messagingVars
              PROVE  MessagingInv'
  OBVIOUS
<1>1. CASE UNCHANGED messagingVars
  BY <1>1 DEF MessagingInv, MessagingTypeOK, QueuesInv, PlacesInv, PlaceInv,
              messagingVars, loaderVars, handlerVars
<1>. QED
  BY <1>1, LoaderStep, DispatcherStep, HandlerStep DEF MessagingNext

(* Every behaviour of the loader, the queues and the handler keeps the     *)
(* invariant.                                                              *)
LEMMA MessagingKeepsInv == MessagingSpec => []MessagingInv
BY MessagingInitInv, MessagingStepInv, PTL DEF MessagingSpec

-----------------------------------------------------------------------------
(* The set of places that the properties count.                            *)
LEMMA OnePlaceAtMost ==
  ASSUME MessagingInv, NEW r \in Requesters
  PROVE  /\ Places(r) # {} => \E p : Places(r) = {p}
         /\ Places(r) # {}
              <=> OwnedBy(messages, r) \/ OwnedBy(invocations, r) \/ r \in loading
<1>1. PlaceInv(r) BY DEF MessagingInv, PlacesInv
<1>2. DOMAIN messages = 1..Len(messages)
      /\ DOMAIN invocations = 1..Len(invocations)
  BY DEF MessagingInv, MessagingTypeOK
<1>3. \A p : p \in Places(r) <=>
        \/ \E i \in 1..Len(messages) : Owns(messages[i], r) /\ p = <<"message", i>>
        \/ \E i \in 1..Len(invocations) :
             Owns(invocations[i], r) /\ p = <<"call", i>>
        \/ r \in loading /\ p = <<"handler", r>>
  BY <1>2 DEF Places
<1>4. Places(r) # {}
        <=> OwnedBy(messages, r) \/ OwnedBy(invocations, r) \/ r \in loading
  BY <1>3 DEF OwnedBy
<1>5. \A p, q \in Places(r) : p = q
  BY <1>1, <1>3 DEF PlaceInv, OwnedBy, OwnedOnceBy
<1>. QED BY <1>4, <1>5

(* The types of the tables and queues hold throughout. *)
THEOREM MessagingTypes == MessagingSpec => []MessagingTypeOK
BY MessagingKeepsInv, PTL DEF MessagingInv

(* A load that no clear has named is in exactly one place on its way from  *)
(* the loader to the handler and back.                                     *)
THEOREM LoadsAreKept == MessagingSpec => []NoLoadIsLost
<1>1. MessagingInv => NoLoadIsLost
  <2>. SUFFICES ASSUME MessagingInv, NEW r \in activeRequesters
                PROVE  Cardinality(Places(r)) = 1
    BY DEF NoLoadIsLost
  <2>1. r \in Requesters BY DEF MessagingInv, MessagingTypeOK
  <2>2. PlaceInv(r) BY <2>1 DEF MessagingInv, PlacesInv
  <2>3. PICK p : Places(r) = {p} BY <2>1, <2>2, OnePlaceAtMost DEF PlaceInv
  <2>. QED BY <2>3, FS_Singleton
<1>. QED BY <1>1, MessagingKeepsInv, PTL

(* The page of a load is delivered once at most, however its messages,     *)
(* those of resets and those of pauses pass each other.                    *)
THEOREM PagesAreDeliveredOnce == MessagingSpec => []DeliveredOnce
<1>1. MessagingInv => DeliveredOnce
  <2>. SUFFICES ASSUME MessagingInv, NEW r \in Requesters
                PROVE  processed[r] + Cardinality(Places(r)) <= 1
    BY DEF DeliveredOnce
  <2>1. PlaceInv(r) /\ processed[r] \in Nat
    BY DEF MessagingInv, PlacesInv, MessagingTypeOK
  <2>2. CASE Places(r) = {}
    BY <2>1, <2>2, FS_EmptySet DEF PlaceInv
  <2>3. CASE Places(r) # {}
    <3>1. PICK p : Places(r) = {p} BY <2>3, OnePlaceAtMost
    <3>2. processed[r] = 0 BY <2>1, <2>3, OnePlaceAtMost DEF PlaceInv
    <3>3. Cardinality(Places(r)) = 1 BY <3>1, FS_Singleton
    <3>. QED BY <3>2, <3>3
  <2>. QED BY <2>2, <2>3
<1>. QED BY <1>1, MessagingKeepsInv, PTL

(* The assertion of onLoadingDone cannot fail for a load that has not been *)
(* cleared.                                                                *)
THEOREM AnswersFindTheirLoader == MessagingSpec => []AnswersAreExpected
<1>1. MessagingInv => AnswersAreExpected
  <2>. SUFFICES ASSUME MessagingInv, NEW m \in ToSet(messages),
                       m.type = "downloaded", NEW r \in m.requesters
                PROVE  r \in activeRequesters \cup cleared
    BY DEF AnswersAreExpected
  <2>1. PICK i \in 1..Len(messages) : messages[i] = m
    BY DEF ToSet, MessagingInv, MessagingTypeOK
  <2>2. Owns(m, r) /\ r \in Requesters
    BY <2>1 DEF Owns, MessagingInv, MessagingTypeOK, QueuesInv, AllAnnounced,
                Announced
  <2>3. OwnedBy(messages, r) BY <2>1, <2>2 DEF OwnedBy
  <2>. QED BY <2>2, <2>3 DEF MessagingInv, PlacesInv, PlaceInv
<1>. QED BY <1>1, MessagingKeepsInv, PTL
=============================================================================
