-------------------------- MODULE QtDownloadProofs --------------------------
(***************************************************************************)
(* Proofs about QtBasedDownloadHandler for any number of requests, any     *)
(* network and any settings: its tables agree, each request is answered    *)
(* once, and no chain of redirects goes on for ever.                       *)
(***************************************************************************)
EXTENDS QtDownload, FunctionTheorems, FiniteSetTheorems, SequenceTheorems,
        TLAPS

(* The tables.  A reply that is not processed is the latest of its         *)
(* request, the hop behind the pages of its chain: so the reply to a       *)
(* redirect is a new one.                                                  *)
TablesInv ==
  /\ requesters = activeRequests /\ requesters = activeRequestersReplies
  /\ TimeoutsWatch
  /\ \A p, q \in Running : p.requester = q.requester => p = q
  /\ \A r \in requesters : \E p \in Running : p.requester = r
  /\ \A p \in Running : /\ p.requester \in requesters
                        /\ p.hop = Len(responses[p.requester]) + 1
  /\ \A p \in replies :
       /\ p.requester \in taken \ InQueue
       /\ p.requester \in requesters
            => p.hop <= Len(responses[p.requester]) + 1

(* What waits for the pause timer waits once and has not been loaded. *)
QueueInv ==
  /\ InQueue \subseteq taken
  /\ requesters \subseteq taken \ InQueue
  /\ \A i, j \in 1..Len(requesterQueue) :
       requesterQueue[i] = requesterQueue[j] => i = j

(* The pages of a request that is being loaded begin with the page asked   *)
(* for, and it has no answer yet.                                          *)
Chain(p) == Append(responses[p.requester], p.url)

ChainsInv ==
  /\ \A r \in Requesters \ requesters : responses[r] = <<>>
  /\ \A r \in Requesters :
       r \notin taken \/ r \in InQueue \/ r \in requesters
         => answers[r] = <<>>
  /\ \A p \in Running : Chain(p)[1] = Asked[p.requester]

(* Nothing in the queue of the thread is behind the deletion of its reply. *)
PostedInv ==
  /\ \A i \in 1..Len(posted) :
       posted[i].reply \in (IF posted[i].type = "delete" THEN processed
                                                        ELSE replies)
  /\ \A i, j \in 1..Len(posted) :
       i < j /\ posted[i].type = "delete"
         => posted[j].reply # posted[i].reply

DownloadInv ==
  /\ DownloadTypeOK
  /\ TablesInv /\ QueueInv /\ ChainsInv /\ PostedInv

(* A fresh handler satisfies the invariant. *)
LEMMA DownloadInitInv == DownloadInit => DownloadInv
<1>. SUFFICES ASSUME DownloadInit PROVE DownloadInv OBVIOUS
<1>1. /\ requesterQueue \in Seq(Requesters) /\ Len(requesterQueue) = 0
      /\ posted \in Seq([type : {"metaDataChanged", "delete"},
                         reply : Replies])
      /\ Len(posted) = 0 /\ <<>> \in Seq(Urls) /\ <<>> \in Seq(Seq(Urls))
      /\ InQueue = {}
  BY EmptySeq DEF DownloadInit, InQueue
<1>2. DownloadTypeOK
  BY <1>1, SettingsAssumption DEF DownloadInit, DownloadTypeOK
<1>3. TablesInv /\ ChainsInv
  BY <1>1 DEF DownloadInit, TablesInv, ChainsInv, TimeoutsWatch, Running
<1>4. QueueInv /\ PostedInv
  BY <1>1 DEF DownloadInit, QueueInv, PostedInv
<1>. QED BY <1>2, <1>3, <1>4 DEF DownloadInv

-----------------------------------------------------------------------------
(* The queues of the handler, at their ends.                               *)

(* What HandleRequest adds to m_requesterQueue. *)
LEMMA QueueAppended ==
  ASSUME DownloadInv, NEW r \in Requesters, r \notin taken,
         requesterQueue' = Append(requesterQueue, r)
  PROVE  /\ requesterQueue' \in Seq(Requesters)
         /\ InQueue' = InQueue \cup {r}
         /\ \A i, j \in 1..Len(requesterQueue') :
              requesterQueue'[i] = requesterQueue'[j] => i = j
<1> DEFINE n == Len(requesterQueue) + 1
<1>1. requesterQueue \in Seq(Requesters) BY DEF DownloadInv, DownloadTypeOK
<1>2. /\ requesterQueue' \in Seq(Requesters) /\ Len(requesterQueue') = n
      /\ n \in Nat \ {0} /\ Len(requesterQueue) \in Nat
      /\ requesterQueue'[n] = r
      /\ \A i \in 1..Len(requesterQueue) :
           requesterQueue'[i] = requesterQueue[i]
  BY <1>1
<1>3. /\ InQueue = {requesterQueue[i] : i \in 1..Len(requesterQueue)}
      /\ InQueue' = {requesterQueue'[i] : i \in 1..n}
  BY <1>1, <1>2, LenProperties DEF InQueue
<1>4. \A i \in 1..n : i \in 1..Len(requesterQueue) \/ i = n
  BY <1>2
<1>5. 1..Len(requesterQueue) \subseteq 1..n /\ n \in 1..n
  BY <1>2
<1> HIDE DEF n
<1>6. InQueue' = InQueue \cup {r} BY <1>2, <1>3, <1>4, <1>5
<1>7. r \notin InQueue BY DEF DownloadInv, QueueInv
<1>8. ASSUME NEW i \in 1..n, NEW j \in 1..n,
             requesterQueue'[i] = requesterQueue'[j]
      PROVE  i = j
  BY <1>2, <1>3, <1>4, <1>7, <1>8 DEF DownloadInv, QueueInv
<1>. QED BY <1>2, <1>6, <1>8

(* What OnTimerTicked takes from it. *)
LEMMA QueueAdvanced ==
  ASSUME DownloadInv, requesterQueue # <<>>,
         requesterQueue' = Tail(requesterQueue)
  PROVE  /\ Head(requesterQueue) \in Requesters
         /\ Head(requesterQueue) \in InQueue
         /\ requesterQueue' \in Seq(Requesters)
         /\ InQueue' = InQueue \ {Head(requesterQueue)}
         /\ \A i, j \in 1..Len(requesterQueue') :
              requesterQueue'[i] = requesterQueue'[j] => i = j
<1> DEFINE n == Len(requesterQueue)
<1>1. requesterQueue \in Seq(Requesters) BY DEF DownloadInv, DownloadTypeOK
<1>2. /\ n \in Nat \ {0} /\ requesterQueue' \in Seq(Requesters)
      /\ Len(requesterQueue') = n - 1
      /\ Head(requesterQueue) = requesterQueue[1]
      /\ Head(requesterQueue) \in Requesters
      /\ \A i \in 1..(n - 1) : requesterQueue'[i] = requesterQueue[i + 1]
  BY <1>1, EmptySeq, HeadTailProperties
<1>3. /\ InQueue = {requesterQueue[i] : i \in 1..n}
      /\ InQueue' = {requesterQueue'[i] : i \in 1..(n - 1)}
  BY <1>1, <1>2, LenProperties DEF InQueue
<1>4. /\ 1 \in 1..n
      /\ \A i \in 1..(n - 1) : i + 1 \in 1..n /\ i + 1 # 1
      /\ \A i, j \in 1..(n - 1) : i + 1 = j + 1 => i = j
      /\ \A i \in 1..n : i # 1 => i - 1 \in 1..(n - 1) /\ (i - 1) + 1 = i
  BY <1>2
<1>5. \A i, j \in 1..n : requesterQueue[i] = requesterQueue[j] => i = j
  BY DEF DownloadInv, QueueInv
<1> HIDE DEF n
<1>6. InQueue' \subseteq InQueue \ {Head(requesterQueue)}
  BY <1>2, <1>3, <1>4, <1>5
<1>7. InQueue \ {Head(requesterQueue)} \subseteq InQueue'
  <2>. SUFFICES ASSUME NEW i \in 1..n, i # 1
                PROVE  requesterQueue[i] \in InQueue'
    BY <1>2, <1>3
  <2>. QED BY <1>2, <1>3, <1>4
<1>. QED BY <1>2, <1>3, <1>4, <1>5, <1>6, <1>7

(* What is queued for the thread: behind anything else, about a reply that *)
(* has not been processed. *)
LEMMA PostedAppended ==
  ASSUME NEW type \in {"metaDataChanged", "delete"}, NEW p \in Running,
         NEW queue \in Seq([type : {"metaDataChanged", "delete"},
                            reply : Replies]),
         DownloadTypeOK,
         \A i \in 1..Len(queue) :
           queue[i].reply \in (IF queue[i].type = "delete" THEN processed
                                                          ELSE replies),
         \A i, j \in 1..Len(queue) :
           i < j /\ queue[i].type = "delete" => queue[j].reply # queue[i].reply,
         posted' = Append(queue, [type |-> type, reply |-> p]),
         replies \subseteq replies',
         processed' = IF type = "delete" THEN processed \cup {p} ELSE processed
  PROVE  /\ posted' \in Seq([type : {"metaDataChanged", "delete"},
                             reply : Replies])
         /\ PostedInv'
<1> DEFINE m == [type |-> type, reply |-> p]
           n == Len(queue) + 1
<1>1. p \in replies /\ p \notin processed /\ p \in Replies
  BY DEF Running, DownloadTypeOK
<1>2. /\ m \in [type : {"metaDataChanged", "delete"}, reply : Replies]
      /\ m.type = type /\ m.reply = p
  BY <1>1
<1> HIDE DEF m
<1>3. /\ posted' \in Seq([type : {"metaDataChanged", "delete"},
                          reply : Replies])
      /\ Len(posted') = n /\ n \in Nat \ {0} /\ Len(queue) \in Nat
      /\ posted'[n] = m
      /\ \A i \in 1..Len(queue) : posted'[i] = queue[i]
  BY <1>2 DEF m
<1>4. \A i \in 1..n : i \in 1..Len(queue) \/ i = n
  BY <1>3
<1>5. \A i, j \in 1..n : i < j => i \in 1..Len(queue)
  BY <1>3
<1> HIDE DEF n
<1>6. ASSUME NEW i \in 1..n
      PROVE  posted'[i].reply \in (IF posted'[i].type = "delete"
                                   THEN processed' ELSE replies')
  BY <1>1, <1>2, <1>3, <1>4
<1>7. ASSUME NEW i \in 1..n, NEW j \in 1..n, i < j, posted'[i].type = "delete"
      PROVE  posted'[j].reply # posted'[i].reply
  <2>1. i \in 1..Len(queue) /\ posted'[i] = queue[i] BY <1>3, <1>5, <1>7
  <2>2. CASE j \in 1..Len(queue) BY <1>3, <1>7, <2>1, <2>2
  <2>3. CASE j = n BY <1>1, <1>2, <1>3, <1>7, <2>1, <2>3
  <2>. QED BY <1>4, <2>2, <2>3
<1>. QED BY <1>3, <1>6, <1>7 DEF PostedInv

(* The queue of the thread without its head. *)
LEMMA PostedAdvanced ==
  ASSUME DownloadInv, posted # <<>>
  PROVE  LET rest == Tail(posted)
             p == Head(posted).reply
         IN  /\ rest \in Seq([type : {"metaDataChanged", "delete"},
                              reply : Replies])
             /\ Head(posted).type = "delete" => p \in processed
             /\ Head(posted).type # "delete" => p \in replies
             /\ \A i \in 1..Len(rest) :
                  rest[i].reply \in (IF rest[i].type = "delete" THEN processed
                                                                ELSE replies)
             /\ \A i, j \in 1..Len(rest) :
                  i < j /\ rest[i].type = "delete"
                    => rest[j].reply # rest[i].reply
             /\ Head(posted).type = "delete"
                  => \A i \in 1..Len(rest) : rest[i].reply # p
<1> DEFINE rest == Tail(posted)
           n == Len(posted)
<1>1. posted \in Seq([type : {"metaDataChanged", "delete"}, reply : Replies])
  BY DEF DownloadInv, DownloadTypeOK
<1>2. /\ n \in Nat \ {0}
      /\ rest \in Seq([type : {"metaDataChanged", "delete"}, reply : Replies])
      /\ Len(rest) = n - 1
      /\ Head(posted) = posted[1]
      /\ \A i \in 1..(n - 1) : rest[i] = posted[i + 1]
  BY <1>1, EmptySeq, HeadTailProperties
<1>3. /\ 1 \in 1..n
      /\ \A i \in 1..(n - 1) : i + 1 \in 1..n /\ 1 < i + 1
      /\ \A i, j \in 1..(n - 1) : i < j => i + 1 < j + 1
  BY <1>2
<1>4. /\ \A i \in 1..n :
           posted[i].reply \in (IF posted[i].type = "delete" THEN processed
                                                            ELSE replies)
      /\ \A i, j \in 1..n : i < j /\ posted[i].type = "delete"
                              => posted[j].reply # posted[i].reply
  BY DEF DownloadInv, PostedInv
<1> HIDE DEF rest, n
<1>. QED BY <1>2, <1>3, <1>4 DEF rest

-----------------------------------------------------------------------------
(* The steps.                                                              *)

PostedTypes == [type : {"metaDataChanged", "delete"}, reply : Replies]

(* A load begins, of a request that has come or has waited. *)
LEMMA LoadStep ==
  ASSUME DownloadInv, NEW r \in Requesters, Load(r),
         r \notin taken \/ r \in InQueue,
         taken' = taken \cup {r}, InQueue' = InQueue \ {r},
         requesterQueue' \in Seq(Requesters),
         \A i, j \in 1..Len(requesterQueue') :
           requesterQueue'[i] = requesterQueue'[j] => i = j,
         UNCHANGED settingVars
  PROVE  DownloadInv'
<1> DEFINE reply == [requester |-> r, hop |-> 1, url |-> Asked[r]]
<1>1. /\ DownloadTypeOK /\ TablesInv /\ QueueInv /\ ChainsInv /\ PostedInv
      /\ TimeoutsWatch
  BY DEF DownloadInv, TablesInv
<1>2. /\ requesters' = requesters \cup {r}
      /\ activeRequests' = activeRequests \cup {r}
      /\ activeRequestersReplies' = activeRequestersReplies \cup {r}
      /\ replies' = replies \cup {reply}
      /\ activeReplies' = IF r \in UseTimeout THEN activeReplies \cup {reply}
                                              ELSE activeReplies
      /\ UNCHANGED <<responses, answers, processed, announced, posted>>
  BY DEF Load, Watched
<1>3. /\ reply \in Replies /\ reply.requester = r /\ reply.hop = 1
      /\ reply.url = Asked[r] /\ Asked[r] \in Urls
  BY AskedAssumption DEF Replies
<1>4. /\ r \notin requesters /\ \A p \in replies : p.requester # r
      /\ reply \notin replies
      /\ responses[r] = <<>> /\ answers[r] = <<>>
  BY <1>1, <1>3 DEF TablesInv, QueueInv, ChainsInv
<1> HIDE DEF reply
<1>5. Running' = Running \cup {reply} /\ reply \notin Running
  BY <1>1, <1>2, <1>4 DEF Running, DownloadTypeOK
<1>6. DownloadTypeOK'
  BY <1>1, <1>2, <1>3 DEF DownloadTypeOK, settingVars
<1>7. TablesInv'
  <2>1. requesters' = activeRequests' /\ requesters' = activeRequestersReplies'
    BY <1>1, <1>2 DEF TablesInv
  <2>2. TimeoutsWatch'
    BY <1>1, <1>2, <1>3, <1>5 DEF TimeoutsWatch, Watched
  <2>3. \A p, q \in Running' : p.requester = q.requester => p = q
    BY <1>1, <1>3, <1>4, <1>5 DEF TablesInv, Running
  <2>4. \A q \in requesters' : \E p \in Running' : p.requester = q
    BY <1>1, <1>2, <1>3, <1>5 DEF TablesInv
  <2>5. \A p \in Running' : /\ p.requester \in requesters'
                            /\ p.hop = Len(responses'[p.requester]) + 1
    BY <1>1, <1>2, <1>3, <1>4, <1>5, EmptySeq DEF TablesInv
  <2>6. \A p \in replies' :
          /\ p.requester \in taken' \ InQueue'
          /\ p.requester \in requesters'
               => p.hop <= Len(responses'[p.requester]) + 1
    BY <1>1, <1>2, <1>3, <1>4, EmptySeq DEF TablesInv
  <2>. QED BY <2>1, <2>2, <2>3, <2>4, <2>5, <2>6 DEF TablesInv
<1>8. QueueInv' BY <1>1, <1>2 DEF QueueInv
<1>9. ChainsInv'
  <2>1. \A q \in Requesters \ requesters' : responses'[q] = <<>>
    BY <1>1, <1>2 DEF ChainsInv
  <2>2. \A q \in Requesters :
          q \notin taken' \/ q \in InQueue' \/ q \in requesters'
            => answers'[q] = <<>>
    BY <1>1, <1>2, <1>4 DEF ChainsInv
  <2>3. \A p \in Running' : Chain(p)'[1] = Asked[p.requester]
    <3>1. \A p : Chain(p)' = Chain(p) BY <1>2 DEF Chain
    <3>2. Chain(reply)[1] = Asked[r]
      BY <1>3, <1>4 DEF Chain
    <3>. QED BY <1>1, <1>3, <1>5, <3>1, <3>2 DEF ChainsInv
  <2>. QED BY <2>1, <2>2, <2>3 DEF ChainsInv
<1>10. PostedInv' BY <1>1, <1>2 DEF PostedInv
<1>. QED BY <1>6, <1>7, <1>8, <1>9, <1>10 DEF DownloadInv

(* A reply is processed: the redirect takes its place, or the request is   *)
(* answered. *)
LEMMA ProcessStep ==
  ASSUME DownloadInv, NEW p \in Running, NEW target \in Urls \cup {NoRedirect},
         NEW queue \in Seq(PostedTypes),
         \A i \in 1..Len(queue) :
           queue[i].reply \in (IF queue[i].type = "delete" THEN processed
                                                          ELSE replies),
         \A i, j \in 1..Len(queue) :
           i < j /\ queue[i].type = "delete" => queue[j].reply # queue[i].reply,
         ProcessReply(p, target, queue)
  PROVE  DownloadInv'
<1> DEFINE r == p.requester
<1>1. /\ DownloadTypeOK /\ TablesInv /\ QueueInv /\ ChainsInv /\ PostedInv
      /\ TimeoutsWatch
  BY DEF DownloadInv, TablesInv
<1>2. /\ p \in Replies /\ p \in replies /\ p \notin processed
      /\ r \in Requesters /\ p.url \in Urls /\ p.hop \in Nat
      /\ responses[r] \in Seq(Urls) /\ Len(responses[r]) \in Nat
      /\ answers[r] \in Seq(Seq(Urls))
  BY <1>1 DEF Running, DownloadTypeOK, Replies
<1>3. /\ r \in requesters /\ p.hop = Len(responses[r]) + 1
      /\ \A q \in Running : q.requester = r => q = p
  BY <1>1 DEF TablesInv
<1>4. /\ processed' = processed \cup {p}
      /\ posted' = Append(queue, [type |-> "delete", reply |-> p])
      /\ UNCHANGED <<announced, settingVars, requesterQueue, taken>>
      /\ IF Follows(p, target) THEN Follow(p, target) ELSE PostResponse(p)
  BY DEF ProcessReply, MarkReplyAsProcessed
<1>5. InQueue' = InQueue BY <1>4 DEF InQueue
<1>6. ASSUME replies \subseteq replies'
      PROVE  posted' \in Seq(PostedTypes) /\ PostedInv'
  BY <1>1, <1>4, <1>6, PostedAppended DEF PostedTypes
<1>7. CASE Follows(p, target) /\ Follow(p, target)
  <2> DEFINE next == [requester |-> r, hop |-> p.hop + 1, url |-> target]
  <2>1. /\ target \in Urls
        /\ responses' = [responses EXCEPT ![r] = Append(@, p.url)]
        /\ replies' = replies \cup {next}
        /\ activeReplies' = (activeReplies \ {p})
                              \cup (IF r \in UseTimeout THEN {next} ELSE {})
        /\ UNCHANGED <<requesters, activeRequests, activeRequestersReplies,
                       answers>>
    BY <1>7 DEF Follows, Follow, Watched
  <2>2. /\ next \in Replies /\ next.requester = r /\ next.hop = p.hop + 1
        /\ next.url = target
    BY <1>2, <2>1 DEF Replies
  <2> HIDE DEF next
  <2>3. next \notin replies
    BY <1>1, <1>2, <1>3, <2>2 DEF TablesInv
  <2>4. Running' = (Running \ {p}) \cup {next} /\ next # p
    BY <1>1, <1>2, <1>4, <2>1, <2>3 DEF Running, DownloadTypeOK
  <2>5. /\ responses'[r] = Append(responses[r], p.url)
        /\ responses'[r] \in Seq(Urls)
        /\ Len(responses'[r]) = Len(responses[r]) + 1
        /\ \A q \in Requesters \ {r} : responses'[q] = responses[q]
        /\ responses' \in [Requesters -> Seq(Urls)]
    BY <1>1, <1>2, <2>1 DEF DownloadTypeOK
  <2>6. posted' \in Seq(PostedTypes) /\ PostedInv' BY <1>6, <2>1
  <2>7. DownloadTypeOK'
    BY <1>1, <1>2, <1>4, <2>1, <2>2, <2>5, <2>6
       DEF DownloadTypeOK, settingVars, PostedTypes
  <2>8. TablesInv'
    <3>1. requesters' = activeRequests' /\ requesters' = activeRequestersReplies'
      BY <1>1, <2>1 DEF TablesInv
    <3>2. TimeoutsWatch'
      BY <1>1, <2>1, <2>2, <2>4 DEF TimeoutsWatch, Watched
    <3>3. \A x, y \in Running' : x.requester = y.requester => x = y
      BY <1>1, <1>3, <2>2, <2>4 DEF TablesInv
    <3>4. \A q \in requesters' : \E x \in Running' : x.requester = q
      BY <1>1, <1>3, <2>1, <2>2, <2>4 DEF TablesInv
    <3>5. \A x \in Running' : /\ x.requester \in requesters'
                              /\ x.hop = Len(responses'[x.requester]) + 1
      <4>. SUFFICES ASSUME NEW x \in Running'
                    PROVE  /\ x.requester \in requesters
                           /\ x.hop = Len(responses'[x.requester]) + 1
        BY <2>1
      <4>1. CASE x = next BY <1>3, <2>2, <2>5, <4>1
      <4>2. CASE x \in Running \ {p}
        <5>1. x.requester # r BY <1>3, <4>2
        <5>2. x.requester \in Requesters
          BY <1>1, <4>2 DEF DownloadTypeOK, Running, Replies
        <5>. QED BY <1>1, <2>5, <4>2, <5>1, <5>2 DEF TablesInv
      <4>. QED BY <2>4, <4>1, <4>2
    <3>6. \A x \in replies' :
            /\ x.requester \in taken' \ InQueue'
            /\ x.requester \in requesters'
                 => x.hop <= Len(responses'[x.requester]) + 1
      <4>. SUFFICES ASSUME NEW x \in replies'
                    PROVE  /\ x.requester \in taken \ InQueue
                           /\ x.requester \in requesters
                                => x.hop <= Len(responses'[x.requester]) + 1
        BY <1>4, <1>5, <2>1
      <4>1. CASE x = next BY <1>1, <1>2, <1>3, <2>2, <2>5, <4>1 DEF TablesInv
      <4>2. CASE x \in replies
        <5>1. x.requester \in Requesters /\ x.hop \in Nat
          BY <1>1, <4>2 DEF DownloadTypeOK, Replies
        <5>2. CASE x.requester = r
          BY <1>1, <1>2, <2>5, <4>2, <5>1, <5>2 DEF TablesInv
        <5>3. CASE x.requester # r
          BY <1>1, <2>5, <4>2, <5>1, <5>3 DEF TablesInv
        <5>. QED BY <5>2, <5>3
      <4>. QED BY <2>1, <4>1, <4>2
    <3>. QED BY <3>1, <3>2, <3>3, <3>4, <3>5, <3>6 DEF TablesInv
  <2>9. QueueInv' BY <1>1, <1>4, <1>5, <2>1 DEF QueueInv
  <2>10. ChainsInv'
    <3>1. \A q \in Requesters \ requesters' : responses'[q] = <<>>
      BY <1>1, <1>3, <2>1, <2>5 DEF ChainsInv
    <3>2. \A q \in Requesters :
            q \notin taken' \/ q \in InQueue' \/ q \in requesters'
              => answers'[q] = <<>>
      BY <1>1, <1>4, <1>5, <2>1 DEF ChainsInv
    <3>3. Chain(p)[1] = Asked[r] BY <1>1 DEF ChainsInv
    <3>4. Chain(next)'[1] = Asked[r]
      <4>1. responses'[r] = Chain(p) BY <2>5 DEF Chain
      <4>2. Chain(next)' = Append(responses'[r], target)
        BY <2>2 DEF Chain
      <4>3. Append(responses'[r], target)[1] = responses'[r][1]
        BY <1>2, <2>1, <2>5
      <4>. QED BY <3>3, <4>1, <4>2, <4>3
    <3>5. ASSUME NEW x \in Running \ {p} PROVE Chain(x)' = Chain(x)
      <4>1. x.requester # r BY <1>3
      <4>2. x.requester \in Requesters
        BY <1>1 DEF DownloadTypeOK, Running, Replies
      <4>. QED BY <2>5, <4>1, <4>2 DEF Chain
    <3>6. \A x \in Running' : Chain(x)'[1] = Asked[x.requester]
      BY <1>1, <2>2, <2>4, <3>4, <3>5 DEF ChainsInv
    <3>. QED BY <3>1, <3>2, <3>6 DEF ChainsInv
  <2>. QED BY <2>6, <2>7, <2>8, <2>9, <2>10 DEF DownloadInv
<1>8. CASE PostResponse(p)
  <2>1. /\ answers' = [answers EXCEPT ![r] = Append(@, Chain(p))]
        /\ responses' = [responses EXCEPT ![r] = <<>>]
        /\ requesters' = requesters \ {r}
        /\ activeRequestersReplies' = activeRequestersReplies \ {r}
        /\ activeRequests' = activeRequests \ {r}
        /\ activeReplies' = activeReplies \ {p}
        /\ UNCHANGED replies
    BY <1>8 DEF PostResponse, Chain
  <2>2. Running' = Running \ {p}
    BY <1>4, <2>1 DEF Running
  <2>3. \A x \in Running' : x.requester \in Requesters \ {r}
    BY <1>1, <1>3, <2>2 DEF Running, DownloadTypeOK, Replies
  <2>4. /\ answers' \in [Requesters -> Seq(Seq(Urls))]
        /\ responses' \in [Requesters -> Seq(Urls)]
        /\ responses'[r] = <<>>
        /\ \A q \in Requesters \ {r} :
             responses'[q] = responses[q] /\ answers'[q] = answers[q]
    <3>1. Chain(p) \in Seq(Urls) /\ Append(answers[r], Chain(p)) \in Seq(Seq(Urls))
      BY <1>2 DEF Chain
    <3>. QED BY <1>1, <1>2, <2>1, <3>1, EmptySeq DEF DownloadTypeOK
  <2>5. posted' \in Seq(PostedTypes) /\ PostedInv' BY <1>6, <2>1
  <2>6. DownloadTypeOK'
    BY <1>1, <1>2, <1>4, <2>1, <2>4, <2>5
       DEF DownloadTypeOK, settingVars, PostedTypes
  <2>7. TablesInv'
    <3>1. /\ requesters' = activeRequests'
          /\ requesters' = activeRequestersReplies'
          /\ TimeoutsWatch'
      BY <1>1, <2>1, <2>2 DEF TablesInv, TimeoutsWatch, Watched
    <3>2. \A x, y \in Running' : x.requester = y.requester => x = y
      BY <1>1, <2>2 DEF TablesInv
    <3>3. \A q \in requesters' : \E x \in Running' : x.requester = q
      BY <1>1, <2>1, <2>2 DEF TablesInv
    <3>4. \A x \in Running' : /\ x.requester \in requesters'
                              /\ x.hop = Len(responses'[x.requester]) + 1
      BY <1>1, <2>1, <2>2, <2>3, <2>4 DEF TablesInv
    <3>5. \A x \in replies' :
            /\ x.requester \in taken' \ InQueue'
            /\ x.requester \in requesters'
                 => x.hop <= Len(responses'[x.requester]) + 1
      <4>1. \A x \in replies : x.requester \in Requesters
        BY <1>1 DEF DownloadTypeOK, Replies
      <4>. QED BY <1>1, <1>4, <1>5, <2>1, <2>4, <4>1 DEF TablesInv
    <3>. QED BY <3>1, <3>2, <3>3, <3>4, <3>5 DEF TablesInv
  <2>8. QueueInv' BY <1>1, <1>4, <1>5, <2>1 DEF QueueInv
  <2>9. ChainsInv'
    <3>1. \A q \in Requesters \ requesters' : responses'[q] = <<>>
      BY <1>1, <2>1, <2>4 DEF ChainsInv
    <3>2. \A q \in Requesters :
            q \notin taken' \/ q \in InQueue' \/ q \in requesters'
              => answers'[q] = <<>>
      <4>1. r \in taken' /\ r \notin InQueue' /\ r \notin requesters'
        BY <1>1, <1>3, <1>4, <1>5, <2>1 DEF QueueInv
      <4>. QED BY <1>1, <1>4, <1>5, <2>1, <2>4, <4>1 DEF ChainsInv
    <3>3. \A x \in Running' : Chain(x)' = Chain(x)
      BY <2>3, <2>4 DEF Chain
    <3>4. \A x \in Running' : Chain(x)'[1] = Asked[x.requester]
      BY <1>1, <2>2, <3>3 DEF ChainsInv
    <3>. QED BY <3>1, <3>2, <3>4 DEF ChainsInv
  <2>. QED BY <2>5, <2>6, <2>7, <2>8, <2>9 DEF DownloadInv
<1>. QED BY <1>4, <1>7, <1>8

(* Headers come, a notification finds its reply processed, or a reply is   *)
(* deleted: nothing that is not processed goes. *)
LEMMA ReplyStep ==
  ASSUME DownloadInv,
         UNCHANGED <<settingVars, requesterQueue, taken, requestVars,
                     activeReplies>>,
         replies' \subseteq replies, processed' \subseteq replies',
         announced' \subseteq replies', Running' = Running,
         posted' \in Seq(PostedTypes), PostedInv'
  PROVE  DownloadInv'
<1>1. DownloadTypeOK'
  BY DEF DownloadInv, DownloadTypeOK, settingVars, requestVars, PostedTypes
<1>2. InQueue' = InQueue BY DEF InQueue
<1>3. TablesInv'
  BY <1>2 DEF DownloadInv, TablesInv, TimeoutsWatch, requestVars
<1>4. QueueInv' BY <1>2 DEF DownloadInv, QueueInv, requestVars
<1>5. ChainsInv'
  BY <1>2 DEF DownloadInv, ChainsInv, Chain, requestVars
<1>. QED BY <1>1, <1>3, <1>4, <1>5 DEF DownloadInv

(* The setters touch neither requests nor replies, and keep the invariant. *)
LEMMA SettingStep ==
  ASSUME DownloadInv, UNCHANGED <<requesterQueue, taken, requestVars, replyVars>>,
         isValid' \in BOOLEAN, timeoutTimer' \in BOOLEAN,
         maxRedirects' \in RedirectLimits, settings' \in 0..MaxSettings
  PROVE  DownloadInv'
<1>1. DownloadTypeOK'
  BY DEF DownloadInv, DownloadTypeOK, requestVars, replyVars
<1>2. InQueue' = InQueue /\ Running' = Running
  BY DEF InQueue, Running, replyVars
<1>3. TablesInv'
  BY <1>2 DEF DownloadInv, TablesInv, TimeoutsWatch, requestVars, replyVars
<1>4. QueueInv' BY <1>2 DEF DownloadInv, QueueInv, requestVars
<1>5. ChainsInv' BY <1>2 DEF DownloadInv, ChainsInv, Chain, requestVars
<1>6. PostedInv' BY DEF DownloadInv, PostedInv, replyVars
<1>. QED BY <1>1, <1>3, <1>4, <1>5, <1>6 DEF DownloadInv

(* Every step of the handler and of the network keeps the invariant. *)
LEMMA DownloadStepInv ==
  DownloadInv /\ [DownloadNext]_downloadVars => DownloadInv'
<1>. SUFFICES ASSUME DownloadInv, [DownloadNext]_downloadVars
              PROVE  DownloadInv'
  OBVIOUS
<1>1. DownloadTypeOK BY DEF DownloadInv
<1>2. CASE UNCHANGED downloadVars
  BY <1>1, <1>2, SettingStep DEF downloadVars, settingVars, DownloadTypeOK
<1>3. CASE SetPauseRange \/ ResetPauseRange \/ SetTimeout \/ SetMaxRedirects
  <2>1. settings' \in 0..MaxSettings
    BY <1>1, <1>3, SettingsAssumption
       DEF SetPauseRange, ResetPauseRange, SetTimeout, SetMaxRedirects,
           Setting, DownloadTypeOK
  <2>. QED
    BY <1>1, <1>3, <2>1, SettingStep
       DEF SetPauseRange, ResetPauseRange, SetTimeout, SetMaxRedirects,
           Setting, DownloadTypeOK
<1>4. ASSUME NEW r \in Requesters, HandleRequest(r) PROVE DownloadInv'
  <2>1. r \notin taken /\ taken' = taken \cup {r} /\ UNCHANGED settingVars
    BY <1>4 DEF HandleRequest
  <2>2. CASE isValid
    <3>1. /\ requesterQueue' = Append(requesterQueue, r)
          /\ UNCHANGED <<requestVars, replyVars>>
      BY <1>4, <2>2 DEF HandleRequest
    <3>2. /\ requesterQueue' \in Seq(Requesters) /\ InQueue' = InQueue \cup {r}
          /\ \A i, j \in 1..Len(requesterQueue') :
               requesterQueue'[i] = requesterQueue'[j] => i = j
      BY <2>1, <3>1, QueueAppended
    <3>3. r \notin requesters /\ \A p \in replies : p.requester # r
      BY <2>1 DEF DownloadInv, QueueInv, TablesInv
    <3>4. Running' = Running BY <3>1 DEF Running, replyVars
    <3>5. DownloadTypeOK'
      BY <1>1, <2>1, <3>1, <3>2
         DEF DownloadTypeOK, settingVars, requestVars, replyVars
    <3>6. TablesInv'
      BY <2>1, <3>1, <3>2, <3>3, <3>4
         DEF DownloadInv, TablesInv, TimeoutsWatch, requestVars, replyVars
    <3>7. QueueInv'
      BY <2>1, <3>1, <3>2, <3>3 DEF DownloadInv, QueueInv, requestVars
    <3>8. ChainsInv'
      BY <2>1, <3>1, <3>2, <3>4
         DEF DownloadInv, ChainsInv, Chain, requestVars
    <3>9. PostedInv' BY <3>1 DEF DownloadInv, PostedInv, replyVars
    <3>. QED BY <3>5, <3>6, <3>7, <3>8, <3>9 DEF DownloadInv
  <2>3. CASE ~isValid
    <3>1. Load(r) /\ UNCHANGED requesterQueue
      BY <1>4, <2>3 DEF HandleRequest
    <3>2. InQueue' = InQueue \ {r}
      BY <2>1, <3>1 DEF DownloadInv, QueueInv, InQueue
    <3>. QED
      BY <2>1, <3>1, <3>2, LoadStep DEF DownloadInv, QueueInv, DownloadTypeOK
  <2>. QED BY <2>2, <2>3
<1>5. CASE OnTimerTicked
  <2> DEFINE r == Head(requesterQueue)
  <2>1. /\ requesterQueue # <<>> /\ requesterQueue' = Tail(requesterQueue)
        /\ Load(r) /\ UNCHANGED <<settingVars, taken>>
    BY <1>5 DEF OnTimerTicked
  <2>2. /\ r \in Requesters /\ r \in InQueue
        /\ requesterQueue' \in Seq(Requesters) /\ InQueue' = InQueue \ {r}
        /\ \A i, j \in 1..Len(requesterQueue') :
             requesterQueue'[i] = requesterQueue'[j] => i = j
    BY <2>1, QueueAdvanced
  <2>3. taken' = taken \cup {r}
    BY <2>1, <2>2 DEF DownloadInv, QueueInv
  <2> HIDE DEF r
  <2>. QED BY <2>1, <2>2, <2>3, LoadStep
<1>6. /\ posted \in Seq(PostedTypes)
      /\ \A i \in 1..Len(posted) :
           posted[i].reply \in (IF posted[i].type = "delete" THEN processed
                                                            ELSE replies)
      /\ \A i, j \in 1..Len(posted) :
           i < j /\ posted[i].type = "delete"
             => posted[j].reply # posted[i].reply
  BY <1>1 DEF DownloadInv, PostedInv, DownloadTypeOK, PostedTypes
<1>7. ASSUME NEW p \in replies, UrlDownloaded(p) \/ Timeout(p)
      PROVE  DownloadInv'
  <2>1. PICK target \in Urls \cup {NoRedirect} : ProcessReply(p, target, posted)
    BY <1>7 DEF UrlDownloaded, Timeout
  <2>2. p \in Running BY <1>7 DEF UrlDownloaded, Timeout
  <2>. QED BY <1>6, <2>1, <2>2, ProcessStep
<1>8. ASSUME NEW p \in replies, Announce(p) PROVE DownloadInv'
  <2>1. /\ p \in Running /\ announced' = announced \cup {p}
        /\ posted' = Append(posted, [type |-> "metaDataChanged", reply |-> p])
        /\ UNCHANGED <<settingVars, requesterQueue, taken, requestVars,
                       activeReplies, replies, processed>>
    BY <1>8 DEF Announce
  <2>2. posted' \in Seq(PostedTypes) /\ PostedInv'
    BY <1>1, <1>6, <2>1, PostedAppended DEF PostedTypes
  <2>3. Running' = Running BY <2>1 DEF Running
  <2>4. processed' \subseteq replies' /\ announced' \subseteq replies'
    BY <1>1, <2>1 DEF DownloadTypeOK
  <2>. QED BY <2>1, <2>2, <2>3, <2>4, ReplyStep
<1>9. CASE MetaDataChanged
  <2> DEFINE p == Head(posted).reply
  <2>1. posted # <<>> /\ Head(posted).type = "metaDataChanged"
    BY <1>9 DEF MetaDataChanged, Posted
  <2>2. /\ Tail(posted) \in Seq(PostedTypes) /\ p \in replies
        /\ \A i \in 1..Len(Tail(posted)) :
             Tail(posted)[i].reply
               \in (IF Tail(posted)[i].type = "delete" THEN processed
                                                       ELSE replies)
        /\ \A i, j \in 1..Len(Tail(posted)) :
             i < j /\ Tail(posted)[i].type = "delete"
               => Tail(posted)[j].reply # Tail(posted)[i].reply
    BY <2>1, PostedAdvanced DEF PostedTypes
  <2>3. CASE p \notin processed /\ ProcessReply(p, NoRedirect, Tail(posted))
    <3>1. p \in Running BY <2>2, <2>3 DEF Running
    <3>. QED BY <2>2, <2>3, <3>1, ProcessStep
  <2>4. CASE /\ posted' = Tail(posted)
             /\ UNCHANGED <<settingVars, requesterQueue, taken, requestVars,
                            activeReplies, replies, processed, announced>>
    <3>1. PostedInv' BY <2>2, <2>4 DEF PostedInv
    <3>2. Running' = Running BY <2>4 DEF Running
    <3>3. processed' \subseteq replies' /\ announced' \subseteq replies'
      BY <1>1, <2>4 DEF DownloadTypeOK
    <3>. QED BY <2>2, <2>4, <3>1, <3>2, <3>3, ReplyStep
  <2>. QED BY <1>9, <2>3, <2>4 DEF MetaDataChanged
<1>10. CASE Delete
  <2> DEFINE p == Head(posted).reply
  <2>1. /\ posted # <<>> /\ Head(posted).type = "delete"
        /\ replies' = replies \ {p} /\ processed' = processed \ {p}
        /\ announced' = announced \ {p} /\ posted' = Tail(posted)
        /\ UNCHANGED <<settingVars, requesterQueue, taken, requestVars,
                       activeReplies>>
    BY <1>10 DEF Delete, Posted
  <2>2. /\ posted' \in Seq(PostedTypes) /\ p \in processed
        /\ \A i \in 1..Len(posted') :
             posted'[i].reply
               \in (IF posted'[i].type = "delete" THEN processed ELSE replies)
        /\ \A i, j \in 1..Len(posted') :
             i < j /\ posted'[i].type = "delete"
               => posted'[j].reply # posted'[i].reply
        /\ \A i \in 1..Len(posted') : posted'[i].reply # p
    BY <2>1, PostedAdvanced DEF PostedTypes
  <2> HIDE DEF p
  <2>3. PostedInv'
    <3>1. \A i \in 1..Len(posted') :
            posted'[i].reply \in (IF posted'[i].type = "delete"
                                  THEN processed' ELSE replies')
      BY <2>1, <2>2
    <3>. QED BY <2>2, <3>1 DEF PostedInv
  <2>4. Running' = Running BY <2>1, <2>2 DEF Running
  <2>5. processed' \subseteq replies' /\ announced' \subseteq replies'
    BY <1>1, <2>1 DEF DownloadTypeOK
  <2>. QED BY <2>1, <2>2, <2>3, <2>4, <2>5, ReplyStep
<1>. QED
  BY <1>2, <1>3, <1>4, <1>5, <1>7, <1>8, <1>9, <1>10 DEF DownloadNext

(* The invariant holds in every state of the handler. *)
LEMMA DownloadKeepsInv == DownloadSpec => []DownloadInv
BY DownloadInitInv, DownloadStepInv, PTL DEF DownloadSpec

-----------------------------------------------------------------------------
(* The types of the handler's tables and queues hold throughout. *)
THEOREM DownloadTypes == DownloadSpec => []DownloadTypeOK
BY DownloadKeepsInv, PTL DEF DownloadInv

(* The five tables agree in every interleaving of answers, headers,        *)
(* timeouts, redirects, ticks of the pause timer and changed settings.     *)
THEOREM TablesAgree == DownloadSpec => []BookkeepingAgrees
<1>1. DownloadInv => BookkeepingAgrees
  <2>. SUFFICES ASSUME DownloadInv PROVE BookkeepingAgrees OBVIOUS
  <2>1. /\ DownloadTypeOK /\ TablesInv /\ QueueInv /\ ChainsInv
    BY DEF DownloadInv
  <2>2. ASSUME NEW r \in requesters
        PROVE  /\ answers[r] = <<>>
               /\ Cardinality({p \in Running : p.requester = r}) = 1
    <3>1. r \in Requesters BY <2>1 DEF DownloadTypeOK
    <3>2. PICK p \in Running : p.requester = r BY <2>1 DEF TablesInv
    <3>3. {q \in Running : q.requester = r} = {p}
      BY <2>1, <3>2 DEF TablesInv
    <3>. QED BY <2>1, <3>1, <3>3, FS_Singleton DEF ChainsInv
  <2>3. Cardinality(InQueue) = Len(requesterQueue)
    <3> DEFINE n == Len(requesterQueue)
               f == [i \in 1..n |-> requesterQueue[i]]
    <3>1. n \in Nat /\ InQueue = {requesterQueue[i] : i \in 1..n}
      BY <2>1, LenProperties DEF DownloadTypeOK, InQueue
    <3>2. \A i, j \in 1..n : requesterQueue[i] = requesterQueue[j] => i = j
      BY <2>1 DEF QueueInv
    <3> HIDE DEF n
    <3>3. f \in Bijection(1..n, InQueue)
      <4>1. f \in Injection(1..n, InQueue)
        BY <3>1, <3>2 DEF Injection, IsInjective
      <4>2. f \in Surjection(1..n, InQueue)
        BY <3>1 DEF Surjection
      <4>. QED BY <4>1, <4>2 DEF Bijection
    <3>4. /\ IsFiniteSet(1..n) /\ Cardinality(1..n) = n
      BY <3>1, FS_Interval
    <3>5. Cardinality(InQueue) = Cardinality(1..n)
      BY <3>3, <3>4, FS_Bijection DEF ExistsBijection
    <3>. QED BY <3>4, <3>5 DEF n
  <2>. QED
    BY <2>1, <2>2, <2>3
       DEF BookkeepingAgrees, TablesInv, QueueInv, ChainsInv
<1>. QED BY <1>1, DownloadKeepsInv, PTL

(* The handler watches with its timeout what it has to, and nothing else. *)
THEOREM TimeoutsAreWatched == DownloadSpec => []TimeoutsWatch
BY DownloadKeepsInv, PTL DEF DownloadInv, TablesInv

(* No queued notification outlives its reply, or meets a reply that is not *)
(* processed and whose requester is gone. *)
THEOREM RepliesOutliveNotifications == DownloadSpec => []NotificationsAreSafe
<1>1. DownloadInv => NotificationsAreSafe
  <2>. SUFFICES ASSUME DownloadInv, NEW i \in DOMAIN posted,
                       posted[i].type = "metaDataChanged"
                PROVE  /\ posted[i].reply \in replies
                       /\ \/ posted[i].reply \in processed
                          \/ posted[i].reply.requester \in requesters
    BY DEF NotificationsAreSafe
  <2>1. i \in 1..Len(posted)
    BY DEF DownloadInv, DownloadTypeOK
  <2>2. posted[i].reply \in replies BY <2>1 DEF DownloadInv, PostedInv
  <2>. QED BY <2>2 DEF DownloadInv, TablesInv, Running
<1>. QED BY <1>1, DownloadKeepsInv, PTL

-----------------------------------------------------------------------------
(* What a step does to the chains: nothing, although a first page may be   *)
(* asked for; or a page is put behind those of its request, which is       *)
(* redirected or answered.                                                 *)
Redirected(p, target) ==
  /\ Follows(p, target)
  /\ responses' = [responses EXCEPT ![p.requester] = Chain(p)]
  /\ UNCHANGED answers
  /\ \A q \in Running' :
       \/ q \in Running \ {p}
       \/ q.requester = p.requester /\ q.url = target

Answered(p) ==
  /\ answers' = [answers EXCEPT ![p.requester] = Append(@, Chain(p))]
  /\ responses' = [responses EXCEPT ![p.requester] = <<>>]
  /\ Running' \subseteq Running \ {p}

(* What a step does to the chains and the answers: nothing, or it begins a *)
(* chain, or a redirect makes one longer, or an answer takes one away.     *)
LEMMA StepEffects ==
  ASSUME DownloadInv, [DownloadNext]_downloadVars
  PROVE  \/ /\ UNCHANGED <<responses, answers>>
            /\ \A q \in Running' :
                 \/ q \in Running
                 \/ q.requester \in Requesters /\ responses[q.requester] = <<>>
            /\ \/ UNCHANGED taken
               \/ \E r \in Requesters : r \notin taken /\ taken' = taken \cup {r}
         \/ \E p \in Running :
              /\ UNCHANGED taken
              /\ \/ Answered(p)
                 \/ \E target \in Urls : Redirected(p, target)
<1>1. /\ DownloadTypeOK /\ QueueInv /\ ChainsInv
      /\ processed \subseteq replies
  BY DEF DownloadInv, DownloadTypeOK
<1>2. ASSUME NEW p \in Running, NEW target \in Urls \cup {NoRedirect}, NEW queue,
             ProcessReply(p, target, queue)
      PROVE  /\ UNCHANGED taken
             /\ Answered(p) \/ (target \in Urls /\ Redirected(p, target))
  <2>1. processed' = processed \cup {p} /\ UNCHANGED taken
    BY <1>2 DEF ProcessReply, MarkReplyAsProcessed
  <2>2. CASE Follows(p, target) /\ Follow(p, target)
    <3>1. target \in Urls BY <2>2 DEF Follows
    <3>2. \A q \in Running' : \/ q \in Running \ {p}
                              \/ q.requester = p.requester /\ q.url = target
      BY <2>1, <2>2 DEF Follow, Running
    <3>. QED BY <2>1, <2>2, <3>1, <3>2 DEF Redirected, Follow, Chain
  <2>3. CASE PostResponse(p)
    BY <2>1, <2>3 DEF PostResponse, Answered, Chain, Running
  <2>. QED BY <1>2, <2>1, <2>2, <2>3 DEF ProcessReply
<1>3. ASSUME NEW r \in Requesters, Load(r), r \notin taken \/ r \in InQueue
      PROVE  /\ UNCHANGED <<responses, answers>>
             /\ \A q \in Running' :
                  \/ q \in Running
                  \/ q.requester \in Requesters /\ responses[q.requester] = <<>>
  <2>1. responses[r] = <<>> BY <1>1, <1>3 DEF QueueInv, ChainsInv
  <2>. QED BY <1>3, <2>1 DEF Load, Running
<1>4. CASE UNCHANGED downloadVars
  BY <1>4 DEF downloadVars, requestVars, replyVars, Running
<1>5. CASE SetPauseRange \/ ResetPauseRange \/ SetTimeout \/ SetMaxRedirects
  BY <1>5 DEF SetPauseRange, ResetPauseRange, SetTimeout, SetMaxRedirects,
              Setting, requestVars, replyVars, Running
<1>6. ASSUME NEW r \in Requesters, HandleRequest(r)
      PROVE  /\ UNCHANGED <<responses, answers>>
             /\ \A q \in Running' :
                  \/ q \in Running
                  \/ q.requester \in Requesters /\ responses[q.requester] = <<>>
             /\ r \notin taken /\ taken' = taken \cup {r}
  BY <1>3, <1>6 DEF HandleRequest, requestVars, replyVars, Running
<1>7. CASE OnTimerTicked
  <2>1. Head(requesterQueue) \in Requesters /\ Head(requesterQueue) \in InQueue
    BY <1>7, QueueAdvanced DEF OnTimerTicked
  <2>. QED BY <1>3, <1>7, <2>1 DEF OnTimerTicked
<1>8. ASSUME NEW p \in replies, UrlDownloaded(p) \/ Timeout(p)
      PROVE  /\ p \in Running /\ UNCHANGED taken
             /\ Answered(p) \/ \E target \in Urls : Redirected(p, target)
  BY <1>2, <1>8 DEF UrlDownloaded, Timeout
<1>9. ASSUME NEW p \in replies, Announce(p)
      PROVE  UNCHANGED <<responses, answers, taken>> /\ Running' = Running
  BY <1>9 DEF Announce, requestVars, Running
<1>10. CASE MetaDataChanged
  <2>1. CASE /\ posted' = Tail(posted)
             /\ UNCHANGED <<settingVars, requesterQueue, taken, requestVars,
                            activeReplies, replies, processed, announced>>
    BY <2>1 DEF requestVars, Running
  <2>2. CASE /\ Head(posted).reply \notin processed
             /\ ProcessReply(Head(posted).reply, NoRedirect, Tail(posted))
    <3>1. Head(posted).reply \in Running
      BY <1>10, <2>2, PostedAdvanced DEF MetaDataChanged, Posted, Running
    <3>. QED BY <1>2, <2>2, <3>1
  <2>. QED BY <1>10, <2>1, <2>2 DEF MetaDataChanged
<1>11. CASE Delete
  BY <1>11 DEF Delete, requestVars, Running
<1>. QED
  BY <1>4, <1>5, <1>6, <1>7, <1>8, <1>9, <1>10, <1>11 DEF DownloadNext

(* The types of a running reply and of its chain. *)
LEMMA RunningTypes ==
  ASSUME DownloadInv, NEW p \in Running
  PROVE  /\ p.requester \in Requesters /\ p.url \in Urls
         /\ responses[p.requester] \in Seq(Urls)
         /\ Chain(p) \in Seq(Urls) /\ Chain(p) # <<>>
         /\ Len(Chain(p)) = Len(responses[p.requester]) + 1
         /\ Chain(p)[1] = Asked[p.requester]
         /\ p.requester \in taken /\ answers[p.requester] = <<>>
<1>1. p.requester \in Requesters /\ p.url \in Urls
  BY DEF DownloadInv, DownloadTypeOK, Running, Replies
<1>2. responses[p.requester] \in Seq(Urls)
  BY <1>1 DEF DownloadInv, DownloadTypeOK
<1>3. /\ Chain(p) \in Seq(Urls) /\ Chain(p) # <<>>
      /\ Len(Chain(p)) = Len(responses[p.requester]) + 1
  BY <1>1, <1>2 DEF Chain
<1>4. Chain(p)[1] = Asked[p.requester] BY DEF DownloadInv, ChainsInv
<1>5. p.requester \in requesters BY DEF DownloadInv, TablesInv
<1>. QED BY <1>1, <1>2, <1>3, <1>4, <1>5 DEF DownloadInv, ChainsInv, QueueInv

(* The handler keeps the promise of Downloads: each request is answered    *)
(* once, by a chain that begins with the page asked for. *)
THEOREM EachRequestIsAnsweredOnce == DownloadSpec => DownloadsSpec
<1>1. DownloadInit => Promise!Init
  BY DEF DownloadInit, Promise!Init
<1>2. DownloadInv /\ [DownloadNext]_downloadVars
        => [Promise!Next]_(Promise!vars)
  <2>. SUFFICES ASSUME DownloadInv, [DownloadNext]_downloadVars
                PROVE  [Promise!Next]_(Promise!vars)
    OBVIOUS
  <2>1. CASE UNCHANGED <<taken, answers>> BY <2>1 DEF Promise!vars
  <2>2. ASSUME NEW r \in Requesters, r \notin taken, taken' = taken \cup {r},
               UNCHANGED answers
        PROVE  Promise!Next
    BY <2>2 DEF Promise!Next, Promise!Take
  <2>3. ASSUME NEW p \in Running, Answered(p), UNCHANGED taken
        PROVE  Promise!Next
    <3>1. /\ p.requester \in Requesters /\ p.requester \in taken
          /\ answers[p.requester] = <<>>
          /\ Chain(p) \in Seq(Urls) \ {<<>>} /\ Chain(p)[1] = Asked[p.requester]
      BY RunningTypes
    <3>2. answers' = [answers EXCEPT ![p.requester] = <<Chain(p)>>]
      BY <2>3, <3>1 DEF Answered
    <3>3. answers'[p.requester] = <<Chain(p)>>
      BY <3>1, <3>2 DEF DownloadInv, DownloadTypeOK
    <3> HIDE DEF Chain
    <3>4. Len(answers'[p.requester]) = 1 /\ answers'[p.requester][1] = Chain(p)
      BY <3>3
    <3>5. Promise!Answer(p.requester)
      BY <2>3, <3>1, <3>2, <3>4 DEF Promise!Answer
    <3>. QED BY <3>1, <3>5 DEF Promise!Next
  <2>. QED BY <2>1, <2>2, <2>3, StepEffects DEF Redirected
<1>. QED
  BY <1>1, <1>2, DownloadKeepsInv, PTL
     DEF DownloadSpec, DownloadsSpec, Promise!Spec

-----------------------------------------------------------------------------
(* How long a chain becomes.                                               *)

LimitInv ==
  \A limit \in RedirectLimits : limit > 0 =>
    /\ \A r \in Requesters : Len(responses[r]) <= limit
    /\ \A r \in Requesters : \A i \in 1..Len(answers[r]) :
         Len(answers[r][i]) <= limit + 1

(* While the setting is the same no chain has more pages than the limit    *)
(* allows, although only equality is tested: it is met before it can be    *)
(* passed. *)
THEOREM LimitIsKept ==
  ASSUME NEW limit, RedirectLimits = {limit}
  PROVE  DownloadSpec => []RedirectLimitKept
<1>1. limit \in Int BY SettingsAssumption
<1>2. DownloadInit => LimitInv
  BY <1>1, EmptySeq DEF DownloadInit, LimitInv
<1>3. DownloadInv /\ LimitInv /\ [DownloadNext]_downloadVars => LimitInv'
  <2>. SUFFICES ASSUME DownloadInv, LimitInv, [DownloadNext]_downloadVars,
                       limit > 0, NEW r \in Requesters
                PROVE  /\ Len(responses'[r]) <= limit
                       /\ \A i \in 1..Len(answers'[r]) :
                            Len(answers'[r][i]) <= limit + 1
    BY DEF LimitInv
  <2>1. /\ maxRedirects = limit
        /\ Len(responses[r]) <= limit
        /\ \A i \in 1..Len(answers[r]) : Len(answers[r][i]) <= limit + 1
    BY DEF DownloadInv, DownloadTypeOK, LimitInv
  <2>2. CASE UNCHANGED <<responses, answers>> BY <2>1, <2>2
  <2>3. ASSUME NEW p \in Running, Answered(p) \/ \E u \in Urls : Redirected(p, u)
        PROVE  /\ Len(responses'[r]) <= limit
               /\ \A i \in 1..Len(answers'[r]) :
                    Len(answers'[r][i]) <= limit + 1
    <3>1. /\ responses[p.requester] \in Seq(Urls)
          /\ Len(responses[p.requester]) \in Nat
          /\ Len(Chain(p)) = Len(responses[p.requester]) + 1
          /\ answers[p.requester] = <<>>
      BY RunningTypes
    <3>2. CASE p.requester # r
      <4>1. responses'[r] = responses[r] /\ answers'[r] = answers[r]
        BY <2>3, <3>2 DEF Answered, Redirected, DownloadInv, DownloadTypeOK
      <4>. QED BY <2>1, <4>1
    <3>3. CASE p.requester = r /\ Answered(p)
      <4>1. responses'[r] = <<>> /\ answers'[r] = <<Chain(p)>>
        BY <3>1, <3>3 DEF Answered, DownloadInv, DownloadTypeOK
      <4>. QED BY <1>1, <2>1, <3>1, <3>3, <4>1
    <3>4. CASE p.requester = r /\ \E u \in Urls : Redirected(p, u)
      <4>1. /\ responses'[r] = Chain(p) /\ answers'[r] = <<>>
            /\ Len(responses[r]) # limit
        BY <2>1, <3>1, <3>4
           DEF Redirected, Follows, DownloadInv, DownloadTypeOK
      <4>. QED BY <1>1, <2>1, <3>1, <3>4, <4>1
    <3>. QED BY <2>3, <3>2, <3>3, <3>4
  <2>. QED BY <2>2, <2>3, StepEffects
<1>4. DownloadInv /\ LimitInv => RedirectLimitKept
  <2>1. DownloadInv => \A r \in Requesters : DOMAIN answers[r] = 1..Len(answers[r])
    BY LenProperties DEF DownloadInv, DownloadTypeOK
  <2>. QED BY <2>1 DEF LimitInv, RedirectLimitKept
<1>. QED BY <1>2, <1>3, <1>4, DownloadKeepsInv, PTL DEF DownloadSpec

-----------------------------------------------------------------------------
(* How often an address is in a chain that has grown by one page. *)
LEMMA TimesAppended ==
  ASSUME NEW chain \in Seq(Urls), NEW u, NEW v \in Urls
  PROVE  /\ TimesIn(u, chain) \in Nat
         /\ TimesIn(u, Append(chain, v))
              = TimesIn(u, chain) + (IF u = v THEN 1 ELSE 0)
<1> DEFINE n == Len(chain)
           at == {i \in 1..n : chain[i] = u}
           longer == Append(chain, v)
<1>1. /\ n \in Nat /\ DOMAIN chain = 1..n /\ DOMAIN longer = 1..(n + 1)
      /\ longer[n + 1] = v /\ \A i \in 1..n : longer[i] = chain[i]
  BY LenProperties
<1>2. IsFiniteSet(at) /\ Cardinality(at) \in Nat
  <2>1. IsFiniteSet(1..n) BY <1>1, FS_Interval
  <2>. QED BY <2>1, FS_Subset, FS_CardinalityType
<1>3. /\ TimesIn(u, chain) = Cardinality(at)
      /\ TimesIn(u, longer) = Cardinality({i \in 1..(n + 1) : longer[i] = u})
  BY <1>1 DEF TimesIn
<1>4. {i \in 1..(n + 1) : longer[i] = u} = IF u = v THEN at \cup {n + 1} ELSE at
  BY <1>1
<1>5. n + 1 \notin at BY <1>1
<1> HIDE DEF at, n, longer
<1>6. Cardinality(at \cup {n + 1}) = Cardinality(at) + 1
  BY <1>2, <1>5, FS_AddElement
<1>7. CASE u = v BY <1>2, <1>3, <1>4, <1>6, <1>7 DEF longer
<1>8. CASE u # v
  <2>1. {i \in 1..(n + 1) : longer[i] = u} = at BY <1>4, <1>8
  <2>2. TimesIn(u, longer) = TimesIn(u, chain) BY <1>3, <2>1
  <2>3. TimesIn(u, chain) \in Nat BY <1>2, <1>3
  <2>4. TimesIn(u, chain) = TimesIn(u, chain) + (IF u = v THEN 1 ELSE 0)
    BY <1>8, <2>3
  <2>. QED BY <2>2, <2>3, <2>4 DEF longer
<1>. QED BY <1>7, <1>8

(* No address is in an empty chain. *)
LEMMA TimesInNothing == \A u : TimesIn(u, <<>>) = 0
<1>. SUFFICES ASSUME NEW u PROVE TimesIn(u, <<>>) = 0 OBVIOUS
<1>1. {i \in DOMAIN <<>> : <<>>[i] = u} = {}
  OBVIOUS
<1>. QED BY <1>1, FS_EmptySet DEF TimesIn

(* The page that redirects is searched for its target before it is put     *)
(* into the chain: what is being loaded is in its chain three times at     *)
(* most. *)
LoopInv ==
  /\ \A p \in Running : TimesIn(p.url, responses[p.requester]) <= 3
  /\ \A r \in Requesters, u \in Urls :
       /\ TimesIn(u, responses[r]) <= 4
       /\ \A i \in 1..Len(answers[r]) : TimesIn(u, answers[r][i]) <= 4

(* No page comes more than four times in a chain, whatever the limit of    *)
(* redirects is and however often it changes: every chain ends. *)
THEOREM ChainsAreBounded == DownloadSpec => []LoopBound
<1>1. DownloadInit => LoopInv
  BY TimesInNothing, EmptySeq DEF DownloadInit, LoopInv, Running
<1>2. DownloadInv /\ LoopInv /\ [DownloadNext]_downloadVars => LoopInv'
  <2>. SUFFICES ASSUME DownloadInv, LoopInv, [DownloadNext]_downloadVars
                PROVE  LoopInv'
    OBVIOUS
  <2>1. ASSUME UNCHANGED <<responses, answers>>,
               \A q \in Running' :
                 \/ q \in Running
                 \/ q.requester \in Requesters /\ responses[q.requester] = <<>>
        PROVE  LoopInv'
    BY <2>1, TimesInNothing DEF LoopInv
  <2>2. ASSUME NEW p \in Running, Answered(p) \/ \E u \in Urls : Redirected(p, u)
        PROVE  LoopInv'
    <3> DEFINE r == p.requester
    <3>1. /\ r \in Requesters /\ responses[r] \in Seq(Urls) /\ p.url \in Urls
          /\ answers[r] = <<>>
      BY RunningTypes
    <3>2. \A u : /\ TimesIn(u, responses[r]) \in Nat
                 /\ TimesIn(u, Chain(p)) = TimesIn(u, responses[r])
                                            + (IF u = p.url THEN 1 ELSE 0)
      BY <3>1, TimesAppended DEF Chain
    <3>3. \A u \in Urls : TimesIn(u, Chain(p)) <= 4
      BY <3>1, <3>2 DEF LoopInv
    <3>4. \A q \in Requesters \ {r} :
            responses'[q] = responses[q] /\ answers'[q] = answers[q]
      BY <2>2 DEF Answered, Redirected, DownloadInv, DownloadTypeOK
    <3>5. \A q \in Running \ {p} : q.requester \in Requesters \ {r}
      BY RunningTypes DEF DownloadInv, TablesInv
    <3>6. CASE Answered(p)
      <4>1. responses'[r] = <<>> /\ answers'[r] = <<Chain(p)>>
        BY <3>1, <3>6 DEF Answered, DownloadInv, DownloadTypeOK
      <4>2. \A q \in Running' : TimesIn(q.url, responses'[q.requester]) <= 3
        BY <3>4, <3>5, <3>6 DEF Answered, LoopInv
      <4>3. ASSUME NEW q \in Requesters, NEW u \in Urls
            PROVE  /\ TimesIn(u, responses'[q]) <= 4
                   /\ \A i \in 1..Len(answers'[q]) :
                        TimesIn(u, answers'[q][i]) <= 4
        <5>1. CASE q = r BY <3>3, <4>1, <5>1, TimesInNothing
        <5>2. CASE q # r BY <3>4, <5>2 DEF LoopInv
        <5>. QED BY <5>1, <5>2
      <4>. QED BY <4>2, <4>3 DEF LoopInv
    <3>7. ASSUME NEW target \in Urls, Redirected(p, target) PROVE LoopInv'
      <4>1. responses'[r] = Chain(p) /\ UNCHANGED answers
        BY <3>1, <3>7 DEF Redirected, DownloadInv, DownloadTypeOK
      <4>2. TimesIn(target, Chain(p)) <= 3
        BY <3>2, <3>7 DEF Redirected, Follows
      <4>3. \A q \in Running' : TimesIn(q.url, responses'[q.requester]) <= 3
        BY <3>4, <3>5, <3>7, <4>1, <4>2 DEF Redirected, LoopInv
      <4>4. ASSUME NEW q \in Requesters, NEW u \in Urls
            PROVE  /\ TimesIn(u, responses'[q]) <= 4
                   /\ \A i \in 1..Len(answers'[q]) :
                        TimesIn(u, answers'[q][i]) <= 4
        <5>1. CASE q = r BY <3>1, <3>3, <4>1, <5>1
        <5>2. CASE q # r BY <3>4, <5>2 DEF LoopInv
        <5>. QED BY <5>1, <5>2
      <4>. QED BY <4>3, <4>4 DEF LoopInv
    <3>. QED BY <2>2, <3>6, <3>7
  <2>. QED BY <2>1, <2>2, StepEffects
<1>3. DownloadInv /\ LoopInv => LoopBound
  <2>1. DownloadInv => \A r \in Requesters : DOMAIN answers[r] = 1..Len(answers[r])
    BY LenProperties DEF DownloadInv, DownloadTypeOK
  <2>. QED BY <2>1 DEF LoopInv, LoopBound
<1>. QED BY <1>1, <1>2, <1>3, DownloadKeepsInv, PTL DEF DownloadSpec
=============================================================================
