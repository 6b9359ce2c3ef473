-------------------------- MODULE MultiSocketProofs -------------------------
(***************************************************************************)
(* Proofs about MultiSocketDownloadHandler and MultiSocketLoader for any   *)
(* number of requests, any limits and any number of pauses and resets: a   *)
(* request is in one place until it is answered, it is answered at most    *)
(* once, its chain begins with the page asked for, and no handle that has  *)
(* been cleaned up is reached again.                                       *)
(***************************************************************************)
EXTENDS MultiSocket, ListLemmas, FunctionTheorems, FiniteSetTheorems,
        SequenceTheorems, TLAPS

(* What libcurl and the loader hold.  A descriptor is deleted when the end *)
(* of its transfer is announced.                                           *)
CurlInv ==
  /\ finished \in Seq(Ids) /\ loaded \in Seq(Ids)
  /\ IsInjective(finished) /\ IsInjective(loaded)
  /\ IsFiniteSet(transfers)
  /\ transfers \subseteq descriptors /\ descriptors \subseteq Ids
  /\ ToSet(finished) \subseteq descriptors \ transfers
  /\ ToSet(loaded) \cap descriptors = {}
  /\ stillRunning \in Nat

(* The rest of the invariant sees of libcurl what is being loaded and      *)
(* what a reset has left behind.                                           *)
Stale == descriptors \ (transfers \cup ToSet(finished))
Pending == ToSet(pendingRequesters)
Started == taken \ Pending

SecondId(r) == NextId(FirstId(r))

(* The ids that lead from the first transfer to this one. *)
RedirectedTo(id) ==
  {p \in Ids : p.requester = id.requester /\ p.hop \in 2..id.hop}

(* A request is in one place. *)
PlacesInv ==
  /\ IsInjective(pendingRequesters) /\ Pending \subseteq taken
  /\ \A i, j \in Loading : i.requester = j.requester => i = j
  /\ \A id \in Loading : /\ id.requester \in Started
                         /\ answers[id.requester] = <<>>
  /\ \A r \in Requesters :
       answers[r] # <<>> => r \in Started /\ Len(answers[r]) = 1

(* Nothing is known of what has not been loaded. *)
UnstartedInv ==
  \A r \in Requesters \ Started :
    /\ FirstId(r) \notin activeRequesters
    /\ responses[r] = <<>> /\ address[r] = Asked[r]
    /\ \A id \in redirects \cup redirectLists \cup Stale : id.requester # r

(* The list of a first transfer goes together with its first redirect; a   *)
(* requester that can be found has the page asked for first in its chain.  *)
TablesInv ==
  /\ \A id \in redirects : id.hop # 1
  /\ \A r \in Requesters : FirstId(r) \in redirectLists
                             => SecondId(r) \in redirects
  /\ \A r \in Requesters : FirstId(r) \in activeRequesters
                             => Chain(FirstId(r))[1] = Asked[r]

(* Nothing leads to a handle that has been cleaned up, and nothing more is *)
(* loaded for its requester.                                               *)
StaleInv ==
  \A id \in Stale :
    /\ id \notin activeRequesters
    /\ \A l \in Loading : l.requester # id.requester
    /\ \A r \in Requesters :
         id = SecondId(r) => \/ FirstId(r) \notin activeRequesters
                             \/ FirstId(r) \notin redirectLists

(* What nobody has dropped is found again, by ids without a gap. *)
KeptInv ==
  \A r \in Undropped \cap taken :
    /\ \/ r \in Pending \/ answers[r] # <<>>
       \/ \E id \in Loading : id.requester = r
    /\ \A id \in Loading :
         id.requester = r =>
           /\ FirstId(r) \in activeRequesters
           /\ {p \in redirects : p.requester = r} = RedirectedTo(id)
           /\ FirstId(r) \in redirectLists <=> id.hop # 1
    /\ answers[r] # <<>> =>
         /\ FirstId(r) \notin activeRequesters
         /\ responses[r] = <<>>
         /\ \A p \in redirects : p.requester # r

-----------------------------------------------------------------------------
(* libcurl.                                                                *)

(* checkMultiInfo moves what has ended into the queue of onUrlLoaded.      *)
LEMMA EndsAreAnnounced ==
  ASSUME NEW ds \in SUBSET Ids, NEW queue \in Seq(Ids),
         finished \in Seq(Ids), IsInjective(finished), IsInjective(queue),
         ToSet(queue) \cap ds = {},
         IsFiniteSet(transfers'), transfers' \subseteq ds,
         ToSet(finished) \subseteq ds \ transfers',
         stillRunning' \in Nat,
         CheckMultiInfo(ds, queue)
  PROVE  /\ CurlInv'
         /\ Loading' = transfers' \cup ToSet(finished) \cup ToSet(queue)
         /\ Stale' = ds \ (transfers' \cup ToSet(finished))
<1>1. /\ finished' = <<>> /\ loaded' = queue \o finished
      /\ descriptors' = ds \ ToSet(finished)
  BY DEF CheckMultiInfo
<1>2. /\ finished' \in Seq(Ids) /\ ToSet(finished') = {}
      /\ IsInjective(finished')
  BY <1>1 DEF ToSet, IsInjective
<1>3. /\ loaded' \in Seq(Ids) /\ IsInjective(loaded')
      /\ ToSet(loaded') = ToSet(queue) \cup ToSet(finished)
  BY <1>1, ConcatElements
<1>. QED BY <1>1, <1>2, <1>3 DEF CurlInv, Loading, Stale

(* A function of libcurl ends: what had ended may be announced at once.    *)
LEMMA TimerCallbackKeeps ==
  ASSUME NEW ds \in SUBSET Ids, NEW queue \in Seq(Ids), NEW count \in Nat,
         finished \in Seq(Ids), IsInjective(finished), IsInjective(queue),
         ToSet(queue) \cap ds = {},
         IsFiniteSet(transfers'), transfers' \subseteq ds,
         ToSet(finished) \subseteq ds \ transfers',
         TimerCallback(ds, queue, count)
  PROVE  /\ CurlInv'
         /\ Loading' = transfers' \cup ToSet(finished) \cup ToSet(queue)
         /\ Stale' = ds \ (transfers' \cup ToSet(finished))
<1>1. CASE /\ stillRunning' = count
           /\ descriptors' = ds /\ loaded' = queue
           /\ UNCHANGED finished
  BY <1>1 DEF CurlInv, Loading, Stale
<1>2. CASE /\ stillRunning' = Cardinality(transfers')
           /\ CheckMultiInfo(ds, queue)
  BY <1>2, EndsAreAnnounced, FS_CardinalityType
<1>. QED BY <1>1, <1>2 DEF TimerCallback

(* A new transfer: nothing else changes but that ends are announced. *)
LEMMA GetKeeps ==
  ASSUME CurlInv, NEW id \in Ids, id \notin descriptors,
         NEW queue \in Seq(Ids), IsInjective(queue),
         ToSet(queue) \cap (descriptors \cup {id}) = {},
         Get(id, queue)
  PROVE  /\ CurlInv'
         /\ Loading' = transfers \cup ToSet(finished) \cup ToSet(queue)
                         \cup {id}
         /\ Stale' = Stale
<1>1. /\ transfers' = transfers \cup {id} /\ IsFiniteSet(transfers')
      /\ TimerCallback(descriptors \cup {id}, queue, stillRunning)
  BY FS_AddElement DEF Get, CurlInv
<1>2. /\ descriptors \cup {id} \in SUBSET Ids
      /\ transfers' \subseteq descriptors \cup {id}
      /\ ToSet(finished) \subseteq (descriptors \cup {id}) \ transfers'
  BY <1>1 DEF CurlInv
<1>3. /\ CurlInv'
      /\ Loading' = transfers' \cup ToSet(finished) \cup ToSet(queue)
      /\ Stale' = (descriptors \cup {id}) \ (transfers' \cup ToSet(finished))
  BY <1>1, <1>2, TimerCallbackKeeps DEF CurlInv
<1>. QED BY <1>1, <1>3 DEF Stale

(* What is taken from the queue of onUrlLoaded. *)
LEMMA LoadedIsTaken ==
  ASSUME CurlInv, loaded # <<>>
  PROVE  /\ Head(loaded) \in Ids /\ Head(loaded) \in Loading
         /\ Head(loaded) \notin descriptors
         /\ Tail(loaded) \in Seq(Ids) /\ IsInjective(Tail(loaded))
         /\ ToSet(Tail(loaded)) = ToSet(loaded) \ {Head(loaded)}
<1>1. loaded \in Seq(Ids) /\ IsInjective(loaded)
  BY DEF CurlInv
<1>. QED BY <1>1, TailElements DEF CurlInv, Loading

-----------------------------------------------------------------------------
(* The pending requesters.                                                 *)

(* FirstUnpaused is the place of a requester that may be loaded. *)
LEMMA FirstUnpausedElement ==
  ASSUME pendingRequesters \in Seq(Requesters), NEW paused, NEW first,
         first = FirstUnpaused(paused), first # 0
  PROVE  first \in 1..Len(pendingRequesters)
<1> DEFINE places == {i \in 1..Len(pendingRequesters) :
                        pendingRequesters[i] \notin expired \cup paused}
<1>1. first = IF places # {} THEN Min(places) ELSE 0
  BY DEF FirstUnpaused, SelectInSeq
<1>2. places \subseteq Nat
  OBVIOUS
<1>3. first \in places
  <2> HIDE DEF places
  <2> QED BY <1>1, <1>2, LeastNumber
<1>. QED BY <1>3

(* What extractFirstUnpausedRequester leaves. *)
LEMMA ExtractionElements ==
  ASSUME pendingRequesters \in Seq(Requesters),
         IsInjective(pendingRequesters),
         NEW first \in 1..Len(pendingRequesters),
         NEW r, r = pendingRequesters[first]
  PROVE  /\ r \in Requesters /\ r \in Pending
         /\ AfterExtraction(first) \in Seq(Requesters)
         /\ IsInjective(AfterExtraction(first))
         /\ ToSet(AfterExtraction(first)) \subseteq Pending \ {r}
         /\ Pending \subseteq {r} \cup ToSet(AfterExtraction(first)) \cup expired
<1> DEFINE s == pendingRequesters
           before == SubSeq(s, 1, first - 1)
           behind == SubSeq(s, first + 1, Len(s))
<1>1. /\ before \in Seq(Requesters) /\ behind \in Seq(Requesters)
      /\ IsInjective(before) /\ IsInjective(behind)
      /\ ToSet(before) \cap ToSet(behind) = {}
      /\ ToSet(before) \cup ToSet(behind) = Pending \ {r}
  BY SplitElements DEF Pending
<1>2. AfterExtraction(first) = Without(before, expired) \o behind
  <2>1. first # 0
    OBVIOUS
  <2> QED BY <2>1 DEF AfterExtraction, WithoutExpired
<1> HIDE DEF before, behind
<1>3. /\ Without(before, expired) \in Seq(Requesters)
      /\ ToSet(Without(before, expired)) = ToSet(before) \ expired
      /\ IsInjective(Without(before, expired))
  BY <1>1, WithoutElements
<1>4. /\ AfterExtraction(first) \in Seq(Requesters)
      /\ IsInjective(AfterExtraction(first))
      /\ ToSet(AfterExtraction(first))
           = (ToSet(before) \ expired) \cup ToSet(behind)
  BY <1>1, <1>2, <1>3, ConcatElements
<1>5. r \in Requesters /\ r \in Pending
  BY DEF Pending, ToSet
<1>. QED BY <1>1, <1>4, <1>5

(* Nobody is extracted, only the expired ones are erased. *)
LEMMA NothingExtracted ==
  ASSUME pendingRequesters \in Seq(Requesters),
         IsInjective(pendingRequesters)
  PROVE  /\ AfterExtraction(0) \in Seq(Requesters)
         /\ IsInjective(AfterExtraction(0))
         /\ ToSet(AfterExtraction(0)) = Pending \ expired
BY WithoutElements DEF AfterExtraction, WithoutExpired, Pending

-----------------------------------------------------------------------------
(* Ids.                                                                    *)

(* An id is its requester and its place in the chain of redirects. *)
LEMMA IdsOfRequesters ==
  /\ \A id \in Ids : /\ id.requester \in Requesters /\ id.hop \in Nat \ {0}
                     /\ NextId(id) \in Ids /\ NextId(id).hop = id.hop + 1
                     /\ NextId(id).requester = id.requester
  /\ \A i, j \in Ids : i.requester = j.requester /\ i.hop = j.hop => i = j
  /\ \A r \in Requesters :
       /\ FirstId(r) \in Ids /\ FirstId(r).requester = r /\ FirstId(r).hop = 1
       /\ SecondId(r) \in Ids /\ SecondId(r).requester = r
       /\ SecondId(r).hop = 2
<1>1. \A id \in Ids : /\ id.requester \in Requesters /\ id.hop \in Nat \ {0}
                     /\ NextId(id) \in Ids /\ NextId(id).hop = id.hop + 1
                     /\ NextId(id).requester = id.requester
  BY DEF Ids, NextId
<1>2. \A i, j \in Ids : i.requester = j.requester /\ i.hop = j.hop => i = j
  BY DEF Ids
<1>3. \A r \in Requesters :
        FirstId(r) \in Ids /\ FirstId(r).requester = r /\ FirstId(r).hop = 1
  BY DEF Ids, FirstId
<1>. QED BY <1>1, <1>2, <1>3 DEF SecondId

(* With no gap below an id, its redirects are counted to its first. *)
LEMMA RootWithoutGap ==
  ASSUME NEW id \in Ids, redirects \subseteq Ids,
         \A p \in redirects : p.hop # 1,
         RedirectedTo(id) \subseteq redirects
  PROVE  /\ RedirectsTo(id) = RedirectedTo(id)
         /\ Root(id) = FirstId(id.requester)
<1> DEFINE r == id.requester  k == id.hop
           Id(h) == [requester |-> r, hop |-> h]
<1>1. r \in Requesters /\ k \in Nat \ {0} /\ id = Id(k)
  BY DEF Ids
<1>2. \A h \in 2..k : Id(h) \in RedirectedTo(id)
  BY <1>1 DEF RedirectedTo, Ids
<1>3. \A p \in RedirectedTo(id) : p.hop \in 2..k /\ p = Id(p.hop)
  BY DEF RedirectedTo, Ids
<1>4. \A h \in Nat : [id EXCEPT !.hop = h] = Id(h)
  BY <1>1
<1>5. RedirectsTo(id) = RedirectedTo(id)
  <2>1. ASSUME NEW p \in RedirectsTo(id)
        PROVE  p \in RedirectedTo(id)
    BY <2>1, <1>1 DEF RedirectsTo, RedirectedTo, Ids
  <2>2. ASSUME NEW p \in RedirectedTo(id)
        PROVE  p \in RedirectsTo(id)
    <3>1. \A h \in p.hop..k : Id(h) \in redirects
      BY <1>1, <1>2, <1>3
    <3>2. p.hop <= k /\ p.hop \in Nat
      BY <1>1, <1>3
    <3>3. \A h \in p.hop..k : [id EXCEPT !.hop = h] \in redirects
      BY <1>1, <1>4, <3>1, <3>2
    <3> QED BY <3>2, <3>3 DEF RedirectsTo, RedirectedTo
  <2> QED BY <2>1, <2>2
<1>6. Cardinality(RedirectedTo(id)) = k - 1
  <2> DEFINE f == [h \in 2..k |-> Id(h)]
  <2>1. f \in Bijection(2..k, RedirectedTo(id))
    <3>1. f \in [2..k -> RedirectedTo(id)]
      BY <1>2
    <3>2. \A g, h \in 2..k : f[g] = f[h] => g = h
      OBVIOUS
    <3>3. \A p \in RedirectedTo(id) : \E h \in 2..k : f[h] = p
      BY <1>3
    <3> HIDE DEF f
    <3> QED
      BY <3>1, <3>2, <3>3 DEF Bijection, Injection, Surjection, IsInjective
  <2>2. IsFiniteSet(2..k) /\ Cardinality(2..k) = k - 1
    <3>1. 2 \in Int /\ k \in Int
      BY <1>1
    <3> HIDE DEF k
    <3>2. /\ IsFiniteSet(2..k)
          /\ Cardinality(2..k) = IF 2 > k THEN 0 ELSE k - 2 + 1
      BY <3>1, FS_Interval
    <3> QED BY <3>2, <1>1
  <2> HIDE DEF f
  <2>3. ExistsBijection(2..k, RedirectedTo(id))
    BY <2>1 DEF ExistsBijection
  <2> QED BY <2>2, <2>3, FS_Bijection
<1>7. [id EXCEPT !.hop = @ - (k - 1)] = Id(1)
  BY <1>1
<1>. QED BY <1>1, <1>5, <1>6, <1>7 DEF Root, FirstId

(* Whatever the tables have, an id leads to ids of its own requester. *)
LEMMA RootOfRequester ==
  ASSUME NEW id \in Ids
  PROVE  /\ Root(id).requester = id.requester
         /\ Root(id).hop = 1 => Root(id) = FirstId(id.requester)
         /\ RedirectsTo(id) \subseteq redirects
         /\ \A p \in RedirectsTo(id) : p.requester = id.requester
<1> DEFINE Id(h) == [requester |-> id.requester, hop |-> h]
           hop == id.hop - Cardinality(RedirectsTo(id))
<1>1. id = Id(id.hop)
  BY DEF Ids
<1>2. Root(id) = Id(hop)
  <2> HIDE DEF hop
  <2>1. [id EXCEPT !.hop = hop] = Id(hop)
    BY <1>1
  <2> QED BY <2>1 DEF Root, hop
<1>3. /\ RedirectsTo(id) \subseteq redirects
      /\ \A p \in RedirectsTo(id) : p.requester = id.requester
  BY DEF RedirectsTo
<1> HIDE DEF hop
<1>. QED BY <1>2, <1>3 DEF FirstId

(* Whoever's first redirect leads to an id is its root. *)
LEMMA RootOfSecond ==
  ASSUME NEW id \in Ids, redirects \subseteq Ids,
         \A p \in redirects : p.hop # 1,
         SecondId(id.requester) \in RedirectsTo(id)
  PROVE  Root(id) = FirstId(id.requester)
<1>1. /\ SecondId(id.requester).hop = 2 /\ id.hop \in Nat
      /\ id.requester \in Requesters
  BY IdsOfRequesters
<1>2. \A h \in 2..id.hop : [id EXCEPT !.hop = h] \in redirects
  BY <1>1 DEF RedirectsTo
<1>3. \A p \in RedirectedTo(id) : p = [id EXCEPT !.hop = p.hop]
  BY DEF RedirectedTo, Ids
<1>4. RedirectedTo(id) \subseteq redirects
  BY <1>2, <1>3 DEF RedirectedTo
<1>. QED BY <1>4, RootWithoutGap

-----------------------------------------------------------------------------
(* What a step does to the places of a request and to the tables.          *)

RestInv ==
  PlacesInv /\ UnstartedInv /\ TablesInv /\ StaleInv /\ KeptInv

(* Requesters begin or cease to wait and nothing is loaded: who ceases has *)
(* been dropped or has expired.                                            *)
LEMMA NothingStarts ==
  ASSUME RestInv, taken \subseteq Requesters, taken \subseteq taken',
         taken' \subseteq taken \cup Pending',
         Pending' \subseteq Pending \cup (taken' \ taken),
         Pending \subseteq Pending' \cup expired' \cup dropped',
         IsInjective(pendingRequesters'), taken' \subseteq Requesters,
         expired \subseteq expired', dropped \subseteq dropped',
         Loading' = Loading, Stale' = Stale,
         UNCHANGED <<answers, tableVars>>
  PROVE  RestInv'
<1>1. /\ Started \subseteq Started' /\ Pending' \subseteq taken'
      /\ Undropped' \subseteq Undropped
      /\ taken' \ taken \subseteq Pending'
      /\ Requesters \ Started' \subseteq Requesters \ Started
  BY DEF Started, Undropped, RestInv, PlacesInv
<1>2. UNCHANGED <<activeRequesters, redirects, redirectLists, responses,
                  address>>
  BY DEF tableVars
<1>3. PlacesInv'
  BY <1>1, <1>2 DEF RestInv, PlacesInv
<1>4. UnstartedInv'
  BY <1>1, <1>2 DEF RestInv, UnstartedInv
<1>5. TablesInv'
  BY <1>2 DEF RestInv, TablesInv, Chain
<1>6. StaleInv'
  BY <1>2 DEF RestInv, StaleInv
<1>7. KeptInv'
  <2> SUFFICES ASSUME NEW r \in Undropped' \cap taken'
               PROVE  KeptInv!(r)'
    BY DEF KeptInv
  <2>1. CASE r \in taken
    BY <1>1, <1>2, <2>1 DEF RestInv, KeptInv, Undropped, RedirectedTo
  <2>2. CASE r \notin taken
    <3>1. r \in Requesters /\ r \notin Started /\ r \in Pending'
      BY <1>1, <2>2 DEF Started
    <3>2. /\ \A id \in Loading : id.requester # r
          /\ answers[r] = <<>>
      BY <3>1 DEF RestInv, PlacesInv
    <3> QED BY <1>2, <3>1, <3>2
  <2> QED BY <2>1, <2>2
<1>. QED BY <1>3, <1>4, <1>5, <1>6, <1>7 DEF RestInv

(* A requester that has waited, or has just been taken, is loaded. *)
LEMMA OneStarts ==
  ASSUME RestInv, NEW r \in Requesters \ Started,
         taken \subseteq Requesters, redirects \subseteq Ids,
         Loading \subseteq Ids,
         Asked \in [Requesters -> Urls], address \in [Requesters -> Urls],
         taken' = taken \cup {r},
         Pending' \subseteq Pending \ {r},
         Pending \subseteq Pending' \cup {r} \cup expired,
         IsInjective(pendingRequesters'),
         Loading' = Loading \cup {FirstId(r)}, Stale' = Stale,
         activeRequesters' = activeRequesters \cup {FirstId(r)},
         UNCHANGED <<expired, dropped, answers, redirects, redirectLists,
                     responses, address>>
  PROVE  RestInv'
<1>1. /\ Started' \subseteq Started \cup {r} \cup expired
      /\ Started \cup {r} \subseteq Started'
      /\ Pending' \subseteq taken'
      /\ Undropped' = Undropped
      /\ Requesters \ Started' \subseteq (Requesters \ Started) \ {r}
  BY DEF Started, Undropped, RestInv, PlacesInv
<1>2. /\ FirstId(r).requester = r /\ FirstId(r).hop = 1
      /\ FirstId(r) \in Ids
      /\ \A q \in Requesters : FirstId(q) = FirstId(r) => q = r
  BY IdsOfRequesters
<1>3. /\ \A id \in Loading : id.requester # r
      /\ answers[r] = <<>> /\ responses[r] = <<>> /\ address[r] = Asked[r]
      /\ \A id \in redirects \cup redirectLists \cup Stale : id.requester # r
  BY DEF RestInv, PlacesInv, UnstartedInv
<1>4. PlacesInv'
  BY <1>1, <1>2, <1>3 DEF RestInv, PlacesInv
<1>5. UnstartedInv'
  BY <1>1, <1>2 DEF RestInv, UnstartedInv
<1>6. TablesInv'
  <2>1. Chain(FirstId(r))[1] = Asked[r]
    BY <1>2, <1>3 DEF Chain
  <2> QED BY <1>2, <2>1 DEF RestInv, TablesInv, Chain
<1>7. StaleInv'
  BY <1>2, <1>3, IdsOfRequesters DEF RestInv, StaleInv
<1>8. KeptInv'
  <2> SUFFICES ASSUME NEW q \in Undropped' \cap taken'
               PROVE  KeptInv!(q)'
    BY DEF KeptInv
  <2>1. CASE q = r
    <3>1. {p \in redirects : p.requester = r} = RedirectedTo(FirstId(r))
      BY <1>2, <1>3 DEF RedirectedTo
    <3>2. \A id \in Loading' : id.requester = r => id = FirstId(r)
      BY <1>3
    <3>3. FirstId(r) \notin redirectLists
      BY <1>2, <1>3
    <3> QED BY <1>2, <1>3, <2>1, <3>1, <3>2, <3>3
  <2>2. CASE q # r
    <3>1. q \in Undropped \cap taken
      BY <1>1, <2>2
    <3>2. FirstId(q) # FirstId(r)
      BY <1>2, <2>2 DEF Undropped
    <3>3. q \in Pending => q \in Pending'
      BY <1>1, <2>2 DEF Undropped
    <3> QED BY <1>2, <2>2, <3>1, <3>2, <3>3 DEF RestInv, KeptInv, RedirectedTo
  <2> QED BY <2>1, <2>2
<1>. QED BY <1>4, <1>5, <1>6, <1>7, <1>8 DEF RestInv

(* A redirect takes the place of what has led to it. *)
LEMMA OneIsRedirected ==
  ASSUME RestInv, NEW id \in Loading, NEW target \in Urls,
         Loading \subseteq Ids, taken \subseteq Requesters,
         redirects \subseteq Ids,
         responses \in [Requesters -> Seq(Urls)],
         address \in [Requesters -> Urls],
         Loading' = (Loading \ {id}) \cup {NextId(id)}, Stale' = Stale,
         redirects' = redirects \cup {NextId(id)},
         redirectLists' = redirectLists \cup {id},
         address' = [address EXCEPT ![id.requester] = target],
         responses' = [responses EXCEPT ![id.requester] = Chain(id)],
         UNCHANGED <<taken, expired, dropped, answers, pendingRequesters,
                     activeRequesters>>
  PROVE  RestInv'
<1> DEFINE r == id.requester  next == NextId(id)
<1>1. /\ id \in Ids /\ r \in Requesters /\ next \in Ids
      /\ next.requester = r /\ next.hop = id.hop + 1
      /\ id.hop \in Nat \ {0}
      /\ FirstId(r) \in Ids /\ FirstId(r).requester = r
      /\ FirstId(r).hop = 1
  BY IdsOfRequesters
<1>2. /\ r \in Started /\ answers[r] = <<>>
      /\ \A l \in Loading : l.requester = r => l = id
      /\ \A l \in Stale : l.requester # r
  BY DEF RestInv, PlacesInv, StaleInv
<1>3. /\ Pending' = Pending /\ Started' = Started
      /\ Undropped' = Undropped
      /\ \A q \in Requesters \ {r} : /\ responses'[q] = responses[q]
                                   /\ address'[q] = address[q]
      /\ responses'[r] = Chain(id) /\ address'[r] = target
  BY <1>1 DEF Pending, Started, Undropped
<1> HIDE DEF next
<1>4. PlacesInv'
  BY <1>1, <1>2, <1>3 DEF RestInv, PlacesInv, next
<1>5. UnstartedInv'
  BY <1>1, <1>2, <1>3 DEF RestInv, UnstartedInv, next
<1>6. TablesInv'
  <2>1. \A p \in redirects' : p.hop # 1
    BY <1>1 DEF RestInv, TablesInv, next
  <2>2. ASSUME NEW q \in Requesters, FirstId(q) \in redirectLists'
        PROVE  SecondId(q) \in redirects'
    <3>1. CASE FirstId(q) = id
      BY <3>1 DEF SecondId
    <3>2. CASE FirstId(q) \in redirectLists
      BY <3>2 DEF RestInv, TablesInv
    <3> QED BY <2>2, <3>1, <3>2
  <2>3. ASSUME NEW q \in Requesters, FirstId(q) \in activeRequesters'
        PROVE  Chain(FirstId(q))'[1] = Asked[q]
    <3>1. Chain(FirstId(q))[1] = Asked[q] /\ FirstId(q).requester = q
      BY <2>3, IdsOfRequesters DEF RestInv, TablesInv
    <3>2. CASE q = r
      <4>1. /\ Chain(id) = Chain(FirstId(q)) /\ Chain(id) \in Seq(Urls)
            /\ Len(Chain(id)) > 0
        BY <1>1, <3>1, <3>2 DEF Chain
      <4>2. Chain(FirstId(q))' = Append(Chain(id), target)
        BY <1>3, <3>1, <3>2 DEF Chain
      <4> QED BY <3>1, <4>1, <4>2
    <3>3. CASE q # r
      BY <1>3, <3>1, <3>3 DEF Chain
    <3> QED BY <3>2, <3>3
  <2> QED BY <2>1, <2>2, <2>3 DEF TablesInv
<1>7. StaleInv'
  BY <1>1, <1>2, IdsOfRequesters DEF RestInv, StaleInv, next
<1>8. KeptInv'
  <2> SUFFICES ASSUME NEW q \in Undropped' \cap taken'
               PROVE  KeptInv!(q)'
    BY DEF KeptInv
  <2>0. q \in Undropped \cap taken /\ q \in Requesters
    BY <1>3 DEF Undropped
  <2>1. CASE q = r
    <3>1. /\ FirstId(r) \in activeRequesters
          /\ {p \in redirects : p.requester = r} = RedirectedTo(id)
          /\ FirstId(r) \in redirectLists <=> id.hop # 1
      BY <2>0, <2>1 DEF RestInv, KeptInv
    <3>2. FirstId(r) \in redirectLists' /\ next.hop # 1
      BY <1>1, <3>1, IdsOfRequesters
    <3>3. {p \in redirects' : p.requester = r} = RedirectedTo(id) \cup {next}
      BY <1>1, <3>1 DEF next
    <3>4. RedirectedTo(id) \cup {next} = RedirectedTo(next)
      <4>1. RedirectedTo(next) \subseteq RedirectedTo(id) \cup {next}
        BY <1>1, IdsOfRequesters DEF RedirectedTo
      <4>2. RedirectedTo(id) \cup {next} \subseteq RedirectedTo(next)
        BY <1>1 DEF RedirectedTo
      <4> QED BY <4>1, <4>2
    <3>5. RedirectedTo(next)' = RedirectedTo(next)
      BY DEF RedirectedTo
    <3>6. \A l \in Loading' : l.requester = r => l = next
      BY <1>2 DEF next
    <3>7. next \in Loading'
      BY DEF next
    <3> QED
      BY <1>1, <1>2, <2>1, <3>1, <3>2, <3>3, <3>4, <3>6, <3>7
      DEF RedirectedTo
  <2>2. CASE q # r
    <3>1. {p \in redirects' : p.requester = q}
            = {p \in redirects : p.requester = q}
      BY <1>1, <2>2 DEF next
    <3>2. \A l \in Ids : l.requester = q => (l \in Loading' <=> l \in Loading)
      BY <1>1, <2>2 DEF next
    <3>3. FirstId(q) \in redirectLists' <=> FirstId(q) \in redirectLists
      BY <1>1, <2>0, <2>2, IdsOfRequesters
    <3>4. Loading' \subseteq Ids
      BY <1>1 DEF next
    <3> QED
      BY <1>3, <2>0, <2>2, <3>1, <3>2, <3>3, <3>4
      DEF RestInv, KeptInv, RedirectedTo
  <2> QED BY <2>1, <2>2
<1>. QED BY <1>4, <1>5, <1>6, <1>7, <1>8 DEF RestInv

(* The chains of some ids are removed: nothing of other requesters, and a  *)
(* list of a first transfer with its redirect.                             *)
LEMMA ChainsAreRemoved ==
  ASSUME NEW ids \in SUBSET Ids, redirects \subseteq Ids, TablesInv,
         RemoveRequestIndexesChains(ids)
  PROVE  /\ redirects' \subseteq redirects
         /\ redirectLists' \subseteq redirectLists
         /\ \A p \in redirects \ redirects' :
              \E id \in ids : p.requester = id.requester
         /\ \A p \in redirectLists \ redirectLists' :
              \E id \in ids : p.requester = id.requester
         /\ \A r \in Requesters : FirstId(r) \in redirectLists'
                                   => SecondId(r) \in redirects'
         /\ \A id \in ids : RedirectsTo(id) \cap redirects' = {}
<1>1. /\ redirects' = redirects \ UNION {RedirectsTo(id) : id \in ids}
      /\ redirectLists' =
           redirectLists \ {Root(id) : id \in {i \in ids : RedirectsTo(i) # {}}}
  BY DEF RemoveRequestIndexesChains
<1>2. ASSUME NEW p \in redirects \ redirects'
      PROVE  \E id \in ids : p \in RedirectsTo(id)
  BY <1>1
<1>3. ASSUME NEW p \in redirectLists \ redirectLists'
      PROVE  \E id \in ids : p = Root(id)
  BY <1>1
<1>4. ASSUME NEW r \in Requesters, FirstId(r) \in redirectLists',
             SecondId(r) \notin redirects'
      PROVE  FALSE
  <2>1. SecondId(r) \in redirects
    BY <1>1, <1>4 DEF TablesInv
  <2>2. PICK id \in ids : SecondId(r) \in RedirectsTo(id)
    BY <1>2, <1>4, <2>1
  <2>3. id.requester = r
    BY <2>2, RootOfRequester, IdsOfRequesters
  <2>4. Root(id) = FirstId(r)
    BY <2>2, <2>3, RootOfSecond DEF TablesInv
  <2> QED BY <1>1, <1>4, <2>2, <2>4
<1>. QED BY <1>1, <1>2, <1>3, <1>4, RootOfRequester

(* A transfer that has ended is forgotten: its requester is answered, or   *)
(* is gone or unknown.                                                     *)
LEMMA OneIsForgotten ==
  ASSUME RestInv, NEW id \in Loading,
         Loading \subseteq Ids, taken \subseteq Requesters,
         redirects \subseteq Ids,
         activeRequesters \subseteq {FirstId(r) : r \in Requesters},
         responses \in [Requesters -> Seq(Urls)],
         address \in [Requesters -> Urls],
         answers \in [Requesters -> Seq(Seq(Urls))],
         Loading' = Loading \ {id}, Stale' = Stale,
         ForgetLoaded(id),
         \/ UNCHANGED answers /\ ~RequesterFound(id)
         \/ /\ RequesterFound(id)
            /\ answers' = [answers EXCEPT
                             ![id.requester] = Append(@, Chain(id))],
         UNCHANGED <<taken, expired, dropped, pendingRequesters>>
  PROVE  RestInv'
<1> DEFINE r == id.requester
<1>1. /\ id \in Ids /\ r \in Requesters /\ FirstId(r).requester = r
      /\ \A q \in Requesters : FirstId(q) \in Ids /\ FirstId(q).requester = q
  BY IdsOfRequesters
<1>2. /\ r \in Started /\ answers[r] = <<>>
      /\ \A l \in Loading : l.requester = r => l = id
  BY DEF RestInv, PlacesInv
<1>3. /\ Pending' = Pending /\ Started' = Started
      /\ Undropped' = Undropped
  BY DEF Pending, Started, Undropped
<1>4. /\ activeRequesters' = activeRequesters \ {Root(id)}
      /\ responses' = [responses EXCEPT
                         ![r] = IF Root(id).hop = 1 THEN <<>> ELSE @]
      /\ RemoveRequestIndexesChains({id})
      /\ UNCHANGED address
  BY DEF ForgetLoaded
<1>5. /\ redirects' \subseteq redirects
      /\ redirectLists' \subseteq redirectLists
      /\ \A p \in redirects \ redirects' : p.requester = r
      /\ \A p \in redirectLists \ redirectLists' : p.requester = r
      /\ \A q \in Requesters : FirstId(q) \in redirectLists'
                                => SecondId(q) \in redirects'
      /\ RedirectsTo(id) \cap redirects' = {}
  <2>1. {id} \in SUBSET Ids /\ TablesInv /\ RemoveRequestIndexesChains({id})
    BY <1>1, <1>4 DEF RestInv
  <2> QED BY <2>1, ChainsAreRemoved
<1>6. /\ Root(id).requester = r
      /\ Root(id).hop = 1 => Root(id) = FirstId(r)
  BY <1>1, RootOfRequester
<1>7. /\ \A q \in Requesters \ {r} : /\ answers'[q] = answers[q]
                                   /\ responses'[q] = responses[q]
      /\ responses'[r] = IF Root(id).hop = 1 THEN <<>> ELSE responses[r]
      /\ answers'[r] = answers[r] \/ Len(answers'[r]) = 1
  <2>1. CASE UNCHANGED answers
    BY <1>1, <1>4, <2>1
  <2>2. CASE answers' = [answers EXCEPT ![r] = Append(@, Chain(id))]
    <3>1. Chain(id) \in Seq(Urls)
      BY <1>1 DEF Chain
    <3>2. Append(answers[r], Chain(id)) = <<Chain(id)>>
      BY <1>2, <3>1
    <3> QED BY <1>1, <1>4, <2>2, <3>2
  <2> QED BY <2>1, <2>2
<1>8. PlacesInv'
  <2>1. IsInjective(pendingRequesters') /\ Pending' \subseteq taken'
    BY <1>3 DEF RestInv, PlacesInv
  <2>2. \A l \in Loading' : /\ l.requester \in Started'
                           /\ answers'[l.requester] = <<>>
    BY <1>2, <1>3, <1>7, IdsOfRequesters DEF RestInv, PlacesInv
  <2>3. \A q \in Requesters :
          answers'[q] # <<>> => q \in Started' /\ Len(answers'[q]) = 1
    BY <1>2, <1>3, <1>7 DEF RestInv, PlacesInv
  <2> QED BY <2>1, <2>2, <2>3 DEF RestInv, PlacesInv
<1>9. UnstartedInv'
  BY <1>2, <1>3, <1>4, <1>5, <1>7 DEF RestInv, UnstartedInv
<1>10. TablesInv'
  <2>1. \A p \in redirects' : p.hop # 1
    BY <1>5 DEF RestInv, TablesInv
  <2>2. ASSUME NEW q \in Requesters, FirstId(q) \in activeRequesters'
        PROVE  Chain(FirstId(q))' = Chain(FirstId(q))
    BY <1>1, <1>4, <1>6, <1>7, <2>2 DEF Chain
  <2>3. \A q \in Requesters : FirstId(q) \in activeRequesters'
                              => Chain(FirstId(q))'[1] = Asked[q]
    BY <1>4, <2>2 DEF RestInv, TablesInv
  <2> QED BY <1>5, <2>1, <2>3 DEF TablesInv
<1>11. StaleInv'
  BY <1>4, <1>5 DEF RestInv, StaleInv
<1>12. KeptInv'
  <2> SUFFICES ASSUME NEW q \in Undropped' \cap taken'
               PROVE  KeptInv!(q)'
    BY DEF KeptInv
  <2>0. q \in Undropped \cap taken /\ q \in Requesters
    BY <1>3 DEF Undropped
  <2>1. CASE q = r
    <3>1. /\ FirstId(r) \in activeRequesters
          /\ {p \in redirects : p.requester = r} = RedirectedTo(id)
      BY <2>0, <2>1 DEF RestInv, KeptInv
    <3>2. RedirectsTo(id) = RedirectedTo(id) /\ Root(id) = FirstId(r)
      BY <1>1, <3>1, RootWithoutGap DEF RestInv, TablesInv
    <3>3. RequesterFound(id)
      BY <2>0, <2>1, <3>1, <3>2 DEF RequesterFound, Undropped
    <3>4. answers'[r] # <<>>
      <4>1. answers'[r] = Append(answers[r], Chain(id))
        BY <1>1, <3>3
      <4> QED BY <1>1, <1>2, <4>1
    <3>5. \A p \in redirects' : p.requester # r
      BY <1>5, <3>1, <3>2
    <3>6. responses'[r] = <<>> /\ FirstId(r) \notin activeRequesters'
      BY <1>1, <1>4, <1>7, <3>2, IdsOfRequesters
    <3>7. \A l \in Loading' : l.requester # r
      BY <1>2
    <3> QED BY <2>1, <3>4, <3>5, <3>6, <3>7
  <2>2. CASE q # r
    <3>1. {p \in redirects' : p.requester = q}
            = {p \in redirects : p.requester = q}
      BY <1>5, <2>2
    <3>2. \A l \in Loading : l.requester = q => l \in Loading'
      BY <2>2
    <3>3. FirstId(q) \in redirectLists' <=> FirstId(q) \in redirectLists
      BY <1>1, <1>5, <2>0, <2>2
    <3>4. FirstId(q) \in activeRequesters' <=> FirstId(q) \in activeRequesters
      BY <1>1, <1>4, <1>6, <2>0, <2>2
    <3> QED
      BY <1>3, <1>7, <2>0, <2>2, <3>1, <3>2, <3>3, <3>4
      DEF RestInv, KeptInv, RedirectedTo
  <2> QED BY <2>1, <2>2
<1>. QED BY <1>8, <1>9, <1>10, <1>11, <1>12 DEF RestInv

(* The ids by which requesters are known: the first of each, or its        *)
(* redirect.                                                               *)
LEMMA IndexesOfRequesters ==
  ASSUME activeRequesters \subseteq {FirstId(r) : r \in Requesters},
         NEW rs \in SUBSET Requesters, NEW id \in ActiveRequestIndexes(rs)
  PROVE  /\ id \in Ids /\ id.requester \in rs \ expired
         /\ FirstId(id.requester) \in activeRequesters
         /\ id = IF FirstId(id.requester) \in redirectLists
                 THEN SecondId(id.requester) ELSE FirstId(id.requester)
<1>1. PICK first \in activeRequesters :
        /\ first.requester \in rs \ expired
        /\ id = IF first \in redirectLists THEN NextId(first) ELSE first
  BY DEF ActiveRequestIndexes
<1>2. PICK r \in Requesters : first = FirstId(r)
  OBVIOUS
<1>3. first.requester = r /\ id.requester = r /\ id \in Ids
  BY <1>1, <1>2, IdsOfRequesters
<1>. QED BY <1>1, <1>2, <1>3 DEF SecondId

(* Nothing leads to a handle that has been cleaned up. *)
LEMMA IndexesAreAlive ==
  ASSUME StaleInv, descriptors \subseteq Ids,
         activeRequesters \subseteq {FirstId(r) : r \in Requesters},
         NEW rs \in SUBSET Requesters
  PROVE  ActiveRequestIndexes(rs) \cap descriptors
           \subseteq transfers \cup ToSet(finished)
<1> SUFFICES ASSUME NEW id \in ActiveRequestIndexes(rs), id \in Stale
             PROVE  FALSE
  BY DEF Stale
<1>1. /\ id.requester \in Requesters
      /\ FirstId(id.requester) \in activeRequesters
      /\ id = IF FirstId(id.requester) \in redirectLists
              THEN SecondId(id.requester) ELSE FirstId(id.requester)
  BY IndexesOfRequesters
<1>. QED BY <1>1 DEF StaleInv

(* Requesters are reset, and what they have in libcurl is left behind. *)
LEMMA SomeAreReset ==
  ASSUME RestInv, NEW rs \in SUBSET Requesters, NEW ids,
         ids = ActiveRequestIndexes(rs), NEW removed,
         removed = ids \cap descriptors,
         Loading \subseteq Ids, taken \subseteq Requesters,
         redirects \subseteq Ids, descriptors \subseteq Ids,
         activeRequesters \subseteq {FirstId(r) : r \in Requesters},
         responses \in [Requesters -> Seq(Urls)],
         Loading' = Loading \ removed, Stale' = Stale \cup removed,
         Pending' = Pending \ (rs \cup expired),
         IsInjective(pendingRequesters'),
         dropped' = dropped \cup rs,
         activeRequesters' = activeRequesters \ ids,
         responses' = [r \in Requesters |->
                         IF FirstId(r) \in ids THEN <<>> ELSE responses[r]],
         RemoveRequestIndexesChains(ids),
         UNCHANGED <<taken, expired, answers, address>>
  PROVE  RestInv'
<1>1. \A id \in ids :
        /\ id \in Ids /\ id.requester \in rs
        /\ FirstId(id.requester) \in activeRequesters
        /\ id = IF FirstId(id.requester) \in redirectLists
                THEN SecondId(id.requester) ELSE FirstId(id.requester)
  BY IndexesOfRequesters
<1>2. removed \subseteq Loading /\ removed \subseteq ids
  BY IndexesAreAlive DEF RestInv, Loading
<1>3. /\ redirects' \subseteq redirects
      /\ redirectLists' \subseteq redirectLists
      /\ \A p \in redirects \ redirects' :
           \E id \in ids : p.requester = id.requester
      /\ \A p \in redirectLists \ redirectLists' :
           \E id \in ids : p.requester = id.requester
      /\ \A r \in Requesters : FirstId(r) \in redirectLists'
                                => SecondId(r) \in redirects'
      /\ \A id \in ids : RedirectsTo(id) \cap redirects' = {}
  <2>1. ids \in SUBSET Ids /\ TablesInv
    BY <1>1 DEF RestInv
  <2> QED BY <2>1, ChainsAreRemoved
<1>4. /\ Started \subseteq Started' /\ Pending' \subseteq Pending
      /\ Undropped' = Undropped \ rs
  BY DEF Started, Undropped
<1>5. PlacesInv'
  BY <1>4 DEF RestInv, PlacesInv
<1>6. UnstartedInv'
  <2>1. \A id \in removed : id.requester \in Started
    BY <1>2 DEF RestInv, PlacesInv
  <2> QED BY <1>3, <1>4, <2>1 DEF RestInv, UnstartedInv
<1>7. TablesInv'
  <2>1. \A p \in redirects' : p.hop # 1
    BY <1>3 DEF RestInv, TablesInv
  <2>2. ASSUME NEW r \in Requesters, FirstId(r) \in activeRequesters'
        PROVE  Chain(FirstId(r))' = Chain(FirstId(r))
    <3>1. responses'[r] = responses[r] /\ FirstId(r).requester = r
      BY <2>2, IdsOfRequesters
    <3> QED BY <3>1 DEF Chain
  <2>3. \A r \in Requesters : FirstId(r) \in activeRequesters'
                              => Chain(FirstId(r))'[1] = Asked[r]
    BY <2>2 DEF RestInv, TablesInv
  <2> QED BY <1>3, <2>1, <2>3 DEF TablesInv
<1>8. StaleInv'
  <2>1. ASSUME NEW id \in removed
        PROVE  /\ id \notin activeRequesters'
               /\ \A l \in Loading' : l.requester # id.requester
    BY <1>2 DEF RestInv, PlacesInv
  <2>2. ASSUME NEW r \in Requesters, SecondId(r) \in removed
        PROVE  FirstId(r) \notin redirectLists'
    <3>1. /\ SecondId(r).requester = r /\ SecondId(r).hop = 2
          /\ FirstId(r).hop = 1 /\ SecondId(r) \in Ids
      BY IdsOfRequesters
    <3>2. SecondId(r) \in ids /\ FirstId(r) \in redirectLists
      BY <1>1, <1>2, <2>2, <3>1
    <3>3. SecondId(r) \in redirects
      BY <3>2 DEF RestInv, TablesInv
    <3>4. SecondId(r) \in RedirectsTo(SecondId(r))
      <4>1. \A h \in 2..2 : [SecondId(r) EXCEPT !.hop = h] = SecondId(r)
        BY <3>1 DEF Ids
      <4>2. \A h \in SecondId(r).hop..SecondId(r).hop :
              [SecondId(r) EXCEPT !.hop = h] \in redirects
        BY <3>1, <3>3, <4>1
      <4>3. SecondId(r).hop <= SecondId(r).hop
        BY <3>1
      <4> QED BY <3>3, <4>2, <4>3 DEF RedirectsTo
    <3>5. SecondId(r) \notin redirects'
      BY <1>3, <3>2, <3>4
    <3> QED BY <1>3, <3>5
  <2>3. ASSUME NEW id \in Stale
        PROVE  StaleInv!(id)'
    BY <1>3, <2>3 DEF RestInv, StaleInv
  <2> QED BY <2>1, <2>2, <2>3 DEF StaleInv
<1>9. KeptInv'
  <2> SUFFICES ASSUME NEW q \in Undropped' \cap taken'
               PROVE  KeptInv!(q)'
    BY DEF KeptInv
  <2>1. q \in Undropped \cap taken /\ q \in Requesters /\ q \notin rs
    BY <1>4 DEF Undropped
  <2>2. {p \in redirects' : p.requester = q}
          = {p \in redirects : p.requester = q}
    BY <1>1, <1>3, <2>1
  <2>3. \A l \in Loading : l.requester = q => l \in Loading'
    BY <1>1, <1>2, <2>1
  <2>4. FirstId(q).requester = q
    BY <2>1, IdsOfRequesters
  <2>5. FirstId(q) \in redirectLists' <=> FirstId(q) \in redirectLists
    BY <1>1, <1>3, <2>1, <2>4
  <2>6. FirstId(q) \notin ids
    BY <1>1, <2>1, <2>4
  <2>7. q \in Pending => q \in Pending'
    BY <2>1 DEF Undropped
  <2> QED
    BY <2>1, <2>2, <2>3, <2>5, <2>6, <2>7 DEF RestInv, KeptInv, RedirectedTo
<1>. QED BY <1>5, <1>6, <1>7, <1>8, <1>9 DEF RestInv

-----------------------------------------------------------------------------
(* The inductive invariant.                                                *)

SocketTypes ==
  /\ calls \in 0..MaxCalls /\ dropped \subseteq Requesters
  /\ expired \subseteq taken /\ taken \subseteq Requesters
  /\ answers \in [Requesters -> Seq(Seq(Urls))]
  /\ pendingRequesters \in Seq(Requesters)
  /\ pausedRequesters \subseteq Requesters
  /\ activeRequesters \subseteq {FirstId(r) : r \in Requesters}
  /\ redirects \subseteq Ids /\ redirectLists \subseteq Ids
  /\ responses \in [Requesters -> Seq(Urls)]
  /\ address \in [Requesters -> Urls]

SocketInv == SocketTypes /\ CurlInv /\ RestInv

(* The type invariant of the runs is part of it. *)
LEMMA InvImpliesTypes ==
  ASSUME SocketInv
  PROVE  /\ hung \in BOOLEAN => SocketTypeOK
         /\ Loading \subseteq Ids
         /\ Stale \subseteq Ids /\ Pending \subseteq Requesters
BY DEF SocketInv, SocketTypes, CurlInv, SocketTypeOK, Loading, Stale, Pending,
       ToSet

(* Nothing is known to a fresh handler. *)
LEMMA SocketInitInv == SocketInit => SocketInv
<1> SUFFICES ASSUME SocketInit PROVE SocketInv
  OBVIOUS
<1>1. /\ Pending = {} /\ Loading = {} /\ Stale = {}
      /\ ToSet(finished) = {} /\ ToSet(loaded) = {}
      /\ IsInjective(pendingRequesters)
      /\ IsInjective(finished) /\ IsInjective(loaded)
  BY DEF SocketInit, Pending, Loading, Stale, ToSet, IsInjective
<1>2. SocketTypes
  BY AskedAssumption, LimitsAssumption DEF SocketInit, SocketTypes
<1>3. CurlInv
  BY <1>1, FS_EmptySet DEF SocketInit, CurlInv
<1>4. RestInv
  <2>1. PlacesInv /\ StaleInv /\ KeptInv
    BY <1>1 DEF SocketInit, PlacesInv, StaleInv, KeptInv
  <2>2. UnstartedInv /\ TablesInv
    BY <1>1 DEF SocketInit, UnstartedInv, TablesInv
  <2> QED BY <2>1, <2>2 DEF RestInv
<1>. QED BY <1>2, <1>3, <1>4 DEF SocketInv

(* A request that is loaded, or waits behind the others. *)
LEMMA LoadKeeps ==
  ASSUME SocketInv, NEW r \in Requesters \ Started,
         NEW queue \in Seq(Requesters), IsInjective(queue),
         ToSet(queue) \subseteq Pending \ {r},
         Pending \subseteq ToSet(queue) \cup {r} \cup expired,
         taken' = taken \cup {r},
         calls' \in 0..MaxCalls, pausedRequesters' \subseteq Requesters,
         Load(r, queue), UNCHANGED <<expired, dropped, answers>>
  PROVE  SocketInv'
<1>1. /\ taken' \subseteq Requesters /\ expired' \subseteq taken'
      /\ FirstId(r) \in Ids /\ FirstId(r).requester = r
  BY IdsOfRequesters DEF SocketInv, SocketTypes
<1>2. CASE /\ pendingRequesters' = Append(queue, r)
           /\ UNCHANGED <<tableVars, curlVars>>
  <2>1. /\ pendingRequesters' \in Seq(Requesters)
        /\ Pending' = ToSet(queue) \cup {r} /\ IsInjective(pendingRequesters')
    BY <1>2, AppendElements DEF Pending
  <2>2. CurlInv' /\ Loading' = Loading /\ Stale' = Stale
    BY <1>2 DEF curlVars, SocketInv, CurlInv, Loading, Stale
  <2>3. SocketTypes'
    BY <1>1, <1>2, <2>1 DEF SocketInv, SocketTypes, tableVars
  <2>4. /\ taken' \subseteq taken \cup Pending'
        /\ Pending' \subseteq Pending \cup (taken' \ taken)
        /\ Pending \subseteq Pending' \cup expired' \cup dropped'
    BY <2>1 DEF Started
  <2>5. RestInv'
    BY <1>1, <1>2, <2>1, <2>2, <2>4, NothingStarts DEF SocketInv, SocketTypes
  <2> QED BY <2>2, <2>3, <2>5 DEF SocketInv
<1>3. CASE /\ pendingRequesters' = queue
           /\ activeRequesters' = activeRequesters \cup {FirstId(r)}
           /\ Get(FirstId(r), loaded)
           /\ UNCHANGED <<redirects, redirectLists, responses, address>>
  <2>1. /\ \A id \in Loading \cup Stale : id.requester # r
        /\ descriptors \cup ToSet(loaded) \subseteq Loading \cup Stale
    BY DEF SocketInv, RestInv, PlacesInv, UnstartedInv, Loading, Stale
  <2>2. /\ CurlInv' /\ Stale' = Stale
        /\ Loading' = Loading \cup {FirstId(r)}
    <3>1. /\ FirstId(r) \notin descriptors
          /\ ToSet(loaded) \cap (descriptors \cup {FirstId(r)}) = {}
          /\ loaded \in Seq(Ids) /\ IsInjective(loaded) /\ CurlInv
      BY <1>1, <2>1 DEF SocketInv, CurlInv
    <3> QED BY <1>1, <1>3, <3>1, GetKeeps DEF Loading
  <2>3. SocketTypes'
    BY <1>1, <1>3 DEF SocketInv, SocketTypes
  <2>4. Pending' = ToSet(queue) /\ IsInjective(pendingRequesters')
    BY <1>3 DEF Pending
  <2>5. RestInv'
    <3>1. Loading \subseteq Ids
      BY InvImpliesTypes
    <3> QED
      BY <1>3, <2>2, <2>4, <3>1, OneStarts, AskedAssumption
      DEF SocketInv, SocketTypes
  <2> QED BY <2>2, <2>3, <2>5 DEF SocketInv
<1>. QED BY <1>2, <1>3 DEF Load

(* Nothing but libcurl and who waits. *)
LEMMA NothingLoadedKeeps ==
  ASSUME SocketInv, SocketTypes', CurlInv', Loading' = Loading, Stale' = Stale,
         IsInjective(pendingRequesters'),
         UNCHANGED <<taken, answers, tableVars>>,
         Pending' \subseteq Pending,
         Pending \subseteq Pending' \cup expired' \cup dropped',
         expired \subseteq expired', dropped \subseteq dropped'
  PROVE  SocketInv'
<1>1. RestInv'
  BY NothingStarts DEF SocketInv, SocketTypes
<1>. QED BY <1>1 DEF SocketInv

-----------------------------------------------------------------------------
(* One lemma for each action.                                              *)

(* A request comes in and is loaded or waits. *)
LEMMA HandleRequestKeeps ==
  ASSUME SocketInv, NEW r \in Requesters, HandleRequest(r)
  PROVE  SocketInv'
<1>1. /\ r \notin taken /\ taken' = taken \cup {r}
      /\ UNCHANGED pausedRequesters /\ Load(r, pendingRequesters)
      /\ UNCHANGED <<expired, calls, dropped, answers>>
  BY DEF HandleRequest
<1>2. /\ r \in Requesters \ Started /\ r \notin Pending
      /\ pendingRequesters \in Seq(Requesters)
      /\ IsInjective(pendingRequesters)
      /\ calls \in 0..MaxCalls /\ pausedRequesters \subseteq Requesters
  BY <1>1 DEF Started, SocketInv, SocketTypes, RestInv, PlacesInv
<1>. QED BY <1>1, <1>2, LoadKeeps DEF Pending

(* A requester expires wherever its request is. *)
LEMMA ExpireKeeps ==
  ASSUME SocketInv, NEW r \in Requesters, Expire(r)
  PROVE  SocketInv'
<1>1. /\ expired' = expired \cup {r} /\ r \in taken
      /\ UNCHANGED <<taken, calls, dropped, answers, waitVars, tableVars,
                     curlVars>>
  BY DEF Expire
<1>2. /\ CurlInv' /\ Loading' = Loading /\ Stale' = Stale
      /\ Pending' = Pending
  BY <1>1 DEF curlVars, waitVars, SocketInv, CurlInv, Loading, Stale, Pending
<1>3. SocketTypes' /\ IsInjective(pendingRequesters')
  BY <1>1 DEF SocketInv, SocketTypes, RestInv, PlacesInv, waitVars, tableVars
<1>. QED BY <1>1, <1>2, <1>3, NothingLoadedKeeps

(* Pausing moves no request. *)
LEMMA PauseKeeps ==
  ASSUME SocketInv, NEW rs \in SUBSET Requesters, PauseRequesters(rs)
  PROVE  SocketInv'
<1>1. /\ calls < MaxCalls /\ calls' = calls + 1
      /\ pausedRequesters' = pausedRequesters \cup rs
      /\ UNCHANGED <<taken, expired, dropped, answers, pendingRequesters,
                     tableVars, curlVars>>
  BY DEF PauseRequesters
<1>2. /\ CurlInv' /\ Loading' = Loading /\ Stale' = Stale
      /\ Pending' = Pending
  BY <1>1 DEF curlVars, SocketInv, CurlInv, Loading, Stale, Pending
<1>3. calls' \in 0..MaxCalls
  BY <1>1, LimitsAssumption DEF SocketInv, SocketTypes
<1>4. SocketTypes' /\ IsInjective(pendingRequesters')
  BY <1>1, <1>3 DEF SocketInv, SocketTypes, RestInv, PlacesInv, tableVars
<1>. QED BY <1>1, <1>2, <1>4, NothingLoadedKeeps

(* Unpausing may load a request that waits. *)
LEMMA UnpauseKeeps ==
  ASSUME SocketInv, NEW rs \in SUBSET Requesters, UnpauseRequesters(rs)
  PROVE  SocketInv'
<1> DEFINE ids == ActiveRequestIndexes(rs)
           first == FirstUnpaused(pausedRequesters')
           r == pendingRequesters[first]
<1>1. /\ calls < MaxCalls /\ calls' = calls + 1
      /\ pausedRequesters' = pausedRequesters \ rs
      /\ UNCHANGED <<taken, expired, dropped, answers>>
  BY DEF UnpauseRequesters
<1>2. /\ calls' \in 0..MaxCalls /\ pausedRequesters' \subseteq Requesters
      /\ pendingRequesters \in Seq(Requesters)
      /\ IsInjective(pendingRequesters)
  BY <1>1, LimitsAssumption DEF SocketInv, SocketTypes, RestInv, PlacesInv
<1>3. CASE /\ UNCHANGED <<pendingRequesters, tableVars, transfers>>
           /\ TimerCallback(descriptors, loaded, Cardinality(transfers))
  <2>1. /\ CurlInv' /\ Loading' = Loading /\ Stale' = Stale
    <3>1. /\ transfers' = transfers /\ Cardinality(transfers) \in Nat
          /\ descriptors \in SUBSET Ids
      BY <1>3, FS_CardinalityType DEF SocketInv, CurlInv
    <3> QED
      BY <1>3, <3>1, TimerCallbackKeeps
      DEF SocketInv, CurlInv, Loading, Stale
  <2>2. SocketTypes' /\ Pending' = Pending
    BY <1>1, <1>2, <1>3 DEF SocketInv, SocketTypes, tableVars, Pending
  <2> QED BY <1>1, <1>2, <1>3, <2>1, <2>2, NothingLoadedKeeps
<1>4. CASE UNCHANGED <<pendingRequesters, tableVars, curlVars>>
  <2>1. /\ CurlInv' /\ Loading' = Loading /\ Stale' = Stale
        /\ Pending' = Pending
    BY <1>4 DEF curlVars, SocketInv, CurlInv, Loading, Stale, Pending
  <2>2. SocketTypes'
    BY <1>1, <1>2, <1>4 DEF SocketInv, SocketTypes, tableVars
  <2> QED BY <1>1, <1>2, <1>4, <2>1, <2>2, NothingLoadedKeeps
<1>5. CASE first # 0 /\ Load(r, AfterExtraction(first))
  <2>1. first \in 1..Len(pendingRequesters)
    BY <1>2, <1>5, FirstUnpausedElement
  <2> HIDE DEF first
  <2>2. /\ r \in Requesters /\ r \in Pending
        /\ AfterExtraction(first) \in Seq(Requesters)
        /\ IsInjective(AfterExtraction(first))
        /\ ToSet(AfterExtraction(first)) \subseteq Pending \ {r}
        /\ Pending \subseteq {r} \cup ToSet(AfterExtraction(first)) \cup expired
    BY <1>2, <2>1, ExtractionElements
  <2> HIDE DEF r
  <2>3. r \in Requesters \ Started /\ taken' = taken \cup {r}
    BY <1>1, <2>2 DEF Started, SocketInv, RestInv, PlacesInv
  <2> QED BY <1>1, <1>2, <1>5, <2>2, <2>3, LoadKeeps
<1>6. CASE /\ pendingRequesters' = AfterExtraction(0)
           /\ UNCHANGED <<tableVars, curlVars>>
  <2>1. /\ CurlInv' /\ Loading' = Loading /\ Stale' = Stale
    BY <1>6 DEF curlVars, SocketInv, CurlInv, Loading, Stale
  <2>2. /\ pendingRequesters' \in Seq(Requesters)
        /\ IsInjective(pendingRequesters') /\ Pending' = Pending \ expired
    BY <1>2, <1>6, NothingExtracted DEF Pending
  <2>3. SocketTypes'
    BY <1>1, <1>2, <1>6, <2>2 DEF SocketInv, SocketTypes, tableVars
  <2> QED BY <1>1, <1>6, <2>1, <2>2, <2>3, NothingLoadedKeeps
<1>. QED BY <1>3, <1>4, <1>5, <1>6 DEF UnpauseRequesters

(* What is reset leaves its handle behind. *)
LEMMA ResetKeeps ==
  ASSUME SocketInv, NEW rs \in SUBSET Requesters, ResetRequesters(rs)
  PROVE  SocketInv'
<1> DEFINE ids == ActiveRequestIndexes(rs)
           removed == ids \cap descriptors
           left == Without(finished, removed)
<1>1. /\ calls < MaxCalls /\ calls' = calls + 1
      /\ dropped' = dropped \cup rs
      /\ pausedRequesters' = pausedRequesters \ rs
      /\ pendingRequesters' = Without(pendingRequesters, rs \cup expired)
      /\ activeRequesters' = activeRequesters \ ids
      /\ responses' = [r \in Requesters |->
                         IF FirstId(r) \in ids THEN <<>> ELSE responses[r]]
      /\ RemoveRequestIndexesChains(ids)
      /\ transfers' = transfers \ removed
      /\ \/ /\ finished' = left
            /\ UNCHANGED <<stillRunning, loaded, descriptors>>
         \/ /\ finished' = <<>>
            /\ loaded' = loaded \o left
            /\ descriptors' = descriptors \ ToSet(left)
            /\ stillRunning' = Cardinality(transfers')
      /\ UNCHANGED <<taken, expired, answers, address>>
  BY DEF ResetRequesters
<1>2. /\ pendingRequesters' \in Seq(Requesters)
      /\ Pending' = Pending \ (rs \cup expired)
      /\ IsInjective(pendingRequesters')
  BY <1>1, WithoutElements
  DEF SocketInv, SocketTypes, RestInv, PlacesInv, Pending
<1>3. /\ left \in Seq(Ids) /\ IsInjective(left)
      /\ ToSet(left) = ToSet(finished) \ removed
  BY WithoutElements DEF SocketInv, CurlInv
<1>4. removed \subseteq transfers \cup ToSet(finished)
  BY IndexesAreAlive DEF SocketInv, SocketTypes, CurlInv, RestInv
<1>5. /\ IsFiniteSet(transfers')
      /\ IsFiniteSet(transfers') => Cardinality(transfers') \in Nat
  BY <1>1, FS_Difference, FS_CardinalityType DEF SocketInv, CurlInv
<1> HIDE DEF removed, left
<1>6. /\ CurlInv' /\ Loading' = Loading \ removed
      /\ Stale' = Stale \cup removed
  <2>1. CASE /\ finished' = left
             /\ UNCHANGED <<stillRunning, loaded, descriptors>>
    <3>1. ToSet(finished') = ToSet(finished) \ removed
      BY <1>3, <2>1
    <3>2. removed \subseteq descriptors
      BY DEF removed
    <3> QED
      BY <1>1, <1>3, <1>4, <1>5, <2>1, <3>1, <3>2
      DEF SocketInv, CurlInv, Loading, Stale
  <2>2. CASE /\ finished' = <<>>
             /\ loaded' = loaded \o left
             /\ descriptors' = descriptors \ ToSet(left)
             /\ stillRunning' = Cardinality(transfers')
    <3>1. /\ finished' \in Seq(Ids) /\ ToSet(finished') = {}
          /\ IsInjective(finished')
      BY <2>2 DEF ToSet, IsInjective
    <3>2. /\ loaded' \in Seq(Ids) /\ IsInjective(loaded')
          /\ ToSet(loaded') = ToSet(loaded) \cup ToSet(left)
      <4>1. /\ ToSet(loaded) \cap ToSet(left) = {} /\ loaded \in Seq(Ids)
            /\ IsInjective(loaded)
        BY <1>3 DEF SocketInv, CurlInv
      <4> QED BY <1>3, <2>2, <4>1, ConcatElements
    <3>3. removed \subseteq descriptors
      BY DEF removed
    <3> QED
      BY <1>1, <1>3, <1>4, <1>5, <2>2, <3>1, <3>2, <3>3
      DEF SocketInv, CurlInv, Loading, Stale
  <2> QED BY <1>1, <2>1, <2>2
<1>7. SocketTypes'
  <2>1. calls' \in 0..MaxCalls
    BY <1>1, LimitsAssumption DEF SocketInv, SocketTypes
  <2>2. redirects' \subseteq redirects /\ redirectLists' \subseteq redirectLists
    BY <1>1 DEF RemoveRequestIndexesChains
  <2>3. responses' \in [Requesters -> Seq(Urls)]
    BY <1>1 DEF SocketInv, SocketTypes
  <2> QED BY <1>1, <1>2, <2>1, <2>2, <2>3 DEF SocketInv, SocketTypes
<1>8. RestInv'
  <2>1. /\ Loading \subseteq Ids /\ descriptors \subseteq Ids
    BY InvImpliesTypes DEF SocketInv, CurlInv
  <2>2. removed = ids \cap descriptors
    BY DEF removed
  <2> HIDE DEF ids
  <2>3. ids = ActiveRequestIndexes(rs)
    BY DEF ids
  <2> QED
    BY <1>1, <1>2, <1>6, <2>1, <2>2, <2>3, SomeAreReset
    DEF SocketInv, SocketTypes
<1>. QED BY <1>6, <1>7, <1>8 DEF SocketInv

(* A reset that hangs has taken away what it was asked to, up to the one   *)
(* it looks for, and who has expired.                                      *)
LEMMA HangKeeps ==
  ASSUME SocketInv, NEW rs \in SUBSET Requesters, NEW done \in SUBSET rs,
         ResetHangs(rs, done)
  PROVE  SocketInv'
<1> DEFINE left == Without(pendingRequesters, done \cup expired)
<1>1. /\ left \in Seq(Requesters) /\ IsInjective(left)
      /\ ToSet(left) = Pending \ (done \cup expired)
  BY WithoutElements DEF SocketInv, SocketTypes, RestInv, PlacesInv, Pending
<1>2. PICK next \in rs \ done, i \in DOMAIN left :
        /\ expired' = expired \cup {left[i]}
        /\ pausedRequesters' = pausedRequesters \ (done \cup {next})
  BY DEF ResetHangs
<1>3. /\ calls < MaxCalls /\ calls' = calls + 1
      /\ pendingRequesters' = left
      /\ dropped' = dropped \cup rs
      /\ UNCHANGED <<taken, answers, tableVars, curlVars>>
  BY DEF ResetHangs
<1>4. left[i] \in ToSet(left)
  BY <1>1 DEF ToSet
<1>5. left[i] \in taken
  BY <1>1, <1>4 DEF SocketInv, RestInv, PlacesInv
<1> HIDE DEF left
<1>6. /\ CurlInv' /\ Loading' = Loading /\ Stale' = Stale
      /\ Pending' = Pending \ (done \cup expired)
  BY <1>1, <1>3 DEF curlVars, SocketInv, CurlInv, Loading, Stale, Pending
<1>7. calls' \in 0..MaxCalls
  BY <1>3, LimitsAssumption DEF SocketInv, SocketTypes
<1>8. SocketTypes' /\ IsInjective(pendingRequesters')
  BY <1>1, <1>2, <1>3, <1>5, <1>7 DEF SocketInv, SocketTypes, tableVars
<1>9. Pending \subseteq Pending' \cup expired' \cup dropped'
  BY <1>2, <1>3, <1>6
<1>. QED BY <1>2, <1>3, <1>6, <1>8, <1>9, NothingLoadedKeeps

(* A transfer ends and waits to be announced. *)
LEMMA FinishKeeps ==
  ASSUME SocketInv, NEW id \in transfers, Finish(id)
  PROVE  SocketInv'
<1>1. /\ transfers' = transfers \ {id}
      /\ finished' = Append(finished, id)
      /\ UNCHANGED <<callVars, answers, waitVars, tableVars, descriptors,
                     stillRunning, loaded>>
  BY DEF Finish
<1>2. /\ finished' \in Seq(Ids) /\ IsInjective(finished')
      /\ ToSet(finished') = ToSet(finished) \cup {id}
  BY <1>1, AppendElements DEF SocketInv, CurlInv
<1>3. IsFiniteSet(transfers')
  BY <1>1, FS_RemoveElement DEF SocketInv, CurlInv
<1>4. CurlInv' /\ Loading' = Loading /\ Stale' = Stale
  BY <1>1, <1>2, <1>3 DEF SocketInv, CurlInv, Loading, Stale
<1>5. /\ SocketTypes' /\ IsInjective(pendingRequesters')
      /\ Pending' = Pending
  BY <1>1
  DEF SocketInv, SocketTypes, RestInv, PlacesInv, Pending, callVars, waitVars,
      tableVars
<1>. QED BY <1>1, <1>4, <1>5, NothingLoadedKeeps DEF callVars

(* What has ended is announced by the timer. *)
LEMMA TimerEventKeeps ==
  ASSUME SocketInv, TimerEvent
  PROVE  SocketInv'
<1>1. /\ stillRunning' = Cardinality(transfers)
      /\ CheckMultiInfo(descriptors, loaded)
      /\ UNCHANGED <<callVars, answers, waitVars, tableVars, transfers>>
  BY DEF TimerEvent
<1>2. CurlInv' /\ Loading' = Loading /\ Stale' = Stale
  <2>1. /\ transfers' = transfers /\ stillRunning' \in Nat
        /\ descriptors \in SUBSET Ids
    BY <1>1, FS_CardinalityType DEF SocketInv, CurlInv
  <2> QED
    BY <1>1, <2>1, EndsAreAnnounced DEF SocketInv, CurlInv, Loading, Stale
<1>3. /\ SocketTypes' /\ IsInjective(pendingRequesters')
      /\ Pending' = Pending
  BY <1>1
  DEF SocketInv, SocketTypes, RestInv, PlacesInv, Pending, callVars, waitVars,
      tableVars
<1>. QED BY <1>1, <1>2, <1>3, NothingLoadedKeeps DEF callVars

(* What has ended is announced, and one more request may be loaded. *)
LEMMA DoActionKeeps ==
  ASSUME SocketInv, DoAction
  PROVE  SocketInv'
<1> DEFINE count == Cardinality(transfers)
           first == FirstUnpaused(pausedRequesters)
           r == pendingRequesters[first]
           wakes == count # stillRunning /\ count < MaxParallel
<1>1. UNCHANGED <<taken, expired, calls, dropped, answers, pausedRequesters,
                  redirects, redirectLists, responses, address>>
  BY DEF DoAction, callVars
<1>2. /\ pendingRequesters \in Seq(Requesters)
      /\ IsInjective(pendingRequesters)
      /\ count \in Nat /\ descriptors \in SUBSET Ids
      /\ IsFiniteSet(transfers)
  BY FS_CardinalityType DEF SocketInv, SocketTypes, CurlInv, RestInv, PlacesInv
<1>3. CASE wakes /\ first # 0
  <2>1. /\ pendingRequesters' = AfterExtraction(first)
        /\ activeRequesters' = activeRequesters \cup {FirstId(r)}
        /\ transfers' = transfers \cup {FirstId(r)}
        /\ stillRunning' \in {count, count + 1}
        /\ CheckMultiInfo(descriptors \cup {FirstId(r)}, loaded)
    BY <1>3 DEF DoAction
  <2>2. first \in 1..Len(pendingRequesters)
    BY <1>2, <1>3, FirstUnpausedElement
  <2> HIDE DEF first
  <2>3. /\ r \in Requesters /\ r \in Pending
        /\ AfterExtraction(first) \in Seq(Requesters)
        /\ IsInjective(AfterExtraction(first))
        /\ ToSet(AfterExtraction(first)) \subseteq Pending \ {r}
        /\ Pending \subseteq {r} \cup ToSet(AfterExtraction(first)) \cup expired
    BY <1>2, <2>2, ExtractionElements
  <2> HIDE DEF r, count, wakes
  <2>4. r \in Requesters \ Started /\ taken' = taken \cup {r}
    BY <1>1, <2>3 DEF Started, SocketInv, RestInv, PlacesInv
  <2>5. /\ FirstId(r) \in Ids
        /\ FirstId(r) \notin descriptors /\ FirstId(r) \notin ToSet(loaded)
    <3>1. /\ \A id \in Loading \cup Stale : id.requester # r
          /\ descriptors \cup ToSet(loaded) \subseteq Loading \cup Stale
      BY <2>4
      DEF SocketInv, RestInv, PlacesInv, UnstartedInv, Loading, Stale
    <3> QED BY <2>3, <3>1, IdsOfRequesters
  <2>6. /\ CurlInv' /\ Stale' = Stale
        /\ Loading' = Loading \cup {FirstId(r)}
    <3>1. /\ descriptors \cup {FirstId(r)} \in SUBSET Ids
          /\ ToSet(loaded) \cap (descriptors \cup {FirstId(r)}) = {}
          /\ IsFiniteSet(transfers')
          /\ transfers' \subseteq descriptors \cup {FirstId(r)}
          /\ ToSet(finished)
               \subseteq (descriptors \cup {FirstId(r)}) \ transfers'
          /\ stillRunning' \in Nat
      BY <1>2, <2>1, <2>5, FS_AddElement DEF SocketInv, CurlInv
    <3>2. /\ CurlInv'
          /\ Loading' = transfers' \cup ToSet(finished) \cup ToSet(loaded)
          /\ Stale' = (descriptors \cup {FirstId(r)})
                        \ (transfers' \cup ToSet(finished))
      BY <2>1, <3>1, EndsAreAnnounced DEF SocketInv, CurlInv
    <3> QED BY <2>1, <2>5, <3>2 DEF Loading, Stale
  <2>7. SocketTypes'
    BY <1>1, <2>1, <2>3 DEF SocketInv, SocketTypes
  <2>8. RestInv'
    <3>1. Loading \subseteq Ids /\ Pending' = ToSet(AfterExtraction(first))
      BY <2>1, InvImpliesTypes DEF Pending
    <3> QED
      BY <1>1, <2>1, <2>3, <2>4, <2>6, <3>1, OneStarts, AskedAssumption
      DEF SocketInv, SocketTypes
  <2> QED BY <2>6, <2>7, <2>8 DEF SocketInv
<1>4. CASE ~(wakes /\ first # 0)
  <2>1. /\ stillRunning' = count
        /\ CheckMultiInfo(descriptors, loaded)
        /\ UNCHANGED <<activeRequesters, transfers>>
        /\ \/ pendingRequesters' = pendingRequesters
           \/ pendingRequesters' = AfterExtraction(0)
    BY <1>4 DEF DoAction
  <2> HIDE DEF count, first, wakes
  <2>2. CurlInv' /\ Loading' = Loading /\ Stale' = Stale
    BY <1>2, <2>1, EndsAreAnnounced DEF SocketInv, CurlInv, Loading, Stale
  <2>3. /\ pendingRequesters' \in Seq(Requesters)
        /\ IsInjective(pendingRequesters') /\ Pending' \subseteq Pending
        /\ Pending \subseteq Pending' \cup expired
    BY <1>2, <2>1, NothingExtracted DEF Pending
  <2>4. SocketTypes'
    BY <1>1, <2>1, <2>3 DEF SocketInv, SocketTypes
  <2> QED
    BY <1>1, <2>1, <2>2, <2>3, <2>4, NothingLoadedKeeps DEF tableVars
<1>. QED BY <1>3, <1>4

(* The chain answered is of addresses. *)
LEMMA ChainOfUrls ==
  ASSUME SocketInv, NEW id \in Ids
  PROVE  Chain(id) \in Seq(Urls) /\ Len(Chain(id)) > 0
<1>1. /\ responses[id.requester] \in Seq(Urls)
      /\ address[id.requester] \in Urls
  BY IdsOfRequesters DEF SocketInv, SocketTypes
<1>. QED BY <1>1 DEF Chain

(* The queued slot redirects, answers or forgets what it is called for. *)
LEMMA OnUrlLoadedKeeps ==
  ASSUME SocketInv, OnUrlLoaded
  PROVE  SocketInv'
<1> DEFINE id == Head(loaded)  r == id.requester
<1>1. /\ loaded # <<>>
      /\ UNCHANGED <<taken, expired, calls, dropped, pendingRequesters>>
  BY DEF OnUrlLoaded, callVars
<1>2. /\ id \in Ids /\ id \in Loading /\ id \notin descriptors
      /\ Tail(loaded) \in Seq(Ids) /\ IsInjective(Tail(loaded))
      /\ ToSet(Tail(loaded)) = ToSet(loaded) \ {id}
  BY <1>1, LoadedIsTaken DEF SocketInv
<1>3. /\ CurlInv /\ RestInv /\ Loading \subseteq Ids
      /\ r \in Requesters
  BY <1>2, IdsOfRequesters, InvImpliesTypes DEF SocketInv
<1>4. transfers \cup ToSet(finished) \cup ToSet(Tail(loaded)) = Loading \ {id}
  BY <1>2, <1>3 DEF CurlInv, Loading
<1>5. ASSUME /\ loaded' = Tail(loaded)
             /\ UNCHANGED <<descriptors, transfers, finished, stillRunning>>
      PROVE  CurlInv' /\ Loading' = Loading \ {id} /\ Stale' = Stale
  <2>1. Loading' = Loading \ {id} /\ Stale' = Stale
    BY <1>4, <1>5 DEF Loading, Stale
  <2> QED BY <1>2, <1>3, <1>5, <2>1 DEF CurlInv
<1>6. ASSUME ForgetLoaded(id), answers' \in [Requesters -> Seq(Seq(Urls))],
             pausedRequesters' \subseteq Requesters
      PROVE  SocketTypes'
  <2>1. /\ activeRequesters' \subseteq activeRequesters
        /\ redirects' \subseteq redirects
        /\ redirectLists' \subseteq redirectLists
        /\ responses' = [responses EXCEPT
                           ![r] = IF Root(id).hop = 1 THEN <<>> ELSE @]
        /\ UNCHANGED address
    BY <1>6 DEF ForgetLoaded, RemoveRequestIndexesChains
  <2>2. responses' \in [Requesters -> Seq(Urls)]
    BY <1>3, <2>1 DEF SocketInv, SocketTypes
  <2> QED BY <1>1, <1>6, <2>1, <2>2 DEF SocketInv, SocketTypes
<1>7. CASE ~RequesterFound(id) /\ DropLoaded(id)
  <2>1. /\ ForgetLoaded(id) /\ UNCHANGED <<answers, pausedRequesters>>
        /\ CurlInv' /\ Loading' = Loading \ {id} /\ Stale' = Stale
    BY <1>5, <1>7 DEF DropLoaded
  <2>2. SocketTypes'
    BY <1>6, <2>1 DEF SocketInv, SocketTypes
  <2> HIDE DEF id
  <2>3. RestInv'
    BY <1>1, <1>2, <1>3, <1>7, <2>1, OneIsForgotten DEF SocketInv, SocketTypes
  <2> QED BY <2>1, <2>2, <2>3 DEF SocketInv
<1>8. CASE RequesterFound(id) /\ PostResponse(id)
  <2>1. /\ ForgetLoaded(id)
        /\ answers' = [answers EXCEPT ![r] = Append(@, Chain(id))]
        /\ pausedRequesters' \subseteq pausedRequesters
        /\ CurlInv' /\ Loading' = Loading \ {id} /\ Stale' = Stale
    BY <1>5, <1>8 DEF PostResponse
  <2>2. answers' \in [Requesters -> Seq(Seq(Urls))]
    BY <1>2, <1>3, <2>1, ChainOfUrls DEF SocketInv, SocketTypes
  <2>3. SocketTypes'
    BY <1>6, <2>1, <2>2 DEF SocketInv, SocketTypes
  <2> HIDE DEF id
  <2>4. RestInv'
    BY <1>1, <1>2, <1>3, <1>8, <2>1, OneIsForgotten DEF SocketInv, SocketTypes
  <2> QED BY <2>1, <2>3, <2>4 DEF SocketInv
<1>9. ASSUME NEW target \in Urls, FollowLocation(id, target)
      PROVE  SocketInv'
  <2>1. /\ redirects' = redirects \cup {NextId(id)}
        /\ redirectLists' = redirectLists \cup {id}
        /\ address' = [address EXCEPT ![r] = target]
        /\ responses' = [responses EXCEPT ![r] = Chain(id)]
        /\ Get(NextId(id), Tail(loaded))
        /\ UNCHANGED <<answers, pausedRequesters, activeRequesters>>
    BY <1>9 DEF FollowLocation
  <2>2. /\ NextId(id) \in Ids /\ NextId(id).requester = r
        /\ NextId(id).hop = id.hop + 1 /\ id.hop \in Nat
    BY <1>2, IdsOfRequesters
  <2> HIDE DEF id
  <2>3. NextId(id) # id
    BY <2>2
  <2>4. NextId(id) \notin Loading /\ NextId(id) \notin Stale
    BY <1>2, <1>3, <2>2, <2>3 DEF RestInv, PlacesInv, StaleInv
  <2>5. NextId(id) \notin descriptors /\ NextId(id) \notin ToSet(loaded)
    BY <2>4 DEF Loading, Stale
  <2>6. ToSet(Tail(loaded)) \cap (descriptors \cup {NextId(id)}) = {}
    BY <1>2, <1>3, <2>5 DEF CurlInv
  <2>7. /\ CurlInv' /\ Stale' = Stale
        /\ Loading' = (Loading \ {id}) \cup {NextId(id)}
    BY <1>2, <1>3, <1>4, <2>1, <2>2, <2>5, <2>6, GetKeeps
  <2>8. SocketTypes'
    <3>1. Chain(id) \in Seq(Urls)
      BY <1>2, ChainOfUrls
    <3>2. /\ address' \in [Requesters -> Urls]
          /\ responses' \in [Requesters -> Seq(Urls)]
      BY <1>3, <2>1, <3>1 DEF SocketInv, SocketTypes
    <3> QED BY <1>1, <1>2, <2>1, <2>2, <3>2 DEF SocketInv, SocketTypes
  <2>9. RestInv'
    BY <1>1, <1>2, <1>3, <2>1, <2>7, OneIsRedirected
    DEF SocketInv, SocketTypes
  <2> QED BY <2>7, <2>8, <2>9 DEF SocketInv
<1>10. ASSUME RequesterFound(id), NEW target \in Urls \cup {NoRedirect},
              IF Follows(Chain(id), target) THEN FollowLocation(id, target)
                                            ELSE PostResponse(id)
       PROVE  SocketInv'
  <2>1. CASE Follows(Chain(id), target)
    BY <1>9, <1>10, <2>1 DEF Follows
  <2>2. CASE ~Follows(Chain(id), target)
    BY <1>8, <1>10, <2>2
  <2> QED BY <2>1, <2>2
<1>. QED BY <1>7, <1>10 DEF OnUrlLoaded

-----------------------------------------------------------------------------
(* Theorems.                                                               *)

(* The invariant is inductive. *)
LEMMA InvIsKept == SocketInv /\ [SocketNext]_socketVars => SocketInv'
<1> SUFFICES ASSUME SocketInv, [SocketNext]_socketVars
             PROVE  SocketInv'
  OBVIOUS
<1>1. CASE UNCHANGED socketVars
  <2>1. UNCHANGED <<callVars, answers, waitVars, tableVars, curlVars>>
    BY <1>1 DEF socketVars
  <2>2. UNCHANGED <<taken, expired, calls, dropped, answers, pausedRequesters,
                    pendingRequesters>>
    BY <2>1 DEF callVars, waitVars
  <2>3. /\ CurlInv' /\ Loading' = Loading /\ Stale' = Stale
        /\ Pending' = Pending
    BY <2>1, <2>2 DEF curlVars, SocketInv, CurlInv, Loading, Stale, Pending
  <2>4. SocketTypes' /\ IsInjective(pendingRequesters')
    BY <2>1, <2>2 DEF SocketInv, SocketTypes, RestInv, PlacesInv, tableVars
  <2> QED BY <2>1, <2>2, <2>3, <2>4, NothingLoadedKeeps
<1>. QED
  BY <1>1, HandleRequestKeeps, ExpireKeeps, PauseKeeps, UnpauseKeeps,
     ResetKeeps, HangKeeps, FinishKeeps, TimerEventKeeps, DoActionKeeps,
     OnUrlLoadedKeeps
  DEF SocketNext, HandlerThread

(* The invariant holds from the start. *)
LEMMA InvHolds == SocketSpec => []SocketInv
<1>. QED BY SocketInitInv, InvIsKept, PTL DEF SocketSpec

(* Every variable of the handler and the loader keeps its type, and what   *)
(* has ended keeps its descriptor until it is announced.                   *)
THEOREM SocketIsTyped == SocketSpec => []SocketTypeOK
<1>1. SocketInv /\ hung \in BOOLEAN => SocketTypeOK
  BY InvImpliesTypes
<1>2. SocketInit => hung \in BOOLEAN
  BY DEF SocketInit
<1>3. hung \in BOOLEAN /\ [SocketNext]_socketVars => (hung \in BOOLEAN)'
  BY DEF SocketNext, HandlerThread, HandleRequest, Expire, PauseRequesters,
         UnpauseRequesters, ResetRequesters, ResetHangs, Finish, TimerEvent,
         DoAction, OnUrlLoaded, socketVars, callVars
<1>4. SocketSpec => [](hung \in BOOLEAN)
  BY <1>2, <1>3, PTL DEF SocketSpec
<1>. QED BY <1>1, <1>4, InvHolds, PTL

(* Pause, unpause and reset never reach a handle that resetConnection has  *)
(* cleaned up, whatever was redirected, reset and announced before.        *)
THEOREM HandlesStayAlive == SocketSpec => []HandlesAlive
<1>1. SocketInv => HandlesAlive
  BY IndexesAreAlive
  DEF SocketInv, SocketTypes, CurlInv, RestInv, HandlesAlive
<1>. QED BY <1>1, InvHolds, PTL

(* A transfer is known by its id to pause, unpause and reset until its     *)
(* request has been redirected twice.                                      *)
THEOREM TransfersStayKnown == SocketSpec => []TransfersAreKnown
<1>1. ASSUME SocketInv, NEW id \in transfers,
             id.requester \in Undropped, id.hop <= 2
      PROVE  id \in ActiveRequestIndexes({id.requester})
  <2> DEFINE r == id.requester
  <2>1. id \in Loading /\ id \in Ids
    BY <1>1, InvImpliesTypes DEF Loading
  <2>2. r \in taken /\ r \notin expired /\ r \in Requesters
    BY <1>1, <2>1
    DEF SocketInv, RestInv, PlacesInv, Started, Undropped
  <2>3. /\ FirstId(r) \in activeRequesters
        /\ FirstId(r) \in redirectLists <=> id.hop # 1
    BY <1>1, <2>1, <2>2 DEF SocketInv, RestInv, KeptInv
  <2>4. /\ FirstId(r) \in Ids /\ FirstId(r).requester = r
        /\ FirstId(r).hop = 1 /\ SecondId(r) \in Ids
        /\ SecondId(r).requester = r /\ SecondId(r).hop = 2
        /\ id.hop \in Nat \ {0}
    BY <2>1, <2>2, IdsOfRequesters
  <2>5. id = IF FirstId(r) \in redirectLists THEN NextId(FirstId(r))
                                             ELSE FirstId(r)
    BY <1>1, <2>1, <2>3, <2>4, IdsOfRequesters DEF SecondId
  <2> QED BY <2>2, <2>3, <2>4, <2>5 DEF ActiveRequestIndexes
<1>2. SocketInv => TransfersAreKnown
  BY <1>1 DEF TransfersAreKnown
<1>. QED BY <1>2, InvHolds, PTL

(* How often a list without repetitions has an element. *)
LEMMA TimesOfElement ==
  ASSUME NEW S, NEW s \in Seq(S), IsInjective(s), NEW u
  PROVE  TimesIn(u, s) = IF u \in ToSet(s) THEN 1 ELSE 0
<1> DEFINE places == {i \in DOMAIN s : s[i] = u}
<1>1. CASE u \in ToSet(s)
  <2>1. PICK i \in DOMAIN s : s[i] = u
    BY <1>1 DEF ToSet
  <2>2. places = {i}
    BY <2>1 DEF IsInjective
  <2>3. TimesIn(u, s) = 1
    BY <2>2, FS_Singleton DEF TimesIn
  <2> QED BY <1>1, <2>3
<1>2. CASE u \notin ToSet(s)
  <2>1. places = {}
    BY <1>2 DEF ToSet
  <2>2. TimesIn(u, s) = 0
    BY <2>1, FS_EmptySet DEF TimesIn
  <2> QED BY <1>2, <2>2
<1>. QED BY <1>1, <1>2

(* A request that nobody has dropped or had reset is waiting, or being     *)
(* loaded under one id that leads back to m_activeRequesters, or answered  *)
(* and forgotten: exactly one of them, after any pauses, redirects and     *)
(* resets of others.                                                       *)
THEOREM NoRequestGoesMissing == SocketSpec => []NoRequestIsLost
<1>1. ASSUME SocketInv, NEW r \in Undropped \cap taken
      PROVE  NoRequestIsLost!(r)
  <2> DEFINE ids == {id \in Loading : id.requester = r}
  <2>1. /\ r \in Requesters /\ r \notin expired
        /\ Loading \subseteq Ids /\ redirects \subseteq Ids
        /\ \A p \in redirects : p.hop # 1
    BY <1>1, InvImpliesTypes
    DEF Undropped, SocketInv, SocketTypes, RestInv, TablesInv
  <2>2. TimesIn(r, pendingRequesters) = IF r \in Pending THEN 1 ELSE 0
    BY <1>1, TimesOfElement
    DEF SocketInv, SocketTypes, RestInv, PlacesInv, Pending
  <2>3. answers[r] = <<>> => Len(answers[r]) = 0
    OBVIOUS
  <2>4. ASSUME NEW id \in ids
        PROVE  /\ FirstId(r) \in activeRequesters
               /\ RedirectedTo(id) \subseteq redirects
               /\ r \in Started /\ answers[r] = <<>> /\ ids = {id}
    BY <1>1 DEF SocketInv, RestInv, PlacesInv, KeptInv
  <2>5. \A id \in ids : RequesterFound(id) /\ Root(id) = FirstId(r)
    <3> SUFFICES ASSUME NEW id \in ids
                 PROVE  RequesterFound(id) /\ Root(id) = FirstId(r)
      OBVIOUS
    <3>1. id \in Ids /\ id.requester = r /\ RedirectedTo(id) \subseteq redirects
      BY <2>1, <2>4
    <3>2. Root(id) = FirstId(r)
      BY <2>1, <3>1, RootWithoutGap
    <3> QED BY <2>1, <2>4, <3>1, <3>2 DEF RequesterFound
  <2>6. ids = {} => r \in Pending \/ answers[r] # <<>>
    BY <1>1 DEF SocketInv, RestInv, KeptInv
  <2>7. /\ answers[r] # <<>> => r \in Started /\ Len(answers[r]) = 1
        /\ r \in Started => r \notin Pending
    BY <1>1, <2>1 DEF SocketInv, RestInv, PlacesInv, Started
  <2>8. ids = {} => /\ FirstId(r) \notin activeRequesters
                    /\ responses[r] = <<>>
                    /\ \A id \in redirects : id.requester # r
    <3>1. CASE answers[r] # <<>>
      BY <1>1, <3>1 DEF SocketInv, RestInv, KeptInv
    <3>2. CASE r \in Pending
      <4>1. r \in Requesters \ Started
        BY <2>1, <2>7, <3>2
      <4> QED BY <1>1, <4>1 DEF SocketInv, RestInv, UnstartedInv
    <3> QED BY <2>6, <3>1, <3>2
  <2>9. Cardinality(ids) + Len(answers[r]) + TimesIn(r, pendingRequesters) = 1
    <3>1. CASE ids = {}
      <4>1. Cardinality(ids) = 0
        BY <3>1, FS_EmptySet
      <4>2. CASE answers[r] # <<>>
        <5>1. Len(answers[r]) = 1 /\ TimesIn(r, pendingRequesters) = 0
          BY <2>2, <2>7, <4>2
        <5> QED BY <4>1, <5>1
      <4>3. CASE answers[r] = <<>>
        <5>1. Len(answers[r]) = 0 /\ TimesIn(r, pendingRequesters) = 1
          BY <2>2, <2>3, <2>6, <3>1, <4>3
        <5> QED BY <4>1, <5>1
      <4> QED BY <4>2, <4>3
    <3>2. ASSUME NEW id \in ids
          PROVE  Cardinality(ids) + Len(answers[r])
                   + TimesIn(r, pendingRequesters) = 1
      <4>1. Cardinality(ids) = 1
        BY <2>4, FS_Singleton
      <4>2. answers[r] = <<>> /\ r \notin Pending
        BY <2>4, <2>7
      <4> HIDE DEF ids
      <4> QED BY <2>2, <2>3, <4>1, <4>2
    <3> QED BY <3>1, <3>2
  <2> QED BY <2>5, <2>8, <2>9
<1>2. SocketInv => NoRequestIsLost
  BY <1>1 DEF NoRequestIsLost
<1>. QED BY <1>2, InvHolds, PTL

(* Whom onUrlLoaded finds has the page asked for first in its chain, and   *)
(* has not been answered.                                                  *)
LEMMA FoundChain ==
  ASSUME SocketInv, NEW id \in Loading, RequesterFound(id)
  PROVE  /\ id.requester \in Requesters /\ id.requester \in taken
         /\ answers[id.requester] = <<>>
         /\ Chain(id) \in Seq(Urls) \ {<<>>}
         /\ Chain(id)[1] = Asked[id.requester]
<1> DEFINE r == id.requester
<1>1. /\ id \in Ids /\ r \in Requesters /\ FirstId(r).requester = r
      /\ Root(id).requester = r
  BY InvImpliesTypes, IdsOfRequesters, RootOfRequester
<1>2. r \in taken /\ answers[r] = <<>>
  BY DEF SocketInv, RestInv, PlacesInv, Started
<1>3. Chain(id) \in Seq(Urls) /\ Len(Chain(id)) > 0
  BY <1>1, ChainOfUrls
<1>4. FirstId(r) \in activeRequesters
  <2>1. PICK first \in activeRequesters : first.requester = r
    BY <1>1 DEF RequesterFound
  <2>2. PICK q \in Requesters : first = FirstId(q)
    BY DEF SocketInv, SocketTypes
  <2> QED BY <2>1, <2>2, IdsOfRequesters
<1>5. Chain(id) = Chain(FirstId(r))
  BY <1>1 DEF Chain
<1>. QED BY <1>1, <1>2, <1>3, <1>4, <1>5 DEF SocketInv, RestInv, TablesInv

(* The handler implements Downloads: each request is answered at most      *)
(* once, by a chain that begins with the page asked for, also when         *)
(* redirects are loaded under ids of their own and requests are paused,    *)
(* reset or dropped at any time.                                           *)
THEOREM RequestsAreAnsweredOnce == SocketSpec => SocketDownloadsSpec
<1>1. SocketInit => SocketPromise!Init
  BY DEF SocketInit, SocketPromise!Init
<1>2. SocketInv /\ [SocketNext]_socketVars
        => [SocketPromise!Next]_(SocketPromise!vars)
  <2> SUFFICES ASSUME SocketInv, [SocketNext]_socketVars
               PROVE  [SocketPromise!Next]_(SocketPromise!vars)
    OBVIOUS
  <2>1. CASE UNCHANGED <<taken, answers>>
    BY <2>1 DEF SocketPromise!vars
  <2>2. ASSUME NEW r \in Requesters, HandleRequest(r)
        PROVE  SocketPromise!Next
    BY <2>2 DEF HandleRequest, SocketPromise!Next, SocketPromise!Take
  <2>3. ASSUME RequesterFound(Head(loaded)), loaded # <<>>, UNCHANGED taken,
               PostResponse(Head(loaded))
        PROVE  SocketPromise!Next
    <3> DEFINE id == Head(loaded)  r == id.requester
    <3>1. id \in Loading
      BY <2>3, LoadedIsTaken DEF SocketInv
    <3> HIDE DEF id
    <3>2. /\ r \in Requesters /\ r \in taken /\ answers[r] = <<>>
          /\ Chain(id) \in Seq(Urls) \ {<<>>} /\ Chain(id)[1] = Asked[r]
      BY <2>3, <3>1, FoundChain DEF id
    <3>3. answers' = [answers EXCEPT ![r] = <<Chain(id)>>]
      BY <2>3, <3>2 DEF PostResponse, id
    <3>4. answers'[r] = <<Chain(id)>>
      BY <3>2, <3>3 DEF SocketInv, SocketTypes
    <3>5. Len(answers'[r]) = 1 /\ answers'[r][1] = Chain(id)
      BY <3>4
    <3>6. SocketPromise!Answer(r)
      BY <2>3, <3>2, <3>3, <3>5 DEF SocketPromise!Answer
    <3> QED BY <3>2, <3>6 DEF SocketPromise!Next
  <2>4. ASSUME OnUrlLoaded
        PROVE  \/ UNCHANGED <<taken, answers>>
               \/ SocketPromise!Next
    BY <2>3, <2>4 DEF OnUrlLoaded, callVars, DropLoaded, FollowLocation
  <2>5. ASSUME NEW r \in Requesters, Expire(r)
        PROVE  UNCHANGED <<taken, answers>>
    BY <2>5 DEF Expire
  <2>6. ASSUME NEW rs \in SUBSET Requesters,
               PauseRequesters(rs) \/ UnpauseRequesters(rs) \/ ResetRequesters(rs)
        PROVE  UNCHANGED <<taken, answers>>
    BY <2>6 DEF PauseRequesters, UnpauseRequesters, ResetRequesters
  <2>7. ASSUME NEW rs \in SUBSET Requesters, NEW done \in SUBSET rs,
               ResetHangs(rs, done)
        PROVE  UNCHANGED <<taken, answers>>
    BY <2>7 DEF ResetHangs
  <2>8. ASSUME \/ \E id \in transfers : Finish(id)
               \/ TimerEvent \/ DoAction \/ UNCHANGED socketVars
        PROVE  UNCHANGED <<taken, answers>>
    BY <2>8 DEF Finish, TimerEvent, DoAction, socketVars, callVars
  <2> QED
    BY <2>1, <2>2, <2>4, <2>5, <2>6, <2>7, <2>8 DEF SocketNext, HandlerThread
<1>. QED
  BY <1>1, <1>2, InvHolds, PTL
     DEF SocketSpec, SocketDownloadsSpec, SocketPromise!Spec
=============================================================================
