----------------------------- MODULE HtmlProofs -----------------------------
(***************************************************************************)
(* Proofs about MyHtmlNode, GumboHtmlNode and the two parsers for every    *)
(* document: what is below a node is what lies between it and the next     *)
(* node that is not, each walk lists such a set of nodes in the order of   *)
(* the document, and so the two implementations find the same, but for     *)
(* what lies in templates, is no element, or is read in two ways.          *)
(***************************************************************************)
EXTENDS HtmlParsers, ListLemmas, FunctionTheorems, FiniteSetTheorems, TLAPS

-----------------------------------------------------------------------------
(* Trees in document order.                                                *)

(* What is below a node: all nodes up to the next one whose parent comes   *)
(* before it.  Below NoNode is the whole document.                         *)
Below(d, n) ==
  {m \in Nodes(d) : /\ n < m
                    /\ \A k \in Nodes(d) : n < k /\ k <= m => n <= d.parent[k]}

Subtree(d, n) == {n} \cup Below(d, n)

(* A node with what is below it and behind it below the same parent.       *)
RestOf(d, n) ==
  IF n = NoNode THEN {} ELSE {m \in Below(d, d.parent[n]) : n <= m}

Siblings(d, n) == ChildSet(d, d.parent[n])

(* Nodes are numbered, and parents come first. *)
LEMMA NumberedNodes ==
  ASSUME NEW d, IsDocument(d)
  PROVE  /\ Nodes(d) = 1..Len(d.parent) /\ Len(d.parent) \in Nat
         /\ IsFiniteSet(Nodes(d)) /\ Nodes(d) \subseteq Nat /\ 1 \in Nodes(d)
         /\ \A n \in Nodes(d) : /\ d.parent[n] \in Nodes(d) \cup {NoNode}
                                /\ d.parent[n] < n
                                /\ n \in Nat /\ n # NoNode
                                /\ d.parent[n] \in Nat
<1>1. /\ d.parent \in Seq(Nat) /\ d.parent # <<>>
      /\ \A n \in Nodes(d) : d.parent[n] < n
  BY DEF IsDocument
<1> DEFINE N == Len(d.parent)
<1>2. /\ N \in Nat /\ N # 0 /\ Nodes(d) = 1..N
      /\ \A n \in 1..N : d.parent[n] \in Nat
  BY <1>1 DEF Nodes
<1> HIDE DEF N
<1>3. IsFiniteSet(1..N)
  BY <1>2, FS_Interval
<1>4. ASSUME NEW n \in 1..N
      PROVE  /\ d.parent[n] \in (1..N) \cup {NoNode}
             /\ d.parent[n] < n /\ d.parent[n] \in Nat
             /\ n \in Nat /\ n # NoNode
  <2>1. d.parent[n] < n /\ d.parent[n] \in Nat
    BY <1>1, <1>2
  <2> QED BY <1>2, <2>1 DEF NoNode
<1>5. 1 \in 1..N /\ 1..N \subseteq Nat
  BY <1>2
<1>. QED BY <1>2, <1>3, <1>4, <1>5 DEF N

LEMMA FirstElement ==
  ASSUME NEW S, S \subseteq Nat
  PROVE  /\ S = {} => First(S) = NoNode
         /\ S # {} => First(S) \in S /\ \A m \in S : First(S) <= m
         /\ \A n \in S : (\A m \in S : n <= m) => First(S) = n
<1>1. ASSUME S # {}
      PROVE  \E n \in S : \A m \in S : n <= m
  BY <1>1, LeastNumber
<1>2. S # {} => First(S) \in S /\ \A m \in S : First(S) <= m
  BY <1>1 DEF First
<1>3. ASSUME NEW n \in S, \A m \in S : n <= m
      PROVE  First(S) = n
  <2>1. First(S) \in S /\ First(S) <= n
    BY <1>2
  <2>2. n <= First(S)
    BY <1>3, <2>1
  <2>3. \A x \in S : x \in Int
    OBVIOUS
  <2>4. n \in Int /\ First(S) \in Int
    BY <2>1, <2>3
  <2> QED BY <2>1, <2>2, <2>4
<1>. QED BY <1>2, <1>3 DEF First

(* The children of a node, and what is below them, are below the node.     *)
LEMMA ChildrenAreBelow ==
  ASSUME NEW d, IsDocument(d), NEW n \in Nodes(d) \cup {NoNode},
         NEW c \in ChildSet(d, n)
  PROVE  /\ c \in Nodes(d) /\ c \in Below(d, n)
         /\ Below(d, c) \subseteq Below(d, n)
<1>1. /\ c \in Nodes(d) /\ d.parent[c] = n /\ n < c
      /\ n \in Int /\ c \in Int /\ \A k \in Nodes(d) : k \in Int
      /\ \A k \in Nodes(d) : d.parent[k] \in Int
  BY NumberedNodes DEF ChildSet, NoNode
<1>2. \A k \in Nodes(d) : d.parent[c] < k /\ k < c => d.parent[c] <= d.parent[k]
  BY <1>1 DEF IsDocument
<1>3. c \in Below(d, n)
  <2>1. ASSUME NEW k \in Nodes(d), n < k, k <= c
        PROVE  n <= d.parent[k]
    <3>1. CASE k = c
      BY <1>1, <3>1
    <3>2. CASE k < c
      BY <1>1, <1>2, <2>1, <3>2
    <3>3. k \in Int /\ c \in Int /\ k <= c => k = c \/ k < c
      OBVIOUS
    <3> QED BY <1>1, <2>1, <3>1, <3>2, <3>3
  <2> QED BY <1>1, <2>1 DEF Below
<1>4. ASSUME NEW m \in Below(d, c)
      PROVE  m \in Below(d, n)
  <2>1. /\ m \in Nodes(d) /\ c < m /\ m \in Int
        /\ \A k \in Nodes(d) : c < k /\ k <= m => c <= d.parent[k]
    BY <1>1 DEF Below
  <2>2. ASSUME NEW k \in Nodes(d), n < k, k <= m
        PROVE  n <= d.parent[k]
    <3>1. CASE k <= c
      BY <1>3, <2>2, <3>1 DEF Below
    <3>2. CASE c < k
      <4>1. c <= d.parent[k]
        BY <2>1, <2>2, <3>2
      <4> QED BY <1>1, <4>1
    <3> QED BY <1>1, <3>1, <3>2
  <2>3. n < m
    BY <1>1, <2>1
  <2> QED BY <2>1, <2>2, <2>3 DEF Below
<1>. QED BY <1>1, <1>3, <1>4

(* What is below a node is a child of it or below one, the last child that *)
(* does not come behind it.                                                *)
LEMMA BelowOfChildren ==
  ASSUME NEW d, IsDocument(d), NEW n \in Nodes(d) \cup {NoNode},
         NEW m \in Below(d, n)
  PROVE  \E c \in ChildSet(d, n) : m \in Subtree(d, c)
<1>1. /\ m \in Nodes(d) /\ n < m /\ m \in Int /\ n \in Int
      /\ \A k \in Nodes(d) : n < k /\ k <= m => n <= d.parent[k]
      /\ n \in Nat /\ m \in Nat
      /\ \A k \in Nodes(d) : k \in Int /\ d.parent[k] \in Int
      /\ \A k \in Nodes(d) : d.parent[k] < k
      /\ Nodes(d) = 1..Len(d.parent) /\ Len(d.parent) \in Nat
  BY NumberedNodes DEF Below, NoNode
<1> DEFINE C == {c \in ChildSet(d, n) : c <= m}
<1>2. n + 1 \in C
  <2>1. n + 1 \in Nodes(d) /\ n < n + 1 /\ n + 1 <= m
    BY <1>1
  <2>2. n <= d.parent[n + 1] /\ d.parent[n + 1] < n + 1
    BY <1>1, <2>1
  <2>3. d.parent[n + 1] \in Int
    BY <1>1, <2>1
  <2>4. d.parent[n + 1] = n
    BY <1>1, <2>2, <2>3
  <2> QED BY <2>1, <2>4 DEF ChildSet
<1>3. PICK c \in C : \A k \in C : k <= c
  <2>1. C \subseteq 1..m
    BY <1>1 DEF ChildSet
  <2> HIDE DEF C
  <2> QED BY <1>1, <1>2, <2>1, GreatestNumber
<1>4. /\ c \in ChildSet(d, n) /\ c <= m
      /\ c \in Nodes(d) /\ d.parent[c] = n /\ n < c /\ c \in Int
  BY <1>1, <1>3 DEF ChildSet
<1>5. ASSUME c # m
      PROVE  m \in Below(d, c)
  <2>1. c < m
    BY <1>1, <1>4, <1>5
  <2>2. ASSUME NEW k \in Nodes(d), c < k, k <= m
        PROVE  c <= d.parent[k]
    <3>1. k \in Int /\ d.parent[k] \in Int /\ n < k /\ n <= d.parent[k]
      BY <1>1, <1>4, <2>2
    <3>2. d.parent[k] # n
      <4>1. d.parent[k] = n => k \in C
        BY <2>2 DEF ChildSet
      <4>2. k \notin C
        BY <1>3, <1>4, <2>2, <3>1
      <4> QED BY <4>1, <4>2
    <3>3. d.parent[k] < c => d.parent[k] <= d.parent[c]
      BY <1>4, <2>2 DEF IsDocument
    <3> QED BY <1>1, <1>4, <3>1, <3>2, <3>3
  <2> QED BY <1>1, <2>1, <2>2 DEF Below
<1>. QED BY <1>4, <1>5 DEF Subtree

(* Of two children of a node the first, and what is below it, comes before *)
(* the second and what is below that.                                      *)
LEMMA SiblingsInOrder ==
  ASSUME NEW d, IsDocument(d), NEW n \in Nodes(d) \cup {NoNode},
         NEW b \in ChildSet(d, n), NEW c \in ChildSet(d, n), b < c,
         NEW x \in Subtree(d, b)
  PROVE  /\ x < c
         /\ \A y \in Subtree(d, c) : x < y
<1>1. /\ b \in Nodes(d) /\ d.parent[b] = n /\ b \in Int /\ n < b
      /\ c \in Nodes(d) /\ d.parent[c] = n /\ c \in Int /\ n \in Int
  BY NumberedNodes DEF ChildSet, NoNode
<1>2. x \in Int
  BY <1>1, NumberedNodes DEF Subtree, Below
<1>3. x < c
  <2>1. CASE x = b
    BY <2>1
  <2>2. CASE x \in Below(d, b) /\ ~(x < c)
    <3>1. b < c /\ c <= x
      BY <1>1, <1>2, <2>2
    <3>2. b <= d.parent[c]
      BY <1>1, <2>2, <3>1 DEF Below
    <3> QED BY <1>1, <3>2
  <2> QED BY <2>1, <2>2 DEF Subtree
<1>4. \A y \in Subtree(d, c) : c <= y /\ y \in Int
  BY <1>1, NumberedNodes DEF Subtree, Below
<1>. QED BY <1>1, <1>2, <1>3, <1>4

(* What is below a node: its children with what is below each. *)
LEMMA BelowIsChildren ==
  ASSUME NEW d, IsDocument(d), NEW n \in Nodes(d) \cup {NoNode}
  PROVE  /\ Below(d, n) = UNION {Subtree(d, c) : c \in ChildSet(d, n)}
         /\ Below(d, n) \subseteq Nodes(d)
         /\ ChildSet(d, n) \subseteq Nodes(d)
         /\ ChildSet(d, n) \subseteq Below(d, n)
<1>1. \A m \in Below(d, n) : \E c \in ChildSet(d, n) : m \in Subtree(d, c)
  BY BelowOfChildren
<1>2. \A c \in ChildSet(d, n) : Subtree(d, c) \subseteq Below(d, n)
  BY ChildrenAreBelow DEF Subtree
<1>. QED BY <1>1, <1>2 DEF Below, ChildSet, Subtree

(* The first child, and the next node with the same parent. *)
LEMMA FirstChild ==
  ASSUME NEW d, IsDocument(d), NEW n \in Nodes(d) \cup {NoNode}
  PROVE  /\ Child(d, n) = NoNode => ChildSet(d, n) = {}
         /\ Child(d, n) # NoNode =>
              /\ Child(d, n) \in ChildSet(d, n)
              /\ n < Child(d, n)
              /\ \A c \in ChildSet(d, n) : Child(d, n) <= c
<1>1. ChildSet(d, n) \subseteq Nat /\ \A c \in ChildSet(d, n) : n < c /\ c # NoNode
  BY NumberedNodes DEF ChildSet
<1>. QED BY <1>1, FirstElement DEF Child

LEMMA NextSibling ==
  ASSUME NEW d, IsDocument(d), NEW n \in Nodes(d)
  PROVE  /\ n \in Siblings(d, n)
         /\ Next(d, n) = NoNode => \A c \in Siblings(d, n) : c <= n
         /\ Next(d, n) # NoNode =>
              /\ Next(d, n) \in Siblings(d, n) /\ n < Next(d, n)
              /\ \A c \in Siblings(d, n) : n < c => Next(d, n) <= c
<1> DEFINE S == {m \in Siblings(d, n) : m > n}
<1>1. /\ n \in Siblings(d, n) /\ Siblings(d, n) \subseteq Nat
      /\ n \in Nat /\ \A c \in Siblings(d, n) : c # NoNode
  BY NumberedNodes DEF Siblings, ChildSet
<1>2. Next(d, n) = First(S) /\ S \subseteq Nat
  BY <1>1 DEF Next, Siblings
<1>3. /\ S = {} => First(S) = NoNode
      /\ S # {} => First(S) \in S /\ \A m \in S : First(S) <= m
  <2> HIDE DEF S
  <2> QED BY <1>2, FirstElement
<1>4. \A c \in Siblings(d, n) : c <= n \/ c \in S
  BY <1>1
<1>. QED BY <1>1, <1>2, <1>3, <1>4

(* What is below a node begins with its first child. *)
LEMMA RestOfChild ==
  ASSUME NEW d, IsDocument(d), NEW n \in Nodes(d) \cup {NoNode}
  PROVE  RestOf(d, Child(d, n)) = Below(d, n)
<1> DEFINE c == Child(d, n)
<1>1. CASE c = NoNode
  <2>1. Below(d, n) = {}
    BY <1>1, FirstChild, BelowIsChildren
  <2> QED BY <1>1, <2>1 DEF RestOf
<1>2. CASE c # NoNode
  <2>1. /\ c \in ChildSet(d, n) /\ d.parent[c] = n /\ c \in Nodes(d)
        /\ \A b \in ChildSet(d, n) : c <= b
    BY <1>2, FirstChild DEF ChildSet
  <2>2. \A m \in Nodes(d) : m \in Int
    BY NumberedNodes
  <2>3. ASSUME NEW m \in Below(d, n)
        PROVE  c <= m
    <3>1. PICK b \in ChildSet(d, n) : m \in Subtree(d, b)
      BY BelowOfChildren
    <3>2. c <= b /\ b <= m /\ b \in Int /\ m \in Int /\ c \in Int
      <4>1. b \in Int /\ m \in Int /\ c \in Int
        BY <2>1, <2>2, BelowIsChildren
      <4>2. b <= m
        BY <3>1, <4>1 DEF Subtree, Below
      <4> QED BY <2>1, <4>1, <4>2
    <3> QED BY <3>2
  <2> HIDE DEF c
  <2>4. RestOf(d, c) = Below(d, n)
    BY <1>2, <2>1, <2>3 DEF RestOf
  <2> QED BY <2>4 DEF c
<1>. QED BY <1>1, <1>2

(* A node, what is below it, and what is behind it below the same parent.  *)
LEMMA RestOfNode ==
  ASSUME NEW d, IsDocument(d), NEW n \in Nodes(d)
  PROVE  /\ RestOf(d, n) = Subtree(d, n) \cup RestOf(d, Next(d, n))
         /\ \A x \in Subtree(d, n), y \in RestOf(d, Next(d, n)) : x < y
         /\ RestOf(d, n) \subseteq Nodes(d)
<1> DEFINE p == d.parent[n]  b == Next(d, n)
<1>1. /\ p \in Nodes(d) \cup {NoNode} /\ n \in ChildSet(d, p)
      /\ ChildSet(d, p) = Siblings(d, n)
      /\ n # NoNode
      /\ \A m \in Nodes(d) : m \in Int
  BY NumberedNodes DEF ChildSet, Siblings
<1> HIDE DEF p
<1>2. RestOf(d, n) = {m \in Below(d, p) : n <= m}
  BY <1>1 DEF RestOf, p
<1>3. Subtree(d, n) \subseteq RestOf(d, n)
  <2>1. Subtree(d, n) \subseteq Below(d, p)
    BY <1>1, ChildrenAreBelow DEF Subtree
  <2>2. \A m \in Subtree(d, n) : n <= m
    BY <1>1 DEF Subtree, Below
  <2> QED BY <1>2, <2>1, <2>2
<1>4. ASSUME NEW m \in RestOf(d, n), m \notin Subtree(d, n)
      PROVE  \E c \in ChildSet(d, p) : n < c /\ m \in Subtree(d, c)
  <2>1. m \in Below(d, p) /\ n <= m
    BY <1>2
  <2>2. PICK c \in ChildSet(d, p) : m \in Subtree(d, c)
    BY <1>1, <2>1, BelowOfChildren
  <2>3. c # n /\ c \in Int /\ n \in Int /\ m \in Int
    BY <1>1, <1>4, <2>1, <2>2, BelowIsChildren
  <2>4. ~(c < n)
    <3>1. c < n => m < n
      BY <1>1, <2>2, SiblingsInOrder
    <3> QED BY <2>1, <2>3, <3>1
  <2> QED BY <2>2, <2>3, <2>4
<1>5. CASE b = NoNode
  <2>1. \A c \in ChildSet(d, p) : ~(n < c)
    BY <1>1, <1>5, NextSibling, BelowIsChildren
  <2>2. RestOf(d, b) = {}
    BY <1>5 DEF RestOf
  <2> QED BY <1>1, <1>2, <1>3, <1>4, <2>1, <2>2, BelowIsChildren
<1>6. CASE b # NoNode
  <2>1. /\ b \in ChildSet(d, p) /\ n < b /\ d.parent[b] = p
        /\ \A c \in ChildSet(d, p) : n < c => b <= c
    BY <1>1, <1>6, NextSibling DEF ChildSet
  <2> HIDE DEF b
  <2>2. b \in Int /\ n \in Int /\ ChildSet(d, p) \subseteq Int
        /\ Below(d, p) \subseteq Int
    BY <1>1, <2>1, BelowIsChildren
  <2>3. RestOf(d, b) = {m \in Below(d, p) : b <= m}
    BY <1>6, <2>1 DEF RestOf
  <2>4. RestOf(d, b) \subseteq RestOf(d, n)
    BY <1>2, <2>1, <2>2, <2>3
  <2>5. ASSUME NEW m \in RestOf(d, n), m \notin Subtree(d, n)
        PROVE  m \in RestOf(d, b)
    <3>1. PICK c \in ChildSet(d, p) : n < c /\ m \in Subtree(d, c)
      BY <1>4, <2>5
    <3>2. c \in Int /\ m \in Int /\ m \in Below(d, p)
      BY <1>2, <2>2
    <3>3. c <= m
      BY <3>1, <3>2 DEF Subtree, Below
    <3>4. b <= m
      BY <2>1, <2>2, <3>1, <3>2, <3>3
    <3> QED BY <2>3, <3>2, <3>4
  <2>6. ASSUME NEW x \in Subtree(d, n), NEW y \in RestOf(d, b)
        PROVE  x < y
    <3>1. x < b
      BY <1>1, <2>1, SiblingsInOrder
    <3>2. b <= y /\ y \in Int /\ x \in Int
      BY <1>2, <1>3, <2>2, <2>3
    <3> QED BY <2>2, <3>1, <3>2
  <2>7. RestOf(d, n) \subseteq Nodes(d)
    BY <1>1, <1>2, BelowIsChildren
  <2>8. RestOf(d, n) = Subtree(d, n) \cup RestOf(d, b)
    BY <1>3, <2>4, <2>5
  <2> QED BY <2>6, <2>7, <2>8 DEF b
<1>. QED BY <1>5, <1>6 DEF b

(* Sets of nodes are finite sets of numbers. *)
LEMMA SetsOfNodes ==
  ASSUME NEW d, IsDocument(d), NEW S, S \subseteq Nodes(d)
  PROVE  IsFiniteSet(S) /\ S \subseteq Int /\ S \subseteq Nat
<1>1. /\ IsFiniteSet(Nodes(d)) /\ Nodes(d) \subseteq Nat
  BY NumberedNodes
<1>2. IsFiniteSet(S)
  BY <1>1, FS_Subset
<1>3. Nat \subseteq Int
  OBVIOUS
<1>. QED BY <1>1, <1>2, <1>3

(* What the walks call themselves for comes behind the node. *)
LEMMA WalksGoOn ==
  ASSUME NEW d, IsDocument(d), NEW n \in Nodes(d)
  PROVE  /\ Child(d, n) \in Nodes(d) \cup {NoNode}
         /\ Child(d, n) \in Nodes(d) => n < Child(d, n)
         /\ Next(d, n) \in Nodes(d) \cup {NoNode}
         /\ Next(d, n) \in Nodes(d) => n < Next(d, n)
         /\ ChildSet(d, n) \subseteq Nodes(d)
         /\ \A c \in ChildSet(d, n) : n < c
<1>1. /\ Siblings(d, n) \subseteq Nodes(d) /\ ChildSet(d, n) \subseteq Nodes(d)
  BY DEF Siblings, ChildSet
<1>2. NoNode \notin Nodes(d)
  BY NumberedNodes
<1>3. \A c \in ChildSet(d, n) : n < c
  BY BelowIsChildren DEF Below
<1>. QED BY <1>1, <1>2, <1>3, FirstChild, NextSibling

LEMMA SubtreeInOrder ==
  ASSUME NEW d, IsDocument(d), NEW n \in Nodes(d)
  PROVE  /\ InOrder(Subtree(d, n)) = <<n>> \o InOrder(Below(d, n))
         /\ Subtree(d, n) \subseteq Nodes(d)
<1>1. /\ Below(d, n) \subseteq Nodes(d) /\ \A m \in Below(d, n) : n < m
      /\ n \in Int
  BY NumberedNodes DEF Below
<1>2. IsFiniteSet(Below(d, n)) /\ Below(d, n) \subseteq Int
  BY <1>1, SetsOfNodes
<1>3. IsFiniteSet({n}) /\ {n} \subseteq Int /\ InOrder({n}) = <<n>>
  BY <1>1, FS_Singleton, InOrderOne
<1>4. InOrder({n} \cup Below(d, n)) = InOrder({n}) \o InOrder(Below(d, n))
  BY <1>1, <1>2, <1>3, InOrderConcat
<1>. QED BY <1>1, <1>3, <1>4 DEF Subtree

-----------------------------------------------------------------------------
(* The walks of MyHtmlNode.  For each a solution of the recursion is given *)
(* and any other found to be equal to it, from the last node on.           *)

(* matchSubNodesInDepth lists what is below a node, in order. *)
LEMMA DepthWalk ==
  ASSUME NEW d, IsDocument(d), NEW n \in Nodes(d), NEW X
  PROVE  MatchSubNodesInDepth(d, n, X) = InOrder(Below(d, n) \cap X)
<1> DEFINE N == Len(d.parent)
           D == Nodes(d) \cup {NoNode}
           Walk(f) == f = [m \in D |->
                             IF m = NoNode THEN <<>>
                             ELSE <<m>> \o f[Child(d, m)] \o f[Next(d, m)]]
           g == [m \in D |-> InOrder(RestOf(d, m))]
<1>1. ASSUME NEW m \in Nodes(d)
      PROVE  InOrder(RestOf(d, m))
               = <<m>> \o InOrder(RestOf(d, Child(d, m)))
                      \o InOrder(RestOf(d, Next(d, m)))
  <2> DEFINE A == Subtree(d, m)  B == RestOf(d, Next(d, m))
  <2>1. /\ RestOf(d, m) = A \cup B /\ \A x \in A, y \in B : x < y
        /\ A \subseteq Nodes(d) /\ B \subseteq Nodes(d)
    BY RestOfNode
  <2>2. IsFiniteSet(A) /\ A \subseteq Int /\ IsFiniteSet(B) /\ B \subseteq Int
    BY <2>1, SetsOfNodes
  <2>3. InOrder(A) = <<m>> \o InOrder(RestOf(d, Child(d, m)))
    BY SubtreeInOrder, RestOfChild
  <2> HIDE DEF A, B
  <2>4. InOrder(A \cup B) = InOrder(A) \o InOrder(B)
    BY <2>1, <2>2, InOrderConcat
  <2> QED BY <2>1, <2>3, <2>4 DEF B
<1>2. /\ InOrder(RestOf(d, NoNode)) = <<>> /\ NoNode \notin Nodes(d)
      /\ N \in Nat /\ Nodes(d) = 1..N
  BY InOrderOne, NumberedNodes DEF RestOf
<1>3. \A m \in Nodes(d) : /\ Child(d, m) \in D /\ Next(d, m) \in D
                          /\ Child(d, m) \in Nodes(d) => m < Child(d, m)
                          /\ Next(d, m) \in Nodes(d) => m < Next(d, m)
  BY WalksGoOn
<1>4. Walk(g)
  <2>1. ASSUME NEW m \in D
        PROVE  g[m] = IF m = NoNode THEN <<>>
                      ELSE <<m>> \o g[Child(d, m)] \o g[Next(d, m)]
    <3>1. CASE m = NoNode
      BY <1>2, <3>1
    <3>2. CASE m \in Nodes(d)
      BY <1>1, <1>2, <1>3, <3>2
    <3> QED BY <3>1, <3>2
  <2> QED BY <2>1
<1>5. PICK f : Walk(f) /\ MatchSubNodesInDepth(d, n, X)
                            = OnlyIn(f[Child(d, n)], X)
  BY <1>4 DEF MatchSubNodesInDepth
<1>6. /\ f[NoNode] = <<>> /\ g[NoNode] = <<>>
      /\ \A m \in Nodes(d) :
           /\ f[m] = <<m>> \o f[Child(d, m)] \o f[Next(d, m)]
           /\ g[m] = <<m>> \o g[Child(d, m)] \o g[Next(d, m)]
  <2> HIDE DEF g
  <2> QED BY <1>2, <1>4, <1>5
<1> HIDE DEF g, Walk
<1>7. EqualFromAbove(f, g, N)
  <2> SUFFICES ASSUME NEW m \in Nodes(d),
                      \A k \in Nodes(d) : m < k => f[k] = g[k]
               PROVE  f[m] = g[m]
    BY <1>2 DEF EqualFromAbove
  <2>1. f[Child(d, m)] = g[Child(d, m)] /\ f[Next(d, m)] = g[Next(d, m)]
    BY <1>3, <1>6
  <2> QED BY <1>6, <2>1
<1>8. \A m \in Nodes(d) : f[m] = g[m]
  BY <1>2, <1>7, SameFromAbove
<1>9. f[Child(d, n)] = InOrder(Below(d, n))
  <2>1. f[Child(d, n)] = g[Child(d, n)]
    BY <1>3, <1>6, <1>8
  <2>2. g[Child(d, n)] = InOrder(RestOf(d, Child(d, n)))
    BY <1>3 DEF g
  <2> QED BY <2>1, <2>2, RestOfChild
<1>10. IsFiniteSet(Below(d, n)) /\ Below(d, n) \subseteq Int
  BY BelowIsChildren, SetsOfNodes
<1>. QED BY <1>5, <1>9, <1>10, WithoutInOrder

(* A node and its siblings behind it. *)
SiblingsFrom(d, n) ==
  IF n = NoNode THEN {} ELSE {c \in Siblings(d, n) : n <= c}

LEMMA SiblingsOnwards ==
  ASSUME NEW d, IsDocument(d), NEW n \in Nodes(d)
  PROVE  /\ SiblingsFrom(d, n) = {n} \cup SiblingsFrom(d, Next(d, n))
         /\ \A y \in SiblingsFrom(d, Next(d, n)) : n < y
         /\ SiblingsFrom(d, n) \subseteq Nodes(d)
         /\ SiblingsFrom(d, Child(d, n)) = ChildSet(d, n)
<1>1. /\ \A m \in Nodes(d) : m \in Int /\ m # NoNode
      /\ Siblings(d, n) \subseteq Nodes(d) /\ ChildSet(d, n) \subseteq Nodes(d)
      /\ Siblings(d, n) = ChildSet(d, d.parent[n])
  BY NumberedNodes DEF Siblings, ChildSet
<1>2. SiblingsFrom(d, n) = {c \in Siblings(d, n) : n <= c}
  BY <1>1 DEF SiblingsFrom
<1>3. SiblingsFrom(d, Child(d, n)) = ChildSet(d, n)
  <2> DEFINE c == Child(d, n)
  <2>1. CASE c = NoNode
    BY <2>1, FirstChild DEF SiblingsFrom
  <2>2. CASE c # NoNode
    <3>1. c \in ChildSet(d, n) /\ \A k \in ChildSet(d, n) : c <= k
      BY <2>2, FirstChild
    <3> HIDE DEF c
    <3>2. Siblings(d, c) = ChildSet(d, n)
      BY <3>1 DEF Siblings, ChildSet
    <3>3. SiblingsFrom(d, c) = ChildSet(d, n)
      BY <2>2, <3>1, <3>2 DEF SiblingsFrom
    <3> QED BY <3>3 DEF c
  <2> QED BY <2>1, <2>2
<1>4. SiblingsFrom(d, n) \subseteq Nodes(d)
  BY <1>1, <1>2
<1> DEFINE b == Next(d, n)
<1>5. CASE b = NoNode
  <2>1. \A c \in Siblings(d, n) : c <= n /\ c \in Int
    BY <1>1, <1>5, NextSibling
  <2>2. \A c \in Siblings(d, n) : n <= c <=> c = n
    BY <1>1, <2>1
  <2>3. SiblingsFrom(d, b) = {}
    BY <1>5 DEF SiblingsFrom
  <2>4. SiblingsFrom(d, n) = {n}
    BY <1>2, <2>2, NextSibling
  <2> QED BY <1>3, <1>4, <2>3, <2>4
<1>6. CASE b # NoNode
  <2>1. /\ b \in Siblings(d, n) /\ n < b
        /\ \A c \in Siblings(d, n) : n < c => b <= c
    BY <1>6, NextSibling
  <2> HIDE DEF b
  <2>2. Siblings(d, b) = Siblings(d, n)
    BY <2>1 DEF Siblings, ChildSet
  <2>3. SiblingsFrom(d, b) = {c \in Siblings(d, n) : b <= c}
    BY <1>6, <2>2 DEF SiblingsFrom
  <2>4. \A c \in Siblings(d, n) : c \in Int
    BY <1>1
  <2>5. b \in Int /\ n \in Int
    BY <1>1, <2>1
  <2>6. \A c \in Siblings(d, n) : n <= c <=> c = n \/ b <= c
    BY <2>1, <2>4, <2>5
  <2>7. \A c \in Siblings(d, n) : b <= c => n < c
    BY <2>1, <2>4, <2>5
  <2>8. SiblingsFrom(d, n) = {n} \cup SiblingsFrom(d, b)
    BY <1>2, <2>3, <2>6, NextSibling
  <2> QED BY <1>3, <1>4, <2>3, <2>7, <2>8 DEF b
<1>. QED BY <1>5, <1>6

(* childrenInternal lists the children in order, as the vector does. *)
LEMMA ChildrenWalk ==
  ASSUME NEW d, IsDocument(d), NEW n \in Nodes(d)
  PROVE  ChildrenInternal(d, n) = InOrder(ChildSet(d, n))
<1> DEFINE N == Len(d.parent)
           D == Nodes(d) \cup {NoNode}
           Walk(f) == f = [m \in D |-> IF m = NoNode THEN <<>>
                                       ELSE <<m>> \o f[Next(d, m)]]
           g == [m \in D |-> InOrder(SiblingsFrom(d, m))]
<1>1. ASSUME NEW m \in Nodes(d)
      PROVE  InOrder(SiblingsFrom(d, m))
               = <<m>> \o InOrder(SiblingsFrom(d, Next(d, m)))
  <2> DEFINE A == SiblingsFrom(d, Next(d, m))
  <2>1. /\ SiblingsFrom(d, m) = {m} \cup A /\ \A y \in A : m < y
        /\ {m} \subseteq Nodes(d) /\ A \subseteq Nodes(d)
    BY SiblingsOnwards
  <2>2. /\ IsFiniteSet({m}) /\ {m} \subseteq Int
        /\ IsFiniteSet(A) /\ A \subseteq Int
    BY <2>1, SetsOfNodes
  <2> HIDE DEF A
  <2>3. InOrder({m} \cup A) = InOrder({m}) \o InOrder(A)
    BY <2>1, <2>2, InOrderConcat
  <2>4. m \in Int /\ InOrder({m}) = <<m>>
    BY <2>2, InOrderOne
  <2> QED BY <2>1, <2>3, <2>4 DEF A
<1>2. /\ InOrder(SiblingsFrom(d, NoNode)) = <<>> /\ NoNode \notin Nodes(d)
      /\ N \in Nat /\ Nodes(d) = 1..N
  BY InOrderOne, NumberedNodes DEF SiblingsFrom
<1>3. \A m \in Nodes(d) : /\ Child(d, m) \in D /\ Next(d, m) \in D
                          /\ Next(d, m) \in Nodes(d) => m < Next(d, m)
  BY WalksGoOn
<1>4. Walk(g)
  <2>1. ASSUME NEW m \in D
        PROVE  g[m] = IF m = NoNode THEN <<>> ELSE <<m>> \o g[Next(d, m)]
    <3>1. CASE m = NoNode
      BY <1>2, <3>1
    <3>2. CASE m \in Nodes(d)
      BY <1>1, <1>2, <1>3, <3>2
    <3> QED BY <3>1, <3>2
  <2> QED BY <2>1
<1>5. PICK f : Walk(f) /\ ChildrenInternal(d, n) = f[Child(d, n)]
  BY <1>4 DEF ChildrenInternal
<1>6. /\ f[NoNode] = <<>> /\ g[NoNode] = <<>>
      /\ \A m \in Nodes(d) : /\ f[m] = <<m>> \o f[Next(d, m)]
                             /\ g[m] = <<m>> \o g[Next(d, m)]
  <2> HIDE DEF g
  <2> QED BY <1>2, <1>4, <1>5
<1> HIDE DEF g, Walk
<1>7. EqualFromAbove(f, g, N)
  <2> SUFFICES ASSUME NEW m \in Nodes(d),
                      \A k \in Nodes(d) : m < k => f[k] = g[k]
               PROVE  f[m] = g[m]
    BY <1>2 DEF EqualFromAbove
  <2>1. f[Next(d, m)] = g[Next(d, m)]
    BY <1>3, <1>6
  <2> QED BY <1>6, <2>1
<1>8. \A m \in Nodes(d) : f[m] = g[m]
  BY <1>2, <1>7, SameFromAbove
<1>9. f[Child(d, n)] = g[Child(d, n)]
  BY <1>3, <1>6, <1>8
<1>10. g[Child(d, n)] = InOrder(SiblingsFrom(d, Child(d, n)))
  BY <1>3 DEF g
<1>. QED BY <1>5, <1>9, <1>10, SiblingsOnwards

(* firstMatchSubNode finds the first child with the tag. *)
LEMMA FirstMatchWalk ==
  ASSUME NEW d, IsDocument(d), NEW n \in Nodes(d), NEW tag
  PROVE  FirstMatchSubNode(d, n, tag)
           = First(ChildSet(d, n) \cap WithTagId(d, tag))
<1> DEFINE N == Len(d.parent)
           D == Nodes(d) \cup {NoNode}
           W == WithTagId(d, tag)
           Walk(f) == f = [m \in D |-> IF m = NoNode \/ TagId(d, m) = tag THEN m
                                       ELSE f[Next(d, m)]]
           g == [m \in D |-> First(SiblingsFrom(d, m) \cap W)]
<1>1. ASSUME NEW m \in Nodes(d)
      PROVE  First(SiblingsFrom(d, m) \cap W)
               = IF TagId(d, m) = tag THEN m
                 ELSE First(SiblingsFrom(d, Next(d, m)) \cap W)
  <2> DEFINE A == SiblingsFrom(d, Next(d, m))  S == SiblingsFrom(d, m) \cap W
  <2>1. /\ SiblingsFrom(d, m) = {m} \cup A /\ \A y \in A : m < y
        /\ S \subseteq Nat /\ m \in Int /\ S \subseteq Int
    BY SiblingsOnwards, SetsOfNodes, NumberedNodes
  <2>2. m \in W <=> TagId(d, m) = tag
    BY DEF WithTagId
  <2>3. CASE m \in W
    <3>1. m \in S /\ \A y \in S : m <= y
      BY <2>1, <2>3
    <3> HIDE DEF S
    <3>2. First(S) = m
      BY <2>1, <3>1, FirstElement
    <3> QED BY <2>2, <2>3, <3>2 DEF S
  <2>4. CASE m \notin W
    <3>1. S = A \cap W
      BY <2>1, <2>4
    <3> HIDE DEF S, A
    <3> QED BY <2>2, <2>4, <3>1 DEF S, A
  <2> QED BY <2>3, <2>4
<1>2. /\ First(SiblingsFrom(d, NoNode) \cap W) = NoNode
      /\ NoNode \notin Nodes(d)
      /\ N \in Nat /\ Nodes(d) = 1..N
  <2>1. SiblingsFrom(d, NoNode) \cap W = {}
    BY DEF SiblingsFrom
  <2> QED BY <2>1, FirstElement, NumberedNodes
<1>3. \A m \in Nodes(d) : /\ Child(d, m) \in D /\ Next(d, m) \in D
                          /\ Next(d, m) \in Nodes(d) => m < Next(d, m)
  BY WalksGoOn
<1>4. Walk(g)
  <2>1. ASSUME NEW m \in D
        PROVE  g[m] = IF m = NoNode \/ TagId(d, m) = tag THEN m
                      ELSE g[Next(d, m)]
    <3>1. CASE m = NoNode
      BY <1>2, <3>1
    <3>2. CASE m \in Nodes(d)
      BY <1>1, <1>2, <1>3, <3>2
    <3> QED BY <3>1, <3>2
  <2> QED BY <2>1
<1>5. PICK f : Walk(f) /\ FirstMatchSubNode(d, n, tag) = f[Child(d, n)]
  BY <1>4 DEF FirstMatchSubNode
<1>6. /\ f[NoNode] = NoNode /\ g[NoNode] = NoNode
      /\ \A m \in Nodes(d) :
           /\ f[m] = IF TagId(d, m) = tag THEN m ELSE f[Next(d, m)]
           /\ g[m] = IF TagId(d, m) = tag THEN m ELSE g[Next(d, m)]
  <2> HIDE DEF g
  <2> QED BY <1>2, <1>4, <1>5
<1> HIDE DEF g, Walk
<1>7. EqualFromAbove(f, g, N)
  <2> SUFFICES ASSUME NEW m \in Nodes(d),
                      \A k \in Nodes(d) : m < k => f[k] = g[k]
               PROVE  f[m] = g[m]
    BY <1>2 DEF EqualFromAbove
  <2>1. f[Next(d, m)] = g[Next(d, m)]
    BY <1>3, <1>6
  <2> QED BY <1>6, <2>1
<1>8. \A m \in Nodes(d) : f[m] = g[m]
  BY <1>2, <1>7, SameFromAbove
<1>9. f[Child(d, n)] = g[Child(d, n)]
  BY <1>3, <1>6, <1>8
<1>10. g[Child(d, n)] = First(SiblingsFrom(d, Child(d, n)) \cap W)
  BY <1>3 DEF g
<1>. QED BY <1>5, <1>9, <1>10, SiblingsOnwards

LEMMA PrevSibling ==
  ASSUME NEW d, IsDocument(d), NEW n \in Nodes(d),
         NEW S, S = {c \in Siblings(d, n) : c < n}
  PROVE  /\ Prev(d, n) = NoNode => S = {}
         /\ Prev(d, n) # NoNode =>
              /\ Prev(d, n) \in S /\ Prev(d, n) \in Nodes(d)
              /\ \A c \in S : c <= Prev(d, n)
<1>1. /\ Siblings(d, n) \subseteq Nodes(d) /\ NoNode \notin Nodes(d)
      /\ n \in Nat /\ \A c \in Nodes(d) : c \in 1..Len(d.parent)
      /\ Len(d.parent) \in Nat
  BY NumberedNodes DEF Siblings, ChildSet
<1>2. Prev(d, n) = IF S = {} THEN NoNode
                   ELSE CHOOSE m \in S : \A k \in S : m >= k
  BY DEF Prev, Siblings
<1>3. S \subseteq 1..Len(d.parent) /\ S \subseteq Nodes(d)
  BY <1>1
<1>4. ASSUME S # {}
      PROVE  \E m \in S : \A k \in S : m >= k
  <2>1. PICK m \in S : \A k \in S : k <= m
    BY <1>1, <1>3, <1>4, GreatestNumber
  <2>2. \A k \in S : k \in Int
    BY <1>3
  <2>3. \A k \in S : m >= k
    BY <2>1, <2>2
  <2> QED BY <2>3
<1>5. ASSUME S # {}
      PROVE  Prev(d, n) \in S /\ \A k \in S : Prev(d, n) >= k
  BY <1>2, <1>4, <1>5
<1>6. ASSUME NEW m \in S, NEW k \in S, m >= k
      PROVE  k <= m
  BY <1>3, <1>6
<1>. QED BY <1>1, <1>2, <1>3, <1>5, <1>6

(* childIndex counts the siblings before a node. *)
LEMMA IndexWalk ==
  ASSUME NEW d, IsDocument(d), NEW n \in Nodes(d)
  PROVE  ChildIndex(d, n) = Cardinality({c \in Siblings(d, n) : c < n})
<1> DEFINE N == Len(d.parent)
           Before(m) == {c \in Siblings(d, m) : c < m}
           Walk(f) == f = [m \in Nodes(d) |->
                             IF Prev(d, m) = NoNode THEN 0
                             ELSE 1 + f[Prev(d, m)]]
           g == [m \in Nodes(d) |-> Cardinality(Before(m))]
<1>1. ASSUME NEW m \in Nodes(d)
      PROVE  Cardinality(Before(m))
               = IF Prev(d, m) = NoNode THEN 0
                 ELSE 1 + Cardinality(Before(Prev(d, m)))
  <2> DEFINE b == Prev(d, m)
  <2>1. CASE b = NoNode
    <3>1. Before(m) = {}
      BY <2>1, PrevSibling
    <3> HIDE DEF Before
    <3> QED BY <2>1, <3>1, FS_EmptySet
  <2>2. CASE b # NoNode
    <3>1. /\ b \in Before(m) /\ b \in Nodes(d)
          /\ \A c \in Before(m) : c <= b
      BY <2>2, PrevSibling
    <3> HIDE DEF b
    <3>2. /\ \A c \in Nodes(d) : c \in Int
          /\ Before(m) \subseteq Nodes(d) /\ Before(b) \subseteq Nodes(d)
      BY NumberedNodes DEF Siblings, ChildSet
    <3>3. Siblings(d, b) = Siblings(d, m)
      BY <3>1 DEF Siblings, ChildSet
    <3>4. \A c \in Siblings(d, m) : c < b <=> c < m /\ c # b
      <4>1. \A c \in Siblings(d, m) : c \in Int
        BY NumberedNodes DEF Siblings, ChildSet
      <4>2. b \in Int /\ m \in Int /\ b < m
        BY <3>1, <3>2
      <4>3. \A c \in Siblings(d, m) : c < m => c <= b
        BY <3>1
      <4> QED BY <4>1, <4>2, <4>3
    <3>5. Before(b) = Before(m) \ {b}
      BY <3>3, <3>4
    <3> HIDE DEF Before
    <3>6. IsFiniteSet(Before(m)) /\ IsFiniteSet(Before(b))
      BY <3>2, SetsOfNodes
    <3>7. Cardinality(Before(b)) = Cardinality(Before(m)) - 1
      BY <3>1, <3>5, <3>6, FS_RemoveElement
    <3>8. Cardinality(Before(m)) \in Nat /\ Cardinality(Before(b)) \in Nat
      BY <3>6, FS_CardinalityType
    <3>9. Cardinality(Before(m)) = 1 + Cardinality(Before(b))
      BY <3>7, <3>8
    <3> QED BY <2>2, <3>9 DEF b
  <2> QED BY <2>1, <2>2
<1>2. N \in Nat /\ Nodes(d) = 1..N
  BY NumberedNodes
<1>3. ASSUME NEW m \in Nodes(d), Prev(d, m) # NoNode
      PROVE  Prev(d, m) \in Nodes(d) /\ Prev(d, m) < m
  <2>1. Prev(d, m) \in Before(m) /\ Prev(d, m) \in Nodes(d)
    BY <1>3, PrevSibling
  <2> QED BY <2>1
<1> HIDE DEF Before
<1>4. Walk(g)
  <2>1. ASSUME NEW m \in Nodes(d)
        PROVE  g[m] = IF Prev(d, m) = NoNode THEN 0 ELSE 1 + g[Prev(d, m)]
    BY <1>1, <1>3
  <2> QED BY <2>1
<1>5. PICK f : Walk(f) /\ ChildIndex(d, n) = f[n]
  BY <1>4 DEF ChildIndex
<1>6. \A m \in Nodes(d) :
        /\ f[m] = IF Prev(d, m) = NoNode THEN 0 ELSE 1 + f[Prev(d, m)]
        /\ g[m] = IF Prev(d, m) = NoNode THEN 0 ELSE 1 + g[Prev(d, m)]
  <2> HIDE DEF g
  <2> QED BY <1>4, <1>5
<1> HIDE DEF g, Walk
<1>7. EqualFromBelow(f, g, N)
  <2> SUFFICES ASSUME NEW m \in Nodes(d),
                      \A k \in Nodes(d) : k < m => f[k] = g[k]
               PROVE  f[m] = g[m]
    BY <1>2 DEF EqualFromBelow
  <2>1. Prev(d, m) # NoNode => f[Prev(d, m)] = g[Prev(d, m)]
    BY <1>3
  <2> QED BY <1>6, <2>1
<1>8. \A m \in Nodes(d) : f[m] = g[m]
  BY <1>2, <1>7, SameFromBelow
<1>9. g[n] = Cardinality(Before(n))
  BY DEF g
<1>. QED BY <1>5, <1>8, <1>9 DEF Before

(* The place of a child in the list of the children is one more than its   *)
(* index.                                                                  *)
LEMMA IndexOfChild ==
  ASSUME NEW d, IsDocument(d), NEW n \in Nodes(d),
         NEW i \in 1..Len(InOrder(ChildSet(d, n)))
  PROVE  ChildIndex(d, InOrder(ChildSet(d, n))[i]) = i - 1
<1> DEFINE S == ChildSet(d, n)  c == InOrder(S)[i]
<1>1. S \subseteq Nodes(d) /\ IsFiniteSet(S) /\ S \subseteq Int
  BY SetsOfNodes DEF ChildSet
<1>2. c \in S /\ Cardinality(NotGreater(S, c)) = i /\ i \in Int
  <2>1. /\ InOrder(S) \in Seq(S) /\ Cardinality(NotGreater(S, c)) = i
        /\ i \in 1..Len(InOrder(S))
    BY <1>1, InOrderElements
  <2> HIDE DEF S
  <2> QED BY <2>1
<1> HIDE DEF c
<1>3. Siblings(d, c) = S /\ c \in Nodes(d)
  BY <1>2 DEF Siblings, ChildSet
<1> HIDE DEF S
<1>4. {k \in S : k < c} = NotGreater(S, c) \ {c} /\ c \in NotGreater(S, c)
  <2>1. \A k \in S : k \in Int
    BY <1>1
  <2>2. \A k \in S : k < c <=> k <= c /\ k # c
    BY <1>2, <2>1
  <2>3. c <= c
    BY <1>2, <2>1
  <2> QED BY <1>2, <2>2, <2>3 DEF NotGreater
<1>5. IsFiniteSet(NotGreater(S, c))
  BY <1>1, FS_Subset DEF NotGreater
<1>6. Cardinality({k \in S : k < c}) = i - 1
  BY <1>2, <1>4, <1>5, FS_RemoveElement
<1>7. ChildIndex(d, c) = i - 1
  BY <1>3, <1>6, IndexWalk
<1>. QED BY <1>7 DEF c, S

-----------------------------------------------------------------------------
(* The walks of GumboHtmlNode, and the texts of both.                      *)

(* The children, each with what is below it, joined. *)
OfEach(d, s, X) == [i \in DOMAIN s |-> InOrder(Subtree(d, s[i]) \cap X)]
BlankOfEach(d, s, X) ==
  [i \in DOMAIN s |-> Blank(InOrder(Subtree(d, s[i]) \cap X))]

AreJoined(d, n, s, X) ==
  /\ FlattenSeq(OfEach(d, s, X)) = InOrder(Below(d, n) \cap X)
  /\ FlattenSeq(BlankOfEach(d, s, X)) = Blank(InOrder(Below(d, n) \cap X))
  /\ \A i \in DOMAIN s : s[i] \in Nodes(d) /\ n < s[i]

LEMMA ChildrenJoined ==
  ASSUME NEW d, IsDocument(d), NEW n \in Nodes(d), NEW X,
         NEW s, s = GumboChildren(d, n)
  PROVE  AreJoined(d, n, s, X)
<1> DEFINE N == Len(s)
           P == [i \in 1..N |-> Subtree(d, s[i]) \cap X]
<1>1. /\ IsFiniteSet(ChildSet(d, n)) /\ ChildSet(d, n) \subseteq Int
      /\ ChildSet(d, n) \subseteq Nodes(d)
  BY SetsOfNodes DEF ChildSet
<1>2. /\ s \in Seq(ChildSet(d, n)) /\ ToSet(s) = ChildSet(d, n)
      /\ Increasing(s)
  BY <1>1, InOrderElements DEF GumboChildren
<1>3. /\ N \in Nat /\ DOMAIN s = 1..N
      /\ \A i \in 1..N : s[i] \in ChildSet(d, n)
      /\ \A c \in ChildSet(d, n) : \E i \in 1..N : c = s[i]
  BY <1>2 DEF ToSet
<1>4. \A i, j \in 1..N : i < j => s[i] < s[j]
  BY <1>2, <1>3 DEF Increasing
<1> HIDE DEF N
<1>5. \A i \in 1..N : s[i] \in Nodes(d) /\ n < s[i]
  BY <1>3, WalksGoOn
<1>6. P \in [1..N -> SUBSET Nodes(d)]
  BY <1>5, SubtreeInOrder
<1>7. Separated(P, N)
  <2> SUFFICES ASSUME NEW i \in 1..N, NEW j \in 1..N, i < j,
                      NEW x \in P[i], NEW y \in P[j]
               PROVE  x < y
    BY DEF Separated
  <2>1. /\ x \in Subtree(d, s[i]) /\ y \in Subtree(d, s[j])
        /\ s[i] \in ChildSet(d, n) /\ s[j] \in ChildSet(d, n) /\ s[i] < s[j]
    BY <1>3, <1>4
  <2> QED BY <2>1, SiblingsInOrder
<1>8. Together(P, N) = Below(d, n) \cap X
  <2>1. Below(d, n) = UNION {Subtree(d, c) : c \in ChildSet(d, n)}
    BY BelowIsChildren
  <2> QED BY <1>3, <2>1 DEF Together
<1>9. IsFiniteSet(Nodes(d)) /\ Nodes(d) \subseteq Int
  BY SetsOfNodes
<1>10. /\ FlattenSeq(OfEach(d, s, X)) = Joined(P, N)
       /\ FlattenSeq(BlankOfEach(d, s, X)) = JoinedBlank(P, N)
  <2>1. /\ OfEach(d, s, X) = [i \in 1..N |-> InOrder(P[i])]
        /\ BlankOfEach(d, s, X) = [i \in 1..N |-> Blank(InOrder(P[i]))]
    BY <1>3 DEF OfEach, BlankOfEach
  <2> QED BY <2>1 DEF Joined, JoinedBlank
<1> HIDE DEF P
<1>11. /\ Joined(P, N) = InOrder(Together(P, N))
       /\ JoinedBlank(P, N) = Blank(InOrder(Together(P, N)))
  <2>1. N \in Nat
    BY <1>3
  <2> QED BY <1>6, <1>7, <1>9, <2>1, FlattenInOrder
<1>. QED BY <1>3, <1>5, <1>8, <1>10, <1>11 DEF AreJoined

(* What is below a node that is below another is below that one. *)
LEMMA BelowOfBelow ==
  ASSUME NEW d, IsDocument(d), NEW n \in Nodes(d), NEW m \in Below(d, n)
  PROVE  Below(d, m) \subseteq Below(d, n)
<1>1. \A k \in Nodes(d) : k \in Int /\ d.parent[k] \in Int
  BY NumberedNodes
<1>2. m \in Nodes(d) /\ n < m /\ m \in Int /\ n \in Int
  BY <1>1 DEF Below
<1>3. ASSUME NEW x \in Below(d, m)
      PROVE  x \in Below(d, n)
  <2>1. x \in Nodes(d) /\ m < x /\ x \in Int
    BY <1>1 DEF Below
  <2>2. ASSUME NEW k \in Nodes(d), n < k, k <= x
        PROVE  n <= d.parent[k]
    <3>1. CASE k <= m
      BY <2>2, <3>1 DEF Below
    <3>2. CASE m < k
      <4>1. m <= d.parent[k]
        BY <2>2, <3>2 DEF Below
      <4> QED BY <1>1, <1>2, <4>1
    <3> QED BY <1>1, <1>2, <3>1, <3>2
  <2>3. n < x
    BY <1>2, <2>1
  <2> QED BY <2>1, <2>2, <2>3 DEF Below
<1>. QED BY <1>3

(* A node and some of what is below it. *)
LEMMA NodeThenBelow ==
  ASSUME NEW d, IsDocument(d), NEW n \in Nodes(d), NEW S, S \subseteq Below(d, n)
  PROVE  InOrder({n} \cup S) = <<n>> \o InOrder(S)
<1>1. S \subseteq Nodes(d) /\ (\A m \in S : n < m) /\ n \in Int
  BY NumberedNodes DEF Below
<1>2. IsFiniteSet(S) /\ S \subseteq Int
  BY <1>1, SetsOfNodes
<1>3. IsFiniteSet({n}) /\ {n} \subseteq Int /\ InOrder({n}) = <<n>>
  BY <1>1, FS_Singleton, InOrderOne
<1>4. InOrder({n} \cup S) = InOrder({n}) \o InOrder(S)
  BY <1>1, <1>2, <1>3, InOrderConcat
<1>. QED BY <1>3, <1>4

(* What is in a template below a node, and what GumboHtmlNode sees of the  *)
(* node and of what is below it.                                           *)
Templates(d, n) == {m \in Below(d, n) : IsTemplate(d, m)}
Hidden(d, n) == UNION {Below(d, t) : t \in Templates(d, n)}
Seen(d, n) == Subtree(d, n) \ Hidden(d, n)
Visited(d, n) == IF IsElement(d, n) THEN Seen(d, n) ELSE {n}

LEMMA HiddenIsBelow ==
  ASSUME NEW d, IsDocument(d), NEW n \in Nodes(d)
  PROVE  /\ n \notin Hidden(d, n)
         /\ Seen(d, n) = {n} \cup (Below(d, n) \ Hidden(d, n))
         /\ Seen(d, n) \subseteq Nodes(d) /\ Visited(d, n) \subseteq Nodes(d)
         /\ IsLeaf(d, n) => Below(d, n) = {} /\ Seen(d, n) = {n}
<1>1. n \notin Hidden(d, n)
  <2> SUFFICES ASSUME NEW t \in Templates(d, n), n \in Below(d, t)
               PROVE  FALSE
    BY DEF Hidden
  <2>1. t \in Below(d, n)
    BY DEF Templates
  <2>2. n < t /\ t < n /\ t \in Nodes(d)
    BY <2>1 DEF Below
  <2>3. n \in Int /\ t \in Int
    BY <2>2, NumberedNodes
  <2> QED BY <2>2, <2>3
<1>2. Below(d, n) \subseteq Nodes(d)
  BY DEF Below
<1>3. ASSUME IsLeaf(d, n)
      PROVE  Below(d, n) = {}
  <2>1. ChildSet(d, n) = {}
    BY <1>3 DEF IsDocument
  <2> QED BY <2>1, BelowIsChildren
<1>. QED BY <1>1, <1>2, <1>3 DEF Seen, Visited, Subtree

(* Of a child, and of what is below it, is hidden below the parent what is *)
(* hidden below an element, and what is below a template.                  *)
LEMMA HiddenInChild ==
  ASSUME NEW d, IsDocument(d), NEW n \in Nodes(d), NEW c \in ChildSet(d, n)
  PROVE  /\ Subtree(d, c) \ Hidden(d, n) = Visited(d, c)
         /\ c \in Nodes(d)
<1>1. /\ c \in Nodes(d) /\ c \in Below(d, n) /\ Below(d, c) \subseteq Below(d, n)
      /\ Below(d, n) \subseteq Nodes(d) /\ \A m \in Nodes(d) : m \in Int
  BY ChildrenAreBelow, NumberedNodes DEF Below
<1>2. ASSUME NEW t \in Below(d, n), NEW m \in Subtree(d, c), m \in Below(d, t)
      PROVE  t \in Subtree(d, c)
  <2>1. PICK b \in ChildSet(d, n) : t \in Subtree(d, b)
    BY BelowOfChildren
  <2>2. b \in Nodes(d) /\ b \in Int /\ c \in Int
    BY <1>1, <2>1, ChildrenAreBelow
  <2>3. m \in Subtree(d, b) /\ m \in Int
    <3>1. m \in Below(d, b)
      BY <1>2, <2>1, <2>2, BelowOfBelow DEF Subtree
    <3> QED BY <1>1, <3>1 DEF Subtree, Below
  <2>4. ~(b < c)
    <3>1. b < c => m < m
      BY <2>1, <2>3, <1>2, SiblingsInOrder
    <3> QED BY <2>3, <3>1
  <2>5. ~(c < b)
    <3>1. c < b => m < m
      BY <2>1, <2>3, <1>2, SiblingsInOrder
    <3> QED BY <2>3, <3>1
  <2>6. b = c
    BY <2>2, <2>4, <2>5
  <2> QED BY <2>1, <2>6
<1>3. c \notin Hidden(d, n)
  <2> SUFFICES ASSUME NEW t \in Templates(d, n), c \in Below(d, t)
               PROVE  FALSE
    BY DEF Hidden
  <2>1. t \in Below(d, n) /\ c \in Subtree(d, c)
    BY DEF Templates, Subtree
  <2>2. t \in Subtree(d, c)
    BY <1>2, <2>1
  <2>3. t < c /\ (t = c \/ c < t) /\ t \in Int /\ c \in Int
    BY <1>1, <2>1, <2>2 DEF Subtree, Below
  <2> QED BY <2>3
<1>4. CASE IsElement(d, c)
  <2>1. ASSUME NEW m \in Subtree(d, c), m \in Hidden(d, n)
        PROVE  m \in Hidden(d, c)
    <3>1. PICK t \in Templates(d, n) : m \in Below(d, t)
      BY <2>1 DEF Hidden
    <3>2. t \in Below(d, n) /\ IsTemplate(d, t)
      BY DEF Templates
    <3>3. t \in Subtree(d, c) /\ t # c
      BY <1>2, <1>4, <3>1, <3>2 DEF IsElement
    <3> QED BY <3>1, <3>2, <3>3 DEF Hidden, Templates, Subtree
  <2>2. Hidden(d, c) \subseteq Hidden(d, n)
    BY <1>1 DEF Hidden, Templates
  <2> QED BY <1>1, <1>4, <2>1, <2>2 DEF Visited, Seen
<1>5. CASE IsTemplate(d, c)
  <2>1. Below(d, c) \subseteq Hidden(d, n)
    BY <1>1, <1>5 DEF Hidden, Templates
  <2> QED BY <1>1, <1>3, <1>5, <2>1 DEF Visited, Subtree, IsElement
<1>6. CASE IsLeaf(d, c)
  <2>1. Below(d, c) = {}
    BY <1>1, <1>6, HiddenIsBelow
  <2> QED BY <1>1, <1>3, <1>6, <2>1 DEF Visited, Subtree, IsElement
<1>. QED BY <1>4, <1>5, <1>6 DEF IsElement

(* The children in the vector. *)
LEMMA ChildrenOfVector ==
  ASSUME NEW d, IsDocument(d), NEW n \in Nodes(d),
         NEW s, s = GumboChildren(d, n)
  PROVE  \A i \in DOMAIN s : s[i] \in ChildSet(d, n)
<1>1. IsFiniteSet(ChildSet(d, n)) /\ ChildSet(d, n) \subseteq Int
  BY SetsOfNodes DEF ChildSet
<1>2. s \in Seq(ChildSet(d, n))
  BY <1>1, InOrderElements DEF GumboChildren
<1>. QED BY <1>2

SeenOfEach(d, s, X) == [i \in DOMAIN s |-> InOrder(Visited(d, s[i]) \cap X)]

(* The children of a node, each with what is seen of it, joined. *)
LEMMA ChildrenSeen ==
  ASSUME NEW d, IsDocument(d), NEW n \in Nodes(d), NEW X, X \subseteq Nodes(d),
         NEW s, s = GumboChildren(d, n)
  PROVE  /\ FlattenSeq(SeenOfEach(d, s, X))
              = InOrder((Below(d, n) \ Hidden(d, n)) \cap X)
         /\ \A i \in DOMAIN s : s[i] \in Nodes(d) /\ n < s[i]
<1> DEFINE Y == X \ Hidden(d, n)
<1>1. AreJoined(d, n, s, Y)
  BY ChildrenJoined
<1>2. /\ FlattenSeq(OfEach(d, s, Y)) = InOrder(Below(d, n) \cap Y)
      /\ \A i \in DOMAIN s : s[i] \in Nodes(d) /\ n < s[i]
  BY <1>1 DEF AreJoined
<1>3. \A i \in DOMAIN s : s[i] \in ChildSet(d, n)
  BY ChildrenOfVector
<1>4. ASSUME NEW i \in DOMAIN s
      PROVE  Subtree(d, s[i]) \cap Y = Visited(d, s[i]) \cap X
  <2>1. Subtree(d, s[i]) \ Hidden(d, n) = Visited(d, s[i])
    BY <1>3, HiddenInChild
  <2> QED BY <2>1
<1>5. OfEach(d, s, Y) = SeenOfEach(d, s, X)
  BY <1>4 DEF OfEach, SeenOfEach
<1>6. Below(d, n) \cap Y = (Below(d, n) \ Hidden(d, n)) \cap X
  OBVIOUS
<1>. QED BY <1>2, <1>5, <1>6

(* findNodesRecursive and matchSubNodesInDepth of GumboHtmlNode list a     *)
(* node and what is seen below it, in order.                               *)
LEMMA GumboDepthWalk ==
  ASSUME NEW d, IsDocument(d), NEW n \in Nodes(d), NEW X
  PROVE  GumboMatchSubNodesInDepth(d, n, X) = InOrder(Visited(d, n) \cap X)
<1> DEFINE N == Len(d.parent)
           Kids(m) == GumboChildren(d, m)
           Walk(f) == f = [m \in Nodes(d) |->
                             IF ~IsElement(d, m) THEN <<m>>
                             ELSE <<m>> \o FlattenSeq([i \in DOMAIN Kids(m) |->
                                                         f[Kids(m)[i]]])]
           g == [m \in Nodes(d) |-> InOrder(Visited(d, m))]
<1>1. N \in Nat /\ Nodes(d) = 1..N
  BY NumberedNodes
<1>2. ASSUME NEW m \in Nodes(d)
      PROVE  \A i \in DOMAIN Kids(m) : Kids(m)[i] \in Nodes(d) /\ m < Kids(m)[i]
  BY ChildrenSeen
<1>3. ASSUME NEW m \in Nodes(d), IsElement(d, m)
      PROVE  InOrder(Visited(d, m))
               = <<m>> \o FlattenSeq([i \in DOMAIN Kids(m) |->
                                        InOrder(Visited(d, Kids(m)[i]))])
  <2> DEFINE B == Below(d, m) \ Hidden(d, m)
  <2>1. Visited(d, m) = {m} \cup B /\ B \subseteq Below(d, m)
    BY <1>3, HiddenIsBelow DEF Visited
  <2>2. B \cap Nodes(d) = B
    BY DEF Below
  <2>3. FlattenSeq(SeenOfEach(d, Kids(m), Nodes(d))) = InOrder(B \cap Nodes(d))
    BY ChildrenSeen
  <2>4. \A i \in DOMAIN Kids(m) :
          Visited(d, Kids(m)[i]) \cap Nodes(d) = Visited(d, Kids(m)[i])
    BY <1>2, HiddenIsBelow
  <2>5. SeenOfEach(d, Kids(m), Nodes(d))
          = [i \in DOMAIN Kids(m) |-> InOrder(Visited(d, Kids(m)[i]))]
    BY <2>4 DEF SeenOfEach
  <2> HIDE DEF B
  <2>6. InOrder({m} \cup B) = <<m>> \o InOrder(B)
    BY <2>1, NodeThenBelow
  <2> QED BY <2>1, <2>2, <2>3, <2>5, <2>6
<1>4. ASSUME NEW m \in Nodes(d), ~IsElement(d, m)
      PROVE  InOrder(Visited(d, m)) = <<m>>
  BY <1>4, NumberedNodes, InOrderOne DEF Visited
<1> HIDE DEF Kids
<1>5. Walk(g)
  <2>1. ASSUME NEW m \in Nodes(d)
        PROVE  g[m] = IF ~IsElement(d, m) THEN <<m>>
                      ELSE <<m>> \o FlattenSeq([i \in DOMAIN Kids(m) |->
                                                  g[Kids(m)[i]]])
    <3>1. [i \in DOMAIN Kids(m) |-> g[Kids(m)[i]]]
            = [i \in DOMAIN Kids(m) |-> InOrder(Visited(d, Kids(m)[i]))]
      BY <1>2
    <3> QED BY <1>3, <1>4, <3>1
  <2> QED BY <2>1
<1>6. PICK f : Walk(f) /\ GumboMatchSubNodesInDepth(d, n, X) = OnlyIn(f[n], X)
  BY <1>5 DEF GumboMatchSubNodesInDepth, Kids
<1>7. \A m \in Nodes(d) :
        /\ f[m] = IF ~IsElement(d, m) THEN <<m>>
                  ELSE <<m>> \o FlattenSeq([i \in DOMAIN Kids(m) |->
                                              f[Kids(m)[i]]])
        /\ g[m] = IF ~IsElement(d, m) THEN <<m>>
                  ELSE <<m>> \o FlattenSeq([i \in DOMAIN Kids(m) |->
                                              g[Kids(m)[i]]])
  <2> HIDE DEF g
  <2> QED BY <1>5, <1>6
<1> HIDE DEF g, Walk
<1>8. EqualFromAbove(f, g, N)
  <2> SUFFICES ASSUME NEW m \in Nodes(d),
                      \A k \in Nodes(d) : m < k => f[k] = g[k]
               PROVE  f[m] = g[m]
    BY <1>1 DEF EqualFromAbove
  <2>1. \A i \in DOMAIN Kids(m) : f[Kids(m)[i]] = g[Kids(m)[i]]
    BY <1>2
  <2>2. [i \in DOMAIN Kids(m) |-> f[Kids(m)[i]]]
          = [i \in DOMAIN Kids(m) |-> g[Kids(m)[i]]]
    BY <2>1
  <2> QED BY <1>7, <2>2
<1>9. f[n] = g[n]
  BY <1>1, <1>8, SameFromAbove
<1>10. g[n] = InOrder(Visited(d, n))
  BY DEF g
<1>11. IsFiniteSet(Visited(d, n)) /\ Visited(d, n) \subseteq Int
  BY HiddenIsBelow, SetsOfNodes
<1>12. OnlyIn(InOrder(Visited(d, n)), X) = InOrder(Visited(d, n) \cap X)
  BY <1>11, WithoutInOrder
<1>. QED BY <1>6, <1>9, <1>10, <1>12

Texts(d) == {m \in Nodes(d) : IsText(d, m)}
MyHtmlTextsOf(d) == {m \in Nodes(d) : HasTextTag(d, m)}

(* cutSubNodesAndGetPlainText of GumboHtmlNode lists the texts seen below  *)
(* a node, in order.                                                       *)
LEMMA GumboTextWalk ==
  ASSUME NEW d, IsDocument(d), NEW n \in Nodes(d)
  PROVE  GumboPlainText(d, n) = InOrder(Seen(d, n) \cap Texts(d))
<1> DEFINE N == Len(d.parent)
           T == Texts(d)
           Kids(m) == GumboChildren(d, m)
           Cut(f, m) == [i \in DOMAIN Kids(m) |->
                           IF IsCut(d, Kids(m)[i]) THEN f[Kids(m)[i]]
                                                   ELSE <<>>]
           Walk(f) == f = [m \in Nodes(d) |->
                             IF IsText(d, m) THEN <<GumboText(d, m)>>
                             ELSE FlattenSeq(Cut(f, m))]
           g == [m \in Nodes(d) |-> InOrder(Seen(d, m) \cap T)]
<1>1. N \in Nat /\ Nodes(d) = 1..N
  BY NumberedNodes
<1>2. ASSUME NEW m \in Nodes(d)
      PROVE  /\ \A i \in DOMAIN Kids(m) : Kids(m)[i] \in Nodes(d) /\ m < Kids(m)[i]
             /\ FlattenSeq(SeenOfEach(d, Kids(m), T))
                  = InOrder((Below(d, m) \ Hidden(d, m)) \cap T)
  <2> DEFINE s == Kids(m)
  <2>1. T \subseteq Nodes(d) /\ s = GumboChildren(d, m)
    BY DEF Texts
  <2> HIDE DEF T, s
  <2>2. /\ FlattenSeq(SeenOfEach(d, s, T))
             = InOrder((Below(d, m) \ Hidden(d, m)) \cap T)
        /\ \A i \in DOMAIN s : s[i] \in Nodes(d) /\ m < s[i]
    BY <2>1, ChildrenSeen
  <2> QED BY <2>2 DEF s
<1>3. ASSUME NEW m \in Nodes(d)
      PROVE  /\ IsText(d, m) => InOrder(Seen(d, m) \cap T) = <<GumboText(d, m)>>
             /\ ~IsText(d, m) => Seen(d, m) \cap T
                                   = (Below(d, m) \ Hidden(d, m)) \cap T
             /\ IsCut(d, m) => Visited(d, m) \cap T = Seen(d, m) \cap T
             /\ ~IsCut(d, m) => InOrder(Visited(d, m) \cap T) = <<>>
  <2>1. Seen(d, m) = {m} \cup (Below(d, m) \ Hidden(d, m))
    BY HiddenIsBelow
  <2>2. m \in T <=> IsText(d, m)
    BY DEF Texts
  <2>3. IsText(d, m) => IsLeaf(d, m) /\ ~IsElement(d, m)
    BY DEF IsText, IsLeaf, Leaves, IsElement
  <2>4. IsText(d, m) => Seen(d, m) = {m} /\ Visited(d, m) = {m}
    BY <2>3, HiddenIsBelow DEF Visited
  <2>5. InOrder({m}) = <<m>> /\ InOrder({}) = <<>>
    BY NumberedNodes, InOrderOne
  <2>6. IsText(d, m) => GumboText(d, m) = m
    BY DEF GumboText
  <2>7. ~IsCut(d, m) => Visited(d, m) \cap T = {}
    BY <2>2 DEF IsCut, Visited
  <2>8. IsText(d, m) => Seen(d, m) \cap T = {m}
    BY <2>2, <2>4
  <2>9. IsCut(d, m) => Visited(d, m) = Seen(d, m)
    BY <2>4 DEF IsCut, Visited
  <2> HIDE DEF T
  <2> QED BY <2>1, <2>2, <2>5, <2>6, <2>7, <2>8, <2>9
<1> HIDE DEF T
<1>4. ASSUME NEW m \in Nodes(d), ~IsText(d, m)
      PROVE  FlattenSeq(Cut(g, m)) = InOrder(Seen(d, m) \cap T)
  <2>1. \A i \in DOMAIN Kids(m) :
          (IF IsCut(d, Kids(m)[i]) THEN g[Kids(m)[i]] ELSE <<>>)
            = InOrder(Visited(d, Kids(m)[i]) \cap T)
    BY <1>2, <1>3
  <2>2. Cut(g, m) = SeenOfEach(d, Kids(m), T)
    BY <2>1 DEF SeenOfEach
  <2> QED BY <1>2, <1>3, <1>4, <2>2
<1>5. Walk(g)
  <2> HIDE DEF Cut
  <2>1. ASSUME NEW m \in Nodes(d)
        PROVE  g[m] = IF IsText(d, m) THEN <<GumboText(d, m)>>
                      ELSE FlattenSeq(Cut(g, m))
    BY <1>3, <1>4
  <2> QED BY <2>1
<1>6. PICK f : Walk(f) /\ GumboPlainText(d, n) = f[n]
  BY <1>5 DEF GumboPlainText
<1> HIDE DEF Kids
<1>7. \A m \in Nodes(d) :
        /\ f[m] = IF IsText(d, m) THEN <<GumboText(d, m)>>
                  ELSE FlattenSeq(Cut(f, m))
        /\ g[m] = IF IsText(d, m) THEN <<GumboText(d, m)>>
                  ELSE FlattenSeq(Cut(g, m))
  <2> HIDE DEF g, Cut
  <2> QED BY <1>5, <1>6
<1> HIDE DEF g, Walk
<1>8. EqualFromAbove(f, g, N)
  <2> SUFFICES ASSUME NEW m \in Nodes(d),
                      \A k \in Nodes(d) : m < k => f[k] = g[k]
               PROVE  f[m] = g[m]
    BY <1>1 DEF EqualFromAbove
  <2>1. \A i \in DOMAIN Kids(m) : f[Kids(m)[i]] = g[Kids(m)[i]]
    BY <1>2 DEF Kids
  <2>2. Cut(f, m) = Cut(g, m)
    BY <2>1
  <2> HIDE DEF Cut
  <2> QED BY <1>7, <2>2
<1>9. f[n] = g[n]
  BY <1>1, <1>8, SameFromAbove
<1>10. g[n] = InOrder(Seen(d, n) \cap T)
  BY DEF g
<1>. QED BY <1>6, <1>9, <1>10 DEF T

(* What MyHtmlNode takes for a text is a leaf; another node has those that *)
(* are below it.                                                           *)
LEMMA TextsOfSubtree ==
  ASSUME NEW d, IsDocument(d), NEW n \in Nodes(d)
  PROVE  /\ HasTextTag(d, n) =>
              /\ Subtree(d, n) \cap MyHtmlTextsOf(d) = {n}
              /\ Text(d, n) = NoNode
              /\ InOrder({n}) = <<n>>
              /\ Blank(<<n>>) = <<NoNode>>
         /\ ~HasTextTag(d, n) => Subtree(d, n) \cap MyHtmlTextsOf(d)
                                   = Below(d, n) \cap MyHtmlTextsOf(d)
<1>1. ASSUME HasTextTag(d, n)
      PROVE  /\ Subtree(d, n) \cap MyHtmlTextsOf(d) = {n}
             /\ Text(d, n) = NoNode
             /\ InOrder({n}) = <<n>>
             /\ Blank(<<n>>) = <<NoNode>>
  <2>1. ChildSet(d, n) = {}
    BY <1>1, KindsAssumption DEF IsDocument, HasTextTag, IsLeaf
  <2>2. Below(d, n) = {}
    BY <2>1, BelowIsChildren
  <2>3. Text(d, n) = NoNode
    <3>1. {m \in ChildSet(d, n) : HasTextTag(d, m)} = {}
      BY <2>1
    <3> QED BY <3>1, FirstElement DEF Text
  <2>4. InOrder({n}) = <<n>>
    BY NumberedNodes, InOrderOne
  <2>5. Blank(<<n>>) = <<NoNode>>
    BY DEF Blank, NoNode
  <2> QED BY <1>1, <2>2, <2>3, <2>4, <2>5 DEF Subtree, MyHtmlTextsOf
<1>2. ~HasTextTag(d, n) => Subtree(d, n) \cap MyHtmlTextsOf(d)
                             = Below(d, n) \cap MyHtmlTextsOf(d)
  BY DEF Subtree, MyHtmlTextsOf
<1>. QED BY <1>1, <1>2

(* That of MyHtmlNode goes through all it takes for texts and leaves each  *)
(* empty.                                                                  *)
LEMMA TextWalk ==
  ASSUME NEW d, IsDocument(d), NEW n \in Nodes(d)
  PROVE  PlainText(d, n) = Blank(InOrder(Subtree(d, n) \cap MyHtmlTextsOf(d)))
<1> DEFINE N == Len(d.parent)
           T == MyHtmlTextsOf(d)
           Kids(m) == ChildrenInternal(d, m)
           Walk(f) == f = [m \in Nodes(d) |->
                             IF HasTextTag(d, m) THEN <<Text(d, m)>>
                             ELSE FlattenSeq([i \in DOMAIN Kids(m) |->
                                                f[Kids(m)[i]]])]
           g == [m \in Nodes(d) |-> Blank(InOrder(Subtree(d, m) \cap T))]
<1>1. N \in Nat /\ Nodes(d) = 1..N
  BY NumberedNodes
<1>2. ASSUME NEW m \in Nodes(d)
      PROVE  /\ Kids(m) = GumboChildren(d, m)
             /\ \A i \in DOMAIN Kids(m) : /\ Kids(m)[i] \in Nodes(d)
                                          /\ m < Kids(m)[i]
  <2>1. Kids(m) = GumboChildren(d, m)
    BY ChildrenWalk DEF GumboChildren
  <2> QED BY <2>1, ChildrenJoined DEF AreJoined
<1> HIDE DEF Kids, T
<1>3. ASSUME NEW m \in Nodes(d)
      PROVE  Blank(InOrder(Subtree(d, m) \cap T))
               = IF HasTextTag(d, m) THEN <<Text(d, m)>>
                 ELSE FlattenSeq(BlankOfEach(d, Kids(m), T))
  <2>1. Kids(m) = GumboChildren(d, m)
    BY <1>2
  <2>2. FlattenSeq(BlankOfEach(d, Kids(m), T))
          = Blank(InOrder(Below(d, m) \cap T))
    <3>1. AreJoined(d, m, Kids(m), T)
      BY <2>1, ChildrenJoined
    <3> QED BY <3>1 DEF AreJoined
  <2>3. CASE HasTextTag(d, m)
    <3>1. /\ Subtree(d, m) \cap T = {m} /\ InOrder({m}) = <<m>>
          /\ Blank(<<m>>) = <<NoNode>> /\ Text(d, m) = NoNode
      BY <2>3, TextsOfSubtree DEF T
    <3>2. Blank(InOrder(Subtree(d, m) \cap T)) = <<Text(d, m)>>
      BY <3>1
    <3> QED BY <2>3, <3>2
  <2>4. CASE ~HasTextTag(d, m)
    <3>1. Subtree(d, m) \cap T = Below(d, m) \cap T
      BY <2>4, TextsOfSubtree DEF T
    <3> QED BY <2>2, <2>4, <3>1
  <2> QED BY <2>3, <2>4
<1>4. Walk(g)
  <2>1. ASSUME NEW m \in Nodes(d)
        PROVE  g[m] = IF HasTextTag(d, m) THEN <<Text(d, m)>>
                      ELSE FlattenSeq([i \in DOMAIN Kids(m) |-> g[Kids(m)[i]]])
    <3>1. [i \in DOMAIN Kids(m) |-> g[Kids(m)[i]]] = BlankOfEach(d, Kids(m), T)
      BY <1>2 DEF BlankOfEach
    <3> QED BY <1>3, <3>1
  <2> QED BY <2>1
<1>5. PICK f : Walk(f) /\ PlainText(d, n) = f[n]
  BY <1>4 DEF PlainText, Kids
<1>6. \A m \in Nodes(d) :
        /\ f[m] = IF HasTextTag(d, m) THEN <<Text(d, m)>>
                  ELSE FlattenSeq([i \in DOMAIN Kids(m) |-> f[Kids(m)[i]]])
        /\ g[m] = IF HasTextTag(d, m) THEN <<Text(d, m)>>
                  ELSE FlattenSeq([i \in DOMAIN Kids(m) |-> g[Kids(m)[i]]])
  <2> HIDE DEF g
  <2> QED BY <1>4, <1>5
<1> HIDE DEF g, Walk
<1>7. EqualFromAbove(f, g, N)
  <2> SUFFICES ASSUME NEW m \in Nodes(d),
                      \A k \in Nodes(d) : m < k => f[k] = g[k]
               PROVE  f[m] = g[m]
    BY <1>1 DEF EqualFromAbove
  <2>1. \A i \in DOMAIN Kids(m) : f[Kids(m)[i]] = g[Kids(m)[i]]
    BY <1>2
  <2>2. [i \in DOMAIN Kids(m) |-> f[Kids(m)[i]]]
          = [i \in DOMAIN Kids(m) |-> g[Kids(m)[i]]]
    BY <2>1
  <2> QED BY <1>6, <2>2
<1>8. f[n] = g[n]
  BY <1>1, <1>7, SameFromAbove
<1>9. g[n] = Blank(InOrder(Subtree(d, n) \cap T))
  BY DEF g
<1>. QED BY <1>5, <1>8, <1>9 DEF T

(* What the properties take for the nodes below a node are those. *)
LEMMA DescendantsAreBelow ==
  ASSUME NEW d, IsDocument(d), NEW n \in Nodes(d)
  PROVE  Descendants(d, n) = Below(d, n)
<1> DEFINE N == Len(d.parent)
           Walk(f) == f = [m \in Nodes(d) |->
                             ChildSet(d, m)
                               \cup UNION {f[k] : k \in ChildSet(d, m)}]
           g == [m \in Nodes(d) |-> Below(d, m)]
<1>1. N \in Nat /\ Nodes(d) = 1..N
  BY NumberedNodes
<1>2. ASSUME NEW m \in Nodes(d)
      PROVE  /\ ChildSet(d, m) \subseteq Nodes(d)
             /\ \A c \in ChildSet(d, m) : m < c
             /\ Below(d, m) = ChildSet(d, m)
                  \cup UNION {Below(d, k) : k \in ChildSet(d, m)}
  BY WalksGoOn, BelowIsChildren DEF Subtree
<1>3. Walk(g)
  <2>1. ASSUME NEW m \in Nodes(d)
        PROVE  g[m] = ChildSet(d, m) \cup UNION {g[k] : k \in ChildSet(d, m)}
    <3>1. {g[k] : k \in ChildSet(d, m)} = {Below(d, k) : k \in ChildSet(d, m)}
      BY <1>2
    <3> QED BY <1>2, <3>1
  <2> QED BY <2>1
<1>4. PICK f : Walk(f) /\ Descendants(d, n) = f[n]
  BY <1>3 DEF Descendants
<1>5. \A m \in Nodes(d) :
        /\ f[m] = ChildSet(d, m) \cup UNION {f[k] : k \in ChildSet(d, m)}
        /\ g[m] = ChildSet(d, m) \cup UNION {g[k] : k \in ChildSet(d, m)}
  <2> HIDE DEF g
  <2> QED BY <1>3, <1>4
<1> HIDE DEF g, Walk
<1>6. EqualFromAbove(f, g, N)
  <2> SUFFICES ASSUME NEW m \in Nodes(d),
                      \A k \in Nodes(d) : m < k => f[k] = g[k]
               PROVE  f[m] = g[m]
    BY <1>1 DEF EqualFromAbove
  <2>1. {f[k] : k \in ChildSet(d, m)} = {g[k] : k \in ChildSet(d, m)}
    BY <1>2
  <2> QED BY <1>5, <2>1
<1>7. f[n] = g[n]
  BY <1>1, <1>6, SameFromAbove
<1>8. g[n] = Below(d, n)
  BY DEF g
<1>. QED BY <1>4, <1>7, <1>8

(* So are those that are in templates. *)
LEMMA TemplatesHide ==
  ASSUME NEW d, IsDocument(d), NEW n \in Nodes(d)
  PROVE  InTemplates(d, n) = Hidden(d, n)
<1>1. {m \in Descendants(d, n) : IsTemplate(d, m)} = Templates(d, n)
  BY DescendantsAreBelow DEF Templates
<1>2. \A t \in Templates(d, n) : Descendants(d, t) = Below(d, t)
  BY DescendantsAreBelow DEF Templates, Below
<1>3. {Descendants(d, t) : t \in Templates(d, n)}
        = {Below(d, t) : t \in Templates(d, n)}
  BY <1>2
<1>. QED BY <1>1, <1>3 DEF InTemplates, Hidden

-----------------------------------------------------------------------------
(* What the two implementations of a node agree on.                        *)

(* MyHtmlNode lists what is below a node, GumboHtmlNode the node itself as *)
(* well, and nothing that is in a template.                                *)
LEMMA WalksDo ==
  ASSUME NEW d, IsDocument(d)
  PROVE  WalksAgree(d)
<1> SUFFICES ASSUME NEW n \in Nodes(d), NEW tag \in TagsAskedFor(d)
             PROVE  /\ MatchSubNodesInDepth(d, n, WithTagId(d, tag))
                         = InOrder(WithTagId(d, tag) \cap Descendants(d, n))
                    /\ IsElement(d, n) =>
                         GumboMatchSubNodesInDepth(d, n, Elements(d, tag))
                           = InOrder(Elements(d, tag)
                                       \cap ((Descendants(d, n) \cup {n})
                                                \ InTemplates(d, n)))
  BY DEF WalksAgree
<1>1. Descendants(d, n) = Below(d, n) /\ InTemplates(d, n) = Hidden(d, n)
  BY DescendantsAreBelow, TemplatesHide
<1>2. IsElement(d, n) =>
        Visited(d, n) = (Descendants(d, n) \cup {n}) \ InTemplates(d, n)
  BY <1>1 DEF Visited, Seen, Subtree
<1>3. ASSUME NEW S, NEW T
      PROVE  S \cap T = T \cap S
  OBVIOUS
<1>4. MatchSubNodesInDepth(d, n, WithTagId(d, tag))
        = InOrder(Below(d, n) \cap WithTagId(d, tag))
  BY DepthWalk
<1>5. GumboMatchSubNodesInDepth(d, n, Elements(d, tag))
        = InOrder(Visited(d, n) \cap Elements(d, tag))
  BY GumboDepthWalk
<1>. QED BY <1>1, <1>2, <1>3, <1>4, <1>5

(* The siblings of MyHtmlNode are the vector of GumboHtmlNode, and the     *)
(* index counts those before a child.                                      *)
LEMMA ChildrenDo ==
  ASSUME NEW d, IsDocument(d)
  PROVE  ChildrenAgree(d)
<1> SUFFICES ASSUME NEW n \in Nodes(d)
             PROVE  /\ ChildrenInternal(d, n) = GumboChildren(d, n)
                    /\ \A i \in DOMAIN ChildrenInternal(d, n) :
                         ChildIndex(d, ChildrenInternal(d, n)[i]) = i - 1
  BY DEF ChildrenAgree
<1>1. ChildrenInternal(d, n) = InOrder(ChildSet(d, n))
  BY ChildrenWalk
<1>2. IsFiniteSet(ChildSet(d, n)) /\ ChildSet(d, n) \subseteq Int
  BY SetsOfNodes DEF ChildSet
<1>3. InOrder(ChildSet(d, n)) \in Seq(ChildSet(d, n))
  BY <1>2, InOrderElements
<1>4. DOMAIN InOrder(ChildSet(d, n)) = 1..Len(InOrder(ChildSet(d, n)))
  BY <1>3
<1>5. \A i \in DOMAIN InOrder(ChildSet(d, n)) :
        ChildIndex(d, InOrder(ChildSet(d, n))[i]) = i - 1
  BY <1>4, IndexOfChild
<1>. QED BY <1>1, <1>5 DEF GumboChildren

(* The first of a set of nodes is the head of the list of them. *)
LEMMA FirstIsHead ==
  ASSUME NEW d, IsDocument(d), NEW S, S \subseteq Nodes(d)
  PROVE  First(S) = IF InOrder(S) = <<>> THEN NoNode ELSE Head(InOrder(S))
<1>1. IsFiniteSet(S) /\ S \subseteq Int /\ S \subseteq Nat
  BY SetsOfNodes
<1>2. InOrder(S) = <<>> <=> S = {}
  BY <1>1, HeadInOrder
<1>3. S # {} => First(S) = Head(InOrder(S))
  BY <1>1, HeadInOrder, FirstElement
<1>4. S = {} => First(S) = NoNode
  BY <1>1, FirstElement
<1>. QED BY <1>2, <1>3, <1>4

(* The lookups among the children, as sets. *)
LEMMA ChildrenWith ==
  ASSUME NEW d, IsDocument(d), NEW n \in Nodes(d), NEW tag
  PROVE  /\ MatchSubNodes(d, n, tag)
              = InOrder(ChildSet(d, n) \cap WithTagId(d, tag))
         /\ GumboMatchSubNodes(d, n, tag)
              = InOrder(ChildSet(d, n) \cap Elements(d, tag))
         /\ ToSet(ChildrenInternal(d, n)) = ChildSet(d, n)
         /\ ToSet(GumboChildren(d, n)) = ChildSet(d, n)
         /\ SubSeq(GumboChildren(d, n), 0 + 1, Len(GumboChildren(d, n)))
              = GumboChildren(d, n)
<1> DEFINE S == ChildSet(d, n)
<1>1. IsFiniteSet(S) /\ S \subseteq Int
  BY SetsOfNodes DEF ChildSet
<1>2. ChildrenInternal(d, n) = InOrder(S) /\ GumboChildren(d, n) = InOrder(S)
  BY ChildrenWalk DEF GumboChildren
<1> HIDE DEF S
<1>3. InOrder(S) \in Seq(S) /\ ToSet(InOrder(S)) = S
  BY <1>1, InOrderElements
<1>4. \A X : OnlyIn(InOrder(S), X) = InOrder(S \cap X)
  BY <1>1, WithoutInOrder
<1>5. SubSeq(InOrder(S), 0 + 1, Len(InOrder(S))) = InOrder(S)
  <2>1. \A s \in Seq(S) : SubSeq(s, 0 + 1, Len(s)) = s
    OBVIOUS
  <2> QED BY <1>3, <2>1
<1>6. MatchSubNodes(d, n, tag) = InOrder(S \cap WithTagId(d, tag))
  BY <1>2, <1>4 DEF MatchSubNodes
<1>7. GumboMatchSubNodes(d, n, tag) = InOrder(S \cap Elements(d, tag))
  BY <1>2, <1>4 DEF GumboMatchSubNodes
<1>. QED BY <1>2, <1>3, <1>5, <1>6, <1>7 DEF S

(* An element has its tag; MyHtmlNode may take a template or what its      *)
(* mapping does not know for an element of another, but of no other than   *)
(* these two.                                                              *)
LEMMA ElementsHaveTheTag ==
  ASSUME NEW d, NEW tag \in MyHtmlTags
  PROVE  /\ Elements(d, tag) \subseteq WithTagId(d, tag)
         /\ WithTagId(d, tag) \subseteq Nodes(d)
         /\ tag \notin {"html", TemplateTag} =>
              WithTagId(d, tag) = Elements(d, tag)
<1>1. Elements(d, tag) \subseteq WithTagId(d, tag)
  BY DEF Elements, WithTagId, TagId
<1>2. ASSUME tag \notin {"html", TemplateTag}, NEW m \in WithTagId(d, tag)
      PROVE  m \in Elements(d, tag)
  <2>1. m \in Nodes(d) /\ d.tag[m] = tag
    BY <1>2 DEF WithTagId, TagId
  <2>2. ~IsLeaf(d, m) /\ ~IsTemplate(d, m)
    BY <1>2, <2>1, KindsAssumption DEF IsLeaf, IsTemplate
  <2> QED BY <2>1, <2>2 DEF Elements, IsElement
<1>. QED BY <1>1, <1>2 DEF WithTagId

(* The lookups among the children of an element find the same but for what *)
(* is no element.                                                          *)
LEMMA LookupsDo ==
  ASSUME NEW d, IsDocument(d)
  PROVE  LookupsAgree(d)
<1> SUFFICES ASSUME NEW n \in Nodes(d), NEW tag \in TagsAskedFor(d)
             PROVE  LET matches == MatchSubNodes(d, n, tag)
                        gumbo == GumboMatchSubNodes(d, n, tag)
                    IN  /\ gumbo = OnlyIn(matches, Elements(d, tag))
                        /\ FirstMatchSubNode(d, n, tag)
                             = IF matches = <<>> THEN NoNode ELSE Head(matches)
                        /\ GumboFirstMatchSubNode(d, n, tag, 0)
                             = IF gumbo = <<>> THEN NoNode ELSE Head(gumbo)
                        /\ tag \notin {"html", TemplateTag} =>
                             /\ gumbo = matches
                             /\ \A haveThem \in SUBSET Nodes(d) :
                                  ChildNodeByAttributesValues(
                                      d, n, tag, haveThem)
                                    = GumboChildNodeByAttributesValues(
                                        d, n, tag, haveThem)
  BY DEF LookupsAgree
<1> DEFINE W == ChildSet(d, n) \cap WithTagId(d, tag)
           E == ChildSet(d, n) \cap Elements(d, tag)
<1>1. /\ MatchSubNodes(d, n, tag) = InOrder(W)
      /\ GumboMatchSubNodes(d, n, tag) = InOrder(E)
      /\ ToSet(ChildrenInternal(d, n)) = ChildSet(d, n)
      /\ ToSet(GumboChildren(d, n)) = ChildSet(d, n)
      /\ SubSeq(GumboChildren(d, n), 0 + 1, Len(GumboChildren(d, n)))
           = GumboChildren(d, n)
  BY ChildrenWith
<1>2. /\ W \subseteq Nodes(d) /\ E \subseteq Nodes(d)
      /\ E = W \cap Elements(d, tag)
      /\ tag \notin {"html", TemplateTag} => W = E
  BY ElementsHaveTheTag DEF ChildSet, TagsAskedFor
<1>3. /\ IsFiniteSet(W) /\ W \subseteq Int
  <2> HIDE DEF W
  <2> QED BY <1>2, SetsOfNodes
<1>4. FirstMatchSubNode(d, n, tag) = First(W)
  BY FirstMatchWalk
<1>5. GumboFirstMatchSubNode(d, n, tag, 0) = First(E)
  BY <1>1 DEF GumboFirstMatchSubNode
<1>6. ASSUME tag \notin {"html", TemplateTag}, NEW haveThem
      PROVE  ChildNodeByAttributesValues(d, n, tag, haveThem)
               = GumboChildNodeByAttributesValues(d, n, tag, haveThem)
  <2>1. W \cap haveThem = E \cap haveThem
    BY <1>2, <1>6
  <2> QED BY <1>1, <2>1 DEF ChildNodeByAttributesValues,
                            GumboChildNodeByAttributesValues
<1> HIDE DEF W, E
<1>7. InOrder(E) = OnlyIn(InOrder(W), Elements(d, tag))
  BY <1>2, <1>3, WithoutInOrder
<1>8. /\ First(W) = IF InOrder(W) = <<>> THEN NoNode ELSE Head(InOrder(W))
      /\ First(E) = IF InOrder(E) = <<>> THEN NoNode ELSE Head(InOrder(E))
  BY <1>2, FirstIsHead
<1>. QED BY <1>1, <1>2, <1>4, <1>5, <1>6, <1>7, <1>8

(* The text MyHtmlNode gives an element is that of its first text child,   *)
(* which the one of GumboHtmlNode is if it has one; what either lists when *)
(* it cuts the tags away is what the walks say.                            *)
LEMMA TextsDo ==
  ASSUME NEW d, IsDocument(d)
  PROVE  TextsAgree(d)
<1> SUFFICES ASSUME NEW n \in Nodes(d)
             PROVE  LET subtree == Descendants(d, n) \cup {n}
                    IN  /\ ~IsLeaf(d, n) /\ GumboText(d, n) # NoNode
                             => GumboText(d, n) = Text(d, n)
                        /\ GumboPlainText(d, n)
                             = InOrder({m \in subtree \ InTemplates(d, n) :
                                          IsText(d, m)})
                        /\ Len(PlainText(d, n))
                             = Cardinality({m \in subtree : HasTextTag(d, m)})
                        /\ ToSet(PlainText(d, n)) \subseteq {NoNode}
  BY DEF TextsAgree
<1> DEFINE T == Subtree(d, n) \cap MyHtmlTextsOf(d)
           G == Seen(d, n) \cap Texts(d)
           C == ChildSet(d, n)
           c == Head(GumboChildren(d, n))
<1>1. GumboPlainText(d, n) = InOrder(G) /\ PlainText(d, n) = Blank(InOrder(T))
  BY GumboTextWalk, TextWalk
<1>2. /\ Descendants(d, n) \cup {n} = Subtree(d, n)
      /\ InTemplates(d, n) = Hidden(d, n)
      /\ Subtree(d, n) \subseteq Nodes(d)
  BY DescendantsAreBelow, TemplatesHide, SubtreeInOrder DEF Subtree
<1>3. /\ T = {m \in Descendants(d, n) \cup {n} : HasTextTag(d, m)}
      /\ T \subseteq Nodes(d)
      /\ G = {m \in (Descendants(d, n) \cup {n}) \ InTemplates(d, n) :
                IsText(d, m)}
  BY <1>2 DEF MyHtmlTextsOf, Texts, Seen
<1>4. ASSUME ~IsLeaf(d, n), GumboText(d, n) # NoNode
      PROVE  GumboText(d, n) = Text(d, n)
  <2>1. /\ GumboChildren(d, n) # <<>> /\ IsText(d, c)
        /\ GumboText(d, n) = c /\ HasTextTag(d, c)
    BY <1>4, KindsAssumption DEF GumboText, IsText, IsLeaf, Leaves, HasTextTag
  <2>2. IsFiniteSet(C) /\ C \subseteq Int /\ C \subseteq Nat
    BY SetsOfNodes DEF ChildSet
  <2>3. GumboChildren(d, n) = InOrder(C)
    BY DEF GumboChildren
  <2> HIDE DEF C
  <2>4. c \in C /\ \A m \in C : c <= m
    BY <2>1, <2>2, <2>3, HeadInOrder
  <2> HIDE DEF c
  <2>5. First({m \in C : HasTextTag(d, m)}) = c
    <3> DEFINE S == {m \in C : HasTextTag(d, m)}
    <3>1. c \in S /\ S \subseteq Nat /\ \A m \in S : c <= m
      BY <2>1, <2>2, <2>4
    <3> HIDE DEF S
    <3>2. First(S) = c
      BY <3>1, FirstElement
    <3> QED BY <3>2 DEF S
  <2> QED BY <2>1, <2>5 DEF C, Text
<1> HIDE DEF T, G, C, c
<1>5. InOrder(T) \in Seq(Int) /\ Len(InOrder(T)) = Cardinality(T)
  <2>1. IsFiniteSet(T) /\ T \subseteq Int
    BY <1>3, SetsOfNodes
  <2>2. InOrder(T) \in Seq(T) /\ Len(InOrder(T)) = Cardinality(T)
    BY <2>1, InOrderElements
  <2> QED BY <2>1, <2>2, WiderSeq
<1>6. /\ Len(Blank(InOrder(T))) = Len(InOrder(T))
      /\ ToSet(Blank(InOrder(T))) \subseteq {NoNode}
  BY <1>5, BlankElements DEF NoNode
<1>. QED BY <1>1, <1>3, <1>4, <1>5, <1>6

-----------------------------------------------------------------------------
(* What the two parsers agree on.                                          *)

(* The whole document is below its first node. *)
LEMMA AllAreBelow ==
  ASSUME NEW d, IsDocument(d)
  PROVE  /\ 1 \in Nodes(d)
         /\ Subtree(d, 1) = Nodes(d)
         /\ Below(d, 1) = Nodes(d) \ {1}
<1>1. /\ 1 \in Nodes(d)
      /\ \A k \in Nodes(d) : k \in Nat /\ k # 0 /\ d.parent[k] \in Nat
  BY NumberedNodes DEF NoNode
<1>2. \A k \in Nodes(d) : k # 1 => d.parent[k] # 0
  BY DEF IsDocument, NoNode
<1>3. \A k \in Nodes(d) : k # 1 => 1 <= d.parent[k] /\ 1 < k
  BY <1>1, <1>2
<1>4. Below(d, 1) = Nodes(d) \ {1}
  BY <1>1, <1>3 DEF Below
<1>. QED BY <1>1, <1>4 DEF Subtree

(* findNodesRecursive from the first node, which is an element, lists the  *)
(* nodes that match and are in no template.                                *)
LEMMA GumboFindsAll ==
  ASSUME NEW d, IsPage(d), NEW S, S \subseteq Nodes(d)
  PROVE  GumboNodes(d, S) = InOrder(S \ Unseen(d))
<1>1. IsDocument(d) /\ IsElement(d, 1)
  BY DEF IsPage
<1>2. 1 \in Nodes(d) /\ Subtree(d, 1) = Nodes(d)
  BY <1>1, AllAreBelow
<1>3. GumboMatchSubNodesInDepth(d, 1, S) = InOrder(Visited(d, 1) \cap S)
  BY <1>1, <1>2, GumboDepthWalk
<1>4. Unseen(d) = Hidden(d, 1)
  BY <1>1, <1>2, TemplatesHide DEF Unseen
<1>5. Visited(d, 1) \cap S = S \ Unseen(d)
  BY <1>1, <1>2, <1>4 DEF Visited, Seen
<1>. QED BY <1>3, <1>5 DEF GumboNodes

ValuesAt(f, s) == [i \in DOMAIN s |-> f[s[i]]]

(* The values of a set of nodes: as many as there are nodes. *)
LEMMA ValuesOfSet ==
  ASSUME NEW d, IsDocument(d), NEW S, S \subseteq Nodes(d), NEW f
  PROVE  /\ Len(ValuesAt(f, InOrder(S))) = Cardinality(S)
         /\ ToSet(ValuesAt(f, InOrder(S))) = {f[n] : n \in S}
         /\ ValuesAt(f, InOrder(S)) \in Seq({f[n] : n \in S})
         /\ Cardinality(S) \in Nat
<1>1. IsFiniteSet(S) /\ S \subseteq Int
  BY SetsOfNodes
<1>2. /\ InOrder(S) \in Seq(S) /\ Len(InOrder(S)) = Cardinality(S)
      /\ ToSet(InOrder(S)) = S
  BY <1>1, InOrderElements
<1>3. Cardinality(S) \in Nat
  BY <1>1, FS_CardinalityType
<1> DEFINE s == InOrder(S)
<1>4. /\ DOMAIN s = 1..Cardinality(S) /\ \A i \in DOMAIN s : s[i] \in S
      /\ \A n \in S : \E i \in DOMAIN s : s[i] = n
  BY <1>2 DEF ToSet
<1> HIDE DEF s
<1>5. ValuesAt(f, s) = [i \in 1..Cardinality(S) |-> f[s[i]]]
  BY <1>4 DEF ValuesAt
<1>6. /\ ValuesAt(f, s) \in Seq({f[n] : n \in S})
      /\ Len(ValuesAt(f, s)) = Cardinality(S)
      /\ DOMAIN ValuesAt(f, s) = 1..Cardinality(S)
  BY <1>3, <1>4, <1>5
<1>7. ToSet(ValuesAt(f, s)) = {f[n] : n \in S}
  BY <1>4, <1>5 DEF ToSet
<1>. QED BY <1>3, <1>6, <1>7 DEF s

(* So the hrefs of a set of nodes. *)
LEMMA HrefsOfSet ==
  ASSUME NEW d, IsDocument(d), NEW S, S \subseteq Nodes(d)
  PROVE  /\ Len(Hrefs(d, InOrder(S))) = Cardinality(S)
         /\ ToSet(Hrefs(d, InOrder(S))) = {d.href[n] : n \in S}
         /\ Hrefs(d, InOrder(S)) \in Seq({d.href[n] : n \in S})
         /\ Cardinality(S) \in Nat
<1>1. Hrefs(d, InOrder(S)) = ValuesAt(d.href, InOrder(S))
  BY DEF Hrefs, ValuesAt
<1>. QED BY <1>1, ValuesOfSet

AreHalves(S, A, B) == A \cup B = S /\ A \cap B = {}

(* Links put into one of two lists. *)
LEMMA LinksInTwoLists ==
  ASSUME NEW d, IsDocument(d), NEW S, S \subseteq Nodes(d),
         NEW A, NEW B, AreHalves(S, A, B)
  PROVE  /\ Len(Hrefs(d, InOrder(A))) + Len(Hrefs(d, InOrder(B)))
              = Cardinality(S)
         /\ ToSet(Hrefs(d, InOrder(A))) \cup ToSet(Hrefs(d, InOrder(B)))
              = {d.href[n] : n \in S}
<1>1. A \subseteq Nodes(d) /\ B \subseteq Nodes(d)
  BY DEF AreHalves
<1>2. /\ Len(Hrefs(d, InOrder(A))) = Cardinality(A)
      /\ Len(Hrefs(d, InOrder(B))) = Cardinality(B)
      /\ ToSet(Hrefs(d, InOrder(A))) = {d.href[n] : n \in A}
      /\ ToSet(Hrefs(d, InOrder(B))) = {d.href[n] : n \in B}
      /\ Cardinality(A) \in Nat /\ Cardinality(B) \in Nat
  BY <1>1, HrefsOfSet
<1>3. IsFiniteSet(A) /\ IsFiniteSet(B)
  BY <1>1, SetsOfNodes
<1>4. Cardinality(S) = Cardinality(A) + Cardinality(B)
  <2>1. Cardinality(A \cup B)
          = Cardinality(A) + Cardinality(B) - Cardinality(A \cap B)
    BY <1>3, FS_Union
  <2>2. Cardinality(A \cap B) = 0 /\ A \cup B = S
    BY FS_EmptySet DEF AreHalves
  <2>3. Cardinality(S) = Cardinality(A) + Cardinality(B) - 0
    BY <2>1, <2>2
  <2> QED BY <1>2, <2>3
<1>5. {d.href[n] : n \in A} \cup {d.href[n] : n \in B} = {d.href[n] : n \in S}
  BY DEF AreHalves
<1>. QED BY <1>2, <1>4, <1>5

AhrefNodes(d) == {n \in Nodes(d) : IsAhref(d, n)}
GumboAhrefNodes(d) == {n \in Nodes(d) : GumboIsAhref(d, n)} \ Unseen(d)

With(nodes, dofollow) == {n \in nodes : n \in dofollow}
WithNo(nodes, dofollow) == {n \in nodes : n \notin dofollow}

MyDofollow(d) == {n \in Nodes(d) : IsDofollowAhref(d, n)}
GumboDofollow(d) == {n \in Nodes(d) : GumboIsDofollowAhref(d, n)}

(* The lists of links, as sets of nodes. *)
LEMMA AhrefsAsSets ==
  ASSUME NEW d
  PROVE  /\ Ahrefs(d, "dofollow")
              = Hrefs(d, InOrder(With(AhrefNodes(d), MyDofollow(d))))
         /\ Ahrefs(d, "nofollow")
              = Hrefs(d, InOrder(WithNo(AhrefNodes(d), MyDofollow(d))))
<1> DEFINE A(rel) == {n \in Nodes(d) :
                        IsAhref(d, n) /\ (IsDofollowAhref(d, n)
                                            <=> rel = "dofollow")}
<1>1. /\ A("dofollow") = With(AhrefNodes(d), MyDofollow(d))
      /\ A("nofollow") = WithNo(AhrefNodes(d), MyDofollow(d))
  BY DEF With, WithNo, AhrefNodes, MyDofollow
<1>. QED BY <1>1 DEF Ahrefs

LEMMA GumboAhrefsAsSets ==
  ASSUME NEW d, IsPage(d)
  PROVE  /\ GumboAhrefs(d, "dofollow")
              = Hrefs(d, InOrder(With(GumboAhrefNodes(d), GumboDofollow(d))))
         /\ GumboAhrefs(d, "nofollow")
              = Hrefs(d, InOrder(WithNo(GumboAhrefNodes(d), GumboDofollow(d))))
<1> DEFINE B(rel) == {n \in Nodes(d) :
                        GumboIsAhref(d, n) /\ (GumboIsDofollowAhref(d, n)
                                                 <=> rel = "dofollow")}
<1>1. /\ B("dofollow") \ Unseen(d) = With(GumboAhrefNodes(d), GumboDofollow(d))
      /\ B("nofollow") \ Unseen(d)
           = WithNo(GumboAhrefNodes(d), GumboDofollow(d))
  BY DEF With, WithNo, GumboAhrefNodes, GumboDofollow
<1>2. \A rel : B(rel) \subseteq Nodes(d)
  OBVIOUS
<1>3. \A rel : GumboAhrefs(d, rel) = Hrefs(d, GumboNodes(d, B(rel)))
  BY DEF GumboAhrefs
<1> HIDE DEF B
<1>4. \A rel : GumboNodes(d, B(rel)) = InOrder(B(rel) \ Unseen(d))
  BY <1>2, GumboFindsAll
<1>. QED BY <1>1, <1>3, <1>4

(* Both lists of links that a parser finds are those of its nodes.         *)
LEMMA AhrefsOfBoth ==
  ASSUME NEW d, IsDocument(d), NEW S, S \subseteq Nodes(d), NEW D
  PROVE  /\ Len(Hrefs(d, InOrder(With(S, D))))
                + Len(Hrefs(d, InOrder(WithNo(S, D)))) = Cardinality(S)
         /\ ToSet(Hrefs(d, InOrder(With(S, D))))
                \cup ToSet(Hrefs(d, InOrder(WithNo(S, D)))) = HrefsAt(d, S)
<1>1. AreHalves(S, With(S, D), WithNo(S, D))
  BY DEF AreHalves, With, WithNo
<1>. QED BY <1>1, LinksInTwoLists DEF HrefsAt

(* A link that one parser finds and the other does not is in a template,   *)
(* or has an href that is not written as it reads.                         *)
LEMMA AhrefNodesDiffer ==
  ASSUME NEW d, IsPage(d)
  PROVE  /\ AhrefNodes(d) \ GumboAhrefNodes(d) \subseteq Unseen(d)
         /\ GumboAhrefNodes(d) \ AhrefNodes(d) \subseteq Padded(d)
<1>1. ASSUME NEW n \in Nodes(d), IsAhref(d, n)
      PROVE  GumboIsAhref(d, n)
  BY <1>1 DEF IsPage, IsAhref, GumboIsAhref, IsHttpOrHttpsScheme
<1>2. ASSUME NEW n \in Nodes(d), GumboIsAhref(d, n), d.written[n] = d.href[n]
      PROVE  IsAhref(d, n)
  BY <1>2 DEF IsAhref, GumboIsAhref
<1>. QED BY <1>1, <1>2 DEF AhrefNodes, GumboAhrefNodes, Padded

HreflangNodes(d) == {n \in Nodes(d) : IsHreflang(d, n)}
GumboHreflangNodes(d) == {n \in Nodes(d) : GumboIsHreflang(d, n)} \ Unseen(d)

(* The same of the hreflangs.                                              *)
LEMMA HreflangNodesDiffer ==
  ASSUME NEW d, IsPage(d)
  PROVE  /\ HreflangNodes(d) \ GumboHreflangNodes(d)
                \subseteq Unseen(d) \cup Reworded(d)
         /\ GumboHreflangNodes(d) \ HreflangNodes(d) \subseteq Reworded(d)
<1>1. ASSUME NEW n \in Nodes(d), IsHreflang(d, n), n \notin Reworded(d)
      PROVE  GumboIsHreflang(d, n)
  BY <1>1 DEF IsHreflang, GumboIsHreflang, IsLink, Reworded
<1>2. ASSUME NEW n \in Nodes(d), GumboIsHreflang(d, n), n \notin Reworded(d)
      PROVE  IsHreflang(d, n)
  BY <1>2 DEF IsHreflang, GumboIsHreflang, IsLink, Reworded
<1>. QED BY <1>1, <1>2 DEF HreflangNodes, GumboHreflangNodes

(* Their lists, as sets.                                                   *)
LEMMA HreflangsAsSets ==
  ASSUME NEW d, IsPage(d)
  PROVE  /\ Hreflangs(d) = ValuesAt(d.href, InOrder(HreflangNodes(d)))
         /\ GumboHreflangs(d)
              = ValuesAt(d.written, InOrder(GumboHreflangNodes(d)))
         /\ ToSet(Hreflangs(d)) = {d.href[n] : n \in HreflangNodes(d)}
         /\ ToSet(GumboHreflangs(d))
              = {d.written[n] : n \in GumboHreflangNodes(d)}
<1> DEFINE H == HreflangNodes(d)
           S == {n \in Nodes(d) : GumboIsHreflang(d, n)}
<1>1. Hreflangs(d) = ValuesAt(d.href, InOrder(H))
  BY DEF Hreflangs, Hrefs, ValuesAt, HreflangNodes
<1>2. GumboHreflangs(d) = ValuesAt(d.written, GumboNodes(d, S))
  BY DEF GumboHreflangs, ValuesAt
<1>3. S \ Unseen(d) = GumboHreflangNodes(d) /\ S \subseteq Nodes(d)
  BY DEF GumboHreflangNodes
<1> HIDE DEF S
<1>4. GumboHreflangs(d) = ValuesAt(d.written, InOrder(GumboHreflangNodes(d)))
  BY <1>2, <1>3, GumboFindsAll
<1>5. /\ IsDocument(d) /\ H \subseteq Nodes(d)
      /\ GumboHreflangNodes(d) \subseteq Nodes(d)
  BY DEF IsPage, HreflangNodes, GumboHreflangNodes
<1>6. ToSet(ValuesAt(d.href, InOrder(H))) = {d.href[n] : n \in H}
  BY <1>5, ValuesOfSet
<1>7. ToSet(ValuesAt(d.written, InOrder(GumboHreflangNodes(d))))
        = {d.written[n] : n \in GumboHreflangNodes(d)}
  BY <1>5, ValuesOfSet
<1>. QED BY <1>1, <1>4, <1>6, <1>7

(* In a plain page the parsers find the same nodes, and in one that says   *)
(* nofollow nowhere they take the same for dofollow.                       *)
LEMMA PlainPages ==
  ASSUME NEW d, IsPage(d), IsPlain(d)
  PROVE  /\ AhrefNodes(d) = GumboAhrefNodes(d)
         /\ Hreflangs(d) = GumboHreflangs(d)
         /\ Nofollow(d) = {} =>
              With(AhrefNodes(d), MyDofollow(d))
                = With(AhrefNodes(d), GumboDofollow(d))
<1>1. /\ Unseen(d) = {} /\ Reworded(d) = {}
      /\ \A n \in Nodes(d) : d.written[n] = d.href[n]
  BY DEF IsPlain, Padded
<1>2. AhrefNodes(d) = GumboAhrefNodes(d)
  BY <1>1, AhrefNodesDiffer DEF Padded
<1>3. /\ HreflangNodes(d) = GumboHreflangNodes(d)
      /\ HreflangNodes(d) \subseteq Nodes(d)
  BY <1>1, HreflangNodesDiffer DEF HreflangNodes
<1>4. Hreflangs(d) = GumboHreflangs(d)
  <2> DEFINE s == InOrder(HreflangNodes(d))
  <2>1. /\ Hreflangs(d) = ValuesAt(d.href, s)
        /\ GumboHreflangs(d) = ValuesAt(d.written, s)
    BY <1>3, HreflangsAsSets
  <2>2. \A i \in DOMAIN s : s[i] \in Nodes(d)
    <3>1. IsFiniteSet(HreflangNodes(d)) /\ HreflangNodes(d) \subseteq Int
      BY <1>3, SetsOfNodes DEF IsPage
    <3>2. s \in Seq(HreflangNodes(d))
      BY <3>1, InOrderElements
    <3> HIDE DEF s
    <3> QED BY <1>3, <3>2
  <2> QED BY <1>1, <2>1, <2>2 DEF ValuesAt
<1>5. ASSUME Nofollow(d) = {}, NEW n \in Nodes(d)
      PROVE  IsDofollowAhref(d, n) /\ GumboIsDofollowAhref(d, n)
  BY <1>5 DEF Nofollow, IsDofollowAhref, GumboIsDofollowAhref
<1>6. Nofollow(d) = {} => MyDofollow(d) = GumboDofollow(d)
  BY <1>5 DEF MyDofollow, GumboDofollow
<1>. QED BY <1>2, <1>4, <1>6

(* Both parsers find the same links and hreflangs, but where the page is   *)
(* not plain.                                                              *)
LEMMA LinksDo ==
  ASSUME NEW d, IsPage(d)
  PROVE  LinksAgree(d)
<1> DEFINE I == AhrefNodes(d)  D == MyDofollow(d)
           J == GumboAhrefNodes(d)  E == GumboDofollow(d)
           differ == Unseen(d) \cup Padded(d) \cup Reworded(d)
<1>1. IsDocument(d) /\ I \subseteq Nodes(d) /\ J \subseteq Nodes(d)
  BY DEF IsPage, AhrefNodes, GumboAhrefNodes
<1>2. /\ Ahrefs(d, "dofollow") = Hrefs(d, InOrder(With(I, D)))
      /\ Ahrefs(d, "nofollow") = Hrefs(d, InOrder(WithNo(I, D)))
      /\ GumboAhrefs(d, "dofollow") = Hrefs(d, InOrder(With(J, E)))
      /\ GumboAhrefs(d, "nofollow") = Hrefs(d, InOrder(WithNo(J, E)))
  BY AhrefsAsSets, GumboAhrefsAsSets
<1>3. I \ J \subseteq Unseen(d) /\ J \ I \subseteq Padded(d)
  BY AhrefNodesDiffer
<1>4. /\ IsPlain(d) => I = J /\ Hreflangs(d) = GumboHreflangs(d)
      /\ IsPlain(d) /\ Nofollow(d) = {} => With(I, D) = With(I, E)
  BY PlainPages
<1>5. /\ ToSet(Hreflangs(d)) \ ToSet(GumboHreflangs(d))
           \subseteq HrefsAt(d, differ)
      /\ ToSet(GumboHreflangs(d)) \ ToSet(Hreflangs(d))
           \subseteq {d.written[n] : n \in differ}
  <2> DEFINE H == HreflangNodes(d)  K == GumboHreflangNodes(d)
  <2>1. /\ ToSet(Hreflangs(d)) = {d.href[n] : n \in H}
        /\ ToSet(GumboHreflangs(d)) = {d.written[n] : n \in K}
    BY HreflangsAsSets
  <2>2. /\ H \subseteq Nodes(d) /\ K \subseteq Nodes(d)
        /\ H \ K \subseteq differ /\ K \ H \subseteq differ
    BY HreflangNodesDiffer DEF HreflangNodes, GumboHreflangNodes
  <2>3. \A n \in Nodes(d) : n \notin differ => d.written[n] = d.href[n]
    BY DEF Padded
  <2> HIDE DEF H, K, differ
  <2>4. ASSUME NEW n \in H, d.href[n] \notin {d.written[m] : m \in K}
        PROVE  n \in differ
    BY <2>2, <2>3, <2>4
  <2>5. ASSUME NEW n \in K, d.written[n] \notin {d.href[m] : m \in H}
        PROVE  n \in differ
    BY <2>2, <2>3, <2>5
  <2> QED BY <2>1, <2>4, <2>5 DEF HrefsAt
<1> HIDE DEF I, J, D, E, differ
<1>6. /\ Len(Hrefs(d, InOrder(With(I, D))))
           + Len(Hrefs(d, InOrder(WithNo(I, D)))) = Cardinality(I)
      /\ ToSet(Hrefs(d, InOrder(With(I, D))))
           \cup ToSet(Hrefs(d, InOrder(WithNo(I, D)))) = HrefsAt(d, I)
  BY <1>1, AhrefsOfBoth
<1>7. /\ Len(Hrefs(d, InOrder(With(J, E))))
           + Len(Hrefs(d, InOrder(WithNo(J, E)))) = Cardinality(J)
      /\ ToSet(Hrefs(d, InOrder(With(J, E))))
           \cup ToSet(Hrefs(d, InOrder(WithNo(J, E)))) = HrefsAt(d, J)
  BY <1>1, AhrefsOfBoth
<1>8. /\ HrefsAt(d, I) \ HrefsAt(d, J) \subseteq HrefsAt(d, Unseen(d))
      /\ HrefsAt(d, J) \ HrefsAt(d, I) \subseteq HrefsAt(d, Padded(d))
  BY <1>3 DEF HrefsAt
<1>. QED BY <1>2, <1>4, <1>5, <1>6, <1>7, <1>8 DEF LinksAgree, differ

(* The charset that a page declares, for a page whose meta nodes are all   *)
(* in the head that GumboHtmlParser looks at.                              *)
LEMMA EncodingFromHead ==
  ASSUME NEW d, IsDocument(d),
         \A n \in Nodes(d) :
           d.tag[n] = "meta"
             => d.parent[n] = GumboFirstMatchSubNode(d, 1, "head", 0),
         GumboEncodingFromPage(d) # NoCharset
  PROVE  /\ EncodingFromPage(d) = GumboEncodingFromPage(d)
         /\ \E n \in DeclareCharset(d) :
              GumboEncodingFromPage(d) = d.charset[n]
<1> DEFINE h == GumboFirstMatchSubNode(d, 1, "head", 0)
           G == DeclareCharset(d)
           M == {n \in G : TagId(d, n) = "meta"}
           gumboTags == OnlyIn(GumboMatchSubNodes(d, h, "meta"), G)
           C == ChildSet(d, h) \cap Elements(d, "meta")
<1>1. /\ h # NoNode /\ gumboTags # <<>>
      /\ GumboEncodingFromPage(d) = d.charset[Head(gumboTags)]
  BY DEF GumboEncodingFromPage
<1>2. EncodingFromPage(d)
        = LET metaTags == MatchSubNodesInDepth(d, 1, M)
          IN  IF metaTags = <<>> THEN NoCharset ELSE d.charset[Head(metaTags)]
  BY DEF EncodingFromPage
<1>3. h \in Nodes(d)
  <2> DEFINE H == ToSet(SubSeq(GumboChildren(d, 1), 0 + 1,
                               Len(GumboChildren(d, 1))))
                    \cap Elements(d, "head")
  <2>1. h = First(H)
    BY DEF GumboFirstMatchSubNode
  <2>2. H \subseteq Nodes(d) /\ H \subseteq Nat
    BY NumberedNodes DEF Elements
  <2> HIDE DEF h, H
  <2>3. H # {}
    BY <1>1, <2>1, <2>2, FirstElement
  <2> QED BY <2>1, <2>2, <2>3, FirstElement
<1>4. C \subseteq Nodes(d)
  BY DEF ChildSet
<1>5. GumboMatchSubNodes(d, h, "meta") = InOrder(C)
  BY <1>3, ChildrenWith
<1>6. Below(d, 1) \cap M = C \cap G
  <2>1. Below(d, 1) = Nodes(d) \ {1} /\ d.parent[1] = NoNode
    BY AllAreBelow DEF IsDocument
  <2>2. ASSUME NEW n \in M
        PROVE  n \in C /\ n \in G
    <3>1. n \in Nodes(d) /\ n \in WithTagId(d, "meta")
      BY DEF DeclareCharset, WithTagId
    <3>2. n \in Elements(d, "meta")
      BY <3>1, TagsAssumption, ElementsHaveTheTag DEF TemplateTag
    <3>3. d.parent[n] = h
      BY <3>1, <3>2 DEF Elements
    <3> QED BY <3>1, <3>2, <3>3 DEF ChildSet
  <2>3. ASSUME NEW n \in C, n \in G
        PROVE  n \in M /\ n # 1
    <3>1. /\ n \in Nodes(d) /\ d.parent[n] = h /\ TagId(d, n) = "meta"
      BY TagsAssumption, ElementsHaveTheTag DEF ChildSet, WithTagId
    <3> QED BY <1>1, <2>1, <2>3, <3>1
  <2> HIDE DEF C, G
  <2>4. M \subseteq Nodes(d)
    BY DEF DeclareCharset, G
  <2> HIDE DEF M
  <2> QED BY <2>1, <2>2, <2>3, <2>4
<1> HIDE DEF C, G, M, h
<1>7. gumboTags = InOrder(C \cap G)
  <2>1. IsFiniteSet(C) /\ C \subseteq Int
    BY <1>4, SetsOfNodes
  <2>2. OnlyIn(InOrder(C), G) = InOrder(C \cap G)
    BY <2>1, WithoutInOrder
  <2> QED BY <1>5, <2>2
<1>8. MatchSubNodesInDepth(d, 1, M) = InOrder(Below(d, 1) \cap M)
  <2>1. 1 \in Nodes(d)
    BY AllAreBelow
  <2> QED BY <2>1, DepthWalk
<1>9. Head(gumboTags) \in G
  <2>1. IsFiniteSet(C \cap G) /\ C \cap G \subseteq Int
    BY <1>4, SetsOfNodes
  <2> QED BY <1>1, <1>7, <2>1, HeadInOrder
<1>. QED BY <1>1, <1>2, <1>6, <1>7, <1>8, <1>9 DEF G

(* Both parsers decode such a page by the same charset, when that of       *)
(* GumboHtmlParser is one that it finds, and each charset named is known   *)
(* to both or to neither.                                                  *)
LEMMA EncodingsDo ==
  ASSUME NEW d, IsDocument(d)
  PROVE  EncodingAgrees(d)
<1> SUFFICES ASSUME \A n \in Nodes(d) :
                      d.tag[n] = "meta"
                        => d.parent[n]
                             = GumboFirstMatchSubNode(d, 1, "head", 0),
                    \A n \in DeclareCharset(d) :
                      /\ ~d.charset[n].quoted
                      /\ KnownToBothOrNeither(d.charset[n]),
                    \A c \in ToSet(d.contentType) : KnownToBothOrNeither(c),
                    DecodeHtmlPage(d) \notin {Detected, Undecoded}
             PROVE  HtmlSetEncoding(d) = DecodeHtmlPage(d)
  BY DEF EncodingAgrees
<1> DEFINE gumbo == OnlyIn(d.contentType, QtCharsets)
           myHtml == OnlyIn(d.contentType, {c \in ToSet(d.contentType) :
                                              c.name \in MyHtmlCharsets})
<1>1. gumbo = myHtml
  <2>1. ToSet(d.contentType) \ QtCharsets
          = ToSet(d.contentType) \ {c \in ToSet(d.contentType) :
                                      c.name \in MyHtmlCharsets}
    BY DEF KnownToBothOrNeither
  <2> QED BY <2>1 DEF OnlyIn
<1>2. CASE gumbo # <<>>
  BY <1>1, <1>2 DEF HtmlSetEncoding, DecodeHtmlPage
<1>3. CASE gumbo = <<>>
  <2>1. /\ GumboEncodingFromPage(d) # NoCharset
        /\ GumboEncodingFromPage(d) \in QtCharsets
        /\ DecodeHtmlPage(d) = GumboEncodingFromPage(d).name
    BY <1>3 DEF DecodeHtmlPage
  <2>2. /\ EncodingFromPage(d) = GumboEncodingFromPage(d)
        /\ \E n \in DeclareCharset(d) : GumboEncodingFromPage(d) = d.charset[n]
    BY <2>1, EncodingFromHead
  <2>3. /\ ~EncodingFromPage(d).quoted
        /\ EncodingFromPage(d).name \in MyHtmlCharsets
    BY <2>1, <2>2 DEF KnownToBothOrNeither
  <2> QED BY <1>1, <1>3, <2>1, <2>2, <2>3 DEF HtmlSetEncoding
<1>. QED BY <1>2, <1>3
=============================================================================
