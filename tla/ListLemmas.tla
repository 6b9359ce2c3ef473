------------------------------ MODULE ListLemmas ----------------------------
(***************************************************************************)
(* Lemmas about numbers and lists that several components need.  The       *)
(* library's induction theorems have a predicate for a parameter, which    *)
(* the installed provers cannot instantiate; CountingOn states induction   *)
(* with a set.                                                             *)
(***************************************************************************)
EXTENDS Lists, SequencesExt, FunctionTheorems, FiniteSetTheorems, TLAPS

(* Induction with a set in place of a predicate: were n not reached, adding *)
(* one would map what is reached below n into itself without 0.            *)
LEMMA CountingOn ==
  ASSUME NEW N, 0 \in N, \A n \in Nat : n \in N => n + 1 \in N
  PROVE  Nat \subseteq N
<1> SUFFICES ASSUME NEW n \in Nat, n \notin N PROVE FALSE
  OBVIOUS
<1> DEFINE A == {i \in 0..n : i \in N}
           next == [i \in A |-> i + 1]
<1>1. IsFiniteSet(A) /\ Cardinality(A) \in Nat
  <2>1. A \in SUBSET (0..n) /\ 0 \in Int /\ n \in Int
    OBVIOUS
  <2>2. IsFiniteSet(0..n)
    BY <2>1, FS_Interval
  <2> HIDE DEF A
  <2> QED BY <2>1, <2>2, FS_Subset, FS_CardinalityType
<1>2. /\ IsFiniteSet(A \ {0})
      /\ Cardinality(A \ {0}) = Cardinality(A) - 1
  <2>1. 0 \in A
    OBVIOUS
  <2> HIDE DEF A
  <2> QED BY <1>1, <2>1, FS_RemoveElement
<1>3. next \in [A -> A \ {0}]
  OBVIOUS
<1>4. PICK i, j \in A : i # j /\ next[i] = next[j]
  <2> HIDE DEF A, next
  <2> QED BY <1>1, <1>2, <1>3, FS_PigeonHole
<1>. QED BY <1>4

(* A set of numbers has a least element, and Min is it. *)
LEMMA LeastNumber ==
  ASSUME NEW N, N \subseteq Nat, N # {}
  PROVE  Min(N) \in N /\ \A m \in N : Min(N) <= m
<1> DEFINE Below == {n \in Nat : \A m \in N : n <= m}
<1>1. 0 \in Below
  OBVIOUS
<1>2. PICK n \in Below : n + 1 \notin Below
  <2>1. ~(Nat \subseteq Below)
    <3>1. PICK m \in N : TRUE
      OBVIOUS
    <3>2. m + 1 \notin Below
      BY <3>1
    <3> QED BY <3>2
  <2> HIDE DEF Below
  <2> QED BY <1>1, <2>1, CountingOn
<1>3. \E k \in N : \A m \in N : k <= m
  BY <1>2
<1>. QED BY <1>3 DEF Min

-----------------------------------------------------------------------------
(* The function in the definition of Without exists. *)
Keeps(f, s, X, N) ==
  /\ f[0] = <<>>
  /\ \A n \in 1..N :
       f[n] = IF s[n] \in X THEN f[n - 1] ELSE Append(f[n - 1], s[n])
  /\ Without(s, X) = f[N]

LEMMA WithoutDef ==
  ASSUME NEW s, NEW X, NEW N, N = Len(s), N \in Nat
  PROVE  \E f : Keeps(f, s, X, N)
<1> DEFINE Kept(f, m) ==
             f = [n \in 0..m |->
                    IF n = 0 THEN <<>>
                    ELSE IF s[n] \in X THEN f[n - 1]
                         ELSE Append(f[n - 1], s[n])]
           M == {m \in Nat : \E f : Kept(f, m)}
<1>1. 0 \in M
  <2>1. Kept([n \in 0..0 |-> <<>>], 0)
    OBVIOUS
  <2> QED BY <2>1
<1>2. ASSUME NEW m \in Nat, m \in M
      PROVE  m + 1 \in M
  <2>1. PICK f : Kept(f, m)
    BY <1>2
  <2> DEFINE g == [n \in 0..(m + 1) |->
                     IF n <= m THEN f[n]
                     ELSE IF s[m + 1] \in X THEN f[m]
                          ELSE Append(f[m], s[m + 1])]
  <2>2. Kept(g, m + 1)
    <3>1. \A n \in 0..m : g[n] = f[n]
      OBVIOUS
    <3>2. ASSUME NEW n \in 0..(m + 1)
          PROVE  g[n] = IF n = 0 THEN <<>>
                        ELSE IF s[n] \in X THEN g[n - 1]
                             ELSE Append(g[n - 1], s[n])
      <4>1. CASE n \in 0..m
        <5>1. n = 0 \/ n - 1 \in 0..m
          BY <4>1
        <5> HIDE DEF g
        <5> QED BY <2>1, <3>1, <4>1, <5>1
      <4>2. CASE n = m + 1
        BY <4>2
      <4> QED BY <4>1, <4>2
    <3> QED BY <3>2
  <2> HIDE DEF Kept, g
  <2> QED BY <2>2
<1>3. \E f : Kept(f, N)
  <2> HIDE DEF M
  <2>1. Nat \subseteq M
    BY <1>1, <1>2, CountingOn
  <2> QED BY <2>1 DEF M
<1>4. PICK f : Kept(f, N) /\ Without(s, X) = f[N]
  BY <1>3 DEF Without
<1>5. f[0] = <<>>
  BY <1>4
<1>6. ASSUME NEW n \in 1..N
      PROVE  f[n] = IF s[n] \in X THEN f[n - 1] ELSE Append(f[n - 1], s[n])
  <2>1. n \in 0..N /\ n # 0
    BY <1>6
  <2> QED BY <1>4, <2>1
<1>. QED
  <2> HIDE DEF Kept
  <2> QED BY <1>4, <1>5, <1>6 DEF Keeps

(* What is left of a list: the elements that are not removed, each as      *)
(* often as before.                                                        *)
LEMMA WithoutElements ==
  ASSUME NEW S, NEW s \in Seq(S), NEW X
  PROVE  /\ Without(s, X) \in Seq(S)
         /\ ToSet(Without(s, X)) = ToSet(s) \ X
         /\ IsInjective(s) => IsInjective(Without(s, X))
<1> DEFINE N == Len(s)
<1>0. N \in Nat /\ \A n \in 1..N : s[n] \in S
  OBVIOUS
<1>1. PICK f : Keeps(f, s, X, N)
  BY <1>0, WithoutDef
<1> USE DEF Keeps
<1> DEFINE Good(t, n) ==
      /\ t \in Seq(S)
      /\ \A x : (\E j \in 1..Len(t) : t[j] = x)
               <=> \E i \in 1..n : s[i] = x /\ x \notin X
      /\ IsInjective(s) => \A i, j \in 1..Len(t) : t[i] = t[j] => i = j
    M == {n \in Nat : n <= N => Good(f[n], n)}
<1>2. Good(f[0], 0)
  BY <1>1
<1>3. ASSUME NEW n \in Nat, n + 1 <= N, NEW t, Good(t, n),
             NEW x, x = s[n + 1], x \in X
      PROVE  Good(t, n + 1)
  <2>1. \A y : (\E i \in 1..(n + 1) : s[i] = y /\ y \notin X)
                <=> \E i \in 1..n : s[i] = y /\ y \notin X
    BY <1>3
  <2> QED BY <1>3, <2>1
<1>4. ASSUME NEW n \in Nat, n + 1 <= N, NEW t, Good(t, n),
             NEW x, x = s[n + 1], x \notin X
      PROVE  Good(Append(t, x), n + 1)
  <2>1. x \in S /\ t \in Seq(S)
    BY <1>0, <1>4
  <2> DEFINE u == Append(t, x)
  <2>2. /\ u \in Seq(S) /\ Len(u) = Len(t) + 1
        /\ \A j \in 1..Len(t) : u[j] = t[j]
        /\ u[Len(t) + 1] = x /\ Len(t) \in Nat
    BY <2>1
  <2> HIDE DEF u
  <2>3. ASSUME NEW y
        PROVE  (\E j \in 1..Len(u) : u[j] = y)
                 <=> (\E j \in 1..Len(t) : t[j] = y) \/ y = x
    BY <2>2
  <2>4. ASSUME NEW y
        PROVE  (\E i \in 1..(n + 1) : s[i] = y /\ y \notin X)
                 <=> (\E i \in 1..n : s[i] = y /\ y \notin X) \/ y = x
    BY <1>4
  <2>5. ASSUME IsInjective(s)
        PROVE  \A j \in 1..Len(t) : t[j] # x
    <3>1. \A i \in 1..n : s[i] # s[n + 1]
      BY <1>0, <1>4, <2>5 DEF IsInjective
    <3> QED BY <3>1, <1>4
  <2>6. ASSUME IsInjective(s), NEW i \in 1..Len(u), NEW j \in 1..Len(u),
               u[i] = u[j]
        PROVE  i = j
    <3>1. \A k, l \in 1..Len(t) : t[k] = t[l] => k = l
      BY <1>4, <2>6
    <3> QED BY <2>2, <2>5, <2>6, <3>1
  <2>7. \A y : (\E j \in 1..Len(u) : u[j] = y)
               <=> \E i \in 1..(n + 1) : s[i] = y /\ y \notin X
    BY <1>4, <2>3, <2>4
  <2> HIDE DEF N
  <2>8. Good(u, n + 1)
    BY <2>2, <2>6, <2>7
  <2> QED BY <2>8 DEF u
<1>5. Good(f[N], N)
  <2> HIDE DEF Good
  <2>1. 0 \in M
    BY <1>2
  <2>2. ASSUME NEW n \in Nat, n \in M
        PROVE  n + 1 \in M
    <3> SUFFICES ASSUME n + 1 <= N PROVE Good(f[n + 1], n + 1)
      OBVIOUS
    <3>1. n + 1 \in 1..N /\ (n + 1) - 1 = n /\ Good(f[n], n)
      BY <1>0, <2>2
    <3> HIDE DEF N
    <3>2. f[n + 1] = IF s[n + 1] \in X THEN f[n] ELSE Append(f[n], s[n + 1])
      BY <1>1, <3>1
    <3> QED BY <1>3, <1>4, <3>1, <3>2
  <2>3. Nat \subseteq M
    <3> HIDE DEF M
    <3> QED BY <2>1, <2>2, CountingOn
  <2> QED BY <1>0, <2>3
<1>6. DOMAIN s = 1..N /\ DOMAIN f[N] = 1..Len(f[N])
  BY <1>5
<1>7. ToSet(f[N]) = ToSet(s) \ X
  <2>1. \A x : x \in ToSet(f[N]) <=> \E j \in 1..Len(f[N]) : f[N][j] = x
    BY <1>6 DEF ToSet
  <2>2. \A x : x \in ToSet(s) <=> \E i \in 1..N : s[i] = x
    BY <1>6 DEF ToSet
  <2> QED BY <1>5, <2>1, <2>2
<1>. QED BY <1>1, <1>5, <1>6, <1>7 DEF IsInjective

(* What is removed and what is left is the whole list. *)
LEMMA WithoutLength ==
  ASSUME NEW S, NEW s \in Seq(S), NEW X
  PROVE  /\ OnlyIn(s, X) \in Seq(S)
         /\ ToSet(OnlyIn(s, X)) = ToSet(s) \cap X
         /\ Len(Without(s, X)) + Len(OnlyIn(s, X)) = Len(s)
<1> DEFINE N == Len(s)  Y == ToSet(s) \ X
<1>1. N \in Nat /\ \A n \in 1..N : s[n] \in S
  OBVIOUS
<1>2. \A n \in 1..N : s[n] \in X <=> s[n] \notin Y
  BY DEF ToSet
<1> HIDE DEF Y
<1>3. PICK f : Keeps(f, s, X, N)
  BY <1>1, WithoutDef
<1>4. PICK g : Keeps(g, s, Y, N)
  BY <1>1, WithoutDef
<1> USE DEF Keeps
<1> HIDE DEF N
<1> DEFINE Good(t, u, n) ==
             t \in Seq(S) /\ u \in Seq(S) /\ Len(t) + Len(u) = n
           M == {n \in Nat : n <= N => Good(f[n], g[n], n)}
<1>5. 0 \in M
  <2>1. Good(<<>>, <<>>, 0)
    OBVIOUS
  <2> HIDE DEF Good
  <2> QED BY <1>3, <1>4, <2>1
<1>6. ASSUME NEW n \in Nat, n + 1 <= N, NEW t, NEW u, Good(t, u, n)
      PROVE  /\ Good(t, Append(u, s[n + 1]), n + 1)
             /\ Good(Append(t, s[n + 1]), u, n + 1)
  <2>1. s[n + 1] \in S
    BY <1>1, <1>6
  <2> QED BY <1>6, <2>1
<1>7. ASSUME NEW n \in Nat, n \in M
      PROVE  n + 1 \in M
  <2> HIDE DEF Good
  <2> SUFFICES ASSUME n + 1 <= N PROVE Good(f[n + 1], g[n + 1], n + 1)
    OBVIOUS
  <2>0. n + 1 \in 1..N /\ (n + 1) - 1 = n /\ n <= N
    BY <1>1
  <2>1. n + 1 \in 1..N /\ (n + 1) - 1 = n /\ Good(f[n], g[n], n)
    BY <1>7, <2>0
  <2>2. CASE s[n + 1] \in X
    <3>1. f[n + 1] = f[n] /\ g[n + 1] = Append(g[n], s[n + 1])
      BY <1>2, <1>3, <1>4, <2>1, <2>2
    <3> QED BY <1>6, <2>1, <3>1
  <2>3. CASE s[n + 1] \notin X
    <3>1. g[n + 1] = g[n] /\ f[n + 1] = Append(f[n], s[n + 1])
      BY <1>2, <1>3, <1>4, <2>1, <2>3
    <3> QED BY <1>6, <2>1, <3>1
  <2> QED BY <2>2, <2>3
<1>8. Good(f[N], g[N], N)
  <2>1. Nat \subseteq M
    <3> HIDE DEF M
    <3> QED BY <1>5, <1>7, CountingOn
  <2> HIDE DEF Good
  <2> QED BY <1>1, <2>1 DEF M
<1>9. OnlyIn(s, X) = Without(s, Y) /\ ToSet(s) \ Y = ToSet(s) \cap X
  BY DEF OnlyIn, Y
<1>10. ToSet(Without(s, Y)) = ToSet(s) \ Y
  BY WithoutElements
<1>. QED BY <1>3, <1>4, <1>8, <1>9, <1>10 DEF N

-----------------------------------------------------------------------------
(* An element put behind a list that does not have it. *)
LEMMA AppendElements ==
  ASSUME NEW S, NEW s \in Seq(S), NEW x \in S
  PROVE  /\ Append(s, x) \in Seq(S)
         /\ ToSet(Append(s, x)) = ToSet(s) \cup {x}
         /\ IsInjective(s) /\ x \notin ToSet(s) => IsInjective(Append(s, x))
<1> DEFINE t == Append(s, x)  n == Len(s)
<1>1. /\ t \in Seq(S) /\ n \in Nat
      /\ DOMAIN s = 1..n /\ DOMAIN t = 1..(n + 1)
      /\ \A i \in 1..n : t[i] = s[i]
      /\ t[n + 1] = x
  OBVIOUS
<1> HIDE DEF t, n
<1>2. ToSet(t) = ToSet(s) \cup {x}
  <2>1. \A i \in 1..(n + 1) : i \in 1..n \/ i = n + 1
    BY <1>1
  <2>2. 1..n \subseteq 1..(n + 1) /\ n + 1 \in 1..(n + 1)
    BY <1>1
  <2> QED BY <1>1, <2>1, <2>2 DEF ToSet
<1>3. ASSUME IsInjective(s), x \notin ToSet(s)
      PROVE  IsInjective(t)
  BY <1>1, <1>3 DEF IsInjective, ToSet
<1>. QED BY <1>1, <1>2, <1>3 DEF t

(* One list behind the other. *)
LEMMA ConcatElements ==
  ASSUME NEW S, NEW s \in Seq(S), NEW t \in Seq(S)
  PROVE  /\ s \o t \in Seq(S)
         /\ ToSet(s \o t) = ToSet(s) \cup ToSet(t)
         /\ /\ IsInjective(s) /\ IsInjective(t)
            /\ ToSet(s) \cap ToSet(t) = {}
            => IsInjective(s \o t)
<1> DEFINE u == s \o t  n == Len(s)  m == Len(t)
<1>1. /\ u \in Seq(S) /\ n \in Nat /\ m \in Nat
      /\ DOMAIN s = 1..n /\ DOMAIN t = 1..m /\ DOMAIN u = 1..(n + m)
      /\ \A i \in 1..(n + m) : u[i] = IF i <= n THEN s[i] ELSE t[i - n]
  OBVIOUS
<1> HIDE DEF u, n, m
<1>2. \A i \in 1..(n + m) :
        \/ i \in 1..n /\ u[i] = s[i]
        \/ i - n \in 1..m /\ u[i] = t[i - n]
  BY <1>1
<1>3. /\ \A i \in 1..n : i \in 1..(n + m) /\ u[i] = s[i]
      /\ \A i \in 1..m : i + n \in 1..(n + m) /\ u[i + n] = t[i]
  BY <1>1
<1>4. ToSet(u) = ToSet(s) \cup ToSet(t)
  <2>1. ASSUME NEW i \in 1..(n + m)
        PROVE  u[i] \in ToSet(s) \cup ToSet(t)
    BY <1>1, <1>2, <2>1 DEF ToSet
  <2>2. ASSUME NEW i \in 1..n
        PROVE  s[i] \in ToSet(u)
    BY <1>1, <1>3, <2>2 DEF ToSet
  <2>3. ASSUME NEW i \in 1..m
        PROVE  t[i] \in ToSet(u)
    <3>1. i + n \in DOMAIN u /\ u[i + n] = t[i]
      BY <1>1, <1>3, <2>3
    <3> QED BY <3>1 DEF ToSet
  <2> QED BY <1>1, <2>1, <2>2, <2>3 DEF ToSet
<1>5. ASSUME IsInjective(s), IsInjective(t), ToSet(s) \cap ToSet(t) = {}
      PROVE  IsInjective(u)
  <2>1. \A i \in 1..n, j \in 1..m : s[i] # t[j]
    BY <1>1, <1>5 DEF ToSet
  <2> SUFFICES ASSUME NEW i \in 1..(n + m), NEW j \in 1..(n + m),
                      u[i] = u[j]
               PROVE  i = j
    BY <1>1 DEF IsInjective
  <2>2. CASE i \in 1..n /\ u[i] = s[i] /\ j \in 1..n /\ u[j] = s[j]
    BY <1>1, <1>5, <2>2 DEF IsInjective
  <2>3. CASE /\ i - n \in 1..m /\ u[i] = t[i - n]
             /\ j - n \in 1..m /\ u[j] = t[j - n]
    <3>1. i - n = j - n
      BY <1>1, <1>5, <2>3 DEF IsInjective
    <3> QED BY <1>1, <3>1
  <2> QED BY <1>2, <2>1, <2>2, <2>3
<1>. QED BY <1>1, <1>4, <1>5 DEF u

(* The first element taken from a list. *)
LEMMA TailElements ==
  ASSUME NEW S, NEW s \in Seq(S), s # <<>>
  PROVE  /\ Head(s) \in S /\ Head(s) \in ToSet(s)
         /\ Tail(s) \in Seq(S)
         /\ IsInjective(s) => /\ IsInjective(Tail(s))
                              /\ ToSet(Tail(s)) = ToSet(s) \ {Head(s)}
<1> DEFINE t == Tail(s)  n == Len(s)
<1>1. /\ t \in Seq(S) /\ n \in Nat \ {0}
      /\ DOMAIN s = 1..n /\ DOMAIN t = 1..(n - 1)
      /\ \A i \in 1..(n - 1) : t[i] = s[i + 1]
      /\ Head(s) = s[1] /\ Head(s) \in S
  OBVIOUS
<1> HIDE DEF t, n
<1>2. 1 \in 1..n
  BY <1>1
<1>3. ASSUME IsInjective(s)
      PROVE  IsInjective(t) /\ ToSet(t) = ToSet(s) \ {Head(s)}
  <2>1. /\ \A i \in 1..(n - 1) : i + 1 \in 1..n /\ i + 1 # 1
        /\ \A i \in 1..n : i # 1 => i - 1 \in 1..(n - 1)
                                   /\ (i - 1) + 1 = i
        /\ \A i, j \in 1..(n - 1) : i + 1 = j + 1 => i = j
    BY <1>1
  <2>2. \A i, j \in 1..n : s[i] = s[j] => i = j
    BY <1>1, <1>3 DEF IsInjective
  <2>3. IsInjective(t)
    BY <1>1, <2>1, <2>2 DEF IsInjective
  <2>4. ASSUME NEW i \in 1..(n - 1)
        PROVE  t[i] \in ToSet(s) \ {Head(s)}
    <3>1. i + 1 \in DOMAIN s /\ t[i] = s[i + 1] /\ s[i + 1] # s[1]
      BY <1>1, <1>2, <2>1, <2>2, <2>4
    <3> QED BY <1>1, <3>1 DEF ToSet
  <2>5. ASSUME NEW i \in 1..n, i # 1
        PROVE  s[i] \in ToSet(t)
    <3>1. i - 1 \in DOMAIN t /\ t[i - 1] = s[i]
      BY <1>1, <2>1, <2>5
    <3> QED BY <3>1 DEF ToSet
  <2>6. ToSet(s) \ {Head(s)} \subseteq ToSet(t)
    BY <1>1, <2>5 DEF ToSet
  <2>7. ToSet(t) \subseteq ToSet(s) \ {Head(s)}
    BY <1>1, <2>4 DEF ToSet
  <2> QED BY <2>3, <2>6, <2>7
<1>. QED BY <1>1, <1>2, <1>3 DEF t, ToSet

(* A list before and behind one of its elements. *)
LEMMA SplitElements ==
  ASSUME NEW S, NEW s \in Seq(S), IsInjective(s), NEW k \in 1..Len(s)
  PROVE  LET before == SubSeq(s, 1, k - 1)
             behind == SubSeq(s, k + 1, Len(s))
         IN  /\ before \in Seq(S) /\ behind \in Seq(S)
             /\ IsInjective(before) /\ IsInjective(behind)
             /\ ToSet(before) \cap ToSet(behind) = {}
             /\ ToSet(before) \cup ToSet(behind) = ToSet(s) \ {s[k]}
<1> DEFINE n == Len(s)
           before == SubSeq(s, 1, k - 1)
           behind == SubSeq(s, k + 1, Len(s))
<1>1. /\ n \in Nat /\ k \in 1..n /\ DOMAIN s = 1..n
      /\ before \in Seq(S) /\ DOMAIN before = 1..(k - 1)
      /\ \A i \in 1..(k - 1) : before[i] = s[i]
  OBVIOUS
<1>2. /\ behind \in Seq(S) /\ DOMAIN behind = 1..(n - k)
      /\ \A i \in 1..(n - k) : behind[i] = s[i + k]
  OBVIOUS
<1>3. \A i, j \in 1..n : s[i] = s[j] => i = j
  BY <1>1 DEF IsInjective
<1> HIDE DEF n, before, behind
<1>4. /\ \A i \in 1..(k - 1) : i \in 1..n /\ i # k
      /\ \A i \in 1..(n - k) : i + k \in 1..n /\ i + k # k
      /\ \A i \in 1..(k - 1), j \in 1..(n - k) : i # j + k
      /\ \A i, j \in 1..(n - k) : i + k = j + k => i = j
      /\ \A i \in 1..n : \/ i = k \/ i \in 1..(k - 1)
                         \/ i - k \in 1..(n - k) /\ (i - k) + k = i
  BY <1>1
<1>5. IsInjective(before)
  BY <1>1, <1>3, <1>4 DEF IsInjective
<1>6. IsInjective(behind)
  BY <1>2, <1>3, <1>4 DEF IsInjective
<1>7. ToSet(before) \cap ToSet(behind) = {}
  BY <1>1, <1>2, <1>3, <1>4 DEF ToSet
<1>8. ToSet(before) \cup ToSet(behind) \subseteq ToSet(s) \ {s[k]}
  <2>1. ASSUME NEW i \in 1..(k - 1)
        PROVE  before[i] \in ToSet(s) \ {s[k]}
    BY <1>1, <1>3, <1>4, <2>1 DEF ToSet
  <2>2. ASSUME NEW i \in 1..(n - k)
        PROVE  behind[i] \in ToSet(s) \ {s[k]}
    <3>1. i + k \in DOMAIN s /\ behind[i] = s[i + k] /\ s[i + k] # s[k]
      BY <1>1, <1>2, <1>3, <1>4, <2>2
    <3> QED BY <3>1 DEF ToSet
  <2> QED BY <1>1, <1>2, <2>1, <2>2 DEF ToSet
<1>9. ASSUME NEW i \in 1..n, i # k
      PROVE  s[i] \in ToSet(before) \cup ToSet(behind)
  <2>1. CASE i \in 1..(k - 1)
    BY <1>1, <2>1 DEF ToSet
  <2>2. CASE i - k \in 1..(n - k) /\ (i - k) + k = i
    <3>1. i - k \in DOMAIN behind /\ behind[i - k] = s[i]
      BY <1>2, <2>2
    <3> QED BY <3>1 DEF ToSet
  <2> QED BY <1>4, <1>9, <2>1, <2>2
<1>10. ToSet(s) \ {s[k]} \subseteq ToSet(before) \cup ToSet(behind)
  BY <1>1, <1>9 DEF ToSet
<1>. QED
  BY <1>1, <1>2, <1>5, <1>6, <1>7, <1>8, <1>10 DEF n, before, behind

-----------------------------------------------------------------------------
(* Lists of numbers in order.                                              *)

Increasing(s) == \A i, j \in DOMAIN s : i < j => s[i] < s[j]

(* The numbers of a set that are not greater than one of them.             *)
NotGreater(S, n) == {m \in S : m <= n}

(* Counting them tells the numbers apart, from 1 on. *)
LEMMA CountsOfOrder ==
  ASSUME NEW S, S \subseteq Int, IsFiniteSet(S)
  PROVE  /\ Cardinality(S) \in Nat
         /\ \A n \in S : Cardinality(NotGreater(S, n)) \in 1..Cardinality(S)
         /\ \A n, k \in S :
              n < k => Cardinality(NotGreater(S, n))
                         < Cardinality(NotGreater(S, k))
         /\ \A i \in 1..Cardinality(S) :
              \E n \in S : Cardinality(NotGreater(S, n)) = i
<1> DEFINE C == Cardinality(S)  count == [n \in S |-> Cardinality(NotGreater(S, n))]
<1>1. C \in Nat
  BY FS_CardinalityType
<1>2. ASSUME NEW n \in S
      PROVE  /\ IsFiniteSet(NotGreater(S, n))
             /\ Cardinality(NotGreater(S, n)) \in 1..C
  <2>1. NotGreater(S, n) \in SUBSET S /\ n \in NotGreater(S, n)
    BY DEF NotGreater
  <2>2. /\ IsFiniteSet(NotGreater(S, n))
        /\ Cardinality(NotGreater(S, n)) <= C
    BY <2>1, FS_Subset
  <2>3. /\ Cardinality(NotGreater(S, n)) \in Nat
        /\ Cardinality(NotGreater(S, n)) # 0
    BY <2>1, <2>2, FS_EmptySet, FS_CardinalityType
  <2> HIDE DEF C
  <2> QED BY <1>1, <2>2, <2>3
<1>3. ASSUME NEW n \in S, NEW k \in S, n < k
      PROVE  Cardinality(NotGreater(S, n)) < Cardinality(NotGreater(S, k))
  <2>1. /\ NotGreater(S, n) \in SUBSET NotGreater(S, k)
        /\ k \in NotGreater(S, k) /\ k \notin NotGreater(S, n)
    <3>1. n \in Int /\ k \in Int /\ \A m \in S : m \in Int
      OBVIOUS
    <3>2. \A m \in S : m <= n => m <= k
      BY <1>3, <3>1
    <3>3. k <= k /\ ~(k <= n)
      BY <1>3, <3>1
    <3> QED BY <3>2, <3>3 DEF NotGreater
  <2>2. /\ Cardinality(NotGreater(S, n)) <= Cardinality(NotGreater(S, k))
        /\ Cardinality(NotGreater(S, n)) # Cardinality(NotGreater(S, k))
    BY <1>2, <2>1, FS_Subset
  <2>3. /\ Cardinality(NotGreater(S, n)) \in Int
        /\ Cardinality(NotGreater(S, k)) \in Int
    BY <1>1, <1>2
  <2> QED BY <2>2, <2>3
<1>4. count \in Injection(S, 1..C)
  <2>1. count \in [S -> 1..C]
    BY <1>2
  <2>2. ASSUME NEW n \in S, NEW k \in S, count[n] = count[k]
        PROVE  n = k
    <3>1. ~(n < k) /\ ~(k < n)
      BY <1>1, <1>2, <1>3, <2>2
    <3> QED BY <3>1
  <2> HIDE DEF count, C
  <2> QED BY <2>1, <2>2 DEF Injection, IsInjective
<1>5. IsFiniteSet(1..C) /\ Cardinality(1..C) = C
  <2>1. 1 \in Int /\ C \in Int
    BY <1>1
  <2> HIDE DEF C
  <2> QED BY <1>1, <2>1, FS_Interval
<1>6. count \in Surjection(S, 1..C)
  <2>1. Cardinality(S) = Cardinality(1..C)
    BY <1>5
  <2> HIDE DEF C, count
  <2> QED BY <1>4, <1>5, <2>1, FS_Injection
<1>7. \A i \in 1..C : \E n \in S : count[n] = i
  BY <1>6 DEF Surjection
<1>. QED BY <1>1, <1>2, <1>3, <1>7

(* The type of a list's elements may be widened. *)
LEMMA WiderSeq ==
  ASSUME NEW S, NEW T, S \subseteq T, NEW s \in Seq(S)
  PROVE  s \in Seq(T)
<1>1. /\ Len(s) \in Nat /\ s = [i \in 1..Len(s) |-> s[i]]
      /\ \A i \in 1..Len(s) : s[i] \in T
  OBVIOUS
<1>. QED BY <1>1

(* InOrder lists the elements of a set, each once and in order. *)
LEMMA InOrderElements ==
  ASSUME NEW S, S \subseteq Int, IsFiniteSet(S)
  PROVE  /\ InOrder(S) \in Seq(S) /\ Len(InOrder(S)) = Cardinality(S)
         /\ ToSet(InOrder(S)) = S
         /\ Increasing(InOrder(S))
         /\ \A i \in 1..Len(InOrder(S)) :
              Cardinality(NotGreater(S, InOrder(S)[i])) = i
<1> DEFINE C == Cardinality(S)  s == InOrder(S)
           Count(n) == Cardinality(NotGreater(S, n))
<1>1. /\ C \in Nat
      /\ \A n \in S : Count(n) \in 1..C
      /\ \A n, k \in S : n < k => Count(n) < Count(k)
      /\ \A i \in 1..C : \E n \in S : Count(n) = i
  BY CountsOfOrder
<1>2. /\ s = [i \in 1..C |-> s[i]]
      /\ \A i \in 1..C : s[i] = CHOOSE n \in S : Count(n) = i
  BY DEF InOrder, NotGreater
<1> HIDE DEF C, s, Count
<1>3. \A i \in 1..C : s[i] \in S /\ Count(s[i]) = i
  BY <1>1, <1>2
<1>4. s \in Seq(S) /\ Len(s) = C /\ DOMAIN s = 1..C
  BY <1>1, <1>2, <1>3
<1>5. ASSUME NEW i \in 1..C, NEW j \in 1..C, i < j
      PROVE  s[i] < s[j]
  <2>1. /\ s[i] \in S /\ s[j] \in S /\ s[i] \in Int /\ s[j] \in Int
        /\ Count(s[i]) = i /\ Count(s[j]) = j
        /\ i \in Int /\ j \in Int
    <3>1. s[i] \in S /\ s[j] \in S /\ Count(s[i]) = i /\ Count(s[j]) = j
      BY <1>3
    <3>2. s[i] \in Int /\ s[j] \in Int
      BY <3>1
    <3>3. i \in Int /\ j \in Int
      BY <1>1
    <3> QED BY <3>1, <3>2, <3>3
  <2>2. s[j] < s[i] => j < i
    BY <1>1, <2>1
  <2>3. s[j] # s[i]
    BY <1>5, <2>1
  <2> QED BY <1>5, <2>1, <2>2, <2>3
<1>6. ASSUME NEW n \in S
      PROVE  \E i \in 1..C : s[i] = n
  <2>1. Count(n) \in 1..C
    BY <1>1
  <2>2. s[Count(n)] \in S /\ Count(s[Count(n)]) = Count(n)
    BY <1>3, <2>1
  <2>3. n \in Int /\ s[Count(n)] \in Int /\ Count(n) \in Int
    <3>1. n \in Int /\ s[Count(n)] \in Int
      BY <2>2
    <3>2. Count(n) \in Int
      BY <1>1, <2>1
    <3> QED BY <3>1, <3>2
  <2>4. ~(n < s[Count(n)]) /\ ~(s[Count(n)] < n)
    <3>1. /\ n < s[Count(n)] => Count(n) < Count(s[Count(n)])
          /\ s[Count(n)] < n => Count(s[Count(n)]) < Count(n)
      BY <1>1, <2>2
    <3> QED BY <2>2, <2>3, <3>1
  <2>5. s[Count(n)] = n
    BY <2>3, <2>4
  <2> QED BY <2>1, <2>5
<1>7. ToSet(s) = S
  BY <1>3, <1>4, <1>6 DEF ToSet
<1>. QED BY <1>3, <1>4, <1>5, <1>7 DEF Increasing, s, C, Count

(* There is no other list of these numbers in order. *)
LEMMA IncreasingIsInOrder ==
  ASSUME NEW s \in Seq(Int), Increasing(s)
  PROVE  /\ IsFiniteSet(ToSet(s)) /\ Cardinality(ToSet(s)) = Len(s)
         /\ s = InOrder(ToSet(s))
<1> DEFINE N == Len(s)  S == ToSet(s)
           Up(k) == {s[j] : j \in 1..k}
<1>1. /\ N \in Nat /\ DOMAIN s = 1..N /\ s = [i \in 1..N |-> s[i]]
      /\ \A i \in 1..N : s[i] \in Int
      /\ \A i, j \in 1..N : i < j => s[i] < s[j]
  BY DEF Increasing
<1>2. S = Up(N)
  BY <1>1 DEF ToSet
<1> HIDE DEF N, S
<1>3. ASSUME NEW k \in 0..N
      PROVE  IsFiniteSet(Up(k)) /\ Cardinality(Up(k)) = k
  <2> DEFINE f == [j \in 1..k |-> s[j]]
  <2>1. f \in Bijection(1..k, Up(k))
    <3>1. f \in [1..k -> Up(k)]
      OBVIOUS
    <3>2. \A i, j \in 1..k : f[i] = f[j] => i = j
      BY <1>1
    <3>3. \A x \in Up(k) : \E j \in 1..k : f[j] = x
      OBVIOUS
    <3> HIDE DEF f, Up
    <3> QED
      BY <3>1, <3>2, <3>3 DEF Bijection, Injection, Surjection, IsInjective
  <2>2. IsFiniteSet(1..k) /\ Cardinality(1..k) = k
    <3>1. 1 \in Int /\ k \in Int /\ k \in Nat
      BY <1>1
    <3> QED BY <3>1, FS_Interval
  <2> HIDE DEF f, Up
  <2>3. ExistsBijection(1..k, Up(k))
    BY <2>1 DEF ExistsBijection
  <2> QED BY <2>2, <2>3, FS_Bijection
<1>4. ASSUME NEW i \in 1..N
      PROVE  NotGreater(S, s[i]) = Up(i)
  <2>1. \A j \in 1..N : s[j] <= s[i] <=> j <= i
    BY <1>1
  <2> QED BY <1>1, <1>2, <2>1 DEF NotGreater
<1>5. N \in 0..N
  BY <1>1
<1>6. IsFiniteSet(S) /\ Cardinality(S) = N /\ S \subseteq Int
  <2>1. S \subseteq Int
    BY <1>1, <1>2
  <2> HIDE DEF Up
  <2> QED BY <1>2, <1>3, <1>5, <2>1
<1>7. ASSUME NEW i \in 1..N
      PROVE  s[i] = CHOOSE n \in S : Cardinality(NotGreater(S, n)) = i
  <2>1. s[i] \in S
    BY <1>2, <1>1
  <2>2. ASSUME NEW j \in 1..N
        PROVE  Cardinality(NotGreater(S, s[j])) = j
    <3>1. j \in 0..N
      BY <1>1
    <3> HIDE DEF Up
    <3> QED BY <1>3, <1>4, <3>1
  <2>3. \A n \in S : Cardinality(NotGreater(S, n)) = i => n = s[i]
    BY <1>2, <2>2
  <2> HIDE DEF Up
  <2> QED BY <2>1, <2>2, <2>3
<1>8. s = [i \in 1..N |-> CHOOSE n \in S : Cardinality(NotGreater(S, n)) = i]
  <2> DEFINE F(i) == CHOOSE n \in S : Cardinality(NotGreater(S, n)) = i
  <2>1. \A i \in 1..N : s[i] = F(i)
    BY <1>7
  <2> HIDE DEF F
  <2>2. s = [i \in 1..N |-> F(i)]
    BY <1>1, <2>1
  <2> QED BY <2>2 DEF F
<1>9. InOrder(S) = [i \in 1..N |->
                     CHOOSE n \in S : Cardinality(NotGreater(S, n)) = i]
  BY <1>6 DEF InOrder, NotGreater
<1>. QED BY <1>6, <1>8, <1>9 DEF N, S

(* The list of no number, and of one. *)
LEMMA InOrderOne ==
  /\ InOrder({}) = <<>>
  /\ \A n \in Int : InOrder({n}) = <<n>>
<1>1. InOrder({}) = <<>>
  <2>1. /\ <<>> \in Seq(Int) /\ Increasing(<<>>) /\ ToSet(<<>>) = {}
    BY DEF Increasing, ToSet
  <2> QED BY <2>1, IncreasingIsInOrder
<1>2. ASSUME NEW n \in Int
      PROVE  InOrder({n}) = <<n>>
  <2>1. /\ <<n>> \in Seq(Int) /\ Increasing(<<n>>) /\ ToSet(<<n>>) = {n}
    BY DEF Increasing, ToSet
  <2> QED BY <2>1, IncreasingIsInOrder
<1>. QED BY <1>1, <1>2

(* Two sets, all of the first before all of the second. *)
LEMMA InOrderConcat ==
  ASSUME NEW S, S \subseteq Int, IsFiniteSet(S),
         NEW T, T \subseteq Int, IsFiniteSet(T),
         \A m \in S, n \in T : m < n
  PROVE  InOrder(S \cup T) = InOrder(S) \o InOrder(T)
<1> DEFINE s == InOrder(S)  t == InOrder(T)  u == s \o t
           n == Len(s)  m == Len(t)
<1>1. /\ s \in Seq(S) /\ t \in Seq(T) /\ ToSet(s) = S /\ ToSet(t) = T
      /\ Increasing(s) /\ Increasing(t)
  BY InOrderElements
<1> HIDE DEF s, t
<1>2. s \in Seq(Int) /\ t \in Seq(Int)
  BY <1>1, WiderSeq
<1>3. /\ u \in Seq(Int) /\ ToSet(u) = S \cup T
  BY <1>1, <1>2, ConcatElements
<1>4. /\ n \in Nat /\ m \in Nat
      /\ DOMAIN s = 1..n /\ DOMAIN t = 1..m /\ DOMAIN u = 1..(n + m)
      /\ \A i \in 1..(n + m) : u[i] = IF i <= n THEN s[i] ELSE t[i - n]
  BY <1>2
<1>5. /\ \A i, j \in 1..n : i < j => s[i] < s[j]
      /\ \A i, j \in 1..m : i < j => t[i] < t[j]
      /\ \A i \in 1..n, j \in 1..m : s[i] < t[j]
  BY <1>1, <1>4 DEF Increasing, ToSet
<1> HIDE DEF u, n, m
<1>6. \A i, j \in 1..(n + m) : i < j => u[i] < u[j]
  <2> SUFFICES ASSUME NEW i \in 1..(n + m), NEW j \in 1..(n + m), i < j
               PROVE  u[i] < u[j]
    OBVIOUS
  <2>1. CASE j <= n
    <3>1. i \in 1..n /\ j \in 1..n /\ i <= n
      BY <1>4, <2>1
    <3>2. u[i] = s[i] /\ u[j] = s[j]
      BY <1>4, <2>1, <3>1
    <3> QED BY <1>5, <3>1, <3>2
  <2>2. CASE i <= n /\ ~(j <= n)
    <3>1. i \in 1..n /\ j - n \in 1..m
      BY <1>4, <2>2
    <3>2. u[i] = s[i] /\ u[j] = t[j - n]
      BY <1>4, <2>2
    <3> QED BY <1>5, <3>1, <3>2
  <2>3. CASE ~(i <= n)
    <3>1. i - n \in 1..m /\ j - n \in 1..m /\ i - n < j - n /\ ~(j <= n)
      BY <1>4, <2>3
    <3>2. u[i] = t[i - n] /\ u[j] = t[j - n]
      BY <1>4, <2>3, <3>1
    <3> QED BY <1>5, <3>1, <3>2
  <2> QED BY <1>4, <2>1, <2>2, <2>3
<1>7. Increasing(u)
  BY <1>4, <1>6 DEF Increasing
<1>8. u = InOrder(S \cup T)
  BY <1>3, <1>7, IncreasingIsInOrder
<1>. QED BY <1>8 DEF u, s, t

(* What is left of a list in order is in order. *)
LEMMA WithoutIncreasing ==
  ASSUME NEW S, S \subseteq Int, NEW s \in Seq(S), Increasing(s), NEW X
  PROVE  Without(s, X) = InOrder(ToSet(s) \ X)
<1> DEFINE N == Len(s)
<1>1. N \in Nat /\ \A n \in 1..N : s[n] \in S
  OBVIOUS
<1>2. /\ \A i \in 1..N : s[i] \in Int
      /\ \A i, j \in 1..N : i < j => s[i] < s[j]
  <2>1. DOMAIN s = 1..N
    OBVIOUS
  <2> QED BY <1>1, <2>1 DEF Increasing
<1>3. PICK f : Keeps(f, s, X, N)
  BY <1>1, WithoutDef
<1> USE DEF Keeps
<1> DEFINE Good(t, n) == /\ t \in Seq(Int)
                         /\ \A i, j \in 1..Len(t) : i < j => t[i] < t[j]
                         /\ \A i \in 1..Len(t), j \in (n + 1)..N : t[i] < s[j]
           M == {n \in Nat : n <= N => Good(f[n], n)}
<1> HIDE DEF N
<1>4. 0 \in M
  <2>1. Good(<<>>, 0)
    OBVIOUS
  <2> HIDE DEF Good
  <2> QED BY <1>3, <2>1
<1>5. ASSUME NEW n \in Nat, n + 1 <= N, NEW t, Good(t, n)
      PROVE  /\ Good(t, n + 1)
             /\ Good(Append(t, s[n + 1]), n + 1)
  <2>1. n + 1 \in 1..N /\ s[n + 1] \in Int
    BY <1>1, <1>2, <1>5
  <2>2. Good(t, n + 1)
    BY <1>1, <1>2, <1>5
  <2> DEFINE u == Append(t, s[n + 1])
  <2>3. /\ u \in Seq(Int) /\ Len(t) \in Nat /\ Len(u) = Len(t) + 1
        /\ \A i \in 1..Len(t) : u[i] = t[i]
        /\ u[Len(t) + 1] = s[n + 1]
    BY <1>5, <2>1
  <2> HIDE DEF u
  <2>4. ASSUME NEW i \in 1..Len(u), NEW j \in 1..Len(u), i < j
        PROVE  u[i] < u[j]
    <3>1. i \in 1..Len(t)
      BY <2>3, <2>4
    <3>2. CASE j \in 1..Len(t)
      BY <1>5, <2>3, <2>4, <3>1, <3>2
    <3>3. CASE j = Len(t) + 1
      <4>1. n + 1 \in (n + 1)..N
        BY <1>1, <1>2, <1>5
      <4>2. t[i] < s[n + 1]
        BY <1>5, <3>1, <4>1
      <4> QED BY <2>3, <3>1, <3>3, <4>2
    <3> QED BY <2>3, <3>2, <3>3
  <2>5. ASSUME NEW i \in 1..Len(u), NEW j \in (n + 2)..N
        PROVE  u[i] < s[j]
    <3>1. j \in (n + 1)..N /\ j \in 1..N /\ n + 1 < j
      BY <1>1, <1>2, <1>5
    <3>2. CASE i \in 1..Len(t)
      BY <1>5, <2>3, <3>1, <3>2
    <3>3. CASE i = Len(t) + 1
      BY <1>1, <1>2, <2>1, <2>3, <3>1, <3>3
    <3> QED BY <2>3, <3>2, <3>3
  <2>6. Good(u, n + 1)
    BY <2>3, <2>4, <2>5
  <2> QED BY <2>2, <2>6 DEF u
<1>6. ASSUME NEW n \in Nat, n \in M
      PROVE  n + 1 \in M
  <2> SUFFICES ASSUME n + 1 <= N PROVE Good(f[n + 1], n + 1)
    OBVIOUS
  <2>1. n + 1 \in 1..N /\ (n + 1) - 1 = n /\ Good(f[n], n)
    BY <1>1, <1>2, <1>6
  <2>2. f[n + 1] = IF s[n + 1] \in X THEN f[n] ELSE Append(f[n], s[n + 1])
    BY <1>3, <2>1
  <2> HIDE DEF Good
  <2> QED BY <1>5, <2>1, <2>2
<1>7. Good(f[N], N)
  <2>1. Nat \subseteq M
    <3> HIDE DEF M
    <3> QED BY <1>4, <1>6, CountingOn
  <2> HIDE DEF Good
  <2> QED BY <1>1, <1>2, <2>1 DEF M
<1>8. Without(s, X) \in Seq(Int) /\ Increasing(Without(s, X))
  <2>1. Without(s, X) = f[N] /\ DOMAIN f[N] = 1..Len(f[N])
    BY <1>3, <1>7
  <2> QED BY <1>7, <2>1 DEF Increasing
<1>9. ToSet(Without(s, X)) = ToSet(s) \ X
  BY WithoutElements
<1> QED BY <1>8, <1>9, IncreasingIsInOrder

LEMMA WithoutInOrder ==
  ASSUME NEW S, S \subseteq Int, IsFiniteSet(S), NEW X
  PROVE  /\ Without(InOrder(S), X) = InOrder(S \ X)
         /\ OnlyIn(InOrder(S), X) = InOrder(S \cap X)
<1> DEFINE s == InOrder(S)
<1>1. s \in Seq(S) /\ ToSet(s) = S /\ Increasing(s)
  BY InOrderElements
<1> HIDE DEF s
<1>2. \A Y : Without(s, Y) = InOrder(S \ Y)
  BY <1>1, WithoutIncreasing
<1>3. OnlyIn(s, X) = InOrder(S \cap X)
  <2>1. OnlyIn(s, X) = Without(s, S \ X) /\ S \ (S \ X) = S \cap X
    BY <1>1 DEF OnlyIn
  <2> QED BY <1>2, <2>1
<1>. QED BY <1>2, <1>3 DEF s

(* The first of a list in order is the least. *)
LEMMA HeadInOrder ==
  ASSUME NEW S, S \subseteq Int, IsFiniteSet(S)
  PROVE  /\ InOrder(S) = <<>> <=> S = {}
         /\ S # {} => /\ Head(InOrder(S)) \in S
                      /\ \A n \in S : Head(InOrder(S)) <= n
<1> DEFINE s == InOrder(S)
<1>1. s \in Seq(S) /\ ToSet(s) = S /\ Increasing(s)
  BY InOrderElements
<1> HIDE DEF s
<1>2. S = {s[i] : i \in 1..Len(s)} /\ Len(s) \in Nat /\ DOMAIN s = 1..Len(s)
  BY <1>1 DEF ToSet
<1>3. s = <<>> <=> S = {}
  <2>1. s = <<>> <=> Len(s) = 0
    BY <1>1
  <2>2. Len(s) = 0 <=> S = {}
    <3>1. Len(s) = 0 => S = {}
      BY <1>2
    <3>2. Len(s) # 0 => s[1] \in S
      BY <1>2
    <3> QED BY <3>1, <3>2
  <2> QED BY <2>1, <2>2
<1>4. ASSUME S # {}
      PROVE  Head(s) \in S /\ \A n \in S : Head(s) <= n
  <2>1. Len(s) # 0 /\ Head(s) = s[1] /\ 1 \in 1..Len(s)
    BY <1>1, <1>2, <1>3, <1>4
  <2>2. \A i \in 1..Len(s) : s[i] \in Int
    BY <1>2
  <2>3. \A i \in 1..Len(s) : s[1] <= s[i]
    <3>1. \A i \in 1..Len(s) : 1 < i => s[1] < s[i]
      BY <1>1, <1>2, <2>1 DEF Increasing
    <3>2. \A i \in 1..Len(s) : i = 1 \/ 1 < i
      BY <1>2
    <3> QED BY <2>1, <2>2, <3>1, <3>2
  <2> QED BY <1>2, <2>1, <2>3
<1>. QED BY <1>3, <1>4 DEF s

(* A set of numbers with a bound has a greatest. *)
LEMMA GreatestNumber ==
  ASSUME NEW n \in Nat, NEW S, S \subseteq 1..n, S # {}
  PROVE  \E m \in S : \A k \in S : k <= m
<1> DEFINE T == {n - k : k \in S}
<1>1. T \subseteq Nat /\ T # {}
  <2>1. PICK k \in S : TRUE
    OBVIOUS
  <2>2. n - k \in T
    BY <2>1
  <2>3. \A i \in S : n - i \in Nat
    OBVIOUS
  <2> QED BY <2>2, <2>3
<1>2. PICK t \in T : \A x \in T : t <= x
  <2> HIDE DEF T
  <2> QED BY <1>1, LeastNumber
<1>3. PICK m \in S : t = n - m
  OBVIOUS
<1>4. ASSUME NEW k \in S PROVE k <= m
  <2>1. n - m <= n - k
    BY <1>2, <1>3
  <2> QED BY <2>1
<1>. QED BY <1>4

-----------------------------------------------------------------------------
(* Functions defined by recursion over numbers.                            *)

(* Each value follows from those above it, or from those below it. *)
EqualFromAbove(f, g, n) ==
  \A m \in 1..n : (\A k \in 1..n : m < k => f[k] = g[k]) => f[m] = g[m]
EqualFromBelow(f, g, n) ==
  \A m \in 1..n : (\A k \in 1..n : k < m => f[k] = g[k]) => f[m] = g[m]

LEMMA SameFromAbove ==
  ASSUME NEW n \in Nat, NEW f, NEW g, EqualFromAbove(f, g, n)
  PROVE  \A m \in 1..n : f[m] = g[m]
<1> USE DEF EqualFromAbove
<1> DEFINE M == {j \in Nat : \A k \in 1..n : n - j < k => f[k] = g[k]}
<1>1. 0 \in M
  OBVIOUS
<1>2. ASSUME NEW j \in Nat, j \in M
      PROVE  j + 1 \in M
  <2> SUFFICES ASSUME NEW k \in 1..n, n - (j + 1) < k
               PROVE  f[k] = g[k]
    OBVIOUS
  <2>1. CASE n - j < k
    BY <1>2, <2>1
  <2>2. CASE ~(n - j < k)
    <3>1. \A i \in 1..n : k < i => n - j < i
      BY <2>2
    <3> QED BY <1>2, <3>1
  <2> QED BY <2>1, <2>2
<1>3. Nat \subseteq M
  <2> HIDE DEF M
  <2> QED BY <1>1, <1>2, CountingOn
<1>4. n \in M
  BY <1>3
<1>. QED BY <1>4

LEMMA SameFromBelow ==
  ASSUME NEW n \in Nat, NEW f, NEW g, EqualFromBelow(f, g, n)
  PROVE  \A m \in 1..n : f[m] = g[m]
<1> USE DEF EqualFromBelow
<1> DEFINE M == {j \in Nat : \A k \in 1..n : k <= j => f[k] = g[k]}
<1>1. 0 \in M
  OBVIOUS
<1>2. ASSUME NEW j \in Nat, j \in M
      PROVE  j + 1 \in M
  <2> SUFFICES ASSUME NEW k \in 1..n, k <= j + 1
               PROVE  f[k] = g[k]
    OBVIOUS
  <2>1. CASE k <= j
    BY <1>2, <2>1
  <2>2. CASE ~(k <= j)
    <3>1. \A i \in 1..n : i < k => i <= j
      BY <2>2
    <3> QED BY <1>2, <3>1
  <2> QED BY <2>1, <2>2
<1>3. Nat \subseteq M
  <2> HIDE DEF M
  <2> QED BY <1>1, <1>2, CountingOn
<1>4. n \in M
  BY <1>3
<1>. QED BY <1>4

-----------------------------------------------------------------------------
(* FlattenSeq joins the lists of a list, one after the other. *)
Joins(g, seqs, n) ==
  /\ Len(seqs) = n
  /\ g[1] = seqs[1]
  /\ \A i \in 2..n : g[i] = g[i - 1] \o seqs[i]

LEMMA FlattenIs ==
  ASSUME NEW n \in Nat, n # 0, NEW seqs, NEW g, Joins(g, seqs, n)
  PROVE  FlattenSeq(seqs) = g[n]
<1> USE DEF Joins
<1> DEFINE Flat(f) ==
             f = [i \in 1..n |->
                    IF i = 1 THEN seqs[i] ELSE f[i - 1] \o seqs[i]]
           h == [i \in 1..n |-> g[i]]
<1>1. Flat(h)
  <2>1. ASSUME NEW i \in 1..n
        PROVE  h[i] = IF i = 1 THEN seqs[i] ELSE h[i - 1] \o seqs[i]
    <3>1. CASE i = 1
      BY <3>1
    <3>2. CASE i # 1
      <4>1. i \in 2..n /\ i - 1 \in 1..n
        BY <3>2
      <4> QED BY <3>2, <4>1
    <3> QED BY <3>1, <3>2
  <2> QED BY <2>1
<1>2. PICK f : Flat(f) /\ FlattenSeq(seqs) = f[n]
  BY <1>1 DEF FlattenSeq
<1>3. ASSUME NEW m \in 1..n, \A k \in 1..n : k < m => f[k] = h[k]
      PROVE  f[m] = h[m]
  <2>1. CASE m = 1
    BY <1>1, <1>2, <2>1
  <2>2. CASE m # 1
    <3>1. m - 1 \in 1..n /\ m - 1 < m
      BY <2>2
    <3>2. f[m - 1] = h[m - 1]
      BY <1>3, <3>1
    <3>3. f[m] = f[m - 1] \o seqs[m]
      BY <1>2, <2>2
    <3>4. h[m] = h[m - 1] \o seqs[m]
      <4> HIDE DEF h
      <4> QED BY <1>1, <2>2
    <3> HIDE DEF h, Flat
    <3> QED BY <3>2, <3>3, <3>4
  <2> QED BY <2>1, <2>2
<1>4. \A m \in 1..n : f[m] = h[m]
  <2> HIDE DEF h, Flat
  <2>1. EqualFromBelow(f, h, n)
    BY <1>3 DEF EqualFromBelow
  <2> QED BY <2>1, SameFromBelow
<1>5. f[n] = h[n] /\ h[n] = g[n]
  BY <1>4
<1>. QED BY <1>2, <1>5

(* A list of the same length with nothing in it. *)
Blank(s) == [i \in 1..Len(s) |-> 0]

LEMMA BlankElements ==
  ASSUME NEW s \in Seq(Int)
  PROVE  /\ Blank(s) \in Seq(Int) /\ Len(Blank(s)) = Len(s)
         /\ ToSet(Blank(s)) \subseteq {0}
BY DEF Blank, ToSet

LEMMA BlankConcat ==
  ASSUME NEW s \in Seq(Int), NEW t \in Seq(Int)
  PROVE  Blank(s \o t) = Blank(s) \o Blank(t)
<1>1. Len(s) \in Nat /\ Len(t) \in Nat /\ Len(s \o t) = Len(s) + Len(t)
  OBVIOUS
<1>2. ASSUME NEW n \in Nat, NEW m \in Nat
      PROVE  [i \in 1..n |-> 0] \o [i \in 1..m |-> 0]
               = [i \in 1..(n + m) |-> 0]
  OBVIOUS
<1>. QED BY <1>1, <1>2 DEF Blank

(* Sets of numbers, all of one before all of the next: their lists in      *)
(* order, joined, are the list of all in order.                            *)
Separated(P, n) ==
  \A i, j \in 1..n : i < j => \A x \in P[i], y \in P[j] : x < y
Joined(P, n) == FlattenSeq([i \in 1..n |-> InOrder(P[i])])
JoinedBlank(P, n) == FlattenSeq([i \in 1..n |-> Blank(InOrder(P[i]))])
Together(P, n) == UNION {P[i] : i \in 1..n}

LEMMA FlattenInOrder ==
  ASSUME NEW D, D \subseteq Int, IsFiniteSet(D),
         NEW n \in Nat, NEW P \in [1..n -> SUBSET D], Separated(P, n)
  PROVE  /\ Joined(P, n) = InOrder(Together(P, n))
         /\ JoinedBlank(P, n) = Blank(InOrder(Together(P, n)))
<1> USE DEF Separated, Joined, JoinedBlank, Together
<1> DEFINE Up(k) == UNION {P[i] : i \in 1..k}
           seqs == [i \in 1..n |-> InOrder(P[i])]
           blanks == [i \in 1..n |-> Blank(InOrder(P[i]))]
<1>1. ASSUME n = 0
      PROVE  /\ FlattenSeq(seqs) = InOrder(Up(n))
             /\ FlattenSeq(blanks) = Blank(InOrder(Up(n)))
  <2>1. seqs = <<>> /\ blanks = <<>> /\ Up(n) = {}
    BY <1>1
  <2>2. FlattenSeq(<<>>) = <<>>
    BY DEF FlattenSeq
  <2>3. InOrder({}) = <<>> /\ Blank(<<>>) = <<>>
    BY InOrderOne DEF Blank
  <2> QED BY <2>1, <2>2, <2>3
<1>2. ASSUME n # 0
      PROVE  /\ FlattenSeq(seqs) = InOrder(Up(n))
             /\ FlattenSeq(blanks) = Blank(InOrder(Up(n)))
  <2> DEFINE g == [i \in 1..n |-> InOrder(Up(i))]
             b == [i \in 1..n |-> Blank(InOrder(Up(i)))]
  <2>1. 1 \in 1..n /\ n \in 1..n /\ Up(1) = P[1]
    BY <1>2
  <2>2. ASSUME NEW i \in 2..n
        PROVE  /\ InOrder(Up(i)) = InOrder(Up(i - 1)) \o InOrder(P[i])
               /\ Blank(InOrder(Up(i)))
                    = Blank(InOrder(Up(i - 1))) \o Blank(InOrder(P[i]))
    <3>1. i \in 1..n /\ i - 1 \in 1..n
      OBVIOUS
    <3>2. Up(i) = Up(i - 1) \cup P[i]
      <4>1. \A j \in 1..i : j = i \/ j \in 1..(i - 1)
        OBVIOUS
      <4>2. i \in 1..i /\ \A j \in 1..(i - 1) : j \in 1..i
        OBVIOUS
      <4> QED BY <4>1, <4>2
    <3>3. Up(i - 1) \subseteq D /\ P[i] \subseteq D
      <4>1. \A j \in 1..n : P[j] \subseteq D
        OBVIOUS
      <4>2. \A j \in 1..(i - 1) : j \in 1..n
        OBVIOUS
      <4> QED BY <3>1, <4>1, <4>2
    <3>4. \A x \in Up(i - 1), y \in P[i] : x < y
      <4>1. \A j \in 1..(i - 1) : j \in 1..n /\ j < i
        OBVIOUS
      <4> QED BY <3>1, <4>1
    <3> HIDE DEF Up
    <3>5. /\ Up(i - 1) \subseteq Int /\ IsFiniteSet(Up(i - 1))
          /\ P[i] \subseteq Int /\ IsFiniteSet(P[i])
      BY <3>3, FS_Subset
    <3>6. InOrder(Up(i)) = InOrder(Up(i - 1)) \o InOrder(P[i])
      BY <3>2, <3>4, <3>5, InOrderConcat
    <3>7. InOrder(Up(i - 1)) \in Seq(Int) /\ InOrder(P[i]) \in Seq(Int)
      BY <3>5, InOrderElements, WiderSeq
    <3> QED BY <3>6, <3>7, BlankConcat
  <2> HIDE DEF Up
  <2>3. FlattenSeq(seqs) = g[n]
    <3>1. g[1] = seqs[1]
      BY <2>1
    <3>2. ASSUME NEW i \in 2..n
          PROVE  g[i] = g[i - 1] \o seqs[i]
      <4>1. i \in 1..n /\ i - 1 \in 1..n
        OBVIOUS
      <4> QED BY <2>2, <4>1
    <3>3. Len(seqs) = n
      OBVIOUS
    <3> HIDE DEF g, seqs
    <3>4. Joins(g, seqs, n)
      BY <3>1, <3>2, <3>3 DEF Joins
    <3> QED BY <1>2, <3>4, FlattenIs
  <2>4. FlattenSeq(blanks) = b[n]
    <3>1. b[1] = blanks[1]
      BY <2>1
    <3>2. ASSUME NEW i \in 2..n
          PROVE  b[i] = b[i - 1] \o blanks[i]
      <4>1. i \in 1..n /\ i - 1 \in 1..n
        OBVIOUS
      <4> QED BY <2>2, <4>1
    <3>3. Len(blanks) = n
      OBVIOUS
    <3> HIDE DEF b, blanks
    <3>4. Joins(b, blanks, n)
      BY <3>1, <3>2, <3>3 DEF Joins
    <3> QED BY <1>2, <3>4, FlattenIs
  <2> QED BY <2>1, <2>3, <2>4
<1>. QED BY <1>1, <1>2
=============================================================================
