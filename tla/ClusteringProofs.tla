-------------------------- MODULE ClusteringProofs --------------------------
(***************************************************************************)
(* The search for clusters finds those of the definition.  Places are put  *)
(* in order, scalar products are symmetric, and the labels of a search     *)
(* tell at every turn what is known of each point (LabelsOK): a cluster is *)
(* connected, and all its neighbours are in it or wait in the queue.       *)
(* Facts about every number or every prefix of a sum are had from the      *)
(* least counterexample (Climb).                                           *)
(***************************************************************************)
EXTENDS Clustering, FiniteSetTheorems, WellFoundedInduction, TLAPS

-----------------------------------------------------------------------------
(***************************************************************************)
(* Places in their order.                                                  *)
(***************************************************************************)

(* A set of numbers that holds 0 and with each number the next holds all.  *)
LEMMA Climb ==
  ASSUME NEW P \in SUBSET Nat, 0 \in P, \A n \in P : n + 1 \in P
  PROVE  P = Nat
<1> DEFINE R == {p \in Nat \X Nat : p[1] < p[2]}
           left == Nat \ P
<1>1. CASE left # {}
  <2>1. IsWellFoundedOn(R, Nat)
    BY NatLessThanWellFounded DEF OpToRel
  <2>2. PICK m \in left : \A n \in left : <<n, m>> \notin R
    <3> HIDE DEF IsWellFoundedOn, R
    <3> QED
      BY <1>1, <2>1, WFMin
  <2>3. m \in Nat /\ m # 0 /\ m \notin P
    OBVIOUS
  <2>4. m - 1 \in Nat /\ <<m - 1, m>> \in R
    BY <2>3
  <2>5. m - 1 \in P
    BY <2>2, <2>4
  <2>6. (m - 1) + 1 \in P
    BY <2>5
  <2> QED
    BY <2>3, <2>6
<1> QED
  BY <1>1

Increasing(q) == \A i, k \in DOMAIN q : i < k => q[i] < q[k]

(* Finitely many places can be put in order.                               *)
LEMMA OrderExists ==
  ASSUME NEW n \in Nat, NEW S \in SUBSET (1..n)
  PROVE  \E q \in [1..Cardinality(S) -> S] : Increasing(q)
<1> DEFINE Ordered(T) == \E q \in [1..Cardinality(T) -> T] : Increasing(q)
           P == {m \in Nat : \A T \in SUBSET (1..m) : Ordered(T)}
<1>1. 0 \in P
  <2>1. Ordered({})
    <3>1. Cardinality({}) = 0
      BY FS_EmptySet
    <3>2. <<>> \in [1..0 -> {}] /\ Increasing(<<>>)
      BY DEF Increasing
    <3> QED
      BY <3>1, <3>2
  <2>2. \A T \in SUBSET (1..0) : T = {}
    OBVIOUS
  <2> HIDE DEF Ordered
  <2> QED
    BY <2>1, <2>2
<1>2. ASSUME NEW m \in P PROVE m + 1 \in P
  <2>1. ASSUME NEW T \in SUBSET (1..(m + 1))
        PROVE  Ordered(T)
    <3>1. CASE m + 1 \notin T
      <4>1. T \in SUBSET (1..m)
        BY <3>1
      <4> HIDE DEF Ordered
      <4> QED
        BY <4>1
    <3>2. CASE m + 1 \in T
      <4> DEFINE U == T \ {m + 1}
                 c == Cardinality(U)
      <4>1. U \in SUBSET (1..m)
        OBVIOUS
      <4>2. Ordered(U)
        <5> HIDE DEF Ordered, U
        <5> QED
          BY <4>1
      <4>3. PICK q \in [1..c -> U] : Increasing(q)
        BY <4>2
      <4>4. IsFiniteSet(T) /\ Cardinality(T) = c + 1 /\ c \in Nat
        <5>1. IsFiniteSet(T) /\ IsFiniteSet(U)
          <6>1. IsFiniteSet(1..(m + 1))
            BY FS_Interval
          <6>2. U \in SUBSET T
            OBVIOUS
          <6> QED
            BY <6>1, <6>2, FS_Subset
        <5>2. c = Cardinality(T) - 1 /\ Cardinality(T) \in Nat /\ c \in Nat
          BY <3>2, <5>1, FS_RemoveElement, FS_CardinalityType
        <5> QED
          BY <5>1, <5>2
      <4> DEFINE p == [k \in 1..(c + 1) |-> IF k = c + 1 THEN m + 1 ELSE q[k]]
      <4> HIDE DEF c
      <4>5. \A k \in 1..c : q[k] \in T /\ q[k] < m + 1 /\ q[k] \in Nat
        <5>1. \A k \in 1..c : q[k] \in U
          OBVIOUS
        <5>2. \A x \in U : x \in T /\ x < m + 1 /\ x \in Nat
          BY <4>1
        <5> HIDE DEF U
        <5> QED
          BY <5>1, <5>2
      <4>6. p \in [1..(c + 1) -> T]
        BY <3>2, <4>4, <4>5
      <4>7. ASSUME NEW i \in 1..(c + 1), NEW k \in 1..(c + 1), i < k
            PROVE  p[i] < p[k]
        <5>1. i \in 1..c
          BY <4>4, <4>7
        <5>2. CASE k = c + 1
          BY <4>4, <4>5, <5>1, <5>2
        <5>3. CASE k # c + 1
          <6>1. k \in 1..c /\ q[i] < q[k]
            BY <4>3, <4>4, <4>7, <5>1, <5>3 DEF Increasing
          <6> QED
            BY <4>4, <5>1, <6>1
        <5> QED
          BY <5>2, <5>3
      <4>8. Increasing(p)
        <5>1. DOMAIN p = 1..(c + 1)
          OBVIOUS
        <5> HIDE DEF p
        <5> QED
          BY <4>7, <5>1 DEF Increasing
      <4> HIDE DEF p
      <4> QED
        BY <4>4, <4>6, <4>8
    <3> QED
      BY <3>1, <3>2
  <2> HIDE DEF Ordered
  <2> QED
    BY <2>1
<1>3. P = Nat
  <2> HIDE DEF Ordered
  <2> QED
    BY <1>1, <1>2, Climb
<1> HIDE DEF Ordered
<1>4. Ordered(S)
  BY <1>3
<1> QED
  BY <1>4 DEF Ordered

(* InOrder lists each place of S once, in order.                           *)
LEMMA InOrderIs ==
  ASSUME NEW n \in Nat, NEW S \in SUBSET (1..n)
  PROVE  /\ Cardinality(S) \in Nat
         /\ InOrder(S) \in [1..Cardinality(S) -> S]
         /\ InOrder(S) \in Seq(S) /\ Len(InOrder(S)) = Cardinality(S)
         /\ DOMAIN InOrder(S) = 1..Cardinality(S)
         /\ Increasing(InOrder(S))
         /\ \A i, k \in DOMAIN InOrder(S) : InOrder(S)[i] = InOrder(S)[k] => i = k
         /\ ToSet(InOrder(S)) = S
<1>1. IsFiniteSet(S) /\ Cardinality(S) \in Nat
  <2>1. IsFiniteSet(1..n)
    BY FS_Interval
  <2> QED
    BY <2>1, FS_Subset, FS_CardinalityType
<1> DEFINE q == InOrder(S)
           c == Cardinality(S)
<1>2. q \in [1..c -> S] /\ Increasing(q)
  BY OrderExists DEF InOrder, Increasing
<1> HIDE DEF q, c
<1>3. \A k \in 1..c : q[k] \in Nat
  <2>1. \A k \in 1..c : q[k] \in S
    BY <1>2
  <2>2. \A x \in S : x \in Nat
    OBVIOUS
  <2> QED
    BY <2>1, <2>2
<1>4. \A i, k \in 1..c : q[i] = q[k] => i = k
  <2> SUFFICES ASSUME NEW i \in 1..c, NEW k \in 1..c, q[i] = q[k], i # k PROVE FALSE
    OBVIOUS
  <2>1. i < k \/ k < i
    OBVIOUS
  <2>2. q[i] < q[k] \/ q[k] < q[i]
    BY <1>2, <2>1 DEF Increasing
  <2> QED
    BY <1>3, <2>2
<1>5. q \in Surjection(1..c, S)
  <2>1. q \in Injection(1..c, S)
    BY <1>2, <1>4 DEF Injection, IsInjective
  <2>2. Cardinality(1..c) = c
    BY <1>1, FS_Interval DEF c
  <2> QED
    BY <1>1, <2>1, <2>2, FS_Injection DEF c
<1>6. ToSet(q) = S
  BY <1>2, <1>5 DEF Surjection, ToSet
<1>7. q \in Seq(S) /\ Len(q) = c
  BY <1>1, <1>2 DEF c
<1> QED
  BY <1>1, <1>2, <1>4, <1>6, <1>7 DEF q, c

-----------------------------------------------------------------------------
(***************************************************************************)
(* Similar embeddings.                                                     *)
(***************************************************************************)

(* The largest of some numbers up to k, when k is one of them.             *)
LEMMA MaxIs ==
  ASSUME NEW k \in Nat, NEW S \in SUBSET (1..k), k \in S
  PROVE  Max(S) = k
<1>1. \A y \in S : k >= y /\ y \in Nat
  OBVIOUS
<1>2. \E x \in S : \A y \in S : x >= y
  BY <1>1
<1>3. Max(S) \in S /\ \A y \in S : Max(S) >= y
  BY <1>2 DEF Max
<1>4. Max(S) \in Nat /\ k >= Max(S)
  BY <1>1, <1>3
<1>5. Max(S) >= k
  BY <1>3
<1> QED
  BY <1>4, <1>5

(* A sum of integers is one, and of natural numbers likewise.              *)
LEMMA SumIs ==
  ASSUME NEW n \in Nat, NEW a \in [1..n -> Int]
  PROVE  /\ FoldLeft(+, 0, a) \in Int
         /\ (\A i \in 1..n : a[i] >= 0) => FoldLeft(+, 0, a) >= 0
<1> DEFINE All == SUBSET (1..n)
           next(g, s) == g[s \ {Max(s)}] + a[Max(s)]
           Solves(g, k) == \A s \in SUBSET (1..k) : g[s] = IF s = {} THEN 0 ELSE next(g, s)
           P == {k \in Nat : k <= n => \E g \in [All -> Int] : Solves(g, k)}
<1>1. 0 \in P
  <2>1. [s \in All |-> 0] \in [All -> Int] /\ Solves([s \in All |-> 0], 0)
    OBVIOUS
  <2> HIDE DEF Solves, All
  <2> QED
    BY <2>1
<1>2. ASSUME NEW k \in P PROVE k + 1 \in P
  <2> SUFFICES ASSUME k + 1 <= n PROVE \E g \in [All -> Int] : Solves(g, k + 1)
    <3> HIDE DEF Solves, All
    <3> QED
      OBVIOUS
  <2>1. k \in Nat /\ k <= n /\ k + 1 \in 1..n
    OBVIOUS
  <2>2. PICK g \in [All -> Int] : Solves(g, k)
    <3> HIDE DEF Solves, All
    <3> QED
      BY <2>1
  <2> DEFINE top(s) == s \in SUBSET (1..(k + 1)) /\ k + 1 \in s
             h == [s \in All |-> IF top(s) THEN g[s \ {k + 1}] + a[k + 1] ELSE g[s]]
  <2>3. a[k + 1] \in Int /\ \A s \in All : g[s] \in Int /\ g[s \ {k + 1}] \in Int
    <3>1. \A s \in All : s \ {k + 1} \in All
      OBVIOUS
    <3> HIDE DEF All
    <3> QED
      BY <2>1, <3>1
  <2>4. h \in [All -> Int]
    <3> HIDE DEF All, top
    <3> QED
      BY <2>3
  <2>5. ASSUME NEW s \in SUBSET (1..(k + 1))
        PROVE  h[s] = IF s = {} THEN 0 ELSE next(h, s)
    <3>1. s \in All /\ SUBSET (1..k) \subseteq All
      BY <2>1
    <3>2. CASE k + 1 \in s
      <4>1. Max(s) = k + 1
        BY <2>1, <3>2, MaxIs
      <4>2. top(s) /\ ~top(s \ {k + 1}) /\ s \ {k + 1} \in All /\ s # {}
        BY <3>1, <3>2
      <4>3. h[s] = g[s \ {k + 1}] + a[k + 1] /\ h[s \ {k + 1}] = g[s \ {k + 1}]
        <5> HIDE DEF top, All
        <5> QED
          BY <3>1, <4>2
      <4> HIDE DEF h
      <4> QED
        BY <4>1, <4>2, <4>3
    <3>3. CASE k + 1 \notin s
      <4>1. s \in SUBSET (1..k) /\ ~top(s)
        BY <2>1, <3>3
      <4>2. h[s] = g[s]
        <5> HIDE DEF top, All
        <5> QED
          BY <3>1, <4>1
      <4>3. s # {} => ~top(s \ {Max(s)}) /\ s \ {Max(s)} \in All
        BY <3>1, <3>3
      <4>4. s # {} => h[s \ {Max(s)}] = g[s \ {Max(s)}]
        <5> HIDE DEF top, All
        <5> QED
          BY <4>3
      <4>5. g[s] = IF s = {} THEN 0 ELSE next(g, s)
        BY <2>2, <4>1
      <4> HIDE DEF h
      <4> QED
        BY <4>2, <4>4, <4>5
    <3> QED
      BY <3>2, <3>3
  <2>6. Solves(h, k + 1)
    <3> HIDE DEF h, next
    <3> QED
      BY <2>5
  <2> HIDE DEF h, Solves, All
  <2> QED
    BY <2>4, <2>6
<1>3. PICK g \in [All -> Int] : Solves(g, n)
  <2> HIDE DEF Solves, All
  <2>1. P = Nat
    BY <1>1, <1>2, Climb
  <2>2. n \in P
    <3> HIDE DEF P
    <3> QED
      BY <2>1
  <2>3. n <= n
    OBVIOUS
  <2> QED
    BY <2>2, <2>3
<1> DEFINE body(g0) == [s \in SUBSET DOMAIN a |-> IF s = {} THEN 0 ELSE next(g0, s)]
           iter == CHOOSE f : f = body(f)
<1>4. g = body(g)
  <2>1. DOMAIN a = 1..n
    OBVIOUS
  <2>2. \A s \in All : g[s] = IF s = {} THEN 0 ELSE next(g, s)
    BY <1>3
  <2> HIDE DEF next
  <2> QED
    BY <2>1, <2>2
<1>5. iter = body(iter)
  <2> HIDE DEF body
  <2> QED
    BY <1>4
<1>6. FoldLeft(+, 0, a) = iter[1..n]
  BY DEF FoldLeft, MapThenFoldSet
<1> HIDE DEF iter
<1>7. \A s \in All : iter[s] = IF s = {} THEN 0 ELSE next(iter, s)
  <2>1. DOMAIN a = 1..n
    OBVIOUS
  <2> HIDE DEF next
  <2> QED
    BY <1>5, <2>1
<1> DEFINE Q == {k \in Nat : k <= n =>
                   iter[1..k] \in Int /\ ((\A i \in 1..n : a[i] >= 0) => iter[1..k] >= 0)}
<1>8. 0 \in Q
  <2>1. 1..0 = {} /\ {} \in All
    OBVIOUS
  <2>2. iter[{}] = 0
    BY <1>7, <2>1
  <2> QED
    BY <2>1, <2>2
<1>9. ASSUME NEW k \in Q PROVE k + 1 \in Q
  <2> SUFFICES ASSUME k + 1 <= n
               PROVE  iter[1..(k + 1)] \in Int
                      /\ ((\A i \in 1..n : a[i] >= 0) => iter[1..(k + 1)] >= 0)
    OBVIOUS
  <2>1. k \in Nat /\ k + 1 \in 1..n /\ k + 1 \in Nat
    OBVIOUS
  <2>2. Max(1..(k + 1)) = k + 1
    BY <2>1, MaxIs
  <2>3. (1..(k + 1)) \ {k + 1} = 1..k /\ 1..(k + 1) \in All /\ 1..(k + 1) # {}
    BY <2>1
  <2>4. iter[1..(k + 1)] = iter[1..k] + a[k + 1]
    BY <1>7, <2>2, <2>3
  <2>5. iter[1..k] \in Int /\ ((\A i \in 1..n : a[i] >= 0) => iter[1..k] >= 0)
    BY <2>1
  <2>6. a[k + 1] \in Int
    BY <2>1
  <2> QED
    BY <2>1, <2>4, <2>5, <2>6
<1>10. Q = Nat
  <2> HIDE DEF Q
  <2> QED
    BY <1>8, <1>9, Climb DEF Q
<1>11. n \in Q /\ n <= n
  BY <1>10
<1>12. iter[1..n] \in Int /\ ((\A i \in 1..n : a[i] >= 0) => iter[1..n] >= 0)
  BY <1>11
<1> HIDE DEF Q, P, All, next, Solves
<1> QED
  BY <1>6, <1>12

(* The scalar product is an integer, symmetric, and not negative on a      *)
(* vector with itself.                                                     *)
LEMMA DotIs ==
  ASSUME NEW u \in Seq(Int), NEW v \in Seq(Int)
  PROVE  Dot(u, v) \in Int /\ Dot(u, v) = Dot(v, u) /\ Dot(u, u) \in Nat
<1> DEFINE shorter(x, y) == IF Len(x) < Len(y) THEN Len(x) ELSE Len(y)
           terms(x, y) == [i \in 1..shorter(x, y) |-> x[i] * y[i]]
<1>1. ASSUME NEW x \in Seq(Int), NEW y \in Seq(Int)
      PROVE  shorter(x, y) \in Nat /\ terms(x, y) \in [1..shorter(x, y) -> Int]
             /\ terms(x, y) = terms(y, x)
  <2>1. Len(x) \in Nat /\ Len(y) \in Nat /\ shorter(x, y) = shorter(y, x)
        /\ shorter(x, y) \in Nat
    OBVIOUS
  <2>2. \A i \in 1..shorter(x, y) : x[i] \in Int /\ y[i] \in Int
    BY <2>1
  <2> HIDE DEF shorter
  <2> QED
    BY <2>1, <2>2
<1>2. Dot(u, v) = FoldLeft(+, 0, terms(u, v)) /\ Dot(v, u) = FoldLeft(+, 0, terms(v, u))
      /\ Dot(u, u) = FoldLeft(+, 0, terms(u, u))
  BY DEF Dot
<1>3. \A i \in 1..shorter(u, u) : terms(u, u)[i] >= 0
  <2>1. \A i \in 1..shorter(u, u) : u[i] \in Int
    OBVIOUS
  <2>2. \A x \in Int : x * x >= 0
    OBVIOUS
  <2> HIDE DEF shorter
  <2> QED
    BY <2>1, <2>2
<1> HIDE DEF shorter, terms
<1>4. terms(u, v) = terms(v, u)
  BY <1>1
<1>5. FoldLeft(+, 0, terms(u, v)) \in Int
  BY <1>1, SumIs
<1>6. FoldLeft(+, 0, terms(u, u)) \in Int /\ FoldLeft(+, 0, terms(u, u)) >= 0
  BY <1>1, <1>3, SumIs
<1>7. Dot(u, v) = Dot(v, u)
  BY <1>2, <1>4
<1>8. Dot(u, v) \in Int
  BY <1>2, <1>5
<1>9. Dot(u, u) \in Int /\ Dot(u, u) >= 0
  BY <1>2, <1>6
<1> QED
  BY <1>7, <1>8, <1>9

(* What is close is so both ways, and close to itself.                     *)
LEMMA CloseIs ==
  ASSUME NEW u \in Seq(Int), NEW v \in Seq(Int), Close(u, v)
  PROVE  Close(v, u) /\ Close(u, u)
<1> DEFINE d == Dot(u, u)
           e == Dot(v, v)
           x == Dot(u, v)
<1>1. d \in Nat /\ e \in Nat /\ x \in Int /\ Dot(v, u) = x
  BY DotIs
<1>2. d * e # 0 /\ x > 0 /\ 25 * x * x >= 16 * (d * e)
  BY DEF Close
<1> HIDE DEF d, e, x
<1>3. d * e = e * d /\ d # 0
  BY <1>1, <1>2
<1>4. d * d # 0 /\ d > 0 /\ 25 * d * d >= 16 * (d * d)
  BY <1>1, <1>3
<1>5. e * d # 0 /\ 25 * x * x >= 16 * (e * d)
  BY <1>2, <1>3
<1> QED
  BY <1>1, <1>2, <1>4, <1>5 DEF Close, d, e, x

-----------------------------------------------------------------------------
(***************************************************************************)
(* The search for clusters, where two points make a core.  A cluster is    *)
(* whatever can be reached from its first point.                           *)
(***************************************************************************)

(* Neighbourhood is mutual, and what has a neighbour is its own.           *)
NeighboursOK(near, n) ==
  /\ n \in Nat /\ near \in [1..n -> SUBSET (1..n)]
  /\ \A i \in 1..n : \A j \in near[i] : i \in near[j] /\ i \in near[i]

Points(label, c) == {i \in DOMAIN label : label[i] = c}

(* Points that do not fall into two parts without a close pair between.    *)
Connected(near, S) ==
  \A part \in SUBSET S : part # {} /\ part # S =>
    \E i \in part, j \in S \ part : j \in near[i]

(* Labels tell what is known of a point: its cluster, which it joins with  *)
(* all its neighbours, unless they are still in the queue (open); or that  *)
(* it has no neighbour.                                                    *)
LabelsOK(near, n, label, open, id) ==
  /\ label \in [1..n -> Int] /\ open \subseteq 1..n
  /\ id \in Int /\ id >= -1 /\ (open # {} => id >= 0)
  /\ \A i \in 1..n : -2 <= label[i] /\ label[i] <= id
  /\ \A i \in 1..n : label[i] >= 0 => near[i] \ {i} # {}
  /\ \A i \in 1..n : label[i] = -1 => near[i] \ {i} = {}
  /\ \A i \in 1..n : \A j \in near[i] :
       label[i] >= 0 => label[j] = label[i] \/ (label[i] = id /\ j \in open)
  /\ \A j \in open : \E i \in 1..n : label[i] = id /\ j \in near[i]
  /\ \A c \in 0..id : Connected(near, Points(label, c))

(* The neighbours that Near finds are such.                                *)
LEMMA NearIs ==
  ASSUME NEW es \in Seq(Seq(Int))
  PROVE  NeighboursOK(Near(es), Len(es))
<1>1. DOMAIN es = 1..Len(es) /\ Len(es) \in Nat /\ \A i \in DOMAIN es : es[i] \in Seq(Int)
  OBVIOUS
<1>2. \A i \in DOMAIN es : Near(es)[i] = {j \in DOMAIN es : Close(es[i], es[j])}
  BY DEF Near
<1>3. Near(es) \in [1..Len(es) -> SUBSET (1..Len(es))]
  BY <1>1 DEF Near
<1>4. ASSUME NEW i \in 1..Len(es), NEW j \in Near(es)[i]
      PROVE  i \in Near(es)[j] /\ i \in Near(es)[i]
  <2>1. j \in DOMAIN es /\ Close(es[i], es[j])
    BY <1>1, <1>2
  <2>2. Close(es[j], es[i]) /\ Close(es[i], es[i])
    BY <1>1, <2>1, CloseIs
  <2> QED
    BY <1>1, <1>2, <2>1, <2>2
<1> QED
  BY <1>1, <1>3, <1>4 DEF NeighboursOK

(* With two samples a core point is one with another point near.           *)
LEMMA CoreIs ==
  ASSUME MinSamples = 2, NEW n, NEW near, NeighboursOK(near, n), NEW i \in 1..n
  PROVE  IsCore(near, i) <=> near[i] \ {i} # {}
<1>1. n \in Nat /\ near[i] \in SUBSET (1..n)
  BY DEF NeighboursOK
<1>2. IsFiniteSet(near[i]) /\ Cardinality(near[i]) \in Nat
  <2>1. IsFiniteSet(1..n)
    BY <1>1, FS_Interval
  <2> QED
    BY <1>1, <2>1, FS_Subset, FS_CardinalityType
<1>3. CASE near[i] \ {i} = {}
  <2>1. near[i] \in SUBSET {i}
    BY <1>3
  <2>2. IsFiniteSet({i}) /\ Cardinality({i}) = 1
    BY FS_Singleton
  <2>3. Cardinality(near[i]) <= 1
    BY <2>1, <2>2, FS_Subset
  <2> QED
    BY <1>2, <1>3, <2>3 DEF IsCore
<1>4. CASE near[i] \ {i} # {}
  <2>1. PICK j \in near[i] : j # i
    BY <1>4
  <2>2. {i} \cup {j} \in SUBSET near[i]
    BY <2>1 DEF NeighboursOK
  <2>3. IsFiniteSet({i}) /\ Cardinality({i}) = 1
    BY FS_Singleton
  <2>4. Cardinality({i} \cup {j}) = 2
    BY <2>1, <2>3, FS_AddElement
  <2>5. 2 <= Cardinality(near[i])
    BY <1>2, <2>2, <2>4, FS_Subset
  <2> QED
    BY <1>2, <1>4, <2>5 DEF IsCore
<1> QED
  BY <1>3, <1>4

(* A point that is near one of connected points can join them.             *)
LEMMA Joins ==
  ASSUME NEW n, NEW near, NeighboursOK(near, n), NEW S \in SUBSET (1..n),
         Connected(near, S), NEW q \in S, NEW p \in near[q]
  PROVE  Connected(near, S \cup {p})
<1>1. p \in 1..n /\ q \in near[p]
  BY DEF NeighboursOK
<1> SUFFICES ASSUME NEW part \in SUBSET (S \cup {p}), part # {}, part # S \cup {p}
             PROVE  \E i \in part, j \in (S \cup {p}) \ part : j \in near[i]
  BY DEF Connected
<1>2. CASE p \in part
  <2>1. CASE part \cap S = {}
    <3>1. q \notin part
      BY <2>1
    <3> QED
      BY <1>1, <1>2, <3>1
  <2>2. CASE part \cap S # {}
    <3>1. part \cap S # S
      BY <1>2
    <3>2. part \cap S \in SUBSET S
      OBVIOUS
    <3>3. \E i \in part \cap S, j \in S \ (part \cap S) : j \in near[i]
      <4> DEFINE half == part \cap S
      <4> HIDE DEF half
      <4> QED
        BY <2>2, <3>1, <3>2 DEF Connected, half
    <3> QED
      BY <3>3
  <2> QED
    BY <2>1, <2>2
<1>3. CASE p \notin part
  <2>1. part \in SUBSET S
    BY <1>3
  <2>2. CASE part = S
    BY <1>1, <1>3, <2>2
  <2>3. CASE part # S
    <3>1. \E i \in part, j \in S \ part : j \in near[i]
      BY <2>1, <2>3 DEF Connected
    <3> QED
      BY <3>1
  <2> QED
    BY <2>2, <2>3
<1> QED
  BY <1>2, <1>3

(* A point without neighbours is labelled noise.                           *)
LEMMA NoiseLabel ==
  ASSUME NEW n, NEW near, NeighboursOK(near, n), NEW label, NEW id,
         LabelsOK(near, n, label, {}, id), NEW p \in 1..n, label[p] = -2,
         near[p] \ {p} = {}
  PROVE  LabelsOK(near, n, [label EXCEPT ![p] = -1], {}, id)
<1> DEFINE new == [label EXCEPT ![p] = -1]
<1>1. label \in [1..n -> Int] /\ id \in Int /\ id >= -1
  BY DEF LabelsOK
<1>2. new \in [1..n -> Int] /\ new[p] = -1 /\ \A i \in 1..n : i # p => new[i] = label[i]
  BY <1>1
<1>3. \A c \in 0..id : Points(new, c) = Points(label, c)
  BY <1>1, <1>2 DEF Points
<1> HIDE DEF new
<1>4. ASSUME NEW i \in 1..n, NEW j \in near[i], new[i] >= 0
      PROVE  new[j] = new[i]
  <2>1. i # p /\ label[i] >= 0 /\ new[i] = label[i] /\ j \in 1..n
    BY <1>2, <1>4 DEF NeighboursOK
  <2>2. label[j] = label[i]
    BY <2>1 DEF LabelsOK
  <2>3. j # p
    BY <2>1, <2>2
  <2> QED
    BY <1>2, <2>1, <2>2, <2>3
<1>5. \A i \in 1..n : -2 <= new[i] /\ new[i] <= id
  BY <1>1, <1>2 DEF LabelsOK
<1>6. \A i \in 1..n : (new[i] >= 0 => near[i] \ {i} # {}) /\ (new[i] = -1 => near[i] \ {i} = {})
  BY <1>1, <1>2 DEF LabelsOK
<1>7. \A c \in 0..id : Connected(near, Points(new, c))
  BY <1>3 DEF LabelsOK
<1> QED
  BY <1>1, <1>2, <1>4, <1>5, <1>6, <1>7 DEF LabelsOK, new

(* A point with neighbours that no cluster has reached starts one.         *)
LEMMA StartLabel ==
  ASSUME NEW n, NEW near, NeighboursOK(near, n), NEW label, NEW id,
         LabelsOK(near, n, label, {}, id), NEW p \in 1..n, label[p] = -2,
         near[p] \ {p} # {}
  PROVE  LabelsOK(near, n, [label EXCEPT ![p] = id + 1], near[p] \ {p}, id + 1)
<1> DEFINE new == [label EXCEPT ![p] = id + 1]
           open == near[p] \ {p}
<1>1. label \in [1..n -> Int] /\ id \in Int /\ id >= -1 /\ open \subseteq 1..n
      /\ n \in Nat
  BY DEF LabelsOK, NeighboursOK
<1>2. new \in [1..n -> Int] /\ new[p] = id + 1 /\ \A i \in 1..n : i # p => new[i] = label[i]
  BY <1>1
<1>3. \A i \in 1..n : -2 <= label[i] /\ label[i] <= id
  BY DEF LabelsOK
<1>4. \A c \in 0..id : Points(new, c) = Points(label, c)
  BY <1>1, <1>2 DEF Points
<1>5. Points(new, id + 1) = {p}
  <2>1. \A i \in 1..n : label[i] # id + 1
    BY <1>1, <1>3
  <2> QED
    BY <1>1, <1>2, <2>1 DEF Points
<1> HIDE DEF new
<1>6. ASSUME NEW i \in 1..n, NEW j \in near[i], new[i] >= 0
      PROVE  new[j] = new[i] \/ (new[i] = id + 1 /\ j \in open)
  <2>1. CASE i = p
    BY <1>2, <2>1
  <2>2. CASE i # p
    <3>1. new[i] = label[i] /\ label[i] >= 0 /\ j \in 1..n
      BY <1>2, <1>6, <2>2 DEF NeighboursOK
    <3>2. label[j] = label[i]
      BY <3>1 DEF LabelsOK
    <3>3. j # p
      BY <3>1, <3>2
    <3> QED
      BY <1>2, <3>1, <3>2, <3>3
  <2> QED
    BY <2>1, <2>2
<1>7. \A i \in 1..n : -2 <= new[i] /\ new[i] <= id + 1
  BY <1>1, <1>2, <1>3
<1>8. ASSUME NEW i \in 1..n
      PROVE  (new[i] >= 0 => near[i] \ {i} # {}) /\ (new[i] = -1 => near[i] \ {i} = {})
  <2>1. CASE i = p
    <3>1. id + 1 # -1
      BY <1>1
    <3> QED
      BY <1>2, <2>1, <3>1
  <2>2. CASE i # p
    BY <1>2, <2>2 DEF LabelsOK
  <2> QED
    BY <2>1, <2>2
<1>9. ASSUME NEW c \in 0..(id + 1)
      PROVE  Connected(near, Points(new, c))
  <2>1. CASE c \in 0..id
    BY <1>4, <2>1 DEF LabelsOK
  <2>2. CASE c = id + 1
    BY <1>5, <2>2 DEF Connected
  <2> QED
    BY <1>1, <2>1, <2>2
<1>10. \A j \in open : \E i \in 1..n : new[i] = id + 1 /\ j \in near[i]
  BY <1>2
<1>11. id + 1 \in Int /\ id + 1 >= -1 /\ id + 1 >= 0
  BY <1>1
<1> HIDE DEF open
<1>12. LabelsOK(near, n, new, open, id + 1)
  BY <1>1, <1>2, <1>6, <1>7, <1>8, <1>9, <1>10, <1>11 DEF LabelsOK
<1> QED
  BY <1>12 DEF new, open

(* A point of the queue has no label yet, or that of its cluster.          *)
LEMMA OpenLabel ==
  ASSUME NEW n, NEW near, NeighboursOK(near, n), NEW label, NEW id, NEW open,
         LabelsOK(near, n, label, open, id), NEW p \in open
  PROVE  /\ p \in 1..n /\ id >= 0 /\ id \in Int
         /\ label[p] \in {-2, id} /\ near[p] \ {p} # {}
         /\ \E i \in 1..n : label[i] = id /\ p \in near[i]
<1>1. p \in 1..n /\ id >= 0 /\ id \in Int /\ label[p] \in Int /\ -2 <= label[p]
  BY DEF LabelsOK
<1>2. PICK i \in 1..n : label[i] = id /\ p \in near[i]
  BY DEF LabelsOK
<1>3. i \in near[p] /\ i \in near[i] /\ p \in near[p]
  BY <1>1, <1>2 DEF NeighboursOK
<1>4. near[p] \ {p} # {}
  <2>1. CASE i = p
    BY <1>1, <1>2, <2>1 DEF LabelsOK
  <2>2. CASE i # p
    BY <1>3, <2>2
  <2> QED
    BY <2>1, <2>2
<1>5. label[p] # -1
  BY <1>1, <1>4 DEF LabelsOK
<1>6. label[p] >= 0 => label[p] = id
  BY <1>1, <1>2, <1>3 DEF LabelsOK
<1> QED
  BY <1>1, <1>2, <1>4, <1>5, <1>6

(* A point of the queue joins the cluster, when its neighbours are there   *)
(* or in the queue.                                                        *)
LEMMA JoinLabel ==
  ASSUME NEW n, NEW near, NeighboursOK(near, n), NEW label, NEW id, NEW open,
         LabelsOK(near, n, label, open, id), NEW p \in open, NEW rest,
         rest \subseteq open \cup near[p], open \ {p} \subseteq rest,
         label[p] = id => rest \subseteq open,
         \A j \in near[p] \ {p} : label[p] = -2 => label[j] >= 0 \/ j \in rest
  PROVE  LabelsOK(near, n, [label EXCEPT ![p] = id], rest, id)
<1> DEFINE new == [label EXCEPT ![p] = id]
<1>1. /\ p \in 1..n /\ id >= 0 /\ id \in Int
      /\ label[p] \in {-2, id} /\ near[p] \ {p} # {}
      /\ \E i \in 1..n : label[i] = id /\ p \in near[i]
  BY OpenLabel
<1>2. label \in [1..n -> Int] /\ rest \subseteq 1..n /\ n \in Nat
  BY <1>1 DEF LabelsOK, NeighboursOK
<1>3. new \in [1..n -> Int] /\ new[p] = id /\ \A i \in 1..n : i # p => new[i] = label[i]
  BY <1>1, <1>2
<1>4. Points(new, id) = Points(label, id) \cup {p}
  BY <1>1, <1>2, <1>3 DEF Points
<1>5. \A c \in 0..id : c # id => Points(new, c) = Points(label, c)
  BY <1>1, <1>2, <1>3 DEF Points
<1> HIDE DEF new
<1>6. ASSUME NEW i \in 1..n, NEW j \in near[i], new[i] >= 0
      PROVE  new[j] = new[i] \/ (new[i] = id /\ j \in rest)
  <2>1. j \in 1..n
    BY DEF NeighboursOK
  <2>2. CASE i = p
    <3>1. CASE j = p
      BY <1>3, <2>2, <3>1
    <3>2. CASE j # p /\ label[p] = id
      <4>1. label[j] = id \/ j \in open
        BY <1>1, <2>2, <3>2 DEF LabelsOK
      <4> QED
        BY <1>3, <2>1, <2>2, <3>2, <4>1
    <3>3. CASE j # p /\ label[p] = -2
      <4>1. label[j] >= 0 \/ j \in rest
        BY <2>2, <3>3
      <4>2. CASE label[j] >= 0
        <5>1. p \in near[j]
          BY <1>1, <2>1, <2>2 DEF NeighboursOK
        <5>2. label[p] = label[j] \/ label[j] = id
          BY <2>1, <4>2, <5>1 DEF LabelsOK
        <5>3. label[j] = id
          BY <3>3, <4>2, <5>2
        <5> QED
          BY <1>3, <2>1, <2>2, <3>3, <5>3
      <4> QED
        BY <1>3, <2>2, <4>1, <4>2
    <3> QED
      BY <1>1, <3>1, <3>2, <3>3
  <2>3. CASE i # p
    <3>1. new[i] = label[i] /\ label[i] >= 0
      BY <1>3, <1>6, <2>3
    <3>2. label[j] = label[i] \/ (label[i] = id /\ j \in open)
      BY <3>1 DEF LabelsOK
    <3>3. CASE j = p
      <4>1. label[i] = id
        BY <1>1, <3>1, <3>2, <3>3
      <4> QED
        BY <1>3, <3>1, <3>3, <4>1
    <3>4. CASE j # p
      BY <1>3, <2>1, <3>1, <3>2, <3>4
    <3> QED
      BY <3>3, <3>4
  <2> QED
    BY <2>2, <2>3
<1>7. \A i \in 1..n : -2 <= new[i] /\ new[i] <= id
  BY <1>1, <1>2, <1>3 DEF LabelsOK
<1>8. \A i \in 1..n : (new[i] >= 0 => near[i] \ {i} # {}) /\ (new[i] = -1 => near[i] \ {i} = {})
  BY <1>1, <1>2, <1>3 DEF LabelsOK
<1>9. ASSUME NEW j \in rest
      PROVE  \E i \in 1..n : new[i] = id /\ j \in near[i]
  <2>1. CASE j \in open
    <3>1. PICK i \in 1..n : label[i] = id /\ j \in near[i]
      BY <2>1 DEF LabelsOK
    <3>2. new[i] = id
      BY <1>3, <3>1
    <3> QED
      BY <3>1, <3>2
  <2>2. CASE j \in near[p]
    BY <1>1, <1>3, <2>2
  <2> QED
    BY <2>1, <2>2
<1>10. ASSUME NEW c \in 0..id
       PROVE  Connected(near, Points(new, c))
  <2>1. Connected(near, Points(label, c))
    BY DEF LabelsOK
  <2>2. CASE c = id
    <3>1. PICK q \in 1..n : label[q] = id /\ p \in near[q]
      BY <1>1
    <3>2. q \in Points(label, id) /\ Points(label, id) \in SUBSET (1..n)
      BY <1>2, <3>1 DEF Points
    <3> QED
      BY <1>4, <2>1, <2>2, <3>1, <3>2, Joins
  <2>3. CASE c # id
    BY <1>5, <2>1, <2>3
  <2> QED
    BY <2>2, <2>3
<1> QED
  BY <1>1, <1>2, <1>3, <1>6, <1>7, <1>8, <1>9, <1>10 DEF LabelsOK, new

(* The elements of a sequence: the first and the others; those of either   *)
(* part.                                                                   *)
LEMMA HeadTail ==
  ASSUME NEW S, NEW q \in Seq(S), q # <<>>
  PROVE  /\ Head(q) \in S /\ Tail(q) \in Seq(S)
         /\ ToSet(q) = {Head(q)} \cup ToSet(Tail(q))
<1>1. Len(q) \in Nat /\ Len(q) >= 1 /\ DOMAIN q = 1..Len(q) /\ Head(q) = q[1]
  OBVIOUS
<1>2. /\ Tail(q) \in Seq(S) /\ Len(Tail(q)) = Len(q) - 1
      /\ DOMAIN Tail(q) = 1..(Len(q) - 1)
      /\ \A i \in 1..(Len(q) - 1) : Tail(q)[i] = q[i + 1]
  OBVIOUS
<1>3. ToSet(q) \subseteq {Head(q)} \cup ToSet(Tail(q))
  <2> SUFFICES ASSUME NEW i \in 1..Len(q) PROVE q[i] \in {Head(q)} \cup ToSet(Tail(q))
    BY <1>1 DEF ToSet
  <2>1. CASE i = 1
    BY <1>1, <2>1
  <2>2. CASE i # 1
    <3>1. i - 1 \in 1..(Len(q) - 1) /\ (i - 1) + 1 = i
      BY <1>1, <2>2
    <3>2. Tail(q)[i - 1] = q[i]
      BY <1>2, <3>1
    <3> QED
      BY <1>2, <3>1, <3>2 DEF ToSet
  <2> QED
    BY <2>1, <2>2
<1>4. ToSet(Tail(q)) \subseteq ToSet(q)
  <2> SUFFICES ASSUME NEW i \in 1..(Len(q) - 1) PROVE Tail(q)[i] \in ToSet(q)
    BY <1>2 DEF ToSet
  <2>1. i + 1 \in 1..Len(q)
    BY <1>1
  <2> QED
    BY <1>1, <1>2, <2>1 DEF ToSet
<1>5. Head(q) \in ToSet(q) /\ Head(q) \in S
  BY <1>1 DEF ToSet
<1> QED
  BY <1>2, <1>3, <1>4, <1>5

(* A sequence over a set is one over a larger set.                         *)
LEMMA Widen ==
  ASSUME NEW S, NEW T, S \subseteq T, NEW q \in Seq(S)
  PROVE  q \in Seq(T)
<1>1. Len(q) \in Nat /\ DOMAIN q = 1..Len(q) /\ \A i \in 1..Len(q) : q[i] \in T
  OBVIOUS
<1>2. q = [i \in 1..Len(q) |-> q[i]]
  BY <1>1
<1>3. [i \in 1..Len(q) |-> q[i]] \in Seq(T)
  BY <1>1
<1> QED
  BY <1>2, <1>3

(* The elements of two sequences that are put together.                    *)
LEMMA ConcatSet ==
  ASSUME NEW S, NEW p \in Seq(S), NEW q \in Seq(S)
  PROVE  p \o q \in Seq(S) /\ ToSet(p \o q) = ToSet(p) \cup ToSet(q)
<1>1. Len(p) \in Nat /\ Len(q) \in Nat /\ DOMAIN p = 1..Len(p) /\ DOMAIN q = 1..Len(q)
  OBVIOUS
<1>2. /\ p \o q \in Seq(S) /\ DOMAIN (p \o q) = 1..(Len(p) + Len(q))
      /\ \A i \in 1..Len(p) : (p \o q)[i] = p[i]
      /\ \A i \in 1..Len(q) : (p \o q)[Len(p) + i] = q[i]
  OBVIOUS
<1>3. ToSet(p \o q) \subseteq ToSet(p) \cup ToSet(q)
  <2> SUFFICES ASSUME NEW i \in 1..(Len(p) + Len(q))
               PROVE  (p \o q)[i] \in ToSet(p) \cup ToSet(q)
    BY <1>2 DEF ToSet
  <2>1. CASE i <= Len(p)
    <3>1. i \in 1..Len(p)
      BY <1>1, <2>1
    <3> QED
      BY <1>1, <1>2, <3>1 DEF ToSet
  <2>2. CASE i > Len(p)
    <3>1. i - Len(p) \in 1..Len(q) /\ Len(p) + (i - Len(p)) = i
      BY <1>1, <2>2
    <3>2. (p \o q)[i] = q[i - Len(p)]
      BY <1>2, <3>1
    <3> QED
      BY <1>1, <3>1, <3>2 DEF ToSet
  <2> QED
    BY <1>1, <2>1, <2>2
<1>4. ToSet(p) \subseteq ToSet(p \o q)
  <2> SUFFICES ASSUME NEW i \in 1..Len(p) PROVE p[i] \in ToSet(p \o q)
    BY <1>1 DEF ToSet
  <2>1. i \in 1..(Len(p) + Len(q))
    BY <1>1
  <2> QED
    BY <1>2, <2>1 DEF ToSet
<1>5. ToSet(q) \subseteq ToSet(p \o q)
  <2> SUFFICES ASSUME NEW i \in 1..Len(q) PROVE q[i] \in ToSet(p \o q)
    BY <1>1 DEF ToSet
  <2>1. Len(p) + i \in 1..(Len(p) + Len(q))
    BY <1>1
  <2> QED
    BY <1>2, <2>1 DEF ToSet
<1> QED
  BY <1>2, <1>3, <1>4, <1>5

(* The first of some places.                                               *)
LEMMA FirstIs ==
  ASSUME NEW n \in Nat, NEW S \in SUBSET (1..n), S # {}
  PROVE  \E i \in S : \A j \in 1..(i - 1) : j \notin S
<1> DEFINE q == InOrder(S)
           c == Cardinality(S)
<1>1. /\ c \in Nat /\ q \in [1..c -> S] /\ DOMAIN q = 1..c
      /\ Increasing(q) /\ ToSet(q) = S
  BY InOrderIs
<1> HIDE DEF q, c
<1>2. 1 \in 1..c
  BY <1>1 DEF ToSet
<1>3. ASSUME NEW j \in 1..(q[1] - 1), j \in S
      PROVE  FALSE
  <2>1. PICK k \in 1..c : j = q[k]
    BY <1>1, <1>3 DEF ToSet
  <2>2. q[1] \in Nat /\ j \in Nat /\ j < q[1]
    <3>1. q[1] \in S
      BY <1>1, <1>2
    <3>2. q[1] \in Nat
      <4>1. \A x \in S : x \in Nat
        OBVIOUS
      <4> QED
        BY <3>1, <4>1
    <3>3. \A x \in Nat : j \in 1..(x - 1) => j \in Nat /\ j < x
      OBVIOUS
    <3> QED
      BY <1>3, <3>2, <3>3
  <2>3. k = 1 \/ 1 < k
    BY <1>1
  <2>4. k = 1 \/ q[1] < q[k]
    BY <1>1, <1>2, <2>3 DEF Increasing
  <2> QED
    BY <2>1, <2>2, <2>4
<1>4. q[1] \in S
  BY <1>1, <1>2
<1> QED
  BY <1>3, <1>4

-----------------------------------------------------------------------------
(* What a search is made of.                                               *)
SearchSet(n) ==
  [near : [1..n -> SUBSET (1..n)], label : [1..n -> Int], seeds : Seq(1..n),
   queued : SUBSET (1..n), id : Int]

SearchType(s, n) == n \in Nat /\ s \in SearchSet(n)

(* A search begins well-formed.                                            *)
LEMMA NewSearchType ==
  ASSUME NEW es \in Seq(Seq(Int))
  PROVE  SearchType(NewSearch(es), Len(es))
<1>1. Len(es) \in Nat /\ DOMAIN es = 1..Len(es)
  OBVIOUS
<1>2. Near(es) \in [1..Len(es) -> SUBSET (1..Len(es))]
  BY <1>1 DEF Near
<1>3. <<>> \in Seq(1..Len(es)) /\ {} \in SUBSET (1..Len(es)) /\ -1 \in Int /\ -2 \in Int
  OBVIOUS
<1>4. [i \in DOMAIN es |-> Unvisited] \in [1..Len(es) -> Int]
  BY <1>1, <1>3 DEF Unvisited
<1> QED
  BY <1>1, <1>2, <1>3, <1>4 DEF SearchType, SearchSet, NewSearch

(* The parts of a search after a point of the queue.                       *)
More(s) ==
  IF s.label[Head(s.seeds)] = Unvisited /\ IsCore(s.near, Head(s.seeds))
  THEN {j \in s.near[Head(s.seeds)] \ (s.queued \cup {Head(s.seeds)}) :
          s.label[j] \in {Unvisited, Noise}}
  ELSE {}

(* What the visit of a point does to each part of a search.                *)
LEMMA VisitIs ==
  ASSUME NEW n, NEW s, SearchType(s, n), s.seeds # <<>>
  PROVE  /\ SearchType(Visit(s), n)
         /\ Visit(s).near = s.near /\ Visit(s).id = s.id
         /\ Visit(s).label = [s.label EXCEPT ![Head(s.seeds)] =
                                IF @ \in {Unvisited, Noise} THEN s.id ELSE @]
         /\ Visit(s).queued = s.queued \cup More(s)
         /\ ToSet(Visit(s).seeds) = ToSet(Tail(s.seeds)) \cup More(s)
<1> DEFINE p == Head(s.seeds)
           label == [s.label EXCEPT ![p] = IF @ \in {Unvisited, Noise} THEN s.id ELSE @]
           seeds == Tail(s.seeds) \o InOrder(More(s))
<1>1. n \in Nat /\ s.near \in [1..n -> SUBSET (1..n)] /\ s.label \in [1..n -> Int]
      /\ s.seeds \in Seq(1..n) /\ s.queued \in SUBSET (1..n) /\ s.id \in Int
  BY DEF SearchType, SearchSet
<1>2. p \in 1..n /\ Tail(s.seeds) \in Seq(1..n)
  BY <1>1, HeadTail
<1>3. More(s) \in SUBSET (1..n)
  <2>1. s.near[p] \in SUBSET (1..n)
    BY <1>1, <1>2
  <2> QED
    BY <2>1 DEF More
<1>4. InOrder(More(s)) \in Seq(1..n) /\ ToSet(InOrder(More(s))) = More(s)
  <2>1. InOrder(More(s)) \in Seq(More(s)) /\ ToSet(InOrder(More(s))) = More(s)
    BY <1>1, <1>3, InOrderIs
  <2> QED
    BY <1>3, <2>1, Widen
<1>5. seeds \in Seq(1..n) /\ ToSet(seeds) = ToSet(Tail(s.seeds)) \cup More(s)
  BY <1>2, <1>4, ConcatSet
<1>6. label \in [1..n -> Int]
  BY <1>1, <1>2
<1>7. Visit(s) = [s EXCEPT !.label = label, !.seeds = seeds, !.queued = @ \cup More(s)]
  BY DEF Visit, More
<1> HIDE DEF label, seeds, p
<1>8. /\ Visit(s).near = s.near /\ Visit(s).id = s.id /\ Visit(s).label = label
      /\ Visit(s).queued = s.queued \cup More(s) /\ Visit(s).seeds = seeds
      /\ Visit(s) \in [near : [1..n -> SUBSET (1..n)], label : [1..n -> Int],
                       seeds : Seq(1..n), queued : SUBSET (1..n), id : Int]
  BY <1>1, <1>3, <1>5, <1>6, <1>7 DEF SearchType, SearchSet
<1> QED
  BY <1>1, <1>5, <1>8 DEF SearchType, SearchSet, label, p

(* The first point that has no label.                                      *)
First(s) ==
  CHOOSE i \in DOMAIN s.label :
    /\ s.label[i] = Unvisited
    /\ \A j \in 1..(i - 1) : s.label[j] # Unvisited

(* What the first point without a label becomes: noise, or a new cluster.  *)
LEMMA BeginIs ==
  ASSUME NEW n, NEW s, SearchType(s, n), s.seeds = <<>>, ~Complete(s)
  PROVE  /\ SearchType(Begin(s), n) /\ Begin(s).near = s.near
         /\ First(s) \in 1..n /\ s.label[First(s)] = Unvisited
         /\ ~IsCore(s.near, First(s)) =>
              Begin(s) = [s EXCEPT !.label = [s.label EXCEPT ![First(s)] = Noise]]
         /\ IsCore(s.near, First(s)) =>
              /\ Begin(s).label = [s.label EXCEPT ![First(s)] = s.id + 1]
              /\ Begin(s).queued = s.near[First(s)] \ {First(s)}
              /\ ToSet(Begin(s).seeds) = s.near[First(s)] \ {First(s)}
              /\ Begin(s).id = s.id + 1
<1> DEFINE i == First(s)
           others == s.near[i] \ {i}
           type == [near : [1..n -> SUBSET (1..n)], label : [1..n -> Int],
                    seeds : Seq(1..n), queued : SUBSET (1..n), id : Int]
<1>1. n \in Nat /\ s.near \in [1..n -> SUBSET (1..n)] /\ s.label \in [1..n -> Int]
      /\ s.seeds \in Seq(1..n) /\ s.queued \in SUBSET (1..n) /\ s.id \in Int /\ s \in type
  BY DEF SearchType, SearchSet
<1>2. i \in 1..n /\ s.label[i] = Unvisited
  <2> DEFINE new == {x \in 1..n : s.label[x] = Unvisited}
  <2>1. new # {}
    BY <1>1 DEF Complete
  <2>2. PICK x \in new : \A j \in 1..(x - 1) : j \notin new
    <3> HIDE DEF new
    <3>1. new \in SUBSET (1..n)
      BY DEF new
    <3> QED
      BY <1>1, <2>1, <3>1, FirstIs
  <2>3. x \in DOMAIN s.label /\ s.label[x] = Unvisited
        /\ \A j \in 1..(x - 1) : s.label[j] # Unvisited
    BY <1>1, <2>2
  <2> QED
    BY <1>1, <2>3 DEF First
<1>3. others \in SUBSET (1..n)
  BY <1>1, <1>2
<1>4. InOrder(others) \in Seq(1..n) /\ ToSet(InOrder(others)) = others
  <2> HIDE DEF others
  <2>1. InOrder(others) \in Seq(others) /\ ToSet(InOrder(others)) = others
    BY <1>1, <1>3, InOrderIs
  <2> QED
    BY <1>3, <2>1, Widen
<1>5. Begin(s) = IF ~IsCore(s.near, i) THEN [s EXCEPT !.label = [s.label EXCEPT ![i] = Noise]]
                 ELSE [s EXCEPT !.label = [s.label EXCEPT ![i] = s.id + 1],
                                !.seeds = InOrder(others), !.queued = others, !.id = s.id + 1]
  BY DEF Begin, First
<1>6. [s.label EXCEPT ![i] = Noise] \in [1..n -> Int] 
      /\ [s.label EXCEPT ![i] = s.id + 1] \in [1..n -> Int]
  BY <1>1, <1>2 DEF Noise
<1> DEFINE noise == [s.label EXCEPT ![i] = Noise]
           start == [s.label EXCEPT ![i] = s.id + 1]
<1> HIDE DEF i, others, noise, start
<1>9. noise \in [1..n -> Int] /\ start \in [1..n -> Int]
  BY <1>6 DEF noise, start
<1>7. CASE ~IsCore(s.near, i)
  <2>1. Begin(s) = [s EXCEPT !.label = noise]
    BY <1>5, <1>7 DEF noise
  <2>2. Begin(s) \in type /\ Begin(s).near = s.near
    BY <1>1, <1>9, <2>1
  <2> QED
    BY <1>1, <1>2, <1>7, <2>1, <2>2 DEF SearchType, SearchSet, i, noise
<1>8. CASE IsCore(s.near, i)
  <2>1. Begin(s) = [s EXCEPT !.label = start, !.seeds = InOrder(others), !.queued = others,
                            !.id = s.id + 1]
    BY <1>5, <1>8 DEF start
  <2>2. /\ Begin(s) \in type /\ Begin(s).near = s.near /\ Begin(s).label = start
        /\ Begin(s).seeds = InOrder(others) /\ Begin(s).queued = others
        /\ Begin(s).id = s.id + 1
    <3>1. s.id + 1 \in Int
      BY <1>1
    <3>2. Begin(s) = [near |-> s.near, label |-> start, seeds |-> InOrder(others),
                      queued |-> others, id |-> s.id + 1]
      BY <1>1, <2>1
    <3>3. Begin(s) \in type
      <4> DEFINE seeds == InOrder(others)
                 id == s.id + 1
      <4>1. seeds \in Seq(1..n) /\ id \in Int /\ s.near \in [1..n -> SUBSET (1..n)]
            /\ others \in SUBSET (1..n) /\ start \in [1..n -> Int]
        BY <1>1, <1>3, <1>4, <1>9, <3>1
      <4> HIDE DEF seeds, id
      <4>2. [near |-> s.near, label |-> start, seeds |-> seeds, queued |-> others,
             id |-> id] \in type
        BY <4>1
      <4> HIDE DEF type
      <4> QED
        BY <3>2, <4>2 DEF seeds, id
    <3> HIDE DEF type
    <3> QED
      BY <3>2, <3>3
  <2> QED
    BY <1>1, <1>2, <1>4, <1>8, <2>2 DEF SearchType, SearchSet, i, start, others
<1> QED
  BY <1>7, <1>8

-----------------------------------------------------------------------------
(* The invariant of the search: what is queued is in the cluster or waits. *)
SearchOK(s, n) ==
  /\ SearchType(s, n)
  /\ NeighboursOK(s.near, n)
  /\ LabelsOK(s.near, n, s.label, ToSet(s.seeds), s.id)
  /\ \A j \in s.queued : s.label[j] = s.id \/ j \in ToSet(s.seeds)

(* A search begins with no label, which is right.                          *)
LEMMA NewSearchOK ==
  ASSUME NEW es \in Seq(Seq(Int))
  PROVE  SearchOK(NewSearch(es), Len(es))
<1> DEFINE s == NewSearch(es)
           n == Len(es)
<1>1. SearchType(s, n) /\ NeighboursOK(Near(es), n)
  BY NewSearchType, NearIs
<1>2. /\ s.near = Near(es) /\ s.seeds = <<>> /\ s.queued = {} /\ s.id = -1
      /\ s.label = [i \in DOMAIN es |-> -2]
  BY DEF NewSearch, Unvisited
<1>3. DOMAIN es = 1..n /\ n \in Nat
  OBVIOUS
<1> HIDE DEF s, n
<1>4. ToSet(s.seeds) = {}
  BY <1>2 DEF ToSet
<1>5. s.label \in [1..n -> Int] /\ \A i \in 1..n : s.label[i] = -2
  BY <1>2, <1>3
<1>6. -1 \in Int /\ -1 >= -1 /\ 0..(-1) = {}
  OBVIOUS
<1>7. LabelsOK(Near(es), n, s.label, {}, -1)
  BY <1>5, <1>6 DEF LabelsOK
<1> QED
  BY <1>1, <1>2, <1>4, <1>7 DEF SearchOK, s, n

(* The visit of a point keeps the labels right: its neighbours are         *)
(* labelled, queued, or put in the queue now.                              *)
LEMMA VisitOK ==
  ASSUME MinSamples = 2, NEW n, NEW s, SearchOK(s, n), s.seeds # <<>>
  PROVE  SearchOK(Visit(s), n)
<1> DEFINE p == Head(s.seeds)
           open == ToSet(s.seeds)
           left == ToSet(Tail(s.seeds))
           rest == left \cup More(s)
           label == s.label
           new == [label EXCEPT ![p] = s.id]
<1>1. /\ SearchType(s, n) /\ NeighboursOK(s.near, n) /\ LabelsOK(s.near, n, label, open, s.id)
      /\ \A j \in s.queued : label[j] = s.id \/ j \in open
  BY DEF SearchOK
<1>2. s.seeds \in Seq(1..n) /\ label \in [1..n -> Int] /\ s.near \in [1..n -> SUBSET (1..n)]
  BY <1>1 DEF SearchType, SearchSet
<1>3. p \in open /\ open = {p} \cup left
  BY <1>2, HeadTail
<1> HIDE DEF p, open, left
<1>4. /\ p \in 1..n /\ s.id >= 0 /\ s.id \in Int
      /\ label[p] \in {-2, s.id} /\ s.near[p] \ {p} # {}
  BY <1>1, <1>3, OpenLabel
<1>5. /\ SearchType(Visit(s), n) /\ Visit(s).near = s.near /\ Visit(s).id = s.id
      /\ Visit(s).label = [label EXCEPT ![p] = IF @ \in {Unvisited, Noise} THEN s.id ELSE @]
      /\ Visit(s).queued = s.queued \cup More(s) /\ ToSet(Visit(s).seeds) = rest
  BY <1>1, VisitIs DEF p, left
<1>6. Visit(s).label = new
  <2>1. (IF label[p] \in {Unvisited, Noise} THEN s.id ELSE label[p]) = s.id
    BY <1>4 DEF Unvisited, Noise
  <2> QED
    BY <1>2, <1>4, <1>5, <2>1
<1>7. IsCore(s.near, p)
  BY <1>1, <1>4, CoreIs
<1>8. label[p] = -2 =>
        More(s) = {j \in s.near[p] \ (s.queued \cup {p}) : label[j] \in {-2, -1}}
  BY <1>7 DEF More, Unvisited, Noise, p
<1>9. label[p] = s.id => More(s) = {}
  BY <1>4 DEF More, Unvisited, p
<1>10. ASSUME NEW j \in s.near[p] \ {p}, label[p] = -2
       PROVE  label[j] >= 0 \/ j \in rest
  <2>1. j \in 1..n /\ label[j] \in Int /\ -2 <= label[j]
    BY <1>1, <1>2, <1>4 DEF LabelsOK
  <2>2. CASE label[j] >= 0
    BY <2>2
  <2>3. CASE ~(label[j] >= 0)
    <3>1. label[j] \in {-2, -1}
      BY <2>1, <2>3
    <3>2. CASE j \in s.queued
      <4>1. label[j] # s.id
        BY <1>4, <2>3
      <4>2. j \in open
        BY <1>1, <3>2, <4>1
      <4> QED
        BY <1>3, <1>10, <4>2
    <3>3. CASE j \notin s.queued
      BY <1>8, <1>10, <3>1, <3>3
    <3> QED
      BY <3>2, <3>3
  <2> QED
    BY <2>2, <2>3
<1>11. /\ rest \subseteq open \cup s.near[p] /\ open \ {p} \subseteq rest
       /\ label[p] = s.id => rest \subseteq open
  BY <1>3, <1>4, <1>8, <1>9
<1>12. LabelsOK(s.near, n, new, rest, s.id)
  <2> HIDE DEF rest, label, new
  <2>1. \A j \in s.near[p] \ {p} : label[p] = -2 => label[j] >= 0 \/ j \in rest
    BY <1>10
  <2> QED
    BY <1>1, <1>3, <1>11, <2>1, JoinLabel DEF new
<1>13. ASSUME NEW j \in s.queued \cup More(s)
       PROVE  new[j] = s.id \/ j \in rest
  <2>1. CASE j \in s.queued
    <3>1. label[j] = s.id \/ j \in open
      BY <1>1, <2>1
    <3>2. j \in 1..n
      BY <1>1, <2>1 DEF SearchType, SearchSet
    <3> QED
      BY <1>2, <1>3, <1>4, <3>1, <3>2
  <2>2. CASE j \in More(s)
    BY <2>2
  <2> QED
    BY <2>1, <2>2
<1> HIDE DEF rest, new
<1> QED
  BY <1>1, <1>5, <1>6, <1>12, <1>13 DEF SearchOK

(* A new cluster, or a point of noise, keeps the labels right.             *)
LEMMA BeginClusterOK ==
  ASSUME MinSamples = 2, NEW n, NEW s, SearchOK(s, n), s.seeds = <<>>, ~Complete(s)
  PROVE  SearchOK(Begin(s), n)
<1> DEFINE p == First(s)
<1>1. /\ SearchType(s, n) /\ NeighboursOK(s.near, n) /\ LabelsOK(s.near, n, s.label, {}, s.id)
      /\ \A j \in s.queued : s.label[j] = s.id
  <2>1. ToSet(s.seeds) = {}
    BY DEF ToSet
  <2> QED
    BY <2>1 DEF SearchOK
<1>2. s.label \in [1..n -> Int] /\ s.queued \in SUBSET (1..n) /\ s.id \in Int /\ s.id >= -1
  BY <1>1 DEF SearchType, SearchSet, LabelsOK
<1>3. SearchType(Begin(s), n) /\ Begin(s).near = s.near /\ p \in 1..n /\ s.label[p] = -2
  BY <1>1, BeginIs DEF Unvisited
<1>4. CASE IsCore(s.near, p)
  <2>1. /\ Begin(s).label = [s.label EXCEPT ![p] = s.id + 1]
        /\ Begin(s).queued = s.near[p] \ {p} /\ ToSet(Begin(s).seeds) = s.near[p] \ {p}
        /\ Begin(s).id = s.id + 1
    BY <1>1, <1>4, BeginIs
  <2>2. s.near[p] \ {p} # {}
    <3> HIDE DEF p
    <3> QED
      BY <1>1, <1>3, <1>4, CoreIs
  <2>3. LabelsOK(s.near, n, [s.label EXCEPT ![p] = s.id + 1], s.near[p] \ {p}, s.id + 1)
    <3> HIDE DEF p
    <3> QED
      BY <1>1, <1>3, <2>2, StartLabel
  <2> HIDE DEF p
  <2> QED
    BY <1>1, <1>3, <2>1, <2>3 DEF SearchOK
<1>5. CASE ~IsCore(s.near, p)
  <2>1. Begin(s) = [s EXCEPT !.label = [s.label EXCEPT ![p] = Noise]]
    BY <1>1, <1>5, BeginIs
  <2>2. /\ Begin(s).label = [s.label EXCEPT ![p] = -1] /\ Begin(s).queued = s.queued
        /\ Begin(s).seeds = <<>> /\ Begin(s).id = s.id
    <3> HIDE DEF p
    <3> QED
      BY <1>1, <2>1 DEF SearchType, SearchSet, Noise
  <2>3. s.near[p] \ {p} = {}
    <3> HIDE DEF p
    <3> QED
      BY <1>1, <1>3, <1>5, CoreIs
  <2>4. LabelsOK(s.near, n, [s.label EXCEPT ![p] = -1], {}, s.id)
    <3> HIDE DEF p
    <3> QED
      BY <1>1, <1>3, <2>3, NoiseLabel
  <2>5. ToSet(Begin(s).seeds) = {}
    BY <2>2 DEF ToSet
  <2>6. \A j \in s.queued : [s.label EXCEPT ![p] = -1][j] = s.id
    <3> HIDE DEF p
    <3> QED
      BY <1>1, <1>2, <1>3
  <2> HIDE DEF p
  <2> QED
    BY <1>1, <1>3, <2>2, <2>4, <2>5, <2>6 DEF SearchOK
<1> QED
  BY <1>4, <1>5

(* Every turn of the search does.                                          *)
LEMMA TurnOK ==
  ASSUME NEW n, NEW s, ~Complete(s)
  PROVE  /\ SearchType(s, n) => SearchType(Turn(s), n) /\ Turn(s).near = s.near
         /\ MinSamples = 2 /\ SearchOK(s, n) => SearchOK(Turn(s), n)
<1>1. CASE s.seeds = <<>>
  BY <1>1, BeginIs, BeginClusterOK DEF Turn
<1>2. CASE s.seeds # <<>>
  BY <1>2, VisitIs, VisitOK DEF Turn
<1> QED
  BY <1>1, <1>2

-----------------------------------------------------------------------------
(***************************************************************************)
(* What a complete search has found.                                       *)
(***************************************************************************)

(* A list of clusters by their numbers: it has each number once and with   *)
(* it all of its points once.                                              *)
Lists(cl, n, label) ==
  /\ cl \in Seq(Nat \X Seq(1..n))
  /\ \A k \in DOMAIN cl :
       /\ cl[k][1] \in Nat /\ cl[k][2] \in Seq(1..n)
       /\ ToSet(cl[k][2]) = Points(label, cl[k][1])
       /\ Len(cl[k][2]) = Cardinality(Points(label, cl[k][1]))
  /\ \A k, m \in DOMAIN cl : cl[k][1] = cl[m][1] => k = m

(* Every cluster is listed.                                                *)
LEMMA ClustersIs ==
  ASSUME NEW n \in Nat, NEW label \in [1..n -> Int]
  PROVE  /\ Lists(Clusters(label), n, label)
         /\ \A i \in 1..n : label[i] >= 0 =>
              \E k \in DOMAIN Clusters(label) : Clusters(label)[k][1] = label[i]
<1> DEFINE heads == {i \in DOMAIN label :
                       label[i] >= 0 /\ \A j \in 1..(i - 1) : label[j] # label[i]}
           q == InOrder(heads)
           c == Cardinality(heads)
           cl == Clusters(label)
           entry(k) == <<label[q[k]], InOrder(Points(label, label[q[k]]))>>
<1>1. /\ c \in Nat /\ q \in [1..c -> heads] /\ DOMAIN q = 1..c /\ ToSet(q) = heads
      /\ \A i, k \in DOMAIN q : q[i] = q[k] => i = k
  <2>1. heads \in SUBSET (1..n)
    OBVIOUS
  <2> HIDE DEF heads
  <2> QED
    BY <2>1, InOrderIs
<1>2. cl = [k \in 1..c |-> entry(k)]
  BY <1>1 DEF Clusters, Points
<1>3. \A i \in heads : i \in 1..n /\ label[i] \in Nat /\ \A j \in 1..(i - 1) : label[j] # label[i]
  OBVIOUS
<1>4. \A a, b \in heads : label[a] = label[b] => a = b
  <2> SUFFICES ASSUME NEW a \in heads, NEW b \in heads, label[a] = label[b], a # b PROVE FALSE
    OBVIOUS
  <2>1. a \in 1..n /\ b \in 1..n
    BY <1>3
  <2>2. a \in 1..(b - 1) \/ b \in 1..(a - 1)
    BY <2>1
  <2> QED
    BY <1>3, <2>2
<1>5. ASSUME NEW l \in Int
      PROVE  /\ Points(label, l) \in SUBSET (1..n)
             /\ InOrder(Points(label, l)) \in Seq(1..n)
             /\ ToSet(InOrder(Points(label, l))) = Points(label, l)
             /\ Len(InOrder(Points(label, l))) = Cardinality(Points(label, l))
  <2>1. Points(label, l) \in SUBSET (1..n)
    BY DEF Points
  <2>2. /\ InOrder(Points(label, l)) \in Seq(Points(label, l))
        /\ ToSet(InOrder(Points(label, l))) = Points(label, l)
        /\ Len(InOrder(Points(label, l))) = Cardinality(Points(label, l))
    BY <2>1, InOrderIs
  <2> QED
    BY <2>1, <2>2, Widen
<1>6. ASSUME NEW i \in 1..n, label[i] >= 0
      PROVE  \E h \in heads : label[h] = label[i]
  <2> DEFINE T == Points(label, label[i])
  <2>1. T \in SUBSET (1..n) /\ T # {} /\ \A j \in 1..n : j \in T <=> label[j] = label[i]
    BY DEF Points
  <2> HIDE DEF T
  <2>2. PICK h \in T : \A j \in 1..(h - 1) : j \notin T
    BY <2>1, FirstIs
  <2>3. h \in 1..n /\ label[h] = label[i]
    BY <2>1
  <2>4. \A j \in 1..(h - 1) : j \in 1..n
    BY <2>3
  <2>5. h \in heads
    BY <1>6, <2>1, <2>2, <2>3, <2>4
  <2> QED
    BY <2>3, <2>5
<1> HIDE DEF heads, q, c
<1>7. ASSUME NEW k \in 1..c
      PROVE  /\ q[k] \in heads /\ label[q[k]] \in Nat
             /\ cl[k][1] = label[q[k]]
             /\ cl[k] \in Nat \X Seq(1..n)
             /\ cl[k][2] = InOrder(Points(label, label[q[k]]))
  <2>1. q[k] \in heads /\ label[q[k]] \in Nat
    BY <1>1, <1>3
  <2>2. InOrder(Points(label, label[q[k]])) \in Seq(1..n)
    <3> DEFINE l == label[q[k]]
    <3>1. l \in Int
      BY <2>1
    <3> HIDE DEF l
    <3>2. InOrder(Points(label, l)) \in Seq(1..n)
      BY <1>5, <3>1
    <3> QED
      BY <3>2 DEF l
  <2>3. cl[k] = <<label[q[k]], InOrder(Points(label, label[q[k]]))>>
    BY <1>2
  <2> HIDE DEF cl
  <2> QED
    BY <2>1, <2>2, <2>3
<1>8. DOMAIN cl = 1..c
  BY <1>2
<1>9. cl \in Seq(Nat \X Seq(1..n))
  <2>1. cl \in [1..c -> Nat \X Seq(1..n)]
    <3> HIDE DEF entry
    <3>1. \A k \in 1..c : entry(k) \in Nat \X Seq(1..n)
      BY <1>2, <1>7
    <3> HIDE DEF cl
    <3> QED
      BY <1>2, <3>1
  <2> HIDE DEF cl
  <2> QED
    BY <1>1, <2>1
<1> HIDE DEF cl, entry
<1>10. Lists(cl, n, label)
  <2>1. \A k, m \in DOMAIN cl : cl[k][1] = cl[m][1] => k = m
    BY <1>1, <1>4, <1>7, <1>8
  <2>2. ASSUME NEW k \in DOMAIN cl
        PROVE  /\ cl[k][1] \in Nat /\ cl[k][2] \in Seq(1..n)
               /\ ToSet(cl[k][2]) = Points(label, cl[k][1])
               /\ Len(cl[k][2]) = Cardinality(Points(label, cl[k][1]))
    <3> DEFINE l == label[q[k]]
    <3>1. /\ l \in Nat /\ l \in Int /\ cl[k][1] = l
          /\ cl[k][2] = InOrder(Points(label, l))
      BY <1>7, <1>8
    <3> HIDE DEF l
    <3>2. /\ InOrder(Points(label, l)) \in Seq(1..n)
          /\ ToSet(InOrder(Points(label, l))) = Points(label, l)
          /\ Len(InOrder(Points(label, l))) = Cardinality(Points(label, l))
      BY <1>5, <3>1
    <3> QED
      BY <3>1, <3>2
  <2> QED
    BY <1>9, <2>1, <2>2 DEF Lists
<1>11. ASSUME NEW i \in 1..n, label[i] >= 0
       PROVE  \E k \in DOMAIN cl : cl[k][1] = label[i]
  <2>1. PICK h \in heads : label[h] = label[i]
    BY <1>6, <1>11
  <2>2. PICK k \in 1..c : h = q[k]
    BY <1>1 DEF ToSet
  <2> QED
    BY <1>7, <1>8, <2>1, <2>2
<1> QED
  BY <1>10, <1>11 DEF cl

(* The large ones are kept.                                                *)
LEMMA LargeIs ==
  ASSUME NEW n \in Nat, NEW label \in [1..n -> Int], NEW all, Lists(all, n, label)
  PROVE  /\ Lists(Large(all), n, label)
         /\ \A k \in DOMAIN Large(all) : Len(Large(all)[k][2]) >= 2
         /\ \A k \in DOMAIN all : Len(all[k][2]) >= 2 =>
              \E m \in DOMAIN Large(all) : Large(all)[m] = all[k]
<1> DEFINE kept == {k \in DOMAIN all : Len(all[k][2]) >= 2}
           q == InOrder(kept)
           c == Cardinality(kept)
           found == Large(all)
<1>1. DOMAIN all = 1..Len(all) /\ Len(all) \in Nat /\ \A k \in DOMAIN all : all[k] \in Nat \X Seq(1..n)
  BY DEF Lists
<1>2. /\ c \in Nat /\ q \in [1..c -> kept] /\ DOMAIN q = 1..c /\ ToSet(q) = kept
      /\ \A i, k \in DOMAIN q : q[i] = q[k] => i = k
  <2>1. kept \in SUBSET (1..Len(all))
    BY <1>1
  <2> HIDE DEF kept
  <2> QED
    BY <1>1, <2>1, InOrderIs
<1>3. found = [k \in 1..c |-> all[q[k]]]
  BY <1>2 DEF Large
<1>4. \A k \in kept : k \in DOMAIN all /\ Len(all[k][2]) >= 2
  OBVIOUS
<1>5. \A k \in DOMAIN all : Len(all[k][2]) >= 2 => k \in kept
  OBVIOUS
<1> HIDE DEF kept, q, c, found
<1>6. \A k \in 1..c : q[k] \in kept /\ q[k] \in DOMAIN all /\ found[k] = all[q[k]]
  BY <1>2, <1>3, <1>4
<1>7. DOMAIN found = 1..c
  BY <1>3
<1>8. found \in Seq(Nat \X Seq(1..n))
  <2>1. found \in [1..c -> Nat \X Seq(1..n)]
    BY <1>1, <1>3, <1>6
  <2> QED
    BY <1>2, <2>1
<1>9. Lists(found, n, label)
  <2>1. \A k, m \in DOMAIN found : found[k][1] = found[m][1] => k = m
    <3> SUFFICES ASSUME NEW k \in 1..c, NEW m \in 1..c, found[k][1] = found[m][1]
                 PROVE  k = m
      BY <1>7
    <3>1. all[q[k]][1] = all[q[m]][1] /\ q[k] \in DOMAIN all /\ q[m] \in DOMAIN all
      BY <1>6
    <3>2. q[k] = q[m]
      BY <3>1 DEF Lists
    <3> QED
      BY <1>2, <3>2
  <2>2. ASSUME NEW k \in DOMAIN found
        PROVE  /\ found[k][1] \in Nat /\ found[k][2] \in Seq(1..n)
               /\ ToSet(found[k][2]) = Points(label, found[k][1])
               /\ Len(found[k][2]) = Cardinality(Points(label, found[k][1]))
    <3>1. q[k] \in DOMAIN all /\ found[k] = all[q[k]]
      BY <1>6, <1>7
    <3> QED
      BY <3>1 DEF Lists
  <2> QED
    BY <1>8, <2>1, <2>2 DEF Lists
<1>10. \A k \in DOMAIN found : Len(found[k][2]) >= 2
  BY <1>4, <1>6, <1>7
<1>11. ASSUME NEW k \in DOMAIN all, Len(all[k][2]) >= 2
       PROVE  \E m \in DOMAIN found : found[m] = all[k]
  <2>1. PICK m \in 1..c : k = q[m]
    BY <1>2, <1>5, <1>11 DEF ToSet
  <2> QED
    BY <1>6, <1>7, <2>1
<1> QED
  BY <1>9, <1>10, <1>11 DEF found

(* A complete search has found the clusters that density-based clustering  *)
(* defines, whatever the embeddings and their order, when two points make  *)
(* a core (_cluster, which walks a queue in which a point is put once).    *)
THEOREM FoundIs ==
  ASSUME MinSamples = 2, NEW es \in Seq(Seq(Int)), NEW s, SearchOK(s, Len(es)),
         s.near = Near(es), Complete(s)
  PROVE  IsClustering(es, Large(Clusters(s.label)))
<1> DEFINE n == Len(es)
           near == Near(es)
           label == s.label
           all == Clusters(label)
           cl == Large(all)
           core == {i \in DOMAIN es : IsCore(Near(es), i)}
           Member(k) == ToSet(cl[k][2])
           Together(i, j) == \E k \in DOMAIN cl : {i, j} \subseteq Member(k)
<1>1. n \in Nat /\ DOMAIN es = 1..n
  OBVIOUS
<1>2. NeighboursOK(near, n) /\ label \in [1..n -> Int]
  BY NearIs DEF SearchOK, SearchType, SearchSet
<1>3. \A i \in DOMAIN es : \A j \in DOMAIN es : j \in near[i] <=> Close(es[i], es[j])
  BY DEF Near
<1>4. LabelsOK(near, n, label, {}, s.id)
  <2>1. ToSet(s.seeds) = {}
    BY DEF Complete, ToSet
  <2> QED
    BY <2>1 DEF SearchOK
<1>5. \A i \in 1..n : label[i] # -2
  BY <1>2 DEF Complete, Unvisited
<1>6. Lists(all, n, label) 
  BY <1>1, <1>2, ClustersIs
<1>20. \A i \in 1..n : label[i] >= 0 => \E k \in DOMAIN all : all[k][1] = label[i]
  BY <1>1, <1>2, ClustersIs
<1> HIDE DEF near, label, n, all
<1>21. Lists(cl, n, label)
  BY <1>1, <1>2, <1>6, LargeIs
<1>22. \A k \in DOMAIN all : Len(all[k][2]) >= 2 => \E m \in DOMAIN cl : cl[m] = all[k]
  BY <1>1, <1>2, <1>6, LargeIs
<1> HIDE DEF cl
<1>7. \A k \in DOMAIN cl : cl[k][1] \in Nat /\ Member(k) = Points(label, cl[k][1])
  BY <1>21 DEF Lists
<1>8. \A c : \A i : i \in Points(label, c) <=> i \in 1..n /\ label[i] = c
  BY <1>2 DEF Points
<1>9. \A i \in 1..n : i \in core <=> near[i] \ {i} # {}
  BY <1>1, <1>2, CoreIs DEF near
<1>10. ASSUME NEW i \in 1..n, near[i] \ {i} # {}
       PROVE  label[i] \in Nat /\ \A j \in near[i] : label[j] = label[i]
  <2>1. label[i] \in Int /\ -2 <= label[i] /\ label[i] # -2 /\ label[i] # -1
    BY <1>2, <1>4, <1>5, <1>10 DEF LabelsOK
  <2>2. label[i] >= 0 /\ label[i] \in Nat
    BY <2>1
  <2> QED
    BY <1>4, <2>2 DEF LabelsOK
<1>11. ASSUME NEW i \in 1..n, NEW j \in 1..n, i # j, label[i] = label[j], label[i] >= 0
       PROVE  \E k \in DOMAIN cl : cl[k][1] = label[i]
  <2>1. PICK k \in DOMAIN all : all[k][1] = label[i]
    BY <1>11, <1>20
  <2>2. all[k][2] \in Seq(1..n) /\ i \in ToSet(all[k][2]) /\ j \in ToSet(all[k][2])
    <3>1. all[k][2] \in Seq(1..n) /\ ToSet(all[k][2]) = Points(label, label[i])
      BY <1>6, <2>1 DEF Lists
    <3>2. i \in Points(label, label[i]) /\ j \in Points(label, label[i])
      BY <1>8, <1>11
    <3> QED
      BY <3>1, <3>2
  <2>3. Len(all[k][2]) >= 2
    <3> DEFINE p == all[k][2]
    <3> HIDE DEF p
    <3>1. p \in Seq(1..n) /\ DOMAIN p = 1..Len(p) /\ Len(p) \in Nat
      BY <2>2 DEF p
    <3>2. PICK a \in 1..Len(p) : p[a] = i
      BY <2>2, <3>1 DEF ToSet, p
    <3>3. PICK b \in 1..Len(p) : p[b] = j
      BY <2>2, <3>1 DEF ToSet, p
    <3>4. a # b
      BY <1>11, <3>2, <3>3
    <3>5. Len(p) >= 2
      BY <3>1, <3>4
    <3> QED
      BY <3>5 DEF p
  <2> QED
    BY <1>22, <2>1, <2>3
<1>12. ASSUME NEW i \in 1..n, NEW j \in near[i], i # j
       PROVE  j \in 1..n /\ Together(i, j) /\ Together(i, i) /\ i \in core
  <2>1. near[i] \ {i} # {} /\ j \in 1..n /\ i \in near[i]
    BY <1>2, <1>12 DEF NeighboursOK
  <2>2. label[i] \in Nat /\ label[j] = label[i]
    BY <1>10, <2>1
  <2>3. PICK k \in DOMAIN cl : cl[k][1] = label[i]
    BY <1>11, <1>12, <2>1, <2>2
  <2>4. {i, j} \subseteq Member(k)
    BY <1>7, <1>8, <2>1, <2>2, <2>3
  <2> QED
    BY <1>9, <2>1, <2>3, <2>4
<1>13. \A i : \A k \in DOMAIN cl : i \in Member(k) =>
         i \in 1..n /\ label[i] = cl[k][1] /\ label[i] >= 0 /\ near[i] \ {i} # {} /\ i \in core
                /\ i \in near[i]
  <2> SUFFICES ASSUME NEW i, NEW k \in DOMAIN cl, i \in Member(k)
               PROVE  i \in 1..n /\ label[i] = cl[k][1] /\ label[i] >= 0 /\ near[i] \ {i} # {}
                      /\ i \in core /\ i \in near[i]
    OBVIOUS
  <2>1. i \in 1..n /\ label[i] = cl[k][1] /\ label[i] >= 0
    BY <1>7, <1>8
  <2>2. near[i] \ {i} # {}
    BY <1>4, <2>1 DEF LabelsOK
  <2> QED
    BY <1>2, <1>9, <2>1, <2>2 DEF NeighboursOK
<1>14. \A k, m \in DOMAIN cl : k # m =>
         cl[k][1] # cl[m][1] /\ Member(k) \cap Member(m) = {}
  <2> SUFFICES ASSUME NEW k \in DOMAIN cl, NEW m \in DOMAIN cl, k # m
               PROVE  cl[k][1] # cl[m][1] /\ Member(k) \cap Member(m) = {}
    OBVIOUS
  <2>1. cl[k][1] # cl[m][1]
    BY <1>21 DEF Lists
  <2>2. \A i : i \in Member(k) => label[i] = cl[k][1]
    BY <1>13
  <2>3. \A i : i \in Member(m) => label[i] = cl[m][1]
    BY <1>13
  <2> HIDE DEF Member
  <2> QED
    BY <2>1, <2>2, <2>3
<1>15. \A i \in DOMAIN es :
         Together(i, i) <=> \E j \in core : Close(es[i], es[j]) /\ Together(i, j)
  <2> SUFFICES ASSUME NEW i \in DOMAIN es
               PROVE  Together(i, i) <=> \E j \in core : Close(es[i], es[j]) /\ Together(i, j)
    OBVIOUS
  <2>1. Together(i, i) => i \in core /\ i \in near[i] /\ Together(i, i)
    BY <1>13
  <2>2. \A j : Together(i, j) => Together(i, i)
    OBVIOUS
  <2> QED
    BY <1>3, <2>1, <2>2
<1>16. \A i, j \in core : Close(es[i], es[j]) => Together(i, j)
  <2> SUFFICES ASSUME NEW i \in core, NEW j \in core, Close(es[i], es[j]) PROVE Together(i, j)
    OBVIOUS
  <2>1. i \in 1..n /\ j \in 1..n /\ j \in near[i]
    BY <1>1, <1>3
  <2>2. CASE i # j
    BY <1>12, <2>1, <2>2
  <2>3. CASE i = j
    <3>1. near[i] \ {i} # {}
      BY <1>9, <2>1
    <3>2. PICK m \in near[i] : m # i
      BY <3>1
    <3> QED
      BY <1>12, <2>1, <2>3, <3>2
  <2> QED
    BY <2>2, <2>3
<1>17. \A i \in DOMAIN es \ core, j \in core : Close(es[i], es[j]) => Together(i, i)
  <2> SUFFICES ASSUME NEW i \in DOMAIN es \ core, NEW j \in core, Close(es[i], es[j])
               PROVE  Together(i, i)
    OBVIOUS
  <2>1. i \in 1..n /\ j \in near[i] /\ i # j
    BY <1>1, <1>3
  <2> QED
    BY <1>12, <2>1
<1>18. ASSUME NEW k \in DOMAIN cl, NEW part \in SUBSET (core \cap Member(k)),
              part # {}, part # core \cap Member(k)
       PROVE  \E i \in part, j \in (core \cap Member(k)) \ part : Close(es[i], es[j])
  <2> DEFINE c == cl[k][1]
             S == Points(label, c)
  <2>1. core \cap Member(k) = S
    BY <1>7, <1>13
  <2>2. S # {} => c \in 0..s.id
    <3>1. \A i \in 1..n : label[i] \in Int /\ label[i] <= s.id
      BY <1>2, <1>4 DEF LabelsOK
    <3>2. s.id \in Int /\ c \in Nat
      BY <1>4, <1>7 DEF LabelsOK
    <3> QED
      BY <1>8, <3>1, <3>2
  <2>3. S # {}
    BY <1>18, <2>1
  <2>4. Connected(near, S)
    BY <1>4, <2>2, <2>3 DEF LabelsOK
  <2>5. PICK i \in part, j \in S \ part : j \in near[i]
    BY <1>18, <2>1, <2>4 DEF Connected
  <2>6. i \in 1..n /\ j \in 1..n
    BY <1>8, <2>1, <2>5
  <2> QED
    BY <1>1, <1>3, <2>1, <2>5, <2>6
<1>23. \A k \in DOMAIN cl :
         LET whole == core \cap Member(k)
         IN \A part \in (SUBSET whole) \ {{}, whole} :
              \E i \in part, j \in whole \ part : Close(es[i], es[j])
  <2> TAKE k \in DOMAIN cl
  <2> DEFINE all_ == core \cap Member(k)
  <2>1. ASSUME NEW part \in (SUBSET all_) \ {{}, all_}
        PROVE  \E i \in part, j \in all_ \ part : Close(es[i], es[j])
    <3>1. part \in SUBSET all_ /\ part # {} /\ part # all_
      <4> HIDE DEF all_
      <4> QED
        OBVIOUS
    <3> HIDE DEF Member, core
    <3> QED
      BY <1>18, <3>1
  <2> HIDE DEF Member, core
  <2> QED
    BY <2>1
<1>19. IsClustering(es, cl)
  BY <1>14, <1>15, <1>16, <1>17, <1>23, Zenon DEF IsClustering
<1> QED
  BY <1>19 DEF cl, all, label
=============================================================================
