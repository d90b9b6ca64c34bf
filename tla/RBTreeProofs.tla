---------------------------- MODULE RBTreeProofs ----------------------------
(***************************************************************************)
(* What RBTree's runs check for eight keys holds for every set of integer   *)
(* keys. A tree is followed by four things it does not store: the set E of  *)
(* its elements, the set U[n] of those at and below each node, its parent   *)
(* P[n], and the number B[n] of black nodes on the ways down from it. Shape *)
(* relates the tree to E, U and P, Balanced to B, Calm says that no red node*)
(* has a red kid; each call is shown to keep them with some new E, U, P and *)
(* B. The loops of the two restructure functions are followed round by      *)
(* round: Growing is the state between two rounds after an insertion, Lacks *)
(* the one after a deletion. From the black balance follows the height of   *)
(* the tree, which bounds every path and with it the iterator's array, and  *)
(* from the search order what the iterator finds.                           *)
(***************************************************************************)
EXTENDS RBTree, FiniteSetTheorems, WellFoundedInduction, TLAPS

(* A set of numbers has a least one. *)
LEMMA LeastNumber ==
  ASSUME NEW P \in SUBSET Nat, P # {}
  PROVE  \E k \in P : \A j \in P : k <= j
<1> DEFINE Less == OpToRel(<, Nat)
<1>1. IsWellFoundedOn(Less, Nat)
  BY NatLessThanWellFounded
<1>2. \A x, y \in Nat : <<x, y>> \in Less <=> x < y
  BY DEF OpToRel
<1> HIDE DEF Less
<1>3. PICK k \in P : \A j \in P : ~(<<j, k>> \in Less)
  BY <1>1, WFMin
<1>4. \A j \in P : ~(j < k)
  BY <1>2, <1>3
<1> QED BY <1>3, <1>4

(* What passes from all smaller numbers to each number holds of every one.    *)
LEMMA FromBelow ==
  ASSUME NEW P \in SUBSET Nat, \A n \in Nat : (\A m \in Nat : m < n => m \in P) => n \in P
  PROVE  P = Nat
<1> DEFINE Q == Nat \ P
<1>1. ASSUME Q # {} PROVE FALSE
  <2>1. PICK k \in Q : \A j \in Q : k <= j
    BY <1>1, LeastNumber
  <2>2. \A m \in Nat : m < k => m \in P
    BY <2>1
  <2> QED BY <2>1, <2>2
<1> QED BY <1>1

(* What holds at 0 and passes from each number to the next holds up to n.     *)
LEMMA UpTo ==
  ASSUME NEW n \in Nat, NEW P \in SUBSET Nat, 0 \in P,
         \A k \in 1 .. n : k - 1 \in P => k \in P
  PROVE  \A k \in 0 .. n : k \in P
<1> DEFINE Q == {k \in 0 .. n : k \notin P}
<1>1. Q \in SUBSET Nat
  OBVIOUS
<1>2. ASSUME Q # {} PROVE FALSE
  <2>1. PICK k \in Q : \A j \in Q : k <= j
    <3> HIDE DEF Q
    <3> QED BY <1>1, <1>2, LeastNumber
  <2>2. k \in 1 .. n /\ k - 1 \in 0 .. n /\ k - 1 \notin Q
    BY <2>1
  <2> QED BY <2>1, <2>2
<1> QED BY <1>2

(* A function over the rounds of a loop exists.                              *)
Maps(F, X) == F \in [X -> X]
Runs(g, F, X, a, n) ==
  g \in [0 .. n -> X] /\ g[0] = a /\ \A k \in 1 .. n : g[k] = F[g[k - 1]]

(* A loop has a run of every number of rounds.                              *)
LEMMA Iteration ==
  ASSUME NEW X, NEW F, Maps(F, X), NEW a \in X, NEW n \in Nat
  PROVE  \E g : Runs(g, F, X, a, n)
<1> DEFINE Has(m) == \E g \in [0 .. m -> X] : g[0] = a /\ \A k \in 1 .. m : g[k] = F[g[k - 1]]
           P == {m \in Nat : Has(m)}
<1>1. 0 \in P
  <2> DEFINE g == [k \in 0 .. 0 |-> a]
  <2>1. g \in [0 .. 0 -> X] /\ g[0] = a /\ \A k \in 1 .. 0 : g[k] = F[g[k - 1]]
    OBVIOUS
  <2> HIDE DEF g
  <2>2. Has(0)
    BY <2>1
  <2> QED BY <2>2
<1>2. ASSUME NEW m \in 1 .. n, m - 1 \in P PROVE m \in P
  <2>1. PICK g \in [0 .. m - 1 -> X] : g[0] = a /\ \A k \in 1 .. m - 1 : g[k] = F[g[k - 1]]
    BY <1>2
  <2>0. F \in [X -> X]
    BY DEF Maps
  <2> DEFINE h == [k \in 0 .. m |-> IF k = m THEN F[g[m - 1]] ELSE g[k]]
  <2>2. h \in [0 .. m -> X]
    BY <2>0, <2>1
  <2>3. h[0] = a
    BY <2>1
  <2>4. ASSUME NEW k \in 1 .. m PROVE h[k] = F[h[k - 1]]
    BY <2>1
  <2> HIDE DEF h
  <2> QED BY <2>2, <2>3, <2>4
<1>3. P \in SUBSET Nat
  OBVIOUS
<1>4. \A k \in 0 .. n : k \in P
  <2> HIDE DEF P
  <2> QED BY <1>1, <1>2, <1>3, UpTo
<1>5. Has(n)
  BY <1>4
<1> QED BY <1>5, Zenon DEF Runs

-----------------------------------------------------------------------------
(* Functions that are defined by what they are at elements of a lower rank.  *)

Ranked(r, S) == r \in [S -> Nat]

(* D gives the value at x from the values of f at elements of a lower rank.   *)
Reduces(D, r, S, V) ==
  /\ D \in [S \X [S -> V] -> V]
  /\ \A x \in S : \A f, g \in [S -> V] :
       (\A y \in S : r[y] < r[x] => f[y] = g[y]) => D[<<x, f>>] = D[<<x, g>>]

Solves(h, D, S, V) == h \in [S -> V] /\ \A x \in S : h[x] = D[<<x, h>>]

(* Such a function exists. *)
LEMMA RankRecursion ==
  ASSUME NEW S, NEW V, NEW r, Ranked(r, S), NEW D, Reduces(D, r, S, V), NEW v \in V
  PROVE  \E h : Solves(h, D, S, V)
<1> DEFINE Below(f, n) == f \in [S -> V] /\ \A x \in S : r[x] < n => f[x] = D[<<x, f>>]
<1>0. r \in [S -> Nat] /\ D \in [S \X [S -> V] -> V]
  BY DEF Ranked, Reduces
<1>1. ASSUME NEW x \in S, NEW f \in [S -> V], NEW g \in [S -> V],
             \A y \in S : r[y] < r[x] => f[y] = g[y]
      PROVE  D[<<x, f>>] = D[<<x, g>>]
  BY <1>1 DEF Reduces
<1>2. ASSUME NEW n \in Nat, NEW f, NEW g, Below(f, n), Below(g, n)
      PROVE  \A x \in S : r[x] < n => f[x] = g[x]
  <2> DEFINE P == {m \in Nat : \A x \in S : r[x] = m /\ m < n => f[x] = g[x]}
  <2>1. ASSUME NEW k \in Nat, \A m \in Nat : m < k => m \in P PROVE k \in P
    <3>1. ASSUME NEW x \in S, r[x] = k, k < n PROVE f[x] = g[x]
      <4>1. ASSUME NEW y \in S, r[y] < r[x] PROVE f[y] = g[y]
        <5>1. r[y] \in Nat /\ r[y] < k
          BY <1>0, <3>1, <4>1
        <5>2. r[y] \in P
          BY <2>1, <5>1
        <5> QED BY <3>1, <5>1, <5>2
      <4>2. D[<<x, f>>] = D[<<x, g>>]
        BY <1>1, <1>2, <4>1
      <4>3. f[x] = D[<<x, f>>] /\ g[x] = D[<<x, g>>]
        BY <1>2, <3>1
      <4> QED BY <4>2, <4>3
    <3> QED BY <3>1
  <2>2. P = Nat
    <3>1. P \in SUBSET Nat
      OBVIOUS
    <3> HIDE DEF P
    <3> QED BY <2>1, <3>1, FromBelow
  <2>3. ASSUME NEW x \in S, r[x] < n PROVE f[x] = g[x]
    <3>1. r[x] \in P
      BY <1>0, <2>2
    <3> QED BY <2>3, <3>1
  <2> QED BY <2>3
<1>3. \A n \in Nat : \E f : Below(f, n)
  <2> DEFINE P == {n \in Nat : \E f : Below(f, n)}
  <2>1. ASSUME NEW n \in Nat, \A m \in Nat : m < n => m \in P PROVE n \in P
    <3>1. CASE n = 0
      <4>1. Below([x \in S |-> v], 0)
        BY <1>0
      <4> QED BY <3>1, <4>1
    <3>2. CASE n # 0
      <4>1. n - 1 \in Nat /\ n - 1 < n
        BY <3>2
      <4>2. PICK f : Below(f, n - 1)
        BY <2>1, <4>1
      <4> DEFINE g == [x \in S |-> D[<<x, f>>]]
      <4>3. g \in [S -> V]
        BY <1>0, <4>2
      <4>4. ASSUME NEW x \in S, r[x] < n PROVE g[x] = D[<<x, g>>]
        <5>1. ASSUME NEW y \in S, r[y] < r[x] PROVE f[y] = g[y]
          <6>1. r[y] < n - 1
            BY <1>0, <4>4, <5>1
          <6> QED BY <4>2, <6>1
        <5>2. D[<<x, f>>] = D[<<x, g>>]
          <6> HIDE DEF g
          <6> QED BY <1>1, <4>2, <4>3, <5>1
        <5> QED BY <5>2
      <4>5. Below(g, n)
        <5> HIDE DEF g
        <5> QED BY <4>3, <4>4
      <4> QED BY <4>5
    <3> QED BY <3>1, <3>2
  <2>2. P = Nat
    <3>1. P \in SUBSET Nat
      OBVIOUS
    <3> HIDE DEF P
    <3> QED BY <2>1, <3>1, FromBelow
  <2> QED BY <2>2
<1> DEFINE F(n) == CHOOSE f : Below(f, n)
           h == [x \in S |-> F(r[x] + 1)[x]]
<1>4. ASSUME NEW n \in Nat PROVE Below(F(n), n)
  BY <1>3
<1>5. h \in [S -> V]
  <2>1. ASSUME NEW x \in S PROVE F(r[x] + 1)[x] \in V
    <3>1. r[x] + 1 \in Nat
      BY <1>0
    <3>2. Below(F(r[x] + 1), r[x] + 1)
      BY <1>4, <3>1
    <3> HIDE DEF F
    <3> QED BY <3>2
  <2> HIDE DEF F
  <2> QED BY <2>1
<1>6. ASSUME NEW x \in S PROVE h[x] = D[<<x, h>>]
  <2> DEFINE f == F(r[x] + 1)
  <2>1. r[x] + 1 \in Nat /\ r[x] \in Nat
    BY <1>0
  <2>2. Below(f, r[x] + 1)
    BY <1>4, <2>1
  <2>3. ASSUME NEW y \in S, r[y] < r[x] PROVE f[y] = h[y]
    <3>1. r[y] \in Nat /\ r[y] + 1 \in Nat /\ r[y] < r[y] + 1
      BY <1>0
    <3>2. Below(F(r[y] + 1), r[y] + 1)
      BY <1>4, <3>1
    <3> HIDE DEF F
    <3>3. Below(f, r[y] + 1)
      <4>1. \A z \in S : r[z] < r[y] + 1 => r[z] < r[x] + 1
        BY <1>0, <2>3
      <4> HIDE DEF f
      <4> QED BY <2>2, <4>1
    <3> HIDE DEF Below, f
    <3>4. F(r[y] + 1)[y] = f[y]
      BY <1>2, <3>1, <3>2, <3>3
    <3> QED BY <3>4
  <2>4. f \in [S -> V] /\ f[x] = D[<<x, f>>]
    <3> HIDE DEF f
    <3> QED BY <2>1, <2>2
  <2>5. h[x] = f[x]
    <3> HIDE DEF F
    <3> QED OBVIOUS
  <2>6. D[<<x, f>>] = D[<<x, h>>]
    <3> HIDE DEF f, h
    <3> QED BY <1>1, <1>5, <2>3, <2>4
  <2> HIDE DEF f, h
  <2> QED BY <2>4, <2>5, <2>6
<1>7. Solves(h, D, S, V)
  <2> HIDE DEF h
  <2> QED BY <1>5, <1>6 DEF Solves
<1> QED BY <1>7

(* i_log2 by its recursion. *)
LEMMA Log2Is ==
  Log2 \in [Nat -> Nat] /\ \A v \in Nat : Log2[v] = IF v = 0 THEN 0 ELSE 1 + Log2[v \div 2]
<1> DEFINE r == [v \in Nat |-> v]
           D == [a \in Nat \X [Nat -> Nat] |-> IF a[1] = 0 THEN 0 ELSE 1 + a[2][a[1] \div 2]]
           Def(g) == [v \in Nat |-> IF v = 0 THEN 0 ELSE 1 + g[v \div 2]]
<1>0. \A v \in Nat : v \div 2 \in Nat /\ (v # 0 => v \div 2 < v)
  OBVIOUS
<1>1. Ranked(r, Nat) /\ \A v \in Nat : r[v] = v
  BY DEF Ranked
<1>2. D \in [Nat \X [Nat -> Nat] -> Nat]
  <2>1. ASSUME NEW v \in Nat, NEW f \in [Nat -> Nat]
        PROVE  (IF v = 0 THEN 0 ELSE 1 + f[v \div 2]) \in Nat
    <3>1. f[v \div 2] \in Nat
      BY <1>0
    <3> QED BY <3>1
  <2> QED BY <2>1
<1>3. ASSUME NEW v \in Nat, NEW f \in [Nat -> Nat]
      PROVE  D[<<v, f>>] = IF v = 0 THEN 0 ELSE 1 + f[v \div 2]
  OBVIOUS
<1> HIDE DEF r, D
<1>4. Reduces(D, r, Nat, Nat)
  <2>1. ASSUME NEW v \in Nat, NEW f \in [Nat -> Nat], NEW g \in [Nat -> Nat],
               \A y \in Nat : r[y] < r[v] => f[y] = g[y]
        PROVE  D[<<v, f>>] = D[<<v, g>>]
    <3>1. v # 0 => f[v \div 2] = g[v \div 2]
      BY <1>0, <1>1, <2>1
    <3>2. D[<<v, f>>] = IF v = 0 THEN 0 ELSE 1 + f[v \div 2]
      BY <1>3
    <3>3. D[<<v, g>>] = IF v = 0 THEN 0 ELSE 1 + g[v \div 2]
      BY <1>3
    <3> QED BY <3>1, <3>2, <3>3
  <2> QED BY <1>2, <2>1 DEF Reduces
<1>5. PICK h : Solves(h, D, Nat, Nat)
  BY <1>1, <1>4, RankRecursion
<1>6. h \in [Nat -> Nat] /\ \A v \in Nat : h[v] = D[<<v, h>>]
  BY <1>5 DEF Solves
<1>7. \A v \in Nat : h[v] = IF v = 0 THEN 0 ELSE 1 + h[v \div 2]
  BY <1>3, <1>6
<1>8. h = Def(h)
  BY <1>6, <1>7
<1>9. Log2 = Def(Log2)
  <2>1. Log2 = CHOOSE g : g = Def(g)
    BY Zenon DEF Log2
  <2> HIDE DEF Def
  <2> QED BY <1>8, <2>1, Zenon
<1> DEFINE P == {n \in Nat : Log2[n] \in Nat}
<1>10. \A v \in Nat : Log2[v] = IF v = 0 THEN 0 ELSE 1 + Log2[v \div 2]
  BY <1>9
<1>11. P = Nat
  <2>1. ASSUME NEW v \in Nat, \A m \in Nat : m < v => m \in P PROVE v \in P
    <3>1. v # 0 => Log2[v \div 2] \in Nat
      BY <1>0, <2>1
    <3> QED BY <1>10, <3>1
  <2>2. P \in SUBSET Nat
    OBVIOUS
  <2> HIDE DEF P
  <2> QED BY <2>1, <2>2, FromBelow
<1>12. Log2 = [v \in Nat |-> Log2[v]]
  BY <1>9
<1>13. Log2 \in [Nat -> Nat]
  BY <1>11, <1>12
<1> QED BY <1>10, <1>13

(* It grows with its argument, by at most one for each number, and by one     *)
(* when the number is doubled.                                               *)
LEMMA Log2Grows ==
  /\ Log2[1] = 1
  /\ \A v \in Nat : v # 0 => Log2[2 * v] = 1 + Log2[v]
  /\ \A v \in Nat : Log2[v] <= Log2[v + 1] /\ Log2[v + 1] <= Log2[v] + 1
  /\ \A u, v \in Nat : u <= v => Log2[u] <= Log2[v]
<1>0. \A v \in Nat : Log2[v] \in Nat
  BY Log2Is
<1>1. Log2[1] = 1
  <2>1. 1 \div 2 = 0
    OBVIOUS
  <2>2. Log2[1] = 1 + Log2[1 \div 2] /\ Log2[0] = 0
    BY Log2Is
  <2> QED BY <2>1, <2>2
<1>2. ASSUME NEW v \in Nat, v # 0 PROVE Log2[2 * v] = 1 + Log2[v]
  <2>1. 2 * v \in Nat /\ 2 * v # 0 /\ (2 * v) \div 2 = v
    BY <1>2
  <2> QED BY <2>1, Log2Is
<1>3. ASSUME NEW v \in Nat PROVE Log2[v] <= Log2[v + 1] /\ Log2[v + 1] <= Log2[v] + 1
  <2> DEFINE P == {n \in Nat : Log2[n] <= Log2[n + 1] /\ Log2[n + 1] <= Log2[n] + 1}
  <2>1. ASSUME NEW n \in Nat, \A m \in Nat : m < n => m \in P PROVE n \in P
    <3>1. CASE n = 0
      <4>1. Log2[0] = 0
        BY Log2Is
      <4> QED BY <1>1, <3>1, <4>1
    <3>2. CASE n # 0
      <4>1. Log2[n] = 1 + Log2[n \div 2] /\ Log2[n + 1] = 1 + Log2[(n + 1) \div 2]
        <5>1. n + 1 \in Nat /\ n + 1 # 0
          OBVIOUS
        <5> QED BY <3>2, <5>1, Log2Is
      <4>2. n \div 2 \in Nat /\ n \div 2 < n
            /\ ((n + 1) \div 2 = n \div 2 \/ (n + 1) \div 2 = n \div 2 + 1)
        BY <3>2
      <4>3. n \div 2 \in P
        BY <2>1, <4>2
      <4>4. Log2[n \div 2] \in Nat /\ Log2[n \div 2 + 1] \in Nat /\ Log2[n] \in Nat /\ Log2[n + 1] \in Nat
        BY <1>0, <4>2
      <4> QED BY <4>1, <4>2, <4>3, <4>4
    <3> QED BY <3>1, <3>2
  <2>2. P = Nat
    <3>1. P \in SUBSET Nat
      OBVIOUS
    <3> HIDE DEF P
    <3> QED BY <2>1, <3>1, FromBelow
  <2> QED BY <2>2
<1>4. ASSUME NEW u \in Nat, NEW v \in Nat, u <= v PROVE Log2[u] <= Log2[v]
  <2> DEFINE P == {n \in Nat : Log2[u] <= Log2[u + n]}
  <2>1. ASSUME NEW n \in Nat, \A m \in Nat : m < n => m \in P PROVE n \in P
    <3>1. CASE n = 0
      BY <1>0, <3>1
    <3>2. CASE n # 0
      <4>1. n - 1 \in Nat /\ n - 1 < n /\ u + (n - 1) \in Nat /\ u + (n - 1) + 1 = u + n
        BY <3>2
      <4>2. n - 1 \in P
        BY <2>1, <4>1
      <4>3. Log2[u + (n - 1)] <= Log2[u + n]
        BY <1>3, <4>1
      <4>4. Log2[u] \in Nat /\ Log2[u + (n - 1)] \in Nat /\ Log2[u + n] \in Nat
        BY <1>0, <4>1
      <4> QED BY <4>2, <4>3, <4>4
    <3> QED BY <3>1, <3>2
  <2>2. P = Nat
    <3>1. P \in SUBSET Nat
      OBVIOUS
    <3> HIDE DEF P
    <3> QED BY <2>1, <3>1, FromBelow
  <2>3. v - u \in Nat /\ u + (v - u) = v
    BY <1>4
  <2>4. v - u \in P
    BY <2>2, <2>3
  <2> QED BY <2>3, <2>4
<1> QED BY <1>1, <1>2, <1>3, <1>4

-----------------------------------------------------------------------------
(* Walks                                                                    *)

Node == Keys \cup {NULL}

(* Sequence p goes from n on to where go leads, to the end. *)
Chain(go, n, p) ==
  /\ p \in Seq(Keys) /\ Len(p) >= 1 /\ p[1] = n
  /\ \A j \in 1 .. Len(p) - 1 : go[p[j]] = p[j + 1]
  /\ go[p[Len(p)]] = NULL

(* go leads to a node of a lower rank, or nowhere. *)
Falls(go, r) ==
  /\ go \in [Keys -> Node] /\ r \in [Keys -> Nat]
  /\ \A m \in Keys : go[m] # NULL => r[go[m]] < r[m]

(* A walk along such a function ends, with a chain. *)
LEMMA WalkIs ==
  ASSUME NEW go, NEW r, Falls(go, r), NEW n \in Keys
  PROVE  Chain(go, n, Walk(go, n))
<1> DEFINE V == Seq(Keys)
           D == [a \in Keys \X [Keys -> V] |->
                   IF go[a[1]] = NULL THEN <<a[1]>> ELSE <<a[1]>> \o a[2][go[a[1]]]]
           Def(g) == [m \in Keys |-> IF go[m] = NULL THEN <<m>> ELSE <<m>> \o g[go[m]]]
<1>0. /\ go \in [Keys -> Node] /\ r \in [Keys -> Nat]
      /\ \A m \in Keys : go[m] # NULL => go[m] \in Keys /\ r[go[m]] < r[m]
  BY DEF Falls, Node
<1>1. Ranked(r, Keys)
  BY <1>0 DEF Ranked
<1>2. ASSUME NEW m \in Keys, NEW f \in [Keys -> V]
      PROVE  (IF go[m] = NULL THEN <<m>> ELSE <<m>> \o f[go[m]]) \in V
  <2>1. CASE go[m] = NULL
    BY <2>1
  <2>2. CASE go[m] # NULL
    <3>1. f[go[m]] \in V /\ <<m>> \in V
      BY <1>0, <2>2
    <3> QED BY <2>2, <3>1
  <2> QED BY <2>1, <2>2
<1>3. D \in [Keys \X [Keys -> V] -> V]
  <2> HIDE DEF V
  <2> QED BY <1>2
<1>4. ASSUME NEW m \in Keys, NEW f \in [Keys -> V]
      PROVE  D[<<m, f>>] = IF go[m] = NULL THEN <<m>> ELSE <<m>> \o f[go[m]]
  <2> HIDE DEF V
  <2> QED OBVIOUS
<1>5. <<>> \in V
  OBVIOUS
<1> HIDE DEF D, V
<1>6. Reduces(D, r, Keys, V)
  <2>1. ASSUME NEW m \in Keys, NEW f \in [Keys -> V], NEW g \in [Keys -> V],
               \A y \in Keys : r[y] < r[m] => f[y] = g[y]
        PROVE  D[<<m, f>>] = D[<<m, g>>]
    <3>1. go[m] # NULL => f[go[m]] = g[go[m]]
      BY <1>0, <2>1
    <3>2. D[<<m, f>>] = IF go[m] = NULL THEN <<m>> ELSE <<m>> \o f[go[m]]
      BY <1>4
    <3>3. D[<<m, g>>] = IF go[m] = NULL THEN <<m>> ELSE <<m>> \o g[go[m]]
      BY <1>4
    <3> QED BY <3>1, <3>2, <3>3
  <2> QED BY <1>3, <2>1 DEF Reduces
<1>7. PICK h : Solves(h, D, Keys, V)
  BY <1>1, <1>5, <1>6, RankRecursion
<1>8. h \in [Keys -> V] /\ \A m \in Keys : h[m] = D[<<m, h>>]
  BY <1>7 DEF Solves
<1>9. \A m \in Keys : h[m] = IF go[m] = NULL THEN <<m>> ELSE <<m>> \o h[go[m]]
  BY <1>4, <1>8
<1>10. h = Def(h)
  BY <1>8, <1>9
<1> DEFINE f == CHOOSE g : g = Def(g)
<1>11. f = Def(f)
  <2> HIDE DEF Def
  <2> QED BY <1>10, Zenon
<1>12. Walk(go, n) = f[n]
  BY Zenon DEF Walk
<1> HIDE DEF f
<1>13. \A m \in Keys : f[m] = IF go[m] = NULL THEN <<m>> ELSE <<m>> \o f[go[m]]
  BY <1>11
<1> HIDE DEF Def
<1> DEFINE P == {i \in Nat : \A m \in Keys : r[m] = i => Chain(go, m, f[m])}
<1>14. P = Nat
  <2>1. ASSUME NEW i \in Nat, \A j \in Nat : j < i => j \in P PROVE i \in P
    <3>1. ASSUME NEW m \in Keys, r[m] = i PROVE Chain(go, m, f[m])
      <4>1. CASE go[m] = NULL
        <5>1. f[m] = <<m>>
          BY <1>13, <4>1
        <5> QED BY <4>1, <5>1 DEF Chain
      <4>2. CASE go[m] # NULL
        <5> DEFINE q == f[go[m]]
                   p == <<m>> \o q
        <5>1. go[m] \in Keys /\ r[go[m]] \in Nat /\ r[go[m]] < i
          BY <1>0, <3>1, <4>2
        <5>2. r[go[m]] \in P
          BY <2>1, <5>1
        <5>3. Chain(go, go[m], q)
          BY <5>1, <5>2
        <5> HIDE DEF q
        <5>4. /\ q \in Seq(Keys) /\ Len(q) >= 1 /\ q[1] = go[m] /\ Len(q) \in Nat
              /\ \A j \in 1 .. Len(q) - 1 : go[q[j]] = q[j + 1]
              /\ go[q[Len(q)]] = NULL
          BY <5>3 DEF Chain
        <5>5. /\ p \in Seq(Keys) /\ Len(p) = Len(q) + 1 /\ p[1] = m
              /\ \A j \in 1 .. Len(q) : p[j + 1] = q[j]
          BY <5>4
        <5> HIDE DEF p
        <5>6. ASSUME NEW j \in 1 .. Len(p) - 1 PROVE go[p[j]] = p[j + 1]
          <6>1. CASE j = 1
            <7>1. 1 \in 1 .. Len(q)
              BY <5>4
            <7> QED BY <5>4, <5>5, <6>1, <7>1
          <6>2. CASE j # 1
            <7>1. j - 1 \in 1 .. Len(q) - 1 /\ j - 1 \in 1 .. Len(q) /\ j \in 1 .. Len(q) /\ j - 1 + 1 = j
              BY <5>4, <5>5, <6>2
            <7>2. go[q[j - 1]] = q[j]
              BY <5>4, <7>1
            <7>3. p[j - 1 + 1] = q[j - 1]
              BY <5>5, <7>1
            <7> QED BY <5>5, <7>1, <7>2, <7>3
          <6> QED BY <6>1, <6>2
        <5>7. go[p[Len(p)]] = NULL
          <6>1. Len(q) \in 1 .. Len(q)
            BY <5>4
          <6> QED BY <5>4, <5>5, <6>1
        <5>8. Chain(go, m, p)
          BY <5>4, <5>5, <5>6, <5>7 DEF Chain
        <5>9. f[m] = p
          BY <1>13, <4>2 DEF p, q
        <5> QED BY <5>8, <5>9
      <4> QED BY <4>1, <4>2
    <3> QED BY <3>1
  <2>2. P \in SUBSET Nat
    OBVIOUS
  <2> HIDE DEF P
  <2> QED BY <2>1, <2>2, FromBelow
<1>15. Chain(go, n, f[n])
  <2>1. r[n] \in P
    BY <1>0, <1>14
  <2> QED BY <2>1
<1> QED BY <1>12, <1>15

(* There is one such sequence. *)
LEMMA OneChain ==
  ASSUME NEW go, NEW n, NEW p, NEW q, Chain(go, n, p), Chain(go, n, q),
         go \in [Keys -> Node]
  PROVE  p = q
<1>0. /\ p \in Seq(Keys) /\ Len(p) >= 1 /\ p[1] = n /\ Len(p) \in Nat
      /\ \A j \in 1 .. Len(p) - 1 : go[p[j]] = p[j + 1]
      /\ go[p[Len(p)]] = NULL
  BY DEF Chain
<1>1. /\ q \in Seq(Keys) /\ Len(q) >= 1 /\ q[1] = n /\ Len(q) \in Nat
      /\ \A j \in 1 .. Len(q) - 1 : go[q[j]] = q[j + 1]
      /\ go[q[Len(q)]] = NULL
  BY DEF Chain
<1> DEFINE P == {i \in Nat : i \in 1 .. Len(p) /\ i \in 1 .. Len(q) => p[i] = q[i]}
<1>2. P = Nat
  <2>1. ASSUME NEW i \in Nat, \A j \in Nat : j < i => j \in P PROVE i \in P
    <3>1. CASE i <= 1
      BY <1>0, <1>1, <3>1
    <3>2. CASE i > 1
      <4>1. ASSUME i \in 1 .. Len(p), i \in 1 .. Len(q) PROVE p[i] = q[i]
        <5>1. /\ i - 1 \in Nat /\ i - 1 < i /\ i - 1 + 1 = i
              /\ i - 1 \in 1 .. Len(p) - 1 /\ i - 1 \in 1 .. Len(q) - 1
              /\ i - 1 \in 1 .. Len(p) /\ i - 1 \in 1 .. Len(q)
          BY <1>0, <1>1, <3>2, <4>1
        <5>2. i - 1 \in P
          BY <2>1, <5>1
        <5>3. p[i - 1] = q[i - 1]
          BY <5>1, <5>2
        <5>4. go[p[i - 1]] = p[i] /\ go[q[i - 1]] = q[i]
          BY <1>0, <1>1, <5>1
        <5> QED BY <5>3, <5>4
      <4> QED BY <4>1
    <3> QED BY <3>1, <3>2
  <2>2. P \in SUBSET Nat
    OBVIOUS
  <2> HIDE DEF P
  <2> QED BY <2>1, <2>2, FromBelow
<1>3. \A i \in Nat : i \in 1 .. Len(p) /\ i \in 1 .. Len(q) => p[i] = q[i]
  BY <1>2
<1>4. NULL \notin Keys
  BY RBTreeAssumption
<1>5. ~(Len(p) < Len(q))
  <2>1. ASSUME Len(p) < Len(q) PROVE FALSE
    <3>1. Len(p) \in 1 .. Len(p) /\ Len(p) \in 1 .. Len(q) - 1 /\ Len(p) \in 1 .. Len(q)
          /\ Len(p) + 1 \in 1 .. Len(q)
      BY <1>0, <1>1, <2>1
    <3>2. go[q[Len(p)]] = q[Len(p) + 1] /\ q[Len(p)] = p[Len(p)]
      BY <1>0, <1>1, <1>3, <3>1
    <3>3. q[Len(p) + 1] \in Keys
      BY <1>1, <3>1
    <3> QED BY <1>0, <1>4, <3>2, <3>3
  <2> QED BY <2>1
<1>6. ~(Len(q) < Len(p))
  <2>1. ASSUME Len(q) < Len(p) PROVE FALSE
    <3>1. Len(q) \in 1 .. Len(q) /\ Len(q) \in 1 .. Len(p) - 1 /\ Len(q) \in 1 .. Len(p)
          /\ Len(q) + 1 \in 1 .. Len(p)
      BY <1>0, <1>1, <2>1
    <3>2. go[p[Len(q)]] = p[Len(q) + 1] /\ q[Len(q)] = p[Len(q)]
      BY <1>0, <1>1, <1>3, <3>1
    <3>3. p[Len(q) + 1] \in Keys
      BY <1>0, <3>1
    <3> QED BY <1>1, <1>4, <3>2, <3>3
  <2> QED BY <2>1
<1>7. Len(p) = Len(q)
  BY <1>0, <1>1, <1>5, <1>6
<1>8. \A i \in 1 .. Len(p) : p[i] = q[i]
  BY <1>0, <1>3, <1>7
<1> HIDE DEF P
<1> QED BY <1>0, <1>1, <1>7, <1>8

(* x is on side d of n. *)
Before(d, x, n) == IF d = "L" THEN x < n ELSE n < x

(* Tree t holds the keys E: U[n] are those at and below n, P[n] is the parent *)
(* of n.                                                                    *)
Shape(t, E, U, P) ==
  /\ t \in TreeType /\ E \in SUBSET Keys /\ IsFiniteSet(E)
  /\ U \in [Node -> SUBSET E] /\ P \in [Node -> Node]
  /\ U[NULL] = {} /\ U[t.root] = E /\ P[t.root] = NULL
  /\ t.root \in E \cup {NULL} /\ t.red \subseteq E
  /\ \A n \in E : n \in U[n]
  /\ \A n \in E, d \in Sides :
       /\ t.kid[d][n] \in E \cup {NULL}
       /\ \A x \in E : x \in U[t.kid[d][n]] <=> x \in U[n] /\ Before(d, x, n)
       /\ t.kid[d][n] # NULL => P[t.kid[d][n]] = n
  /\ \A n \in Keys \ E, d \in Sides : t.kid[d][n] = NULL

(* Left and right. *)
LEMMA TwoSides ==
  /\ "L" \in Sides /\ "R" \in Sides
  /\ \A d \in Sides : /\ Other(d) \in Sides /\ Other(Other(d)) = d /\ Other(d) # d
                      /\ \A e \in Sides : e # d => e = Other(d)
BY DEF Sides, Other

(* The order of the keys on each side. *)
LEMMA Order ==
  ASSUME NEW d \in Sides, NEW x \in Keys, NEW y \in Keys, NEW z \in Keys
  PROVE  /\ Before(d, x, y) <=> Before(Other(d), y, x)
         /\ ~Before(d, x, x)
         /\ Before(d, x, y) /\ Before(d, y, z) => Before(d, x, z)
         /\ x # y => Before(d, x, y) \/ Before(Other(d), x, y)
         /\ ~(Before(d, x, y) /\ Before(Other(d), x, y))
<1>1. x \in Int /\ y \in Int /\ z \in Int
  BY RBTreeAssumption
<1> QED BY <1>1 DEF Before, Sides, Other

(* What Shape says of a node and its kids. *)
LEMMA Kids ==
  ASSUME NEW t, NEW E, NEW U, NEW P, Shape(t, E, U, P), NEW n \in E, NEW d \in Sides
  PROVE  /\ n \in Keys /\ n # NULL /\ n \in U[n] /\ U[n] \subseteq E
         /\ t.kid[d][n] \in E \cup {NULL} /\ t.kid[d][n] \in Node
         /\ t.kid[d][n] # NULL =>
              /\ t.kid[d][n] \in E /\ t.kid[d][n] \in U[n] /\ P[t.kid[d][n]] = n
              /\ t.kid[d][n] # n /\ t.kid[d][n] # t.root
              /\ Before(d, t.kid[d][n], n) /\ n \notin U[t.kid[d][n]]
              /\ U[t.kid[d][n]] \subseteq U[n]
              /\ t.kid[Other(d)][n] # t.kid[d][n]
<1>0. NULL \notin Keys /\ Other(d) \in Sides
  BY RBTreeAssumption, TwoSides
<1>1. /\ E \in SUBSET Keys /\ U \in [Node -> SUBSET E] /\ P \in [Node -> Node]
      /\ t.kid[d][n] \in E \cup {NULL} /\ n \in U[n] /\ P[t.root] = NULL
      /\ \A x \in E : x \in U[t.kid[d][n]] <=> x \in U[n] /\ Before(d, x, n)
      /\ t.kid[d][n] # NULL => P[t.kid[d][n]] = n
  BY DEF Shape
<1>2. \A x \in E : x \in U[t.kid[Other(d)][n]] <=> x \in U[n] /\ Before(Other(d), x, n)
  BY <1>0 DEF Shape
<1>3. n \in Keys /\ n # NULL /\ n \in Node /\ U[n] \subseteq E
  BY <1>0, <1>1 DEF Node
<1>4. ASSUME t.kid[d][n] # NULL
      PROVE  /\ t.kid[d][n] \in E /\ t.kid[d][n] \in U[n] /\ P[t.kid[d][n]] = n
             /\ t.kid[d][n] # n /\ t.kid[d][n] # t.root
             /\ Before(d, t.kid[d][n], n) /\ n \notin U[t.kid[d][n]]
             /\ U[t.kid[d][n]] \subseteq U[n]
             /\ t.kid[Other(d)][n] # t.kid[d][n]
  <2> DEFINE c == t.kid[d][n]
  <2>1. c \in E /\ c \in Keys /\ c \in Node
    BY <1>1, <1>4 DEF Node
  <2>2. c \in U[c] /\ U[c] \subseteq E
    BY <1>1, <2>1 DEF Shape
  <2>3. c \in U[n] /\ Before(d, c, n)
    BY <1>1, <2>1, <2>2
  <2>4. ~Before(d, n, n) /\ ~(Before(d, c, n) /\ Before(Other(d), c, n))
    BY <1>3, <2>1, Order
  <2>5. c # n /\ n \notin U[c]
    BY <1>1, <2>3, <2>4
  <2>6. P[c] = n /\ c # t.root
    BY <1>1, <1>3, <1>4
  <2>7. U[c] \subseteq U[n]
    BY <1>1, <2>2
  <2>8. c \notin U[t.kid[Other(d)][n]]
    BY <1>2, <2>1, <2>3, <2>4
  <2>9. t.kid[Other(d)][n] # c
    BY <2>2, <2>8
  <2> HIDE DEF c
  <2> QED BY <2>1, <2>3, <2>5, <2>6, <2>7, <2>9 DEF c
<1> QED BY <1>1, <1>3, <1>4 DEF Node

(* A tree has its colours apart from its shape. *)
LEMMA PaintIs ==
  ASSUME NEW t \in TreeType, NEW b, NEW r \in SUBSET Keys
  PROVE  /\ Paint(t, b, r) \in TreeType /\ Paint(t, b, r).red = (t.red \ b) \cup r
         /\ Paint(t, b, r).root = t.root /\ Paint(t, b, r).kid = t.kid
BY DEF Paint, TreeType

(* Painting changes no shape. *)
LEMMA Repainted ==
  ASSUME NEW t, NEW E, NEW U, NEW P, Shape(t, E, U, P), NEW b, NEW r \in SUBSET E
  PROVE  Shape(Paint(t, b, r), E, U, P)
<1>1. t \in TreeType /\ r \in SUBSET Keys /\ t.red \subseteq E
  BY DEF Shape
<1>2. /\ Paint(t, b, r) \in TreeType /\ Paint(t, b, r).red \subseteq E
      /\ Paint(t, b, r).root = t.root /\ Paint(t, b, r).kid = t.kid
  BY <1>1, PaintIs
<1> HIDE DEF Paint
<1> QED BY <1>2 DEF Shape

(* p is the parent of n, NULL that of the root. *)
Parent(t, n, p) ==
  IF p = NULL THEN t.root = n ELSE p \in Keys /\ \E e \in Sides : t.kid[e][p] = n

(* Tree r is t with node c, or nothing, in the place of n. *)
Put(t, r, n, c) ==
  /\ r \in TreeType /\ r.red = t.red
  /\ r.root = IF t.root = n THEN c ELSE t.root
  /\ \A e \in Sides, m \in Keys : r.kid[e][m] = IF t.kid[e][m] = n THEN c ELSE t.kid[e][m]

(* Replace puts a node, or nothing, in the place of a node below its parent. *)
LEMMA ReplaceIs ==
  ASSUME NEW t, NEW E, NEW U, NEW P, Shape(t, E, U, P), NEW n \in E, NEW p,
         Parent(t, n, p), NEW c \in Node
  PROVE  Put(t, Replace(t, p, n, c), n, c)
<1>0. /\ t \in TreeType /\ n \in Keys /\ n # NULL /\ E \subseteq Keys
      /\ t.root \in Keys \cup {NULL} /\ t.red \in SUBSET Keys
      /\ t.kid \in [Sides -> [Keys -> Keys \cup {NULL}]]
      /\ t = [root |-> t.root, red |-> t.red, kid |-> t.kid]
  BY Kids, TwoSides DEF Shape, TreeType
<1>1. ASSUME NEW m \in Keys, NEW e \in Sides, t.kid[e][m] = n
      PROVE  m \in E /\ P[n] = m /\ n # t.root /\ t.kid[Other(e)][m] # n
  <2>1. m \in E
    BY <1>0, <1>1 DEF Shape
  <2> QED BY <1>0, <1>1, <2>1, Kids
<1>2. CASE p = NULL
  <2>1. t.root = n /\ Replace(t, p, n, c) = [t EXCEPT !.root = c]
    BY <1>2 DEF Parent, Replace
  <2>2. [t EXCEPT !.root = c] = [root |-> c, red |-> t.red, kid |-> t.kid]
    BY <1>0
  <2>3. [root |-> c, red |-> t.red, kid |-> t.kid] \in TreeType
    BY <1>0 DEF TreeType, Node
  <2>4. \A e \in Sides, m \in Keys : t.kid[e][m] # n
    BY <1>1, <2>1
  <2> QED BY <2>1, <2>2, <2>3, <2>4 DEF Put
<1>3. CASE p # NULL
  <2>1. PICK e \in Sides : p \in Keys /\ t.kid[e][p] = n
    BY <1>3 DEF Parent
  <2>2. SideOf(t, p, n) = e
    <3>1. t.kid[Other(e)][p] # n
      BY <1>1, <2>1
    <3>2. e = "L" \/ (e = "R" /\ Other(e) = "L")
      BY DEF Sides, Other
    <3> QED BY <2>1, <3>1, <3>2 DEF SideOf
  <2> DEFINE K == [t.kid EXCEPT ![e][p] = c]
             r == [root |-> t.root, red |-> t.red, kid |-> K]
  <2>3. Replace(t, p, n, c) = r
    <3>1. Replace(t, p, n, c) = [t EXCEPT !.kid[e][p] = c]
      BY <1>3, <2>2 DEF Replace
    <3> QED BY <1>0, <3>1
  <2>4. K \in [Sides -> [Keys -> Keys \cup {NULL}]]
    BY <1>0, <2>1 DEF Node
  <2>5. \A f \in Sides, m \in Keys : K[f][m] = IF f = e /\ m = p THEN c ELSE t.kid[f][m]
    BY <1>0, <2>1
  <2>6. r \in TreeType
    <3> HIDE DEF K
    <3> QED BY <1>0, <2>4 DEF TreeType
  <2>7. ASSUME NEW f \in Sides, NEW m \in Keys PROVE t.kid[f][m] = n <=> (f = e /\ m = p)
    <3>1. ASSUME t.kid[f][m] = n PROVE f = e /\ m = p
      <4>1. P[n] = m /\ P[n] = p /\ t.kid[Other(e)][p] # n
        BY <1>1, <2>1, <3>1
      <4>2. f # e => f = Other(e)
        BY TwoSides
      <4> QED BY <3>1, <4>1, <4>2
    <3> QED BY <2>1, <3>1
  <2>8. n # t.root
    BY <1>1, <2>1
  <2> HIDE DEF K
  <2>9. \A f \in Sides, m \in Keys : r.kid[f][m] = IF t.kid[f][m] = n THEN c ELSE t.kid[f][m]
    BY <2>5, <2>7
  <2>10. Put(t, r, n, c)
    BY <2>6, <2>8, <2>9 DEF Put
  <2> QED BY <2>3, <2>10
<1> QED BY <1>2, <1>3

(* Tree r is t after a rotation of n to side d. *)
Turned(t, r, n, d) ==
  LET up == t.kid[Other(d)][n] IN
  /\ r \in TreeType /\ r.red = t.red
  /\ r.root = IF t.root = n THEN up ELSE t.root
  /\ r.kid[d][up] = n /\ r.kid[Other(d)][up] = t.kid[Other(d)][up]
  /\ r.kid[Other(d)][n] = t.kid[d][up] /\ r.kid[d][n] = t.kid[d][n]
  /\ \A e \in Sides, m \in Keys \ {n, up} :
       r.kid[e][m] = IF t.kid[e][m] = n THEN up ELSE t.kid[e][m]

(* i_rotate_left and i_rotate_right turn the node as Turned says.            *)
LEMMA RotateIs ==
  ASSUME NEW t, NEW E, NEW U, NEW P, Shape(t, E, U, P), NEW n \in E, NEW p,
         Parent(t, n, p), NEW d \in Sides, t.kid[Other(d)][n] # NULL
  PROVE  Turned(t, Rotate(t, n, p, d), n, d)
<1> DEFINE up == t.kid[Other(d)][n]
           s == Replace(t, p, n, up)
           K == [[s.kid EXCEPT ![Other(d)][n] = t.kid[d][up]] EXCEPT ![d][up] = n]
           r == [root |-> s.root, red |-> s.red, kid |-> K]
<1>0. d \in Sides /\ Other(d) \in Sides /\ Other(d) # d /\ Other(Other(d)) = d
      /\ \A e \in Sides : e = d \/ e = Other(d)
  BY TwoSides
<1>1. up \in E /\ up # n /\ n \in Keys /\ E \subseteq Keys /\ n # NULL /\ up \in Node
  <2>1. n \in Keys /\ n # NULL /\ E \subseteq Keys
    BY Kids DEF Shape
  <2>2. t.kid[Other(d)][n] \in E /\ t.kid[Other(d)][n] # n
    BY <1>0, Kids
  <2> QED BY <2>1, <2>2 DEF Node
<1>2. t.kid[d][up] \in Node /\ t.kid[d][up] # n /\ t.kid[Other(d)][up] # n
      /\ t.kid[d][n] # n /\ up # n
  <2>1. \A e \in Sides : t.kid[e][up] \in Node /\ t.kid[e][up] # n
    <3>1. ASSUME NEW e \in Sides, t.kid[e][up] = n PROVE FALSE
      <4>1. n \in U[up] /\ n \notin U[up]
        BY <1>0, <1>1, <3>1, Kids
      <4> QED BY <4>1
    <3> QED BY <1>1, <3>1, Kids
  <2>2. t.kid[d][n] # n
    BY <1>1, Kids
  <2> QED BY <1>0, <1>1, <2>1, <2>2
<1> HIDE DEF up
<1>3. Put(t, s, n, up)
  BY <1>1, ReplaceIs
<1>4. /\ s.kid \in [Sides -> [Keys -> Keys \cup {NULL}]] /\ s.root \in Keys \cup {NULL} /\ s.red \in SUBSET Keys
      /\ s = [root |-> s.root, red |-> s.red, kid |-> s.kid]
  BY <1>3 DEF Put, TreeType
<1>5. Rotate(t, n, p, d) = r
  <2>1. Rotate(t, n, p, d) = [s EXCEPT !.kid[Other(d)][n] = t.kid[d][up], !.kid[d][up] = n]
    BY DEF Rotate, up
  <2> HIDE DEF s
  <2> QED BY <1>4, <2>1
<1> HIDE DEF s
<1>6. K \in [Sides -> [Keys -> Keys \cup {NULL}]]
  BY <1>0, <1>1, <1>2, <1>4 DEF Node
<1>7. \A e \in Sides, m \in Keys :
        K[e][m] = IF e = d /\ m = up THEN n
                  ELSE IF e = Other(d) /\ m = n THEN t.kid[d][up] ELSE s.kid[e][m]
  BY <1>0, <1>1, <1>4
<1> HIDE DEF K
<1>8. r \in TreeType
  BY <1>4, <1>6 DEF TreeType
<1>9. /\ s.root = IF t.root = n THEN up ELSE t.root
      /\ s.red = t.red
      /\ \A e \in Sides, m \in Keys : s.kid[e][m] = IF t.kid[e][m] = n THEN up ELSE t.kid[e][m]
  BY <1>3 DEF Put
<1>10. /\ K[d][up] = n /\ K[Other(d)][up] = t.kid[Other(d)][up]
       /\ K[Other(d)][n] = t.kid[d][up] /\ K[d][n] = t.kid[d][n]
  BY <1>0, <1>1, <1>2, <1>7, <1>9
<1>11. \A e \in Sides, m \in Keys \ {n, up} :
         K[e][m] = IF t.kid[e][m] = n THEN up ELSE t.kid[e][m]
  BY <1>7, <1>9
<1>12. Turned(t, r, n, d)
  BY <1>8, <1>9, <1>10, <1>11 DEF Turned, up
<1> QED BY <1>5, <1>12

(* What is below n and up after the rotation, and the parents. *)
TurnedU(t, U, n, d) ==
  LET up == t.kid[Other(d)][n]
  IN [m \in Node |-> IF m = up THEN U[n] ELSE IF m = n THEN {x \in U[n] : Before(d, x, up)} ELSE U[m]]
TurnedP(t, P, n, d) ==
  LET up == t.kid[Other(d)][n]
  IN [m \in Node |-> IF m = up THEN P[n] ELSE IF m = n THEN up
                     ELSE IF m # NULL /\ m = t.kid[d][up] THEN n ELSE P[m]]

(* A turn keeps the search order of the tree. *)
LEMMA RotateShape ==
  ASSUME NEW t, NEW E, NEW U, NEW P, Shape(t, E, U, P), NEW n \in E, NEW d \in Sides,
         t.kid[Other(d)][n] # NULL, NEW r, Turned(t, r, n, d)
  PROVE  Shape(r, E, TurnedU(t, U, n, d), TurnedP(t, P, n, d))
<1> DEFINE up == t.kid[Other(d)][n]
           V == TurnedU(t, U, n, d)
           Q == TurnedP(t, P, n, d)
<1>0. d \in Sides /\ Other(d) \in Sides /\ Other(d) # d /\ Other(Other(d)) = d
      /\ \A e \in Sides : e = d \/ e = Other(d)
  BY TwoSides
<1>1. /\ t \in TreeType /\ E \in SUBSET Keys /\ IsFiniteSet(E)
      /\ U \in [Node -> SUBSET E] /\ P \in [Node -> Node]
      /\ U[NULL] = {} /\ U[t.root] = E /\ P[t.root] = NULL
      /\ t.root \in E \cup {NULL} /\ t.red \subseteq E
      /\ \A m \in E : m \in U[m]
      /\ \A m \in Keys \ E, e \in Sides : t.kid[e][m] = NULL
  BY DEF Shape
<1>2. \A m \in E, e \in Sides :
       /\ t.kid[e][m] \in E \cup {NULL}
       /\ \A x \in E : x \in U[t.kid[e][m]] <=> x \in U[m] /\ Before(e, x, m)
       /\ t.kid[e][m] # NULL => P[t.kid[e][m]] = m
  BY DEF Shape
<1>3. NULL \notin Keys /\ NULL \notin E /\ \A m \in E : m \in Keys /\ m \in Node /\ m # NULL
  BY <1>1, RBTreeAssumption DEF Node
<1>4. up \in E /\ up # n /\ up \in U[n] /\ P[up] = n /\ Before(Other(d), up, n) /\ n \notin U[up] /\ up # t.root
  BY <1>0, Kids
<1>5. /\ r \in TreeType /\ r.red = t.red
      /\ r.root = IF t.root = n THEN up ELSE t.root
      /\ r.kid[d][up] = n /\ r.kid[Other(d)][up] = t.kid[Other(d)][up]
      /\ r.kid[Other(d)][n] = t.kid[d][up] /\ r.kid[d][n] = t.kid[d][n]
      /\ \A e \in Sides, m \in Keys \ {n, up} :
           r.kid[e][m] = IF t.kid[e][m] = n THEN up ELSE t.kid[e][m]
  BY DEF Turned
<1> HIDE DEF up
<1>6. V \in [Node -> SUBSET E]
  BY <1>1, <1>3, <1>4 DEF TurnedU, up
<1>7. /\ V[up] = U[n] /\ V[n] = {x \in U[n] : Before(d, x, up)}
      /\ \A m \in Node \ {n, up} : V[m] = U[m]
  BY <1>3, <1>4 DEF TurnedU, up
<1>8. /\ Q \in [Node -> Node] /\ Q[up] = P[n] /\ Q[n] = up
      /\ (t.kid[d][up] # NULL /\ t.kid[d][up] \notin {n, up} => Q[t.kid[d][up]] = n)
      /\ \A m \in Node \ {n, up} : m = NULL \/ m # t.kid[d][up] => Q[m] = P[m]
  <2>1. Q = [m \in Node |-> IF m = up THEN P[n] ELSE IF m = n THEN up
                            ELSE IF m # NULL /\ m = t.kid[d][up] THEN n ELSE P[m]]
    BY DEF TurnedP, up
  <2>2. n \in Node /\ up \in Node /\ t.kid[d][up] \in Node
    BY <1>0, <1>2, <1>3, <1>4 DEF Node
  <2> HIDE DEF Q
  <2>3. Q \in [Node -> Node]
    BY <1>1, <2>1, <2>2
  <2>4. \A m \in Node : Q[m] = IF m = up THEN P[n] ELSE IF m = n THEN up
                                ELSE IF m # NULL /\ m = t.kid[d][up] THEN n ELSE P[m]
    BY <2>1
  <2> QED BY <1>4, <2>2, <2>3, <2>4
<1> HIDE DEF V, Q
<1>9. \A e \in Sides : t.kid[e][up] # n /\ t.kid[e][up] # up
  BY <1>4, Kids
<1>10. t.kid[d][n] # n /\ t.kid[d][n] # up
  BY <1>0, <1>4, Kids DEF up
<1>11. Before(d, n, up)
  BY <1>0, <1>3, <1>4, Order
<1>12. ASSUME NEW m \in E, m # n, NEW e \in Sides PROVE t.kid[e][m] # up
  BY <1>2, <1>3, <1>4, <1>12
<1>13. \A m \in E : m \in V[m]
  <2>1. n \in V[n]
    BY <1>1, <1>7, <1>11
  <2>2. up \in V[up]
    BY <1>4, <1>7
  <2> QED BY <1>1, <1>3, <1>7, <2>1, <2>2
<1>14. V[NULL] = {} /\ V[r.root] = E
  BY <1>1, <1>3, <1>4, <1>5, <1>7 DEF Node
<1>15. Q[r.root] = NULL
  <2>1. CASE t.root = n
    BY <1>1, <1>5, <1>8, <2>1
  <2>2. CASE t.root # n
    <3>1. t.root # up /\ t.root \in Node /\ (t.root # NULL => t.root # t.kid[d][up])
      BY <1>1, <1>3, <1>4, Kids DEF Node
    <3> QED BY <1>1, <1>5, <1>8, <2>2, <3>1
  <2> QED BY <2>1, <2>2
<1>16. ASSUME NEW m \in E, NEW e \in Sides
       PROVE  /\ r.kid[e][m] \in E \cup {NULL}
              /\ \A x \in E : x \in V[r.kid[e][m]] <=> x \in V[m] /\ Before(e, x, m)
              /\ r.kid[e][m] # NULL => Q[r.kid[e][m]] = m
  <2>1. CASE m = up /\ e = d
    <3>1. r.kid[e][m] = n
      BY <1>5, <2>1
    <3> QED BY <1>7, <1>8, <2>1, <3>1
  <2>2. CASE m = up /\ e = Other(d)
    <3> DEFINE c == t.kid[Other(d)][up]
    <3>1. r.kid[e][m] = c /\ c \in E \cup {NULL} /\ c # n /\ c # up /\ c \in Node
      BY <1>0, <1>2, <1>3, <1>4, <1>5, <1>9, <2>2 DEF Node
    <3>2. V[c] = U[c]
      BY <1>7, <3>1
    <3>3. ASSUME NEW x \in E PROVE x \in U[c] <=> x \in U[n] /\ Before(Other(d), x, up)
      <4>1. x \in U[c] <=> x \in U[up] /\ Before(Other(d), x, up)
        BY <1>0, <1>2, <1>4
      <4>2. x \in U[up] <=> x \in U[n] /\ Before(Other(d), x, n)
        BY <1>0, <1>2 DEF up
      <4>3. Before(Other(d), x, up) => Before(Other(d), x, n)
        BY <1>0, <1>3, <1>4, Order
      <4> QED BY <4>1, <4>2, <4>3
    <3>4. c # NULL => Q[c] = m
      <4>1. c # NULL => c # t.kid[d][up]
        BY <1>0, <1>4, Kids
      <4>2. c # NULL => Q[c] = P[c] /\ P[c] = up
        BY <1>0, <1>2, <1>4, <1>8, <3>1, <4>1
      <4> QED BY <2>2, <4>2
    <3> HIDE DEF c
    <3> QED BY <1>7, <2>2, <3>1, <3>2, <3>3, <3>4
  <2>3. CASE m = n /\ e = Other(d)
    <3> DEFINE c == t.kid[d][up]
    <3>1. r.kid[e][m] = c /\ c \in E \cup {NULL} /\ c # n /\ c # up /\ c \in Node
      BY <1>0, <1>2, <1>3, <1>4, <1>5, <1>9, <2>3 DEF Node
    <3>2. V[c] = U[c]
      BY <1>7, <3>1
    <3>3. ASSUME NEW x \in E
          PROVE  x \in U[c] <=> x \in U[n] /\ Before(d, x, up) /\ Before(Other(d), x, n)
      <4>1. x \in U[c] <=> x \in U[up] /\ Before(d, x, up)
        BY <1>0, <1>2, <1>4
      <4>2. x \in U[up] <=> x \in U[n] /\ Before(Other(d), x, n)
        BY <1>0, <1>2 DEF up
      <4> QED BY <4>1, <4>2
    <3>4. c # NULL => Q[c] = m
      BY <1>8, <2>3, <3>1
    <3> HIDE DEF c
    <3> QED BY <1>7, <2>3, <3>1, <3>2, <3>3, <3>4
  <2>4. CASE m = n /\ e = d
    <3> DEFINE c == t.kid[d][n]
    <3>1. r.kid[e][m] = c /\ c \in E \cup {NULL} /\ c # n /\ c # up /\ c \in Node
      BY <1>0, <1>2, <1>3, <1>4, <1>5, <1>10, <2>4 DEF Node
    <3>2. V[c] = U[c]
      BY <1>7, <3>1
    <3>3. ASSUME NEW x \in E
          PROVE  x \in U[c] <=> x \in U[n] /\ Before(d, x, up) /\ Before(d, x, n)
      <4>1. x \in U[c] <=> x \in U[n] /\ Before(d, x, n)
        BY <1>0, <1>2
      <4>2. Before(d, x, n) => Before(d, x, up)
        BY <1>3, <1>4, <1>11, Order
      <4> QED BY <4>1, <4>2
    <3>4. c # NULL => Q[c] = m
      <4>1. c # NULL => P[c] = n
        BY <1>2
      <4>2. c # NULL => c # t.kid[d][up]
        <5>1. t.kid[d][up] # NULL => P[t.kid[d][up]] = up
          BY <1>2, <1>4
        <5> QED BY <1>4, <4>1, <5>1
      <4>3. c # NULL => Q[c] = P[c]
        BY <1>8, <3>1, <4>2
      <4> QED BY <2>4, <4>1, <4>3
    <3> HIDE DEF c
    <3> QED BY <1>7, <2>4, <3>1, <3>2, <3>3, <3>4
  <2>5. CASE m \notin {n, up}
    <3> DEFINE c == t.kid[e][m]
    <3>1. /\ m \in Keys /\ m \in Node /\ V[m] = U[m] /\ c \in E \cup {NULL} /\ c \in Node /\ c # up
          /\ r.kid[e][m] = IF c = n THEN up ELSE c
          /\ \A x \in E : x \in U[c] <=> x \in U[m] /\ Before(e, x, m)
          /\ c # NULL => P[c] = m
      BY <1>2, <1>3, <1>5, <1>7, <1>12, <2>5 DEF Node
    <3>2. c # NULL => c # t.kid[d][up]
      BY <1>2, <1>4, <2>5, <3>1
    <3> HIDE DEF c
    <3>3. CASE c = n
      BY <1>3, <1>4, <1>7, <1>8, <3>1, <3>3
    <3>4. CASE c # n
      BY <1>7, <1>8, <3>1, <3>2, <3>4
    <3> QED BY <3>3, <3>4
  <2> QED BY <1>0, <2>1, <2>2, <2>3, <2>4, <2>5
<1>17. ASSUME NEW m \in Keys \ E, NEW e \in Sides PROVE r.kid[e][m] = NULL
  BY <1>1, <1>3, <1>4, <1>5, <1>17
<1>18. r.root \in E \cup {NULL} /\ r.red \subseteq E
  BY <1>1, <1>4, <1>5
<1>19. Shape(r, E, V, Q)
  BY <1>1, <1>5, <1>6, <1>8, <1>13, <1>14, <1>15, <1>16, <1>17, <1>18 DEF Shape
<1> QED BY <1>19 DEF V, Q

(* How many black nodes n counts for.                                        *)
Weight(t, n) == IF n \in t.red THEN 0 ELSE 1

(* B[n] is the number of black nodes on every way down from n; on the way to  *)
(* side e of node y there is one less.                                       *)
Balanced(t, E, B, y, e) ==
  /\ B \in [Node -> Nat] /\ B[NULL] = 0
  /\ \A n \in E, d \in Sides :
       B[t.kid[d][n]] + (IF n = y /\ d = e THEN 1 ELSE 0) + Weight(t, n) = B[n]

(* No red node but x has a red kid but x. *)
Calm(t, x) == \A n \in t.red \ {x}, d \in Sides : t.kid[d][n] \notin t.red \ {x}

(* The first i nodes of p are a way down from the root. *)
Route(t, p, E, i) ==
  /\ i \in 1 .. Len(p) /\ p[1] = t.root
  /\ \A j \in 1 .. i : p[j] \in E
  /\ \A j \in 1 .. i - 1 : \E d \in Sides : t.kid[d][p[j]] = p[j + 1]

(* SideOf finds the side a kid is on. *)
LEMMA SideIs ==
  ASSUME NEW t, NEW n, NEW e \in Sides, NEW c, t.kid[e][n] = c, t.kid[Other(e)][n] # c
  PROVE  SideOf(t, n, c) = e
BY DEF SideOf, Sides, Other

(* A node on a route hangs from the node above it. *)
LEMMA OnRoute ==
  ASSUME NEW t, NEW E, NEW U, NEW P, Shape(t, E, U, P), NEW p, NEW i, Route(t, p, E, i), NEW j \in 1 .. i
  PROVE  /\ p[j] \in E /\ Parent(t, p[j], Above(p, j - 1)) /\ P[p[j]] = Above(p, j - 1)
         /\ j > 1 => /\ p[j - 1] \in E /\ p[j] # t.root
                     /\ \E d \in Sides : t.kid[d][p[j - 1]] = p[j]
<1>0. i \in Nat /\ E \subseteq Keys /\ P[t.root] = NULL /\ p[j] \in E /\ p[1] = t.root
  BY DEF Route, Shape
<1>1. NULL \notin Keys
  BY RBTreeAssumption
<1>2. CASE j = 1
  BY <1>0, <1>2 DEF Above, Parent
<1>3. CASE j # 1
  <2>1. j - 1 \in 1 .. i - 1 /\ j - 1 \in 1 .. i /\ j - 1 + 1 = j /\ j > 1 /\ j - 1 > 0
    BY <1>0, <1>3
  <2>2. p[j - 1] \in E
    BY <2>1 DEF Route
  <2>3. PICK d \in Sides : t.kid[d][p[j - 1]] = p[j - 1 + 1]
    BY <2>1 DEF Route
  <2>4. t.kid[d][p[j - 1]] = p[j]
    BY <2>1, <2>3
  <2>5. P[p[j]] = p[j - 1] /\ p[j] # t.root
    BY <1>0, <1>1, <2>2, <2>4, Kids
  <2>6. Above(p, j - 1) = p[j - 1] /\ p[j - 1] \in Keys /\ p[j - 1] # NULL
    BY <1>0, <1>1, <2>1, <2>2 DEF Above
  <2> QED BY <1>0, <2>1, <2>2, <2>4, <2>5, <2>6 DEF Parent
<1> QED BY <1>2, <1>3

(* Tree u is t with other colours. *)
Recolored(t, u, red) == u \in TreeType /\ u.root = t.root /\ u.kid = t.kid /\ u.red = red

(* A rotation that hands the colour of n to the red node that takes its place,  *)
(* and n that one's, keeps the balance.                                      *)
LEMMA Exchange ==
  ASSUME NEW t, NEW E, NEW U, NEW P, Shape(t, E, U, P), NEW n \in E, NEW d \in Sides,
         NEW B, NEW y, NEW e, Balanced(t, E, B, y, e),
         t.kid[Other(d)][n] \in t.red,
         y \notin {n, t.kid[Other(d)][n]} \/ (y = n /\ e = d),
         NEW u, Recolored(t, u, ((t.red \ {t.kid[Other(d)][n]}) \cup {n})
                                  \cup (IF n \in t.red THEN {t.kid[Other(d)][n]} ELSE {})),
         NEW r, Turned(u, r, n, d)
  PROVE  LET up == t.kid[Other(d)][n]
         IN Balanced(r, E, [B EXCEPT ![up] = B[n], ![n] = B[up]], y, e)
<1> DEFINE up == t.kid[Other(d)][n]
           C == [B EXCEPT ![up] = B[n], ![n] = B[up]]
<1>0. d \in Sides /\ Other(d) \in Sides /\ Other(d) # d /\ Other(Other(d)) = d
      /\ \A f \in Sides : f = d \/ f = Other(d)
  BY TwoSides
<1>1. /\ NULL \notin E /\ \A m \in E : m \in Node /\ m \in Keys
      /\ t.red \subseteq E /\ u.kid = t.kid
  <2>1. E \subseteq Keys /\ t.red \subseteq E
    BY DEF Shape
  <2>2. u.kid = t.kid
    BY DEF Recolored
  <2> QED BY <2>1, <2>2, RBTreeAssumption DEF Node
<1>2. up \in E /\ up # n /\ up # NULL
  BY <1>0, <1>1, Kids
<1>3. /\ u.red = ((t.red \ {up}) \cup {n}) \cup (IF n \in t.red THEN {up} ELSE {})
      /\ up \in t.red /\ (y \notin {n, up} \/ (y = n /\ e = d))
  BY DEF Recolored
<1>4. ASSUME NEW m \in E, NEW f \in Sides
      PROVE  /\ t.kid[f][m] \in E \cup {NULL} /\ t.kid[f][m] \in Node
             /\ B[t.kid[f][m]] + (IF m = y /\ f = e THEN 1 ELSE 0) + Weight(t, m) = B[m]
             /\ B[m] \in Nat /\ B[t.kid[f][m]] \in Nat
             /\ (m # n => t.kid[f][m] # up) /\ t.kid[f][m] # m
  <2>1. /\ t.kid[f][m] \in E \cup {NULL} /\ t.kid[f][m] \in Node
        /\ t.kid[f][m] # NULL => P[t.kid[f][m]] = m /\ t.kid[f][m] # m
    BY Kids
  <2>2. P[up] = n
    BY <1>0, <1>2, Kids
  <2>3. m # NULL
    BY <1>1
  <2> QED BY <1>1, <1>2, <2>1, <2>2, <2>3 DEF Balanced
<1>5. /\ r.red = u.red
      /\ r.kid[d][up] = n /\ r.kid[Other(d)][up] = t.kid[Other(d)][up]
      /\ r.kid[Other(d)][n] = t.kid[d][up] /\ r.kid[d][n] = t.kid[d][n]
      /\ \A f \in Sides, m \in Keys \ {n, up} :
           r.kid[f][m] = IF t.kid[f][m] = n THEN up ELSE t.kid[f][m]
  BY <1>1 DEF Turned
<1> HIDE DEF up
<1>6. B \in [Node -> Nat] /\ B[NULL] = 0
  BY DEF Balanced
<1>7. /\ C \in [Node -> Nat] /\ C[NULL] = 0 /\ C[up] = B[n] /\ C[n] = B[up]
      /\ \A m \in Node \ {n, up} : C[m] = B[m]
  BY <1>1, <1>2, <1>6 DEF Node
<1> HIDE DEF C
<1>8. /\ Weight(r, n) = 0 /\ Weight(r, up) = Weight(t, n) /\ Weight(t, up) = 0
      /\ \A m \in Node \ {n, up} : Weight(r, m) = Weight(t, m)
  BY <1>2, <1>3, <1>5 DEF Weight
<1>9. B[up] + Weight(t, n) = B[n]
  <2>1. B[up] + (IF n = y /\ Other(d) = e THEN 1 ELSE 0) + Weight(t, n) = B[n]
    BY <1>0, <1>4 DEF up
  <2>2. Weight(t, n) \in Nat /\ B[up] \in Nat
    BY <1>1, <1>2, <1>6 DEF Weight
  <2> QED BY <1>0, <1>3, <2>1, <2>2
<1>10. ASSUME NEW m \in E, NEW f \in Sides
       PROVE  C[r.kid[f][m]] + (IF m = y /\ f = e THEN 1 ELSE 0) + Weight(r, m) = C[m]
  <2>0. \A z \in Node : Weight(t, z) \in Nat /\ B[z] \in Nat
    BY <1>6 DEF Weight
  <2>1. CASE m = up /\ f = d
    <3>1. y # up
      BY <1>2, <1>3
    <3>2. C[r.kid[f][m]] = B[up] /\ C[m] = B[n] /\ Weight(r, m) = Weight(t, n)
      BY <1>5, <1>7, <1>8, <2>1
    <3> QED BY <1>1, <1>2, <1>9, <2>0, <2>1, <3>1, <3>2
  <2>2. CASE m = up /\ f = Other(d)
    <3>1. y # up
      BY <1>2, <1>3
    <3> DEFINE c == t.kid[Other(d)][up]
    <3>2. c \in Node /\ c # up
      BY <1>0, <1>2, <1>4
    <3>3. c # n
      BY <1>0, <1>2, <1>4, Kids DEF up
    <3>4. r.kid[f][m] = c /\ C[c] = B[c] /\ C[m] = B[n]
      BY <1>5, <1>7, <2>2, <3>2, <3>3
    <3>5. B[c] + 0 + Weight(t, up) = B[up]
      BY <1>0, <1>2, <1>4, <3>1
    <3> HIDE DEF c
    <3>6. Weight(r, m) = Weight(t, n) /\ Weight(t, up) = 0
      BY <1>8, <2>2
    <3> QED BY <1>1, <1>2, <1>9, <2>0, <2>2, <3>1, <3>2, <3>4, <3>5, <3>6
  <2>3. CASE m = n /\ f = Other(d)
    <3> DEFINE c == t.kid[d][up]
    <3>1. c \in Node /\ c # up
      BY <1>0, <1>2, <1>4
    <3>2. c # n
      <4>1. n \notin U[up]
        BY <1>0, <1>2, Kids DEF up
      <4>2. c # NULL => c \in U[up]
        BY <1>2, Kids
      <4> QED BY <1>1, <4>1, <4>2
    <3>3. r.kid[f][m] = c /\ C[c] = B[c] /\ C[m] = B[up] /\ Weight(r, m) = 0
      BY <1>5, <1>7, <1>8, <2>3, <3>1, <3>2
    <3>4. y # up /\ ~(m = y /\ f = e)
      BY <1>0, <1>2, <1>3, <2>3
    <3>5. B[c] + 0 + Weight(t, up) = B[up]
      BY <1>2, <1>4, <3>4
    <3> HIDE DEF c
    <3> QED BY <1>2, <1>1, <1>8, <2>0, <3>1, <3>3, <3>4, <3>5
  <2>4. CASE m = n /\ f = d
    <3> DEFINE c == t.kid[d][n]
    <3>1. c \in Node /\ c # n /\ c # up
      <4>1. c \in Node /\ c # n
        BY <1>4
      <4>2. c # up
        BY <1>0, <1>2, Kids DEF up
      <4> QED BY <4>1, <4>2
    <3>2. r.kid[f][m] = c /\ C[c] = B[c] /\ C[m] = B[up] /\ Weight(r, m) = 0
      BY <1>5, <1>7, <1>8, <2>4, <3>1
    <3>3. B[c] + (IF m = y /\ f = e THEN 1 ELSE 0) + Weight(t, n) = B[n]
      BY <1>4, <2>4
    <3> HIDE DEF c
    <3> QED BY <1>1, <1>2, <1>9, <2>0, <2>4, <3>1, <3>2, <3>3
  <2>5. CASE m \notin {n, up}
    <3> DEFINE c == t.kid[f][m]
    <3>1. c \in Node /\ c # up /\ m \in Node \ {n, up} /\ m \in Keys \ {n, up}
      BY <1>1, <1>4, <2>5
    <3>2. C[r.kid[f][m]] = B[c]
      BY <1>5, <1>7, <3>1
    <3>3. C[m] = B[m] /\ Weight(r, m) = Weight(t, m)
      BY <1>7, <1>8, <3>1
    <3> QED BY <1>4, <3>2, <3>3
  <2> QED BY <1>0, <2>1, <2>2, <2>3, <2>4, <2>5
<1>11. Balanced(r, E, C, y, e)
  BY <1>7, <1>10 DEF Balanced
<1> QED BY <1>11 DEF C, up

(* The tree while an insertion is repaired at position i of path p: the red   *)
(* node p[i] may have a red parent.                                          *)
Growing(t, i, p, E, U, P, B) ==
  /\ Shape(t, E, U, P) /\ Balanced(t, E, B, NULL, "L")
  /\ i = 0 => Calm(t, NULL) /\ t.root \notin t.red
  /\ i # 0 => /\ Route(t, p, E, i) /\ p[i] \in t.red /\ Calm(t, p[i])
              /\ \A d \in Sides : t.kid[d][p[i]] \notin t.red
              /\ i > 1 => t.root \notin t.red

GrowsTo(t, i, p, E) == \E U, P, B : Growing(t, i, p, E, U, P, B)

(* At the root the loop paints it black, and is done. *)
LEMMA GrowRoot ==
  ASSUME NEW t, NEW p, NEW E, NEW U, NEW P, NEW B, Growing(t, 1, p, E, U, P, B)
  PROVE  GrowsTo(Paint(t, {p[1]}, {}), 0, p, E)
<1> DEFINE x == p[1]
           r == Paint(t, {x}, {})
           C == [B EXCEPT ![x] = B[x] + 1]
<1>1. /\ Shape(t, E, U, P) /\ Balanced(t, E, B, NULL, "L") /\ Route(t, p, E, 1)
      /\ x \in t.red /\ Calm(t, x) /\ \A d \in Sides : t.kid[d][x] \notin t.red
  BY DEF Growing
<1>2. x = t.root /\ x \in E /\ t \in TreeType /\ E \subseteq Keys
  BY <1>1 DEF Route, Shape
<1>3. r.red = t.red \ {x} /\ r.root = t.root /\ r.kid = t.kid
  BY <1>2, PaintIs
<1>4. Shape(r, E, U, P)
  BY <1>1, Repainted
<1> HIDE DEF r, x
<1>5. Calm(r, NULL) /\ r.root \notin r.red
  BY <1>1, <1>2, <1>3 DEF Calm
<1>6. /\ B \in [Node -> Nat] /\ B[NULL] = 0 /\ x \in Node /\ NULL \notin E /\ \A m \in E : m \in Node
      /\ \A n \in E, d \in Sides : /\ B[t.kid[d][n]] + 0 + Weight(t, n) = B[n]
                                   /\ t.kid[d][n] # x /\ t.kid[d][n] \in Node
  <2>1. NULL \notin E /\ \A m \in E : m \in Node
    BY <1>2, RBTreeAssumption DEF Node
  <2>2. \A n \in E, d \in Sides : t.kid[d][n] # x /\ t.kid[d][n] \in Node
    BY <1>1, <1>2, <2>1, Kids
  <2> QED BY <1>1, <1>2, <2>1, <2>2 DEF Balanced
<1>7. C \in [Node -> Nat] /\ C[NULL] = 0 /\ C[x] = B[x] + 1 /\ \A m \in Node \ {x} : C[m] = B[m]
  BY <1>2, <1>6
<1> HIDE DEF C
<1>8. ASSUME NEW n \in E, NEW d \in Sides
      PROVE  C[r.kid[d][n]] + 0 + Weight(r, n) = C[n]
  <2>1. C[r.kid[d][n]] = B[t.kid[d][n]] /\ B[t.kid[d][n]] \in Nat
    BY <1>3, <1>6, <1>7
  <2>2. CASE n = x
    BY <1>1, <1>3, <1>6, <1>7, <2>1, <2>2 DEF Weight
  <2>3. CASE n # x
    BY <1>3, <1>6, <1>7, <2>1, <2>3 DEF Weight
  <2> QED BY <2>2, <2>3
<1>9. Balanced(r, E, C, NULL, "L")
  BY <1>6, <1>7, <1>8 DEF Balanced
<1>10. Growing(r, 0, p, E, U, P, C)
  BY <1>4, <1>5, <1>9 DEF Growing
<1> QED BY <1>10 DEF GrowsTo, r, x

(* Below a black parent it is done. *)
LEMMA GrowStop ==
  ASSUME NEW t, NEW p, NEW i \in Nat, i > 1, NEW E, NEW U, NEW P, NEW B, Growing(t, i, p, E, U, P, B),
         p[i - 1] \notin t.red
  PROVE  GrowsTo(t, 0, p, E)
<1>1. /\ Shape(t, E, U, P) /\ Balanced(t, E, B, NULL, "L") /\ Route(t, p, E, i)
      /\ p[i] \in t.red /\ Calm(t, p[i]) /\ t.root \notin t.red
      /\ \A d \in Sides : t.kid[d][p[i]] \notin t.red
  BY DEF Growing
<1>2. P[p[i]] = p[i - 1] /\ t.red \subseteq E
  <2>1. i \in 1 .. i
    OBVIOUS
  <2>2. P[p[i]] = Above(p, i - 1)
    BY <1>1, <2>1, OnRoute
  <2> QED BY <1>1, <2>2 DEF Above, Shape
<1>3. ASSUME NEW n \in t.red, NEW d \in Sides, t.kid[d][n] \in t.red PROVE FALSE
  <2>1. n # p[i]
    BY <1>1, <1>3
  <2>2. t.kid[d][n] = p[i]
    BY <1>1, <1>3, <2>1 DEF Calm
  <2>3. p[i] # NULL
    <3>1. E \subseteq Keys
      BY <1>1 DEF Shape
    <3> QED BY <1>1, <1>2, <3>1, RBTreeAssumption
  <2>4. P[t.kid[d][n]] = n
    BY <1>1, <1>2, <2>2, <2>3, Kids
  <2> QED BY <1>2, <2>2, <2>4
<1>4. Calm(t, NULL)
  BY <1>3 DEF Calm
<1>5. Growing(t, 0, p, E, U, P, B)
  BY <1>1, <1>4 DEF Growing
<1> QED BY <1>5 DEF GrowsTo

(* A red uncle moves the trouble two nodes up. *)
LEMMA GrowUncle ==
  ASSUME NEW t, NEW p, NEW i \in Nat, i > 2, NEW E, NEW U, NEW P, NEW B, Growing(t, i, p, E, U, P, B),
         NEW d \in Sides, t.kid[d][p[i - 2]] = p[i - 1],
         p[i - 2] \notin t.red, p[i - 1] \in t.red, t.kid[Other(d)][p[i - 2]] \in t.red
  PROVE  GrowsTo(Paint(t, {p[i - 1], t.kid[Other(d)][p[i - 2]]}, {p[i - 2]}), i - 2, p, E)
<1> DEFINE x == p[i]
           parent == p[i - 1]
           grand == p[i - 2]
           uncle == t.kid[Other(d)][grand]
           r == Paint(t, {parent, uncle}, {grand})
           C == [B EXCEPT ![parent] = B[parent] + 1, ![uncle] = B[uncle] + 1]
<1>0. Other(d) \in Sides /\ Other(d) # d /\ \A f \in Sides : f = d \/ f = Other(d)
  BY TwoSides
<1>1. /\ Shape(t, E, U, P) /\ Balanced(t, E, B, NULL, "L") /\ Route(t, p, E, i)
      /\ x \in t.red /\ Calm(t, x) /\ t.root \notin t.red
      /\ \A e \in Sides : t.kid[e][x] \notin t.red
  BY DEF Growing
<1>2. /\ t \in TreeType /\ t.red \subseteq E /\ E \subseteq Keys /\ NULL \notin E
      /\ \A m \in E : m \in Node
  BY <1>1, RBTreeAssumption DEF Shape, Node
<1>3. grand \in E /\ parent \in t.red /\ uncle \in t.red /\ grand \notin t.red
  <2>1. i - 2 \in 1 .. i
    OBVIOUS
  <2> QED BY <1>1, <2>1 DEF Route
<1>4. P[x] = parent
  <2>1. i \in 1 .. i /\ i - 1 > 0
    OBVIOUS
  <2>2. P[p[i]] = Above(p, i - 1)
    BY <1>1, <2>1, OnRoute
  <2> QED BY <2>1, <2>2 DEF Above
<1>5. P[parent] = grand /\ P[uncle] = grand /\ parent # uncle
  BY <1>0, <1>1, <1>2, <1>3, Kids
<1>6. t.kid[d][grand] = parent /\ t.kid[Other(d)][grand] = uncle
  OBVIOUS
<1>7. r.red = (t.red \ {parent, uncle}) \cup {grand} /\ r.root = t.root /\ r.kid = t.kid
  <2>1. {grand} \in SUBSET Keys
    BY <1>2, <1>3
  <2> QED BY <1>2, <2>1, PaintIs
<1>8. Shape(r, E, U, P)
  <2>1. {grand} \in SUBSET E
    BY <1>3
  <2> QED BY <1>1, <2>1, Repainted
<1>9. Route(r, p, E, i - 2)
  <2>1. i - 2 \in 1 .. Len(p) /\ \A j \in 1 .. i - 2 : j \in 1 .. i
    BY <1>1 DEF Route
  <2>2. \A j \in 1 .. (i - 2) - 1 : j \in 1 .. i - 1
    OBVIOUS
  <2> HIDE DEF r
  <2> QED BY <1>1, <1>7, <2>1, <2>2 DEF Route
<1>10. i - 2 > 1 => r.root \notin r.red
  <2>1. ASSUME i - 2 > 1 PROVE t.root # grand
    <3>1. i - 2 \in 1 .. i
      OBVIOUS
    <3> QED BY <1>1, <2>1, <3>1, OnRoute
  <2> HIDE DEF r
  <2> QED BY <1>1, <1>7, <2>1
<1> HIDE DEF r, x, parent, grand, uncle
<1>11. ASSUME NEW m \in E, NEW f \in Sides
       PROVE  /\ t.kid[f][m] \in E \cup {NULL} /\ t.kid[f][m] \in Node
              /\ B[t.kid[f][m]] \in Nat /\ B[m] \in Nat
              /\ B[t.kid[f][m]] + 0 + Weight(t, m) = B[m]
              /\ t.kid[f][m] # NULL => P[t.kid[f][m]] = m
  <2>1. t.kid[f][m] \in E \cup {NULL} /\ t.kid[f][m] \in Node
        /\ (t.kid[f][m] # NULL => P[t.kid[f][m]] = m)
    BY <1>1, Kids
  <2> QED BY <1>1, <1>2, <2>1 DEF Balanced
<1>12. B \in [Node -> Nat] /\ B[NULL] = 0
  BY <1>1 DEF Balanced
<1>13. /\ C \in [Node -> Nat] /\ C[NULL] = 0 /\ C[parent] = B[parent] + 1 /\ C[uncle] = B[uncle] + 1
       /\ \A m \in Node \ {parent, uncle} : C[m] = B[m]
  <2>1. parent \in Node /\ uncle \in Node /\ parent # NULL /\ uncle # NULL
    BY <1>2, <1>3
  <2>0. NULL \in Node
    BY DEF Node
  <2>6. C \in [Node -> Nat]
    BY <1>12, <2>1
  <2>7. C[NULL] = B[NULL]
    BY <1>12, <2>0, <2>1
  <2>2. C \in [Node -> Nat] /\ C[NULL] = B[NULL]
    BY <2>6, <2>7
  <2>3. C[parent] = B[parent] + 1
    BY <1>5, <1>12, <2>1
  <2>4. C[uncle] = B[uncle] + 1
    BY <1>5, <1>12, <2>1
  <2>5. \A m \in Node \ {parent, uncle} : C[m] = B[m]
    BY <1>12
  <2> HIDE DEF C
  <2> QED BY <1>12, <2>2, <2>3, <2>4, <2>5
<1> HIDE DEF C
<1>14. ASSUME NEW m \in E, NEW f \in Sides
       PROVE  C[r.kid[f][m]] + 0 + Weight(r, m) = C[m]
  <2>1. CASE m = grand
    <3>1. t.kid[f][m] \in {parent, uncle}
      BY <1>0, <1>6, <2>1
    <3>2. C[r.kid[f][m]] = B[t.kid[f][m]] + 1
      BY <1>7, <1>13, <3>1
    <3>3. Weight(r, m) = 0 /\ Weight(t, m) = 1 /\ C[m] = B[m]
      BY <1>2, <1>3, <1>7, <1>13, <2>1 DEF Weight
    <3> QED BY <1>11, <3>2, <3>3
  <2>2. CASE m # grand
    <3>1. t.kid[f][m] \notin {parent, uncle}
      BY <1>2, <1>3, <1>5, <1>11, <2>2
    <3>2. C[r.kid[f][m]] = B[t.kid[f][m]]
      BY <1>7, <1>11, <1>13, <3>1
    <3>3. CASE m \in {parent, uncle}
      <4>1. Weight(r, m) = 1 /\ Weight(t, m) = 0 /\ C[m] = B[m] + 1
        BY <1>3, <1>7, <1>13, <2>2, <3>3 DEF Weight
      <4> QED BY <1>11, <3>2, <4>1
    <3>4. CASE m \notin {parent, uncle}
      <4>1. Weight(r, m) = Weight(t, m) /\ C[m] = B[m]
        BY <1>2, <1>7, <1>13, <2>2, <3>4 DEF Weight
      <4> QED BY <1>11, <3>2, <4>1
    <3> QED BY <3>3, <3>4
  <2> QED BY <2>1, <2>2
<1>15. Balanced(r, E, C, NULL, "L")
  BY <1>2, <1>13, <1>14 DEF Balanced
<1>16. Calm(r, grand)
  <2>1. ASSUME NEW m \in r.red \ {grand}, NEW f \in Sides, r.kid[f][m] \in r.red \ {grand} PROVE FALSE
    <3>1. m \in t.red \ {parent, uncle} /\ t.kid[f][m] \in t.red \ {parent, uncle}
      BY <1>7, <2>1
    <3>2. m # x
      BY <1>1, <3>1
    <3>3. t.kid[f][m] = x
      BY <1>1, <3>1, <3>2 DEF Calm
    <3>4. P[x] = m
      BY <1>2, <1>11, <3>1, <3>3
    <3> QED BY <1>4, <3>1, <3>4
  <2> QED BY <2>1 DEF Calm
<1>17. grand \in r.red /\ \A f \in Sides : r.kid[f][grand] \notin r.red
  <2>1. parent # grand /\ uncle # grand
    BY <1>3
  <2> QED BY <1>0, <1>6, <1>7, <2>1
<1>18. Growing(r, i - 2, p, E, U, P, C)
  <2>1. i - 2 # 0 /\ grand = p[i - 2]
    BY DEF grand
  <2> QED BY <1>8, <1>9, <1>10, <1>15, <1>16, <1>17, <2>1 DEF Growing
<1> QED BY <1>18 DEF GrowsTo, r, parent, grand, uncle

(* Two red nodes, upper and its kid lower, are in a line below n, or not.     *)
Straight(t, f, n, upper, lower) ==
  /\ upper = t.kid[Other(f)][n] /\ lower = t.kid[Other(f)][upper]
  /\ n \notin t.red /\ upper \in t.red /\ lower \in t.red
  /\ t.kid[f][upper] \notin t.red /\ t.kid[f][n] \notin t.red
  /\ \A e \in Sides : t.kid[e][lower] \notin t.red
Bent(t, d, n, upper, lower) ==
  /\ upper = t.kid[d][n] /\ lower = t.kid[Other(d)][upper]
  /\ n \notin t.red /\ upper \in t.red /\ lower \in t.red
  /\ t.kid[Other(d)][n] \notin t.red
  /\ \A e \in Sides : t.kid[e][lower] \notin t.red

(* The last rotation of an insertion, when the two red nodes are in a line.   *)
LEMMA GrowLine ==
  ASSUME NEW t, NEW p, NEW E, NEW U, NEW P, NEW B, Shape(t, E, U, P),
         Balanced(t, E, B, NULL, "L"), t.root \notin t.red,
         NEW n \in E, NEW f \in Sides, NEW upper, NEW lower, Straight(t, f, n, upper, lower),
         Calm(t, lower), NEW q, Parent(t, n, q)
  PROVE  GrowsTo(Rotate(Paint(t, {upper}, {n}), n, q, f), 0, p, E)
<1> DEFINE u == Paint(t, {upper}, {n})
           r == Rotate(u, n, q, f)
           C == [B EXCEPT ![upper] = B[n], ![n] = B[upper]]
<1>0. Other(f) \in Sides /\ Other(f) # f /\ Other(Other(f)) = f /\ \A e \in Sides : e = f \/ e = Other(f)
  BY TwoSides
<1>1. /\ t \in TreeType /\ t.red \subseteq E /\ E \subseteq Keys /\ NULL \notin E
      /\ \A m \in E : m \in Node
  BY RBTreeAssumption DEF Shape, Node
<1>a. upper = t.kid[Other(f)][n] /\ lower = t.kid[Other(f)][upper]
  BY DEF Straight
<1>b. /\ n \notin t.red /\ upper \in t.red /\ lower \in t.red
      /\ t.kid[f][upper] \notin t.red /\ t.kid[f][n] \notin t.red
      /\ \A e \in Sides : t.kid[e][lower] \notin t.red
  BY Zenon DEF Straight
<1>2. /\ upper # n /\ lower # n /\ lower # upper /\ n # NULL /\ upper # NULL /\ lower # NULL
      /\ upper \in E
  <2>1. upper \in E /\ lower \in E /\ n # NULL /\ upper # NULL /\ lower # NULL
    BY <1>1, <1>b
  <2>2. t.kid[Other(f)][upper] # NULL => t.kid[Other(f)][upper] # upper
    BY <1>0, <2>1, Kids
  <2> QED BY <1>a, <1>b, <2>1, <2>2, Zenon
<1>3. P[upper] = n /\ P[lower] = upper
  <2>1. \A m \in E, e \in Sides : t.kid[e][m] # NULL => P[t.kid[e][m]] = m
    BY Kids
  <2> QED BY <1>0, <1>2, <1>a, <2>1
<1>4. u \in TreeType /\ u.red = (t.red \ {upper}) \cup {n} /\ u.root = t.root /\ u.kid = t.kid
  <2>1. {n} \in SUBSET Keys
    BY <1>1
  <2> QED BY <1>1, <2>1, PaintIs
<1>5. Shape(u, E, U, P)
  <2>1. {n} \in SUBSET E
    OBVIOUS
  <2> QED BY <2>1, Repainted
<1>6. Parent(u, n, q)
  BY <1>4 DEF Parent
<1> HIDE DEF u
<1>7. Turned(u, r, n, f)
  BY <1>2, <1>4, <1>5, <1>6, <1>a, RotateIs
<1> HIDE DEF r
<1>8. Shape(r, E, TurnedU(u, U, n, f), TurnedP(u, P, n, f))
  BY <1>2, <1>4, <1>5, <1>7, <1>a, RotateShape
<1>9. Balanced(r, E, C, NULL, "L")
  <2>1. Recolored(t, u, ((t.red \ {upper}) \cup {n}) \cup (IF n \in t.red THEN {upper} ELSE {}))
    BY <1>4, <1>b DEF Recolored
  <2>2. NULL \notin {n, upper}
    BY <1>2
  <2> HIDE DEF C
  <2>3. /\ t.kid[Other(f)][n] \in t.red
        /\ (NULL \notin {n, t.kid[Other(f)][n]} \/ (NULL = n /\ "L" = f))
        /\ Recolored(t, u, ((t.red \ {t.kid[Other(f)][n]}) \cup {n})
                                  \cup (IF n \in t.red THEN {t.kid[Other(f)][n]} ELSE {}))
    BY <1>a, <1>b, <2>1, <2>2, Zenon
  <2>4. Balanced(r, E, [B EXCEPT ![t.kid[Other(f)][n]] = B[n], ![n] = B[t.kid[Other(f)][n]]], NULL, "L")
    BY <1>7, <2>3, Exchange
  <2> QED BY <1>a, <2>4 DEF C
<1>10. /\ r.red = (t.red \ {upper}) \cup {n}
       /\ r.root = IF t.root = n THEN upper ELSE t.root
       /\ r.kid[Other(f)][n] = t.kid[f][upper] /\ r.kid[f][n] = t.kid[f][n]
       /\ \A e \in Sides, m \in Keys \ {n, upper} :
            r.kid[e][m] = IF t.kid[e][m] = n THEN upper ELSE t.kid[e][m]
  BY <1>4, <1>7, <1>a DEF Turned
<1>11. \A m \in E, e \in Sides : t.kid[e][m] # NULL => P[t.kid[e][m]] = m
  BY Kids
<1>12. \A e \in Sides : t.kid[e][n] # n /\ t.kid[e][upper] # n
  <2>1. \A e \in Sides : t.kid[e][n] # n
    BY <1>2, Kids
  <2>2. n \notin U[upper]
    BY <1>0, <1>2, <1>a, Kids
  <2>3. \A e \in Sides : t.kid[e][upper] # NULL => t.kid[e][upper] \in U[upper]
    BY <1>2, Kids
  <2> QED BY <1>2, <2>1, <2>2, <2>3
<1>13. ASSUME NEW m \in r.red, NEW e \in Sides, r.kid[e][m] \in r.red PROVE FALSE
  <2>1. CASE m = n
    <3>1. r.kid[e][m] \in {t.kid[f][upper], t.kid[f][n]}
      BY <1>0, <1>10, <2>1
    <3> QED BY <1>10, <1>12, <1>13, <1>b, <3>1
  <2>2. CASE m # n
    <3>1. m \in t.red /\ m # upper /\ m \in E /\ m \in Keys \ {n, upper}
      BY <1>1, <1>10, <1>13, <2>2
    <3>2. t.kid[e][m] # n
      BY <1>2, <1>10, <1>13, <3>1
    <3>3. t.kid[e][m] \in t.red /\ t.kid[e][m] # upper
      BY <1>10, <1>13, <3>1, <3>2
    <3>4. t.kid[e][m] # lower
      BY <1>2, <1>3, <1>11, <3>1
    <3>5. m # lower
      BY <1>b, <3>3
    <3> QED BY <3>1, <3>3, <3>4, <3>5 DEF Calm
  <2> QED BY <2>1, <2>2
<1>14. Calm(r, NULL)
  BY <1>13 DEF Calm
<1>15. r.root \notin r.red
  BY <1>2, <1>10
<1>16. Growing(r, 0, p, E, TurnedU(u, U, n, f), TurnedP(u, P, n, f), C)
  BY <1>8, <1>9, <1>14, <1>15 DEF Growing
<1> HIDE DEF C
<1> QED BY <1>16 DEF GrowsTo, r, u

(* What the rotation before it leaves.                                        *)
InLine(r, E, d, n, lower, upper, q) ==
  \E V, Q, C :
    /\ Shape(r, E, V, Q) /\ Balanced(r, E, C, NULL, "L") /\ r.root \notin r.red
    /\ Straight(r, Other(d), n, upper, lower) /\ Calm(r, lower) /\ Parent(r, n, q)

(* It brings them in a line.                                                 *)
LEMMA GrowInner ==
  ASSUME NEW t, NEW E, NEW U, NEW P, NEW B, Shape(t, E, U, P),
         Balanced(t, E, B, NULL, "L"), t.root \notin t.red,
         NEW grand \in E, NEW d \in Sides, NEW parent, NEW x, Bent(t, d, grand, parent, x),
         Calm(t, x), NEW q, Parent(t, grand, q)
  PROVE  InLine(Rotate(t, parent, grand, d), E, d, grand, parent, x, q)
<1> DEFINE r == Rotate(t, parent, grand, d)
           C == [B EXCEPT ![x] = B[parent], ![parent] = B[x]]
<1>0. Other(d) \in Sides /\ Other(d) # d /\ Other(Other(d)) = d /\ \A e \in Sides : e = d \/ e = Other(d)
  BY TwoSides
<1>1. /\ t \in TreeType /\ t.red \subseteq E /\ E \subseteq Keys /\ NULL \notin E
      /\ \A m \in E : m \in Node
  BY RBTreeAssumption DEF Shape, Node
<1>a. parent = t.kid[d][grand] /\ x = t.kid[Other(d)][parent]
  BY Zenon DEF Bent
<1>b. /\ grand \notin t.red /\ parent \in t.red /\ x \in t.red
      /\ t.kid[Other(d)][grand] \notin t.red
      /\ \A e \in Sides : t.kid[e][x] \notin t.red
  BY Zenon DEF Bent
<1>2. parent \in E /\ x \in E /\ parent # NULL /\ x # NULL /\ grand # NULL /\ grand \in Keys
  BY <1>1, <1>b
<1>3. P[parent] = grand /\ P[x] = parent /\ parent # t.root /\ grand \notin U[parent] /\ x \in U[parent]
      /\ U[x] \subseteq U[parent] /\ grand # parent /\ x # parent
  <2>1. \A n \in E, e \in Sides : t.kid[e][n] # NULL =>
          /\ P[t.kid[e][n]] = n /\ t.kid[e][n] \in U[n] /\ U[t.kid[e][n]] \subseteq U[n]
          /\ t.kid[e][n] # n /\ t.kid[e][n] # t.root /\ n \notin U[t.kid[e][n]]
    BY Kids
  <2>2. P[parent] = grand /\ parent # t.root /\ grand \notin U[parent] /\ grand # parent
    BY <1>2, <1>a, <2>1, Zenon
  <2>3. P[x] = parent /\ x \in U[parent] /\ U[x] \subseteq U[parent] /\ x # parent
    BY <1>0, <1>2, <1>a, <2>1, Zenon
  <2> QED BY <1>b, <2>2, <2>3
<1>4. grand # x
  BY <1>3
<1>5. Parent(t, parent, grand)
  BY <1>2, <1>a DEF Parent
<1>6. Turned(t, r, parent, d)
  <2>1. t.kid[Other(d)][parent] # NULL
    BY <1>2, <1>a, Zenon
  <2> QED BY <1>2, <1>5, <2>1, RotateIs
<1> HIDE DEF r
<1>7. Shape(r, E, TurnedU(t, U, parent, d), TurnedP(t, P, parent, d))
  <2>1. t.kid[Other(d)][parent] # NULL
    BY <1>2, <1>a, Zenon
  <2> QED BY <1>2, <1>6, <2>1, RotateShape
<1>8. Balanced(r, E, C, NULL, "L")
  <2>1. Recolored(t, t, ((t.red \ {x}) \cup {parent}) \cup (IF parent \in t.red THEN {x} ELSE {}))
    BY <1>1, <1>b DEF Recolored
  <2> HIDE DEF C
  <2>2. /\ t.kid[Other(d)][parent] \in t.red
        /\ (NULL \notin {parent, t.kid[Other(d)][parent]} \/ (NULL = parent /\ "L" = d))
        /\ Recolored(t, t, ((t.red \ {t.kid[Other(d)][parent]}) \cup {parent})
                                  \cup (IF parent \in t.red THEN {t.kid[Other(d)][parent]} ELSE {}))
    BY <1>2, <1>a, <1>b, <2>1, Zenon
  <2>3. Balanced(r, E, [B EXCEPT ![t.kid[Other(d)][parent]] = B[parent],
                                 ![parent] = B[t.kid[Other(d)][parent]]], NULL, "L")
    BY <1>2, <1>6, <2>2, Exchange
  <2> QED BY <1>a, <2>3, Zenon DEF C
<1> HIDE DEF C
<1>9. /\ r.red = t.red
      /\ r.root = IF t.root = parent THEN x ELSE t.root
      /\ r.kid[d][x] = parent /\ r.kid[Other(d)][x] = t.kid[Other(d)][x]
      /\ r.kid[Other(d)][parent] = t.kid[d][x] /\ r.kid[d][parent] = t.kid[d][parent]
      /\ \A e \in Sides, m \in Keys \ {parent, x} :
           r.kid[e][m] = IF t.kid[e][m] = parent THEN x ELSE t.kid[e][m]
  <2>1. LET up == t.kid[Other(d)][parent]
        IN /\ r.red = t.red
           /\ r.root = IF t.root = parent THEN up ELSE t.root
           /\ r.kid[d][up] = parent /\ r.kid[Other(d)][up] = t.kid[Other(d)][up]
           /\ r.kid[Other(d)][parent] = t.kid[d][up] /\ r.kid[d][parent] = t.kid[d][parent]
           /\ \A e \in Sides, m \in Keys \ {parent, up} :
                r.kid[e][m] = IF t.kid[e][m] = parent THEN up ELSE t.kid[e][m]
    BY <1>6 DEF Turned
  <2> QED BY <1>a, <2>1, Zenon
<1>10. \A m \in E, e \in Sides : t.kid[e][m] # NULL => P[t.kid[e][m]] = m
  BY Kids
<1>11. r.root \notin r.red
  BY <1>3, <1>9
<1>12. r.kid[d][grand] = x /\ r.kid[Other(d)][grand] \notin t.red
  <2>1. grand \in Keys \ {parent, x}
    BY <1>2, <1>3, <1>4
  <2>2. t.kid[Other(d)][grand] # parent
    BY <1>b
  <2> QED BY <1>0, <1>9, <1>a, <1>b, <2>1, <2>2, Zenon
<1>13. r.kid[Other(d)][x] \notin t.red
  BY <1>0, <1>9, <1>b
<1>14. ASSUME NEW e \in Sides PROVE r.kid[e][parent] \notin t.red
  <2>1. t.kid[d][parent] # NULL => t.kid[d][parent] # t.kid[Other(d)][parent]
    BY <1>0, <1>2, Kids
  <2>2. t.kid[d][parent] \notin t.red
    <3>1. t.kid[d][parent] # x
      BY <1>2, <1>a, <2>1
    <3> QED BY <1>3, <1>b, <3>1 DEF Calm
  <2> QED BY <1>0, <1>9, <1>b, <2>2
<1>15. ASSUME NEW m \in r.red \ {parent}, NEW e \in Sides, r.kid[e][m] \in r.red \ {parent} PROVE FALSE
  <2>1. CASE m = x
    BY <1>0, <1>9, <1>13, <1>15, <2>1
  <2>2. CASE m # x
    <3>1. m \in t.red /\ m \in E /\ m \in Keys \ {parent, x}
      BY <1>1, <1>9, <1>15, <2>2
    <3>2. t.kid[e][m] # parent
      <4>1. t.kid[e][m] # NULL => P[t.kid[e][m]] = m
        BY <1>10, <3>1
      <4>2. m # grand
        BY <1>b, <3>1
      <4> QED BY <1>2, <1>3, <4>1, <4>2
    <3>3. t.kid[e][m] \in t.red /\ t.kid[e][m] # parent
      BY <1>9, <1>15, <3>1, <3>2
    <3>4. t.kid[e][m] # x
      <4>1. t.kid[e][m] # NULL => P[t.kid[e][m]] = m
        BY <1>10, <3>1
      <4> QED BY <1>2, <1>3, <3>1, <4>1
    <3> QED BY <2>2, <3>1, <3>3, <3>4 DEF Calm
  <2> QED BY <2>1, <2>2
<1>16. Calm(r, parent)
  BY <1>15 DEF Calm
<1>17. Parent(r, grand, q)
  <2>1. CASE q = NULL
    <3>1. t.root = grand
      BY <2>1 DEF Parent
    <3> QED BY <1>3, <1>9, <2>1, <3>1 DEF Parent
  <2>2. CASE q # NULL
    <3>1. PICK e \in Sides : q \in Keys /\ t.kid[e][q] = grand
      BY <2>2 DEF Parent
    <3>2. q \in E
      BY <1>2, <3>1 DEF Shape
    <3>3. grand \in U[q]
      BY <1>2, <3>1, <3>2, Kids
    <3>4. q # x /\ q # parent
      BY <1>3, <3>3
    <3>5. r.kid[e][q] = grand
      <4>1. r.kid[e][q] = IF t.kid[e][q] = parent THEN x ELSE t.kid[e][q]
        <5>1. q \in Keys \ {parent, x} /\ e \in Sides
          BY <3>1, <3>4
        <5> QED BY <1>9, <5>1, Zenon
      <4> QED BY <1>3, <3>1, <4>1
    <3> QED BY <2>2, <3>1, <3>5 DEF Parent
  <2> QED BY <2>1, <2>2
<1>18. Straight(r, Other(d), grand, x, parent)
  <2>1. /\ x = r.kid[Other(Other(d))][grand] /\ parent = r.kid[Other(Other(d))][x]
        /\ grand \notin r.red /\ x \in r.red /\ parent \in r.red
        /\ r.kid[Other(d)][x] \notin r.red /\ r.kid[Other(d)][grand] \notin r.red
    BY <1>0, <1>9, <1>12, <1>13, <1>b
  <2>2. \A e \in Sides : r.kid[e][parent] \notin r.red
    BY <1>9, <1>14
  <2> QED BY <2>1, <2>2, Zenon DEF Straight
<1> DEFINE V == TurnedU(t, U, parent, d)
           Q == TurnedP(t, P, parent, d)
<1>19. /\ Shape(r, E, V, Q) /\ Balanced(r, E, C, NULL, "L") /\ r.root \notin r.red
       /\ Straight(r, Other(d), grand, x, parent) /\ Calm(r, parent) /\ Parent(r, grand, q)
  BY <1>7, <1>8, <1>11, <1>16, <1>17, <1>18
<1> HIDE DEF V, Q
<1>20. InLine(r, E, d, grand, parent, x, q)
  BY <1>19 DEF InLine
<1> QED BY <1>20 DEF r

-----------------------------------------------------------------------------
(* The loop of i_restructure_after_insert                                   *)

(* A round keeps what the loop needs, and comes closer to the root.          *)
LEMMA InsertRoundKeeps ==
  ASSUME NEW t, NEW i \in Nat, NEW p, NEW E, GrowsTo(t, i, p, E),
         NEW r, r = InsertRound(p, [tree |-> t, at |-> i])
  PROVE  /\ GrowsTo(r.tree, r.at, p, E) /\ r.at \in Nat /\ r = [tree |-> r.tree, at |-> r.at]
         /\ r.at <= i /\ (i # 0 => r.at < i)
<1> DEFINE parent == p[i - 1]
           grand == p[i - 2]
           d == SideOf(t, grand, parent)
           uncle == t.kid[Other(d)][grand]
           inner == p[i] = t.kid[Other(d)][parent]
           upper == IF inner THEN p[i] ELSE parent
           turned == IF inner THEN Rotate(t, parent, grand, d) ELSE t
           last == Rotate(Paint(turned, {upper}, {grand}), grand, Above(p, i - 3), Other(d))
<1>1. r = IF i = 0 THEN [tree |-> t, at |-> i]
          ELSE IF i = 1 THEN [tree |-> Paint(t, {p[1]}, {}), at |-> 0]
          ELSE IF parent \notin t.red THEN [tree |-> t, at |-> 0]
          ELSE IF uncle \in t.red THEN [tree |-> Paint(t, {parent, uncle}, {grand}), at |-> i - 2]
          ELSE [tree |-> last, at |-> 0]
  BY DEF InsertRound, IsRed
<1>2. PICK U, P, B : Growing(t, i, p, E, U, P, B)
  BY DEF GrowsTo
<1>3. CASE i = 0
  <2>1. r = [tree |-> t, at |-> 0]
    BY <1>1, <1>3
  <2> QED BY <1>3, <2>1
<1>4. CASE i = 1
  <2>1. r = [tree |-> Paint(t, {p[1]}, {}), at |-> 0]
    BY <1>1, <1>4
  <2>2. GrowsTo(Paint(t, {p[1]}, {}), 0, p, E)
    BY <1>2, <1>4, GrowRoot
  <2> QED BY <1>4, <2>1, <2>2
<1>5. CASE i > 1 /\ parent \notin t.red
  <2>1. r = [tree |-> t, at |-> 0]
    BY <1>1, <1>5
  <2>2. GrowsTo(t, 0, p, E)
    BY <1>2, <1>5, GrowStop
  <2> QED BY <1>5, <2>1, <2>2
<1>6. CASE i > 1 /\ parent \in t.red
  <2>1. /\ Shape(t, E, U, P) /\ Balanced(t, E, B, NULL, "L") /\ Route(t, p, E, i)
        /\ p[i] \in t.red /\ Calm(t, p[i]) /\ t.root \notin t.red
        /\ \A e \in Sides : t.kid[e][p[i]] \notin t.red
    BY <1>2, <1>6 DEF Growing
  <2>2. /\ t \in TreeType /\ t.red \subseteq E /\ E \subseteq Keys /\ NULL \notin E
    BY <2>1, RBTreeAssumption DEF Shape
  <2>3. i > 2
    <3>1. p[1] = t.root
      BY <2>1 DEF Route
    <3>2. i - 1 # 1
      BY <1>6, <2>1, <3>1
    <3> QED BY <1>6, <3>2
  <2>4. i \in 1 .. i /\ i - 1 \in 1 .. i /\ i - 2 \in 1 .. i /\ i - 1 > 1
        /\ (i - 1) - 1 = i - 2 /\ (i - 2) - 1 = i - 3
    BY <2>3
  <2>5. PICK e \in Sides : grand \in E /\ t.kid[e][grand] = parent
    BY <2>1, <2>4, OnRoute
  <2>6. PICK g \in Sides : t.kid[g][parent] = p[i]
    BY <1>6, <2>1, <2>4, OnRoute
  <2>7. parent \in E /\ parent # NULL /\ p[i] # NULL /\ p[i] \in E /\ grand # parent
    BY <1>6, <2>1, <2>2, <2>5, Kids
  <2>8. d = e /\ d \in Sides
    <3>1. t.kid[Other(e)][grand] # parent
      BY <2>1, <2>5, <2>7, Kids
    <3> QED BY <2>5, <3>1, SideIs
  <2>9. Parent(t, grand, Above(p, i - 3))
    BY <2>1, <2>4, OnRoute
  <2>10. t.kid[d][grand] = parent
    BY <2>5, <2>8
  <2>11. p[i] # parent /\ P[p[i]] = parent
    BY <2>1, <2>6, <2>7, Kids
  <2>12. grand \notin t.red
    <3>1. ASSUME grand \in t.red PROVE FALSE
      <4>1. grand # p[i]
        <5>1. grand \notin U[parent]
          BY <2>1, <2>5, <2>7, Kids
        <5>2. p[i] \in U[parent]
          BY <2>1, <2>6, <2>7, Kids
        <5> QED BY <5>1, <5>2
      <4>2. t.kid[e][grand] \in t.red \ {p[i]}
        BY <1>6, <2>5, <2>11
      <4> QED BY <2>1, <3>1, <4>1, <4>2 DEF Calm
    <3> QED BY <3>1
  <2> HIDE DEF d
  <2>13. CASE uncle \in t.red
    <3>1. r = [tree |-> Paint(t, {parent, uncle}, {grand}), at |-> i - 2]
      BY <1>1, <1>6, <2>13
    <3>2. GrowsTo(Paint(t, {parent, uncle}, {grand}), i - 2, p, E)
      BY <1>2, <1>6, <2>3, <2>8, <2>10, <2>12, <2>13, GrowUncle
    <3>3. i - 2 \in Nat /\ i - 2 < i /\ i - 2 <= i
      BY <2>3
    <3> QED BY <3>1, <3>2, <3>3
  <2>14. CASE uncle \notin t.red
    <3>1. r = [tree |-> last, at |-> 0]
      BY <1>1, <1>6, <2>3, <2>14
    <3>2. Other(d) \in Sides /\ Other(Other(d)) = d /\ \A f \in Sides : f = d \/ f = Other(d)
      BY <2>8, TwoSides
    <3>3. CASE inner
      <4> DEFINE s == Rotate(t, parent, grand, d)
      <4>1. PICK V, Q, C :
              /\ Shape(s, E, V, Q) /\ Balanced(s, E, C, NULL, "L") /\ s.root \notin s.red
              /\ Straight(s, Other(d), grand, p[i], parent) /\ Calm(s, parent)
              /\ Parent(s, grand, Above(p, i - 3))
        <5>1. parent = t.kid[d][grand] /\ p[i] = t.kid[Other(d)][parent] /\ t.kid[Other(d)][grand] \notin t.red
          BY <2>10, <2>14, <3>3
        <5>2. parent \in t.red /\ grand \in E
          BY <1>6, <2>5, Zenon
        <5>3. Bent(t, d, grand, parent, p[i])
          BY <2>1, <2>12, <5>1, <5>2, Zenon DEF Bent
        <5> HIDE DEF parent, grand, uncle, inner, s
        <5>4. InLine(Rotate(t, parent, grand, d), E, d, grand, parent, p[i], Above(p, i - 3))
          BY <2>1, <2>8, <2>9, <5>2, <5>3, GrowInner
        <5>5. InLine(s, E, d, grand, parent, p[i], Above(p, i - 3))
          BY <5>4 DEF s
        <5> QED BY <5>5 DEF InLine
      <4>2. last = Rotate(Paint(s, {p[i]}, {grand}), grand, Above(p, i - 3), Other(d))
        BY <3>3
      <4> HIDE DEF s, last
      <4>3. GrowsTo(Rotate(Paint(s, {p[i]}, {grand}), grand, Above(p, i - 3), Other(d)), 0, p, E)
        <5> HIDE DEF parent, grand
        <5> QED BY <2>5, <3>2, <4>1, GrowLine
      <4> QED BY <2>3, <3>1, <4>2, <4>3
    <3>4. CASE ~inner
      <4>1. last = Rotate(Paint(t, {parent}, {grand}), grand, Above(p, i - 3), Other(d))
        BY <3>4
      <4> HIDE DEF last
      <4>2. g = d
        BY <2>6, <3>2, <3>4
      <4>3. GrowsTo(Rotate(Paint(t, {parent}, {grand}), grand, Above(p, i - 3), Other(d)), 0, p, E)
        <5>1. parent = t.kid[Other(Other(d))][grand] /\ p[i] = t.kid[Other(Other(d))][parent]
          BY <2>6, <2>10, <3>2, <4>2
        <5>2. t.kid[Other(d)][parent] \notin t.red
          <6>1. t.kid[Other(d)][parent] # p[i]
            BY <3>4
          <6> QED BY <1>6, <2>1, <2>11, <3>2, <6>1 DEF Calm
        <5>3. Straight(t, Other(d), grand, parent, p[i])
          BY <1>6, <2>1, <2>12, <2>14, <5>1, <5>2, Zenon DEF Straight
        <5> HIDE DEF parent, grand
        <5> QED BY <2>1, <2>5, <2>9, <3>2, <5>3, GrowLine
      <4> QED BY <2>3, <3>1, <4>1, <4>3
    <3> QED BY <3>3, <3>4
  <2> QED BY <2>13, <2>14
<1> QED BY <1>3, <1>4, <1>5, <1>6

Rank(E, U) == [m \in Keys |-> IF m \in E THEN Cardinality(U[m]) ELSE 0]

(* A kid has less below it than its parent.                                  *)
LEMMA RankFalls ==
  ASSUME NEW t, NEW E, NEW U, NEW P, Shape(t, E, U, P)
  PROVE  /\ Rank(E, U) \in [Keys -> Nat]
         /\ \A m \in E : IsFiniteSet(U[m]) /\ Rank(E, U)[m] = Cardinality(U[m])
         /\ \A m \in Keys, d \in Sides :
              t.kid[d][m] # NULL => t.kid[d][m] \in E /\ m \in E /\ Rank(E, U)[t.kid[d][m]] < Rank(E, U)[m]
<1>1. /\ E \subseteq Keys /\ IsFiniteSet(E) /\ U \in [Node -> SUBSET E]
      /\ \A m \in Keys \ E, d \in Sides : t.kid[d][m] = NULL
  BY DEF Shape
<1>2. \A m \in E : U[m] \in SUBSET E /\ m \in Node
  BY <1>1 DEF Node
<1>3. \A m \in E : IsFiniteSet(U[m]) /\ Cardinality(U[m]) \in Nat
  <2>1. ASSUME NEW m \in E PROVE IsFiniteSet(U[m]) /\ Cardinality(U[m]) \in Nat
    <3>1. IsFiniteSet(U[m])
      BY <1>1, <1>2, FS_Subset
    <3> QED BY <3>1, FS_CardinalityType
  <2> QED BY <2>1
<1>4. Rank(E, U) \in [Keys -> Nat]
  BY <1>1, <1>3 DEF Rank
<1>5. \A m \in E : Rank(E, U)[m] = Cardinality(U[m])
  BY <1>1 DEF Rank
<1>6. ASSUME NEW m \in Keys, NEW d \in Sides, t.kid[d][m] # NULL
      PROVE  t.kid[d][m] \in E /\ m \in E /\ Rank(E, U)[t.kid[d][m]] < Rank(E, U)[m]
  <2> DEFINE c == t.kid[d][m]
  <2>1. m \in E
    BY <1>1, <1>6
  <2>2. c \in E /\ U[c] \subseteq U[m] /\ m \notin U[c] /\ m \in U[m]
    BY <1>6, <2>1, Kids
  <2> HIDE DEF c
  <2>3. U[c] \in SUBSET U[m] /\ U[c] # U[m] /\ IsFiniteSet(U[m])
    BY <1>3, <2>1, <2>2
  <2>4. Cardinality(U[c]) <= Cardinality(U[m]) /\ Cardinality(U[m]) # Cardinality(U[c])
    BY <2>3, FS_Subset
  <2>5. Cardinality(U[c]) < Cardinality(U[m])
    BY <1>3, <2>1, <2>2, <2>4
  <2>6. c \in E /\ m \in E /\ Rank(E, U)[c] < Rank(E, U)[m]
    BY <1>5, <2>1, <2>2, <2>5
  <2> QED BY <2>6 DEF c
<1> QED BY <1>3, <1>4, <1>5, <1>6

-----------------------------------------------------------------------------
(* Lookups                                                                  *)

(* The side of n that key k is on.                                           *)
Toward(k, n) == IF k < n THEN "L" ELSE "R"

TowardOf(t, k) == [m \in Keys |-> IF m = k THEN NULL ELSE t.kid[Toward(k, m)][m]]

(* A lookup turns to the only side the key can be on. *)
LEMMA TowardIs ==
  ASSUME NEW k \in Keys, NEW n \in Keys
  PROVE  /\ Toward(k, n) \in Sides
         /\ k # n => /\ Before(Toward(k, n), k, n)
                     /\ \A d \in Sides : Before(d, k, n) => d = Toward(k, n)
<1>1. k \in Int /\ n \in Int
  BY RBTreeAssumption
<1> QED BY <1>1 DEF Toward, Before, Sides

(* p is the way from the root to k, or to where k would be.                   *)
Descent(t, E, k, p) ==
  /\ p \in Seq(Keys) /\ Route(t, p, E, Len(p))
  /\ \A j \in 1 .. Len(p) - 1 : p[j] # k /\ t.kid[Toward(k, p[j])][p[j]] = p[j + 1]
  /\ p[Len(p)] = k \/ t.kid[Toward(k, p[Len(p)])][p[Len(p)]] = NULL

(* It goes down in the tree. *)
LEMMA TowardFalls ==
  ASSUME NEW t, NEW E, NEW U, NEW P, Shape(t, E, U, P), NEW k \in Keys
  PROVE  Falls(TowardOf(t, k), Rank(E, U))
<1>1. \A m \in Keys, d \in Sides : t.kid[d][m] \in Node
  BY DEF Shape, TreeType, Node
<1>2. \A m \in Keys : Toward(k, m) \in Sides
  BY TowardIs
<1>3. TowardOf(t, k) \in [Keys -> Node]
  BY <1>1, <1>2 DEF TowardOf, Node
<1>4. ASSUME NEW m \in Keys, TowardOf(t, k)[m] # NULL
      PROVE  Rank(E, U)[TowardOf(t, k)[m]] < Rank(E, U)[m]
  <2>1. TowardOf(t, k)[m] = t.kid[Toward(k, m)][m]
    BY <1>4 DEF TowardOf
  <2> QED BY <1>2, <1>4, <2>1, RankFalls
<1> QED BY <1>3, <1>4, RankFalls DEF Falls

(* So it ends, with the path from the root to the key or to its place.       *)
LEMMA DescendIs ==
  ASSUME NEW t, NEW E, NEW U, NEW P, Shape(t, E, U, P), t.root # NULL, NEW k \in Keys
  PROVE  /\ Chain(TowardOf(t, k), t.root, Descend(t, t.root, k))
         /\ Descent(t, E, k, Descend(t, t.root, k))
<1> DEFINE p == Descend(t, t.root, k)
           go == TowardOf(t, k)
<1>0. t.root \in E /\ E \subseteq Keys /\ t.root \in Keys
  BY DEF Shape
<1>1. p = Walk(go, t.root)
  BY DEF Descend, TowardOf, Toward
<1>2. Falls(go, Rank(E, U))
  BY TowardFalls
<1> HIDE DEF p, go
<1>3. Chain(go, t.root, p)
  BY <1>0, <1>1, <1>2, WalkIs
<1>4. /\ p \in Seq(Keys) /\ Len(p) >= 1 /\ p[1] = t.root /\ Len(p) \in Nat
      /\ \A j \in 1 .. Len(p) - 1 : go[p[j]] = p[j + 1]
      /\ go[p[Len(p)]] = NULL
      /\ \A j \in 1 .. Len(p) : p[j] \in Keys
  BY <1>3 DEF Chain
<1>5. \A m \in Keys : go[m] = IF m = k THEN NULL ELSE t.kid[Toward(k, m)][m]
  BY DEF go, TowardOf
<1>6. NULL \notin Keys
  BY RBTreeAssumption
<1>7. ASSUME NEW j \in 1 .. Len(p) - 1
      PROVE  /\ p[j] # k /\ t.kid[Toward(k, p[j])][p[j]] = p[j + 1] /\ Toward(k, p[j]) \in Sides
             /\ p[j] \in E /\ p[j + 1] \in E
  <2>1. j \in 1 .. Len(p) /\ j + 1 \in 1 .. Len(p)
    BY <1>4
  <2>2. p[j] # k /\ t.kid[Toward(k, p[j])][p[j]] = p[j + 1]
    BY <1>4, <1>5, <1>6, <2>1
  <2>3. Toward(k, p[j]) \in Sides
    BY <1>4, <2>1, TowardIs
  <2>4. t.kid[Toward(k, p[j])][p[j]] # NULL
    BY <1>4, <1>6, <2>1, <2>2
  <2>5. p[j] \in E /\ p[j + 1] \in E
    BY <1>4, <2>1, <2>2, <2>3, <2>4, RankFalls
  <2> QED BY <2>2, <2>3, <2>5
<1>8. ASSUME NEW j \in 1 .. Len(p) PROVE p[j] \in E
  <2>1. CASE j = 1
    BY <1>0, <1>4, <2>1
  <2>2. CASE j # 1
    <3>1. j - 1 \in 1 .. Len(p) - 1 /\ (j - 1) + 1 = j
      BY <1>4, <2>2
    <3>2. p[(j - 1) + 1] \in E
      BY <1>7, <3>1
    <3> QED BY <3>1, <3>2
  <2> QED BY <2>1, <2>2
<1>9. Route(t, p, E, Len(p))
  <2>1. Len(p) \in 1 .. Len(p)
    BY <1>4
  <2>2. \A j \in 1 .. Len(p) - 1 : \E d \in Sides : t.kid[d][p[j]] = p[j + 1]
    BY <1>7
  <2> QED BY <1>4, <1>8, <2>1, <2>2 DEF Route
<1>10. p[Len(p)] = k \/ t.kid[Toward(k, p[Len(p)])][p[Len(p)]] = NULL
  <2>1. Len(p) \in 1 .. Len(p)
    BY <1>4
  <2> QED BY <1>4, <1>5, <2>1
<1>11. Descent(t, E, k, p)
  BY <1>4, <1>7, <1>9, <1>10 DEF Descent
<1> QED BY <1>3, <1>11 DEF p, go

(* The way ends at k if k is in the tree.                                     *)
LEMMA DescentFinds ==
  ASSUME NEW t, NEW E, NEW U, NEW P, Shape(t, E, U, P), NEW k \in Keys, NEW p, Descent(t, E, k, p)
  PROVE  /\ p[Len(p)] \in E /\ (k \in E <=> p[Len(p)] = k)
         /\ k \in E => \A j \in 1 .. Len(p) : k \in U[p[j]]
<1>1. /\ p \in Seq(Keys) /\ Len(p) \in Nat /\ Len(p) \in 1 .. Len(p) /\ p[1] = t.root
      /\ \A j \in 1 .. Len(p) : p[j] \in E
      /\ \A j \in 1 .. Len(p) - 1 : p[j] # k /\ t.kid[Toward(k, p[j])][p[j]] = p[j + 1]
      /\ p[Len(p)] = k \/ t.kid[Toward(k, p[Len(p)])][p[Len(p)]] = NULL
  BY DEF Descent, Route
<1>2. E \subseteq Keys /\ U[t.root] = E /\ U[NULL] = {}
  BY DEF Shape
<1>3. ASSUME NEW m \in E, m # k, k \in E, k \in U[m] PROVE k \in U[t.kid[Toward(k, m)][m]]
  <2>1. m \in Keys
    BY <1>2
  <2>2. Toward(k, m) \in Sides /\ Before(Toward(k, m), k, m)
    BY <1>3, <2>1, TowardIs
  <2> QED BY <1>3, <2>2 DEF Shape
<1>4. ASSUME k \in E, NEW n \in 1 .. Len(p) PROVE k \in U[p[n]]
  <2> DEFINE H == {j \in Nat : j + 1 \in 1 .. Len(p) => k \in U[p[j + 1]]}
  <2>1. H \in SUBSET Nat /\ 0 \in H
    BY <1>1, <1>2, <1>4
  <2>2. ASSUME NEW j \in 1 .. Len(p), j - 1 \in H PROVE j \in H
    <3>1. ASSUME j + 1 \in 1 .. Len(p) PROVE k \in U[p[j + 1]]
      <4>1. j \in 1 .. Len(p) - 1 /\ (j - 1) + 1 = j /\ j - 1 \in Nat
        BY <1>1, <3>1
      <4>2. k \in U[p[j]]
        BY <1>1, <2>2, <4>1
      <4>3. p[j] \in E /\ p[j] # k /\ t.kid[Toward(k, p[j])][p[j]] = p[j + 1]
        BY <1>1, <4>1
      <4>4. k \in U[t.kid[Toward(k, p[j])][p[j]]]
        BY <1>3, <1>4, <4>2, <4>3
      <4> QED BY <4>3, <4>4
    <3> QED BY <3>1
  <2> HIDE DEF H
  <2>3. \A j \in 0 .. Len(p) : j \in H
    BY <1>1, <2>1, <2>2, UpTo
  <2>4. n - 1 \in H /\ (n - 1) + 1 = n
    BY <1>1, <2>3
  <2> QED BY <2>4 DEF H
<1>5. ASSUME k \in E PROVE p[Len(p)] = k
  <2>1. ASSUME p[Len(p)] # k PROVE FALSE
    <3>1. k \in U[p[Len(p)]]
      BY <1>1, <1>4, <1>5
    <3>2. k \in U[t.kid[Toward(k, p[Len(p)])][p[Len(p)]]]
      BY <1>1, <1>3, <1>5, <2>1, <3>1
    <3> QED BY <1>1, <1>2, <2>1, <3>2
  <2> QED BY <2>1
<1> QED BY <1>1, <1>4, <1>5

(* What a call leaves: a red-black tree of the keys E.                        *)
SoundBy(t, E, U, P, B) ==
  Shape(t, E, U, P) /\ Balanced(t, E, B, NULL, "L") /\ Calm(t, NULL) /\ t.root \notin t.red
Sound(t, E) == \E U, P, B : SoundBy(t, E, U, P, B)

(* Once the loop is done the tree is sound. *)
LEMMA GrownIsSound ==
  ASSUME NEW t, NEW p, NEW E, GrowsTo(t, 0, p, E)
  PROVE  Sound(t, E)
<1>1. PICK U, P, B : Growing(t, 0, p, E, U, P, B)
  BY DEF GrowsTo
<1>2. SoundBy(t, E, U, P, B)
  BY <1>1 DEF Growing, SoundBy
<1> QED BY <1>2 DEF Sound

(* i_restructure_after_insert *)
LEMMA AfterInsertKeeps ==
  ASSUME NEW t, NEW p \in Seq(Keys), NEW E, GrowsTo(t, Len(p), p, E)
  PROVE  Sound(AfterInsert(t, p), E)
<1> DEFINE n == Len(p)
           X == {s \in [tree : TreeType, at : Nat] : GrowsTo(s.tree, s.at, p, E)}
           F == [s \in X |-> InsertRound(p, s)]
           a == [tree |-> t, at |-> n]
           Def(g) == [k \in 0 .. n |-> IF k = 0 THEN a ELSE InsertRound(p, g[k - 1])]
           f == CHOOSE g : g = Def(g)
<1>0. n \in Nat /\ \A k \in 1 .. n : k \in 0 .. n /\ k - 1 \in 0 .. n /\ k # 0
  OBVIOUS
<1>1. ASSUME NEW u, NEW i, GrowsTo(u, i, p, E) PROVE u \in TreeType
  BY <1>1 DEF GrowsTo, Growing, Shape
<1>2. ASSUME NEW s \in X
      PROVE  InsertRound(p, s) \in X /\ InsertRound(p, s).at <= s.at
             /\ (s.at # 0 => InsertRound(p, s).at < s.at) /\ s.at \in Nat
  <2> DEFINE r == InsertRound(p, s)
  <2>1. s = [tree |-> s.tree, at |-> s.at] /\ s.at \in Nat /\ GrowsTo(s.tree, s.at, p, E)
    OBVIOUS
  <2>2. r = InsertRound(p, [tree |-> s.tree, at |-> s.at])
    BY <2>1
  <2> HIDE DEF r, X
  <2>3. /\ GrowsTo(r.tree, r.at, p, E) /\ r.at \in Nat /\ r = [tree |-> r.tree, at |-> r.at]
        /\ r.at <= s.at /\ (s.at # 0 => r.at < s.at)
    BY <2>1, <2>2, InsertRoundKeeps
  <2>4. r.tree \in TreeType
    BY <1>1, <2>3
  <2>5. r \in X
    BY <2>3, <2>4 DEF X
  <2> QED BY <2>1, <2>3, <2>5 DEF r
<1>3. a \in X
  BY <1>1
<1> HIDE DEF a, X
<1>4. Maps(F, X) /\ \A s \in X : F[s] = InsertRound(p, s)
  BY <1>2 DEF Maps
<1> HIDE DEF F
<1>5. PICK g : Runs(g, F, X, a, n)
  BY <1>0, <1>3, <1>4, Iteration
<1>6. g \in [0 .. n -> X] /\ g[0] = a /\ \A k \in 1 .. n : g[k] = InsertRound(p, g[k - 1])
  BY <1>0, <1>4, <1>5 DEF Runs
<1>7. g = Def(g)
  <2>1. \A k \in 0 .. n : g[k] = IF k = 0 THEN a ELSE InsertRound(p, g[k - 1])
    BY <1>0, <1>6
  <2> QED BY <1>6, <2>1
<1>8. f = Def(f)
  <2> HIDE DEF Def
  <2> QED BY <1>7, Zenon
<1>9. AfterInsert(t, p) = f[n].tree
  BY Zenon DEF AfterInsert, a
<1> HIDE DEF f
<1>10. f[0] = a /\ \A k \in 1 .. n : f[k] = InsertRound(p, f[k - 1])
  BY <1>0, <1>8
<1> HIDE DEF Def
<1> DEFINE H == {k \in Nat : f[k] \in X /\ f[k].at <= n - k}
<1>11. 0 \in H
  BY <1>0, <1>3, <1>10 DEF a
<1>12. ASSUME NEW k \in 1 .. n, k - 1 \in H PROVE k \in H
  <2>1. f[k - 1] \in X /\ f[k - 1].at <= n - (k - 1) /\ f[k] = InsertRound(p, f[k - 1])
    BY <1>10, <1>12
  <2>2. f[k] \in X /\ f[k].at <= f[k - 1].at /\ (f[k - 1].at # 0 => f[k].at < f[k - 1].at) /\ f[k - 1].at \in Nat
    BY <1>2, <2>1
  <2>3. f[k].at \in Nat
    BY <2>2 DEF X
  <2>4. f[k].at <= n - k
    BY <1>0, <2>1, <2>2, <2>3
  <2> QED BY <2>2, <2>4
<1>13. n \in H
  <2>1. H \in SUBSET Nat
    OBVIOUS
  <2> HIDE DEF H
  <2>2. \A k \in 0 .. n : k \in H
    BY <1>0, <1>11, <1>12, <2>1, UpTo
  <2> QED BY <1>0, <2>2
<1>14. GrowsTo(f[n].tree, f[n].at, p, E) /\ f[n].at \in Nat /\ f[n].at <= 0
  BY <1>13 DEF X
<1>15. GrowsTo(f[n].tree, 0, p, E)
  BY <1>14
<1> QED BY <1>9, <1>15, GrownIsSound

(* The tree with a new red leaf k below n. *)
WithLeaf(t, n, k) == [t EXCEPT !.kid[Toward(k, n)][n] = k, !.red = @ \cup {k}]

(* A new red leaf, where the way to its key ends.                            *)
LEMMA Attach ==
  ASSUME NEW t, NEW E, Sound(t, E), NEW k \in Keys \ E, NEW p, Descent(t, E, k, p),
         NEW n, n = p[Len(p)], NEW u, u = WithLeaf(t, n, k)
  PROVE  GrowsTo(u, Len(p) + 1, Append(p, k), E \cup {k})
<1> DEFINE F == E \cup {k}
           side == Toward(k, n)
           On == {p[j] : j \in 1 .. Len(p)}
           q == Append(p, k)
<1>1. PICK U, P, B : SoundBy(t, E, U, P, B)
  BY DEF Sound
<1> DEFINE V == [m \in Node |-> IF m = k THEN {k} ELSE IF m \in On THEN U[m] \cup {k} ELSE U[m]]
           Q == [m \in Node |-> IF m = k THEN n ELSE P[m]]
           C == [B EXCEPT ![k] = 0]
<1>2. Shape(t, E, U, P) /\ Balanced(t, E, B, NULL, "L") /\ Calm(t, NULL) /\ t.root \notin t.red
  BY <1>1 DEF SoundBy
<1>3. /\ t \in TreeType /\ E \in SUBSET Keys /\ IsFiniteSet(E)
      /\ U \in [Node -> SUBSET E] /\ P \in [Node -> Node]
      /\ U[NULL] = {} /\ U[t.root] = E /\ P[t.root] = NULL
      /\ t.root \in E \cup {NULL} /\ t.red \subseteq E
      /\ \A m \in E : m \in U[m]
      /\ \A m \in Keys \ E, d \in Sides : t.kid[d][m] = NULL
  BY <1>2 DEF Shape
<1>4. \A m \in E, d \in Sides :
       /\ t.kid[d][m] \in E \cup {NULL}
       /\ \A x \in E : x \in U[t.kid[d][m]] <=> x \in U[m] /\ Before(d, x, m)
       /\ t.kid[d][m] # NULL => P[t.kid[d][m]] = m
  BY <1>2 DEF Shape
<1>5. /\ NULL \notin Keys /\ NULL \in Node /\ k \in Node /\ k \in Keys /\ k \notin E /\ k # NULL
      /\ \A m \in E : m \in Keys /\ m \in Node /\ m # k /\ m # NULL
  BY <1>3, RBTreeAssumption DEF Node
<1>6. /\ p \in Seq(Keys) /\ Len(p) \in Nat /\ Len(p) \in 1 .. Len(p) /\ p[1] = t.root
      /\ \A j \in 1 .. Len(p) : p[j] \in E
      /\ \A j \in 1 .. Len(p) - 1 : p[j] # k /\ t.kid[Toward(k, p[j])][p[j]] = p[j + 1]
      /\ p[Len(p)] = k \/ t.kid[Toward(k, p[Len(p)])][p[Len(p)]] = NULL
      /\ Route(t, p, E, Len(p))
  BY DEF Descent, Route
<1>7. n \in E /\ side \in Sides /\ t.kid[side][n] = NULL /\ n \in Keys
  <2>1. n \in E /\ n \in Keys
    BY <1>5, <1>6
  <2>2. side \in Sides
    BY <1>5, <2>1, TowardIs
  <2> QED BY <1>5, <1>6, <2>1, <2>2
<1>8. On \subseteq E /\ n \in On /\ t.root \in On
  BY <1>5, <1>6
<1>9. ASSUME NEW m \in On PROVE m = n \/ t.kid[Toward(k, m)][m] \in On
  <2>1. PICK j \in 1 .. Len(p) : p[j] = m
    OBVIOUS
  <2>2. CASE j = Len(p)
    BY <2>1, <2>2
  <2>3. CASE j # Len(p)
    <3>1. j \in 1 .. Len(p) - 1 /\ j + 1 \in 1 .. Len(p)
      BY <1>6, <2>3
    <3>2. t.kid[Toward(k, p[j])][p[j]] = p[j + 1]
      BY <1>6, <3>1
    <3> QED BY <2>1, <3>1, <3>2
  <2> QED BY <2>2, <2>3
<1>10. ASSUME NEW m \in E, NEW d \in Sides, t.kid[d][m] \in On
       PROVE  m \in On /\ d = Toward(k, m)
  <2>1. PICK j \in 1 .. Len(p) : p[j] = t.kid[d][m]
    BY <1>10
  <2>2. t.kid[d][m] # NULL
    BY <1>5, <1>8, <1>10
  <2>3. t.kid[d][m] # t.root /\ P[t.kid[d][m]] = m
    BY <1>2, <2>2, Kids
  <2>4. j # 1
    BY <1>6, <2>1, <2>3
  <2>5. j - 1 \in 1 .. Len(p) - 1 /\ j - 1 \in 1 .. Len(p) /\ (j - 1) + 1 = j /\ j - 1 > 0
    BY <1>6, <2>4
  <2>6. t.kid[Toward(k, p[j - 1])][p[j - 1]] = p[j] /\ p[j - 1] \in E
    BY <1>6, <2>5
  <2>7. P[p[j]] = p[j - 1]
    <3>1. Toward(k, p[j - 1]) \in Sides
      BY <1>5, <2>6, TowardIs
    <3>2. p[j] # NULL
      BY <1>5, <1>6
    <3> QED BY <1>4, <2>6, <3>1, <3>2
  <2>8. p[j - 1] = m
    BY <2>1, <2>3, <2>7
  <2>9. t.kid[Toward(k, m)][m] = t.kid[d][m] /\ Toward(k, m) \in Sides
    BY <1>5, <2>1, <2>6, <2>8, TowardIs
  <2>10. t.kid[Other(d)][m] # t.kid[d][m]
    BY <1>2, <2>2, Kids
  <2>11. d = Toward(k, m)
    BY <2>9, <2>10, TwoSides
  <2> QED BY <2>5, <2>8, <2>11
<1> DEFINE K == [t.kid EXCEPT ![side][n] = k]
<1>11. /\ t.kid \in [Sides -> [Keys -> Keys \cup {NULL}]] /\ t.red \in SUBSET Keys /\ t.root \in Keys \cup {NULL}
       /\ t = [root |-> t.root, red |-> t.red, kid |-> t.kid]
  BY <1>3 DEF TreeType
<1>12. u = [root |-> t.root, red |-> t.red \cup {k}, kid |-> K]
  BY <1>11 DEF WithLeaf
<1>13. K \in [Sides -> [Keys -> Keys \cup {NULL}]]
  BY <1>5, <1>7, <1>11
<1>14. \A d \in Sides, m \in Keys : K[d][m] = IF d = side /\ m = n THEN k ELSE t.kid[d][m]
  BY <1>7, <1>11
<1> HIDE DEF K, side, On
<1>15. u.root = t.root /\ u.red = t.red \cup {k} /\ u.kid = K
  BY <1>12
<1>16. u \in TreeType
  BY <1>5, <1>11, <1>12, <1>13 DEF TreeType
<1>17. F \in SUBSET Keys /\ IsFiniteSet(F)
  BY <1>3, <1>5, FS_AddElement
<1>18. V \in [Node -> SUBSET F] /\ Q \in [Node -> Node] /\ C \in [Node -> Nat]
  <2>1. B \in [Node -> Nat]
    BY <1>2 DEF Balanced
  <2> QED BY <1>3, <1>5, <1>7, <2>1
<1>19. /\ V[k] = {k} /\ Q[k] = n /\ C[k] = 0
       /\ \A m \in On : V[m] = U[m] \cup {k}
       /\ \A m \in Node \ {k} : m \notin On => V[m] = U[m]
       /\ \A m \in Node \ {k} : Q[m] = P[m] /\ C[m] = B[m]
  <2>1. \A m \in On : m # k /\ m \in Node
    BY <1>5, <1>8
  <2>2. B \in [Node -> Nat]
    BY <1>2 DEF Balanced
  <2> QED BY <1>5, <2>1, <2>2
<1> HIDE DEF V, Q, C
<1>20. V[NULL] = {} /\ V[u.root] = F /\ Q[u.root] = NULL
  <2>1. NULL \notin On /\ t.root # k /\ t.root \in Node
    BY <1>5, <1>8
  <2> QED BY <1>3, <1>5, <1>8, <1>15, <1>19, <2>1
<1>21. \A x \in E, m \in Node : m # k => (x \in V[m] <=> x \in U[m])
  BY <1>5, <1>19
<1>22. \A m \in Node : m # k => (k \in V[m] <=> m \in On)
  <2>1. ASSUME NEW m \in Node, m # k PROVE k \in V[m] <=> m \in On
    <3>1. k \notin U[m]
      BY <1>3, <1>5
    <3> QED BY <1>19, <2>1, <3>1
  <2> QED BY <2>1
<1>23. ASSUME NEW m \in E, NEW d \in Sides
       PROVE  /\ K[d][m] \in F \cup {NULL}
              /\ \A x \in F : x \in V[K[d][m]] <=> x \in V[m] /\ Before(d, x, m)
              /\ K[d][m] # NULL => Q[K[d][m]] = m
  <2> DEFINE c == t.kid[d][m]
  <2>1. c \in E \cup {NULL} /\ c \in Node /\ c # k /\ m \in Keys /\ m \in Node /\ m # k
    BY <1>4, <1>5
  <2>2. /\ \A x \in E : x \in U[c] <=> x \in U[m] /\ Before(d, x, m)
        /\ c # NULL => P[c] = m
    BY <1>4
  <2>3. c \in On => m \in On /\ d = Toward(k, m)
    BY <1>10
  <2>4. m \in On /\ m # n /\ d = Toward(k, m) => c \in On
    BY <1>9
  <2>5. Before(d, k, m) <=> d = Toward(k, m)
    BY <1>5, <2>1, TowardIs
  <2> HIDE DEF c
  <2>6. CASE d = side /\ m = n
    <3>1. K[d][m] = k /\ c = NULL
      BY <1>7, <1>14, <2>1, <2>6 DEF c
    <3>2. ASSUME NEW x \in E PROVE ~(x \in V[m] /\ Before(d, x, m))
      BY <1>3, <1>21, <2>1, <2>2, <3>1
    <3>3. k \in V[m] /\ Before(d, k, m)
      BY <1>8, <1>22, <2>1, <2>5, <2>6 DEF side
    <3>4. V[k] = {k} /\ Q[k] = m
      BY <1>19, <2>6
    <3>5. \A x \in F : x \in V[k] <=> x \in V[m] /\ Before(d, x, m)
      BY <1>5, <3>2, <3>3, <3>4
    <3> QED BY <3>1, <3>4, <3>5
  <2>7. CASE ~(d = side /\ m = n)
    <3>1. K[d][m] = c
      BY <1>14, <2>1, <2>7 DEF c
    <3>2. \A x \in E : x \in V[c] <=> x \in V[m] /\ Before(d, x, m)
      BY <1>21, <2>1, <2>2
    <3>3. k \in V[c] <=> k \in V[m] /\ Before(d, k, m)
      <4>1. c \in On <=> m \in On /\ Before(d, k, m)
        BY <2>3, <2>4, <2>5, <2>7 DEF side
      <4> QED BY <1>22, <2>1, <4>1
    <3>4. c # NULL => Q[c] = m
      BY <1>19, <2>1, <2>2
    <3> QED BY <2>1, <3>1, <3>2, <3>3, <3>4
  <2> QED BY <2>6, <2>7
<1>24. \A d \in Sides : K[d][k] = NULL
  BY <1>3, <1>5, <1>7, <1>14
<1>25. ASSUME NEW d \in Sides
       PROVE  \A x \in F : x \in V[K[d][k]] <=> x \in V[k] /\ Before(d, x, k)
  <2>1. ~Before(d, k, k)
    BY <1>5, Order
  <2> QED BY <1>19, <1>20, <1>24, <2>1
<1>26. Shape(u, F, V, Q)
  <2>1. \A m \in F : m \in V[m]
    <3>1. \A m \in E : m \in V[m]
      BY <1>3, <1>5, <1>21
    <3> QED BY <1>19, <3>1
  <2>2. u.root \in F \cup {NULL} /\ u.red \subseteq F
    BY <1>3, <1>15
  <2>3. \A m \in F, d \in Sides :
          /\ u.kid[d][m] \in F \cup {NULL}
          /\ \A x \in F : x \in V[u.kid[d][m]] <=> x \in V[m] /\ Before(d, x, m)
          /\ u.kid[d][m] # NULL => Q[u.kid[d][m]] = m
    BY <1>15, <1>23, <1>24, <1>25
  <2>4. \A m \in Keys \ F, d \in Sides : u.kid[d][m] = NULL
    BY <1>3, <1>7, <1>14, <1>15
  <2> HIDE DEF F
  <2> QED BY <1>16, <1>17, <1>18, <1>20, <2>1, <2>2, <2>3, <2>4 DEF Shape
<1>27. \A m \in E : Weight(u, m) = Weight(t, m)
  BY <1>5, <1>15 DEF Weight
<1>28. Balanced(u, F, C, NULL, "L")
  <2>0. B[NULL] = 0 /\ C[NULL] = 0
    BY <1>2, <1>5, <1>19 DEF Balanced
  <2>1. ASSUME NEW m \in E, NEW d \in Sides
        PROVE  C[u.kid[d][m]] + 0 + Weight(u, m) = C[m]
    <3>1. B[t.kid[d][m]] + 0 + Weight(t, m) = B[m]
      BY <1>2, <1>5 DEF Balanced
    <3>2. C[u.kid[d][m]] = B[t.kid[d][m]]
      <4>1. CASE d = side /\ m = n
        BY <1>7, <1>14, <1>15, <1>19, <2>0, <4>1
      <4>2. CASE ~(d = side /\ m = n)
        BY <1>4, <1>5, <1>14, <1>15, <1>19, <4>2
      <4> QED BY <4>1, <4>2
    <3>3. C[m] = B[m]
      BY <1>5, <1>19
    <3> QED BY <1>27, <3>1, <3>2, <3>3
  <2>2. ASSUME NEW d \in Sides PROVE C[u.kid[d][k]] + 0 + Weight(u, k) = C[k]
    BY <1>15, <1>19, <1>24, <2>0 DEF Weight
  <2> QED BY <1>5, <1>18, <2>0, <2>1, <2>2 DEF Balanced
<1>29. /\ q \in Seq(Keys) /\ Len(q) = Len(p) + 1 /\ q[Len(p) + 1] = k
       /\ \A j \in 1 .. Len(p) : q[j] = p[j]
  BY <1>5, <1>6
<1> HIDE DEF q
<1>30. ASSUME NEW j \in 1 .. Len(p) PROVE \E d \in Sides : u.kid[d][q[j]] = q[j + 1]
  <2>1. CASE j = Len(p)
    BY <1>7, <1>14, <1>15, <1>29, <2>1
  <2>2. CASE j # Len(p)
    <3>1. j \in 1 .. Len(p) - 1 /\ j + 1 \in 1 .. Len(p)
      BY <1>6, <2>2
    <3>2. t.kid[Toward(k, p[j])][p[j]] = p[j + 1] /\ p[j] \in Keys /\ p[j + 1] # NULL
      BY <1>5, <1>6, <3>1
    <3>3. Toward(k, p[j]) \in Sides
      BY <1>5, <3>2, TowardIs
    <3>4. ~(Toward(k, p[j]) = side /\ p[j] = n)
      BY <1>7, <3>2
    <3>5. u.kid[Toward(k, p[j])][p[j]] = p[j + 1]
      BY <1>14, <1>15, <3>2, <3>3, <3>4
    <3> QED BY <1>29, <3>1, <3>3, <3>5
  <2> QED BY <2>1, <2>2
<1>31. Route(u, q, F, Len(p) + 1)
  <2>1. Len(p) + 1 \in 1 .. Len(q) /\ (Len(p) + 1) - 1 = Len(p)
    BY <1>6, <1>29
  <2>2. \A j \in 1 .. Len(p) + 1 : q[j] \in F
    BY <1>6, <1>29
  <2>3. q[1] = u.root
    BY <1>6, <1>15, <1>29
  <2> HIDE DEF F
  <2> QED BY <1>30, <2>1, <2>2, <2>3 DEF Route
<1>32. Calm(u, k)
  <2>1. ASSUME NEW m \in t.red, NEW d \in Sides PROVE u.kid[d][m] \notin t.red
    <3>1. m \in E /\ m \in Keys
      BY <1>3
    <3>2. m # NULL /\ NULL \notin t.red
      BY <1>3, <1>5
    <3>3. t.kid[d][m] \notin t.red
      BY <1>2, <3>2 DEF Calm
    <3> QED BY <1>3, <1>5, <1>14, <1>15, <3>1, <3>3
  <2>2. u.red \ {k} = t.red
    BY <1>3, <1>5, <1>15
  <2> QED BY <2>1, <2>2 DEF Calm
<1>33. u.root \notin u.red /\ (\A d \in Sides : u.kid[d][k] \notin u.red) /\ k \in u.red
  <2>1. t.root # k
    BY <1>5, <1>8
  <2>2. NULL \notin u.red
    BY <1>3, <1>5, <1>15
  <2> QED BY <1>2, <1>15, <1>24, <2>1, <2>2
<1>34. Growing(u, Len(p) + 1, q, F, V, Q, C)
  <2>1. Len(p) + 1 # 0
    BY <1>6
  <2> HIDE DEF F
  <2> QED BY <1>26, <1>28, <1>29, <1>31, <1>32, <1>33, <2>1 DEF Growing
<1> QED BY <1>34 DEF GrowsTo, F, q

-----------------------------------------------------------------------------
(* Ways through the tree                                                    *)

(* p is a way from the root down. *)
Way(t, E, p) == p \in Seq(Keys) /\ Route(t, p, E, Len(p))

(* What a way consists of. *)
LEMMA WayIs ==
  ASSUME NEW t, NEW E, NEW U, NEW P, Shape(t, E, U, P), NEW p, Way(t, E, p)
  PROVE  /\ p \in Seq(Keys) /\ Len(p) \in Nat /\ Len(p) \in 1 .. Len(p) /\ p[1] = t.root
         /\ p # <<>> /\ Last(p) = p[Len(p)] /\ t.root # NULL
         /\ \A j \in 1 .. Len(p) : p[j] \in E /\ p[j] \in Keys /\ p[j] \in U[p[j]] /\ U[p[j]] \subseteq E
         /\ \A j \in 1 .. Len(p) - 1 : \E d \in Sides : t.kid[d][p[j]] = p[j + 1]
<1>1. /\ p \in Seq(Keys) /\ Len(p) \in Nat /\ Len(p) \in 1 .. Len(p) /\ p[1] = t.root
      /\ \A j \in 1 .. Len(p) : p[j] \in E
      /\ \A j \in 1 .. Len(p) - 1 : \E d \in Sides : t.kid[d][p[j]] = p[j + 1]
  BY DEF Way, Route
<1>2. p # <<>> /\ Last(p) = p[Len(p)]
  BY <1>1 DEF Last
<1>3. \A j \in 1 .. Len(p) : p[j] \in E /\ p[j] \in Keys /\ p[j] \in U[p[j]] /\ U[p[j]] \subseteq E
  <2>1. "L" \in Sides
    BY TwoSides
  <2> QED BY <1>1, <2>1, Kids
<1>4. t.root # NULL
  <2>1. 1 \in 1 .. Len(p)
    BY <1>1
  <2> QED BY <1>1, <1>3, <2>1, RBTreeAssumption
<1> QED BY <1>1, <1>2, <1>3, <1>4

(* What is below a node of it is below the nodes before.                     *)
LEMMA Nested ==
  ASSUME NEW t, NEW E, NEW U, NEW P, Shape(t, E, U, P), NEW p, Way(t, E, p),
         NEW j \in 1 .. Len(p), NEW i \in 1 .. j
  PROVE  /\ U[p[j]] \subseteq U[p[i]] /\ p[j] \in U[p[i]]
         /\ i < j => \A e \in Sides : t.kid[e][p[i]] = p[i + 1] =>
                       \A y \in U[p[j]] : Before(e, y, p[i])
<1>1. /\ p \in Seq(Keys) /\ Len(p) \in Nat /\ j \in Nat
      /\ \A k \in 1 .. Len(p) : p[k] \in E /\ p[k] \in Keys /\ p[k] \in U[p[k]] /\ U[p[k]] \subseteq E
      /\ \A k \in 1 .. Len(p) - 1 : \E d \in Sides : t.kid[d][p[k]] = p[k + 1]
  BY WayIs
<1>2. NULL \notin Keys
  BY RBTreeAssumption
<1>3. ASSUME NEW k \in 1 .. Len(p) - 1 PROVE U[p[k + 1]] \subseteq U[p[k]]
  <2>1. PICK d \in Sides : t.kid[d][p[k]] = p[k + 1]
    BY <1>1
  <2>2. p[k] \in E /\ p[k + 1] # NULL
    BY <1>1, <1>2
  <2> QED BY <2>1, <2>2, Kids
<1> DEFINE H(n) == {k \in Nat : n + k <= j => U[p[n + k]] \subseteq U[p[n]]}
<1>4. ASSUME NEW n \in 1 .. j PROVE U[p[j]] \subseteq U[p[n]]
  <2>1. H(n) \in SUBSET Nat /\ 0 \in H(n)
    OBVIOUS
  <2>2. ASSUME NEW k \in 1 .. j - n, k - 1 \in H(n) PROVE k \in H(n)
    <3>1. ASSUME n + k <= j PROVE U[p[n + k]] \subseteq U[p[n]]
      <4>1. /\ n + (k - 1) <= j /\ n + (k - 1) \in 1 .. Len(p) - 1
            /\ (n + (k - 1)) + 1 = n + k
        BY <1>1, <3>1
      <4>2. U[p[n + (k - 1)]] \subseteq U[p[n]]
        BY <2>2, <4>1
      <4>3. U[p[(n + (k - 1)) + 1]] \subseteq U[p[n + (k - 1)]]
        BY <1>3, <4>1
      <4>4. U[p[n + k]] \subseteq U[p[n + (k - 1)]]
        BY <4>1, <4>3
      <4> QED BY <4>2, <4>4
    <3>2. k \in Nat
      OBVIOUS
    <3> QED BY <3>1, <3>2
  <2>3. j - n \in Nat /\ n + (j - n) = j
    BY <1>1
  <2> HIDE DEF H
  <2>4. \A k \in 0 .. j - n : k \in H(n)
    BY <2>1, <2>2, <2>3, UpTo
  <2>5. j - n \in H(n)
    BY <2>3, <2>4
  <2>6. n + (j - n) <= j => U[p[n + (j - n)]] \subseteq U[p[n]]
    BY <2>5 DEF H
  <2> QED BY <1>1, <2>3, <2>6
<1>5. ASSUME i < j, NEW e \in Sides, t.kid[e][p[i]] = p[i + 1], NEW y \in U[p[j]]
      PROVE  Before(e, y, p[i])
  <2>1. i + 1 \in 1 .. j /\ i \in 1 .. Len(p) /\ i + 1 \in 1 .. Len(p)
    BY <1>1, <1>5
  <2>2. y \in U[t.kid[e][p[i]]]
    BY <1>4, <1>5, <2>1
  <2>3. y \in E /\ p[i] \in E
    BY <1>1, <2>1
  <2> QED BY <2>2, <2>3 DEF Shape
<1> QED BY <1>1, <1>4, <1>5

(* Where the way leaves element x behind, to side e.                         *)
Parts(t, U, p, x, j, e) ==
  /\ j \in 1 .. Len(p) - 1 /\ e \in Sides /\ t.kid[e][p[j]] = p[j + 1]
  /\ x \in U[p[j]] /\ (x = p[j] \/ Before(Other(e), x, p[j]))

(* A way that does not end above x leaves it behind somewhere. *)
LEMMA Parting ==
  ASSUME NEW t, NEW E, NEW U, NEW P, Shape(t, E, U, P), NEW p, Way(t, E, p),
         NEW x \in E, x \notin U[p[Len(p)]]
  PROVE  \E j, e : Parts(t, U, p, x, j, e)
<1> DEFINE H == {j \in 1 .. Len(p) : x \notin U[p[j]]}
<1>1. /\ p \in Seq(Keys) /\ Len(p) \in Nat /\ Len(p) \in 1 .. Len(p) /\ p[1] = t.root
      /\ \A k \in 1 .. Len(p) : p[k] \in E /\ p[k] \in Keys
      /\ \A k \in 1 .. Len(p) - 1 : \E d \in Sides : t.kid[d][p[k]] = p[k + 1]
  BY WayIs
<1>2. H \in SUBSET Nat /\ H # {}
  BY <1>1
<1>3. PICK k \in H : \A j \in H : k <= j
  <2> HIDE DEF H
  <2> QED BY <1>2, LeastNumber
<1>4. k # 1
  <2>1. U[t.root] = E
    BY DEF Shape
  <2> QED BY <1>1, <1>3, <2>1
<1>5. k - 1 \in 1 .. Len(p) - 1 /\ k - 1 \in 1 .. Len(p) /\ k - 1 \notin H /\ (k - 1) + 1 = k
  BY <1>1, <1>3, <1>4
<1>6. x \in U[p[k - 1]]
  BY <1>5
<1>7. PICK e \in Sides : t.kid[e][p[k - 1]] = p[(k - 1) + 1]
  BY <1>1, <1>5
<1>8. x \notin U[t.kid[e][p[k - 1]]]
  BY <1>3, <1>5, <1>7
<1>9. ~Before(e, x, p[k - 1])
  <2>1. p[k - 1] \in E
    BY <1>1, <1>5
  <2> QED BY <1>6, <1>7, <1>8, <2>1 DEF Shape
<1>10. x \in Keys /\ p[k - 1] \in Keys
  <2>1. E \subseteq Keys
    BY DEF Shape
  <2> QED BY <1>1, <1>5, <2>1
<1>11. x = p[k - 1] \/ Before(Other(e), x, p[k - 1])
  <2>1. Other(e) \in Sides
    BY <1>7, TwoSides
  <2> QED BY <1>7, <1>9, <1>10, <2>1, Order
<1>12. Parts(t, U, p, x, k - 1, e)
  BY <1>5, <1>6, <1>7, <1>11 DEF Parts
<1> QED BY <1>12

(* The way to a node is the one a lookup of it takes.                        *)
LEMMA WayIsDescent ==
  ASSUME NEW t, NEW E, NEW U, NEW P, Shape(t, E, U, P), NEW p, Way(t, E, p)
  PROVE  p = Descend(t, t.root, Last(p))
<1> DEFINE k == Last(p)
<1>1. /\ p \in Seq(Keys) /\ Len(p) \in Nat /\ Len(p) \in 1 .. Len(p) /\ p[1] = t.root
      /\ t.root # NULL /\ k = p[Len(p)]
      /\ \A j \in 1 .. Len(p) : p[j] \in E /\ p[j] \in Keys
      /\ \A j \in 1 .. Len(p) - 1 : \E d \in Sides : t.kid[d][p[j]] = p[j + 1]
  BY WayIs
<1> HIDE DEF k
<1>2. k \in Keys /\ k \in U[p[Len(p)]]
  <2>1. k \in E /\ k \in Keys
    BY <1>1
  <2> QED BY <1>1, <2>1 DEF Shape
<1>3. ASSUME NEW j \in 1 .. Len(p) - 1 PROVE TowardOf(t, k)[p[j]] = p[j + 1]
  <2>1. PICK e \in Sides : t.kid[e][p[j]] = p[j + 1]
    BY <1>1
  <2>2. j \in 1 .. Len(p) /\ Len(p) \in 1 .. Len(p) /\ j < Len(p)
    BY <1>1
  <2>3. Before(e, k, p[j])
    BY <1>2, <2>1, <2>2, Nested
  <2>4. p[j] # k
    BY <1>2, <2>3, Order
  <2>5. e = Toward(k, p[j])
    BY <1>1, <1>2, <2>2, <2>3, <2>4, TowardIs
  <2> QED BY <1>1, <2>1, <2>2, <2>4, <2>5 DEF TowardOf
<1>4. TowardOf(t, k)[p[Len(p)]] = NULL
  BY <1>1, <1>2 DEF TowardOf
<1>5. Chain(TowardOf(t, k), t.root, p)
  BY <1>1, <1>3, <1>4 DEF Chain
<1>6. Chain(TowardOf(t, k), t.root, Descend(t, t.root, k))
  BY <1>1, <1>2, DescendIs
<1>7. TowardOf(t, k) \in [Keys -> Node]
  BY <1>2, TowardFalls DEF Falls
<1>8. p = Descend(t, t.root, k)
  <2> DEFINE go == TowardOf(t, k)
  <2> HIDE DEF go
  <2> QED BY <1>5, <1>6, <1>7, OneChain DEF go
<1> QED BY <1>8 DEF k

(* There is a way to each element. *)
LEMMA WayTo ==
  ASSUME NEW t, NEW E, NEW U, NEW P, Shape(t, E, U, P), NEW m \in E
  PROVE  Way(t, E, Descend(t, t.root, m)) /\ Last(Descend(t, t.root, m)) = m
<1>1. t.root # NULL /\ m \in Keys
  BY DEF Shape
<1>2. Descent(t, E, m, Descend(t, t.root, m))
  BY <1>1, DescendIs
<1>3. Way(t, E, Descend(t, t.root, m))
  BY <1>2 DEF Descent, Way
<1>4. Descend(t, t.root, m)[Len(Descend(t, t.root, m))] = m
  BY <1>1, <1>2, DescentFinds
<1> QED BY <1>3, <1>4, WayIs

(* What is not below m is on the same side of all that is.                   *)
LEMMA Outside ==
  ASSUME NEW t, NEW E, NEW U, NEW P, Shape(t, E, U, P), NEW m \in E,
         NEW x \in E, x \notin U[m], NEW y \in U[m], NEW z \in U[m], NEW d \in Sides, Before(d, x, y)
  PROVE  Before(d, x, z)
<1> DEFINE p == Descend(t, t.root, m)
<1>1. Way(t, E, p) /\ Last(p) = m
  BY WayTo
<1> HIDE DEF p
<1>2. /\ Len(p) \in Nat /\ Len(p) \in 1 .. Len(p) /\ p[Len(p)] = m
      /\ \A j \in 1 .. Len(p) : p[j] \in Keys
  BY <1>1, WayIs
<1>3. PICK j, e : Parts(t, U, p, x, j, e)
  BY <1>1, <1>2, Parting
<1>4. /\ j \in 1 .. Len(p) - 1 /\ e \in Sides /\ t.kid[e][p[j]] = p[j + 1]
      /\ (x = p[j] \/ Before(Other(e), x, p[j]))
  BY <1>3 DEF Parts
<1>5. j \in 1 .. Len(p) /\ j < Len(p)
  BY <1>2, <1>4
<1>6. Before(e, y, p[j]) /\ Before(e, z, p[j])
  BY <1>1, <1>2, <1>4, <1>5, Nested
<1>7. x \in Keys /\ y \in Keys /\ z \in Keys /\ p[j] \in Keys /\ Other(e) \in Sides
  <2>1. E \subseteq Keys /\ U[m] \subseteq E
    BY Kids DEF Shape, Sides
  <2> QED BY <1>2, <1>4, <1>5, <2>1, TwoSides
<1>8. Before(Other(e), x, y) /\ Before(Other(e), x, z)
  <2>1. Before(Other(e), p[j], y) /\ Before(Other(e), p[j], z)
    BY <1>4, <1>6, <1>7, Order
  <2> QED BY <1>4, <1>7, <2>1, Order
<1>9. d = Other(e)
  <2>1. ~(Before(Other(e), x, y) /\ Before(Other(Other(e)), x, y))
    BY <1>7, Order
  <2>2. d # Other(e) => d = Other(Other(e))
    BY <1>7, TwoSides
  <2> QED BY <1>8, <2>1, <2>2
<1> QED BY <1>8, <1>9

(* A set of numbers up to n has a greatest one.                              *)
LEMMA GreatestNumber ==
  ASSUME NEW n \in Nat, NEW S \in SUBSET (1 .. n), S # {}
  PROVE  Max(S) \in S /\ \A i \in S : i <= Max(S)
<1>0. \A i \in S : i \in Int /\ i <= n
  OBVIOUS
<1> DEFINE D == {j \in Nat : n - j \in S}
<1>1. D \in SUBSET Nat /\ D # {}
  <2>1. PICK i \in S : TRUE
    OBVIOUS
  <2>2. n - i \in Nat /\ n - (n - i) = i
    BY <1>0
  <2> QED BY <2>2
<1>2. PICK k \in D : \A j \in D : k <= j
  <2> HIDE DEF D
  <2> QED BY <1>1, LeastNumber
<1>3. n - k \in S /\ k \in Nat
  BY <1>2
<1>4. ASSUME NEW i \in S PROVE n - k >= i
  <2>1. n - i \in Nat /\ n - (n - i) = i /\ i \in Int
    BY <1>0
  <2>2. n - i \in D
    BY <2>1
  <2>3. k <= n - i
    BY <1>2, <2>2
  <2> QED BY <1>3, <2>1, <2>3
<1>5. Max(S) \in S /\ \A i \in S : Max(S) >= i
  BY <1>3, <1>4 DEF Max
<1>6. \A i \in S : Max(S) \in Int /\ i \in Int
  BY <1>0, <1>5
<1> QED BY <1>5, <1>6

-----------------------------------------------------------------------------
(* First, last, next and previous                                           *)

(* A spine is a chain of kids of one side. *)
LEMMA SpineIs ==
  ASSUME NEW t, NEW E, NEW U, NEW P, Shape(t, E, U, P), NEW n \in E, NEW d \in Sides
  PROVE  Chain(t.kid[d], n, Spine(t, n, d))
<1>1. t.kid[d] \in [Keys -> Node] /\ n \in Keys
  BY DEF Shape, TreeType, Node
<1>2. Falls(t.kid[d], Rank(E, U))
  BY <1>1, RankFalls DEF Falls
<1> DEFINE go == t.kid[d]
<1>3. Spine(t, n, d) = Walk(go, n)
  BY DEF Spine
<1> HIDE DEF go
<1>4. Chain(go, n, Walk(go, n))
  BY <1>1, <1>2, WalkIs DEF go
<1> QED BY <1>3, <1>4 DEF go

(* q goes from n as far to side d as there are nodes.                        *)
Along(t, E, U, d, n, q) ==
  /\ q \in Seq(Keys) /\ Len(q) >= 1 /\ q[1] = n
  /\ \A j \in 1 .. Len(q) : q[j] \in E /\ q[j] \in U[n]
  /\ \A j \in 1 .. Len(q) - 1 : t.kid[d][q[j]] = q[j + 1]
  /\ t.kid[d][Last(q)] = NULL /\ Last(q) = q[Len(q)]
  /\ \A x \in U[n] : x = Last(q) \/ Before(Other(d), x, Last(q))

(* It ends at the outermost element below its start. *)
LEMMA SpineEnds ==
  ASSUME NEW t, NEW E, NEW U, NEW P, Shape(t, E, U, P), NEW n \in E, NEW d \in Sides
  PROVE  Along(t, E, U, d, n, Spine(t, n, d))
<1> DEFINE q == Spine(t, n, d)
<1>1. Chain(t.kid[d], n, q)
  BY SpineIs
<1> HIDE DEF q
<1>2. /\ q \in Seq(Keys) /\ Len(q) >= 1 /\ q[1] = n /\ Len(q) \in Nat /\ Len(q) \in 1 .. Len(q)
      /\ \A j \in 1 .. Len(q) - 1 : t.kid[d][q[j]] = q[j + 1]
      /\ t.kid[d][q[Len(q)]] = NULL /\ \A j \in 1 .. Len(q) : q[j] \in Keys
  BY <1>1 DEF Chain
<1>3. Last(q) = q[Len(q)]
  BY <1>2 DEF Last
<1>4. /\ E \subseteq Keys /\ U[NULL] = {} /\ NULL \notin Keys /\ Other(d) \in Sides
      /\ \A m \in E, x \in E : x \in U[t.kid[d][m]] <=> x \in U[m] /\ Before(d, x, m)
      /\ \A m \in E : m \in U[m] /\ U[m] \subseteq E
  <2>1. \A m \in E : m \in U[m] /\ U[m] \subseteq E
    BY Kids
  <2> QED BY <2>1, RBTreeAssumption, TwoSides DEF Shape
<1> DEFINE Lies(m) == /\ m \in E /\ U[m] \subseteq U[n]
                      /\ \A x \in U[n] : x \in U[m] \/ \A y \in U[m] : Before(Other(d), x, y)
           H == {j \in Nat : j + 1 \in 1 .. Len(q) => Lies(q[j + 1])}
<1>5. 0 \in H
  BY <1>2, <1>4
<1>6. ASSUME NEW m \in E, Lies(m), NEW c \in Keys, t.kid[d][m] = c PROVE Lies(c)
  <2>1. c # NULL /\ c \in E /\ c \in U[m] /\ U[c] \subseteq U[m] /\ m \in Keys
    <3>1. t.kid[d][m] # NULL
      BY <1>4, <1>6
    <3> QED BY <1>6, <3>1, Kids
  <2>2. ASSUME NEW x \in U[n], x \notin U[c], NEW y \in U[c] PROVE Before(Other(d), x, y)
    <3>1. CASE x \notin U[m]
      BY <1>6, <2>1, <3>1
    <3>2. CASE x \in U[m]
      <4>1. x \in E /\ y \in E /\ x \in Keys /\ y \in Keys
        BY <1>4, <1>6, <2>1, <3>2
      <4>2. Before(d, y, m) /\ ~Before(d, x, m)
        BY <1>4, <1>6, <2>2, <3>2, <4>1
      <4>3. Before(Other(d), m, y)
        BY <2>1, <4>1, <4>2, Order
      <4>4. x = m \/ Before(Other(d), x, m)
        BY <2>1, <4>1, <4>2, Order
      <4> QED BY <1>4, <2>1, <4>1, <4>3, <4>4, Order
    <3> QED BY <3>1, <3>2
  <2> QED BY <1>6, <2>1, <2>2
<1>7. ASSUME NEW j \in 1 .. Len(q), j - 1 \in H PROVE j \in H
  <2>1. ASSUME j + 1 \in 1 .. Len(q) PROVE Lies(q[j + 1])
    <3>1. j \in 1 .. Len(q) - 1 /\ (j - 1) + 1 = j /\ j \in 1 .. Len(q)
      BY <1>2, <2>1
    <3>2. Lies(q[(j - 1) + 1])
      BY <1>7, <3>1
    <3>3. Lies(q[j]) /\ q[j + 1] \in Keys /\ t.kid[d][q[j]] = q[j + 1] /\ q[j] \in E
      BY <1>2, <2>1, <3>1, <3>2
    <3> HIDE DEF Lies
    <3> QED BY <1>6, <3>3
  <2> HIDE DEF Lies
  <2> QED BY <1>2, <2>1
<1>8. ASSUME NEW j \in 1 .. Len(q) PROVE Lies(q[j])
  <2>1. H \in SUBSET Nat
    OBVIOUS
  <2> HIDE DEF H
  <2>2. \A i \in 0 .. Len(q) : i \in H
    BY <1>2, <1>5, <1>7, <2>1, UpTo
  <2>3. j - 1 \in H /\ (j - 1) + 1 = j
    BY <1>2, <2>2
  <2> QED BY <2>3 DEF H
<1>9. ASSUME NEW x \in U[n] PROVE x = Last(q) \/ Before(Other(d), x, Last(q))
  <2>1. Last(q) \in E /\ Last(q) \in U[Last(q)] /\ Last(q) \in Keys /\ x \in E /\ x \in Keys
    BY <1>2, <1>3, <1>4, <1>8
  <2>2. ~(x \in U[Last(q)] /\ Before(d, x, Last(q)))
    BY <1>2, <1>3, <1>4, <2>1
  <2>3. x \in U[Last(q)] \/ Before(Other(d), x, Last(q))
    BY <1>2, <1>3, <1>8, <2>1
  <2> QED BY <2>1, <2>2, <2>3, Order
<1>10. \A j \in 1 .. Len(q) : q[j] \in E /\ q[j] \in U[n]
  BY <1>4, <1>8
<1>11. Along(t, E, U, d, n, q)
  <2> HIDE DEF H, Lies
  <2> QED BY <1>2, <1>3, <1>9, <1>10 DEF Along
<1> QED BY <1>11 DEF q

(* The way from the root, or one that goes on from another.                  *)
LEMMA AlongIsWay ==
  ASSUME NEW t, NEW E, NEW U, NEW d \in Sides, NEW q, Along(t, E, U, d, t.root, q)
  PROVE  Way(t, E, q) /\ Last(q) \in E
<1>1. /\ q \in Seq(Keys) /\ Len(q) \in Nat /\ Len(q) \in 1 .. Len(q) /\ q[1] = t.root
      /\ \A j \in 1 .. Len(q) : q[j] \in E
      /\ \A j \in 1 .. Len(q) - 1 : t.kid[d][q[j]] = q[j + 1]
      /\ Last(q) = q[Len(q)]
  BY DEF Along
<1>2. Route(t, q, E, Len(q))
  BY <1>1 DEF Route
<1> QED BY <1>1, <1>2 DEF Way

(* A way goes on along a spine that starts below its end. *)
LEMMA Joined ==
  ASSUME NEW t, NEW E, NEW U, NEW P, Shape(t, E, U, P), NEW p, Way(t, E, p), NEW e \in Sides,
         NEW n, n = t.kid[e][Last(p)], NEW d \in Sides, NEW q, Along(t, E, U, d, n, q)
  PROVE  /\ Way(t, E, p \o q) /\ Last(p \o q) = Last(q) /\ Len(p \o q) = Len(p) + Len(q)
         /\ \A j \in 1 .. Len(p) : (p \o q)[j] = p[j]
         /\ \A j \in 1 .. Len(q) : (p \o q)[Len(p) + j] = q[j]
<1> DEFINE r == p \o q
<1>1. /\ q \in Seq(Keys) /\ Len(q) \in Nat /\ Len(q) \in 1 .. Len(q) /\ q[1] = n
      /\ \A j \in 1 .. Len(q) : q[j] \in E
      /\ \A j \in 1 .. Len(q) - 1 : t.kid[d][q[j]] = q[j + 1]
      /\ Last(q) = q[Len(q)]
  BY DEF Along
<1>2. /\ p \in Seq(Keys) /\ Len(p) \in Nat /\ Len(p) \in 1 .. Len(p) /\ p[1] = t.root
      /\ Last(p) = p[Len(p)] /\ \A j \in 1 .. Len(p) : p[j] \in E
      /\ \A j \in 1 .. Len(p) - 1 : \E f \in Sides : t.kid[f][p[j]] = p[j + 1]
  BY WayIs
<1>3. r \in Seq(Keys) /\ Len(r) = Len(p) + Len(q)
  BY <1>1, <1>2
<1>4. \A j \in 1 .. Len(p) : r[j] = p[j]
  BY <1>1, <1>2
<1>5. \A j \in 1 .. Len(q) : r[Len(p) + j] = q[j]
  BY <1>1, <1>2
<1> HIDE DEF r
<1>6. ASSUME NEW j \in 1 .. Len(r) PROVE r[j] \in E
  <2>1. CASE j \in 1 .. Len(p)
    BY <1>2, <1>4, <2>1
  <2>2. CASE j \notin 1 .. Len(p)
    <3>1. j - Len(p) \in 1 .. Len(q) /\ Len(p) + (j - Len(p)) = j
      BY <1>1, <1>2, <1>3, <2>2
    <3>2. r[Len(p) + (j - Len(p))] = q[j - Len(p)]
      BY <1>5, <3>1
    <3> QED BY <1>1, <3>1, <3>2
  <2> QED BY <2>1, <2>2
<1>7. ASSUME NEW j \in 1 .. Len(r) - 1 PROVE \E f \in Sides : t.kid[f][r[j]] = r[j + 1]
  <2>1. CASE j \in 1 .. Len(p) - 1
    <3>1. j \in 1 .. Len(p) /\ j + 1 \in 1 .. Len(p)
      BY <1>2, <2>1
    <3> QED BY <1>2, <1>4, <2>1, <3>1
  <2>2. CASE j = Len(p)
    <3>1. r[j] = Last(p)
      BY <1>2, <1>4, <2>2
    <3>2. 1 \in 1 .. Len(q)
      BY <1>1
    <3>3. r[j + 1] = n
      BY <1>1, <1>5, <2>2, <3>2
    <3> QED BY <3>1, <3>3
  <2>3. CASE j > Len(p)
    <3>1. /\ j - Len(p) \in 1 .. Len(q) - 1 /\ j - Len(p) \in 1 .. Len(q)
          /\ (j - Len(p)) + 1 \in 1 .. Len(q)
          /\ Len(p) + (j - Len(p)) = j /\ Len(p) + ((j - Len(p)) + 1) = j + 1
      BY <1>1, <1>2, <1>3, <2>3
    <3>2. r[Len(p) + (j - Len(p))] = q[j - Len(p)] /\ r[Len(p) + ((j - Len(p)) + 1)] = q[(j - Len(p)) + 1]
      BY <1>5, <3>1
    <3>3. t.kid[d][q[j - Len(p)]] = q[(j - Len(p)) + 1]
      BY <1>1, <3>1
    <3>4. t.kid[d][r[j]] = r[j + 1]
      BY <3>1, <3>2, <3>3
    <3> QED BY <3>4
  <2> QED BY <1>2, <2>1, <2>2, <2>3
<1>8. Len(r) \in 1 .. Len(r) /\ r[1] = t.root
  <2>1. 1 \in 1 .. Len(p)
    BY <1>2
  <2> QED BY <1>1, <1>2, <1>3, <1>4, <2>1
<1>9. Route(t, r, E, Len(r))
  BY <1>6, <1>7, <1>8 DEF Route
<1>10. Way(t, E, r)
  BY <1>3, <1>9 DEF Way
<1>11. Last(r) = r[Len(r)] /\ r[Len(r)] = Last(q)
  <2>1. Last(r) = r[Len(r)]
    BY <1>3, <1>8 DEF Last
  <2>2. r[Len(p) + Len(q)] = q[Len(q)]
    BY <1>1, <1>5
  <2> QED BY <1>1, <1>3, <2>1, <2>2
<1> QED BY <1>3, <1>4, <1>5, <1>10, <1>11 DEF r

(* The beginning of a way is a way. *)
LEMMA WayPart ==
  ASSUME NEW t, NEW E, NEW U, NEW P, Shape(t, E, U, P), NEW p, Way(t, E, p), NEW i \in 1 .. Len(p)
  PROVE  /\ Way(t, E, SubSeq(p, 1, i)) /\ Last(SubSeq(p, 1, i)) = p[i] /\ Len(SubSeq(p, 1, i)) = i
         /\ \A j \in 1 .. i : SubSeq(p, 1, i)[j] = p[j]
<1> DEFINE r == SubSeq(p, 1, i)
<1>1. /\ p \in Seq(Keys) /\ Len(p) \in Nat /\ p[1] = t.root
      /\ \A j \in 1 .. Len(p) : p[j] \in E
      /\ \A j \in 1 .. Len(p) - 1 : \E f \in Sides : t.kid[f][p[j]] = p[j + 1]
  BY WayIs
<1>2. r \in Seq(Keys) /\ Len(r) = i /\ \A j \in 1 .. i : r[j] = p[j]
  BY <1>1
<1> HIDE DEF r
<1>3. Route(t, r, E, Len(r))
  <2>1. \A j \in 1 .. i - 1 : j \in 1 .. Len(p) - 1 /\ j \in 1 .. i /\ j + 1 \in 1 .. i
    BY <1>1
  <2>2. 1 \in 1 .. i /\ \A j \in 1 .. i : j \in 1 .. Len(p)
    BY <1>1
  <2>3. \A j \in 1 .. i : r[j] \in E
    BY <1>1, <1>2, <2>2
  <2>4. \A j \in 1 .. i - 1 : \E f \in Sides : t.kid[f][r[j]] = r[j + 1]
    BY <1>1, <1>2, <2>1
  <2>5. r[1] = t.root /\ Len(r) \in 1 .. Len(r)
    BY <1>1, <1>2, <2>2
  <2> HIDE DEF r
  <2>6. \A j \in 1 .. Len(r) : r[j] \in E
    BY <1>2, <2>3
  <2>7. \A j \in 1 .. Len(r) - 1 : \E f \in Sides : t.kid[f][r[j]] = r[j + 1]
    BY <1>2, <2>4
  <2> QED BY <2>5, <2>6, <2>7 DEF Route
<1>4. Last(r) = p[i]
  BY <1>2 DEF Last
<1> QED BY <1>2, <1>3, <1>4 DEF Way, r

(* s is the element next to n on side d.                                     *)
Nearest(E, d, n, s) ==
  s \in E /\ Before(d, s, n) /\ \A x \in E : Before(d, x, n) => x = s \/ Before(d, x, s)

(* Where i_inorder_next and i_inorder_prev leave the iterator.               *)
Moved(t, p, d) ==
  LET down == t.kid[d][Last(p)]
      ups  == {i \in 1..(Len(p) - 1) : t.kid[Other(d)][p[i]] = p[i + 1]}
  IN IF down # NULL THEN p \o Spine(t, down, Other(d))
     ELSE IF ups = {} THEN <<>> ELSE SubSeq(p, 1, Max(ups))

(* They find the next element on their side, if there is one.                *)
LEMMA MovedIs ==
  ASSUME NEW t, NEW E, NEW U, NEW P, Shape(t, E, U, P), NEW p, Way(t, E, p), NEW d \in Sides
  PROVE  \/ Moved(t, p, d) = <<>> /\ \A x \in E : ~Before(d, x, Last(p))
         \/ Way(t, E, Moved(t, p, d)) /\ Nearest(E, d, Last(p), Last(Moved(t, p, d)))
<1> DEFINE n == Last(p)
           down == t.kid[d][n]
           ups == {i \in 1..(Len(p) - 1) : t.kid[Other(d)][p[i]] = p[i + 1]}
           r == Moved(t, p, d)
<1>0. Other(d) \in Sides /\ Other(Other(d)) = d /\ Other(d) # d /\ \A e \in Sides : e # d => e = Other(d)
  BY TwoSides
<1>1. /\ p \in Seq(Keys) /\ Len(p) \in Nat /\ Len(p) \in 1 .. Len(p) /\ p[1] = t.root
      /\ n = p[Len(p)] /\ n \in E /\ n \in Keys /\ n \in U[n] /\ U[n] \subseteq E
      /\ \A j \in 1 .. Len(p) : p[j] \in E /\ p[j] \in Keys
  BY WayIs
<1>2. /\ E \subseteq Keys /\ U[NULL] = {} /\ NULL \notin Keys
      /\ \A x \in E : x \in U[down] <=> x \in U[n] /\ Before(d, x, n)
  BY <1>1, RBTreeAssumption DEF Shape
<1>3. r = IF down # NULL THEN p \o Spine(t, down, Other(d))
          ELSE IF ups = {} THEN <<>> ELSE SubSeq(p, 1, Max(ups))
  BY DEF Moved
<1> HIDE DEF r
<1>4. CASE down # NULL
  <2> DEFINE q == Spine(t, down, Other(d))
  <2>1. down \in E /\ down \in U[down]
    BY <1>1, <1>4, Kids
  <2>2. Along(t, E, U, Other(d), down, q)
    <3> HIDE DEF down
    <3> QED BY <1>0, <2>1, SpineEnds
  <2>3. r = p \o q
    BY <1>3, <1>4
  <2>4. Last(q) \in U[down] /\ \A x \in U[down] : x = Last(q) \/ Before(d, x, Last(q))
    <3> HIDE DEF q, down
    <3>1. Len(q) \in 1 .. Len(q) /\ Last(q) = q[Len(q)]
      BY <2>2 DEF Along
    <3> QED BY <1>0, <2>2, <3>1 DEF Along
  <2>5. Way(t, E, p \o q) /\ Last(p \o q) = Last(q)
    <3> HIDE DEF q
    <3> QED BY <1>0, <2>2, Joined
  <2> DEFINE s == Last(q)
  <2> HIDE DEF q
  <2>6. s \in E /\ s \in U[n] /\ Before(d, s, n) /\ s \in Keys
    <3>1. s \in E
      <4>1. U[down] \subseteq E
        BY <2>1, Kids
      <4> QED BY <2>4, <4>1
    <3> HIDE DEF s
    <3> QED BY <1>2, <2>4, <3>1 DEF s
  <2>7. ASSUME NEW x \in E, Before(d, x, n) PROVE x = s \/ Before(d, x, s)
    <3>1. CASE x \in U[n]
      BY <1>2, <2>4, <2>7, <3>1
    <3>2. CASE x \notin U[n]
      <4> HIDE DEF n, s
      <4> QED BY <1>1, <2>6, <2>7, <3>2, Outside
    <3> QED BY <3>1, <3>2
  <2>8. Nearest(E, d, n, s)
    BY <2>6, <2>7 DEF Nearest
  <2> QED BY <2>3, <2>5, <2>8 DEF r
<1>5. CASE down = NULL
  <2>1. ASSUME NEW x \in E, Before(d, x, n)
        PROVE  \E j \in ups : x \in U[p[j]] /\ (x = p[j] \/ Before(d, x, p[j]))
    <3>1. x \notin U[p[Len(p)]]
      BY <1>1, <1>2, <1>5, <2>1
    <3>2. PICK j, e : Parts(t, U, p, x, j, e)
      <4> HIDE DEF n
      <4> QED BY <3>1, Parting
    <3>3. /\ j \in 1 .. Len(p) - 1 /\ e \in Sides /\ t.kid[e][p[j]] = p[j + 1]
          /\ x \in U[p[j]] /\ (x = p[j] \/ Before(Other(e), x, p[j]))
      BY <3>2 DEF Parts
    <3>4. e # d
      <4>1. ASSUME e = d PROVE FALSE
        <5>1. j \in 1 .. Len(p) /\ j < Len(p) /\ p[j] \in Keys /\ x \in Keys
          BY <1>1, <1>2, <3>3
        <5>2. Before(d, n, p[j])
          <6> HIDE DEF n
          <6> QED BY <1>1, <3>3, <4>1, <5>1, Nested
        <5>3. Before(Other(d), p[j], n)
          <6> HIDE DEF n
          <6> QED BY <1>1, <5>1, <5>2, Order
        <5>4. Before(Other(d), x, n)
          <6> HIDE DEF n
          <6> QED BY <1>0, <1>1, <3>3, <4>1, <5>1, <5>3, Order
        <5>5. ~(Before(d, x, n) /\ Before(Other(d), x, n))
          <6> HIDE DEF n
          <6> QED BY <1>1, <5>1, Order
        <5> QED BY <2>1, <5>4, <5>5
      <4> QED BY <4>1
    <3>5. e = Other(d) /\ Other(e) = d
      BY <1>0, <3>3, <3>4
    <3> QED BY <3>3, <3>5
  <2>2. CASE ups = {}
    <3>1. r = <<>>
      BY <1>3, <1>5, <2>2
    <3>2. \A x \in E : ~Before(d, x, n)
      BY <2>1, <2>2
    <3> QED BY <3>1, <3>2 DEF r
  <2>3. CASE ups # {}
    <3> DEFINE m == Max(ups)
    <3>1. m \in ups /\ \A i \in ups : i <= m
      <4>1. Len(p) - 1 \in Nat /\ ups \in SUBSET (1 .. Len(p) - 1)
        BY <1>1
      <4> HIDE DEF ups
      <4> QED BY <2>3, <4>1, GreatestNumber
    <3>2. r = SubSeq(p, 1, m)
      BY <1>3, <1>5, <2>3
    <3> HIDE DEF m
    <3>3. m \in 1 .. Len(p) /\ m < Len(p) /\ t.kid[Other(d)][p[m]] = p[m + 1] /\ p[m] \in E /\ p[m] \in Keys
      BY <1>1, <3>1
    <3>4. Way(t, E, r) /\ Last(r) = p[m]
      BY <3>2, <3>3, WayPart
    <3>5. Before(d, p[m], n)
      <4>1. Before(Other(d), n, p[m])
        <5> HIDE DEF n
        <5> QED BY <1>0, <1>1, <3>3, Nested
      <4> HIDE DEF n
      <4> QED BY <1>0, <1>1, <3>3, <4>1, Order
    <3>6. ASSUME NEW x \in E, Before(d, x, n) PROVE x = p[m] \/ Before(d, x, p[m])
      <4>1. PICK j \in ups : x \in U[p[j]] /\ (x = p[j] \/ Before(d, x, p[j]))
        BY <2>1, <3>6
      <4>2. CASE j = m
        BY <4>1, <4>2
      <4>3. CASE j # m
        <5>1. j <= m /\ j \in 1 .. Len(p) - 1 /\ t.kid[Other(d)][p[j]] = p[j + 1]
          BY <3>1, <4>1
        <5>2. j < m /\ j \in 1 .. m /\ p[j] \in Keys /\ x \in Keys /\ p[m] \in U[p[m]]
          <6>1. p[m] \in U[p[m]]
            BY <3>3, Kids
          <6> QED BY <1>1, <1>2, <3>3, <4>3, <5>1, <6>1
        <5>3. Before(Other(d), p[m], p[j])
          BY <1>0, <3>3, <5>1, <5>2, Nested
        <5>4. Before(d, p[j], p[m])
          BY <1>0, <3>3, <5>2, <5>3, Order
        <5> QED BY <1>0, <3>3, <4>1, <5>2, <5>4, Order
      <4> QED BY <4>2, <4>3
    <3>7. Nearest(E, d, n, p[m])
      BY <3>3, <3>5, <3>6 DEF Nearest
    <3> QED BY <3>4, <3>7 DEF r
  <2> QED BY <2>2, <2>3
<1> QED BY <1>4, <1>5 DEF r

(* Where i_first and i_last leave it.                                        *)
LEMMA OutermostIs ==
  ASSUME NEW t, NEW E, NEW U, NEW P, Shape(t, E, U, P), t.root # NULL, NEW d \in Sides
  PROVE  /\ Way(t, E, Spine(t, t.root, d)) /\ Last(Spine(t, t.root, d)) \in E
         /\ \A x \in E : x = Last(Spine(t, t.root, d)) \/ Before(Other(d), x, Last(Spine(t, t.root, d)))
<1>1. t.root \in E /\ U[t.root] = E
  BY DEF Shape
<1>2. Along(t, E, U, d, t.root, Spine(t, t.root, d))
  BY <1>1, SpineEnds
<1>3. Way(t, E, Spine(t, t.root, d)) /\ Last(Spine(t, t.root, d)) \in E
  BY <1>2, AlongIsWay
<1> QED BY <1>1, <1>2, <1>3 DEF Along

-----------------------------------------------------------------------------
(* Sizes and heights                                                        *)

(* The elements at a node are itself and those of its two sides.             *)
LEMMA BelowIs ==
  ASSUME NEW t, NEW E, NEW U, NEW P, Shape(t, E, U, P), NEW n \in E
  PROVE  /\ U[n] = {n} \cup U[t.kid["L"][n]] \cup U[t.kid["R"][n]]
         /\ \A d \in Sides : IsFiniteSet(U[t.kid[d][n]]) /\ Cardinality(U[t.kid[d][n]]) \in Nat
         /\ Cardinality(U[n]) = 1 + Cardinality(U[t.kid["L"][n]]) + Cardinality(U[t.kid["R"][n]])
         /\ IsFiniteSet(U[n]) /\ Cardinality(U[n]) \in Nat
<1> DEFINE l == U[t.kid["L"][n]]
           r == U[t.kid["R"][n]]
<1>1. /\ E \subseteq Keys /\ IsFiniteSet(E) /\ U \in [Node -> SUBSET E]
      /\ \A d \in Sides : t.kid[d][n] \in Node
      /\ \A d \in Sides, x \in E : x \in U[t.kid[d][n]] <=> x \in U[n] /\ Before(d, x, n)
  <2>1. \A d \in Sides : t.kid[d][n] \in Node
    BY Kids
  <2> QED BY <2>1 DEF Shape
<1>2. n \in U[n] /\ U[n] \subseteq E /\ n \in Keys
  BY Kids, TwoSides
<1>3. "L" \in Sides /\ "R" \in Sides /\ Other("L") = "R"
  BY DEF Sides, Other
<1>4. l \subseteq E /\ r \subseteq E /\ \A d \in Sides : U[t.kid[d][n]] \subseteq E
  BY <1>1, <1>3
<1>5. \A x \in E : (x \in l <=> x \in U[n] /\ Before("L", x, n)) /\ (x \in r <=> x \in U[n] /\ Before("R", x, n))
  BY <1>1, <1>3
<1> HIDE DEF l, r
<1>6. \A x \in E : /\ ~(Before("L", x, n) /\ Before("R", x, n)) /\ ~Before("L", n, n) /\ ~Before("R", n, n)
                   /\ x # n => Before("L", x, n) \/ Before("R", x, n)
  BY <1>1, <1>2, <1>3, Order
<1>7. U[n] = ({n} \cup l) \cup r
  BY <1>2, <1>4, <1>5, <1>6
<1>8. n \notin l /\ ({n} \cup l) \cap r = {}
  BY <1>2, <1>4, <1>5, <1>6
<1>9. \A d \in Sides : IsFiniteSet(U[t.kid[d][n]]) /\ Cardinality(U[t.kid[d][n]]) \in Nat
  BY <1>1, <1>4, FS_Subset, FS_CardinalityType
<1>10. IsFiniteSet(l) /\ IsFiniteSet(r) /\ Cardinality(l) \in Nat /\ Cardinality(r) \in Nat
  BY <1>3, <1>9 DEF l, r
<1>11. IsFiniteSet({n} \cup l) /\ Cardinality({n} \cup l) = Cardinality(l) + 1
  <2>1. {n} \cup l = l \cup {n}
    OBVIOUS
  <2> QED BY <1>8, <1>10, <2>1, FS_AddElement
<1>12. IsFiniteSet(U[n]) /\ Cardinality(U[n]) = 1 + Cardinality(l) + Cardinality(r)
  <2>1. Cardinality(({n} \cup l) \cup r) = Cardinality({n} \cup l) + Cardinality(r) /\ IsFiniteSet(({n} \cup l) \cup r)
    <3>1. Cardinality(({n} \cup l) \cap r) = 0
      BY <1>8, FS_EmptySet
    <3>2. /\ IsFiniteSet(({n} \cup l) \cup r)
          /\ Cardinality(({n} \cup l) \cup r)
               = Cardinality({n} \cup l) + Cardinality(r) - Cardinality(({n} \cup l) \cap r)
      BY <1>10, <1>11, FS_Union
    <3> QED BY <1>10, <1>11, <3>1, <3>2
  <2> QED BY <1>7, <1>10, <1>11, <2>1
<1> QED BY <1>7, <1>9, <1>10, <1>12 DEF l, r

(* A subtree of black height b has at least 2^b - 1 nodes.                    *)
LEMMA SizeBound ==
  ASSUME NEW t, NEW E, NEW U, NEW P, Shape(t, E, U, P), NEW B, Balanced(t, E, B, NULL, "L"), NEW n \in E
  PROVE  B[n] + 1 <= Log2[Cardinality(U[n]) + 1]
<1> DEFINE Big(m) == B[m] + 1 <= Log2[Cardinality(U[m]) + 1]
           H == {i \in Nat : \A m \in E : Cardinality(U[m]) = i => Big(m)}
<1>1. /\ B \in [Node -> Nat] /\ B[NULL] = 0 /\ U[NULL] = {} /\ NULL \in Node
      /\ \A m \in E : m \in Node /\ m # NULL
      /\ \A m \in E, d \in Sides : B[t.kid[d][m]] + 0 + Weight(t, m) = B[m]
  <2>1. E \subseteq Keys /\ NULL \notin Keys /\ U[NULL] = {}
    BY RBTreeAssumption DEF Shape
  <2>2. \A m \in E : m \in Node /\ m # NULL
    BY <2>1 DEF Node
  <2> QED BY <2>1, <2>2 DEF Balanced, Node
<1>2. Big(NULL)
  <2>1. Cardinality(U[NULL]) = 0
    BY <1>1, FS_EmptySet
  <2> QED BY <1>1, <2>1, Log2Grows
<1>3. ASSUME NEW i \in Nat, \A j \in Nat : j < i => j \in H PROVE i \in H
  <2>1. ASSUME NEW m \in E, Cardinality(U[m]) = i PROVE Big(m)
    <3> DEFINE l == t.kid["L"][m]
               r == t.kid["R"][m]
    <3>1. /\ Cardinality(U[l]) \in Nat /\ Cardinality(U[r]) \in Nat
          /\ i = 1 + Cardinality(U[l]) + Cardinality(U[r])
      BY <2>1, BelowIs, TwoSides
    <3>2. l \in E \cup {NULL} /\ r \in E \cup {NULL}
      BY Kids, TwoSides
    <3>3. B[l] + 0 + Weight(t, m) = B[m] /\ B[r] + 0 + Weight(t, m) = B[m]
      BY <1>1, TwoSides
    <3> HIDE DEF l, r
    <3>4. Big(l) /\ Big(r)
      <4>1. ASSUME NEW c \in {l, r} PROVE Big(c)
        <5>1. Cardinality(U[c]) \in Nat /\ Cardinality(U[c]) < i
          BY <3>1
        <5>2. CASE c = NULL
          BY <1>2, <5>2
        <5>3. CASE c # NULL
          <6>1. c \in E /\ Cardinality(U[c]) \in H
            BY <1>3, <3>2, <5>1, <5>3
          <6> QED BY <6>1
        <5> QED BY <5>2, <5>3
      <4> QED BY <4>1
    <3>5. B[l] \in Nat /\ B[r] \in Nat /\ B[m] \in Nat /\ Weight(t, m) \in {0, 1}
      BY <1>1, <3>2 DEF Weight
    <3> DEFINE x == Cardinality(U[l])
               y == Cardinality(U[r])
    <3>6. Log2[x + 1] \in Nat /\ Log2[y + 1] \in Nat /\ Log2[i + 1] \in Nat
      BY <3>1, Log2Is
    <3>7. CASE Weight(t, m) = 0
      <4>1. x + 1 \in Nat /\ i + 1 \in Nat /\ x + 1 <= i + 1
        BY <3>1
      <4> HIDE DEF x
      <4>2. Log2[x + 1] <= Log2[i + 1]
        BY <4>1, Log2Grows
      <4>3. B[l] + 1 <= Log2[x + 1]
        BY <3>4 DEF x
      <4> QED BY <2>1, <3>3, <3>5, <3>6, <3>7, <4>2, <4>3
    <3>8. CASE Weight(t, m) = 1
      <4>1. PICK c \in {l, r} : 2 * (Cardinality(U[c]) + 1) <= i + 1 /\ Cardinality(U[c]) \in Nat
        <5>1. CASE x <= y
          BY <3>1, <5>1
        <5>2. CASE ~(x <= y)
          BY <3>1, <5>2
        <5> QED BY <5>1, <5>2
      <4> DEFINE z == Cardinality(U[c]) + 1
      <4>2. z \in Nat /\ z # 0 /\ 2 * z \in Nat /\ 2 * z <= i + 1 /\ i + 1 \in Nat
        BY <4>1
      <4>3. B[c] + 1 <= Log2[z] /\ B[c] + 0 + 1 = B[m]
        BY <3>3, <3>4, <3>8, <4>1
      <4> HIDE DEF z
      <4>4. Log2[2 * z] = 1 + Log2[z] /\ Log2[2 * z] <= Log2[i + 1] /\ Log2[z] \in Nat /\ Log2[2 * z] \in Nat
        BY <4>2, Log2Grows, Log2Is
      <4>5. B[c] \in Nat
        BY <3>5, <4>1
      <4> QED BY <2>1, <3>5, <3>6, <4>3, <4>4, <4>5
    <3> QED BY <3>5, <3>7, <3>8
  <2> QED BY <2>1
<1>4. H = Nat
  <2>1. H \in SUBSET Nat
    OBVIOUS
  <2> HIDE DEF H
  <2> QED BY <1>3, <2>1, FromBelow
<1>5. Cardinality(U[n]) \in Nat
  BY BelowIs
<1>6. Cardinality(U[n]) \in H
  BY <1>4, <1>5
<1> QED BY <1>6

(* No way down is longer than twice the black height.                        *)
LEMMA HeightBound ==
  ASSUME NEW t, NEW E, Sound(t, E), NEW p, Way(t, E, p)
  PROVE  Len(p) + 2 <= 2 * Log2[Cardinality(E) + 1]
<1>1. PICK U, P, B : SoundBy(t, E, U, P, B)
  BY DEF Sound
<1>2. Shape(t, E, U, P) /\ Balanced(t, E, B, NULL, "L") /\ Calm(t, NULL) /\ t.root \notin t.red
  BY <1>1 DEF SoundBy
<1>3. /\ p \in Seq(Keys) /\ Len(p) \in Nat /\ Len(p) \in 1 .. Len(p) /\ p[1] = t.root
      /\ \A j \in 1 .. Len(p) : p[j] \in E
      /\ \A j \in 1 .. Len(p) - 1 : \E d \in Sides : t.kid[d][p[j]] = p[j + 1]
  BY <1>2, WayIs
<1>4. /\ B \in [Node -> Nat] /\ B[NULL] = 0 /\ NULL \notin E /\ E \subseteq Node
      /\ \A m \in E, d \in Sides : B[t.kid[d][m]] + 0 + Weight(t, m) = B[m]
      /\ U[t.root] = E /\ t.red \subseteq E
  <2>1. E \subseteq Keys /\ NULL \notin Keys /\ U[t.root] = E /\ t.red \subseteq E
    BY <1>2, RBTreeAssumption DEF Shape
  <2>2. NULL \notin E /\ E \subseteq Node
    BY <2>1 DEF Node
  <2> QED BY <1>2, <2>1, <2>2 DEF Balanced
<1> DEFINE Fits(j) == 2 * B[p[j]] + j - Weight(t, p[j]) <= 2 * B[t.root]
           H == {j \in Nat : j + 1 \in 1 .. Len(p) => Fits(j + 1)}
<1>5. \A j \in 1 .. Len(p) : B[p[j]] \in Nat /\ Weight(t, p[j]) \in {0, 1}
  BY <1>3, <1>4 DEF Weight
<1>6. 0 \in H
  <2>1. 1 \in 1 .. Len(p) /\ Weight(t, p[1]) = 1
    BY <1>2, <1>3 DEF Weight
  <2>2. B[p[1]] \in Nat
    BY <1>5, <2>1
  <2> QED BY <1>3, <2>1, <2>2
<1>7. ASSUME NEW j \in 1 .. Len(p), j - 1 \in H PROVE j \in H
  <2>1. ASSUME j + 1 \in 1 .. Len(p) PROVE Fits(j + 1)
    <3>1. j \in 1 .. Len(p) - 1 /\ (j - 1) + 1 = j /\ j \in 1 .. Len(p)
      BY <1>3, <2>1
    <3>2. Fits(j)
      BY <1>7, <3>1
    <3>3. PICK d \in Sides : t.kid[d][p[j]] = p[j + 1]
      BY <1>3, <3>1
    <3>4. p[j] \in E /\ p[j + 1] \in E /\ p[j] # NULL
      BY <1>3, <1>4, <2>1
    <3>5. B[p[j + 1]] + 0 + Weight(t, p[j]) = B[p[j]]
      BY <1>4, <3>3, <3>4
    <3>6. Weight(t, p[j]) = 0 => Weight(t, p[j + 1]) = 1
      <4>1. ASSUME p[j] \in t.red PROVE p[j + 1] \notin t.red
        <5>1. p[j + 1] # NULL
          BY <1>4, <3>4
        <5> QED BY <1>2, <3>3, <3>4, <4>1, <5>1 DEF Calm
      <4> QED BY <4>1 DEF Weight
    <3>7. /\ B[p[j]] \in Nat /\ B[p[j + 1]] \in Nat /\ Weight(t, p[j]) \in {0, 1}
          /\ Weight(t, p[j + 1]) \in {0, 1} /\ B[t.root] \in Nat /\ j \in Nat
      <4>1. 1 \in 1 .. Len(p)
        BY <1>3
      <4> QED BY <1>3, <1>5, <2>1, <3>1, <4>1
    <3> DEFINE b == B[p[j]]
               c == B[p[j + 1]]
               v == Weight(t, p[j])
               w == Weight(t, p[j + 1])
               h == B[t.root]
    <3>8. /\ b \in Nat /\ c \in Nat /\ (v = 0 \/ v = 1) /\ (w = 0 \/ w = 1) /\ h \in Nat /\ j \in Nat
          /\ 2 * b + j - v <= 2 * h /\ c + 0 + v = b /\ (v = 0 => w = 1)
      BY <3>2, <3>5, <3>6, <3>7
    <3> HIDE DEF b, c, v, w, h
    <3>9. 2 * c + (j + 1) - w <= 2 * h
      BY <3>8
    <3> QED BY <3>9 DEF b, c, v, w, h
  <2> HIDE DEF Fits
  <2> QED BY <1>3, <2>1
<1>8. Fits(Len(p))
  <2>1. H \in SUBSET Nat
    OBVIOUS
  <2> HIDE DEF H
  <2>2. \A i \in 0 .. Len(p) : i \in H
    BY <1>3, <1>6, <1>7, <2>1, UpTo
  <2>3. Len(p) - 1 \in H /\ (Len(p) - 1) + 1 = Len(p)
    BY <1>3, <2>2
  <2> HIDE DEF Fits
  <2> QED BY <1>3, <2>3 DEF H
<1>9. Weight(t, p[Len(p)]) <= B[p[Len(p)]]
  <2>1. p[Len(p)] \in E /\ "L" \in Sides
    BY <1>3, TwoSides
  <2>2. B[t.kid["L"][p[Len(p)]]] + 0 + Weight(t, p[Len(p)]) = B[p[Len(p)]]
    BY <1>4, <2>1
  <2>3. t.kid["L"][p[Len(p)]] \in Node
    BY <1>2, <2>1, Kids
  <2>4. B[t.kid["L"][p[Len(p)]]] \in Nat /\ Weight(t, p[Len(p)]) \in Nat
    BY <1>4, <2>3 DEF Weight
  <2> QED BY <2>2, <2>4
<1>10. t.root \in E
  BY <1>3
<1>11. B[t.root] + 1 <= Log2[Cardinality(E) + 1]
  BY <1>2, <1>4, <1>10, SizeBound
<1>12. Log2[Cardinality(E) + 1] \in Nat
  <2>1. Cardinality(E) \in Nat
    BY <1>2, FS_CardinalityType DEF Shape
  <2>2. Cardinality(E) + 1 \in Nat
    BY <2>1
  <2> QED BY <2>2, Log2Is
<1>13. /\ B[p[Len(p)]] \in Nat /\ Weight(t, p[Len(p)]) \in {0, 1} /\ B[t.root] \in Nat
  BY <1>3, <1>4, <1>5, <1>10
<1> DEFINE b == B[p[Len(p)]]
           w == Weight(t, p[Len(p)])
           h == B[t.root]
           g == Log2[Cardinality(E) + 1]
           n == Len(p)
<1>14. /\ b \in Nat /\ (w = 0 \/ w = 1) /\ h \in Nat /\ g \in Nat /\ n \in Nat
       /\ 2 * b + n - w <= 2 * h /\ w <= b /\ h + 1 <= g
  BY <1>3, <1>8, <1>9, <1>11, <1>12, <1>13
<1> HIDE DEF b, w, h, g, n
<1>15. n + 2 <= 2 * g
  BY <1>14
<1> QED BY <1>15 DEF g, n

-----------------------------------------------------------------------------
(* The two recursive functions of the properties                            *)

(* A rank that puts NULL below every key. *)
Depth(E, U) == [m \in Node |-> IF m = NULL THEN 0 ELSE 1 + Rank(E, U)[m]]

(* It falls from a node to its kids. *)
LEMMA DepthFalls ==
  ASSUME NEW t, NEW E, NEW U, NEW P, Shape(t, E, U, P)
  PROVE  /\ Ranked(Depth(E, U), Node)
         /\ \A m \in Keys, d \in Sides : t.kid[d][m] \in Node /\ Depth(E, U)[t.kid[d][m]] < Depth(E, U)[m]
<1>1. /\ Rank(E, U) \in [Keys -> Nat]
      /\ \A m \in Keys, d \in Sides : t.kid[d][m] # NULL => Rank(E, U)[t.kid[d][m]] < Rank(E, U)[m]
  BY RankFalls
<1>2. NULL \notin Keys
  BY RBTreeAssumption
<1> DEFINE r == Rank(E, U)
           e == Depth(E, U)
<1>3. e = [m \in Node |-> IF m = NULL THEN 0 ELSE 1 + r[m]]
  BY DEF Depth
<1> HIDE DEF r, e
<1>4. r \in [Keys -> Nat]
  BY <1>1 DEF r
<1>5. e \in [Node -> Nat]
  BY <1>3, <1>4 DEF Node
<1>6. ASSUME NEW m \in Keys, NEW d \in Sides PROVE t.kid[d][m] \in Node /\ e[t.kid[d][m]] < e[m]
  <2>1. t.kid[d][m] \in Node
    BY DEF Shape, TreeType, Node
  <2>2. m \in Node /\ m # NULL /\ r[m] \in Nat
    BY <1>2, <1>4 DEF Node
  <2>3. CASE t.kid[d][m] = NULL
    BY <1>3, <2>1, <2>2, <2>3
  <2>4. CASE t.kid[d][m] # NULL
    <3>1. t.kid[d][m] \in Keys /\ r[t.kid[d][m]] < r[m]
      BY <1>1, <2>1, <2>4 DEF Node, r
    <3>2. r[t.kid[d][m]] \in Nat
      BY <1>4, <3>1
    <3> QED BY <1>3, <2>1, <2>2, <2>4, <3>1, <3>2
  <2> QED BY <2>3, <2>4
<1> QED BY <1>5, <1>6 DEF Ranked, e

NodesIn(t) ==
  CHOOSE g : g = [n \in Keys \cup {NULL} |->
                    IF n = NULL THEN {} ELSE {n} \cup g[t.kid["L"][n]] \cup g[t.kid["R"][n]]]

(* Nodes collects what is at and below a node. *)
LEMMA NodesInIs ==
  ASSUME NEW t, NEW E, NEW U, NEW P, Shape(t, E, U, P)
  PROVE  \A n \in E \cup {NULL} : NodesIn(t)[n] = U[n]
<1> DEFINE V == SUBSET Keys
           D == [a \in Node \X [Node -> V] |->
                   IF a[1] = NULL THEN {}
                   ELSE {a[1]} \cup a[2][t.kid["L"][a[1]]] \cup a[2][t.kid["R"][a[1]]]]
           Def(g) == [n \in Keys \cup {NULL} |->
                        IF n = NULL THEN {} ELSE {n} \cup g[t.kid["L"][n]] \cup g[t.kid["R"][n]]]
           r == Depth(E, U)
           f == NodesIn(t)
<1>0. "L" \in Sides /\ "R" \in Sides
  BY TwoSides
<1>1. /\ Ranked(r, Node)
      /\ \A m \in Keys, d \in Sides : t.kid[d][m] \in Node /\ r[t.kid[d][m]] < r[m]
  BY DepthFalls
<1> HIDE DEF r
<1>2. \A m \in Node : m # NULL => m \in Keys
  BY DEF Node
<1>3. ASSUME NEW m \in Node, NEW g \in [Node -> V]
      PROVE  (IF m = NULL THEN {} ELSE {m} \cup g[t.kid["L"][m]] \cup g[t.kid["R"][m]]) \in V
  <2>1. CASE m = NULL
    BY <2>1
  <2>2. CASE m # NULL
    <3>1. m \in Keys /\ t.kid["L"][m] \in Node /\ t.kid["R"][m] \in Node
      BY <1>0, <1>1, <1>2, <2>2
    <3>2. g[t.kid["L"][m]] \in V /\ g[t.kid["R"][m]] \in V
      BY <3>1
    <3> QED BY <2>2, <3>1, <3>2
  <2> QED BY <2>1, <2>2
<1>4. D \in [Node \X [Node -> V] -> V]
  <2> HIDE DEF V
  <2> QED BY <1>3
<1>5. ASSUME NEW m \in Node, NEW g \in [Node -> V]
      PROVE  D[<<m, g>>] = IF m = NULL THEN {} ELSE {m} \cup g[t.kid["L"][m]] \cup g[t.kid["R"][m]]
  <2> HIDE DEF V
  <2> QED OBVIOUS
<1>6. {} \in V
  OBVIOUS
<1> HIDE DEF D, V
<1>7. Reduces(D, r, Node, V)
  <2>1. ASSUME NEW m \in Node, NEW g \in [Node -> V], NEW h \in [Node -> V],
               \A y \in Node : r[y] < r[m] => g[y] = h[y]
        PROVE  D[<<m, g>>] = D[<<m, h>>]
    <3>1. m # NULL => g[t.kid["L"][m]] = h[t.kid["L"][m]] /\ g[t.kid["R"][m]] = h[t.kid["R"][m]]
      BY <1>0, <1>1, <1>2, <2>1
    <3>2. D[<<m, g>>] = IF m = NULL THEN {} ELSE {m} \cup g[t.kid["L"][m]] \cup g[t.kid["R"][m]]
      BY <1>5
    <3>3. D[<<m, h>>] = IF m = NULL THEN {} ELSE {m} \cup h[t.kid["L"][m]] \cup h[t.kid["R"][m]]
      BY <1>5
    <3> QED BY <3>1, <3>2, <3>3
  <2> QED BY <1>4, <2>1 DEF Reduces
<1>8. PICK h : Solves(h, D, Node, V)
  BY <1>1, <1>6, <1>7, RankRecursion
<1>9. h \in [Node -> V] /\ \A m \in Node : h[m] = D[<<m, h>>]
  BY <1>8 DEF Solves
<1>10. \A m \in Node : h[m] = IF m = NULL THEN {} ELSE {m} \cup h[t.kid["L"][m]] \cup h[t.kid["R"][m]]
  BY <1>5, <1>9
<1>11. h = Def(h)
  BY <1>9, <1>10 DEF Node
<1>12. f = Def(f)
  <2>1. f = CHOOSE g : g = Def(g)
    BY Zenon DEF NodesIn
  <2> HIDE DEF Def, f
  <2> QED BY <1>11, <2>1, Zenon
<1> HIDE DEF f
<1>13. \A m \in Node : f[m] = IF m = NULL THEN {} ELSE {m} \cup f[t.kid["L"][m]] \cup f[t.kid["R"][m]]
  BY <1>12, Zenon DEF Node
<1> HIDE DEF Def
<1>14. /\ U[NULL] = {} /\ NULL \in Node /\ E \subseteq Keys
       /\ \A m \in E : m \in Node /\ m # NULL /\ m \in Keys
  <2>1. E \subseteq Keys /\ U[NULL] = {}
    BY DEF Shape
  <2> QED BY <2>1, RBTreeAssumption DEF Node
<1>15. f[NULL] = U[NULL]
  BY <1>13, <1>14
<1> DEFINE H == {i \in Nat : \A m \in E : Cardinality(U[m]) = i => f[m] = U[m]}
<1>16. ASSUME NEW i \in Nat, \A j \in Nat : j < i => j \in H PROVE i \in H
  <2>1. ASSUME NEW m \in E, Cardinality(U[m]) = i PROVE f[m] = U[m]
    <3>1. /\ U[m] = {m} \cup U[t.kid["L"][m]] \cup U[t.kid["R"][m]]
          /\ Cardinality(U[t.kid["L"][m]]) \in Nat /\ Cardinality(U[t.kid["R"][m]]) \in Nat
          /\ i = 1 + Cardinality(U[t.kid["L"][m]]) + Cardinality(U[t.kid["R"][m]])
      BY <1>0, <2>1, BelowIs
    <3>2. ASSUME NEW d \in Sides PROVE f[t.kid[d][m]] = U[t.kid[d][m]]
      <4> DEFINE c == t.kid[d][m]
      <4>1. c \in E \cup {NULL}
        BY Kids
      <4>2. Cardinality(U[c]) \in Nat /\ Cardinality(U[c]) < i
        <5>1. d = "L" \/ d = "R"
          BY DEF Sides
        <5> QED BY <3>1, <5>1
      <4> HIDE DEF c
      <4>3. CASE c = NULL
        BY <1>15, <4>3 DEF c
      <4>4. CASE c # NULL
        <5>1. c \in E /\ Cardinality(U[c]) \in H
          BY <1>16, <4>1, <4>2, <4>4
        <5>2. f[c] = U[c]
          BY <5>1
        <5> QED BY <5>2 DEF c
      <4> QED BY <4>3, <4>4
    <3>3. f[m] = {m} \cup f[t.kid["L"][m]] \cup f[t.kid["R"][m]]
      BY <1>13, <1>14
    <3> QED BY <1>0, <3>1, <3>2, <3>3
  <2> QED BY <2>1
<1>17. H = Nat
  <2>1. H \in SUBSET Nat
    OBVIOUS
  <2> HIDE DEF H
  <2> QED BY <1>16, <2>1, FromBelow
<1>18. ASSUME NEW m \in E PROVE f[m] = U[m]
  <2>1. Cardinality(U[m]) \in Nat
    BY BelowIs
  <2>2. Cardinality(U[m]) \in H
    BY <1>17, <2>1
  <2> QED BY <2>2
<1>19. \A n \in E \cup {NULL} : f[n] = U[n]
  BY <1>15, <1>18
<1> QED BY <1>19 DEF f

BlackHeightIn(t) ==
  CHOOSE g : g = [n \in Keys \cup {NULL} |->
                    IF n = NULL THEN 0
                    ELSE LET l == g[t.kid["L"][n]]
                             r == g[t.kid["R"][n]]
                         IN IF l # r \/ l = -1 THEN -1 ELSE l + (IF n \in t.red THEN 0 ELSE 1)]

(* BlackHeight counts the black nodes of every way down, and never differs.  *)
LEMMA BlackHeightInIs ==
  ASSUME NEW t, NEW E, NEW U, NEW P, Shape(t, E, U, P), NEW B, Balanced(t, E, B, NULL, "L")
  PROVE  \A n \in E \cup {NULL} : BlackHeightIn(t)[n] = B[n]
<1> DEFINE V == Int
           Of(n, l, r) == IF l # r \/ l = -1 THEN -1 ELSE l + (IF n \in t.red THEN 0 ELSE 1)
           D == [a \in Node \X [Node -> V] |->
                   IF a[1] = NULL THEN 0
                   ELSE Of(a[1], a[2][t.kid["L"][a[1]]], a[2][t.kid["R"][a[1]]])]
           Def(g) == [n \in Keys \cup {NULL} |->
                        IF n = NULL THEN 0 ELSE Of(n, g[t.kid["L"][n]], g[t.kid["R"][n]])]
           r == Depth(E, U)
           f == BlackHeightIn(t)
<1>0. "L" \in Sides /\ "R" \in Sides
  BY TwoSides
<1>1. /\ Ranked(r, Node)
      /\ \A m \in Keys, d \in Sides : t.kid[d][m] \in Node /\ r[t.kid[d][m]] < r[m]
  BY DepthFalls
<1> HIDE DEF r
<1>2. \A m \in Node : m # NULL => m \in Keys
  BY DEF Node
<1>3. \A n, x, y : x \in V => Of(n, x, y) \in V
  OBVIOUS
<1>12. f = Def(f) \/ \A h : h # Def(h)
  <2>1. f = CHOOSE g : g = Def(g)
    BY Zenon DEF BlackHeightIn
  <2> HIDE DEF Def, f
  <2> QED BY <2>1, Zenon
<1>4. D \in [Node \X [Node -> V] -> V]
  <2>1. ASSUME NEW m \in Node, NEW g \in [Node -> V]
        PROVE  (IF m = NULL THEN 0 ELSE Of(m, g[t.kid["L"][m]], g[t.kid["R"][m]])) \in V
    <3>1. m # NULL => g[t.kid["L"][m]] \in V
      BY <1>0, <1>1, <1>2
    <3> HIDE DEF Of
    <3> QED BY <1>3, <3>1
  <2> HIDE DEF V, Of
  <2> QED BY <2>1
<1> HIDE DEF Of
<1>5. ASSUME NEW m \in Node, NEW g \in [Node -> V]
      PROVE  D[<<m, g>>] = IF m = NULL THEN 0 ELSE Of(m, g[t.kid["L"][m]], g[t.kid["R"][m]])
  <2> HIDE DEF V
  <2> QED OBVIOUS
<1>6. 0 \in V
  OBVIOUS
<1> HIDE DEF D, V
<1>7. Reduces(D, r, Node, V)
  <2>1. ASSUME NEW m \in Node, NEW g \in [Node -> V], NEW h \in [Node -> V],
               \A y \in Node : r[y] < r[m] => g[y] = h[y]
        PROVE  D[<<m, g>>] = D[<<m, h>>]
    <3>1. m # NULL => g[t.kid["L"][m]] = h[t.kid["L"][m]] /\ g[t.kid["R"][m]] = h[t.kid["R"][m]]
      BY <1>0, <1>1, <1>2, <2>1
    <3>2. D[<<m, g>>] = IF m = NULL THEN 0 ELSE Of(m, g[t.kid["L"][m]], g[t.kid["R"][m]])
      BY <1>5
    <3>3. D[<<m, h>>] = IF m = NULL THEN 0 ELSE Of(m, h[t.kid["L"][m]], h[t.kid["R"][m]])
      BY <1>5
    <3> QED BY <3>1, <3>2, <3>3
  <2> QED BY <1>4, <2>1 DEF Reduces
<1>8. PICK h : Solves(h, D, Node, V)
  BY <1>1, <1>6, <1>7, RankRecursion
<1>9. h \in [Node -> V] /\ \A m \in Node : h[m] = D[<<m, h>>]
  BY <1>8 DEF Solves
<1>10. \A m \in Node : h[m] = IF m = NULL THEN 0 ELSE Of(m, h[t.kid["L"][m]], h[t.kid["R"][m]])
  BY <1>5, <1>9
<1>11. h = Def(h)
  BY <1>9, <1>10 DEF Node
<1> HIDE DEF f
<1>13. \A m \in Node : f[m] = IF m = NULL THEN 0 ELSE Of(m, f[t.kid["L"][m]], f[t.kid["R"][m]])
  <2>1. f = Def(f)
    <3> HIDE DEF Def
    <3> QED BY <1>11, <1>12
  <2> QED BY <2>1 DEF Node
<1> HIDE DEF Def
<1>14. /\ B[NULL] = 0 /\ NULL \in Node /\ E \subseteq Keys /\ B \in [Node -> Nat]
       /\ \A m \in E : m \in Node /\ m # NULL /\ m \in Keys
       /\ \A m \in E, d \in Sides : B[t.kid[d][m]] + 0 + Weight(t, m) = B[m]
  <2>1. E \subseteq Keys
    BY DEF Shape
  <2>2. NULL \in Node /\ \A m \in E : m \in Node /\ m # NULL /\ m \in Keys
    BY <2>1, RBTreeAssumption DEF Node
  <2> QED BY <2>1, <2>2 DEF Balanced
<1>15. f[NULL] = B[NULL]
  BY <1>13, <1>14
<1> DEFINE H == {i \in Nat : \A m \in E : Cardinality(U[m]) = i => f[m] = B[m]}
<1>16. ASSUME NEW i \in Nat, \A j \in Nat : j < i => j \in H PROVE i \in H
  <2>1. ASSUME NEW m \in E, Cardinality(U[m]) = i PROVE f[m] = B[m]
    <3>1. /\ Cardinality(U[t.kid["L"][m]]) \in Nat /\ Cardinality(U[t.kid["R"][m]]) \in Nat
          /\ i = 1 + Cardinality(U[t.kid["L"][m]]) + Cardinality(U[t.kid["R"][m]])
      BY <1>0, <2>1, BelowIs
    <3>2. ASSUME NEW d \in Sides
          PROVE  f[t.kid[d][m]] = B[t.kid[d][m]] /\ B[t.kid[d][m]] \in Nat
      <4> DEFINE c == t.kid[d][m]
      <4>1. c \in E \cup {NULL}
        BY Kids
      <4>2. Cardinality(U[c]) \in Nat /\ Cardinality(U[c]) < i
        <5>1. d = "L" \/ d = "R"
          BY DEF Sides
        <5> QED BY <3>1, <5>1
      <4> HIDE DEF c
      <4>3. CASE c = NULL
        BY <1>14, <1>15, <4>3 DEF c
      <4>4. CASE c # NULL
        <5>1. c \in E /\ Cardinality(U[c]) \in H
          BY <1>16, <4>1, <4>2, <4>4
        <5>2. f[c] = B[c] /\ B[c] \in Nat
          BY <1>14, <5>1
        <5> QED BY <5>2 DEF c
      <4> QED BY <4>3, <4>4
    <3>3. f[m] = Of(m, f[t.kid["L"][m]], f[t.kid["R"][m]])
      BY <1>13, <1>14
    <3> DEFINE l == B[t.kid["L"][m]]
    <3>4. /\ f[t.kid["L"][m]] = l /\ l \in Nat
          /\ f[t.kid["R"][m]] = B[t.kid["R"][m]] /\ B[t.kid["R"][m]] \in Nat
      BY <1>0, <3>2
    <3>5. l + 0 + Weight(t, m) = B[m] /\ B[t.kid["R"][m]] + 0 + Weight(t, m) = B[m]
      BY <1>0, <1>14
    <3>6. Weight(t, m) \in Nat /\ B[m] \in Nat
      BY <1>14 DEF Weight
    <3> HIDE DEF l
    <3>7. f[t.kid["R"][m]] = l
      BY <3>4, <3>5, <3>6
    <3>8. f[m] = Of(m, l, l)
      BY <3>3, <3>4, <3>7
    <3>9. Of(m, l, l) = l + Weight(t, m)
      BY <3>4 DEF Of, Weight
    <3> QED BY <3>4, <3>5, <3>6, <3>8, <3>9
  <2> QED BY <2>1
<1>17. H = Nat
  <2>1. H \in SUBSET Nat
    OBVIOUS
  <2> HIDE DEF H
  <2> QED BY <1>16, <2>1, FromBelow
<1>18. ASSUME NEW m \in E PROVE f[m] = B[m]
  <2>1. Cardinality(U[m]) \in Nat
    BY BelowIs
  <2>2. Cardinality(U[m]) \in H
    BY <1>17, <2>1
  <2> QED BY <2>2
<1>19. \A n \in E \cup {NULL} : f[n] = B[n]
  BY <1>15, <1>18
<1> QED BY <1>19 DEF f

-----------------------------------------------------------------------------
(* The loop of i_restructure_after_delete                                   *)

(* The tree is repaired but for the colour of the root x.                    *)
HealedBy(t, x, E, U, P, B) ==
  /\ Shape(t, E, U, P) /\ Balanced(t, E, B, NULL, "L") /\ Calm(t, x)
  /\ t.root \in t.red => t.root = x
  /\ x \in t.red => x = t.root
Healed(t, x, E) == \E U, P, B : HealedBy(t, x, E, U, P, B)

(* Every way through node p[i], or through where it was, on side d of its     *)
(* parent, is short of one black node.                                       *)
LacksBy(t, p, i, E, U, P, B, d) ==
  /\ Shape(t, E, U, P) /\ Route(t, p, E, i - 1) /\ d \in Sides /\ t.kid[d][p[i - 1]] = p[i]
  /\ Balanced(t, E, B, p[i - 1], d) /\ t.root \notin t.red /\ Calm(t, p[i])
Lacks(t, p, i, E) == \E U, P, B, d : LacksBy(t, p, i, E, U, P, B, d)

Shrinks(t, p, i, E) ==
  /\ p \in Seq(Node) /\ i \in 1 .. Len(p)
  /\ i = 1 => Healed(t, p[1], E)
  /\ i # 1 => Lacks(t, p, i, E)

(* A red root, or a red node that lacks a black one, turns black.            *)
LEMMA Blacken ==
  ASSUME NEW t, NEW E, NEW U, NEW P, Shape(t, E, U, P), NEW B, NEW y, NEW e,
         Balanced(t, E, B, y, e), NEW x \in t.red, Calm(t, x), t.root \in t.red => t.root = x,
         (y = NULL /\ x = t.root) \/ (y \in E /\ e \in Sides /\ t.kid[e][y] = x)
  PROVE  Sound(Paint(t, {x}, {}), E)
<1> DEFINE r == Paint(t, {x}, {})
           C == [B EXCEPT ![x] = B[x] + 1]
<1>1. /\ t \in TreeType /\ t.red \subseteq E /\ E \subseteq Keys /\ x \in E /\ NULL \notin E
      /\ \A m \in E : m \in Node /\ m # NULL
  BY RBTreeAssumption DEF Shape, Node
<1>2. r.red = t.red \ {x} /\ r.root = t.root /\ r.kid = t.kid
  BY <1>1, PaintIs
<1>3. Shape(r, E, U, P)
  BY Repainted
<1> HIDE DEF r
<1>4. Calm(r, NULL) /\ r.root \notin r.red
  BY <1>1, <1>2 DEF Calm
<1>5. /\ B \in [Node -> Nat] /\ B[NULL] = 0 /\ x \in Node
      /\ \A n \in E, d \in Sides :
           B[t.kid[d][n]] + (IF n = y /\ d = e THEN 1 ELSE 0) + Weight(t, n) = B[n]
  BY <1>1 DEF Balanced
<1>6. C \in [Node -> Nat] /\ C[NULL] = 0 /\ C[x] = B[x] + 1 /\ \A m \in Node \ {x} : C[m] = B[m]
  BY <1>1, <1>5
<1> HIDE DEF C
<1>7. ASSUME NEW n \in E, NEW d \in Sides
      PROVE  t.kid[d][n] \in Node /\ (t.kid[d][n] = x <=> n = y /\ d = e)
  <2>1. t.kid[d][n] \in Node
    BY Kids
  <2>2. ASSUME t.kid[d][n] = x PROVE n = y /\ d = e
    <3>1. P[x] = n /\ x # t.root /\ t.kid[Other(d)][n] # x
      BY <1>1, <2>2, Kids
    <3>2. y \in E /\ e \in Sides /\ t.kid[e][y] = x
      BY <3>1
    <3>3. P[x] = y
      BY <1>1, <3>2, Kids
    <3> QED BY <3>1, <3>2, <3>3, TwoSides
  <2>3. ASSUME n = y, d = e PROVE t.kid[d][n] = x
    BY <1>1, <2>3
  <2> QED BY <2>1, <2>2, <2>3
<1>8. ASSUME NEW n \in E, NEW d \in Sides
      PROVE  C[r.kid[d][n]] + 0 + Weight(r, n) = C[n]
  <2>1. B[t.kid[d][n]] \in Nat /\ B[n] \in Nat
    BY <1>1, <1>5, <1>7
  <2>2. C[r.kid[d][n]] = B[t.kid[d][n]] + (IF n = y /\ d = e THEN 1 ELSE 0)
    <3>1. CASE n = y /\ d = e
      BY <1>2, <1>6, <1>7, <3>1
    <3>2. CASE ~(n = y /\ d = e)
      BY <1>2, <1>6, <1>7, <2>1, <3>2
    <3> QED BY <3>1, <3>2
  <2>3. CASE n = x
    <3>1. Weight(t, n) = 0 /\ Weight(r, n) = 1 /\ C[n] = B[n] + 1
      BY <1>2, <1>6, <2>3 DEF Weight
    <3> QED BY <1>5, <2>1, <2>2, <3>1
  <2>4. CASE n # x
    <3>1. Weight(t, n) = Weight(r, n) /\ C[n] = B[n] /\ Weight(t, n) \in Nat
      BY <1>1, <1>2, <1>6, <2>4 DEF Weight
    <3> QED BY <1>5, <2>1, <2>2, <3>1
  <2> QED BY <2>3, <2>4
<1>9. Balanced(r, E, C, NULL, "L")
  BY <1>1, <1>6, <1>8 DEF Balanced
<1>10. SoundBy(r, E, U, P, C)
  BY <1>3, <1>4, <1>9 DEF SoundBy
<1> QED BY <1>10 DEF Sound, r

(* What the end of the function does.                                        *)
LEMMA HealedAtLast ==
  ASSUME NEW t, NEW p, NEW i, NEW E, Shrinks(t, p, i, E), i = 1 \/ p[i] \in t.red
  PROVE  Sound(Paint(t, {p[i]}, {}), E)
<1>1. CASE i = 1
  <2>1. PICK U, P, B : HealedBy(t, p[1], E, U, P, B)
    BY <1>1 DEF Shrinks, Healed
  <2>2. /\ Shape(t, E, U, P) /\ Balanced(t, E, B, NULL, "L") /\ Calm(t, p[1])
        /\ t.root \in t.red => t.root = p[1]
        /\ p[1] \in t.red => p[1] = t.root
    BY <2>1 DEF HealedBy
  <2>3. CASE p[1] \in t.red
    BY <1>1, <2>2, <2>3, Blacken
  <2>4. CASE p[1] \notin t.red
    <3> DEFINE r == Paint(t, {p[1]}, {})
    <3>1. t \in TreeType
      BY <2>2 DEF Shape
    <3>2. Shape(r, E, U, P) /\ r.red = t.red /\ r.root = t.root /\ r.kid = t.kid
      <4>1. {} \in SUBSET Keys /\ {} \in SUBSET E
        OBVIOUS
      <4>2. Shape(r, E, U, P)
        BY <2>2, <4>1, Repainted
      <4>3. r.red = (t.red \ {p[1]}) \cup {} /\ r.root = t.root /\ r.kid = t.kid
        BY <3>1, <4>1, PaintIs
      <4> QED BY <2>4, <4>2, <4>3
    <3> HIDE DEF r
    <3>3. Calm(r, NULL)
      <4>1. NULL \notin t.red
        BY <2>2, RBTreeAssumption DEF Shape
      <4> QED BY <2>2, <2>4, <3>2, <4>1 DEF Calm
    <3>4. Balanced(r, E, B, NULL, "L")
      BY <2>2, <3>2 DEF Balanced, Weight
    <3>5. SoundBy(r, E, U, P, B)
      BY <2>2, <2>4, <3>2, <3>3, <3>4 DEF SoundBy
    <3> QED BY <1>1, <3>5 DEF Sound, r
  <2> QED BY <2>3, <2>4
<1>2. CASE i # 1
  <2>1. PICK U, P, B, d : LacksBy(t, p, i, E, U, P, B, d)
    BY <1>2 DEF Shrinks, Lacks
  <2>2. /\ Shape(t, E, U, P) /\ Route(t, p, E, i - 1) /\ d \in Sides /\ t.kid[d][p[i - 1]] = p[i]
        /\ Balanced(t, E, B, p[i - 1], d) /\ t.root \notin t.red /\ Calm(t, p[i])
    BY <2>1 DEF LacksBy
  <2>3. p[i - 1] \in E
    BY <2>2 DEF Route
  <2> QED BY <1>2, <2>2, <2>3, Blacken
<1> QED BY <1>1, <1>2

(* What there is where a black node lacks: the parent has a brother of the    *)
(* place, for the ways on that side pass a black node more.                  *)
AtBrother(t, p, i, E, U, P, B, d) ==
  LET parent == p[i - 1]
      b      == t.kid[Other(d)][parent]
  IN /\ Shape(t, E, U, P) /\ Route(t, p, E, i - 1) /\ d \in Sides /\ t.kid[d][parent] = p[i]
     /\ Balanced(t, E, B, parent, d) /\ t.root \notin t.red /\ Calm(t, p[i])
     /\ parent \in E /\ parent # NULL /\ b \in E /\ b # NULL /\ b # p[i] /\ b # parent /\ P[b] = parent
     /\ SideOf(t, parent, p[i]) = d /\ Parent(t, parent, Above(p, i - 2))
     /\ p[i] \in Node /\ p[i] # parent /\ B[b] = B[p[i]] + 1 /\ b # t.root
     /\ B[parent] = B[p[i]] + 1 + Weight(t, parent)

(* A node short of one black has a brother. *)
LEMMA BrotherIs ==
  ASSUME NEW t, NEW p \in Seq(Node), NEW i \in 2 .. Len(p), NEW E, NEW U, NEW P, NEW B, NEW d,
         LacksBy(t, p, i, E, U, P, B, d)
  PROVE  AtBrother(t, p, i, E, U, P, B, d)
<1> DEFINE parent == p[i - 1]
           b == t.kid[Other(d)][parent]
<1>1. /\ Shape(t, E, U, P) /\ Route(t, p, E, i - 1) /\ d \in Sides /\ t.kid[d][parent] = p[i]
      /\ Balanced(t, E, B, parent, d) /\ t.root \notin t.red /\ Calm(t, p[i])
  BY DEF LacksBy
<1>2. Other(d) \in Sides /\ Other(d) # d
  BY <1>1, TwoSides
<1>3. i - 1 \in 1 .. i - 1 /\ (i - 1) - 1 = i - 2
  OBVIOUS
<1>4. parent \in E /\ Parent(t, parent, Above(p, i - 2))
  <2>1. p[i - 1] \in E /\ Parent(t, p[i - 1], Above(p, (i - 1) - 1))
    BY <1>1, <1>3, OnRoute
  <2> QED BY <1>3, <2>1
<1>5. parent # NULL /\ b \in E \cup {NULL} /\ p[i] \in Node /\ p[i] # parent
  <2>1. parent # NULL /\ b \in E \cup {NULL} /\ t.kid[d][parent] \in Node
        /\ (t.kid[d][parent] # NULL => t.kid[d][parent] # parent)
    BY <1>1, <1>2, <1>4, Kids
  <2> QED BY <1>1, <2>1
<1>6. /\ B[p[i]] + 1 + Weight(t, parent) = B[parent]
      /\ B[b] + 0 + Weight(t, parent) = B[parent]
      /\ B[NULL] = 0 /\ B \in [Node -> Nat]
  BY <1>1, <1>2, <1>4 DEF Balanced
<1>7. Weight(t, parent) \in Nat /\ B[p[i]] \in Nat /\ B[b] \in Nat /\ B[parent] \in Nat
  <2>1. E \subseteq Keys
    BY <1>1 DEF Shape
  <2>2. b \in Node /\ parent \in Node
    BY <1>4, <1>5, <2>1 DEF Node
  <2> QED BY <1>5, <1>6, <2>2 DEF Weight
<1>8. B[b] = B[p[i]] + 1 /\ B[parent] = B[p[i]] + 1 + Weight(t, parent)
  <2> DEFINE w == Weight(t, parent)
             m == B[p[i]]
             n == B[b]
             o == B[parent]
  <2>1. m + 1 + w = o /\ n + 0 + w = o /\ w \in Nat /\ m \in Nat /\ n \in Nat /\ o \in Nat
    BY <1>6, <1>7
  <2> HIDE DEF w, m, n, o
  <2>2. n = m + 1 /\ o = m + 1 + w
    BY <2>1
  <2> QED BY <2>2 DEF w, m, n, o
<1>9. b # NULL /\ b # p[i]
  <2> HIDE DEF parent, b
  <2> QED BY <1>6, <1>7, <1>8
<1>10. P[b] = parent /\ b # t.root /\ b # parent
  BY <1>1, <1>2, <1>4, <1>9, Kids
<1>11. SideOf(t, parent, p[i]) = d
  BY <1>1, <1>9, SideIs
<1> QED BY <1>1, <1>4, <1>5, <1>8, <1>9, <1>10, <1>11 DEF AtBrother

(* Case 2: the brother and its kids are black, and the parent lacks one.     *)
LEMMA LackUp ==
  ASSUME NEW t, NEW p \in Seq(Node), NEW i \in 2 .. Len(p), NEW E, NEW U, NEW P, NEW B, NEW d,
         LacksBy(t, p, i, E, U, P, B, d), p[i] \notin t.red,
         NEW b, b = t.kid[Other(d)][p[i - 1]], b \notin t.red,
         \A e \in Sides : t.kid[e][b] \notin t.red
  PROVE  Shrinks(Paint(t, {}, {b}), p, i - 1, E)
<1> DEFINE parent == p[i - 1]
           x == p[i]
           r == Paint(t, {}, {b})
           C == [B EXCEPT ![b] = B[b] - 1, ![parent] = B[parent] - 1]
<1>1. /\ Shape(t, E, U, P) /\ Route(t, p, E, i - 1) /\ d \in Sides /\ t.kid[d][parent] = x
      /\ Balanced(t, E, B, parent, d) /\ t.root \notin t.red /\ Calm(t, x)
      /\ parent \in E /\ parent # NULL /\ b \in E /\ b # NULL /\ b # x /\ b # parent /\ P[b] = parent
      /\ x \in Node /\ x # parent /\ B[b] = B[x] + 1 /\ b # t.root
      /\ B[parent] = B[x] + 1 + Weight(t, parent)
  <2>1. AtBrother(t, p, i, E, U, P, B, d)
    BY BrotherIs
  <2> QED BY <2>1 DEF AtBrother
<1>2. /\ t \in TreeType /\ t.red \subseteq E /\ E \subseteq Keys /\ NULL \notin E
      /\ \A m \in E : m \in Node /\ m # NULL
  BY <1>1, RBTreeAssumption DEF Shape, Node
<1>3. r.red = t.red \cup {b} /\ r.root = t.root /\ r.kid = t.kid /\ Shape(r, E, U, P)
  <2>1. {b} \in SUBSET Keys /\ {b} \in SUBSET E
    BY <1>1, <1>2
  <2>2. r.red = (t.red \ {}) \cup {b} /\ r.root = t.root /\ r.kid = t.kid
    BY <1>2, <2>1, PaintIs
  <2>3. Shape(r, E, U, P)
    BY <1>1, <2>1, Repainted
  <2> QED BY <2>2, <2>3
<1> HIDE DEF r
<1>4. Other(d) \in Sides /\ Other(d) # d /\ \A e \in Sides : e # d => e = Other(d)
  BY <1>1, TwoSides
<1>5. \A m \in E, e \in Sides : t.kid[e][m] # NULL => P[t.kid[e][m]] = m
  BY <1>1, Kids
<1>6. Calm(r, parent)
  <2>1. ASSUME NEW m \in r.red \ {parent}, NEW e \in Sides, r.kid[e][m] \in r.red \ {parent} PROVE FALSE
    <3>1. t.kid[e][m] \in r.red /\ t.kid[e][m] # NULL /\ m \in E
      BY <1>1, <1>2, <1>3, <2>1
    <3>2. t.kid[e][m] # b
      BY <1>1, <1>5, <2>1, <3>1
    <3>3. t.kid[e][m] \in t.red
      BY <1>3, <3>1, <3>2
    <3>4. m # b
      BY <3>3
    <3>5. m \in t.red
      BY <1>3, <2>1, <3>4
    <3> QED BY <1>1, <3>3, <3>5 DEF Calm
  <2> QED BY <2>1 DEF Calm
<1>7. /\ B \in [Node -> Nat] /\ B[NULL] = 0
      /\ \A n \in E, e \in Sides :
           B[t.kid[e][n]] + (IF n = parent /\ e = d THEN 1 ELSE 0) + Weight(t, n) = B[n]
  BY <1>1 DEF Balanced
<1>8. Weight(t, parent) \in Nat /\ B[x] \in Nat /\ b \in Node /\ parent \in Node
  BY <1>1, <1>2, <1>7 DEF Weight
<1> HIDE DEF x, parent
<1>9. /\ C \in [Node -> Nat] /\ C[NULL] = 0 /\ C[b] = B[b] - 1 /\ C[parent] = B[parent] - 1
      /\ \A m \in Node \ {b, parent} : C[m] = B[m]
  <2>1. B[b] - 1 \in Nat /\ B[parent] - 1 \in Nat
    BY <1>1, <1>8
  <2>2. C \in [Node -> Nat]
    BY <1>7, <1>8, <2>1
  <2>3. C[NULL] = 0
    BY <1>1, <1>7 DEF Node
  <2>4. C[b] = B[b] - 1
    BY <1>1, <1>7, <1>8
  <2>5. C[parent] = B[parent] - 1
    BY <1>7, <1>8
  <2>6. \A m \in Node \ {b, parent} : C[m] = B[m]
    BY <1>7
  <2> HIDE DEF C
  <2> QED BY <2>2, <2>3, <2>4, <2>5, <2>6
<1> HIDE DEF C
<1>10. ASSUME NEW n \in E, NEW e \in Sides
       PROVE  /\ C[r.kid[e][n]] + (IF t.kid[e][n] = parent THEN 1 ELSE 0) + Weight(r, n) = C[n]
              /\ t.kid[e][n] \in Node
  <2> DEFINE c == t.kid[e][n]
  <2>1. c \in Node /\ (c # NULL => c # n /\ P[c] = n)
    BY <1>1, Kids
  <2>2. B[c] \in Nat /\ B[n] \in Nat /\ B[b] \in Nat /\ B[parent] \in Nat
    BY <1>2, <1>7, <1>8, <2>1
  <2>3. B[c] + (IF n = parent /\ e = d THEN 1 ELSE 0) + Weight(t, n) = B[n]
    BY <1>7
  <2>4. Weight(t, n) \in Nat
    BY DEF Weight
  <2>5. CASE n = parent /\ e = d
    <3>1. c = x
      BY <1>1, <2>5
    <3>2. C[c] = B[c] /\ c # parent
      BY <1>1, <1>9, <3>1
    <3>3. Weight(r, n) = Weight(t, n) /\ C[n] = B[n] - 1
      BY <1>1, <1>3, <1>9, <2>5 DEF Weight
    <3> HIDE DEF c
    <3>4. C[c] + 0 + Weight(r, n) = C[n]
      BY <2>2, <2>3, <2>4, <2>5, <3>2, <3>3
    <3> QED BY <1>3, <2>1, <3>2, <3>4 DEF c
  <2>6. CASE n = parent /\ e # d
    <3>1. c = b
      BY <1>4, <2>6 DEF parent
    <3>2. C[c] = B[c] - 1 /\ c # parent
      BY <1>1, <1>9, <3>1
    <3>3. Weight(r, n) = Weight(t, n) /\ C[n] = B[n] - 1
      BY <1>1, <1>3, <1>9, <2>6 DEF Weight
    <3> HIDE DEF c
    <3>4. C[c] + 0 + Weight(r, n) = C[n]
      BY <2>2, <2>3, <2>4, <2>6, <3>2, <3>3
    <3> QED BY <1>3, <2>1, <3>2, <3>4 DEF c
  <2>7. CASE n = b
    <3>1. c # parent
      <4>1. parent \notin U[b]
        <5>1. parent \in E /\ Other(d) \in Sides /\ t.kid[Other(d)][parent] # NULL
          BY <1>1, <1>4 DEF parent
        <5>2. parent \notin U[t.kid[Other(d)][parent]]
          BY <1>1, <5>1, Kids
        <5> QED BY <5>2 DEF parent
      <4>2. c # NULL => c \in U[b]
        BY <1>1, <2>7, Kids
      <4> QED BY <1>1, <4>1, <4>2
    <3>2. c # b
      BY <1>1, <2>1, <2>7
    <3>3. C[c] = B[c] /\ C[n] = B[n] - 1 /\ Weight(t, n) = 1 /\ Weight(r, n) = 0
      BY <1>3, <1>9, <2>1, <2>7, <3>1, <3>2, Zenon DEF Weight
    <3> HIDE DEF c
    <3>4. C[c] + 0 + Weight(r, n) = C[n]
      BY <1>1, <2>2, <2>3, <2>7, <3>3
    <3> QED BY <1>3, <2>1, <3>1, <3>4 DEF c
  <2>8. CASE n \notin {b, parent}
    <3>1. c # b
      BY <1>1, <2>1, <2>8
    <3>2. Weight(r, n) = Weight(t, n) /\ C[n] = B[n]
      BY <1>2, <1>3, <1>9, <2>8 DEF Weight
    <3>3. C[c] = IF c = parent THEN B[c] - 1 ELSE B[c]
      BY <1>9, <2>1, <3>1
    <3>4. B[c] + 0 + Weight(t, n) = B[n]
      BY <2>3, <2>8
    <3> HIDE DEF c
    <3>5. C[c] + (IF c = parent THEN 1 ELSE 0) + Weight(r, n) = C[n]
      BY <2>2, <2>4, <3>2, <3>3, <3>4
    <3> QED BY <1>3, <2>1, <3>5 DEF c
  <2> QED BY <2>5, <2>6, <2>7, <2>8
<1>11. r.root \notin r.red
  BY <1>1, <1>3
<1>12. CASE i = 2
  <2>1. parent = t.root /\ p[1] = t.root
    BY <1>1, <1>12 DEF Route, parent
  <2>2. \A n \in E, e \in Sides : t.kid[e][n] # parent
    BY <1>1, <1>2, <2>1, Kids
  <2>3. Balanced(r, E, C, NULL, "L")
    <3>1. \A n \in E, e \in Sides : C[r.kid[e][n]] + 0 + Weight(r, n) = C[n]
      BY <1>10, <2>2
    <3> QED BY <1>2, <1>9, <3>1 DEF Balanced
  <2>4. HealedBy(r, p[1], E, U, P, C)
    BY <1>3, <1>6, <1>11, <2>1, <2>3 DEF HealedBy
  <2>5. i - 1 = 1 /\ 1 \in 1 .. Len(p)
    BY <1>12
  <2> QED BY <2>4, <2>5 DEF Shrinks, Healed, r
<1>13. CASE i > 2
  <2>1. i - 1 \in 1 .. i - 1 /\ i - 1 > 1 /\ (i - 1) - 1 = i - 2
    BY <1>13
  <2>2. PICK e \in Sides : p[i - 2] \in E /\ t.kid[e][p[i - 2]] = parent
    BY <1>1, <2>1, OnRoute DEF parent
  <2> DEFINE g == p[i - 2]
  <2>3. ASSUME NEW n \in E, NEW f \in Sides PROVE t.kid[f][n] = parent <=> n = g /\ f = e
    <3>1. ASSUME t.kid[f][n] = parent PROVE n = g /\ f = e
      <4>1. P[parent] = n /\ P[parent] = g
        BY <1>1, <1>5, <2>2, <3>1
      <4>2. t.kid[Other(e)][g] # parent
        BY <1>1, <2>2, Kids
      <4> QED BY <2>2, <3>1, <4>1, <4>2, TwoSides
    <3> QED BY <2>2, <3>1
  <2> HIDE DEF g
  <2>4. Balanced(r, E, C, g, e)
    <3>1. \A n \in E, f \in Sides : C[r.kid[f][n]] + (IF n = g /\ f = e THEN 1 ELSE 0) + Weight(r, n) = C[n]
      BY <1>10, <2>3
    <3> QED BY <1>2, <1>9, <3>1 DEF Balanced
  <2>5. Route(r, p, E, i - 2)
    <3>1. i - 2 \in 1 .. Len(p) /\ (\A j \in 1 .. i - 2 : j \in 1 .. i - 1)
          /\ (\A j \in 1 .. (i - 2) - 1 : j \in 1 .. (i - 1) - 1)
      BY <1>13
    <3> QED BY <1>1, <1>3, <3>1 DEF Route
  <2>6. LacksBy(r, p, i - 1, E, U, P, C, e)
    <3>1. Balanced(r, E, C, p[(i - 1) - 1], e) /\ r.kid[e][p[(i - 1) - 1]] = p[i - 1]
      BY <1>3, <2>1, <2>2, <2>4 DEF g, parent
    <3> QED BY <1>3, <1>6, <1>11, <2>1, <2>2, <2>5, <3>1 DEF LacksBy, parent
  <2>7. i - 1 # 1 /\ i - 1 \in 1 .. Len(p)
    BY <1>13
  <2> QED BY <2>6, <2>7 DEF Shrinks, Lacks, r
<1> QED BY <1>12, <1>13

(* The end of a route is below its nodes, and none of them.                  *)
LEMMA RouteNested ==
  ASSUME NEW t, NEW E, NEW U, NEW P, Shape(t, E, U, P), NEW p, NEW k, Route(t, p, E, k), NEW j \in 1 .. k
  PROVE  p[k] \in U[p[j]] /\ (j # k => p[j] # p[k])
<1> DEFINE w == [i \in 1 .. k |-> p[i]]
<1>1. /\ k \in Nat /\ k \in 1 .. k /\ p[1] = t.root /\ E \subseteq Keys
      /\ \A i \in 1 .. k : p[i] \in E
      /\ \A i \in 1 .. k - 1 : \E d \in Sides : t.kid[d][p[i]] = p[i + 1]
  BY DEF Route, Shape
<1>2. w \in Seq(Keys) /\ Len(w) = k /\ \A i \in 1 .. k : w[i] = p[i]
  BY <1>1
<1> HIDE DEF w
<1>3. Way(t, E, w)
  <2>1. \A i \in 1 .. k - 1 : i \in 1 .. k /\ i + 1 \in 1 .. k
    BY <1>1
  <2>2. Route(t, w, E, k)
    BY <1>1, <1>2, <2>1 DEF Route
  <2> QED BY <1>2, <2>2 DEF Way
<1>4. p[k] \in U[p[j]]
  <2>1. w[k] \in U[w[j]]
    BY <1>1, <1>2, <1>3, Nested
  <2> QED BY <1>1, <1>2, <2>1
<1>5. ASSUME j # k PROVE p[j] # p[k]
  <2>1. j \in 1 .. k - 1 /\ j < k /\ j + 1 \in 1 .. k
    BY <1>1, <1>5
  <2>2. PICK d \in Sides : t.kid[d][p[j]] = p[j + 1]
    BY <1>1, <2>1
  <2>3. t.kid[d][w[j]] = w[j + 1]
    BY <1>2, <2>1, <2>2
  <2>4. p[k] \in U[p[k]] /\ p[k] \in Keys
    BY <1>1, <2>2, Kids
  <2>5. Before(d, p[k], w[j])
    BY <1>1, <1>2, <1>3, <2>1, <2>2, <2>3, <2>4, Nested
  <2> QED BY <1>2, <2>2, <2>4, <2>5, Order
<1> QED BY <1>4, <1>5

(* A rotation at the end of a route puts up there.                           *)
LEMMA RouteTurned ==
  ASSUME NEW t, NEW E, NEW U, NEW P, Shape(t, E, U, P), NEW p, NEW k, Route(t, p, E, k), NEW d \in Sides,
         t.kid[Other(d)][p[k]] # NULL, NEW r, Turned(t, r, p[k], d),
         NEW q, k \in 1 .. Len(q), \A j \in 1 .. k - 1 : q[j] = p[j], q[k] = t.kid[Other(d)][p[k]]
  PROVE  Route(r, q, E, k)
<1> DEFINE n == p[k]
           up == t.kid[Other(d)][n]
<1>1. /\ k \in Nat /\ k \in 1 .. k /\ p[1] = t.root /\ E \subseteq Keys
      /\ \A i \in 1 .. k : p[i] \in E
      /\ \A i \in 1 .. k - 1 : \E f \in Sides : t.kid[f][p[i]] = p[i + 1]
  BY DEF Route, Shape
<1>2. up \in E /\ n \notin U[up]
  <2>1. Other(d) \in Sides /\ n \in E
    BY <1>1, TwoSides
  <2> QED BY <2>1, Kids
<1>3. /\ r.root = IF t.root = n THEN up ELSE t.root
      /\ \A f \in Sides, m \in Keys \ {n, up} : r.kid[f][m] = IF t.kid[f][m] = n THEN up ELSE t.kid[f][m]
  BY DEF Turned
<1>4. ASSUME NEW j \in 1 .. k - 1 PROVE p[j] \in Keys \ {n, up}
  <2>1. j \in 1 .. k /\ j # k
    BY <1>1
  <2>2. n \in U[p[j]] /\ p[j] # n
    BY <2>1, RouteNested
  <2> QED BY <1>1, <1>2, <2>1, <2>2
<1> HIDE DEF up, n
<1>5. q[1] = r.root
  <2>1. CASE k = 1
    BY <1>1, <1>3, <2>1 DEF n, up
  <2>2. CASE k # 1
    <3>1. 1 \in 1 .. k - 1 /\ k > 1
      BY <1>1, <2>2
    <3>2. t.root # n
      BY <1>1, <1>4, <3>1
    <3> QED BY <1>1, <1>3, <3>1, <3>2
  <2> QED BY <2>1, <2>2
<1>6. ASSUME NEW j \in 1 .. k PROVE q[j] \in E
  <2>1. CASE j = k
    BY <1>2, <2>1 DEF n, up
  <2>2. CASE j # k
    <3>1. j \in 1 .. k - 1
      BY <1>1, <2>2
    <3> QED BY <1>1, <3>1
  <2> QED BY <2>1, <2>2
<1>7. ASSUME NEW j \in 1 .. k - 1 PROVE \E f \in Sides : r.kid[f][q[j]] = q[j + 1]
  <2>1. PICK f \in Sides : t.kid[f][p[j]] = p[j + 1]
    BY <1>1
  <2>2. r.kid[f][p[j]] = IF t.kid[f][p[j]] = n THEN up ELSE t.kid[f][p[j]]
    BY <1>3, <1>4, <2>1
  <2>3. CASE j = k - 1
    <3>1. j + 1 = k
      BY <1>1, <2>3
    <3> QED BY <2>1, <2>2, <3>1 DEF n, up
  <2>4. CASE j # k - 1
    <3>1. j + 1 \in 1 .. k - 1
      BY <1>1, <2>4
    <3>2. p[j + 1] # n
      BY <1>4, <3>1
    <3> QED BY <2>1, <2>2, <3>1, <3>2
  <2> QED BY <2>3, <2>4
<1>8. k \in 1 .. Len(q)
  OBVIOUS
<1> QED BY <1>5, <1>6, <1>7, <1>8 DEF Route

(* A rotation of other nodes leaves a route as it is.                        *)
LEMMA RouteKept ==
  ASSUME NEW t, NEW E, NEW U, NEW P, Shape(t, E, U, P), NEW p, NEW k, Route(t, p, E, k), NEW d \in Sides,
         NEW n, NEW r, Turned(t, r, n, d), t.root # n,
         \A j \in 1 .. k : p[j] \notin {n, t.kid[Other(d)][n]}
  PROVE  Route(r, p, E, k)
<1>1. /\ k \in 1 .. Len(p) /\ p[1] = t.root /\ E \subseteq Keys
      /\ \A i \in 1 .. k : p[i] \in E
      /\ \A i \in 1 .. k - 1 : \E f \in Sides : t.kid[f][p[i]] = p[i + 1]
  BY DEF Route, Shape
<1>2. /\ r.root = t.root
      /\ \A f \in Sides, m \in Keys \ {n, t.kid[Other(d)][n]} :
           r.kid[f][m] = IF t.kid[f][m] = n THEN t.kid[Other(d)][n] ELSE t.kid[f][m]
  BY DEF Turned
<1>3. ASSUME NEW j \in 1 .. k - 1 PROVE \E f \in Sides : r.kid[f][p[j]] = p[j + 1]
  <2>1. PICK f \in Sides : t.kid[f][p[j]] = p[j + 1]
    BY <1>1
  <2>2. j \in 1 .. k /\ j + 1 \in 1 .. k
    BY <1>1
  <2>3. p[j] \in Keys \ {n, t.kid[Other(d)][n]} /\ p[j + 1] # n
    BY <1>1, <2>2
  <2>4. r.kid[f][p[j]] = p[j + 1]
    BY <1>2, <2>1, <2>3
  <2> QED BY <2>1, <2>4
<1> QED BY <1>1, <1>2, <1>3 DEF Route

(* The path of case 1: the rotated up node, the parent and what it was about. *)
Longer(p, i, a, b, c) == SubSeq(p, 1, i - 2) \o <<a, b, c>> \o SubSeq(p, i + 2, Len(p))

LongerIs(q, p, i, a, b, c) ==
  /\ q \in Seq(Node) /\ Len(q) = (IF i < Len(p) THEN Len(p) ELSE i + 1)
  /\ i + 1 \in 1 .. Len(q) /\ q[i - 1] = a /\ q[i] = b /\ q[i + 1] = c
  /\ \A j \in 1 .. i - 2 : q[j] = p[j]

(* The path of case 1 is a node longer, unless it went on below.              *)
LEMMA NewPath ==
  ASSUME NEW p \in Seq(Node), NEW i \in 2 .. Len(p), NEW a \in Node, NEW b \in Node, NEW c \in Node
  PROVE  LongerIs(Longer(p, i, a, b, c), p, i, a, b, c)
<1> DEFINE q == Longer(p, i, a, b, c)
           u == SubSeq(p, 1, i - 2)
           v == <<a, b, c>>
           w == SubSeq(p, i + 2, Len(p))
<1>1. Len(p) \in Nat /\ i \in Nat /\ i >= 2 /\ i <= Len(p)
  OBVIOUS
<1>2. u \in Seq(Node) /\ Len(u) = i - 2 /\ \A j \in 1 .. i - 2 : u[j] = p[j]
  <2>1. i - 2 <= Len(p) /\ i - 2 \in Nat
    BY <1>1
  <2> QED BY <2>1
<1>3. v \in Seq(Node) /\ Len(v) = 3 /\ v[1] = a /\ v[2] = b /\ v[3] = c
  OBVIOUS
<1>4. w \in Seq(Node) /\ Len(w) = (IF i < Len(p) THEN Len(p) - (i + 1) ELSE 0)
  <2>1. CASE i < Len(p)
    <3>1. w \in Seq(Node) /\ Len(w) = Len(p) - (i + 2) + 1
      BY <1>1, <2>1
    <3>2. Len(p) - (i + 2) + 1 = Len(p) - (i + 1)
      BY <1>1
    <3> HIDE DEF w
    <3> QED BY <2>1, <3>1, <3>2
  <2>2. CASE ~(i < Len(p))
    <3>1. w = <<>>
      BY <1>1, <2>2
    <3> HIDE DEF w
    <3> QED BY <2>2, <3>1
  <2> QED BY <2>1, <2>2
<1>5. q = (u \o v) \o w
  BY DEF Longer
<1> HIDE DEF u, v, w, q
<1> DEFINE uv == u \o v
<1>6. uv \in Seq(Node) /\ Len(uv) = i + 1 /\ (\A j \in 1 .. i - 2 : uv[j] = p[j])
      /\ uv[i - 1] = a /\ uv[i] = b /\ uv[i + 1] = c
  <2>0. uv \in Seq(Node) /\ Len(uv) = Len(u) + Len(v)
        /\ (\A j \in 1 .. Len(u) : uv[j] = u[j])
        /\ (\A j \in 1 .. Len(v) : uv[Len(u) + j] = v[j])
    <3>1. u \in Seq(Node) /\ v \in Seq(Node)
      BY <1>2, <1>3
    <3> QED BY <3>1
  <2> HIDE DEF uv
  <2>1. uv \in Seq(Node) /\ Len(uv) = i + 1
    BY <1>1, <1>2, <1>3, <2>0
  <2>2. \A j \in 1 .. i - 2 : uv[j] = p[j]
    BY <1>2, <2>0
  <2>3. \A j \in 1 .. 3 : uv[(i - 2) + j] = v[j]
    BY <1>2, <1>3, <2>0
  <2>4. (i - 2) + 1 = i - 1 /\ (i - 2) + 2 = i /\ (i - 2) + 3 = i + 1 /\ 1 \in 1 .. 3 /\ 2 \in 1 .. 3 /\ 3 \in 1 .. 3
    BY <1>1
  <2> HIDE DEF uv
  <2> QED BY <1>3, <2>1, <2>2, <2>3, <2>4
<1>7. q = uv \o w
  BY <1>5
<1> HIDE DEF uv
<1>8. q \in Seq(Node) /\ Len(q) = Len(uv) + Len(w) /\ \A j \in 1 .. Len(uv) : q[j] = uv[j]
  <2>1. uv \in Seq(Node) /\ w \in Seq(Node)
    BY <1>4, <1>6
  <2>2. /\ uv \o w \in Seq(Node) /\ Len(uv \o w) = Len(uv) + Len(w)
        /\ \A j \in 1 .. Len(uv) : (uv \o w)[j] = uv[j]
    BY <2>1
  <2> QED BY <1>7, <2>2
<1>9. i - 1 \in 1 .. Len(uv) /\ i \in 1 .. Len(uv) /\ i + 1 \in 1 .. Len(uv) /\ \A j \in 1 .. i - 2 : j \in 1 .. Len(uv)
  BY <1>1, <1>6
<1>10. Len(q) = (IF i < Len(p) THEN Len(p) ELSE i + 1)
  <2>0. Len(q) = (i + 1) + Len(w)
    BY <1>6, <1>8
  <2> HIDE DEF w
  <2>1. CASE i < Len(p)
    <3>1. Len(w) = Len(p) - (i + 1)
      BY <1>4, <2>1
    <3> QED BY <1>1, <2>0, <2>1, <3>1
  <2>2. CASE ~(i < Len(p))
    BY <1>1, <1>4, <2>0, <2>2
  <2> QED BY <2>1, <2>2
<1>11. i + 1 \in 1 .. Len(q)
  BY <1>1, <1>10
<1>12. q[i - 1] = a /\ q[i] = b /\ q[i + 1] = c /\ \A j \in 1 .. i - 2 : q[j] = p[j]
  BY <1>6, <1>8, <1>9
<1>13. LongerIs(q, p, i, a, b, c)
  BY <1>8, <1>10, <1>11, <1>12 DEF LongerIs
<1> QED BY <1>13 DEF q

(* What a round of the loop starts the black brother's cases from.            *)
AtBlack(s, d, E) ==
  /\ s.path \in Seq(Node) /\ s.at \in 2 .. Len(s.path)
  /\ \E U, P, B : LacksBy(s.tree, s.path, s.at, E, U, P, B, d)
  /\ s.path[s.at] \notin s.tree.red
  /\ s.tree.kid[Other(d)][s.path[s.at - 1]] \notin s.tree.red
  /\ s = [tree |-> s.tree, path |-> s.path, at |-> s.at]

CaseOne(t, p, i, d) == RedBrother([tree |-> t, path |-> p, at |-> i], d)

RotatedUp(s, p, i, E, d) ==
  /\ AtBlack(s, d, E) /\ s.at = i + 1 /\ s.path[i] \in s.tree.red
  /\ Len(s.path) = (IF i < Len(p) THEN Len(p) ELSE i + 1)

(* Case 1 leaves a black brother, a red parent and the path a node longer.    *)
LEMMA BrotherRed ==
  ASSUME NEW t, NEW p \in Seq(Node), NEW i \in 2 .. Len(p), NEW E, NEW U, NEW P, NEW B, NEW d,
         LacksBy(t, p, i, E, U, P, B, d), p[i] \notin t.red,
         t.kid[Other(d)][p[i - 1]] \in t.red
  PROVE  RotatedUp(CaseOne(t, p, i, d), p, i, E, d)
<1> DEFINE s == CaseOne(t, p, i, d)
           parent == p[i - 1]
           x == p[i]
           b == t.kid[Other(d)][parent]
           u == Paint(t, {b}, {parent})
           r == Rotate(u, parent, Above(p, i - 2), d)
           q == Longer(p, i, b, parent, x)
           C == [B EXCEPT ![b] = B[parent], ![parent] = B[b]]
           V == TurnedU(u, U, parent, d)
           Q == TurnedP(u, P, parent, d)
<1>1. s = [tree |-> r, path |-> q, at |-> i + 1]
  BY DEF CaseOne, RedBrother, Longer
<1> HIDE DEF s
<1>2. /\ Shape(t, E, U, P) /\ Route(t, p, E, i - 1) /\ d \in Sides /\ t.kid[d][parent] = x
      /\ Balanced(t, E, B, parent, d) /\ t.root \notin t.red /\ Calm(t, x)
      /\ parent \in E /\ parent # NULL /\ b \in E /\ b # NULL /\ b # x /\ b # parent /\ P[b] = parent
      /\ x \in Node /\ x # parent /\ b # t.root /\ Parent(t, parent, Above(p, i - 2))
  <2>1. AtBrother(t, p, i, E, U, P, B, d)
    BY BrotherIs
  <2> QED BY <2>1 DEF AtBrother
<1>3. /\ t \in TreeType /\ t.red \subseteq E /\ E \subseteq Keys /\ NULL \notin E
      /\ \A m \in E : m \in Node /\ m # NULL
  BY <1>2, RBTreeAssumption DEF Shape, Node
<1>4. Other(d) \in Sides /\ Other(d) # d /\ Other(Other(d)) = d /\ \A e \in Sides : e = d \/ e = Other(d)
  BY <1>2, TwoSides
<1>5. \A m \in t.red, e \in Sides : t.kid[e][m] \notin t.red
  <2>1. x \notin t.red /\ t.red \ {x} = t.red
    OBVIOUS
  <2> QED BY <1>2, <2>1 DEF Calm
<1>6. b \in t.red /\ parent \notin t.red
  BY <1>4, <1>5
<1>7. u \in TreeType /\ u.red = (t.red \ {b}) \cup {parent} /\ u.root = t.root /\ u.kid = t.kid /\ Shape(u, E, U, P)
  <2>1. {parent} \in SUBSET Keys /\ {parent} \in SUBSET E
    BY <1>2, <1>3
  <2> QED BY <1>2, <1>3, <2>1, PaintIs, Repainted
<1> HIDE DEF u
<1>8. Parent(u, parent, Above(p, i - 2))
  BY <1>2, <1>7 DEF Parent
<1>9. Turned(u, r, parent, d)
  <2>1. u.kid[Other(d)][parent] # NULL
    BY <1>2, <1>7
  <2> HIDE DEF parent, b
  <2> QED BY <1>2, <1>7, <1>8, <2>1, RotateIs
<1> HIDE DEF r
<1>10. Shape(r, E, V, Q)
  <2>1. u.kid[Other(d)][parent] # NULL
    BY <1>2, <1>7
  <2> HIDE DEF parent, b, V, Q
  <2> QED BY <1>2, <1>7, <1>9, <2>1, RotateShape DEF V, Q
<1> HIDE DEF V, Q
<1>11. Balanced(r, E, C, parent, d)
  <2>1. Recolored(t, u, ((t.red \ {b}) \cup {parent}) \cup (IF parent \in t.red THEN {b} ELSE {}))
    BY <1>6, <1>7 DEF Recolored
  <2> HIDE DEF C, parent
  <2>2. Balanced(r, E, [B EXCEPT ![t.kid[Other(d)][parent]] = B[parent], ![parent] = B[t.kid[Other(d)][parent]]], parent, d)
    BY <1>2, <1>6, <1>9, <2>1, Exchange
  <2> QED BY <2>2 DEF C, b
<1>12. /\ r.red = (t.red \ {b}) \cup {parent}
       /\ r.root = IF t.root = parent THEN b ELSE t.root
       /\ r.kid[d][b] = parent
       /\ r.kid[Other(d)][parent] = t.kid[d][b] /\ r.kid[d][parent] = x
       /\ \A e \in Sides, m \in Keys \ {parent, b} :
            r.kid[e][m] = IF t.kid[e][m] = parent THEN b ELSE t.kid[e][m]
  <2>1. u.kid[Other(d)][parent] = b
    BY <1>7
  <2> HIDE DEF b, parent
  <2> QED BY <1>2, <1>7, <1>9, <2>1 DEF Turned
<1>13. /\ q \in Seq(Node) /\ Len(q) = (IF i < Len(p) THEN Len(p) ELSE i + 1)
       /\ i + 1 \in 1 .. Len(q) /\ q[i - 1] = b /\ q[i] = parent /\ q[i + 1] = x
       /\ \A j \in 1 .. i - 2 : q[j] = p[j]
  <2>1. b \in Node /\ parent \in Node /\ x \in Node
    BY <1>2, <1>3
  <2> HIDE DEF b, parent, x, q, C
  <2>2. q = Longer(p, i, b, parent, x)
    BY DEF q
  <2>3. LongerIs(q, p, i, b, parent, x)
    BY <2>1, <2>2, NewPath
  <2> QED BY <2>3 DEF LongerIs
<1> HIDE DEF q
<1>14. Route(r, q, E, i - 1)
  <2>1. i - 1 \in 1 .. Len(q) /\ (i - 1) - 1 = i - 2
    BY <1>13
  <2>2. Route(u, p, E, i - 1)
    BY <1>2, <1>7 DEF Route
  <2>3. u.kid[Other(d)][p[i - 1]] # NULL /\ q[i - 1] = u.kid[Other(d)][p[i - 1]]
    BY <1>2, <1>7, <1>13
  <2>4. Turned(u, r, p[i - 1], d)
    BY <1>9
  <2> HIDE DEF parent, b
  <2>5. \A j \in 1 .. (i - 1) - 1 : q[j] = p[j]
    BY <1>13, <2>1
  <2> QED BY <1>2, <1>7, <2>1, <2>2, <2>3, <2>4, <2>5, RouteTurned
<1>15. Route(r, q, E, i)
  <2>1. i \in 1 .. Len(q) /\ i - 1 \in 1 .. i - 1 /\ (i - 1) + 1 = i
    BY <1>13
  <2>2. \A j \in 1 .. i : q[j] \in E
    <3>1. \A j \in 1 .. i : j \in 1 .. i - 1 \/ j = i
      OBVIOUS
    <3> QED BY <1>2, <1>13, <1>14, <3>1 DEF Route
  <2>3. \A j \in 1 .. i - 1 : \E f \in Sides : r.kid[f][q[j]] = q[j + 1]
    <3>1. \A j \in 1 .. i - 1 : j \in 1 .. (i - 1) - 1 \/ j = i - 1
      OBVIOUS
    <3>2. r.kid[d][q[i - 1]] = q[(i - 1) + 1]
      BY <1>12, <1>13, <2>1
    <3> QED BY <1>2, <1>14, <3>1, <3>2 DEF Route
  <2>4. q[1] = r.root
    BY <1>14 DEF Route
  <2> QED BY <2>1, <2>2, <2>3, <2>4 DEF Route
<1>16. r.root \notin r.red
  BY <1>2, <1>6, <1>12
<1>17. \A e \in Sides : t.kid[e][b] # parent
  <2>1. parent \notin U[b]
    <3> HIDE DEF parent
    <3> QED BY <1>2, <1>4, Kids DEF b
  <2>2. \A e \in Sides : t.kid[e][b] # NULL => t.kid[e][b] \in U[b]
    <3> HIDE DEF b, parent
    <3> QED BY <1>2, Kids
  <2> QED BY <1>2, <2>1, <2>2, Zenon
<1> HIDE DEF b, parent, x
<1>18. x \notin r.red /\ t.kid[d][b] \notin r.red
  <2>1. x \notin t.red
    BY DEF x
  <2> QED BY <1>2, <1>5, <1>6, <1>12, <1>17, <2>1
<1>19. Calm(r, x)
  <2>1. ASSUME NEW m \in r.red, NEW e \in Sides PROVE r.kid[e][m] \notin r.red
    <3>1. CASE m = parent
      BY <1>4, <1>12, <1>18, <3>1
    <3>2. CASE m # parent
      <4>1. m \in t.red \ {b} /\ m \in Keys \ {parent, b}
        BY <1>3, <1>12, <2>1, <3>2
      <4>2. t.kid[e][m] \notin t.red
        BY <1>5, <4>1
      <4>3. CASE t.kid[e][m] = parent
        BY <1>2, <1>12, <4>1, <4>3
      <4>4. CASE t.kid[e][m] # parent
        BY <1>12, <4>1, <4>2, <4>4
      <4> QED BY <4>3, <4>4
    <3> QED BY <3>1, <3>2
  <2> QED BY <2>1 DEF Calm
<1>20. LacksBy(r, q, i + 1, E, V, Q, C, d)
  <2>1. (i + 1) - 1 = i
    OBVIOUS
  <2> HIDE DEF C
  <2> QED BY <1>2, <1>10, <1>11, <1>12, <1>13, <1>15, <1>16, <1>19, <2>1 DEF LacksBy
<1>21. s.tree = r /\ s.path = q /\ s.at = i + 1
  BY <1>1
<1>22. AtBlack(s, d, E)
  <2>1. i + 1 \in 2 .. Len(q) /\ (i + 1) - 1 = i
    BY <1>13
  <2>2. s.path[s.at] \notin s.tree.red
    BY <1>13, <1>18, <1>21
  <2>3. s.tree.kid[Other(d)][s.path[s.at - 1]] \notin s.tree.red
    BY <1>12, <1>13, <1>18, <1>21, <2>1
  <2>4. \E U2, P2, B2 : LacksBy(s.tree, s.path, s.at, E, U2, P2, B2, d)
    BY <1>20, <1>21
  <2>5. s = [tree |-> s.tree, path |-> s.path, at |-> s.at]
    BY <1>1, <1>21
  <2> QED BY <1>13, <1>21, <2>1, <2>2, <2>3, <2>4, <2>5 DEF AtBlack
<1>23. RotatedUp(s, p, i, E, d)
  BY <1>12, <1>13, <1>21, <1>22 DEF RotatedUp
<1> QED BY <1>23 DEF s

(* Case 3 turns the near nephew up.                                          *)
NearUp(t, p, i, d) ==
  LET b == t.kid[Other(d)][p[i - 1]]
  IN Rotate(Paint(t, {t.kid[d][b]}, {b}), b, p[i - 1], Other(d))

(* The brother and the far nephew are black, the near one is red.            *)
OnlyNear(t, p, i, d) ==
  LET b == t.kid[Other(d)][p[i - 1]]
  IN /\ p[i] \notin t.red /\ b \notin t.red
     /\ t.kid[d][b] \in t.red /\ t.kid[Other(d)][b] \notin t.red

(* What case 4 starts from.                                                  *)
AtFar(t, p, i, E, d) ==
  /\ \E U, P, B : LacksBy(t, p, i, E, U, P, B, d)
  /\ p[i] \notin t.red
  /\ t.kid[Other(d)][p[i - 1]] \notin t.red
  /\ t.kid[Other(d)][t.kid[Other(d)][p[i - 1]]] \in t.red

(* Case 3: only the near nephew is red; then the far one is.                  *)
LEMMA BrotherTurned ==
  ASSUME NEW t, NEW p \in Seq(Node), NEW i \in 2 .. Len(p), NEW E, NEW U, NEW P, NEW B, NEW d,
         LacksBy(t, p, i, E, U, P, B, d), OnlyNear(t, p, i, d)
  PROVE  AtFar(NearUp(t, p, i, d), p, i, E, d)
<1> DEFINE parent == p[i - 1]
           x == p[i]
           D == Other(d)
           b == t.kid[D][parent]
           near == t.kid[d][b]
           u == Paint(t, {near}, {b})
           r == Rotate(u, b, parent, D)
           C == [B EXCEPT ![near] = B[b], ![b] = B[near]]
           V == TurnedU(u, U, b, D)
           Q == TurnedP(u, P, b, D)
<1>5. /\ b = t.kid[D][parent] /\ near = t.kid[d][b] /\ t.kid[D][b] \notin t.red /\ x \notin t.red
      /\ b \notin t.red /\ near \in t.red
  BY DEF OnlyNear
<1>7. NearUp(t, p, i, d) = r
  BY DEF NearUp
<1>1. /\ Shape(t, E, U, P) /\ Route(t, p, E, i - 1) /\ d \in Sides /\ t.kid[d][parent] = x
      /\ Balanced(t, E, B, parent, d) /\ t.root \notin t.red /\ Calm(t, x)
      /\ parent \in E /\ parent # NULL /\ b \in E /\ b # NULL /\ b # x /\ b # parent /\ P[b] = parent
      /\ x \in Node /\ x # parent /\ b # t.root
  <2>1. AtBrother(t, p, i, E, U, P, B, d)
    BY BrotherIs
  <2> QED BY <2>1 DEF AtBrother
<1> HIDE DEF u, r, C, V, Q, D, parent, x, b, near
<1>2. /\ t \in TreeType /\ t.red \subseteq E /\ E \subseteq Keys /\ NULL \notin E
      /\ \A m \in E : m \in Node /\ m # NULL
  BY <1>1, RBTreeAssumption DEF Shape, Node
<1>3. D \in Sides /\ D # d /\ Other(D) = d /\ \A e \in Sides : e = d \/ e = D
  BY <1>1, TwoSides DEF D
<1>4. \A m \in t.red, e \in Sides : t.kid[e][m] \notin t.red
  <2>1. x \notin t.red /\ t.red \ {x} = t.red
    BY <1>5
  <2> QED BY <1>1, <2>1 DEF Calm
<1>6. near \in E /\ near # b /\ near # NULL /\ near \notin {parent}
  <2>1. near \in E /\ near # NULL
    BY <1>2, <1>5
  <2>2. P[near] = b /\ near # b /\ near \in U[b]
    <3>1. t.kid[d][b] # NULL
      BY <1>5, <2>1
    <3>2. P[t.kid[d][b]] = b /\ t.kid[d][b] # b /\ t.kid[d][b] \in U[b]
      BY <1>1, <3>1, Kids
    <3> QED BY <1>5, <3>2
  <2>3. parent \notin U[b]
    BY <1>1, <1>3, <1>5, Kids
  <2> QED BY <2>1, <2>2, <2>3
<1>8. u \in TreeType /\ u.red = (t.red \ {near}) \cup {b} /\ u.root = t.root /\ u.kid = t.kid /\ Shape(u, E, U, P)
  <2>1. {b} \in SUBSET Keys /\ {b} \in SUBSET E
    BY <1>1, <1>2
  <2>2. u \in TreeType /\ u.red = (t.red \ {near}) \cup {b} /\ u.root = t.root /\ u.kid = t.kid
    <3> DEFINE red == {b}
               black == {near}
    <3>0. t \in TreeType /\ red \in SUBSET Keys
      BY <1>2, <2>1
    <3> HIDE DEF red, black
    <3>1. Paint(t, black, red) \in TreeType /\ Paint(t, black, red).red = (t.red \ black) \cup red
          /\ Paint(t, black, red).root = t.root /\ Paint(t, black, red).kid = t.kid
      BY <3>0, PaintIs
    <3> QED BY <3>1 DEF u, red, black
  <2>3. Shape(u, E, U, P)
    BY <1>1, <2>1, Repainted DEF u
  <2> QED BY <2>2, <2>3
<1>9. Turned(u, r, b, D)
  <2>1. u.kid[Other(D)][b] # NULL
    BY <1>3, <1>5, <1>6, <1>8
  <2>2. Parent(u, b, parent)
    BY <1>1, <1>2, <1>3, <1>5, <1>8 DEF Parent
  <2> QED BY <1>1, <1>3, <1>8, <2>1, <2>2, RotateIs DEF r
<1>10. Shape(r, E, V, Q)
  <2>1. u.kid[Other(D)][b] # NULL
    BY <1>3, <1>5, <1>6, <1>8
  <2> QED BY <1>1, <1>3, <1>8, <1>9, <2>1, RotateShape DEF V, Q
<1>11. Balanced(r, E, C, parent, d)
  <2>1. t.kid[Other(D)][b] = near
    BY <1>3, <1>5
  <2>2. Recolored(t, u, ((t.red \ {near}) \cup {b}) \cup (IF b \in t.red THEN {near} ELSE {}))
    BY <1>5, <1>8 DEF Recolored
  <2>3. parent \notin {b, near}
    BY <1>1, <1>6
  <2>4. Balanced(r, E, [B EXCEPT ![t.kid[Other(D)][b]] = B[b], ![b] = B[t.kid[Other(D)][b]]], parent, d)
    <3>1. t.kid[Other(D)][b] \in t.red
      BY <1>5, <2>1
    <3>2. parent \notin {b, t.kid[Other(D)][b]} \/ (parent = b /\ d = D)
      BY <2>1, <2>3
    <3>3. Recolored(t, u, ((t.red \ {t.kid[Other(D)][b]}) \cup {b})
                            \cup (IF b \in t.red THEN {t.kid[Other(D)][b]} ELSE {}))
      BY <2>1, <2>2
    <3> QED BY <1>1, <1>3, <1>9, <3>1, <3>2, <3>3, Exchange
  <2> QED BY <2>1, <2>4 DEF C
<1>12. /\ r.red = (t.red \ {near}) \cup {b}
       /\ r.root = t.root /\ r.kid[D][near] = b /\ r.kid[d][near] = t.kid[d][near]
       /\ r.kid[d][b] = t.kid[D][near] /\ r.kid[D][b] = t.kid[D][b]
       /\ \A e \in Sides, m \in Keys \ {near, b} :
            r.kid[e][m] = IF t.kid[e][m] = b THEN near ELSE t.kid[e][m]
  <2>1. u.kid[Other(D)][b] = near
    BY <1>3, <1>5, <1>8
  <2>2. /\ r.red = u.red /\ r.root = (IF u.root = b THEN near ELSE u.root)
        /\ r.kid[D][near] = b /\ r.kid[Other(D)][near] = u.kid[Other(D)][near]
        /\ r.kid[Other(D)][b] = u.kid[D][near] /\ r.kid[D][b] = u.kid[D][b]
        /\ \A e \in Sides, m \in Keys \ {b, near} :
             r.kid[e][m] = IF u.kid[e][m] = b THEN near ELSE u.kid[e][m]
    BY <1>9, <2>1 DEF Turned
  <2>3. {near, b} = {b, near}
    OBVIOUS
  <2> QED BY <1>1, <1>3, <1>8, <2>2, <2>3
<1>13. r.kid[d][parent] = x /\ r.kid[D][parent] = near
  <2>1. parent \in Keys \ {near, b}
    BY <1>1, <1>2, <1>6
  <2> QED BY <1>1, <1>3, <1>5, <1>12, <2>1, Zenon
<1>14. Route(r, p, E, i - 1)
  <2>1. Route(u, p, E, i - 1) /\ u.root # b
    BY <1>1, <1>8 DEF Route
  <2>2. u.kid[Other(D)][b] = near
    BY <1>3, <1>5, <1>8
  <2>3. ASSUME NEW j \in 1 .. i - 1 PROVE p[j] \notin {b, near}
    <3>1. p[i - 1] \in U[p[j]]
      <4>1. i - 1 \in 1 .. i - 1
        OBVIOUS
      <4> QED BY <1>1, RouteNested
    <3>2. parent \notin U[b] /\ U[near] \subseteq U[b]
      BY <1>1, <1>3, <1>5, <1>6, Kids
    <3> QED BY <3>1, <3>2 DEF parent
  <2> QED BY <1>3, <1>8, <1>9, <2>1, <2>2, <2>3, RouteKept
<1>15. r.root \notin r.red /\ near \notin r.red /\ b \in r.red /\ x \notin r.red
  BY <1>1, <1>5, <1>6, <1>12, Zenon
<1>16. Calm(r, x)
  <2>1. ASSUME NEW m \in r.red, NEW e \in Sides PROVE r.kid[e][m] \notin r.red
    <3>1. CASE m = b
      <4>1. t.kid[D][near] \notin t.red /\ t.kid[D][near] # b
        <5>1. t.kid[D][near] # NULL => P[t.kid[D][near]] = near
          BY <1>1, <1>3, <1>6, Kids
        <5>2. P[b] = parent /\ parent # near /\ b # NULL
          BY <1>1, <1>6
        <5>3. t.kid[D][near] \notin t.red
          BY <1>3, <1>4, <1>5
        <5>4. t.kid[D][near] # b
          BY <5>1, <5>2
        <5> QED BY <5>3, <5>4
      <4>2. t.kid[D][b] # b
        BY <1>1, <1>3, Kids
      <4>3. r.kid[e][m] = t.kid[D][near] \/ r.kid[e][m] = t.kid[D][b]
        BY <1>3, <1>12, <3>1
      <4> QED BY <1>5, <1>12, <4>1, <4>2, <4>3, Zenon
    <3>2. CASE m # b
      <4>1. m \in t.red /\ m \in Keys \ {near, b}
        BY <1>2, <1>12, <2>1, <3>2
      <4>2. t.kid[e][m] \notin t.red
        BY <1>4, <4>1
      <4>3. r.kid[e][m] = near \/ r.kid[e][m] = t.kid[e][m]
        BY <1>12, <4>1
      <4>4. t.kid[e][m] # b \/ r.kid[e][m] = near
        BY <1>12, <4>1
      <4>5. r.red = (t.red \ {near}) \cup {b} /\ near \notin r.red
        BY <1>12, <1>15
      <4> QED BY <4>2, <4>3, <4>4, <4>5
    <3> QED BY <3>1, <3>2
  <2> QED BY <2>1 DEF Calm
<1>17. LacksBy(r, p, i, E, V, Q, C, d)
  <2>1. Shape(r, E, V, Q) /\ Route(r, p, E, i - 1) /\ d \in Sides
    BY <1>1, <1>10, <1>14
  <2>2. r.kid[d][p[i - 1]] = p[i]
    BY <1>13 DEF parent, x
  <2>3. Balanced(r, E, C, p[i - 1], d) /\ r.root \notin r.red /\ Calm(r, p[i])
    BY <1>11, <1>15, <1>16 DEF parent, x
  <2> QED BY <2>1, <2>2, <2>3 DEF LacksBy
<1>18. AtFar(r, p, i, E, d)
  <2>1. p[i] \notin r.red
    BY <1>15 DEF x
  <2>2. r.kid[Other(d)][p[i - 1]] = near /\ r.kid[Other(d)][near] = b
    BY <1>12, <1>13 DEF D, parent
  <2> QED BY <1>15, <1>17, <2>1, <2>2 DEF AtFar
<1> QED BY <1>7, <1>18

(* Case 4 paints the brother like the parent, the parent and the far nephew   *)
(* black, and turns the parent down.                                         *)
Repair(t, parent, b, far) == Paint(t, {parent, far, b}, IF IsRed(t, parent) THEN {b} ELSE {})
FarDown(t, p, i, d) ==
  LET parent == p[i - 1]
      b      == t.kid[Other(d)][parent]
  IN Rotate(Repair(t, parent, b, t.kid[Other(d)][b]), parent, Above(p, i - 2), d)

(* Case 4: the far nephew is red, and the tree is repaired.                   *)
LEMMA FarHeals ==
  ASSUME NEW t, NEW p \in Seq(Node), NEW i \in 2 .. Len(p), NEW E, NEW d, AtFar(t, p, i, E, d)
  PROVE  Shrinks(FarDown(t, p, i, d), p, 1, E)
<1>1. PICK U, P, B : LacksBy(t, p, i, E, U, P, B, d)
  BY DEF AtFar
<1> DEFINE D == Other(d)
           parent == p[i - 1]
           x == p[i]
           b == t.kid[D][parent]
           far == t.kid[D][b]
           near == t.kid[d][b]
           u == Repair(t, parent, b, far)
           r == Rotate(u, parent, Above(p, i - 2), d)
           C == [B EXCEPT ![far] = B[x] + 1, ![parent] = B[x] + 1, ![b] = B[parent]]
           V == TurnedU(u, U, parent, d)
           Q == TurnedP(u, P, parent, d)
<1>2. /\ Shape(t, E, U, P) /\ Route(t, p, E, i - 1) /\ d \in Sides /\ t.kid[d][parent] = x
      /\ Balanced(t, E, B, parent, d) /\ t.root \notin t.red /\ Calm(t, x)
      /\ parent \in E /\ parent # NULL /\ b \in E /\ b # NULL /\ b # x /\ b # parent /\ P[b] = parent
      /\ x \in Node /\ x # parent /\ B[b] = B[x] + 1 /\ b # t.root /\ Parent(t, parent, Above(p, i - 2))
      /\ B[parent] = B[x] + 1 + Weight(t, parent)
  <2>1. AtBrother(t, p, i, E, U, P, B, d)
    BY <1>1, BrotherIs
  <2> QED BY <2>1 DEF AtBrother
<1>3. FarDown(t, p, i, d) = r
  BY DEF FarDown
<1>4. b = t.kid[D][parent] /\ far = t.kid[D][b] /\ near = t.kid[d][b]
      /\ x \notin t.red /\ b \notin t.red /\ far \in t.red
  BY DEF AtFar
<1>5. p[1] = t.root
  BY <1>2 DEF Route
<1> HIDE DEF u, r, C, V, Q, D, parent, x, b, far, near
<1>6. /\ t \in TreeType /\ t.red \subseteq E /\ E \subseteq Keys /\ NULL \notin E
      /\ \A m \in E : m \in Node /\ m # NULL /\ m \in Keys
  BY <1>2, RBTreeAssumption DEF Shape, Node
<1>7. D \in Sides /\ D # d /\ Other(D) = d /\ Other(d) = D /\ \A e \in Sides : e = d \/ e = D
  BY <1>2, TwoSides DEF D
<1>8. \A m \in t.red, e \in Sides : t.kid[e][m] \notin t.red
  <2>1. x \notin t.red /\ t.red \ {x} = t.red
    BY <1>4
  <2> QED BY <1>2, <2>1 DEF Calm
<1>9. far \in E /\ far # NULL /\ P[far] = b /\ far # b /\ far # parent /\ far # near /\ far # x
  <2>1. far \in E /\ far # NULL
    BY <1>4, <1>6
  <2>2. P[far] = b /\ far # b /\ far \in U[b] /\ far # near
    <3>1. t.kid[D][b] # NULL
      BY <1>4, <2>1
    <3>2. P[t.kid[D][b]] = b /\ t.kid[D][b] # b /\ t.kid[D][b] \in U[b] /\ t.kid[Other(D)][b] # t.kid[D][b]
      BY <1>2, <1>7, <3>1, Kids
    <3> QED BY <1>4, <1>7, <3>2
  <2>3. parent \notin U[b]
    BY <1>2, <1>4, <1>7, Kids
  <2> QED BY <1>4, <2>1, <2>2, <2>3
<1>10. near \in E \cup {NULL} /\ near \in Node /\ near # b /\ near # parent
  <2>1. near \in E \cup {NULL} /\ near \in Node
    BY <1>2, <1>4, Kids
  <2>2. near # NULL => near \in U[b] /\ near # b
    BY <1>2, <1>4, Kids
  <2>3. parent \notin U[b]
    BY <1>2, <1>4, <1>7, Kids
  <2>4. NULL # b /\ NULL # parent
    BY <1>2
  <2> QED BY <2>1, <2>2, <2>3, <2>4
<1>11. /\ u \in TreeType /\ u.root = t.root /\ u.kid = t.kid /\ Shape(u, E, U, P)
       /\ u.red = (t.red \ {parent, far, b}) \cup (IF parent \in t.red THEN {b} ELSE {})
  <2> DEFINE red == IF IsRed(t, parent) THEN {b} ELSE {}
             black == {parent, far, b}
  <2>1. red \in SUBSET Keys /\ red \in SUBSET E /\ t \in TreeType
    BY <1>2, <1>6
  <2>2. u = Paint(t, black, red)
    BY DEF u, Repair
  <2>3. (t.red \ black) \cup red = (t.red \ {parent, far, b}) \cup (IF parent \in t.red THEN {b} ELSE {})
    BY DEF IsRed
  <2> HIDE DEF red, black
  <2>4. u \in TreeType /\ u.root = t.root /\ u.kid = t.kid /\ u.red = (t.red \ black) \cup red
    BY <2>1, <2>2, PaintIs
  <2>5. Shape(u, E, U, P)
    BY <1>2, <2>1, <2>2, Repainted
  <2> QED BY <2>3, <2>4, <2>5
<1>12. Turned(u, r, parent, d)
  <2>1. u.kid[Other(d)][parent] # NULL
    BY <1>2, <1>4, <1>7, <1>11
  <2>2. Parent(u, parent, Above(p, i - 2))
    BY <1>2, <1>11 DEF Parent
  <2> QED BY <1>2, <1>11, <2>1, <2>2, RotateIs DEF r
<1>13. Shape(r, E, V, Q)
  <2>1. u.kid[Other(d)][parent] # NULL
    BY <1>2, <1>4, <1>7, <1>11
  <2> QED BY <1>2, <1>11, <1>12, <2>1, RotateShape DEF V, Q
<1>14. /\ r.red = u.red /\ r.root = (IF t.root = parent THEN b ELSE t.root)
       /\ r.kid[d][b] = parent /\ r.kid[D][b] = far
       /\ r.kid[D][parent] = near /\ r.kid[d][parent] = x
       /\ \A e \in Sides, m \in Keys \ {parent, b} :
            r.kid[e][m] = IF t.kid[e][m] = parent THEN b ELSE t.kid[e][m]
  <2>1. u.kid[Other(d)][parent] = b
    BY <1>4, <1>7, <1>11
  <2>2. /\ r.red = u.red /\ r.root = (IF u.root = parent THEN b ELSE u.root)
        /\ r.kid[d][b] = parent /\ r.kid[Other(d)][b] = u.kid[Other(d)][b]
        /\ r.kid[Other(d)][parent] = u.kid[d][b] /\ r.kid[d][parent] = u.kid[d][parent]
        /\ \A e \in Sides, m \in Keys \ {parent, b} :
             r.kid[e][m] = IF u.kid[e][m] = parent THEN b ELSE u.kid[e][m]
    BY <1>12, <2>1 DEF Turned
  <2> QED BY <1>2, <1>4, <1>7, <1>11, <2>2
<1>15. /\ B \in [Node -> Nat] /\ B[NULL] = 0
       /\ \A n \in E, e \in Sides :
            B[t.kid[e][n]] + (IF n = parent /\ e = d THEN 1 ELSE 0) + Weight(t, n) = B[n]
  BY <1>2 DEF Balanced
<1>16. /\ C \in [Node -> Nat] /\ C[NULL] = 0 /\ C[far] = B[x] + 1 /\ C[parent] = B[x] + 1 /\ C[b] = B[parent]
       /\ \A m \in Node \ {far, parent, b} : C[m] = B[m]
  <2>1. B[x] + 1 \in Nat /\ B[parent] \in Nat /\ far \in Node /\ parent \in Node /\ b \in Node /\ NULL \in Node
    BY <1>2, <1>6, <1>9, <1>15 DEF Node
  <2> QED BY <1>2, <1>6, <1>9, <1>15, <2>1 DEF C
<1>17. /\ Weight(r, far) = 1 /\ Weight(r, parent) = 1 /\ Weight(r, b) = Weight(t, parent)
       /\ \A m \in Node \ {far, parent, b} : Weight(r, m) = Weight(t, m)
  BY <1>2, <1>9, <1>11, <1>14 DEF Weight
<1>18. B[near] = B[x] /\ B[far] = B[x] /\ B[x] \in Nat
  <2>1. B[near] + 0 + Weight(t, b) = B[b] /\ B[far] + 0 + Weight(t, b) = B[b]
    BY <1>2, <1>4, <1>7, <1>15
  <2>2. Weight(t, b) = 1
    BY <1>4 DEF Weight
  <2>3. B[near] \in Nat /\ B[far] \in Nat /\ B[x] \in Nat
    BY <1>2, <1>6, <1>9, <1>10, <1>15
  <2> QED BY <1>2, <2>1, <2>2, <2>3
<1>19. ASSUME NEW m \in E, NEW e \in Sides
       PROVE  C[r.kid[e][m]] + 0 + Weight(r, m) = C[m]
  <2>0. Weight(t, parent) \in Nat
    BY DEF Weight
  <2>1. CASE m = b
    <3>1. C[r.kid[e][m]] = B[x] + 1 /\ C[m] = B[x] + 1 + Weight(t, parent) /\ Weight(r, m) = Weight(t, parent)
      BY <1>2, <1>7, <1>14, <1>16, <1>17, <2>1
    <3> QED BY <1>18, <2>0, <3>1
  <2>2. CASE m = parent
    <3>1. C[near] = B[x]
      BY <1>9, <1>10, <1>16, <1>18
    <3>2. C[x] = B[x]
      BY <1>2, <1>4, <1>16
    <3>3. C[r.kid[e][m]] = B[x] /\ C[m] = B[x] + 1 /\ Weight(r, m) = 1
      BY <1>7, <1>14, <1>16, <1>17, <2>2, <3>1, <3>2
    <3> QED BY <1>18, <3>3
  <2>3. CASE m = far
    <3> DEFINE c == t.kid[e][far]
    <3>1. c \in Node /\ c # far /\ c # b /\ c # parent
      <4>1. c \in Node
        BY <1>2, <1>9, Kids
      <4>2. c # NULL => P[c] = far /\ c # far /\ c \in U[far] /\ U[far] \subseteq U[b]
        <5>1. U[far] \subseteq U[b]
          <6>1. t.kid[D][b] # NULL
            BY <1>4, <1>9
          <6>2. U[t.kid[D][b]] \subseteq U[b]
            BY <1>2, <1>7, <6>1, Kids
          <6> QED BY <1>4, <6>2
        <5> QED BY <1>2, <1>9, <5>1, Kids
      <4>3. parent \notin U[b]
        BY <1>2, <1>4, <1>7, Kids
      <4>4. P[b] = parent /\ far # parent /\ far # NULL /\ b # NULL /\ parent # NULL
        BY <1>2, <1>9
      <4> HIDE DEF c
      <4> QED BY <4>1, <4>2, <4>3, <4>4
    <3>2. B[c] + 0 + Weight(t, far) = B[far]
      BY <1>9, <1>15
    <3>3. Weight(t, far) = 0
      BY <1>4 DEF Weight
    <3>4. r.kid[e][m] = c
      BY <1>2, <1>6, <1>9, <1>14, <2>3, <3>1
    <3> HIDE DEF c
    <3>5. C[c] = B[c] /\ B[c] \in Nat
      BY <1>15, <1>16, <3>1
    <3>6. C[m] = B[x] + 1 /\ Weight(r, m) = 1
      BY <1>16, <1>17, <2>3
    <3> QED BY <1>18, <3>2, <3>3, <3>4, <3>5, <3>6
  <2>4. CASE m \notin {b, parent, far}
    <3> DEFINE c == t.kid[e][m]
    <3>1. c \in Node /\ c # b /\ c # far
      <4>1. c \in Node /\ (c # NULL => P[c] = m)
        BY <1>2, Kids
      <4> HIDE DEF c
      <4> QED BY <1>2, <1>9, <2>4, <4>1
    <3>2. B[c] + 0 + Weight(t, m) = B[m]
      BY <1>15, <2>4
    <3>3. r.kid[e][m] = IF c = parent THEN b ELSE c
      BY <1>6, <1>14, <2>4
    <3> HIDE DEF c
    <3>4. C[r.kid[e][m]] = B[c]
      BY <1>16, <3>1, <3>3
    <3>5. C[m] = B[m] /\ Weight(r, m) = Weight(t, m)
      BY <1>6, <1>16, <1>17, <2>4
    <3> QED BY <3>2, <3>4, <3>5
  <2> QED BY <2>1, <2>2, <2>3, <2>4
<1>20. Balanced(r, E, C, NULL, "L")
  <2>1. ASSUME NEW m \in E, NEW e \in Sides
        PROVE  C[r.kid[e][m]] + (IF m = NULL /\ e = "L" THEN 1 ELSE 0) + Weight(r, m) = C[m]
    <3>1. m # NULL
      BY <1>6
    <3> QED BY <1>19, <3>1
  <2> QED BY <1>16, <2>1 DEF Balanced
<1>21. r.root \notin r.red /\ p[1] \notin r.red
  <2>1. t.root \notin r.red
    BY <1>2, <1>11, <1>14
  <2>2. t.root = parent => b \notin r.red
    BY <1>2, <1>11, <1>14
  <2> QED BY <1>5, <1>14, <2>1, <2>2
<1>22. Calm(r, p[1])
  <2>1. ASSUME NEW m \in r.red, NEW e \in Sides PROVE r.kid[e][m] \notin r.red
    <3>1. CASE m = b
      <4>1. parent \notin r.red /\ far \notin r.red
        BY <1>2, <1>9, <1>11, <1>14
      <4> QED BY <1>7, <1>14, <3>1, <4>1
    <3>2. CASE m # b
      <4>1. m \in t.red /\ m \in Keys \ {parent, b}
        BY <1>6, <1>11, <1>14, <2>1, <3>2
      <4>2. t.kid[e][m] \notin t.red
        BY <1>8, <4>1
      <4>3. t.kid[e][m] # b
        <5>1. t.kid[e][m] # NULL => P[t.kid[e][m]] = m
          BY <1>2, <1>6, <4>1, Kids
        <5> QED BY <1>2, <4>1, <5>1
      <4>4. CASE t.kid[e][m] = parent
        <5>1. r.kid[e][m] = b /\ parent \notin t.red
          BY <1>14, <4>1, <4>2, <4>4
        <5> QED BY <1>4, <1>11, <1>14, <5>1
      <4>5. CASE t.kid[e][m] # parent
        <5>1. r.kid[e][m] = t.kid[e][m]
          BY <1>14, <4>1, <4>5
        <5> QED BY <1>11, <1>14, <4>2, <4>3, <5>1
      <4> QED BY <4>4, <4>5
    <3> QED BY <3>1, <3>2
  <2> QED BY <2>1 DEF Calm
<1>23. HealedBy(r, p[1], E, V, Q, C)
  BY <1>13, <1>20, <1>21, <1>22 DEF HealedBy
<1>24. Shrinks(r, p, 1, E)
  <2>1. p \in Seq(Node) /\ 1 \in 1 .. Len(p)
    OBVIOUS
  <2> QED BY <1>23, <2>1 DEF Shrinks, Healed
<1> QED BY <1>3, <1>24

(* What cases 2, 3 and 4 leave of state s.                                   *)
Settled(r, s, E) ==
  /\ r = [tree |-> r.tree, path |-> s.path, at |-> r.at]
  /\ Shrinks(r.tree, s.path, r.at, E)
  /\ r.at = 1 \/ (r.at = s.at - 1 /\ s.tree.red \subseteq r.tree.red)

(* Cases 2, 3 and 4 together. *)
LEMMA BlackBrotherKeeps ==
  ASSUME NEW s, NEW d, NEW E, AtBlack(s, d, E)
  PROVE  Settled(BlackBrother(s, d), s, E)
<1> DEFINE t == s.tree
           p == s.path
           i == s.at
           b == t.kid[Other(d)][p[i - 1]]
           near == t.kid[d][b]
           far == t.kid[Other(d)][b]
           turned == IF far \in t.red THEN t ELSE NearUp(t, p, i, d)
<1>1. /\ p \in Seq(Node) /\ i \in 2 .. Len(p) /\ p[i] \notin t.red /\ b \notin t.red
      /\ s = [tree |-> t, path |-> p, at |-> i]
  BY DEF AtBlack
<1>2. PICK U, P, B : LacksBy(t, p, i, E, U, P, B, d)
  BY DEF AtBlack
<1>3. BlackBrother(s, d) =
        IF near \notin t.red /\ far \notin t.red
        THEN [s EXCEPT !.tree = Paint(t, {}, {b}), !.at = i - 1]
        ELSE [s EXCEPT !.tree = FarDown(turned, p, i, d), !.at = 1]
  BY Zenon DEF BlackBrother, FarDown, NearUp, Repair, IsRed
<1>4. OnlyNear(t, p, i, d) <=> p[i] \notin t.red /\ b \notin t.red /\ near \in t.red /\ far \notin t.red
  BY DEF OnlyNear
<1>5. far \in t.red => AtFar(t, p, i, E, d)
  BY <1>1, <1>2 DEF AtFar
<1>6. d \in Sides /\ \A e \in Sides : e = d \/ e = Other(d)
  BY <1>2, TwoSides DEF LacksBy
<1>7. \A e \in Sides : t.kid[e][b] = near \/ t.kid[e][b] = far
  BY <1>6, Zenon
<1>8. t.red \subseteq Keys /\ b \in Keys /\ t \in TreeType
  <2>1. AtBrother(t, p, i, E, U, P, B, d)
    BY <1>1, <1>2, BrotherIs
  <2> QED BY <2>1, Zenon DEF AtBrother, Shape
<1> DEFINE r == BlackBrother(s, d)
<1>9. CASE near \notin t.red /\ far \notin t.red
  <2>1. r = [tree |-> Paint(t, {}, {b}), path |-> p, at |-> i - 1]
    <3> HIDE DEF b, near, far, turned, t, p, i
    <3> QED BY <1>1, <1>3, <1>9
  <2>2. \A e \in Sides : t.kid[e][b] \notin t.red
    BY <1>7, <1>9, Zenon
  <2>3. Shrinks(Paint(t, {}, {b}), p, i - 1, E)
    <3>1. b = t.kid[Other(d)][p[i - 1]]
      OBVIOUS
    <3> HIDE DEF b, near, far, turned, t, p, i
    <3> QED BY <1>1, <1>2, <2>2, <3>1, LackUp
  <2>4. t.red \subseteq Paint(t, {}, {b}).red
    <3> HIDE DEF b, near, far, turned, t, p, i
    <3>1. {b} \in SUBSET Keys
      BY <1>8
    <3>2. Paint(t, {}, {b}).red = (t.red \ {}) \cup {b}
      BY <1>8, <3>1, PaintIs
    <3> QED BY <3>2
  <2> HIDE DEF b, near, far, turned, r
  <2> QED BY <2>1, <2>3, <2>4 DEF Settled, r
<1>10. CASE ~(near \notin t.red /\ far \notin t.red)
  <2>1. r = [tree |-> FarDown(turned, p, i, d), path |-> p, at |-> 1]
    <3> HIDE DEF b, near, far, turned, t, p, i
    <3> QED BY <1>1, <1>3, <1>10
  <2>2. AtFar(turned, p, i, E, d)
    <3>1. CASE far \in t.red
      BY <1>5, <3>1
    <3>2. CASE far \notin t.red
      <4>1. OnlyNear(t, p, i, d)
        BY <1>1, <1>4, <1>10, <3>2, Zenon
      <4>2. turned = NearUp(t, p, i, d)
        BY <3>2
      <4> HIDE DEF b, near, far, turned, t, p, i
      <4> QED BY <1>1, <1>2, <4>1, <4>2, BrotherTurned
    <3> QED BY <3>1, <3>2, Zenon
  <2> HIDE DEF b, near, far, turned, t, p, i
  <2>3. Shrinks(FarDown(turned, p, i, d), p, 1, E)
    BY <1>1, <2>2, FarHeals
  <2> HIDE DEF r
  <2> QED BY <2>1, <2>3 DEF Settled, r, p
<1> QED BY <1>9, <1>10, Zenon

(* The loop is over.                                                         *)
Done(s) == s.at = 1 \/ s.path[s.at] \in s.tree.red

(* What a round of the loop leaves of state s: it is the last one, and the    *)
(* path is a node longer at most, or what lacks a black node is further up.   *)
Rounded(r, s, E) ==
  /\ r = [tree |-> r.tree, path |-> r.path, at |-> r.at]
  /\ Shrinks(r.tree, r.path, r.at, E)
  /\ \/ Done(r) /\ Len(r.path) <= Len(s.path) + 1
     \/ r.path = s.path /\ r.at < s.at

(* A round of the loop brings it closer to its end. *)
LEMMA DeleteRoundKeeps ==
  ASSUME NEW t, NEW p, NEW i, NEW E, Shrinks(t, p, i, E),
         NEW s, s = [tree |-> t, path |-> p, at |-> i], ~Done(s)
  PROVE  Rounded(DeleteRound(s), s, E)
<1>1. /\ p \in Seq(Node) /\ i \in 2 .. Len(p) /\ p[i] \notin t.red /\ i # 1
      /\ s.tree = t /\ s.path = p /\ s.at = i /\ Len(p) \in Nat
  BY DEF Shrinks, Done
<1>2. PICK U, P, B, d : LacksBy(t, p, i, E, U, P, B, d)
  BY <1>1 DEF Shrinks, Lacks
<1> DEFINE b == t.kid[Other(d)][p[i - 1]]
           s1 == CaseOne(t, p, i, d)
           r == DeleteRound(s)
<1>3. SideOf(t, p[i - 1], p[i]) = d
  <2>1. AtBrother(t, p, i, E, U, P, B, d)
    BY <1>1, <1>2, BrotherIs
  <2> QED BY <2>1 DEF AtBrother
<1>4. r = BlackBrother(IF b \in t.red THEN s1 ELSE s, d)
  BY <1>1, <1>3 DEF DeleteRound, IsRed, CaseOne
<1>5. s = [tree |-> s.tree, path |-> s.path, at |-> s.at]
  BY <1>1
<1>6. ASSUME b \notin t.red PROVE AtBlack(s, d, E)
  BY <1>1, <1>2, <1>5, <1>6 DEF AtBlack
<1>7. b = t.kid[Other(d)][p[i - 1]]
  OBVIOUS
<1> HIDE DEF r, b, s1
<1>8. CASE b \notin t.red
  <2>1. Settled(r, s, E)
    BY <1>4, <1>6, <1>8, BlackBrotherKeeps
  <2>2. r = [tree |-> r.tree, path |-> s.path, at |-> r.at] /\ Shrinks(r.tree, s.path, r.at, E)
        /\ (r.at = 1 \/ r.at = s.at - 1)
    BY <2>1 DEF Settled
  <2>3. r.path = s.path
    BY <2>2
  <2>4. r.at < s.at
    BY <1>1, <2>2
  <2>5. r = [tree |-> r.tree, path |-> r.path, at |-> r.at] /\ Shrinks(r.tree, r.path, r.at, E)
    BY <2>2, <2>3
  <2> QED BY <2>3, <2>4, <2>5 DEF Rounded, r
<1>9. CASE b \in t.red
  <2>1. /\ AtBlack(s1, d, E) /\ s1.at = i + 1 /\ s1.path[i] \in s1.tree.red
        /\ Len(s1.path) = (IF i < Len(p) THEN Len(p) ELSE i + 1)
    <3>1. t.kid[Other(d)][p[i - 1]] \in t.red
      BY <1>7, <1>9
    <3>2. RotatedUp(CaseOne(t, p, i, d), p, i, E, d)
      BY <1>1, <1>2, <3>1, BrotherRed
    <3> QED BY <3>2 DEF s1, RotatedUp
  <2>2. Settled(r, s1, E)
    BY <1>4, <1>9, <2>1, BlackBrotherKeeps
  <2>3. /\ r = [tree |-> r.tree, path |-> s1.path, at |-> r.at] /\ Shrinks(r.tree, s1.path, r.at, E)
        /\ (r.at = 1 \/ (r.at = s1.at - 1 /\ s1.tree.red \subseteq r.tree.red))
    BY <2>2 DEF Settled
  <2>4. r.path = s1.path
    BY <2>3
  <2>5. r = [tree |-> r.tree, path |-> r.path, at |-> r.at] /\ Shrinks(r.tree, r.path, r.at, E)
    BY <2>3, <2>4
  <2>6. s1.at - 1 = i
    BY <1>1, <2>1
  <2>7. Done(r)
    BY <2>1, <2>3, <2>4, <2>6 DEF Done
  <2>8. Len(r.path) <= Len(s.path) + 1
    BY <1>1, <2>1, <2>4
  <2> QED BY <2>5, <2>7, <2>8 DEF Rounded, r
<1> QED BY <1>8, <1>9

(* i_restructure_after_delete repairs the tree, and touches a slot behind the *)
(* path at most.                                                             *)
LEMMA AfterDeleteKeeps ==
  ASSUME NEW t, NEW p, NEW E, Shrinks(t, p, Len(p), E)
  PROVE  /\ Sound(AfterDelete(t, p).tree, E)
         /\ AfterDelete(t, p).slots \in Nat /\ AfterDelete(t, p).slots <= Len(p) + 1
<1> DEFINE n == Len(p)
           S == [tree : TreeType, path : Seq(Node), at : Nat]
           X == {s \in S : /\ Shrinks(s.tree, s.path, s.at, E)
                           /\ Len(s.path) <= n \/ (Done(s) /\ Len(s.path) <= n + 1)}
           F == [s \in X |-> DeleteRound(s)]
           a == [tree |-> t, path |-> p, at |-> n]
           Def(g) == [k \in 0 .. n |-> IF k = 0 THEN a ELSE DeleteRound(g[k - 1])]
           f == CHOOSE g : g = Def(g)
<1>0. n \in Nat /\ p \in Seq(Node) /\ \A k \in 1 .. n : k \in 0 .. n /\ k - 1 \in 0 .. n /\ k # 0
  BY DEF Shrinks
<1>1. ASSUME NEW u, NEW q, NEW i, Shrinks(u, q, i, E)
      PROVE  u \in TreeType /\ q \in Seq(Node) /\ i \in Nat
  <2>1. q \in Seq(Node) /\ i \in 1 .. Len(q)
    BY <1>1 DEF Shrinks
  <2>2. \E U, P : Shape(u, E, U, P)
    BY <1>1 DEF Shrinks, Healed, HealedBy, Lacks, LacksBy
  <2> QED BY <2>1, <2>2 DEF Shape
<1>2. ASSUME NEW s \in X
      PROVE  /\ DeleteRound(s) \in X /\ s.at \in Nat
             /\ Done(s) => DeleteRound(s) = s
             /\ ~Done(s) => Done(DeleteRound(s)) \/ DeleteRound(s).at < s.at
  <2> DEFINE r == DeleteRound(s)
  <2>1. /\ s = [tree |-> s.tree, path |-> s.path, at |-> s.at] /\ s.at \in Nat
        /\ Shrinks(s.tree, s.path, s.at, E)
        /\ Len(s.path) <= n \/ (Done(s) /\ Len(s.path) <= n + 1)
    OBVIOUS
  <2>2. CASE Done(s)
    <3>1. r = s
      BY <2>2 DEF Done, DeleteRound, IsRed
    <3> QED BY <2>1, <2>2, <3>1
  <2>3. CASE ~Done(s)
    <3> HIDE DEF r, X
    <3>1. Rounded(r, s, E)
      BY <2>1, <2>3, DeleteRoundKeeps DEF r
    <3>2. /\ r = [tree |-> r.tree, path |-> r.path, at |-> r.at]
          /\ Shrinks(r.tree, r.path, r.at, E)
          /\ (Done(r) /\ Len(r.path) <= Len(s.path) + 1) \/ (r.path = s.path /\ r.at < s.at)
      BY <3>1 DEF Rounded
    <3>3. r.tree \in TreeType /\ r.path \in Seq(Node) /\ r.at \in Nat
      BY <1>1, <3>2
    <3>4. r \in S
      BY <3>2, <3>3
    <3>5. Len(s.path) <= n /\ Len(s.path) \in Nat /\ Len(r.path) \in Nat
      BY <1>1, <2>1, <2>3, <3>3
    <3>6. Len(r.path) <= n \/ (Done(r) /\ Len(r.path) <= n + 1)
      BY <1>0, <3>2, <3>5
    <3>7. r \in X
      BY <3>2, <3>4, <3>6 DEF X
    <3> QED BY <2>1, <2>3, <3>2, <3>7 DEF r
  <2> QED BY <2>2, <2>3
<1>3. a \in X
  BY <1>0, <1>1
<1> HIDE DEF X
<1>4. Maps(F, X) /\ \A s \in X : F[s] = DeleteRound(s)
  BY <1>2 DEF Maps
<1> HIDE DEF F, a
<1>5. PICK g : Runs(g, F, X, a, n)
  BY <1>0, <1>3, <1>4, Iteration
<1>6. g \in [0 .. n -> X] /\ g[0] = a /\ \A k \in 1 .. n : g[k] = DeleteRound(g[k - 1])
  BY <1>0, <1>4, <1>5 DEF Runs
<1>7. g = Def(g)
  <2>1. \A k \in 0 .. n : g[k] = IF k = 0 THEN a ELSE DeleteRound(g[k - 1])
    BY <1>0, <1>6
  <2> QED BY <1>6, <2>1
<1>8. f = Def(f)
  <2> HIDE DEF Def
  <2> QED BY <1>7, Zenon
<1>9. AfterDelete(t, p) = [tree |-> Paint(f[n].tree, {f[n].path[f[n].at]}, {}), slots |-> Len(f[n].path)]
  BY Zenon DEF AfterDelete, a
<1> HIDE DEF f
<1>10. f[0] = a /\ \A k \in 1 .. n : f[k] = DeleteRound(f[k - 1])
  BY <1>0, <1>8
<1> HIDE DEF Def
<1> DEFINE H == {k \in Nat : f[k] \in X /\ (Done(f[k]) \/ f[k].at <= n - k)}
<1>11. 0 \in H
  <2>1. a.at = n
    BY DEF a
  <2> QED BY <1>0, <1>3, <1>10, <2>1
<1>12. ASSUME NEW k \in 1 .. n, k - 1 \in H PROVE k \in H
  <2>1. f[k - 1] \in X /\ (Done(f[k - 1]) \/ f[k - 1].at <= n - (k - 1)) /\ f[k] = DeleteRound(f[k - 1])
    BY <1>10, <1>12
  <2>2. /\ f[k] \in X /\ f[k - 1].at \in Nat
        /\ Done(f[k - 1]) => f[k] = f[k - 1]
        /\ ~Done(f[k - 1]) => Done(f[k]) \/ f[k].at < f[k - 1].at
    BY <1>2, <2>1
  <2>3. f[k].at \in Nat
    BY <1>2, <2>2
  <2>4. Done(f[k]) \/ f[k].at <= n - k
    BY <1>0, <2>1, <2>2, <2>3
  <2> QED BY <2>2, <2>4
<1>13. n \in H
  <2>1. H \in SUBSET Nat
    OBVIOUS
  <2> HIDE DEF H
  <2>2. \A k \in 0 .. n : k \in H
    BY <1>0, <1>11, <1>12, <2>1, UpTo
  <2> QED BY <1>0, <2>2
<1> DEFINE e == f[n]
<1>14. e \in X /\ (Done(e) \/ e.at <= 0)
  BY <1>0, <1>13
<1> HIDE DEF e
<1>15. /\ Shrinks(e.tree, e.path, e.at, E) /\ Len(e.path) <= n + 1 /\ Len(e.path) \in Nat /\ e.at # 0 /\ e.at \in Nat
  <2>1. Shrinks(e.tree, e.path, e.at, E) /\ e.path \in Seq(Node) /\ (Len(e.path) <= n \/ Len(e.path) <= n + 1)
    BY <1>14 DEF X
  <2>2. e.at \in 1 .. Len(e.path)
    BY <2>1 DEF Shrinks
  <2> QED BY <1>0, <2>1, <2>2
<1>16. e.at = 1 \/ e.path[e.at] \in e.tree.red
  BY <1>14, <1>15 DEF Done
<1>17. Sound(Paint(e.tree, {e.path[e.at]}, {}), E)
  BY <1>15, <1>16, HealedAtLast
<1>18. AfterDelete(t, p).tree = Paint(e.tree, {e.path[e.at]}, {}) /\ AfterDelete(t, p).slots = Len(e.path)
  BY <1>9 DEF e
<1> QED BY <1>15, <1>17, <1>18

-----------------------------------------------------------------------------
(* i_delete_element                                                         *)

(* Nothing hangs on s any more.                                              *)
Cleared(t, s) == [t EXCEPT !.kid["L"][s] = NULL, !.kid["R"][s] = NULL, !.red = @ \ {s}]

(* Tree r is t without node s, whose only child is in its place.             *)
Cut(t, r, s, child) ==
  /\ r \in TreeType /\ r.red = t.red \ {s}
  /\ r.root = IF t.root = s THEN child ELSE t.root
  /\ \A e \in Sides, m \in Keys :
       r.kid[e][m] = IF m = s THEN NULL ELSE IF t.kid[e][m] = s THEN child ELSE t.kid[e][m]

(* The pointers i_delete_element changes cut the node out. *)
LEMMA CutIs ==
  ASSUME NEW t, NEW E, NEW U, NEW P, Shape(t, E, U, P), NEW s \in E, NEW p,
         Parent(t, s, p), NEW c \in Node
  PROVE  Cut(t, Cleared(Replace(t, p, s, c), s), s, c)
<1> DEFINE u == Replace(t, p, s, c)
           K == [[u.kid EXCEPT !["L"][s] = NULL] EXCEPT !["R"][s] = NULL]
           r == [root |-> u.root, red |-> u.red \ {s}, kid |-> K]
<1>1. Put(t, u, s, c)
  BY ReplaceIs
<1> HIDE DEF u
<1>2. /\ u \in TreeType /\ u.red = t.red /\ u.root = (IF t.root = s THEN c ELSE t.root)
      /\ \A e \in Sides, m \in Keys : u.kid[e][m] = IF t.kid[e][m] = s THEN c ELSE t.kid[e][m]
  BY <1>1 DEF Put
<1>3. s \in Keys /\ u.kid \in [Sides -> [Keys -> Keys \cup {NULL}]]
      /\ u.root \in Keys \cup {NULL} /\ u.red \in SUBSET Keys
      /\ u = [root |-> u.root, red |-> u.red, kid |-> u.kid]
  BY <1>2 DEF Shape, TreeType
<1>4. Cleared(u, s) = r
  <2> DEFINE k1 == [u.kid EXCEPT !["L"][s] = NULL]
             v == [root |-> u.root, red |-> u.red, kid |-> k1]
             w == [root |-> u.root, red |-> u.red, kid |-> K]
  <2>1. [u EXCEPT !.kid["L"][s] = NULL] = v
    BY <1>3
  <2>2. [v EXCEPT !.kid["R"][s] = NULL] = w
    <3>1. K = [k1 EXCEPT !["R"][s] = NULL]
      OBVIOUS
    <3> HIDE DEF k1, K
    <3> QED BY <3>1
  <2>3. [w EXCEPT !.red = @ \ {s}] = r
    <3> HIDE DEF K
    <3> QED OBVIOUS
  <2>4. Cleared(u, s) = [[[u EXCEPT !.kid["L"][s] = NULL] EXCEPT !.kid["R"][s] = NULL] EXCEPT !.red = @ \ {s}]
    BY DEF Cleared
  <2> HIDE DEF v, w, r
  <2> QED BY <2>1, <2>2, <2>3, <2>4
<1>5. K \in [Sides -> [Keys -> Keys \cup {NULL}]]
  <2>1. [u.kid EXCEPT !["L"][s] = NULL] \in [Sides -> [Keys -> Keys \cup {NULL}]]
    BY <1>3 DEF Sides
  <2> QED BY <1>3, <2>1 DEF Sides
<1>6. \A e \in Sides, m \in Keys : K[e][m] = IF m = s THEN NULL ELSE u.kid[e][m]
  BY <1>3 DEF Sides
<1> HIDE DEF K
<1>7. r \in TreeType
  BY <1>3, <1>5 DEF TreeType
<1>8. r.root = u.root /\ r.red = u.red \ {s} /\ r.kid = K
  OBVIOUS
<1> HIDE DEF r
<1>9. Cut(t, r, s, c)
  BY <1>2, <1>6, <1>7, <1>8 DEF Cut
<1> QED BY <1>4, <1>9 DEF u

CutU(U, s) == [n \in Node |-> IF n = s THEN {} ELSE U[n] \ {s}]
CutP(P, s, c) == [n \in Node |-> IF n = NULL \/ n = s THEN NULL ELSE IF n = c THEN P[s] ELSE P[n]]

(* A node with one child at most can be cut out.                             *)
LEMMA CutShape ==
  ASSUME NEW t, NEW E, NEW U, NEW P, Shape(t, E, U, P), NEW s \in E, NEW d \in Sides,
         t.kid[Other(d)][s] = NULL, NEW r, Cut(t, r, s, t.kid[d][s])
  PROVE  Shape(r, E \ {s}, CutU(U, s), CutP(P, s, t.kid[d][s]))
<1> DEFINE c == t.kid[d][s]
           F == E \ {s}
           V == CutU(U, s)
           Q == CutP(P, s, c)
<1>1. /\ t \in TreeType /\ E \in SUBSET Keys /\ IsFiniteSet(E) /\ NULL \notin E /\ NULL \notin Keys
      /\ U \in [Node -> SUBSET E] /\ P \in [Node -> Node]
      /\ U[NULL] = {} /\ U[t.root] = E /\ P[t.root] = NULL
      /\ t.root \in E \cup {NULL} /\ t.red \subseteq E
      /\ \A n \in E : n \in U[n] /\ n \in Node /\ n \in Keys
      /\ \A n \in Keys \ E, e \in Sides : t.kid[e][n] = NULL
  BY RBTreeAssumption DEF Shape, Node
<1>2. \A n \in E, e \in Sides :
        /\ t.kid[e][n] \in E \cup {NULL}
        /\ \A x \in E : x \in U[t.kid[e][n]] <=> x \in U[n] /\ Before(e, x, n)
        /\ t.kid[e][n] # NULL => P[t.kid[e][n]] = n
  BY DEF Shape
<1>3. /\ r \in TreeType /\ r.red = t.red \ {s}
      /\ r.root = (IF t.root = s THEN c ELSE t.root)
      /\ \A e \in Sides, m \in Keys :
           r.kid[e][m] = IF m = s THEN NULL ELSE IF t.kid[e][m] = s THEN c ELSE t.kid[e][m]
  BY DEF Cut
<1>4. c \in E \cup {NULL} /\ c \in Node /\ (c # NULL => P[c] = s) /\ c # s /\ s \notin U[c]
  <2>1. c \in E \cup {NULL} /\ c \in Node
    BY Kids
  <2>2. c # NULL => P[c] = s /\ c # s /\ s \notin U[c]
    BY Kids
  <2> QED BY <1>1, <2>1, <2>2
<1>5. U[s] = {s} \cup U[c]
  <2>1. U[s] = {s} \cup U[t.kid["L"][s]] \cup U[t.kid["R"][s]]
    BY BelowIs
  <2>2. (d = "L" /\ Other(d) = "R") \/ (d = "R" /\ Other(d) = "L")
    BY DEF Sides, Other
  <2> QED BY <1>1, <2>1, <2>2
<1> HIDE DEF c
<1>6. F \in SUBSET Keys /\ IsFiniteSet(F) /\ NULL \notin F /\ F \subseteq E
  BY <1>1, FS_Subset
<1>7. s \in Node /\ NULL \in Node /\ s # NULL
  BY <1>1 DEF Node
<1>8. V \in [Node -> SUBSET F] /\ V[s] = {} /\ V[NULL] = {} /\ \A n \in Node \ {s} : V[n] = U[n] \ {s}
  BY <1>1, <1>7 DEF CutU
<1>9. /\ Q \in [Node -> Node] /\ Q[NULL] = NULL /\ (c # NULL => Q[c] = P[s])
      /\ \A n \in Node \ {s, NULL, c} : Q[n] = P[n]
  BY <1>1, <1>4, <1>7 DEF CutP
<1> HIDE DEF F, V, Q
<1>10. V[c] = U[c]
  <2>1. V[c] = U[c] \ {s}
    BY <1>4, <1>7, <1>8
  <2>2. U[c] \ {s} = U[c]
    BY <1>4
  <2> QED BY <2>1, <2>2
<1>11. V[r.root] = F /\ Q[r.root] = NULL /\ r.root \in F \cup {NULL}
  <2>1. CASE t.root = s
    <3>1. U[c] = F
      BY <1>1, <1>4, <1>5, <2>1 DEF F
    <3> QED BY <1>1, <1>3, <1>4, <1>9, <1>10, <2>1, <3>1 DEF F
  <2>2. CASE t.root # s
    <3>1. r.root = t.root /\ t.root \in Node /\ V[t.root] = F /\ t.root \in F \cup {NULL}
      BY <1>1, <1>3, <1>7, <1>8, <2>2 DEF F
    <3>2. Q[t.root] = NULL
      BY <1>1, <1>4, <1>9, <2>2, <3>1
    <3> QED BY <3>1, <3>2
  <2> QED BY <2>1, <2>2
<1>12. \A n \in F : n \in V[n]
  BY <1>1, <1>6, <1>8 DEF F
<1>13. ASSUME NEW n \in F, NEW e \in Sides
       PROVE  /\ r.kid[e][n] \in F \cup {NULL}
              /\ \A x \in F : x \in V[r.kid[e][n]] <=> x \in V[n] /\ Before(e, x, n)
              /\ r.kid[e][n] # NULL => Q[r.kid[e][n]] = n
  <2> DEFINE k == t.kid[e][n]
  <2>1. n \in E /\ n # s /\ n \in Keys /\ n \in Node /\ V[n] = U[n] \ {s}
    BY <1>1, <1>6, <1>8 DEF F
  <2>2. /\ k \in E \cup {NULL} /\ (k # NULL => P[k] = n)
        /\ \A x \in F : x \in U[k] <=> x \in U[n] /\ Before(e, x, n)
    BY <1>2, <1>6, <2>1
  <2>3. r.kid[e][n] = IF k = s THEN c ELSE k
    BY <1>3, <2>1
  <2> HIDE DEF k
  <2>4. CASE k = s
    <3>1. r.kid[e][n] = c /\ c \in F \cup {NULL}
      BY <1>4, <2>3, <2>4 DEF F
    <3>2. P[s] = n
      BY <1>7, <2>2, <2>4
    <3>3. \A x \in F : x \in V[c] <=> x \in U[s]
      BY <1>5, <1>10 DEF F
    <3>4. \A x \in F : x \in V[n] <=> x \in U[n]
      BY <2>1 DEF F
    <3>5. \A x \in F : x \in V[c] <=> x \in V[n] /\ Before(e, x, n)
      BY <2>2, <2>4, <3>3, <3>4
    <3> QED BY <1>9, <3>1, <3>2, <3>5
  <2>5. CASE k # s
    <3>1. r.kid[e][n] = k /\ k \in F \cup {NULL} /\ k \in Node
      BY <1>1, <1>7, <2>2, <2>3, <2>5 DEF F
    <3>2. V[k] = U[k] \ {s}
      BY <1>8, <2>5, <3>1
    <3>3. \A x \in F : x \in V[k] <=> x \in V[n] /\ Before(e, x, n)
      BY <2>1, <2>2, <3>2 DEF F
    <3>4. k # NULL => Q[k] = n
      <4>1. k # NULL => k # c
        BY <1>4, <2>1, <2>2
      <4> QED BY <1>9, <2>2, <2>5, <3>1, <4>1
    <3> QED BY <3>1, <3>3, <3>4
  <2> QED BY <2>4, <2>5
<1>14. \A n \in Keys \ F, e \in Sides : r.kid[e][n] = NULL
  BY <1>1, <1>3, <1>7 DEF F
<1>15. r.red \subseteq F
  BY <1>1, <1>3 DEF F
<1>16. Shape(r, F, V, Q)
  BY <1>3, <1>6, <1>8, <1>9, <1>11, <1>12, <1>13, <1>14, <1>15 DEF Shape
<1> QED BY <1>16 DEF F, V, Q, c

(* What the black nodes below count for, once s is cut out.                   *)
LEMMA CutBalance ==
  ASSUME NEW t, NEW E, NEW U, NEW P, Shape(t, E, U, P), NEW B, Balanced(t, E, B, NULL, "L"),
         NEW s \in E, NEW d \in Sides, t.kid[Other(d)][s] = NULL, NEW r, Cut(t, r, s, t.kid[d][s])
  PROVE  /\ B \in [Node -> Nat] /\ B[NULL] = 0
         /\ \A n \in E \ {s}, e \in Sides :
              B[r.kid[e][n]] + (IF t.kid[e][n] = s THEN Weight(t, s) ELSE 0) + Weight(r, n) = B[n]
<1> DEFINE c == t.kid[d][s]
<1>1. B \in [Node -> Nat] /\ B[NULL] = 0
      /\ \A n \in E, e \in Sides : B[t.kid[e][n]] + (IF n = NULL /\ e = "L" THEN 1 ELSE 0) + Weight(t, n) = B[n]
  BY DEF Balanced
<1>2. E \subseteq Keys /\ NULL \notin E
  BY RBTreeAssumption DEF Shape
<1>3. r.red = t.red \ {s} /\ \A e \in Sides, m \in Keys :
        r.kid[e][m] = IF m = s THEN NULL ELSE IF t.kid[e][m] = s THEN c ELSE t.kid[e][m]
  BY DEF Cut
<1>4. c \in Node
  BY Kids
<1>5. B[c] + Weight(t, s) = B[s] /\ B[c] \in Nat /\ Weight(t, s) \in Nat
  <2>1. B[c] + 0 + Weight(t, s) = B[s]
    BY <1>1, <1>2
  <2>2. B[c] \in Nat /\ Weight(t, s) \in Nat
    BY <1>1, <1>4 DEF Weight
  <2> HIDE DEF c
  <2> QED BY <2>1, <2>2
<1> HIDE DEF c
<1>6. ASSUME NEW n \in E \ {s}, NEW e \in Sides
      PROVE  B[r.kid[e][n]] + (IF t.kid[e][n] = s THEN Weight(t, s) ELSE 0) + Weight(r, n) = B[n]
  <2>1. B[t.kid[e][n]] + 0 + Weight(t, n) = B[n]
    BY <1>1, <1>2
  <2>2. Weight(r, n) = Weight(t, n) /\ Weight(t, n) \in Nat
    BY <1>3 DEF Weight
  <2>3. CASE t.kid[e][n] = s
    <3>1. r.kid[e][n] = c
      BY <1>2, <1>3, <2>3
    <3>2. B[t.kid[e][n]] = B[c] + Weight(t, s)
      BY <1>5, <2>3
    <3> QED BY <1>5, <2>1, <2>2, <2>3, <3>1, <3>2
  <2>4. CASE t.kid[e][n] # s
    <3>1. r.kid[e][n] = t.kid[e][n]
      BY <1>2, <1>3, <2>4
    <3> QED BY <2>1, <2>2, <2>4, <3>1
  <2> QED BY <2>3, <2>4
<1> QED BY <1>1, <1>6

(* The node at the end of path q is cut out, and its child c takes its place, *)
(* in the tree and on the path.                                              *)
CutAt(t, q, c) == Cleared(Replace(t, Above(q, Len(q) - 1), Last(q), c), Last(q))
CutPath(q, c) == [i \in 1 .. Len(q) |-> IF i = Len(q) THEN c ELSE q[i]]
CutLeaves(t, q, c, E) ==
  /\ Last(q) \in t.red => Sound(CutAt(t, q, c), E \ {Last(q)})
  /\ Last(q) \notin t.red => Shrinks(CutAt(t, q, c), CutPath(q, c), Len(q), E \ {Last(q)})
  /\ c \in (E \ {Last(q)}) \cup {NULL}

(* A cut red node leaves the tree sound, a cut black one leaves its place    *)
(* short of one black.                                                       *)
LEMMA CutKeeps ==
  ASSUME NEW t, NEW E, Sound(t, E), NEW q, Way(t, E, q), NEW d \in Sides,
         t.kid[Other(d)][Last(q)] = NULL
  PROVE  CutLeaves(t, q, t.kid[d][Last(q)], E)
<1>1. PICK U, P, B : SoundBy(t, E, U, P, B)
  BY DEF Sound
<1>2. Shape(t, E, U, P) /\ Balanced(t, E, B, NULL, "L") /\ Calm(t, NULL) /\ t.root \notin t.red
  BY <1>1 DEF SoundBy
<1> DEFINE s == Last(q)
           c == t.kid[d][s]
           L == Len(q)
           r == CutAt(t, q, c)
           w == CutPath(q, c)
           F == E \ {s}
           V == CutU(U, s)
           Q == CutP(P, s, c)
<1>3. /\ q \in Seq(Keys) /\ L \in Nat /\ L \in 1 .. L /\ q[1] = t.root /\ s = q[L]
      /\ \A j \in 1 .. L : q[j] \in E
      /\ \A j \in 1 .. L - 1 : \E e \in Sides : t.kid[e][q[j]] = q[j + 1]
  BY <1>2, WayIs
<1>4. Route(t, q, E, L)
  BY DEF Way
<1>5. s \in E /\ Parent(t, s, Above(q, L - 1)) /\ P[s] = Above(q, L - 1)
  <2>1. q[L] \in E /\ Parent(t, q[L], Above(q, L - 1)) /\ P[q[L]] = Above(q, L - 1)
    <3> HIDE DEF L
    <3> QED BY <1>2, <1>3, <1>4, OnRoute
  <2> QED BY <1>3, <2>1
<1>6. c \in E \cup {NULL} /\ c # s /\ c \in Node
  <2>1. c \in E \cup {NULL} /\ c \in Node
    BY <1>2, <1>5, Kids
  <2>2. c # NULL => c # s
    BY <1>2, <1>5, Kids
  <2>3. s # NULL
    BY <1>2, <1>5, Kids
  <2> QED BY <2>1, <2>2, <2>3
<1>7. Cut(t, r, s, c)
  <2>1. r = Cleared(Replace(t, Above(q, L - 1), s, c), s)
    BY DEF CutAt
  <2> HIDE DEF r, s, c, L
  <2> QED BY <1>2, <1>5, <1>6, <2>1, CutIs
<1>8. c = t.kid[d][s] /\ t.kid[Other(d)][s] = NULL /\ F = E \ {s}
  OBVIOUS
<1>9. w = [i \in 1 .. L |-> IF i = L THEN c ELSE q[i]]
  BY DEF CutPath
<1> HIDE DEF s, c, L, r, w, F, V, Q
<1>10. Shape(r, F, V, Q)
  BY <1>2, <1>5, <1>7, <1>8, CutShape DEF V, Q
<1>11. /\ B \in [Node -> Nat] /\ B[NULL] = 0
       /\ \A n \in F, e \in Sides :
            B[r.kid[e][n]] + (IF t.kid[e][n] = s THEN Weight(t, s) ELSE 0) + Weight(r, n) = B[n]
  BY <1>2, <1>5, <1>7, <1>8, CutBalance
<1>12. /\ r.red = t.red \ {s} /\ r.root = (IF t.root = s THEN c ELSE t.root)
       /\ \A e \in Sides, m \in Keys :
            r.kid[e][m] = IF m = s THEN NULL ELSE IF t.kid[e][m] = s THEN c ELSE t.kid[e][m]
  BY <1>7 DEF Cut
<1>13. /\ t.red \subseteq E /\ E \subseteq Keys /\ NULL \notin E
       /\ \A m \in t.red, e \in Sides : t.kid[e][m] \notin t.red
  <2>1. t.red \subseteq E /\ E \subseteq Keys /\ NULL \notin E
    BY <1>2, RBTreeAssumption DEF Shape
  <2>2. t.red \ {NULL} = t.red
    BY <2>1
  <2> QED BY <1>2, <2>1, <2>2 DEF Calm
<1>14. \A n \in E, e \in Sides : t.kid[e][n] = s => n = P[s] /\ s # t.root /\ t.kid[Other(e)][n] # s
  BY <1>2, <1>5, <1>13, Kids
<1>15. c \in F \cup {NULL}
  BY <1>6, <1>8
<1>16. CASE s \in t.red
  <2>1. Weight(t, s) = 0
    BY <1>16 DEF Weight
  <2>2. Balanced(r, F, B, NULL, "L")
    <3>1. ASSUME NEW n \in F, NEW e \in Sides
          PROVE  B[r.kid[e][n]] + (IF n = NULL /\ e = "L" THEN 1 ELSE 0) + Weight(r, n) = B[n]
      <4>1. n # NULL
        BY <1>8, <1>13
      <4>2. B[r.kid[e][n]] + 0 + Weight(r, n) = B[n]
        BY <1>11, <2>1
      <4> QED BY <4>1, <4>2
    <3> QED BY <1>11, <3>1 DEF Balanced
  <2>3. r.root \notin r.red
    BY <1>2, <1>12, <1>16
  <2>4. Calm(r, NULL)
    <3>1. ASSUME NEW m \in r.red, NEW e \in Sides PROVE r.kid[e][m] \notin r.red
      <4>1. m \in t.red /\ m # s /\ m \in Keys
        BY <1>12, <1>13
      <4>2. t.kid[e][m] \notin t.red /\ t.kid[e][m] # s
        BY <1>13, <1>16, <4>1
      <4> QED BY <1>12, <4>1, <4>2
    <3> QED BY <3>1 DEF Calm
  <2>5. SoundBy(r, F, V, Q, B)
    BY <1>10, <2>2, <2>3, <2>4 DEF SoundBy
  <2>6. Sound(r, F)
    BY <2>5 DEF Sound
  <2> QED BY <1>15, <1>16, <2>6 DEF CutLeaves, r, s, c, F
<1>17. CASE s \notin t.red
  <2>0. Weight(t, s) = 1
    BY <1>17 DEF Weight
  <2>1. w \in Seq(Node) /\ Len(w) = L /\ w[L] = c /\ \A j \in 1 .. L - 1 : w[j] = q[j]
    <3>1. \A j \in 1 .. L : (IF j = L THEN c ELSE q[j]) \in Node
      BY <1>3, <1>6, <1>13 DEF Node
    <3>2. \A j \in 1 .. L - 1 : j \in 1 .. L /\ j # L
      BY <1>3
    <3>3. w \in [1 .. L -> Node] /\ \A j \in 1 .. L : w[j] = IF j = L THEN c ELSE q[j]
      BY <1>9, <3>1
    <3>4. w \in Seq(Node) /\ Len(w) = L
      BY <1>3, <3>3
    <3>5. w[L] = c
      BY <1>3, <3>3
    <3>6. \A j \in 1 .. L - 1 : w[j] = q[j]
      BY <3>2, <3>3
    <3> QED BY <3>4, <3>5, <3>6
  <2>2. Calm(r, c)
    <3>1. ASSUME NEW m \in r.red \ {c}, NEW e \in Sides PROVE r.kid[e][m] \notin r.red \ {c}
      <4>1. m \in t.red /\ m # s /\ m \in Keys
        BY <1>12, <1>13
      <4>2. t.kid[e][m] \notin t.red
        BY <1>13, <4>1
      <4>3. r.kid[e][m] = c \/ r.kid[e][m] = t.kid[e][m]
        BY <1>12, <4>1
      <4> QED BY <1>12, <4>2, <4>3
    <3> QED BY <3>1 DEF Calm
  <2>3. CASE L = 1
    <3>1. t.root = s
      BY <1>3, <2>3
    <3>2. r.root = c
      BY <1>12, <3>1
    <3>3. Balanced(r, F, B, NULL, "L")
      <4>1. ASSUME NEW n \in F, NEW e \in Sides
            PROVE  B[r.kid[e][n]] + (IF n = NULL /\ e = "L" THEN 1 ELSE 0) + Weight(r, n) = B[n]
        <5>1. n # NULL /\ n \in E
          BY <1>8, <1>13
        <5>2. t.kid[e][n] # s
          BY <1>14, <3>1, <5>1
        <5>3. B[r.kid[e][n]] + 0 + Weight(r, n) = B[n]
          BY <1>11, <5>2
        <5> QED BY <5>1, <5>3
      <4> QED BY <1>11, <4>1 DEF Balanced
    <3>4. HealedBy(r, w[1], F, V, Q, B)
      BY <1>10, <2>1, <2>2, <2>3, <3>2, <3>3 DEF HealedBy
    <3>5. Shrinks(r, w, L, F)
      BY <1>3, <2>1, <2>3, <3>4 DEF Shrinks, Healed
    <3> QED BY <1>15, <1>17, <3>5 DEF CutLeaves, r, s, c, F, w, L
  <2>4. CASE L # 1
    <3>0. L - 1 \in 1 .. L - 1 /\ L - 1 \in 1 .. L /\ (L - 1) + 1 = L /\ 1 \in 1 .. L - 1 /\ L - 1 > 0
      BY <1>3, <2>4
    <3> DEFINE y == q[L - 1]
    <3>1. PICK e \in Sides : t.kid[e][y] = s
      BY <1>3, <3>0
    <3>2. y \in E /\ y = P[s] /\ s # t.root /\ t.kid[Other(e)][y] # s /\ y \in Keys
      BY <1>3, <1>13, <1>14, <3>0, <3>1
    <3>3. \A j \in 1 .. L - 1 : q[j] # s /\ q[j] \in F /\ q[j] \in Keys
      <4>1. ASSUME NEW j \in 1 .. L - 1 PROVE q[j] # s /\ q[j] \in E
        <5>1. j \in 1 .. L /\ j # L
          BY <1>3
        <5>2. q[j] # q[L]
          BY <1>2, <1>4, <5>1, RouteNested
        <5> QED BY <1>3, <5>1, <5>2
      <4> QED BY <1>8, <1>13, <4>1
    <3>4. r.kid[e][y] = c
      BY <1>12, <3>0, <3>1, <3>2, <3>3
    <3>5. Route(r, w, F, L - 1)
      <4>1. w[1] = r.root
        BY <1>3, <1>12, <2>1, <3>0, <3>2
      <4>2. \A j \in 1 .. L - 1 : w[j] \in F
        BY <2>1, <3>3
      <4>3. ASSUME NEW j \in 1 .. (L - 1) - 1 PROVE \E f \in Sides : r.kid[f][w[j]] = w[j + 1]
        <5>1. j \in 1 .. L - 1 /\ j + 1 \in 1 .. L - 1
          BY <1>3
        <5>2. PICK f \in Sides : t.kid[f][q[j]] = q[j + 1]
          BY <1>3, <5>1
        <5>3. r.kid[f][q[j]] = q[j + 1]
          BY <1>12, <3>3, <5>1, <5>2
        <5> QED BY <2>1, <5>1, <5>3
      <4>4. L - 1 \in 1 .. Len(w)
        BY <2>1, <3>0
      <4> QED BY <4>1, <4>2, <4>3, <4>4 DEF Route
    <3>6. Balanced(r, F, B, y, e)
      <4>1. ASSUME NEW n \in F, NEW f \in Sides
            PROVE  B[r.kid[f][n]] + (IF n = y /\ f = e THEN 1 ELSE 0) + Weight(r, n) = B[n]
        <5>1. n \in E
          BY <1>8
        <5>2. t.kid[f][n] = s <=> n = y /\ f = e
          <6>1. ASSUME t.kid[f][n] = s PROVE n = y /\ f = e
            <7>1. n = y
              BY <1>14, <3>2, <5>1, <6>1
            <7>2. f # e => f = Other(e)
              BY TwoSides
            <7> QED BY <3>2, <6>1, <7>1, <7>2
          <6> QED BY <3>1, <6>1
        <5> QED BY <1>11, <2>0, <5>2
      <4> QED BY <1>11, <4>1 DEF Balanced
    <3>7. r.root \notin r.red
      BY <1>2, <1>12, <3>2
    <3>8. LacksBy(r, w, L, F, V, Q, B, e)
      <4>1. w[L - 1] = y /\ w[L] = c
        BY <2>1, <3>0
      <4> HIDE DEF y
      <4> QED BY <1>10, <2>2, <3>1, <3>4, <3>5, <3>6, <3>7, <4>1 DEF LacksBy
    <3>9. Shrinks(r, w, L, F)
      BY <1>3, <2>1, <2>4, <3>8 DEF Shrinks, Lacks
    <3> QED BY <1>15, <1>17, <3>9 DEF CutLeaves, r, s, c, F, w, L
  <2> QED BY <2>3, <2>4
<1> QED BY <1>16, <1>17

(* The node k takes the name s.                                              *)
To(k, s, n) == IF n = k THEN s ELSE n
Fro(k, s, n) == IF n = s THEN k ELSE n
Renamed(t, r, k, s) ==
  /\ r \in TreeType /\ r.root = To(k, s, t.root)
  /\ r.red = (t.red \ {k, s}) \cup (IF k \in t.red THEN {s} ELSE {})
  /\ \A e \in Sides, n \in Keys :
       r.kid[e][n] = IF n = s THEN To(k, s, t.kid[e][k])
                     ELSE IF n = k THEN NULL ELSE To(k, s, t.kid[e][n])

(* Rename does it. *)
LEMMA RenameIs ==
  ASSUME NEW t \in TreeType, NEW k \in Keys, NEW s \in Keys, k # s
  PROVE  Renamed(t, Rename(t, k, s), k, s)
<1> DEFINE R == (t.red \ {k, s}) \cup (IF k \in t.red THEN {s} ELSE {})
           K == [d \in Sides |-> [n \in Keys |-> IF n = s THEN To(k, s, t.kid[d][k])
                                                 ELSE IF n = k THEN NULL ELSE To(k, s, t.kid[d][n])]]
           r == [root |-> To(k, s, t.root), red |-> R, kid |-> K]
<1>1. Rename(t, k, s) = r
  BY DEF Rename, To
<1>2. /\ t.root \in Keys \cup {NULL} /\ t.red \in SUBSET Keys
      /\ t.kid \in [Sides -> [Keys -> Keys \cup {NULL}]]
  BY DEF TreeType
<1>3. To(k, s, t.root) \in Keys \cup {NULL}
  BY <1>2 DEF To
<1>4. R \in SUBSET Keys
  BY <1>2
<1>5. K \in [Sides -> [Keys -> Keys \cup {NULL}]]
  <2>1. \A d \in Sides, n \in Keys : To(k, s, t.kid[d][n]) \in Keys \cup {NULL}
    BY <1>2 DEF To
  <2>2. \A d \in Sides, n \in Keys :
          (IF n = s THEN To(k, s, t.kid[d][k])
           ELSE IF n = k THEN NULL ELSE To(k, s, t.kid[d][n])) \in Keys \cup {NULL}
    BY <2>1
  <2> QED BY <2>2
<1>6. \A d \in Sides, n \in Keys :
        K[d][n] = IF n = s THEN To(k, s, t.kid[d][k])
                  ELSE IF n = k THEN NULL ELSE To(k, s, t.kid[d][n])
  OBVIOUS
<1> HIDE DEF K
<1>7. r \in TreeType
  BY <1>3, <1>4, <1>5 DEF TreeType
<1>8. r.root = To(k, s, t.root) /\ r.red = R /\ r.kid = K
  OBVIOUS
<1> HIDE DEF r
<1>9. Renamed(t, r, k, s)
  BY <1>6, <1>7, <1>8 DEF Renamed
<1> QED BY <1>1, <1>9

(* A name the tree does not hold, in the order of the others where k is.      *)
Fits(k, s, E) ==
  /\ k \in E /\ s \in Keys \ E /\ E \subseteq Keys
  /\ \A x \in E \ {k}, d \in Sides : Before(d, x, k) <=> Before(d, x, s)
Swapped(k, s, E) == (E \ {k}) \cup {s}
ToU(U, k, s, E) ==
  [n \in Node |-> IF n = k THEN {} ELSE {x \in Swapped(k, s, E) : Fro(k, s, x) \in U[Fro(k, s, n)]}]
ToP(P, k, s) == [n \in Node |-> IF n = k THEN NULL ELSE To(k, s, P[Fro(k, s, n)])]
ToB(B, k, s) == [n \in Node |-> IF n = k THEN 0 ELSE B[Fro(k, s, n)]]

(* The new names are as good as the old ones.                                *)
LEMMA NewNames ==
  ASSUME NEW k, NEW s, NEW E, Fits(k, s, E)
  PROVE  /\ k # s /\ k \in Keys /\ s \in Keys /\ k \in Node /\ s \in Node
         /\ NULL # k /\ NULL # s /\ NULL \notin E /\ s \notin E
         /\ \A n \in E : n \in Node /\ n # s /\ To(k, s, n) \in Swapped(k, s, E)
         /\ \A n \in E \cup {NULL} : /\ To(k, s, n) \in Swapped(k, s, E) \cup {NULL}
                                     /\ To(k, s, n) # k /\ Fro(k, s, To(k, s, n)) = n
                                     /\ n # s /\ n \in Node /\ To(k, s, n) \in Node
         /\ \A n \in Swapped(k, s, E) : /\ Fro(k, s, n) \in E /\ To(k, s, Fro(k, s, n)) = n
                                        /\ n # k /\ n \in Keys /\ n \in Node /\ n # NULL
         /\ To(k, s, NULL) = NULL /\ Fro(k, s, NULL) = NULL /\ Swapped(k, s, E) \subseteq Keys
         /\ \A x, n \in Swapped(k, s, E), d \in Sides :
              Before(d, Fro(k, s, x), Fro(k, s, n)) <=> Before(d, x, n)
<1>1. k \in E /\ s \in Keys /\ s \notin E /\ E \subseteq Keys /\ NULL \notin Keys /\ NULL \notin E
  BY RBTreeAssumption DEF Fits
<1>2. k # s /\ k \in Keys /\ k \in Node /\ s \in Node /\ NULL # k /\ NULL # s
  BY <1>1 DEF Node
<1>3. ASSUME NEW n \in E \cup {NULL}
      PROVE  /\ To(k, s, n) \in Swapped(k, s, E) \cup {NULL} /\ (n # NULL => To(k, s, n) \in Swapped(k, s, E))
             /\ To(k, s, n) # k /\ Fro(k, s, To(k, s, n)) = n
             /\ n # s /\ n \in Node /\ To(k, s, n) \in Node
  BY <1>1, <1>2 DEF To, Fro, Swapped, Node
<1>4. ASSUME NEW n \in Swapped(k, s, E)
      PROVE  /\ Fro(k, s, n) \in E /\ To(k, s, Fro(k, s, n)) = n
             /\ n # k /\ n \in Keys /\ n \in Node /\ n # NULL /\ (n # s => n \in E \ {k})
  BY <1>1, <1>2 DEF To, Fro, Swapped, Node
<1>5. To(k, s, NULL) = NULL /\ Fro(k, s, NULL) = NULL
  BY <1>2 DEF To, Fro
<1>6. ASSUME NEW x \in Swapped(k, s, E), NEW n \in Swapped(k, s, E), NEW d \in Sides
      PROVE  Before(d, Fro(k, s, x), Fro(k, s, n)) <=> Before(d, x, n)
  <2>1. ASSUME NEW y \in E \ {k}, NEW e \in Sides
        PROVE  (Before(e, y, k) <=> Before(e, y, s)) /\ (Before(e, k, y) <=> Before(e, s, y))
    <3>1. Other(e) \in Sides /\ y \in Keys
      BY <1>1, TwoSides
    <3>2. (Before(e, y, k) <=> Before(e, y, s)) /\ (Before(Other(e), y, k) <=> Before(Other(e), y, s))
      BY <3>1 DEF Fits
    <3>3. (Before(e, k, y) <=> Before(Other(e), y, k)) /\ (Before(e, s, y) <=> Before(Other(e), y, s))
      BY <1>1, <1>2, <3>1, Order
    <3> QED BY <3>2, <3>3
  <2>2. CASE x = s /\ n = s
    BY <1>1, <1>2, <2>2, Order DEF Fro
  <2>3. CASE x = s /\ n # s
    BY <1>4, <2>1, <2>3 DEF Fro
  <2>4. CASE x # s /\ n = s
    BY <1>4, <2>1, <2>4 DEF Fro
  <2>5. CASE x # s /\ n # s
    BY <2>5 DEF Fro
  <2> QED BY <2>2, <2>3, <2>4, <2>5
<1>7. Swapped(k, s, E) \subseteq Keys
  BY <1>4
<1> QED BY <1>1, <1>2, <1>3, <1>4, <1>5, <1>6, <1>7

(* The tree under the new names.                                             *)
LEMMA RenameShape ==
  ASSUME NEW t, NEW E, NEW U, NEW P, Shape(t, E, U, P), NEW k, NEW s, Fits(k, s, E),
         NEW r, Renamed(t, r, k, s)
  PROVE  /\ Shape(r, Swapped(k, s, E), ToU(U, k, s, E), ToP(P, k, s))
         /\ \A n \in Swapped(k, s, E), e \in Sides :
              /\ t.kid[e][Fro(k, s, n)] \in E \cup {NULL}
              /\ r.kid[e][n] = To(k, s, t.kid[e][Fro(k, s, n)])
              /\ n \in r.red <=> Fro(k, s, n) \in t.red
         /\ r.red \subseteq Swapped(k, s, E) /\ r.root = To(k, s, t.root) /\ t.root \in E \cup {NULL}
         /\ \A n \in E \cup {NULL} : To(k, s, n) \in r.red <=> n \in t.red
<1> DEFINE F == Swapped(k, s, E)
           V == ToU(U, k, s, E)
           Q == ToP(P, k, s)
<1>1. /\ t \in TreeType /\ E \in SUBSET Keys /\ IsFiniteSet(E)
      /\ U \in [Node -> SUBSET E] /\ P \in [Node -> Node]
      /\ U[NULL] = {} /\ U[t.root] = E /\ P[t.root] = NULL
      /\ t.root \in E \cup {NULL} /\ t.red \subseteq E
      /\ \A n \in E : n \in U[n]
      /\ \A n \in Keys \ E, e \in Sides : t.kid[e][n] = NULL
  BY DEF Shape
<1>2. \A n \in E, e \in Sides :
        /\ t.kid[e][n] \in E \cup {NULL}
        /\ \A x \in E : x \in U[t.kid[e][n]] <=> x \in U[n] /\ Before(e, x, n)
        /\ t.kid[e][n] # NULL => P[t.kid[e][n]] = n
  BY DEF Shape
<1>3. /\ r \in TreeType /\ r.root = To(k, s, t.root)
      /\ r.red = (t.red \ {k, s}) \cup (IF k \in t.red THEN {s} ELSE {})
      /\ \A e \in Sides, n \in Keys :
           r.kid[e][n] = IF n = s THEN To(k, s, t.kid[e][k])
                         ELSE IF n = k THEN NULL ELSE To(k, s, t.kid[e][n])
  BY DEF Renamed
<1>4. /\ k # s /\ k \in Keys /\ s \in Keys /\ k \in Node /\ s \in Node
      /\ NULL # k /\ NULL # s /\ NULL \notin E /\ s \notin E
      /\ To(k, s, NULL) = NULL /\ Fro(k, s, NULL) = NULL /\ F \subseteq Keys
  BY NewNames
<1>5. /\ \A n \in E : n \in Node /\ n # s /\ To(k, s, n) \in F
      /\ \A n \in E \cup {NULL} : /\ To(k, s, n) \in F \cup {NULL}
                                  /\ To(k, s, n) # k /\ Fro(k, s, To(k, s, n)) = n
                                  /\ n # s /\ n \in Node /\ To(k, s, n) \in Node
  BY NewNames
<1>6. \A n \in F : /\ Fro(k, s, n) \in E /\ To(k, s, Fro(k, s, n)) = n
                   /\ n # k /\ n \in Keys /\ n \in Node /\ n # NULL
  BY NewNames
<1>7. \A x, n \in F, d \in Sides : Before(d, Fro(k, s, x), Fro(k, s, n)) <=> Before(d, x, n)
  BY NewNames
<1>8. IsFiniteSet(F)
  <2>1. IsFiniteSet(E \ {k})
    BY <1>1, FS_Subset
  <2> QED BY <2>1, FS_AddElement DEF Swapped
<1>9. \A n \in F, e \in Sides : r.kid[e][n] = To(k, s, t.kid[e][Fro(k, s, n)])
  BY <1>3, <1>6 DEF Fro
<1>10. \A n \in Node \ {k} : Fro(k, s, n) \in Node
  BY <1>4 DEF Fro
<1>11. /\ V \in [Node -> SUBSET F]
       /\ \A n \in Node \ {k} : V[n] = {x \in F : Fro(k, s, x) \in U[Fro(k, s, n)]}
  BY DEF ToU
<1>12. \A n \in E \cup {NULL} : V[To(k, s, n)] = {x \in F : Fro(k, s, x) \in U[n]}
  BY <1>5, <1>11
<1>13. Q \in [Node -> Node] /\ \A n \in Node \ {k} : Q[n] = To(k, s, P[Fro(k, s, n)])
  <2>1. NULL \in Node
    BY DEF Node
  <2>2. \A m \in Node : To(k, s, m) \in Node
    BY <1>4 DEF To
  <2> QED BY <1>1, <1>10, <2>1, <2>2 DEF ToP
<1>14. \A n \in E \cup {NULL} : Q[To(k, s, n)] = To(k, s, P[n])
  BY <1>5, <1>13
<1> HIDE DEF F, V, Q
<1>15. V[NULL] = {} /\ V[r.root] = F /\ Q[r.root] = NULL /\ r.root \in F \cup {NULL}
  <2>1. V[NULL] = {}
    BY <1>1, <1>4, <1>12
  <2>2. V[r.root] = {x \in F : Fro(k, s, x) \in E}
    BY <1>1, <1>3, <1>12
  <2>3. Q[r.root] = NULL
    BY <1>1, <1>3, <1>4, <1>14
  <2> QED BY <1>1, <1>3, <1>5, <1>6, <2>1, <2>2, <2>3
<1>16. \A n \in F : n \in V[n]
  BY <1>1, <1>6, <1>11
<1>17. ASSUME NEW n \in F, NEW e \in Sides
       PROVE  /\ r.kid[e][n] \in F \cup {NULL}
              /\ \A x \in F : x \in V[r.kid[e][n]] <=> x \in V[n] /\ Before(e, x, n)
              /\ r.kid[e][n] # NULL => Q[r.kid[e][n]] = n
              /\ t.kid[e][Fro(k, s, n)] \in E \cup {NULL}
  <2> DEFINE m == Fro(k, s, n)
             z == t.kid[e][m]
  <2>1. m \in E /\ To(k, s, m) = n /\ n \in Node \ {k} /\ n \in Keys
    BY <1>6
  <2>2. /\ z \in E \cup {NULL} /\ (z # NULL => P[z] = m)
        /\ \A x \in E : x \in U[z] <=> x \in U[m] /\ Before(e, x, m)
    BY <1>2, <2>1
  <2>3. r.kid[e][n] = To(k, s, z)
    BY <1>9
  <2>4. V[n] = {x \in F : Fro(k, s, x) \in U[m]}
    BY <1>11, <2>1
  <2>5. \A x \in F : Before(e, Fro(k, s, x), m) <=> Before(e, x, n)
    BY <1>7
  <2> HIDE DEF z
  <2>6. V[To(k, s, z)] = {x \in F : Fro(k, s, x) \in U[z]}
    BY <1>12, <2>2
  <2> HIDE DEF m
  <2>7. ASSUME NEW x \in F PROVE x \in V[r.kid[e][n]] <=> x \in V[n] /\ Before(e, x, n)
    <3>1. Fro(k, s, x) \in E
      BY <1>6
    <3>2. x \in V[r.kid[e][n]] <=> Fro(k, s, x) \in U[z]
      BY <2>3, <2>6
    <3>3. x \in V[n] <=> Fro(k, s, x) \in U[m]
      BY <2>4
    <3> QED BY <2>2, <2>5, <3>1, <3>2, <3>3
  <2>8. r.kid[e][n] # NULL => Q[r.kid[e][n]] = n
    BY <1>4, <1>14, <2>1, <2>2, <2>3
  <2>9. r.kid[e][n] \in F \cup {NULL}
    BY <1>5, <2>2, <2>3
  <2> QED BY <2>2, <2>7, <2>8, <2>9 DEF z, m
<1>18. ASSUME NEW n \in Keys \ F, NEW e \in Sides PROVE r.kid[e][n] = NULL
  <2>1. n # s /\ (n = k \/ n \notin E)
    BY DEF F, Swapped
  <2> QED BY <1>1, <1>3, <1>4, <2>1
<1>19. ASSUME NEW n \in F PROVE n \in r.red <=> Fro(k, s, n) \in t.red
  BY <1>1, <1>3, <1>4, <1>6 DEF Fro
<1>20. r.red \subseteq F
  BY <1>1, <1>3 DEF F, Swapped
<1>21. Shape(r, F, V, Q)
  BY <1>3, <1>4, <1>8, <1>11, <1>13, <1>15, <1>16, <1>17, <1>18, <1>20 DEF Shape
<1>22. ASSUME NEW n \in E \cup {NULL} PROVE To(k, s, n) \in r.red <=> n \in t.red
  <2>1. CASE n \in E
    BY <1>5, <1>19, <2>1
  <2>2. CASE n = NULL
    <3>1. NULL \notin r.red /\ NULL \notin t.red
      BY <1>1, <1>4, <1>6, <1>20
    <3> QED BY <1>4, <2>2, <3>1
  <2> QED BY <2>1, <2>2
<1>23. Shape(r, Swapped(k, s, E), ToU(U, k, s, E), ToP(P, k, s))
  BY <1>21 DEF F, V, Q
<1> QED BY <1>1, <1>3, <1>9, <1>17, <1>19, <1>20, <1>22, <1>23 DEF F

(* A new name keeps the black balance. *)
LEMMA RenameBalance ==
  ASSUME NEW t, NEW E, NEW U, NEW P, Shape(t, E, U, P), NEW k, NEW s, Fits(k, s, E),
         NEW r, Renamed(t, r, k, s), NEW B, NEW y \in E \cup {NULL}, NEW e, Balanced(t, E, B, y, e)
  PROVE  Balanced(r, Swapped(k, s, E), ToB(B, k, s), To(k, s, y), e)
<1> DEFINE F == Swapped(k, s, E)
           C == ToB(B, k, s)
<1>1. /\ B \in [Node -> Nat] /\ B[NULL] = 0
      /\ \A n \in E, d \in Sides :
           B[t.kid[d][n]] + (IF n = y /\ d = e THEN 1 ELSE 0) + Weight(t, n) = B[n]
  BY DEF Balanced
<1>2. \A n \in F, d \in Sides :
        /\ t.kid[d][Fro(k, s, n)] \in E \cup {NULL}
        /\ r.kid[d][n] = To(k, s, t.kid[d][Fro(k, s, n)])
        /\ n \in r.red <=> Fro(k, s, n) \in t.red
  BY RenameShape
<1>3. /\ NULL # k /\ k \in Node /\ Fro(k, s, NULL) = NULL
      /\ \A n \in E \cup {NULL} : /\ To(k, s, n) # k /\ Fro(k, s, To(k, s, n)) = n
                                  /\ n \in Node /\ To(k, s, n) \in Node
      /\ \A n \in F : /\ Fro(k, s, n) \in E /\ To(k, s, Fro(k, s, n)) = n /\ n # k /\ n \in Node
  BY NewNames
<1>4. \A n \in Node \ {k} : Fro(k, s, n) \in Node
  BY <1>3 DEF Fro
<1>5. /\ C \in [Node -> Nat] /\ \A n \in Node \ {k} : C[n] = B[Fro(k, s, n)]
  BY <1>1, <1>4 DEF ToB
<1> HIDE DEF F, C
<1>6. C[NULL] = 0
  BY <1>1, <1>3, <1>5 DEF Node
<1>7. ASSUME NEW n \in F, NEW d \in Sides
      PROVE  C[r.kid[d][n]] + (IF n = To(k, s, y) /\ d = e THEN 1 ELSE 0) + Weight(r, n) = C[n]
  <2> DEFINE m == Fro(k, s, n)
             z == t.kid[d][m]
  <2>1. m \in E /\ z \in E \cup {NULL} /\ r.kid[d][n] = To(k, s, z) /\ n \in Node \ {k}
        /\ (n \in r.red <=> m \in t.red)
    BY <1>2, <1>3
  <2>2. n = To(k, s, y) <=> m = y
    BY <1>3
  <2>3. C[n] = B[m]
    BY <1>5, <2>1
  <2>4. B[z] + (IF m = y /\ d = e THEN 1 ELSE 0) + Weight(t, m) = B[m]
    BY <1>1, <2>1
  <2> HIDE DEF m, z
  <2>5. C[To(k, s, z)] = B[z]
    BY <1>3, <1>5, <2>1
  <2>6. Weight(r, n) = Weight(t, m)
    BY <2>1 DEF Weight
  <2> QED BY <2>1, <2>2, <2>3, <2>4, <2>5, <2>6
<1>8. Balanced(r, F, C, To(k, s, y), e)
  BY <1>5, <1>6, <1>7 DEF Balanced
<1> QED BY <1>8 DEF F, C

(* It keeps red nodes apart. *)
LEMMA RenameCalm ==
  ASSUME NEW t, NEW E, NEW U, NEW P, Shape(t, E, U, P), NEW k, NEW s, Fits(k, s, E),
         NEW r, Renamed(t, r, k, s), NEW x \in E \cup {NULL}, Calm(t, x)
  PROVE  Calm(r, To(k, s, x))
<1> DEFINE F == Swapped(k, s, E)
<1>1. /\ r.red \subseteq F
      /\ \A n \in E \cup {NULL} : To(k, s, n) \in r.red <=> n \in t.red
      /\ \A n \in F, d \in Sides :
           /\ t.kid[d][Fro(k, s, n)] \in E \cup {NULL}
           /\ r.kid[d][n] = To(k, s, t.kid[d][Fro(k, s, n)])
           /\ n \in r.red <=> Fro(k, s, n) \in t.red
  BY RenameShape
<1>2. /\ \A n \in E \cup {NULL} : Fro(k, s, To(k, s, n)) = n
      /\ \A n \in F : Fro(k, s, n) \in E /\ To(k, s, Fro(k, s, n)) = n
  BY NewNames
<1> HIDE DEF F
<1>3. ASSUME NEW n \in r.red \ {To(k, s, x)}, NEW d \in Sides PROVE r.kid[d][n] \notin r.red \ {To(k, s, x)}
  <2> DEFINE m == Fro(k, s, n)
             z == t.kid[d][m]
  <2>1. n \in F /\ m \in t.red /\ z \in E \cup {NULL} /\ r.kid[d][n] = To(k, s, z)
    BY <1>1
  <2>2. m # x
    BY <1>2, <2>1
  <2>3. z \notin t.red \ {x}
    BY <2>1, <2>2 DEF Calm
  <2> HIDE DEF m, z
  <2> QED BY <1>1, <2>1, <2>3
<1> QED BY <1>3 DEF Calm

(* A sound tree stays sound. *)
LEMMA RenameSound ==
  ASSUME NEW t, NEW E, Sound(t, E), NEW k, NEW s, Fits(k, s, E), NEW r, Renamed(t, r, k, s)
  PROVE  Sound(r, Swapped(k, s, E))
<1>1. PICK U, P, B : SoundBy(t, E, U, P, B)
  BY DEF Sound
<1>2. Shape(t, E, U, P) /\ Balanced(t, E, B, NULL, "L") /\ Calm(t, NULL) /\ t.root \notin t.red
  BY <1>1 DEF SoundBy
<1>3. /\ Shape(r, Swapped(k, s, E), ToU(U, k, s, E), ToP(P, k, s))
      /\ r.root = To(k, s, t.root) /\ t.root \in E \cup {NULL}
      /\ \A n \in E \cup {NULL} : To(k, s, n) \in r.red <=> n \in t.red
  BY <1>2, RenameShape
<1>4. To(k, s, NULL) = NULL
  BY NewNames
<1>5. Balanced(r, Swapped(k, s, E), ToB(B, k, s), To(k, s, NULL), "L")
  BY <1>2, RenameBalance
<1>6. Calm(r, To(k, s, NULL))
  BY <1>2, RenameCalm
<1>7. r.root \notin r.red
  BY <1>2, <1>3
<1>8. SoundBy(r, Swapped(k, s, E), ToU(U, k, s, E), ToP(P, k, s), ToB(B, k, s))
  BY <1>3, <1>4, <1>5, <1>6, <1>7 DEF SoundBy
<1> QED BY <1>8 DEF Sound

ToPath(p, k, s) == [j \in 1 .. Len(p) |-> To(k, s, p[j])]

(* A tree short of one black stays just that. *)
LEMMA RenameShrinks ==
  ASSUME NEW t, NEW E, NEW p, NEW i, Shrinks(t, p, i, E), NEW k, NEW s, Fits(k, s, E),
         NEW r, Renamed(t, r, k, s), p[i] \in E \cup {NULL}
  PROVE  Shrinks(r, ToPath(p, k, s), i, Swapped(k, s, E))
<1> DEFINE q == ToPath(p, k, s)
           F == Swapped(k, s, E)
<1>1. p \in Seq(Node) /\ i \in 1 .. Len(p) /\ Len(p) \in Nat
  BY DEF Shrinks
<1>2. \A n \in Node : To(k, s, n) \in Node
  BY NewNames DEF To
<1>3. q \in Seq(Node) /\ Len(q) = Len(p) /\ \A j \in 1 .. Len(p) : q[j] = To(k, s, p[j])
  <2>1. q \in [1 .. Len(p) -> Node] /\ \A j \in 1 .. Len(p) : q[j] = To(k, s, p[j])
    BY <1>1, <1>2 DEF ToPath
  <2> QED BY <1>1, <2>1
<1> HIDE DEF q, F
<1>4. /\ To(k, s, NULL) = NULL
      /\ \A n \in E : To(k, s, n) \in F
      /\ \A n \in E \cup {NULL} : Fro(k, s, To(k, s, n)) = n
  BY NewNames DEF F
<1>5. CASE i = 1
  <2>1. PICK U, P, B : HealedBy(t, p[1], E, U, P, B)
    BY <1>5 DEF Shrinks, Healed
  <2>2. /\ Shape(t, E, U, P) /\ Balanced(t, E, B, NULL, "L") /\ Calm(t, p[1]) /\ p[1] \in E \cup {NULL}
        /\ t.root \in t.red => t.root = p[1]
        /\ p[1] \in t.red => p[1] = t.root
    BY <1>5, <2>1 DEF HealedBy
  <2>3. /\ Shape(r, F, ToU(U, k, s, E), ToP(P, k, s))
        /\ r.root = To(k, s, t.root) /\ t.root \in E \cup {NULL}
        /\ \A n \in E \cup {NULL} : To(k, s, n) \in r.red <=> n \in t.red
    BY <2>2, RenameShape DEF F
  <2>4. Balanced(r, F, ToB(B, k, s), To(k, s, NULL), "L")
    BY <2>2, RenameBalance DEF F
  <2>5. Calm(r, To(k, s, p[1]))
    BY <2>2, RenameCalm
  <2>6. q[1] = To(k, s, p[1])
    BY <1>1, <1>3, <1>5
  <2>7. (r.root \in r.red => r.root = q[1]) /\ (q[1] \in r.red => q[1] = r.root)
    BY <2>2, <2>3, <2>6
  <2>8. HealedBy(r, q[1], F, ToU(U, k, s, E), ToP(P, k, s), ToB(B, k, s))
    BY <1>4, <2>3, <2>4, <2>5, <2>6, <2>7 DEF HealedBy
  <2>9. Shrinks(r, q, i, F)
    BY <1>1, <1>3, <1>5, <2>8 DEF Shrinks, Healed
  <2> QED BY <2>9 DEF q, F
<1>6. CASE i # 1
  <2>0. i - 1 \in 1 .. Len(p) /\ i - 1 \in 1 .. i - 1 /\ i \in Nat
    BY <1>1, <1>6
  <2>1. PICK U, P, B, d : LacksBy(t, p, i, E, U, P, B, d)
    BY <1>6 DEF Shrinks, Lacks
  <2>2. /\ Shape(t, E, U, P) /\ Route(t, p, E, i - 1) /\ d \in Sides /\ t.kid[d][p[i - 1]] = p[i]
        /\ Balanced(t, E, B, p[i - 1], d) /\ t.root \notin t.red /\ Calm(t, p[i])
    BY <2>1 DEF LacksBy
  <2>3. /\ p[1] = t.root /\ (\A j \in 1 .. i - 1 : p[j] \in E)
        /\ \A j \in 1 .. (i - 1) - 1 : \E e \in Sides : t.kid[e][p[j]] = p[j + 1]
    BY <2>2 DEF Route
  <2>4. /\ Shape(r, F, ToU(U, k, s, E), ToP(P, k, s))
        /\ \A n \in F, e \in Sides : r.kid[e][n] = To(k, s, t.kid[e][Fro(k, s, n)])
        /\ r.root = To(k, s, t.root) /\ t.root \in E \cup {NULL}
        /\ \A n \in E \cup {NULL} : To(k, s, n) \in r.red <=> n \in t.red
    BY <2>2, RenameShape DEF F
  <2>5. p[i - 1] \in E
    BY <2>0, <2>3
  <2>6. Balanced(r, F, ToB(B, k, s), To(k, s, p[i - 1]), d)
    BY <2>2, <2>5, RenameBalance DEF F
  <2>7. Calm(r, To(k, s, p[i]))
    BY <2>2, RenameCalm
  <2>8. q[i - 1] = To(k, s, p[i - 1]) /\ q[i] = To(k, s, p[i]) /\ q[1] = To(k, s, p[1])
    BY <1>1, <1>3, <2>0
  <2>9. \A n \in E, e \in Sides : r.kid[e][To(k, s, n)] = To(k, s, t.kid[e][n])
    BY <1>4, <2>4
  <2>10. r.kid[d][q[i - 1]] = q[i]
    BY <2>2, <2>5, <2>8, <2>9
  <2>11. Route(r, q, F, i - 1)
    <3>1. \A j \in 1 .. i - 1 : j \in 1 .. Len(p) /\ q[j] \in F
      BY <1>1, <1>3, <1>4, <2>3
    <3>2. ASSUME NEW j \in 1 .. (i - 1) - 1 PROVE \E e \in Sides : r.kid[e][q[j]] = q[j + 1]
      <4>1. j \in 1 .. i - 1 /\ j + 1 \in 1 .. i - 1
        BY <2>0
      <4>2. PICK e \in Sides : t.kid[e][p[j]] = p[j + 1]
        BY <2>3
      <4>3. q[j] = To(k, s, p[j]) /\ q[j + 1] = To(k, s, p[j + 1]) /\ p[j] \in E
        BY <1>3, <2>3, <3>1, <4>1
      <4>4. r.kid[e][q[j]] = q[j + 1]
        BY <2>9, <4>2, <4>3
      <4> QED BY <4>2, <4>4
    <3>3. q[1] = r.root /\ i - 1 \in 1 .. Len(q)
      BY <1>3, <2>0, <2>3, <2>4, <2>8
    <3> QED BY <3>1, <3>2, <3>3 DEF Route
  <2>12. r.root \notin r.red
    BY <2>2, <2>4
  <2>13. LacksBy(r, q, i, F, ToU(U, k, s, E), ToP(P, k, s), ToB(B, k, s), d)
    BY <2>2, <2>4, <2>6, <2>7, <2>8, <2>10, <2>11, <2>12 DEF LacksBy
  <2>14. Shrinks(r, q, i, F)
    BY <1>1, <1>3, <1>6, <2>13 DEF Shrinks, Lacks
  <2> QED BY <2>14 DEF q, F
<1> QED BY <1>5, <1>6

(* Where the data of node k go up to, or the node itself.                     *)
UnlinkPath(t, k, p) ==
  IF t.kid["L"][k] # NULL /\ t.kid["R"][k] # NULL THEN p \o Spine(t, t.kid["R"][k], "L") ELSE p

CutRoute(t, k, q) ==
  [i \in 1 .. Len(q) |-> IF i = Len(q) THEN OnlyChild(t, Last(q)) ELSE IF q[i] = k THEN Last(q) ELSE q[i]]
CutTree(t, k, q) == Rename(CutAt(t, q, OnlyChild(t, Last(q))), k, Last(q))

(* What i_delete_element makes of tree t, from the path q it takes.           *)
Unlinked(t, k, q) ==
  IF CutTree(t, k, q).root = NULL \/ Last(q) \in t.red
  THEN [tree |-> CutTree(t, k, q), slots |-> 0]
  ELSE AfterDelete(CutTree(t, k, q), CutRoute(t, k, q))

(* A tree without a root holds nothing.                                      *)
LEMMA NoRoot ==
  ASSUME NEW t, NEW E, NEW U, NEW P, Shape(t, E, U, P), t.root = NULL
  PROVE  E = {} /\ Sound(t, E)
<1> DEFINE B == [n \in Node |-> 0]
<1>1. U[NULL] = {} /\ U[t.root] = E /\ t.red \subseteq E
  BY DEF Shape
<1>2. E = {} /\ t.red = {}
  BY <1>1
<1>3. Balanced(t, E, B, NULL, "L")
  <2>1. NULL \in Node /\ B \in [Node -> Nat]
    BY DEF Node
  <2> QED BY <1>2, <2>1 DEF Balanced
<1>4. Calm(t, NULL)
  BY <1>2 DEF Calm
<1>5. SoundBy(t, E, U, P, B)
  BY <1>2, <1>3, <1>4 DEF SoundBy
<1> QED BY <1>2, <1>5 DEF Sound

(* The successor of k has its place in the order of the other elements.       *)
LEMMA SuccessorFits ==
  ASSUME NEW t, NEW E, NEW U, NEW P, Shape(t, E, U, P), NEW k \in E, t.kid["R"][k] # NULL,
         NEW q, Along(t, E, U, "L", t.kid["R"][k], q)
  PROVE  /\ Fits(k, Last(q), E \ {Last(q)}) /\ Swapped(k, Last(q), E \ {Last(q)}) = E \ {k}
         /\ Last(q) \in E /\ Last(q) # k
<1> DEFINE n == t.kid["R"][k]
           s == Last(q)
<1>1. "L" \in Sides /\ "R" \in Sides /\ Other("L") = "R" /\ Other("R") = "L" /\ \A d \in Sides : d = "L" \/ d = "R"
  BY DEF Sides, Other
<1>2. s \in U[n] /\ s \in E /\ \A x \in U[n] : x = s \/ Before("R", x, s)
  <2>1. Last(q) = q[Len(q)] /\ Len(q) \in 1 .. Len(q)
    BY DEF Along
  <2>2. q[Len(q)] \in U[n] /\ q[Len(q)] \in E
    BY <2>1 DEF Along
  <2>3. \A x \in U[n] : x = Last(q) \/ Before(Other("L"), x, Last(q))
    BY DEF Along
  <2> QED BY <1>1, <2>1, <2>2, <2>3
<1>3. /\ n \in E /\ U[n] \subseteq U[k] /\ k \notin U[n] /\ k \in U[k] /\ U[k] \subseteq E /\ E \subseteq Keys
  BY <1>1, Kids DEF Shape
<1> HIDE DEF s
<1>4. \A x \in E, d \in Sides : x \in U[t.kid[d][k]] <=> x \in U[k] /\ Before(d, x, k)
  BY DEF Shape
<1>5. Before("R", s, k) /\ s \in Keys /\ k \in Keys /\ s # k
  BY <1>1, <1>2, <1>3, <1>4
<1>6. ASSUME NEW x \in E \ {s}, x # k PROVE \E e \in Sides : Before(e, x, k) /\ Before(e, x, s)
  <2>0. x \in E /\ x \in Keys /\ x # s
    BY <1>3
  <2>1. PICK e \in Sides : Before(e, x, k)
    BY <1>1, <1>5, <1>6, <2>0, Order
  <2>2. CASE x \notin U[k]
    <3>1. s \in U[k]
      BY <1>2, <1>3
    <3>2. Before(e, x, s)
      BY <1>3, <2>0, <2>1, <2>2, <3>1, Outside
    <3> QED BY <2>1, <3>2
  <2>3. CASE x \in U[k] /\ e = "R"
    <3>1. x \in U[n]
      BY <1>1, <1>4, <2>0, <2>1, <2>3
    <3> QED BY <1>2, <2>0, <2>1, <2>3, <3>1
  <2>4. CASE x \in U[k] /\ e = "L"
    <3>1. Before("L", k, s)
      BY <1>1, <1>5, Order
    <3>2. Before("L", x, s)
      BY <1>1, <1>5, <2>0, <2>1, <2>4, <3>1, Order
    <3> QED BY <2>1, <2>4, <3>2
  <2> QED BY <1>1, <2>2, <2>3, <2>4
<1>7. ASSUME NEW x \in (E \ {s}) \ {k}, NEW d \in Sides PROVE Before(d, x, k) <=> Before(d, x, s)
  <2>0. x \in Keys /\ x # k
    BY <1>3
  <2>1. PICK e \in Sides : Before(e, x, k) /\ Before(e, x, s)
    BY <1>6
  <2>2. CASE d = e
    BY <2>1, <2>2
  <2>3. CASE d # e
    <3>1. d = Other(e)
      BY <2>3, TwoSides
    <3> QED BY <1>5, <2>0, <2>1, <3>1, Order
  <2> QED BY <2>2, <2>3
<1>8. Fits(k, s, E \ {s})
  BY <1>2, <1>3, <1>5, <1>7 DEF Fits
<1>9. Swapped(k, s, E \ {s}) = E \ {k}
  BY <1>2, <1>5 DEF Swapped
<1> QED BY <1>2, <1>5, <1>8, <1>9 DEF s

(* The node that goes, k or one with its name for k, is on the way q.         *)
Taken(t, k, q, E) ==
  /\ Way(t, E, q)
  /\ \E d \in Sides : t.kid[Other(d)][Last(q)] = NULL
  /\ \/ Last(q) = k
     \/ /\ Fits(k, Last(q), E \ {Last(q)}) /\ Swapped(k, Last(q), E \ {Last(q)}) = E \ {k}
        /\ \E j \in 1 .. Len(q) : q[j] = k

(* OnlyChild finds the kid of a node that has one at most. *)
LEMMA OnlyChildIs ==
  ASSUME NEW t, NEW s, NEW d \in Sides, t.kid[Other(d)][s] = NULL
  PROVE  \E e \in Sides : t.kid[Other(e)][s] = NULL /\ OnlyChild(t, s) = t.kid[e][s]
<1>1. "L" \in Sides /\ "R" \in Sides /\ Other("L") = "R" /\ Other("R") = "L" /\ (d = "L" \/ d = "R")
  BY DEF Sides, Other
<1>2. CASE t.kid["L"][s] # NULL
  BY <1>1, <1>2 DEF OnlyChild
<1>3. CASE t.kid["L"][s] = NULL
  BY <1>1, <1>3 DEF OnlyChild
<1> QED BY <1>2, <1>3

(* i_delete_element unlinks the node it has found, or its successor.          *)
LEMMA UnlinkPathIs ==
  ASSUME NEW t, NEW E, NEW U, NEW P, Shape(t, E, U, P), NEW p, Way(t, E, p), NEW k, Last(p) = k
  PROVE  /\ Taken(t, k, UnlinkPath(t, k, p), E) /\ k \in E
<1> DEFINE n == t.kid["R"][k]
           q == Spine(t, n, "L")
<1>1. "L" \in Sides /\ "R" \in Sides /\ Other("L") = "R" /\ Other("R") = "L"
  BY DEF Sides, Other
<1>2. k \in E /\ Len(p) \in 1 .. Len(p) /\ p[Len(p)] = k
  BY WayIs
<1>3. CASE t.kid["L"][k] # NULL /\ n # NULL
  <2>1. UnlinkPath(t, k, p) = p \o q
    BY <1>3 DEF UnlinkPath
  <2>2. n \in E
    BY <1>1, <1>2, <1>3, Kids
  <2>3. Along(t, E, U, "L", n, q)
    BY <1>1, <2>2, SpineEnds
  <2> HIDE DEF q
  <2>4. /\ Way(t, E, p \o q) /\ Last(p \o q) = Last(q) /\ Len(p \o q) = Len(p) + Len(q)
        /\ \A j \in 1 .. Len(p) : (p \o q)[j] = p[j]
    <3>1. n = t.kid["R"][Last(p)]
      OBVIOUS
    <3> HIDE DEF n
    <3> QED BY <1>1, <2>3, <3>1, Joined
  <2>5. t.kid["L"][Last(q)] = NULL /\ Len(q) >= 1
    BY <2>3 DEF Along
  <2>6. /\ Fits(k, Last(q), E \ {Last(q)}) /\ Swapped(k, Last(q), E \ {Last(q)}) = E \ {k}
    <3>1. t.kid["R"][k] # NULL /\ Along(t, E, U, "L", t.kid["R"][k], q)
      BY <1>3, <2>3
    <3>2. /\ Fits(k, Last(q), E \ {Last(q)}) /\ Swapped(k, Last(q), E \ {Last(q)}) = E \ {k}
          /\ Last(q) \in E /\ Last(q) # k
      BY <1>2, <3>1, SuccessorFits
    <3> QED BY <3>2
  <2> HIDE DEF n
  <2>7. \E j \in 1 .. Len(p \o q) : (p \o q)[j] = k
    <3>1. p \in Seq(Keys) /\ q \in Seq(Keys)
      BY <2>3 DEF Way, Along
    <3>2. Len(p) \in Nat /\ Len(q) \in Nat
      BY <3>1
    <3>3. Len(p) \in 1 .. Len(p \o q)
      BY <1>2, <2>4, <3>2
    <3> QED BY <1>2, <2>4, <3>3
  <2>8. Taken(t, k, p \o q, E)
    BY <1>1, <2>4, <2>5, <2>6, <2>7 DEF Taken
  <2> QED BY <1>2, <2>1, <2>8
<1>4. CASE ~(t.kid["L"][k] # NULL /\ n # NULL)
  <2>1. UnlinkPath(t, k, p) = p
    BY <1>4 DEF UnlinkPath
  <2>2. \E d \in Sides : t.kid[Other(d)][k] = NULL
    BY <1>1, <1>4
  <2>3. Taken(t, k, p, E)
    BY <2>2 DEF Taken
  <2> QED BY <1>2, <2>1, <2>3
<1> QED BY <1>3, <1>4

(* It leaves a red-black tree of the other elements.                         *)
LEMMA UnlinkKeeps ==
  ASSUME NEW t, NEW E, Sound(t, E), NEW k \in E, NEW q, Taken(t, k, q, E)
  PROVE  /\ Sound(Unlinked(t, k, q).tree, E \ {k})
         /\ Unlinked(t, k, q).slots \in Nat /\ Unlinked(t, k, q).slots <= Len(q) + 1
<1> DEFINE s == Last(q)
           c == OnlyChild(t, s)
           r == CutAt(t, q, c)
           u == CutTree(t, k, q)
           L == Len(q)
           w == CutPath(q, c)
           route == CutRoute(t, k, q)
           F == E \ {s}
<1>1. PICK U, P, B : SoundBy(t, E, U, P, B)
  BY DEF Sound
<1>2. Shape(t, E, U, P)
  BY <1>1 DEF SoundBy
<1>3. /\ Way(t, E, q)
      /\ \E d \in Sides : t.kid[Other(d)][s] = NULL
      /\ s = k \/ (/\ Fits(k, s, F) /\ Swapped(k, s, F) = E \ {k}
                   /\ \E j \in 1 .. L : q[j] = k)
  BY DEF Taken
<1>4. /\ q \in Seq(Keys) /\ L \in Nat /\ L \in 1 .. L /\ s = q[L] /\ s \in E
      /\ \A j \in 1 .. L : q[j] \in E
  BY <1>2, <1>3, WayIs
<1>5. PICK e \in Sides : t.kid[Other(e)][s] = NULL /\ c = t.kid[e][s]
  BY <1>3, OnlyChildIs
<1>6. CutLeaves(t, q, c, E)
  <2>1. CutLeaves(t, q, t.kid[e][Last(q)], E)
    <3>1. t.kid[Other(e)][Last(q)] = NULL
      BY <1>5
    <3> QED BY <1>3, <3>1, CutKeeps
  <2> QED BY <1>5, <2>1
<1>7. u = Rename(r, k, s) /\ Unlinked(t, k, q) = IF u.root = NULL \/ s \in t.red
                                                  THEN [tree |-> u, slots |-> 0] ELSE AfterDelete(u, route)
  BY DEF Unlinked, CutTree
<1>8. route = [i \in 1 .. L |-> IF i = L THEN c ELSE IF q[i] = k THEN s ELSE q[i]]
  BY DEF CutRoute
<1>9. w = [i \in 1 .. L |-> IF i = L THEN c ELSE q[i]]
  BY DEF CutPath
<1>10. /\ s \in t.red => Sound(r, F)
       /\ s \notin t.red => Shrinks(r, w, L, F)
       /\ c \in F \cup {NULL}
  BY <1>6 DEF CutLeaves
<1> HIDE DEF s, c, r, u, L, w, route
<1>11. /\ s \in t.red => Sound(u, E \ {k})
       /\ s \notin t.red => Shrinks(u, route, L, E \ {k})
  <2>1. CASE s = k
    <3>1. u = r
      BY <1>7, <2>1 DEF Rename
    <3>2. route = w
      BY <1>8, <1>9, <2>1
    <3> QED BY <1>10, <2>1, <3>1, <3>2
  <2>2. CASE s # k
    <3>1. Fits(k, s, F) /\ Swapped(k, s, F) = E \ {k}
      BY <1>3, <2>2
    <3>2. PICK j \in 1 .. L : q[j] = k
      BY <1>3, <2>2
    <3>3. c # k
      <4>1. s \in U[k]
        <5>1. L \in 1 .. L /\ j \in 1 .. L
          BY <1>4
        <5>2. q[L] \in U[q[j]]
          BY <1>2, <1>3, <5>1, Nested DEF L
        <5> QED BY <1>4, <3>2, <5>2
      <4>2. c # NULL => s \notin U[c]
        BY <1>2, <1>4, <1>5, Kids
      <4>3. k # NULL
        BY <1>2, Kids, TwoSides
      <4> QED BY <4>1, <4>2, <4>3
    <3>4. Renamed(r, u, k, s)
      <4>1. r \in TreeType
        <5>1. \E V, Q : Shape(r, F, V, Q)
          BY <1>10 DEF Sound, SoundBy, Shrinks, Healed, HealedBy, Lacks, LacksBy
        <5> QED BY <5>1 DEF Shape
      <4>2. k \in Keys /\ s \in Keys
        BY <1>2, <1>4 DEF Shape
      <4> QED BY <1>7, <2>2, <4>1, <4>2, RenameIs
    <3>5. ASSUME s \in t.red PROVE Sound(u, E \ {k})
      <4>1. Sound(r, F)
        BY <1>10, <3>5
      <4>2. Sound(u, Swapped(k, s, F))
        <5> HIDE DEF F
        <5> QED BY <3>1, <3>4, <4>1, RenameSound
      <4> QED BY <3>1, <4>2
    <3>6. ASSUME s \notin t.red PROVE Shrinks(u, route, L, E \ {k})
      <4>1. Shrinks(r, w, L, F)
        BY <1>10, <3>6
      <4>2. w[L] = c
        BY <1>4, <1>9
      <4>3. route = ToPath(w, k, s)
        <5>1. Len(w) = L
          BY <1>4, <1>9
        <5>2. \A i \in 1 .. L : To(k, s, w[i]) = IF i = L THEN c ELSE IF q[i] = k THEN s ELSE q[i]
          BY <1>9, <3>3 DEF To
        <5>3. ToPath(w, k, s) = [i \in 1 .. L |-> To(k, s, w[i])]
          BY <5>1 DEF ToPath
        <5> QED BY <1>8, <5>2, <5>3
      <4>4. Shrinks(u, ToPath(w, k, s), L, Swapped(k, s, F))
        <5>1. w[L] \in F \cup {NULL}
          BY <1>10, <4>2
        <5> HIDE DEF F
        <5> QED BY <3>1, <3>4, <4>1, <5>1, RenameShrinks
      <4> QED BY <3>1, <4>3, <4>4
    <3> QED BY <3>5, <3>6
  <2> QED BY <2>1, <2>2
<1>12. CASE s \in t.red
  BY <1>4, <1>7, <1>11, <1>12
<1>13. CASE s \notin t.red /\ u.root = NULL
  <2>1. PICK V, Q : Shape(u, E \ {k}, V, Q)
    BY <1>11, <1>13 DEF Shrinks, Healed, HealedBy, Lacks, LacksBy
  <2>2. Sound(u, E \ {k})
    BY <1>13, <2>1, NoRoot
  <2> QED BY <1>4, <1>7, <1>13, <2>2
<1>14. CASE s \notin t.red /\ u.root # NULL
  <2>1. Unlinked(t, k, q) = AfterDelete(u, route)
    BY <1>7, <1>14
  <2>2. Len(route) = L
    BY <1>4, <1>8
  <2>3. Shrinks(u, route, Len(route), E \ {k})
    BY <1>11, <1>14, <2>2
  <2>4. /\ Sound(AfterDelete(u, route).tree, E \ {k})
        /\ AfterDelete(u, route).slots \in Nat /\ AfterDelete(u, route).slots <= Len(route) + 1
    BY <2>3, AfterDeleteKeeps
  <2> QED BY <2>1, <2>2, <2>4 DEF L
<1> QED BY <1>12, <1>13, <1>14

-----------------------------------------------------------------------------
(* The calls                                                                *)

(* The first element is the root.                                            *)
LEMMA FirstKey ==
  ASSUME NEW t, Sound(t, {}), NEW k \in Keys
  PROVE  Sound([t EXCEPT !.root = k], {k})
<1> DEFINE r == [t EXCEPT !.root = k]
           U == [n \in Node |-> IF n = k THEN {k} ELSE {}]
           P == [n \in Node |-> NULL]
           B == [n \in Node |-> IF n = k THEN 1 ELSE 0]
<1>1. PICK V, Q, C : SoundBy(t, {}, V, Q, C)
  BY DEF Sound
<1>2. t \in TreeType /\ t.red = {} /\ \A n \in Keys, d \in Sides : t.kid[d][n] = NULL
  BY <1>1 DEF SoundBy, Shape
<1>3. r \in TreeType /\ r.root = k /\ r.red = {} /\ r.kid = t.kid
  BY <1>2 DEF TreeType
<1> HIDE DEF r
<1>4. k \in Node /\ NULL \in Node /\ k # NULL /\ IsFiniteSet({k})
  BY RBTreeAssumption, FS_Singleton DEF Node
<1>5. /\ U \in [Node -> SUBSET {k}] /\ P \in [Node -> Node] /\ B \in [Node -> Nat]
      /\ U[k] = {k} /\ U[NULL] = {} /\ P[k] = NULL /\ B[k] = 1 /\ B[NULL] = 0
  BY <1>4
<1> HIDE DEF U, P, B
<1>6. \A d \in Sides : ~Before(d, k, k)
  BY Order
<1>7. Shape(r, {k}, U, P)
  BY <1>2, <1>3, <1>4, <1>5, <1>6 DEF Shape
<1>8. Balanced(r, {k}, B, NULL, "L")
  BY <1>2, <1>3, <1>4, <1>5 DEF Balanced, Weight
<1>9. SoundBy(r, {k}, U, P, B)
  BY <1>3, <1>7, <1>8 DEF SoundBy, Calm
<1> QED BY <1>9 DEF Sound, r

(* A new element below the end of its descent.                               *)
LEMMA AddKeeps ==
  ASSUME NEW t, NEW E, Sound(t, E), NEW k \in Keys \ E, NEW p, Descent(t, E, k, p)
  PROVE  Sound(AfterInsert(WithLeaf(t, p[Len(p)], k), Append(p, k)), E \cup {k})
<1> DEFINE u == WithLeaf(t, p[Len(p)], k)
           q == Append(p, k)
<1>1. p \in Seq(Keys)
  BY DEF Descent
<1>2. q \in Seq(Keys) /\ Len(q) = Len(p) + 1
  BY <1>1
<1> HIDE DEF q
<1>3. GrowsTo(u, Len(p) + 1, q, E \cup {k})
  BY Attach DEF q
<1> HIDE DEF u
<1>4. GrowsTo(u, Len(q), q, E \cup {k})
  BY <1>2, <1>3
<1>5. Sound(AfterInsert(u, q), E \cup {k})
  BY <1>2, <1>4, AfterInsertKeeps
<1> QED BY <1>5 DEF u, q

(* The state of the tree and the iterator between two calls: the tree is a    *)
(* red-black tree of the keys E, the iterator is on a way in it, or nowhere,  *)
(* and its array is as long as the longest way in such a tree.                *)
State(t, n, p, a, o, E) ==
  /\ Sound(t, E) /\ n = Cardinality(E)
  /\ p = <<>> \/ Way(t, E, p)
  /\ a \in Nat /\ 4 <= a /\ 2 * Log2[n + 1] <= a
  /\ o = FALSE

(* What such a state gives the calls. *)
LEMMA StateIs ==
  ASSUME NEW t, NEW n, NEW p, NEW a, NEW o, NEW E, State(t, n, p, a, o, E)
  PROVE  /\ t \in TreeType /\ E \subseteq Keys /\ IsFiniteSet(E) /\ n \in Nat /\ n = Cardinality(E)
         /\ Log2[n + 1] \in Nat /\ t.root \in E \cup {NULL} /\ (t.root = NULL <=> E = {})
         /\ p \in Seq(Keys)
         /\ \A q : Way(t, E, q) => Len(q) \in Nat /\ Len(q) <= a /\ Len(q) + 2 <= 2 * Log2[n + 1]
<1>1. PICK U, P, B : SoundBy(t, E, U, P, B)
  BY DEF State, Sound
<1>2. Shape(t, E, U, P)
  BY <1>1 DEF SoundBy
<1>3. /\ t \in TreeType /\ E \subseteq Keys /\ IsFiniteSet(E) /\ t.root \in E \cup {NULL}
      /\ NULL \notin E
  BY <1>2, RBTreeAssumption DEF Shape
<1>4. n \in Nat /\ n = Cardinality(E)
  BY <1>3, FS_CardinalityType DEF State
<1>5. Log2[n + 1] \in Nat
  BY <1>4, Log2Is
<1>6. t.root = NULL <=> E = {}
  BY <1>2, <1>3, NoRoot
<1>7. p \in Seq(Keys)
  <2>1. p = <<>> \/ Way(t, E, p)
    BY DEF State
  <2>2. <<>> \in Seq(Keys)
    OBVIOUS
  <2>3. Way(t, E, p) => p \in Seq(Keys)
    BY DEF Way
  <2> QED BY <2>1, <2>2, <2>3
<1>8. ASSUME NEW q, Way(t, E, q) PROVE Len(q) \in Nat /\ Len(q) <= a /\ Len(q) + 2 <= 2 * Log2[n + 1]
  <2>1. Len(q) \in Nat
    BY <1>2, <1>8, WayIs
  <2>2. Len(q) + 2 <= 2 * Log2[Cardinality(E) + 1]
    <3>1. Sound(t, E)
      BY DEF State
    <3> QED BY <1>8, <3>1, HeightBound
  <2>3. a \in Nat /\ 2 * Log2[n + 1] <= a
    BY DEF State
  <2> QED BY <1>4, <1>5, <2>1, <2>2, <2>3
<1> QED BY <1>3, <1>4, <1>5, <1>6, <1>7, <1>8

(* i_update_iterator_size: the array is long enough for the ways in a tree of *)
(* n elements, and for a node more.                                          *)
LEMMA PathAllocIs ==
  ASSUME NEW n \in Nat
  PROVE  PathAlloc(n) \in Nat /\ 4 <= PathAlloc(n) /\ PathAlloc(n) = 2 * Log2[n + 1] + 2
<1>1. Log2[n + 1] \in Nat /\ 1 <= Log2[n + 1]
  <2>1. Log2[1] <= Log2[n + 1] /\ Log2[1] = 1
    BY Log2Grows
  <2> QED BY <2>1, Log2Is
<1> QED BY <1>1 DEF PathAlloc

Kept(E) == State(tree, elems, path, alloc, overrun, E)

(* rbtree_insert adds the key, whichever of its cases applies. *)
LEMMA InsertKeeps ==
  ASSUME NEW E, Kept(E), NEW k \in Keys, Insert(k)
  PROVE  /\ State(tree', elems', path', alloc', overrun', E \cup {k})
         /\ path' = <<>> /\ call' = <<"insert", k>>
         /\ result' = IF k \in E THEN NULL ELSE k
<1>1. /\ tree \in TreeType /\ E \subseteq Keys /\ IsFiniteSet(E) /\ elems \in Nat /\ elems = Cardinality(E)
      /\ Log2[elems + 1] \in Nat /\ (tree.root = NULL <=> E = {})
      /\ \A q : Way(tree, E, q) => Len(q) \in Nat /\ Len(q) <= alloc /\ Len(q) + 2 <= 2 * Log2[elems + 1]
  BY StateIs DEF Kept
<1>2. /\ Sound(tree, E) /\ alloc \in Nat /\ 4 <= alloc /\ 2 * Log2[elems + 1] <= alloc /\ overrun = FALSE
  BY DEF Kept, State
<1>3. path' = <<>> /\ call' = <<"insert", k>>
  BY DEF Insert, DropPath
<1>4. CASE tree.root = NULL
  <2>1. /\ tree' = [tree EXCEPT !.root = k] /\ elems' = 1 /\ result' = k
        /\ alloc' = alloc /\ overrun' = overrun
    BY <1>4 DEF Insert
  <2>2. E = {} /\ E \cup {k} = {k}
    BY <1>1, <1>4
  <2>3. Sound(tree', E \cup {k})
    BY <1>2, <2>1, <2>2, FirstKey
  <2>4. elems' = Cardinality(E \cup {k})
    BY <2>1, <2>2, FS_Singleton
  <2>5. 2 * Log2[elems' + 1] <= alloc
    <3>1. Log2[2] = 2
      <4>1. 2 * 1 = 2 /\ 1 \in Nat /\ 1 # 0
        OBVIOUS
      <4>2. Log2[2 * 1] = 1 + Log2[1] /\ Log2[1] = 1
        BY <4>1, Log2Grows
      <4> QED BY <4>1, <4>2
    <3> QED BY <1>2, <2>1, <3>1
  <2>6. State(tree', elems', path', alloc', overrun', E \cup {k})
    BY <1>2, <1>3, <2>1, <2>3, <2>4, <2>5 DEF State
  <2> QED BY <1>3, <2>1, <2>2, <2>6
<1>5. CASE tree.root # NULL
  <2> DEFINE p == Descend(tree, tree.root, k)
  <2>0. PICK U, P, B : SoundBy(tree, E, U, P, B)
    BY <1>2 DEF Sound
  <2>1. Shape(tree, E, U, P)
    BY <2>0 DEF SoundBy
  <2>2. Descent(tree, E, k, p)
    BY <1>5, <2>1, DescendIs
  <2>3. Way(tree, E, p)
    BY <2>2 DEF Descent, Way
  <2>4. /\ Len(p) \in Nat /\ Len(p) <= alloc /\ Len(p) + 2 <= 2 * Log2[elems + 1]
    BY <1>1, <2>3
  <2>5. Last(p) = p[Len(p)] /\ (k \in E <=> p[Len(p)] = k)
    BY <2>1, <2>2, <2>3, DescentFinds, WayIs
  <2>6. IF Last(p) = k
        THEN /\ overrun' = (overrun \/ Len(p) > alloc) /\ result' = NULL
             /\ tree' = tree /\ elems' = elems /\ alloc' = alloc
        ELSE InsertBelow(k, p) /\ elems' = elems + 1 /\ result' = k
    BY <1>5 DEF Insert
  <2> HIDE DEF p
  <2>7. CASE k \in E
    <3>1. /\ overrun' = (overrun \/ Len(p) > alloc) /\ result' = NULL
          /\ tree' = tree /\ elems' = elems /\ alloc' = alloc
      BY <2>5, <2>6, <2>7
    <3>2. overrun' = FALSE
      <4>1. ~(Len(p) > alloc)
        BY <1>2, <2>4
      <4> QED BY <1>2, <3>1, <4>1
    <3>3. E \cup {k} = E
      BY <2>7
    <3>4. State(tree', elems', path', alloc', overrun', E \cup {k})
      BY <1>1, <1>2, <1>3, <3>1, <3>2, <3>3 DEF State
    <3> QED BY <1>3, <2>7, <3>1, <3>4
  <2>8. CASE k \notin E
    <3>1. InsertBelow(k, p) /\ elems' = elems + 1 /\ result' = k
      BY <2>5, <2>6, <2>8
    <3> DEFINE u == [tree EXCEPT !.kid[IF k < Last(p) THEN "L" ELSE "R"][Last(p)] = k, !.red = @ \cup {k}]
    <3>2. /\ alloc' = PathAlloc(1 + elems)
          /\ overrun' = (overrun \/ Len(p) > alloc \/ Len(p) + 1 > alloc')
          /\ tree' = AfterInsert(u, Append(p, k))
      BY <3>1 DEF InsertBelow
    <3>3. u = WithLeaf(tree, p[Len(p)], k)
      BY <2>5 DEF WithLeaf, Toward
    <3> HIDE DEF u
    <3>4. Sound(tree', E \cup {k})
      <4>1. k \in Keys \ E
        BY <2>8
      <4> QED BY <1>2, <2>2, <3>2, <3>3, <4>1, AddKeeps
    <3>5. elems' = Cardinality(E \cup {k})
      <4>1. Cardinality(E \cup {k}) = Cardinality(E) + 1
        BY <1>1, <2>8, FS_AddElement
      <4> QED BY <1>1, <3>1, <4>1
    <3>6. alloc' \in Nat /\ 4 <= alloc' /\ alloc' = 2 * Log2[elems' + 1] + 2
      <4>1. 1 + elems \in Nat /\ (1 + elems) + 1 = elems' + 1
        BY <1>1, <3>1
      <4> QED BY <3>2, <4>1, PathAllocIs
    <3>7. Log2[elems' + 1] \in Nat /\ Log2[elems + 1] <= Log2[elems' + 1]
      <4>1. elems + 1 \in Nat /\ elems' + 1 = (elems + 1) + 1
        BY <1>1, <3>1
      <4>2. Log2[elems + 1] <= Log2[(elems + 1) + 1]
        BY <4>1, Log2Grows
      <4> QED BY <4>1, <4>2, Log2Is
    <3>8. overrun' = FALSE
      <4>1. ~(Len(p) > alloc) /\ ~(Len(p) + 1 > alloc')
        BY <1>1, <1>2, <2>4, <3>6, <3>7
      <4> QED BY <1>2, <3>2, <4>1
    <3>9. 2 * Log2[elems' + 1] <= alloc'
      BY <3>6, <3>7
    <3>10. State(tree', elems', path', alloc', overrun', E \cup {k})
      BY <1>3, <3>4, <3>5, <3>6, <3>8, <3>9 DEF State
    <3> QED BY <1>3, <2>8, <3>1, <3>10
  <2> QED BY <2>7, <2>8
<1> QED BY <1>4, <1>5

(* rbtree_delete removes the key. *)
LEMMA DeleteKeeps ==
  ASSUME NEW E, Kept(E), NEW k \in Keys, Delete(k)
  PROVE  /\ State(tree', elems', path', alloc', overrun', E \ {k})
         /\ path' = <<>> /\ call' = <<"delete", k>>
         /\ result' = IF k \in E THEN k ELSE NULL
<1>1. /\ tree \in TreeType /\ E \subseteq Keys /\ IsFiniteSet(E) /\ elems \in Nat /\ elems = Cardinality(E)
      /\ Log2[elems + 1] \in Nat /\ (tree.root = NULL <=> E = {})
      /\ \A q : Way(tree, E, q) => Len(q) \in Nat /\ Len(q) <= alloc /\ Len(q) + 2 <= 2 * Log2[elems + 1]
  BY StateIs DEF Kept
<1>2. /\ Sound(tree, E) /\ alloc \in Nat /\ 4 <= alloc /\ 2 * Log2[elems + 1] <= alloc /\ overrun = FALSE
  BY DEF Kept, State
<1>3. path' = <<>> /\ call' = <<"delete", k>>
  BY DEF Delete, DropPath
<1> DEFINE p == IF tree.root = NULL THEN <<NULL>> ELSE Descend(tree, tree.root, k)
<1>4. IF Last(p) = k THEN Unlink(k, p) /\ elems' = elems - 1 /\ result' = k
      ELSE result' = NULL /\ tree' = tree /\ elems' = elems /\ alloc' = alloc /\ overrun' = overrun
  BY DEF Delete
<1>5. /\ Last(p) = k <=> k \in E
      /\ k \in E => Way(tree, E, p)
  <2>1. CASE tree.root = NULL
    <3>1. Last(p) = NULL
      BY <2>1 DEF Last
    <3> QED BY <1>1, <2>1, <3>1, RBTreeAssumption
  <2>2. CASE tree.root # NULL
    <3>1. PICK U, P, B : SoundBy(tree, E, U, P, B)
      BY <1>2 DEF Sound
    <3>2. Shape(tree, E, U, P)
      BY <3>1 DEF SoundBy
    <3>3. p = Descend(tree, tree.root, k)
      BY <2>2
    <3> HIDE DEF p
    <3>4. Descent(tree, E, k, p)
      BY <2>2, <3>2, <3>3, DescendIs
    <3>5. Way(tree, E, p)
      BY <3>4 DEF Descent, Way
    <3>6. Last(p) = p[Len(p)] /\ (k \in E <=> p[Len(p)] = k)
      BY <3>2, <3>4, <3>5, DescentFinds, WayIs
    <3> QED BY <3>5, <3>6
  <2> QED BY <2>1, <2>2
<1> HIDE DEF p
<1>6. CASE k \notin E
  <2>1. result' = NULL /\ tree' = tree /\ elems' = elems /\ alloc' = alloc /\ overrun' = overrun
    BY <1>4, <1>5, <1>6
  <2>2. E \ {k} = E
    BY <1>6
  <2>3. State(tree', elems', path', alloc', overrun', E \ {k})
    BY <1>1, <1>2, <1>3, <2>1, <2>2 DEF State
  <2> QED BY <1>3, <1>6, <2>1, <2>3
<1>7. CASE k \in E
  <2>1. Unlink(k, p) /\ elems' = elems - 1 /\ result' = k /\ Way(tree, E, p) /\ Last(p) = k
    BY <1>4, <1>5, <1>7
  <2> DEFINE q == UnlinkPath(tree, k, p)
             fixed == Unlinked(tree, k, q)
  <2>2. /\ tree' = fixed.tree /\ alloc' = PathAlloc(elems - 1)
        /\ overrun' = (overrun \/ Len(q) > alloc \/ fixed.slots > alloc')
    BY <2>1, Zenon DEF Unlink, Unlinked, UnlinkPath, CutTree, CutAt, CutRoute, Cleared, IsRed
  <2>3. PICK U, P, B : SoundBy(tree, E, U, P, B)
    BY <1>2 DEF Sound
  <2>4. Shape(tree, E, U, P)
    BY <2>3 DEF SoundBy
  <2>5. Taken(tree, k, q, E)
    BY <2>1, <2>4, UnlinkPathIs
  <2> HIDE DEF q
  <2>6. Sound(fixed.tree, E \ {k}) /\ fixed.slots \in Nat /\ fixed.slots <= Len(q) + 1
    BY <1>2, <1>7, <2>5, UnlinkKeeps
  <2>7. Len(q) \in Nat /\ Len(q) <= alloc /\ Len(q) + 2 <= 2 * Log2[elems + 1]
    BY <1>1, <2>5 DEF Taken
  <2> HIDE DEF fixed
  <2>8. elems' = Cardinality(E \ {k}) /\ elems' \in Nat /\ elems' + 1 = elems
    <3>1. Cardinality(E \ {k}) = Cardinality(E) - 1 /\ IsFiniteSet(E \ {k})
      BY <1>1, <1>7, FS_RemoveElement
    <3>2. Cardinality(E \ {k}) \in Nat
      BY <3>1, FS_CardinalityType
    <3> QED BY <1>1, <2>1, <3>1, <3>2
  <2>9. alloc' \in Nat /\ 4 <= alloc' /\ alloc' = 2 * Log2[elems' + 1] + 2
    BY <2>1, <2>2, <2>8, PathAllocIs
  <2>10. Log2[elems] \in Nat /\ Log2[elems + 1] <= Log2[elems] + 1
    BY <1>1, Log2Is, Log2Grows
  <2>11. overrun' = FALSE
    <3>1. ~(Len(q) > alloc)
      BY <1>2, <2>7
    <3>2. Log2[elems' + 1] = Log2[elems]
      BY <2>8
    <3> DEFINE l == Log2[elems]
               h == Log2[elems + 1]
               s == fixed.slots
               n == Len(q)
    <3>3. /\ l \in Nat /\ h \in Nat /\ h <= l + 1
          /\ s \in Nat /\ s <= n + 1
          /\ n \in Nat /\ n + 2 <= 2 * h
          /\ alloc' = 2 * l + 2
      BY <1>1, <2>6, <2>7, <2>9, <2>10, <3>2
    <3> HIDE DEF l, h, s, n
    <3>4. ~(s > alloc')
      BY <3>3
    <3> QED BY <1>2, <2>2, <3>1, <3>4 DEF s
  <2>12. 2 * Log2[elems' + 1] <= alloc'
    BY <2>8, <2>9, <2>10
  <2>13. State(tree', elems', path', alloc', overrun', E \ {k})
    BY <1>3, <2>2, <2>6, <2>8, <2>9, <2>11, <2>12 DEF State
  <2> QED BY <1>3, <1>7, <2>1, <2>13
<1> QED BY <1>6, <1>7

(* The end of a path, or NULL: the element under the iterator. *)
At(p) == IF p = <<>> THEN NULL ELSE Last(p)

(* A move of the iterator to path p, empty or the way to an element, leaves  *)
(* the rest of the tree alone, and stays inside the array.                   *)
LEMMA ArriveKeeps ==
  ASSUME NEW E, Kept(E), NEW p, p = <<>> \/ Way(tree, E, p), Arrive(p)
  PROVE  /\ State(tree', elems', path', alloc', overrun', E)
         /\ path' = p /\ result' = At(p) /\ result' \in Keys \cup {NULL}
<1>1. /\ Sound(tree, E) /\ elems = Cardinality(E) /\ overrun = FALSE
      /\ alloc \in Nat /\ 4 <= alloc /\ 2 * Log2[elems + 1] <= alloc
  BY DEF Kept, State
<1>2. /\ path' = p /\ overrun' = (overrun \/ Len(p) > alloc) /\ result' = At(p)
      /\ tree' = tree /\ elems' = elems /\ alloc' = alloc
  BY DEF Arrive, At
<1>3. Len(p) \in Nat /\ Len(p) <= alloc
  <2>1. CASE p = <<>>
    BY <1>1, <2>1
  <2>2. CASE Way(tree, E, p)
    BY <2>2, StateIs DEF Kept
  <2> QED BY <2>1, <2>2
<1>4. overrun' = FALSE
  <2>1. ~(Len(p) > alloc)
    BY <1>1, <1>3
  <2> QED BY <1>1, <1>2, <2>1
<1>5. State(tree', elems', path', alloc', overrun', E)
  BY <1>1, <1>2, <1>4 DEF State
<1>6. At(p) \in Keys \cup {NULL}
  <2>1. CASE p = <<>>
    BY <2>1 DEF At
  <2>2. CASE Way(tree, E, p)
    <3>1. PICK U, P, B : SoundBy(tree, E, U, P, B)
      BY <1>1 DEF Sound
    <3>2. Shape(tree, E, U, P)
      BY <3>1 DEF SoundBy
    <3>3. Last(p) = p[Len(p)] /\ Len(p) \in 1 .. Len(p) /\ p # <<>> /\ \A j \in 1 .. Len(p) : p[j] \in Keys
      BY <2>2, <3>2, WayIs
    <3> QED BY <3>3 DEF At
  <2> QED BY <2>1, <2>2
<1> QED BY <1>2, <1>5, <1>6

(* rbtree_get puts the iterator on the element it finds, or nowhere. *)
LEMMA GetKeeps ==
  ASSUME NEW E, Kept(E), NEW k \in Keys, Get(k)
  PROVE  /\ State(tree', elems', path', alloc', overrun', E)
         /\ call' = <<"get", k>> /\ result' = At(path')
         /\ k \in E => At(path') = k
         /\ k \notin E => path' = <<>>
<1> DEFINE p == IF tree.root = NULL THEN <<NULL>> ELSE Descend(tree, tree.root, k)
           q == IF Last(p) = k THEN p ELSE <<>>
<1>1. call' = <<"get", k>> /\ Arrive(q)
  BY DEF Get
<1>2. /\ Last(p) = k <=> k \in E
      /\ k \in E => Way(tree, E, p) /\ p # <<>>
  <2>0. Sound(tree, E) /\ (tree.root = NULL <=> E = {})
    <3>1. State(tree, elems, path, alloc, overrun, E)
      BY DEF Kept
    <3> QED BY <3>1, StateIs DEF State
  <2>1. CASE tree.root = NULL
    <3>1. Last(p) = NULL
      BY <2>1 DEF Last
    <3> QED BY <2>0, <2>1, <3>1, RBTreeAssumption
  <2>2. CASE tree.root # NULL
    <3>1. PICK U, P, B : SoundBy(tree, E, U, P, B)
      BY <2>0 DEF Sound
    <3>2. Shape(tree, E, U, P)
      BY <3>1 DEF SoundBy
    <3>3. p = Descend(tree, tree.root, k)
      BY <2>2
    <3> HIDE DEF p
    <3>4. Descent(tree, E, k, p)
      BY <2>2, <3>2, <3>3, DescendIs
    <3>5. Way(tree, E, p)
      BY <3>4 DEF Descent, Way
    <3>6. Last(p) = p[Len(p)] /\ p # <<>> /\ (k \in E <=> p[Len(p)] = k)
      BY <3>2, <3>4, <3>5, DescentFinds, WayIs
    <3> QED BY <3>5, <3>6
  <2> QED BY <2>1, <2>2
<1> HIDE DEF p
<1>3. /\ k \in E => q = p
      /\ k \notin E => q = <<>>
  BY <1>2
<1>4. k \in E => At(q) = k
  BY <1>2, <1>3 DEF At
<1> HIDE DEF q
<1>5. q = <<>> \/ Way(tree, E, q)
  BY <1>2, <1>3
<1>6. /\ State(tree', elems', path', alloc', overrun', E)
      /\ path' = q /\ result' = At(q)
  BY <1>1, <1>5, ArriveKeeps
<1> QED BY <1>1, <1>3, <1>4, <1>6

(* i_first and i_last put it on the first and on the last element, if any.   *)
LEMMA OutermostKeeps ==
  ASSUME NEW E, Kept(E), NEW d \in Sides, Outermost(d)
  PROVE  /\ State(tree', elems', path', alloc', overrun', E)
         /\ result' = At(path')
         /\ \/ E = {} /\ At(path') = NULL
            \/ /\ At(path') \in E
               /\ \A x \in E : x = At(path') \/ Before(Other(d), x, At(path'))
<1> DEFINE q == IF tree.root = NULL THEN <<>> ELSE Spine(tree, tree.root, d)
<1>1. Arrive(q)
  BY DEF Outermost
<1>2. Sound(tree, E) /\ (tree.root = NULL <=> E = {})
  <2>1. State(tree, elems, path, alloc, overrun, E)
    BY DEF Kept
  <2> QED BY <2>1, StateIs DEF State
<1>3. /\ q = <<>> \/ Way(tree, E, q)
      /\ \/ E = {} /\ At(q) = NULL
         \/ At(q) \in E /\ \A x \in E : x = At(q) \/ Before(Other(d), x, At(q))
  <2>1. CASE tree.root = NULL
    BY <1>2, <2>1 DEF At
  <2>2. CASE tree.root # NULL
    <3>1. PICK U, P, B : SoundBy(tree, E, U, P, B)
      BY <1>2 DEF Sound
    <3>2. Shape(tree, E, U, P)
      BY <3>1 DEF SoundBy
    <3>3. q = Spine(tree, tree.root, d)
      BY <2>2
    <3> HIDE DEF q
    <3>4. /\ Way(tree, E, q) /\ Last(q) \in E
          /\ \A x \in E : x = Last(q) \/ Before(Other(d), x, Last(q))
      BY <2>2, <3>2, <3>3, OutermostIs
    <3>5. q # <<>>
      BY <3>2, <3>4, WayIs
    <3> QED BY <3>4, <3>5 DEF At
  <2> QED BY <2>1, <2>2
<1> HIDE DEF q
<1>4. /\ State(tree', elems', path', alloc', overrun', E)
      /\ path' = q /\ result' = At(q)
  BY <1>1, <1>3, ArriveKeeps
<1> QED BY <1>3, <1>4

(* i_inorder_next and i_inorder_prev put it on the nearest element on their  *)
(* side, if there is one.                                                    *)
LEMMA StepKeeps ==
  ASSUME NEW E, Kept(E), NEW d \in Sides, Step(d)
  PROVE  /\ State(tree', elems', path', alloc', overrun', E)
         /\ result' = At(path') /\ path # <<>> /\ At(path) \in E
         /\ \/ At(path') = NULL /\ \A x \in E : ~Before(d, x, At(path))
            \/ Nearest(E, d, At(path), At(path'))
<1> DEFINE q == Moved(tree, path, d)
<1>1. path # <<>> /\ Arrive(q)
  BY DEF Step, Moved
<1>2. Sound(tree, E) /\ Way(tree, E, path)
  BY <1>1 DEF Kept, State
<1>3. PICK U, P, B : SoundBy(tree, E, U, P, B)
  BY <1>2 DEF Sound
<1>4. Shape(tree, E, U, P)
  BY <1>3 DEF SoundBy
<1>5. At(path) = Last(path) /\ At(path) \in E
  <2>1. Last(path) = path[Len(path)] /\ Len(path) \in 1 .. Len(path) /\ \A j \in 1 .. Len(path) : path[j] \in E
    BY <1>2, <1>4, WayIs
  <2> QED BY <1>1, <2>1 DEF At
<1>6. \/ q = <<>> /\ \A x \in E : ~Before(d, x, Last(path))
      \/ Way(tree, E, q) /\ Nearest(E, d, Last(path), Last(q))
  BY <1>2, <1>4, MovedIs
<1> HIDE DEF q
<1>7. Way(tree, E, q) => q # <<>>
  BY <1>4, WayIs
<1>8. \/ At(q) = NULL /\ \A x \in E : ~Before(d, x, At(path))
      \/ Nearest(E, d, At(path), At(q))
  <2>1. CASE q = <<>> /\ \A x \in E : ~Before(d, x, Last(path))
    BY <1>5, <2>1 DEF At
  <2>2. CASE Way(tree, E, q) /\ Nearest(E, d, Last(path), Last(q))
    <3>1. At(q) = Last(q)
      BY <1>7, <2>2 DEF At
    <3> QED BY <1>5, <2>2, <3>1
  <2> QED BY <1>6, <2>1, <2>2
<1>9. /\ State(tree', elems', path', alloc', overrun', E)
      /\ path' = q /\ result' = At(q)
  BY <1>1, <1>6, ArriveKeeps
<1> QED BY <1>1, <1>5, <1>8, <1>9

(* The keys and the black nodes that RBTree's own recursive functions find.  *)
LEMMA NodesAre == Nodes = NodesIn(tree) /\ Nodes' = NodesIn(tree')
<1>1. Nodes = NodesIn(tree)
  BY Zenon DEF Nodes, NodesIn
<1>2. Nodes' = NodesIn(tree')
  BY Zenon DEF Nodes, NodesIn
<1> QED BY <1>1, <1>2

(* The black heights that RBTree's function finds. *)
LEMMA BlackHeightIs == BlackHeight = BlackHeightIn(tree)
BY Zenon DEF BlackHeight, BlackHeightIn

(* The elements of a sound tree are those the proof follows. *)
LEMMA RootHolds ==
  ASSUME NEW t, NEW E, Sound(t, E)
  PROVE  NodesIn(t)[t.root] = E
<1>1. PICK U, P, B : SoundBy(t, E, U, P, B)
  BY DEF Sound
<1>2. Shape(t, E, U, P)
  BY <1>1 DEF SoundBy
<1>3. t.root \in E \cup {NULL} /\ U[t.root] = E
  BY <1>2 DEF Shape
<1> QED BY <1>2, <1>3, NodesInIs

(* Before and after a step, Elements is the set the proof follows.           *)
LEMMA ElementsAre ==
  /\ \A E : Kept(E) => Elements = E
  /\ \A E : State(tree', elems', path', alloc', overrun', E) => Elements' = E
<1>1. ASSUME NEW E, Kept(E) PROVE Elements = E
  <2>1. Sound(tree, E)
    BY <1>1 DEF Kept, State
  <2>2. NodesIn(tree)[tree.root] = E
    BY <2>1, RootHolds
  <2> QED BY <2>2, NodesAre DEF Elements
<1>2. ASSUME NEW E, State(tree', elems', path', alloc', overrun', E) PROVE Elements' = E
  <2>1. Sound(tree', E)
    BY <1>2 DEF State
  <2>2. NodesIn(tree')[tree'.root] = E
    BY <2>1, RootHolds
  <2>3. Elements' = Nodes'[tree'.root]
    BY DEF Elements
  <2> QED BY <2>2, <2>3, NodesAre
<1> QED BY <1>1, <1>2

(* The inductive invariant: the tree holds some set of keys in search order  *)
(* and black balance, the iterator's path is empty or a way down in it, and  *)
(* its array is as long as such a tree can be high.                          *)
IInv == (\E E : Kept(E)) /\ call \in Calls /\ result \in Keys \cup {NULL}

(* A new tree satisfies it. *)
LEMMA InitIInv == Init => IInv
<1> SUFFICES ASSUME Init PROVE IInv
  OBVIOUS
<1> DEFINE U == [n \in Node |-> {}]
           P == [n \in Node |-> NULL]
<1>1. /\ tree = [root |-> NULL, red |-> {}, kid |-> [d \in Sides |-> [k \in Keys |-> NULL]]]
      /\ elems = 0 /\ path = <<>> /\ alloc = 8 /\ overrun = FALSE
      /\ call = <<"create", NULL>> /\ result = NULL
  BY DEF Init
<1>2. tree.root = NULL /\ tree.red = {} /\ tree \in TreeType
  BY <1>1 DEF TreeType
<1>3. \A n \in Keys, d \in Sides : tree.kid[d][n] = NULL
  BY <1>1
<1>4. IsFiniteSet({}) /\ Cardinality({}) = 0
  BY FS_EmptySet
<1>5. Shape(tree, {}, U, P)
  <2>1. NULL \in Node /\ U \in [Node -> SUBSET {}] /\ P \in [Node -> Node]
    BY DEF Node
  <2> QED BY <1>2, <1>3, <1>4, <2>1 DEF Shape
<1> HIDE DEF U, P
<1>6. Sound(tree, {})
  BY <1>2, <1>5, NoRoot
<1>7. 2 * Log2[elems + 1] <= alloc
  <2>1. Log2[elems + 1] = 1
    BY <1>1, Log2Grows
  <2> QED BY <1>1, <2>1
<1>8. Kept({})
  BY <1>1, <1>4, <1>6, <1>7 DEF Kept, State
<1>9. call \in Calls /\ result \in Keys \cup {NULL}
  BY <1>1 DEF Calls
<1> QED BY <1>8, <1>9 DEF IInv

(* Each call keeps it. *)
LEMMA NextIInv == IInv /\ [Next]_vars => IInv'
<1> SUFFICES ASSUME IInv, [Next]_vars PROVE IInv'
  OBVIOUS
<1>1. PICK E : Kept(E)
  BY DEF IInv
<1>2. ASSUME NEW F, State(tree', elems', path', alloc', overrun', F),
             call' \in Calls, result' \in Keys \cup {NULL}
      PROVE  IInv'
  <2>1. Kept(F)'
    BY <1>2 DEF Kept
  <2> QED BY <1>2, <2>1 DEF IInv
<1>3. ASSUME NEW F, State(tree', elems', path', alloc', overrun', F)
      PROVE  At(path') \in Keys \cup {NULL}
  <2>1. path' \in Seq(Keys)
    BY <1>3, StateIs
  <2>2. path' # <<>> => Last(path') \in Keys
    BY <2>1 DEF Last
  <2> QED BY <2>2 DEF At
<1>4. ASSUME NEW k \in Keys, Insert(k) PROVE IInv'
  <2>1. /\ State(tree', elems', path', alloc', overrun', E \cup {k})
        /\ call' = <<"insert", k>> /\ result' = IF k \in E THEN NULL ELSE k
    BY <1>1, <1>4, InsertKeeps
  <2>2. call' \in Calls /\ result' \in Keys \cup {NULL}
    BY <2>1 DEF Calls
  <2> QED BY <1>2, <2>1, <2>2
<1>5. ASSUME NEW k \in Keys, Delete(k) PROVE IInv'
  <2>1. /\ State(tree', elems', path', alloc', overrun', E \ {k})
        /\ call' = <<"delete", k>> /\ result' = IF k \in E THEN k ELSE NULL
    BY <1>1, <1>5, DeleteKeeps
  <2>2. call' \in Calls /\ result' \in Keys \cup {NULL}
    BY <2>1 DEF Calls
  <2> QED BY <1>2, <2>1, <2>2
<1>6. ASSUME NEW k \in Keys, Get(k) PROVE IInv'
  <2>1. /\ State(tree', elems', path', alloc', overrun', E)
        /\ call' = <<"get", k>> /\ result' = At(path')
    BY <1>1, <1>6, GetKeeps
  <2>2. call' \in Calls
    BY <2>1 DEF Calls
  <2> QED BY <1>2, <1>3, <2>1, <2>2
<1>7. ASSUME NEW d \in Sides, Outermost(d), call' \in Calls PROVE IInv'
  <2>1. State(tree', elems', path', alloc', overrun', E) /\ result' = At(path')
    BY <1>1, <1>7, OutermostKeeps
  <2> QED BY <1>2, <1>3, <1>7, <2>1
<1>8. ASSUME NEW d \in Sides, Step(d), call' \in Calls PROVE IInv'
  <2>1. State(tree', elems', path', alloc', overrun', E) /\ result' = At(path')
    BY <1>1, <1>8, StepKeeps
  <2> QED BY <1>2, <1>3, <1>8, <2>1
<1>9. CASE GoFirst \/ GoLast \/ GoNext \/ GoPrev
  <2>1. "L" \in Sides /\ "R" \in Sides
    BY DEF Sides
  <2>2. <<"first", NULL>> \in Calls /\ <<"last", NULL>> \in Calls
        /\ <<"next", NULL>> \in Calls /\ <<"prev", NULL>> \in Calls
    BY DEF Calls
  <2> QED BY <1>7, <1>8, <1>9, <2>1, <2>2 DEF GoFirst, GoLast, GoNext, GoPrev
<1>10. CASE UNCHANGED vars
  BY <1>10 DEF vars, IInv, Kept
<1> QED BY <1>4, <1>5, <1>6, <1>9, <1>10 DEF Next

(* In every state the invariant holds. *)
LEMMA SpecIInv == Spec => []IInv
BY InitIInv, NextIInv, PTL DEF Spec

(* Every state is of the declared type. *)
THEOREM TypeCorrect == Spec => []TypeOK
<1>1. IInv => TypeOK
  <2> SUFFICES ASSUME IInv PROVE TypeOK
    OBVIOUS
  <2>1. PICK E : State(tree, elems, path, alloc, overrun, E)
    BY DEF IInv, Kept
  <2>2. tree \in TreeType /\ elems \in Nat /\ path \in Seq(Keys)
    BY <2>1, StateIs
  <2>3. alloc \in Nat /\ overrun \in BOOLEAN
    BY <2>1 DEF State
  <2> QED BY <2>2, <2>3 DEF IInv, TypeOK
<1> QED BY <1>1, SpecIInv, PTL

(* What rbtree_check asserts holds after every call: the tree is a red-black *)
(* tree in search order, and counts its elements.                            *)
THEOREM RedBlackAlways == Spec => []RedBlack
<1>1. IInv => RedBlack
  <2> SUFFICES ASSUME IInv PROVE RedBlack
    OBVIOUS
  <2>1. PICK E : Kept(E)
    BY DEF IInv
  <2>2. Sound(tree, E) /\ elems = Cardinality(E) /\ Elements = E
    BY <2>1, ElementsAre DEF Kept, State
  <2>3. PICK U, P, B : SoundBy(tree, E, U, P, B)
    BY <2>2 DEF Sound
  <2>4. /\ Shape(tree, E, U, P) /\ Balanced(tree, E, B, NULL, "L")
        /\ Calm(tree, NULL) /\ tree.root \notin tree.red
    BY <2>3 DEF SoundBy
  <2>5. /\ \A n \in E \cup {NULL} : Nodes[n] = U[n]
        /\ \A n \in E \cup {NULL} : BlackHeight[n] = B[n]
    BY <2>4, NodesAre, NodesInIs, BlackHeightIs, BlackHeightInIs
  <2>6. tree.red \subseteq E /\ tree.root \in E \cup {NULL} /\ E \subseteq Keys
    BY <2>4 DEF Shape
  <2>7. \A n \in tree.red, d \in Sides : tree.kid[d][n] \notin tree.red
    BY <2>4, <2>6, RBTreeAssumption DEF Calm
  <2>8. BlackHeight[tree.root] >= 0
    <3>1. B[tree.root] \in Nat
      BY <2>4, <2>6 DEF Balanced, Node
    <3>2. BlackHeight[tree.root] = B[tree.root]
      BY <2>5, <2>6
    <3> QED BY <3>1, <3>2
  <2>9. ASSUME NEW n \in E
        PROVE  /\ \A m \in Nodes[tree.kid["L"][n]] : m < n
               /\ \A m \in Nodes[tree.kid["R"][n]] : m > n
    <3>1. ASSUME NEW d \in Sides, NEW m \in Nodes[tree.kid[d][n]]
          PROVE  m \in Keys /\ Before(d, m, n)
      <4>1. /\ tree.kid[d][n] \in E \cup {NULL}
            /\ \A x \in E : x \in U[tree.kid[d][n]] <=> x \in U[n] /\ Before(d, x, n)
        BY <2>4 DEF Shape
      <4>2. U[tree.kid[d][n]] \subseteq E
        BY <2>4, <2>6, <4>1 DEF Shape, Node
      <4>3. m \in U[tree.kid[d][n]]
        BY <2>5, <3>1, <4>1
      <4> QED BY <2>6, <4>1, <4>2, <4>3
    <3>2. "L" \in Sides /\ "R" \in Sides /\ n \in Int
      BY <2>6, RBTreeAssumption DEF Sides
    <3>3. ASSUME NEW m \in Nodes[tree.kid["L"][n]] PROVE m < n
      BY <3>1, <3>2 DEF Before
    <3>4. ASSUME NEW m \in Nodes[tree.kid["R"][n]] PROVE m > n
      <4>1. m \in Int /\ Before("R", m, n)
        BY <3>1, <3>2, RBTreeAssumption
      <4>2. "R" # "L"
        OBVIOUS
      <4> QED BY <3>2, <4>1, <4>2 DEF Before
    <3> QED BY <3>3, <3>4
  <2> QED BY <2>2, <2>4, <2>6, <2>7, <2>8, <2>9 DEF RedBlack
<1> QED BY <1>1, SpecIInv, PTL

(* No call ever writes or reads behind the end of the iterator's array.      *)
THEOREM PathAlwaysFits == Spec => []PathFits
<1>1. IInv => PathFits
  BY DEF IInv, Kept, State, PathFits
<1> QED BY <1>1, SpecIInv, PTL

(* No stale path survives a change of the tree: the iterator's path is       *)
(* always the one a lookup of its end finds in the present tree.             *)
THEOREM PathIsAlwaysCurrent == Spec => []PathIsCurrent
<1>1. IInv => PathIsCurrent
  <2> SUFFICES ASSUME IInv, path # <<>>
               PROVE  tree.root # NULL /\ path = Descend(tree, tree.root, Last(path))
    BY DEF PathIsCurrent
  <2>1. PICK E : State(tree, elems, path, alloc, overrun, E)
    BY DEF IInv, Kept
  <2>2. Sound(tree, E) /\ Way(tree, E, path)
    BY <2>1 DEF State
  <2>3. PICK U, P, B : SoundBy(tree, E, U, P, B)
    BY <2>2 DEF Sound
  <2>4. Shape(tree, E, U, P)
    BY <2>3 DEF SoundBy
  <2> QED BY <2>2, <2>4, WayIs, WayIsDescent
<1> QED BY <1>1, SpecIInv, PTL

(* What the mapping shows of the iterator is the element under it. *)
LEMMA CursorIs ==
  /\ (IF path = <<>> THEN NULL ELSE Last(path)) = At(path)
  /\ (IF path' = <<>> THEN NULL ELSE Last(path')) = At(path')
BY DEF At

(* The iterator's moves are the cursor's, to the least or the greatest of the *)
(* keys K.                                                                   *)
LEMMA LeastIs ==
  ASSUME NEW K, K \subseteq Keys, Elements' = Elements, result' = At(path'),
         \/ K = {} /\ At(path') = NULL
         \/ At(path') \in K /\ \A x \in K : x = At(path') \/ Before("R", x, At(path'))
  PROVE  Abstract!Least(K)
<1> DEFINE a == At(path')
           best == {k \in K : \A j \in K : k <= j}
<1>1. \/ K = {} /\ a = NULL
      \/ \E k \in best : a = k
  <2>1. CASE a \in K /\ \A x \in K : x = a \/ Before("R", x, a)
    <3>1. ASSUME NEW x \in K PROVE a <= x
      <4>1. a \in Int /\ x \in Int /\ "R" # "L"
        BY <2>1, RBTreeAssumption
      <4>2. x = a \/ a < x
        BY <2>1, <4>1 DEF Before
      <4> QED BY <4>1, <4>2
    <3>2. a \in best
      BY <2>1, <3>1
    <3> QED BY <3>2
  <2> QED BY <2>1
<1> HIDE DEF best
<1>2. result' = (IF path' = <<>> THEN NULL ELSE Last(path'))
      /\ a = (IF path' = <<>> THEN NULL ELSE Last(path'))
  BY CursorIs
<1> HIDE DEF a
<1> QED BY <1>1, <1>2 DEF Abstract!Least, Abstract!MoveTo, best

(* The same to the other side. *)
LEMMA GreatestIs ==
  ASSUME NEW K, K \subseteq Keys, Elements' = Elements, result' = At(path'),
         \/ K = {} /\ At(path') = NULL
         \/ At(path') \in K /\ \A x \in K : x = At(path') \/ Before("L", x, At(path'))
  PROVE  Abstract!Greatest(K)
<1> DEFINE a == At(path')
           best == {k \in K : \A j \in K : j <= k}
<1>1. \/ K = {} /\ a = NULL
      \/ \E k \in best : a = k
  <2>1. CASE a \in K /\ \A x \in K : x = a \/ Before("L", x, a)
    <3>1. ASSUME NEW x \in K PROVE x <= a
      <4>1. a \in Int /\ x \in Int
        BY <2>1, RBTreeAssumption
      <4>2. x = a \/ x < a
        BY <2>1, <4>1 DEF Before
      <4> QED BY <4>1, <4>2
    <3>2. a \in best
      BY <2>1, <3>1
    <3> QED BY <3>2
  <2> QED BY <2>1
<1> HIDE DEF best
<1>2. result' = (IF path' = <<>> THEN NULL ELSE Last(path'))
      /\ a = (IF path' = <<>> THEN NULL ELSE Last(path'))
  BY CursorIs
<1> HIDE DEF a
<1> QED BY <1>1, <1>2 DEF Abstract!Greatest, Abstract!MoveTo, best

(* A step of the tree is a step of the set with a cursor, or none. *)
LEMMA StepMaps == IInv /\ [Next]_vars => [Abstract!Next]_(Abstract!vars)
<1> SUFFICES ASSUME IInv, [Next]_vars PROVE [Abstract!Next]_(Abstract!vars)
  OBVIOUS
<1>1. PICK E : Kept(E)
  BY DEF IInv
<1>2. Elements = E /\ E \subseteq Keys
  <2>1. State(tree, elems, path, alloc, overrun, E)
    BY <1>1 DEF Kept
  <2> QED BY <1>1, <2>1, ElementsAre, StateIs
<1>3. \A F : State(tree', elems', path', alloc', overrun', F) => Elements' = F
  BY ElementsAre
<1>4. ASSUME NEW k \in Keys, Insert(k) PROVE Abstract!Insert(k)
  <2>1. /\ State(tree', elems', path', alloc', overrun', E \cup {k}) /\ path' = <<>>
        /\ call' = <<"insert", k>> /\ result' = IF k \in E THEN NULL ELSE k
    BY <1>1, <1>4, InsertKeeps
  <2>2. Elements' = Elements \cup {k} /\ result' = IF k \in Elements THEN NULL ELSE k
    BY <1>2, <1>3, <2>1
  <2> QED BY <2>1, <2>2 DEF Abstract!Insert
<1>5. ASSUME NEW k \in Keys, Delete(k) PROVE Abstract!Delete(k)
  <2>1. /\ State(tree', elems', path', alloc', overrun', E \ {k}) /\ path' = <<>>
        /\ call' = <<"delete", k>> /\ result' = IF k \in E THEN k ELSE NULL
    BY <1>1, <1>5, DeleteKeeps
  <2>2. Elements' = Elements \ {k} /\ result' = IF k \in Elements THEN k ELSE NULL
    BY <1>2, <1>3, <2>1
  <2> QED BY <2>1, <2>2 DEF Abstract!Delete
<1>6. ASSUME NEW k \in Keys, Get(k) PROVE Abstract!Get(k)
  <2>1. /\ State(tree', elems', path', alloc', overrun', E)
        /\ call' = <<"get", k>> /\ result' = At(path')
        /\ k \in E => At(path') = k
        /\ k \notin E => path' = <<>>
    BY <1>1, <1>6, GetKeeps
  <2> DEFINE K == Elements \cap {k}
  <2>2. Elements' = Elements /\ K \subseteq Keys
    BY <1>2, <1>3, <2>1
  <2>3. \/ K = {} /\ At(path') = NULL
        \/ At(path') \in K /\ \A x \in K : x = At(path') \/ Before("R", x, At(path'))
    <3>1. k \in E => At(path') \in K /\ \A x \in K : x = At(path')
      BY <1>2, <2>1
    <3>2. k \notin E => K = {} /\ At(path') = NULL
      BY <1>2, <2>1 DEF At
    <3> QED BY <3>1, <3>2
  <2> HIDE DEF K
  <2>4. Abstract!Least(K)
    BY <2>1, <2>2, <2>3, LeastIs
  <2> QED BY <2>1, <2>4 DEF Abstract!Get, K
<1>7. ASSUME GoFirst PROVE Abstract!GoFirst
  <2>1. "L" \in Sides /\ Other("L") = "R" /\ Outermost("L") /\ call' = <<"first", NULL>>
    BY <1>7 DEF GoFirst, Sides, Other
  <2>2. /\ State(tree', elems', path', alloc', overrun', E) /\ result' = At(path')
        /\ \/ E = {} /\ At(path') = NULL
           \/ At(path') \in E /\ \A x \in E : x = At(path') \/ Before(Other("L"), x, At(path'))
    BY <1>1, <2>1, OutermostKeeps
  <2>3. Elements' = Elements
    BY <1>2, <1>3, <2>2
  <2>4. Abstract!Least(E)
    BY <1>2, <2>1, <2>2, <2>3, LeastIs
  <2> QED BY <1>2, <2>1, <2>4 DEF Abstract!GoFirst
<1>8. ASSUME GoLast PROVE Abstract!GoLast
  <2>1. "R" \in Sides /\ Other("R") = "L" /\ Outermost("R") /\ call' = <<"last", NULL>>
    BY <1>8 DEF GoLast, Sides, Other
  <2>2. /\ State(tree', elems', path', alloc', overrun', E) /\ result' = At(path')
        /\ \/ E = {} /\ At(path') = NULL
           \/ At(path') \in E /\ \A x \in E : x = At(path') \/ Before(Other("R"), x, At(path'))
    BY <1>1, <2>1, OutermostKeeps
  <2>3. Elements' = Elements
    BY <1>2, <1>3, <2>2
  <2>4. Abstract!Greatest(E)
    BY <1>2, <2>1, <2>2, <2>3, GreatestIs
  <2> QED BY <1>2, <2>1, <2>4 DEF Abstract!GoLast
<1>9. ASSUME GoNext PROVE Abstract!GoNext
  <2> DEFINE K == {k \in E : k > At(path)}
  <2>1. "R" \in Sides /\ "R" # "L" /\ Step("R") /\ call' = <<"next", NULL>>
    BY <1>9 DEF GoNext, Sides
  <2>2. /\ State(tree', elems', path', alloc', overrun', E) /\ result' = At(path') /\ At(path) \in E
        /\ \/ At(path') = NULL /\ \A x \in E : ~Before("R", x, At(path))
           \/ Nearest(E, "R", At(path), At(path'))
    BY <1>1, <2>1, StepKeeps
  <2>3. Elements' = Elements /\ K \subseteq Keys
    BY <1>2, <1>3, <2>2
  <2>4. \A x \in E : x \in K <=> Before("R", x, At(path))
    BY <1>2, <2>1, <2>2, RBTreeAssumption DEF Before
  <2> HIDE DEF K
  <2>5. K \subseteq E
    BY DEF K
  <2>6. \/ K = {} /\ At(path') = NULL
        \/ At(path') \in K /\ \A x \in K : x = At(path') \/ Before("R", x, At(path'))
    <3>1. CASE At(path') = NULL /\ \A x \in E : ~Before("R", x, At(path))
      BY <2>4, <2>5, <3>1
    <3>2. CASE Nearest(E, "R", At(path), At(path'))
      BY <2>4, <2>5, <3>2 DEF Nearest
    <3> QED BY <2>2, <3>1, <3>2
  <2>7. Abstract!Least(K)
    BY <2>2, <2>3, <2>6, LeastIs
  <2>8. At(path) # NULL /\ K = {k \in Elements : k > At(path)}
    BY <1>2, <2>2, RBTreeAssumption DEF K
  <2> QED BY <2>1, <2>7, <2>8, CursorIs DEF Abstract!GoNext
<1>10. ASSUME GoPrev PROVE Abstract!GoPrev
  <2> DEFINE K == {k \in E : k < At(path)}
  <2>1. "L" \in Sides /\ Step("L") /\ call' = <<"prev", NULL>>
    BY <1>10 DEF GoPrev, Sides
  <2>2. /\ State(tree', elems', path', alloc', overrun', E) /\ result' = At(path') /\ At(path) \in E
        /\ \/ At(path') = NULL /\ \A x \in E : ~Before("L", x, At(path))
           \/ Nearest(E, "L", At(path), At(path'))
    BY <1>1, <2>1, StepKeeps
  <2>3. Elements' = Elements /\ K \subseteq Keys
    BY <1>2, <1>3, <2>2
  <2>4. \A x \in E : x \in K <=> Before("L", x, At(path))
    BY DEF Before
  <2> HIDE DEF K
  <2>5. K \subseteq E
    BY DEF K
  <2>6. \/ K = {} /\ At(path') = NULL
        \/ At(path') \in K /\ \A x \in K : x = At(path') \/ Before("L", x, At(path'))
    <3>1. CASE At(path') = NULL /\ \A x \in E : ~Before("L", x, At(path))
      BY <2>4, <2>5, <3>1
    <3>2. CASE Nearest(E, "L", At(path), At(path'))
      BY <2>4, <2>5, <3>2 DEF Nearest
    <3> QED BY <2>2, <3>1, <3>2
  <2>7. Abstract!Greatest(K)
    BY <2>2, <2>3, <2>6, GreatestIs
  <2>8. At(path) # NULL /\ K = {k \in Elements : k < At(path)}
    BY <1>2, <2>2, RBTreeAssumption DEF K
  <2> QED BY <2>1, <2>7, <2>8, CursorIs DEF Abstract!GoPrev
<1>11. CASE UNCHANGED vars
  <2>1. tree' = tree /\ path' = path /\ call' = call /\ result' = result
    BY <1>11 DEF vars
  <2>2. Elements' = Elements
    <3>1. Nodes' = Nodes
      BY <2>1, NodesAre
    <3> QED BY <2>1, <3>1 DEF Elements
  <2> QED BY <2>1, <2>2 DEF Abstract!vars
<1> QED BY <1>4, <1>5, <1>6, <1>7, <1>8, <1>9, <1>10, <1>11 DEF Next, Abstract!Next

(* rbtree.c implements the ordered set with a cursor that rbtree.h promises: *)
(* what a call returns never depends on the shape of the tree.               *)
THEOREM Refinement == Spec => ImplementsOrderedSet
<1>1. Init => Abstract!Init
  <2> SUFFICES ASSUME Init PROVE Abstract!Init
    OBVIOUS
  <2>1. /\ tree.root = NULL /\ path = <<>> /\ call = <<"create", NULL>> /\ result = NULL
    BY DEF Init
  <2>2. PICK E : Kept(E)
    BY InitIInv DEF IInv
  <2>3. E = {}
    <3>1. State(tree, elems, path, alloc, overrun, E)
      BY <2>2 DEF Kept
    <3> QED BY <2>1, <3>1, StateIs
  <2>4. Elements = {}
    BY <2>2, <2>3, ElementsAre
  <2> QED BY <2>1, <2>4 DEF Abstract!Init
<1> QED BY <1>1, StepMaps, SpecIInv, PTL DEF Spec, ImplementsOrderedSet, Abstract!Spec
=============================================================================
