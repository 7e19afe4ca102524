---------------------------- MODULE MerkleProofs ----------------------------
(***************************************************************************)
(* Merkle proofs are sound for trees of every size: when the siblings of   *)
(* call_get_merkle_leaf_hash lead from a leaf to the root of a list, the   *)
(* leaf is that of the element at the index it was asked for.              *)
(***************************************************************************)
EXTENDS Merkle, WellFoundedInduction, TLAPS

-----------------------------------------------------------------------------
(* Induction over the natural numbers, stated with a set in place of a      *)
(* predicate so that first-order provers can use it: to show P(n) for every *)
(* n, take {n \in Nat : P(n)}.                                              *)

\* A set that contains 0 and the successor of each of its numbers contains all.
\* Of the numbers it does not contain one is the least, because < is well-founded.
LEMMA NatSetInduction ==
  ASSUME NEW S, 0 \in S, \A n \in Nat : n \in S => n + 1 \in S
  PROVE  Nat \subseteq S
<1> DEFINE R == OpToRel(<, Nat)
           T == Nat \ S
<1> SUFFICES ASSUME T # {} PROVE FALSE
  OBVIOUS
<1>1. IsWellFoundedOn(R, Nat)
  BY NatLessThanWellFounded, Zenon
<1>2. \A x \in Nat : \A y \in Nat : x < y => <<x, y>> \in R
  BY DEF OpToRel
<1> HIDE DEF R
<1>3. PICK t \in T : \A y \in T : ~(<<y, t>> \in R)
  BY <1>1, WFMin, Zenon
<1>4. t # 0 /\ t - 1 \in Nat /\ (t - 1) + 1 = t /\ t - 1 < t
  OBVIOUS
<1>5. t - 1 \in S
  BY <1>2, <1>3, <1>4, Zenon
<1> QED
  BY <1>4, <1>5

\* A start and a step have a sequence of values, one for each natural number.
LEMMA NatIteration ==
  ASSUME NEW A, NEW a \in A, NEW F \in [A -> A]
  PROVE  \E h \in [Nat -> A] : h[0] = a /\ \A n \in Nat : h[n + 1] = F[h[n]]
<1> DEFINE Values(f, m) == /\ f \in [0..m -> A] /\ f[0] = a
                           /\ \A n \in 0..(m - 1) : f[n + 1] = F[f[n]]
           E == {m \in Nat : \E f : Values(f, m)}
           U == {n \in Nat : \A m \in Nat, k \in Nat : \A f, g :
                   n <= m /\ n <= k /\ Values(f, m) /\ Values(g, k) => f[n] = g[n]}
<1>1. Nat \subseteq E
  <2>1. 0 \in E
    <3>1. Values([n \in 0..0 |-> a], 0)
      OBVIOUS
    <3> QED
      BY <3>1, ZenonT(40)
  <2>2. ASSUME NEW m \in Nat, m \in E PROVE m + 1 \in E
    <3>1. PICK f : Values(f, m)
      BY <2>2
    <3> DEFINE g == [n \in 0..(m + 1) |-> IF n = m + 1 THEN F[f[m]] ELSE f[n]]
    <3>2. g \in [0..(m + 1) -> A] /\ g[0] = a
      BY <3>1
    <3>3. ASSUME NEW n \in 0..m PROVE g[n + 1] = F[g[n]]
      BY <3>1
    <3>4. (m + 1) - 1 = m
      OBVIOUS
    <3>5. Values(g, m + 1)
      BY <3>2, <3>3, <3>4, ZenonT(40)
    <3> HIDE DEF g, Values
    <3> QED
      BY <3>5
  <2> HIDE DEF E
  <2> QED
    BY <2>1, <2>2, NatSetInduction
<1>2. Nat \subseteq U
  <2>1. 0 \in U
    OBVIOUS
  <2>2. ASSUME NEW n \in Nat, n \in U PROVE n + 1 \in U
    <3> SUFFICES ASSUME NEW m \in Nat, NEW k \in Nat, NEW f, NEW g, n + 1 <= m, n + 1 <= k,
                        Values(f, m), Values(g, k)
                 PROVE  f[n + 1] = g[n + 1]
      OBVIOUS
    <3>1. n \in 0..(m - 1) /\ n \in 0..(k - 1)
      OBVIOUS
    <3>2. f[n] = g[n]
      <4>1. n <= m /\ n <= k
        OBVIOUS
      <4> HIDE DEF Values
      <4> QED
        BY <2>2, <4>1
    <3> QED
      BY <3>1, <3>2
  <2> HIDE DEF U
  <2> QED
    BY <2>1, <2>2, NatSetInduction
<1> DEFINE G(n) == CHOOSE f : Values(f, n)
           h == [n \in Nat |-> G(n)[n]]
<1>3. ASSUME NEW n \in Nat PROVE Values(G(n), n)
  <2> HIDE DEF Values
  <2>1. \E f : Values(f, n)
    BY <1>1
  <2> QED
    BY <2>1
<1>4. ASSUME NEW n \in Nat PROVE h[n] = (IF n = 0 THEN a ELSE F[h[n - 1]]) /\ h[n] \in A
  <2>1. Values(G(n), n)
    BY <1>3, ZenonT(40)
  <2>2. h[n] = G(n)[n] /\ h[n] \in A
    <3>1. h[n] = G(n)[n]
      <4> HIDE DEF G
      <4> QED
        OBVIOUS
    <3>2. G(n)[n] \in A
      <4> HIDE DEF G
      <4> QED
        BY <2>1
    <3> QED
      BY <3>1, <3>2
  <2>3. CASE n = 0
    BY <2>1, <2>2, <2>3
  <2>4. CASE n # 0
    <3>1. n - 1 \in Nat /\ n - 1 \in 0..(n - 1) /\ (n - 1) + 1 = n
      BY <2>4
    <3>2. Values(G(n - 1), n - 1)
      BY <1>3, <3>1, ZenonT(40)
    <3>3. G(n)[n - 1] = G(n - 1)[n - 1]
      <4> HIDE DEF G, Values
      <4> QED
        BY <1>2, <2>1, <3>1, <3>2 DEF U
    <3>4. G(n)[n] = F[G(n)[n - 1]]
      BY <2>1, <3>1, ZenonT(40)
    <3>5. h[n - 1] = G(n - 1)[n - 1]
      <4> HIDE DEF G
      <4> QED
        BY <3>1
    <3>6. h[n] = F[h[n - 1]]
      <4> HIDE DEF G, h
      <4> QED
        BY <2>2, <3>3, <3>4, <3>5, Zenon
    <3> HIDE DEF G, h
    <3> QED
      BY <2>2, <2>4, <3>6, Zenon
  <2> QED
    BY <2>3, <2>4
<1>5. h \in [Nat -> A]
  <2> HIDE DEF G
  <2>1. \A n \in Nat : h[n] \in A
    BY <1>4, ZenonT(40)
  <2> QED
    BY <2>1
<1>6. ASSUME NEW n \in Nat PROVE h[n + 1] = F[h[n]]
  <2>1. n + 1 \in Nat /\ n + 1 # 0 /\ (n + 1) - 1 = n
    OBVIOUS
  <2> HIDE DEF h
  <2> QED
    BY <1>4, <2>1
<1>7. h[0] = a
  <2> HIDE DEF h
  <2> QED
    BY <1>4
<1> HIDE DEF h
<1> QED
  BY <1>5, <1>6, <1>7
\* A set of natural numbers has a least element.
LEMMA NatLeast ==
  ASSUME NEW S, S \subseteq Nat, S # {}
  PROVE  \E k \in S : \A j \in S : k <= j
<1> DEFINE T == {n \in Nat : (\E m \in S : m <= n) => \E k \in S : \A j \in S : k <= j}
<1>1. 0 \in T
  OBVIOUS
<1>2. ASSUME NEW n \in Nat, n \in T PROVE n + 1 \in T
  <2> SUFFICES ASSUME NEW m \in S, m <= n + 1, ~ \E q \in S : q <= n
               PROVE  \E k \in S : \A j \in S : k <= j
    BY <1>2
  <2> SUFFICES ASSUME NEW j \in S PROVE m <= j
    OBVIOUS
  <2>1. m \in Nat /\ j \in Nat /\ ~(j <= n)
    OBVIOUS
  <2> QED
    BY <2>1
<1> HIDE DEF T
<1>3. Nat \subseteq T
  BY <1>1, <1>2, NatSetInduction
<1>4. PICK m \in S : TRUE
  BY ZenonT(40)
<1>5. m \in Nat /\ m <= m
  OBVIOUS
<1> QED
  BY <1>3, <1>4, <1>5 DEF T

-----------------------------------------------------------------------------
(* The trees.                                                               *)

\* The powers of two that ceil_lg counts with.
LEMMA PowerFacts ==
  /\ Power2[0] = 1
  /\ \A d \in Nat : /\ Power2[d] \in Nat /\ Power2[d + 1] = 2 * Power2[d]
                    /\ d < Power2[d]
<1> DEFINE A == Nat
           a == 1
           F == [x \in A |-> 2 * x]
<1>1. F \in [A -> A] /\ a \in A
  OBVIOUS
<1>2. PICK h \in [Nat -> A] : h[0] = a /\ \A n \in Nat : h[n + 1] = F[h[n]]
  <2> HIDE DEF A, a, F
  <2> QED
    BY <1>1, NatIteration
<1>3. h = [d \in Nat |-> IF d = 0 THEN 1 ELSE 2 * h[d - 1]]
  <2> SUFFICES ASSUME NEW n \in Nat, n # 0 PROVE h[n] = 2 * h[n - 1]
    BY <1>2
  <2>1. n - 1 \in Nat /\ (n - 1) + 1 = n
    OBVIOUS
  <2>2. h[n - 1] \in Nat /\ h[n] = F[h[n - 1]]
    BY <1>2, <2>1
  <2> QED
    BY <2>2
<1>4. Power2 = [d \in Nat |-> IF d = 0 THEN 1 ELSE 2 * Power2[d - 1]]
  BY <1>3, Zenon DEF Power2
<1>5. Power2[0] = 1 /\ \A d \in Nat : Power2[d + 1] = 2 * Power2[d]
  <2>1. ASSUME NEW d \in Nat PROVE Power2[d + 1] = 2 * Power2[d]
    <3>1. d + 1 \in Nat /\ d + 1 # 0 /\ (d + 1) - 1 = d
      OBVIOUS
    <3> QED
      BY <1>4, <3>1
  <2>2. Power2[0] = 1
    BY <1>4
  <2> QED
    BY <2>1, <2>2
<1> DEFINE S == {d \in Nat : Power2[d] \in Nat /\ d < Power2[d]}
<1>6. 0 \in S
  BY <1>5
<1>7. ASSUME NEW d \in Nat, d \in S PROVE d + 1 \in S
  BY <1>5, <1>7
<1>8. Nat \subseteq S
  <2> HIDE DEF S
  <2> QED
    BY <1>6, <1>7, NatSetInduction
<1> QED
  BY <1>5, <1>8

\* The left subtree of two or more leaves is a proper part, and the larger one.
LEMMA LeftSizeFacts ==
  ASSUME NEW n \in Nat, n >= 2
  PROVE  LeftSize(n) \in 1..(n - 1) /\ n <= 2 * LeftSize(n)
<1> DEFINE Least(d) == Power2[d] >= n /\ (d = 0 \/ Power2[d - 1] < n)
           S == {m \in Nat : Power2[m] >= n => \E d \in 0..m : Least(d)}
<1>1. \A d \in Nat : Power2[d] \in Nat /\ Power2[d + 1] = 2 * Power2[d] /\ d < Power2[d]
  BY PowerFacts
<1>2. Power2[0] = 1
  BY PowerFacts
<1>3. n \in S
  <2>1. 0 \in S
    OBVIOUS
  <2>2. ASSUME NEW m \in Nat, m \in S PROVE m + 1 \in S
    <3> SUFFICES ASSUME Power2[m + 1] >= n PROVE \E d \in 0..(m + 1) : Least(d)
      OBVIOUS
    <3>1. CASE Power2[m] >= n
      <4>1. PICK d \in 0..m : Least(d)
        BY <2>2, <3>1
      <4> QED
        BY <4>1
    <3>2. CASE ~(Power2[m] >= n)
      <4>1. (m + 1) - 1 = m /\ Power2[m] < n
        BY <1>1, <3>2
      <4>2. Least(m + 1)
        BY <4>1
      <4> QED
        BY <4>2
    <3> QED
      BY <3>1, <3>2
  <2> HIDE DEF S
  <2> QED
    BY <2>1, <2>2, NatSetInduction
<1>4. \E d \in 0..n : Least(d)
  BY <1>1, <1>3
<1>5. CeilLg[n] \in 0..n /\ Least(CeilLg[n])
  <2> HIDE DEF Least
  <2>1. CeilLg[n] = CHOOSE d \in 0..n : Least(d)
    BY Zenon DEF CeilLg, Least
  <2> QED
    BY <1>4, <2>1
<1> DEFINE e == CeilLg[n] - 1
<1>6. CeilLg[n] # 0
  BY <1>2, <1>5
<1>7. e \in Nat /\ e + 1 = CeilLg[n]
  BY <1>5, <1>6
<1>8. Power2[e + 1] >= n /\ Power2[e] < n
  BY <1>5, <1>6, <1>7
<1>9. Power2[e] \in Nat /\ Power2[e] > 0 /\ Power2[e + 1] = 2 * Power2[e]
  <2> HIDE DEF e
  <2> QED
    BY <1>1, <1>7
<1>10. LeftSize(n) = Power2[e]
  BY DEF LeftSize
<1> HIDE DEF e
<1> QED
  BY <1>8, <1>9, <1>10
-----------------------------------------------------------------------------
(* The trees.                                                               *)

\* MakeTree is what its recursive definition says: make_tree terminates.
LEMMA TreeRecursive ==
  ASSUME NEW els, Len(els) \in Nat
  PROVE  MakeTree(els) =
           [s \in 0..Len(els) |-> [b \in 0..(Len(els) - s) |->
              IF s = 0 THEN Bad
              ELSE IF s = 1 THEN Leaf(els[b + 1])
              ELSE Node(MakeTree(els)[LeftSize(s)][b],
                        MakeTree(els)[s - LeftSize(s)][b + LeftSize(s)])]]
<1> DEFINE n == Len(els)
<1>0. n \in Nat
  OBVIOUS
<1> HIDE DEF n
<1> DEFINE Body(f, s, b) ==
             IF s = 0 THEN Bad
             ELSE IF s = 1 THEN Leaf(els[b + 1])
             ELSE Node(f[LeftSize(s)][b], f[s - LeftSize(s)][b + LeftSize(s)])
           IsTree(f, m) == f = [s \in 0..m |-> [b \in 0..(n - s) |-> Body(f, s, b)]]
           S == {m \in Nat : \E f : IsTree(f, m)}
<1>1. ASSUME NEW m \in Nat, NEW f, NEW g, NEW s \in 0..(m + 1),
             \A k \in 0..m : f[k] = g[k]
      PROVE  \A b : Body(f, s, b) = Body(g, s, b)
  <2>1. CASE s \in {0, 1}
    BY <2>1
  <2>2. CASE s \notin {0, 1}
    <3>1. LeftSize(s) \in 0..m /\ s - LeftSize(s) \in 0..m
      BY <2>2, LeftSizeFacts
    <3>2. f[LeftSize(s)] = g[LeftSize(s)] /\ f[s - LeftSize(s)] = g[s - LeftSize(s)]
      BY <1>1, <3>1
    <3> QED
      BY <2>2, <3>2
  <2> QED
    BY <2>1, <2>2
<1>2. 0 \in S
  <2>1. IsTree([s \in 0..0 |-> [b \in 0..(n - s) |-> Bad]], 0)
    OBVIOUS
  <2> QED
    BY <2>1, Zenon
<1>3. ASSUME NEW m \in Nat, m \in S PROVE m + 1 \in S
  <2>1. PICK f : IsTree(f, m)
    BY <1>3
  <2> DEFINE g == [s \in 0..(m + 1) |->
                     IF s = m + 1 THEN [b \in 0..(n - s) |-> Body(f, s, b)] ELSE f[s]]
  <2> HIDE DEF Body
  <2>2. \A s \in 0..(m + 1) : g[s] = [b \in 0..(n - s) |-> Body(f, s, b)]
    <3>1. \A s \in 0..(m + 1) : s # m + 1 => s \in 0..m
      OBVIOUS
    <3>2. \A s \in 0..m : f[s] = [b \in 0..(n - s) |-> Body(f, s, b)]
      BY <2>1, ZenonT(40)
    <3> QED
      BY <3>1, <3>2
  <2>3. \A k \in 0..m : f[k] = g[k]
    OBVIOUS
  <2>4. \A s \in 0..(m + 1) : \A b : Body(f, s, b) = Body(g, s, b)
    <3> HIDE DEF g
    <3> QED
      BY <1>1, <2>3
  <2>5. g = [s \in 0..(m + 1) |-> g[s]]
    OBVIOUS
  <2> HIDE DEF g
  <2>6. \A s \in 0..(m + 1) : g[s] = [b \in 0..(n - s) |-> Body(g, s, b)]
    BY <2>2, <2>4
  <2>7. IsTree(g, m + 1)
    BY <2>5, <2>6
  <2> QED
    BY <2>7
<1>4. n \in S
  <2> HIDE DEF S
  <2> QED
    BY <1>0, <1>2, <1>3, NatSetInduction
<1>5. \E f : IsTree(f, n)
  BY <1>4
<1> QED
  BY <1>5, Zenon DEF MakeTree, n
\* A node is made of its children, down to the leaves.
LEMMA TreeNodes ==
  ASSUME NEW els, Len(els) \in Nat, NEW s \in 1..Len(els), NEW b \in 0..(Len(els) - s)
  PROVE  /\ s = 1 => MakeTree(els)[s][b] = Leaf(els[b + 1])
         /\ s # 1 => MakeTree(els)[s][b] =
              Node(MakeTree(els)[LeftSize(s)][b], MakeTree(els)[s - LeftSize(s)][b + LeftSize(s)])
<1> DEFINE n == Len(els)
           T == MakeTree(els)
<1>1. T = [q \in 0..n |-> [c \in 0..(n - q) |->
              IF q = 0 THEN Bad
              ELSE IF q = 1 THEN Leaf(els[c + 1])
              ELSE Node(T[LeftSize(q)][c], T[q - LeftSize(q)][c + LeftSize(q)])]]
  BY TreeRecursive, Zenon
<1>2. n \in Nat /\ s \in 0..n /\ s # 0 /\ b \in 0..(n - s)
  OBVIOUS
<1> HIDE DEF n, T
<1>3. T[s] = [c \in 0..(n - s) |->
              IF s = 0 THEN Bad
              ELSE IF s = 1 THEN Leaf(els[c + 1])
              ELSE Node(T[LeftSize(s)][c], T[s - LeftSize(s)][c + LeftSize(s)])]
  BY <1>1, <1>2, Zenon
<1>4. T[s][b] = IF s = 1 THEN Leaf(els[b + 1])
                ELSE Node(T[LeftSize(s)][b], T[s - LeftSize(s)][b + LeftSize(s)])
  BY <1>2, <1>3, Zenon
<1> QED
  BY <1>4 DEF T
-----------------------------------------------------------------------------
(* The walk down to a leaf.                                                 *)

\* The bit that the mask selects tells whether the leaf is in the right subtree.
LEMMA RightChildFacts ==
  ASSUME NEW t \in [size : Nat, index : Nat], t.size >= 2, t.index < t.size
  PROVE  RightChild(t) = IF t.index >= LeftSize(t.size) THEN 1 ELSE 0
<1> DEFINE k == LeftSize(t.size)
           x == t.index
<1>1. k \in Nat /\ k > 0 /\ x \in Nat /\ x < 2 * k
  BY LeftSizeFacts
<1>2. RightChild(t) = (x \div k) % 2
  BY DEF RightChild
<1> HIDE DEF k, x
<1>3. CASE x >= k
  <2>1. x \div k = 1
    BY <1>1, <1>3
  <2> QED
    BY <1>2, <1>3, <2>1 DEF k, x
<1>4. CASE x < k
  <2>1. x \div k = 0
    BY <1>1, <1>4
  <2> QED
    BY <1>1, <1>2, <1>4, <2>1 DEF k, x
<1> QED
  BY <1>1, <1>3, <1>4

\* One round of the loop of merkle_get_ith_direction.
Down(t) ==
  IF t.size <= 1 THEN t
  ELSE IF RightChild(t) = 1
  THEN [size |-> t.size - LeftSize(t.size), index |-> t.index - LeftSize(t.size)]
  ELSE [size |-> LeftSize(t.size), index |-> t.index]

\* The loop goes on from a subtree with the leaf to a smaller one with the leaf.
LEMMA DownFacts ==
  ASSUME NEW t \in [size : Nat, index : Nat], t.index < t.size
  PROVE  /\ Down(t) \in [size : Nat, index : Nat] /\ Down(t).index < Down(t).size
         /\ t.index - Down(t).index \in 0..(t.size - Down(t).size)
         /\ t.size > 1 => Down(t).size < t.size
<1>1. CASE t.size <= 1
  BY <1>1 DEF Down
<1>2. CASE t.size > 1
  <2> DEFINE k == LeftSize(t.size)
  <2>1. k \in 1..(t.size - 1) /\ RightChild(t) = IF t.index >= k THEN 1 ELSE 0
    BY <1>2, LeftSizeFacts, RightChildFacts
  <2>2. Down(t) = IF t.index >= k THEN [size |-> t.size - k, index |-> t.index - k]
                  ELSE [size |-> k, index |-> t.index]
    BY <1>2, <2>1 DEF Down
  <2> HIDE DEF k
  <2> QED
    BY <2>1, <2>2
<1> QED
  BY <1>1, <1>2

\* Walk is what its recursive definition says.
LEMMA WalkRecursive ==
  ASSUME NEW size \in Nat, NEW i \in 0..(size - 1)
  PROVE  /\ Walk(size, i)[0] = [size |-> size, index |-> i]
         /\ \A n \in Nat : Walk(size, i)[n + 1] = Down(Walk(size, i)[n])
<1> DEFINE A == {t \in [size : Nat, index : Nat] : t.index < t.size}
           a == [size |-> size, index |-> i]
           F == [t \in A |-> Down(t)]
<1>1. F \in [A -> A] /\ a \in A
  <2>1. \A t \in A : Down(t) \in A
    BY DownFacts
  <2> QED
    BY <2>1
<1>2. PICK h \in [Nat -> A] : h[0] = a /\ \A n \in Nat : h[n + 1] = F[h[n]]
  <2> HIDE DEF A, a, F
  <2> QED
    BY <1>1, NatIteration
<1>3. h = [n \in Nat |-> IF n = 0 THEN a ELSE Down(h[n - 1])]
  <2> SUFFICES ASSUME NEW n \in Nat, n # 0 PROVE h[n] = Down(h[n - 1])
    BY <1>2
  <2>1. n - 1 \in Nat /\ (n - 1) + 1 = n
    OBVIOUS
  <2>2. h[n - 1] \in A /\ h[n] = F[h[n - 1]]
    BY <1>2, <2>1, ZenonT(40)
  <2> HIDE DEF A
  <2> QED
    BY <2>2
<1> DEFINE W == Walk(size, i)
<1>4. W = [n \in Nat |-> IF n = 0 THEN a ELSE Down(W[n - 1])]
  <2>1. \E at : at = [n \in Nat |-> IF n = 0 THEN a ELSE Down(at[n - 1])]
    BY <1>3
  <2> QED
    BY <2>1, Zenon DEF Walk, Down
<1> HIDE DEF W
<1>5. W[0] = a /\ \A n \in Nat : W[n + 1] = Down(W[n])
  <2>1. ASSUME NEW n \in Nat PROVE W[n + 1] = Down(W[n])
    <3>1. n + 1 \in Nat /\ n + 1 # 0 /\ (n + 1) - 1 = n
      OBVIOUS
    <3> QED
      BY <1>4, <3>1, SMTT(30)
  <2> QED
    BY <1>4, <2>1, SMTT(30)
<1> QED
  BY <1>5 DEF W
\* At every round the leaf lies in the subtree, and the subtree in the tree.
LEMMA WalkFacts ==
  ASSUME NEW size \in Nat, NEW i \in 0..(size - 1), NEW n \in Nat
  PROVE  LET t == Walk(size, i)[n]
         IN  /\ t \in [size : Nat, index : Nat] /\ t.index < t.size
             /\ i - t.index \in 0..(size - t.size)
<1> DEFINE W == Walk(size, i)
           In(t) == /\ t \in [size : Nat, index : Nat] /\ t.index < t.size
                    /\ i - t.index \in 0..(size - t.size)
           S == {m \in Nat : In(W[m])}
<1>1. W[0] = [size |-> size, index |-> i] /\ \A m \in Nat : W[m + 1] = Down(W[m])
  BY WalkRecursive
<1> HIDE DEF W
<1>2. 0 \in S
  BY <1>1
<1>3. ASSUME NEW m \in Nat, m \in S PROVE m + 1 \in S
  <2> DEFINE t == W[m]
             u == W[m + 1]
  <2>1. In(t)
    BY <1>3
  <2>2. u = Down(t)
    BY <1>1
  <2>3. /\ u \in [size : Nat, index : Nat] /\ u.index < u.size
        /\ t.index - u.index \in 0..(t.size - u.size)
    <3> HIDE DEF t, u
    <3> QED
      BY <2>1, <2>2, DownFacts
  <2>4. In(u)
    <3> HIDE DEF t, u
    <3> QED
      BY <2>1, <2>3
  <2> QED
    BY <2>4
<1>4. n \in S
  <2> HIDE DEF S
  <2> QED
    BY <1>2, <1>3, NatSetInduction
<1> QED
  BY <1>4 DEF W

\* The node of the subtree that the walk to leaf i is in after n rounds.
Along(els, i, n) ==
  LET t == Walk(Len(els), i)[n] IN MakeTree(els)[t.size][i - t.index]

\* The walk starts at the root.
LEMMA AlongRoot ==
  ASSUME NEW els, Len(els) \in Nat, NEW i \in 0..(Len(els) - 1)
  PROVE  Along(els, i, 0) = Root(els)
<1>1. Walk(Len(els), i)[0] = [size |-> Len(els), index |-> i]
  BY WalkRecursive
<1>2. i - i = 0
  OBVIOUS
<1> QED
  BY <1>1, <1>2 DEF Along, Root

\* A direction tells which child of a node the walk goes on to.
LEMMA AlongStep ==
  ASSUME NEW els, Len(els) \in Nat, NEW i \in 0..(Len(els) - 1), NEW n \in Nat,
         Direction(Len(els), i, n) # -1
  PROVE  \/ /\ Direction(Len(els), i, n) = 0
            /\ \E sibling : Along(els, i, n) = Node(Along(els, i, n + 1), sibling)
         \/ /\ Direction(Len(els), i, n) = 1
            /\ \E sibling : Along(els, i, n) = Node(sibling, Along(els, i, n + 1))
<1> DEFINE size == Len(els)
           T == MakeTree(els)
           t == Walk(size, i)[n]
           u == Walk(size, i)[n + 1]
           k == LeftSize(t.size)
           b == i - t.index
<1>1. size \in Nat /\ i \in 0..(size - 1)
  OBVIOUS
<1>2. t.size > 1 /\ Direction(size, i, n) = RightChild(t)
  <2>1. t \in [size : Nat, index : Nat]
    BY <1>1, WalkFacts
  <2> HIDE DEF t
  <2> QED
    BY <2>1 DEF Direction, t
<1>3. Along(els, i, n) = T[t.size][b] /\ Along(els, i, n + 1) = T[u.size][i - u.index]
  BY DEF Along
<1>4. u = Down(t)
  BY <1>1, WalkRecursive, ZenonT(40)
<1>5. /\ t \in [size : Nat, index : Nat] /\ t.index < t.size
      /\ b \in 0..(size - t.size)
  BY <1>1, WalkFacts
<1> HIDE DEF t, u
<1>a. t.size \in Nat /\ t.size >= 2 /\ t.index \in Nat /\ ~(t.size <= 1)
  BY <1>2, <1>5
<1>6. k \in 1..(t.size - 1) /\ RightChild(t) = IF t.index >= k THEN 1 ELSE 0
  <2>1. k \in 1..(t.size - 1)
    BY <1>a, LeftSizeFacts, SMTT(30)
  <2>2. RightChild(t) = IF t.index >= k THEN 1 ELSE 0
    BY <1>a, <1>5, RightChildFacts
  <2> QED
    BY <2>1, <2>2
<1>7. t.size \in 1..size /\ t.size # 1
  BY <1>1, <1>2, <1>5
<1>8. T[t.size][b] = Node(T[k][b], T[t.size - k][b + k])
  <2> HIDE DEF b
  <2> QED
    BY <1>1, <1>5, <1>7, TreeNodes
<1> HIDE DEF size, T, k
<1>9. CASE t.index >= k
  <2>1. u = [size |-> t.size - k, index |-> t.index - k]
    BY <1>a, <1>4, <1>6, <1>9 DEF Down, k
  <2>2. i - u.index = b + k
    BY <1>1, <1>5, <1>6, <2>1
  <2>3. Along(els, i, n) = Node(T[k][b], Along(els, i, n + 1))
    BY <1>3, <1>8, <2>1, <2>2
  <2> QED
    BY <1>2, <1>6, <1>9, <2>3 DEF size
<1>10. CASE ~(t.index >= k)
  <2>1. u = [size |-> k, index |-> t.index]
    BY <1>a, <1>4, <1>6, <1>10 DEF Down, k
  <2>2. i - u.index = b
    BY <2>1
  <2>3. Along(els, i, n) = Node(Along(els, i, n + 1), T[t.size - k][b + k])
    BY <1>3, <1>8, <2>1, <2>2
  <2> QED
    BY <1>2, <1>6, <1>10, <2>3 DEF size
<1> QED
  BY <1>9, <1>10

\* A leaf is met where the walk ends, and it is the leaf walked to.
LEMMA AlongLeaf ==
  ASSUME NEW els, Len(els) \in Nat, NEW i \in 0..(Len(els) - 1), NEW n \in Nat,
         NEW el, Along(els, i, n) = Leaf(el)
  PROVE  el = els[i + 1]
<1> DEFINE size == Len(els)
           T == MakeTree(els)
           t == Walk(size, i)[n]
           b == i - t.index
<1>1. size \in Nat /\ i \in 0..(size - 1)
  OBVIOUS
<1>2. /\ t \in [size : Nat, index : Nat] /\ t.index < t.size
      /\ b \in 0..(size - t.size)
  BY <1>1, WalkFacts
<1>3. T[t.size][b] = Leaf(el)
  BY DEF Along
<1> HIDE DEF t
<1>4. t.size \in 1..size
  BY <1>1, <1>2
<1>5. /\ t.size = 1 => T[t.size][b] = Leaf(els[b + 1])
      /\ t.size # 1 => \E l, r : T[t.size][b] = Node(l, r)
  <2> HIDE DEF b
  <2> QED
    BY <1>2, <1>4, TreeNodes
<1>6. t.size = 1
  <2> HIDE DEF T, b
  <2> QED
    BY <1>3, <1>5 DEF Leaf, Node
<1>7. b = i
  BY <1>1, <1>2, <1>6
<1> HIDE DEF T, b
<1> QED
  BY <1>3, <1>5, <1>6, <1>7 DEF Leaf
-----------------------------------------------------------------------------
(* The device climbs from a leaf to the root.                               *)

\* One round of the inner loop of call_get_merkle_leaf_hash.
Above(leaves, i, step, sibling, cur) ==
  IF cur = Bad \/ Direction(leaves, i, step) = -1 THEN Bad
  ELSE IF Direction(leaves, i, step) = 0 THEN Node(cur, sibling) ELSE Node(sibling, cur)

\* The hashes on the way up from cur.
Hashes(leaves, i, cur, pos, size, siblings, up) ==
  /\ Climb(leaves, i, cur, pos, size, siblings) = up[Len(siblings)]
  /\ up[0] = cur
  /\ \A k \in 1..Len(siblings) :
       up[k] = Above(leaves, i, size - (pos + k - 1) - 1, siblings[k], up[k - 1])

\* The hashes of Climb are what its recursive definition says.
LEMMA ClimbRecursive ==
  ASSUME NEW leaves, NEW i, NEW cur, NEW pos, NEW size, NEW siblings, Len(siblings) \in Nat
  PROVE  \E up : Hashes(leaves, i, cur, pos, size, siblings, up)
<1> DEFINE n == Len(siblings)
<1>0. n \in Nat
  OBVIOUS
<1> HIDE DEF n
<1> DEFINE d(k) == Direction(leaves, i, size - (pos + k - 1) - 1)
           Body(f, k) ==
             IF k = 0 THEN cur
             ELSE IF f[k - 1] = Bad \/ d(k) = -1 THEN Bad
             ELSE IF d(k) = 0 THEN Node(f[k - 1], siblings[k]) ELSE Node(siblings[k], f[k - 1])
           IsUp(f, m) == f = [k \in 0..m |-> Body(f, k)]
           S == {m \in Nat : \E f : IsUp(f, m)}
<1>1. 0 \in S
  <2>1. IsUp([k \in 0..0 |-> cur], 0)
    OBVIOUS
  <2> QED
    BY <2>1, Zenon
<1>2. ASSUME NEW m \in Nat, m \in S PROVE m + 1 \in S
  <2>1. PICK f : IsUp(f, m)
    BY <1>2
  <2> DEFINE g == [k \in 0..(m + 1) |-> IF k = m + 1 THEN Body(f, k) ELSE f[k]]
  <2>2. ASSUME NEW k \in 0..(m + 1) PROVE Body(f, k) = Body(g, k)
    <3>1. CASE k = 0
      BY <3>1
    <3>2. CASE k # 0
      <4>1. k - 1 \in 0..(m + 1) /\ k - 1 # m + 1
        BY <3>2
      <4>2. f[k - 1] = g[k - 1]
        <5> HIDE DEF Body
        <5> QED
          BY <4>1
      <4> HIDE DEF g
      <4> QED
        BY <3>2, <4>2
    <3> QED
      BY <3>1, <3>2
  <2> HIDE DEF Body
  <2>3. \A k \in 0..(m + 1) : g[k] = Body(f, k)
    <3>1. \A k \in 0..(m + 1) : k # m + 1 => k \in 0..m
      OBVIOUS
    <3>2. \A k \in 0..m : f[k] = Body(f, k)
      BY <2>1
    <3> QED
      BY <3>1, <3>2
  <2>4. g = [k \in 0..(m + 1) |-> g[k]]
    OBVIOUS
  <2> HIDE DEF g
  <2>5. IsUp(g, m + 1)
    BY <2>2, <2>3, <2>4
  <2> QED
    BY <2>5
<1>3. n \in S
  <2> HIDE DEF S
  <2> QED
    BY <1>0, <1>1, <1>2, NatSetInduction
<1>4. PICK up : up = [k \in 0..n |-> Body(up, k)] /\ Climb(leaves, i, cur, pos, size, siblings) = up[n]
  <2>1. \E f : IsUp(f, n)
    BY <1>3
  <2> QED
    BY <2>1, Zenon DEF Climb, n
<1>5. up[0] = cur
  <2>1. up[0] = Body(up, 0)
    <3> HIDE DEF Body
    <3> QED
      BY <1>0, <1>4
  <2> QED
    BY <2>1
<1>6. ASSUME NEW k \in 1..n
      PROVE  up[k] = Above(leaves, i, size - (pos + k - 1) - 1, siblings[k], up[k - 1])
  <2>1. k \in 0..n /\ k # 0
    BY <1>0
  <2>2. up[k] = Body(up, k)
    <3> HIDE DEF Body
    <3> QED
      BY <1>4, <2>1, ZenonT(40)
  <2> QED
    BY <2>1, <2>2 DEF Above
<1>7. Hashes(leaves, i, cur, pos, size, siblings, up)
  BY <1>4, <1>5, <1>6, ZenonT(40) DEF n, Hashes
<1> QED
  BY <1>7

\* If a climb ends at the node that the walk from the root passes there, it
\* started at the node that the walk passes lower down.
LEMMA ClimbSound ==
  ASSUME NEW els, Len(els) \in Nat, NEW i \in 0..(Len(els) - 1), NEW cur,
         NEW size \in Nat, NEW pos \in Nat, NEW siblings, Len(siblings) \in Nat,
         pos + Len(siblings) <= size,
         Climb(Len(els), i, cur, pos, size, siblings) # Bad,
         Climb(Len(els), i, cur, pos, size, siblings)
           = Along(els, i, size - (pos + Len(siblings)))
  PROVE  cur = Along(els, i, size - pos)
<1> DEFINE n == Len(siblings)
           leaves == Len(els)
           c == Climb(leaves, i, cur, pos, size, siblings)
<1>1. PICK up : /\ c = up[n] /\ up[0] = cur
                /\ \A k \in 1..n :
                     up[k] = Above(leaves, i, size - (pos + k - 1) - 1, siblings[k], up[k - 1])
  <2>1. PICK up : Hashes(leaves, i, cur, pos, size, siblings, up)
    BY ClimbRecursive, ZenonT(40)
  <2> QED
    BY <2>1, Zenon DEF Hashes
<1>2. n \in Nat /\ leaves \in Nat /\ i \in 0..(leaves - 1) /\ pos + n <= size
  OBVIOUS
<1>3. c # Bad /\ c = Along(els, i, size - (pos + n))
  OBVIOUS
<1> DEFINE S == {m \in Nat : m <= n /\ up[m] # Bad /\ up[m] = Along(els, i, size - (pos + m))
                   => cur = Along(els, i, size - pos)}
<1>4. ASSUME NEW m \in Nat, m + 1 <= n, up[m + 1] # Bad,
             up[m + 1] = Along(els, i, size - (pos + (m + 1)))
      PROVE  up[m] # Bad /\ up[m] = Along(els, i, size - (pos + m))
  <2> DEFINE e == size - (pos + (m + 1))
  <2>1. /\ m + 1 \in 1..n /\ (m + 1) - 1 = m
        /\ e \in Nat /\ size - (pos + (m + 1) - 1) - 1 = e /\ size - (pos + m) = e + 1
    <3> HIDE DEF n
    <3> QED
      BY <1>2, <1>4
  <2> HIDE DEF n, leaves, c, e
  <2>2. up[m + 1] = Above(leaves, i, e, siblings[m + 1], up[m])
    BY <1>1, <2>1
  <2>3. up[m] # Bad /\ Direction(leaves, i, e) # -1
    BY <1>4, <2>2 DEF Above
  <2>4. up[m + 1] = IF Direction(leaves, i, e) = 0 THEN Node(up[m], siblings[m + 1])
                    ELSE Node(siblings[m + 1], up[m])
    BY <2>2, <2>3 DEF Above
  <2>5. \/ /\ Direction(leaves, i, e) = 0
           /\ \E s : Along(els, i, e) = Node(Along(els, i, e + 1), s)
        \/ /\ Direction(leaves, i, e) = 1
           /\ \E s : Along(els, i, e) = Node(s, Along(els, i, e + 1))
    BY <1>2, <2>1, <2>3, AlongStep DEF leaves
  <2>6. up[m + 1] = Along(els, i, e)
    BY <1>4 DEF e
  <2>7. up[m] = Along(els, i, e + 1)
    BY <2>4, <2>5, <2>6 DEF Node
  <2> QED
    BY <2>1, <2>3, <2>7
<1>5. 0 \in S
  <2>1. up[0] = cur /\ size - (pos + 0) = size - pos
    BY <1>1, <1>2
  <2> QED
    BY <2>1
<1>6. ASSUME NEW m \in Nat, m \in S PROVE m + 1 \in S
  <2> HIDE DEF n
  <2> SUFFICES ASSUME m + 1 <= n, up[m + 1] # Bad,
                      up[m + 1] = Along(els, i, size - (pos + (m + 1)))
               PROVE  cur = Along(els, i, size - pos)
    OBVIOUS
  <2>1. up[m] # Bad /\ up[m] = Along(els, i, size - (pos + m))
    BY <1>4
  <2>2. m <= n
    BY <1>2
  <2> QED
    BY <1>6, <2>1, <2>2
<1>7. n \in S
  <2> HIDE DEF S, n
  <2> QED
    BY <1>2, <1>5, <1>6, NatSetInduction, SMTT(30)
<1>8. n <= n /\ up[n] # Bad /\ up[n] = Along(els, i, size - (pos + n))
  <2> HIDE DEF n, c
  <2> QED
    BY <1>1, <1>2, <1>3
<1> HIDE DEF n, c
<1> QED
  BY <1>7, <1>8
-----------------------------------------------------------------------------
(* The proofs of the client.                                                *)

\* The function that ProveLeaf builds: the proof in each subtree.
Siblings(els, i) ==
  CHOOSE prove : prove = [s \in 0..Len(els) |-> [b \in 0..(Len(els) - s) |->
    IF s <= 1 THEN <<>>
    ELSE IF i < b + LeftSize(s)
    THEN Append(prove[LeftSize(s)][b], MakeTree(els)[s - LeftSize(s)][b + LeftSize(s)])
    ELSE Append(prove[s - LeftSize(s)][b + LeftSize(s)], MakeTree(els)[LeftSize(s)][b])]]

\* It is what the recursive definition says: prove_leaf terminates.
LEMMA ProveRecursive ==
  ASSUME NEW els, NEW i, Len(els) \in Nat
  PROVE  /\ ProveLeaf(els, i) = Siblings(els, i)[Len(els)][0]
         /\ \A s \in 0..Len(els) : \A b \in 0..(Len(els) - s) :
              Siblings(els, i)[s][b] =
                IF s <= 1 THEN <<>>
                ELSE IF i < b + LeftSize(s)
                THEN Append(Siblings(els, i)[LeftSize(s)][b],
                            MakeTree(els)[s - LeftSize(s)][b + LeftSize(s)])
                ELSE Append(Siblings(els, i)[s - LeftSize(s)][b + LeftSize(s)],
                            MakeTree(els)[LeftSize(s)][b])
<1> DEFINE n == Len(els)
           T == MakeTree(els)
<1>0. n \in Nat
  OBVIOUS
<1> HIDE DEF n, T
<1> DEFINE Body(f, s, b) ==
             IF s <= 1 THEN <<>>
             ELSE IF i < b + LeftSize(s)
             THEN Append(f[LeftSize(s)][b], T[s - LeftSize(s)][b + LeftSize(s)])
             ELSE Append(f[s - LeftSize(s)][b + LeftSize(s)], T[LeftSize(s)][b])
           IsProve(f, m) == f = [s \in 0..m |-> [b \in 0..(n - s) |-> Body(f, s, b)]]
           S == {m \in Nat : \E f : IsProve(f, m)}
<1>1. ASSUME NEW m \in Nat, NEW f, NEW g, NEW s \in 0..(m + 1),
             \A k \in 0..m : f[k] = g[k]
      PROVE  \A b : Body(f, s, b) = Body(g, s, b)
  <2>1. CASE s <= 1
    BY <2>1, Zenon
  <2>2. CASE ~(s <= 1)
    <3>1. LeftSize(s) \in 0..m /\ s - LeftSize(s) \in 0..m
      BY <2>2, LeftSizeFacts
    <3>2. f[LeftSize(s)] = g[LeftSize(s)] /\ f[s - LeftSize(s)] = g[s - LeftSize(s)]
      BY <1>1, <3>1
    <3> QED
      BY <2>2, <3>2, Zenon
  <2> QED
    BY <2>1, <2>2
<1>2. 0 \in S
  <2>1. IsProve([s \in 0..0 |-> [b \in 0..(n - s) |-> <<>>]], 0)
    <3> DEFINE f == [s \in 0..0 |-> [b \in 0..(n - s) |-> <<>>]]
    <3>1. \A s \in 0..0 : s <= 1
      OBVIOUS
    <3>2. \A s \in 0..0 : \A b : Body(f, s, b) = <<>>
      BY <3>1, Zenon
    <3> HIDE DEF Body
    <3> QED
      BY <3>2, Zenon
  <2> QED
    BY <2>1, Zenon
<1>3. ASSUME NEW m \in Nat, m \in S PROVE m + 1 \in S
  <2>1. PICK f : IsProve(f, m)
    <3> HIDE DEF IsProve
    <3> QED
      BY <1>3, Zenon
  <2> DEFINE g == [s \in 0..(m + 1) |->
                     IF s = m + 1 THEN [b \in 0..(n - s) |-> Body(f, s, b)] ELSE f[s]]
  <2> HIDE DEF Body
  <2>2. \A s \in 0..(m + 1) : g[s] = [b \in 0..(n - s) |-> Body(f, s, b)]
    <3>1. \A s \in 0..(m + 1) : s # m + 1 => s \in 0..m
      OBVIOUS
    <3>2. \A s \in 0..m : f[s] = [b \in 0..(n - s) |-> Body(f, s, b)]
      BY <2>1, ZenonT(40)
    <3> QED
      BY <3>1, <3>2
  <2>3. \A k \in 0..m : f[k] = g[k]
    OBVIOUS
  <2>4. \A s \in 0..(m + 1) : \A b : Body(f, s, b) = Body(g, s, b)
    <3> HIDE DEF g
    <3> QED
      BY <1>1, <2>3
  <2>5. g = [s \in 0..(m + 1) |-> g[s]]
    OBVIOUS
  <2> HIDE DEF g
  <2>6. \A s \in 0..(m + 1) : g[s] = [b \in 0..(n - s) |-> Body(g, s, b)]
    BY <2>2, <2>4
  <2>7. IsProve(g, m + 1)
    BY <2>5, <2>6
  <2> QED
    BY <2>7
<1>4. n \in S
  <2> HIDE DEF S
  <2> QED
    BY <1>0, <1>2, <1>3, NatSetInduction
<1>5. \E f : IsProve(f, n)
  BY <1>4, ZenonT(40)
<1>6. Siblings(els, i) = CHOOSE f : IsProve(f, n)
  BY Zenon DEF Siblings, n, T
<1>7. IsProve(Siblings(els, i), n)
  <2> HIDE DEF IsProve
  <2> QED
    BY <1>5, <1>6, Zenon
<1>8. ProveLeaf(els, i) = Siblings(els, i)[Len(els)][0]
  BY Zenon DEF ProveLeaf, Siblings
<1>9. \A s \in 0..n : \A b \in 0..(n - s) :
        Siblings(els, i)[s][b] = Body(Siblings(els, i), s, b)
  <2> DEFINE P == Siblings(els, i)
  <2>1. P = [s \in 0..n |-> [b \in 0..(n - s) |-> Body(P, s, b)]]
    BY <1>7, ZenonT(40)
  <2> HIDE DEF P, Body
  <2>2. \A s \in 0..n : P[s] = [b \in 0..(n - s) |-> Body(P, s, b)]
    BY <2>1, Zenon
  <2> QED
    BY <2>2, Zenon DEF P
<1> QED
  BY <1>8, <1>9, Zenon DEF n, T

\* The proof in the subtree that the walk to leaf i is in after n rounds.
Proving(els, i, n) ==
  LET t == Walk(Len(els), i)[n] IN Siblings(els, i)[t.size][i - t.index]

TreeNode(els) ==
  UNION {{MakeTree(els)[s][b] : b \in 0..(Len(els) - s)} : s \in 0..Len(els)}

\* The proof starts at the leaf, and the walk and the proof meet the same nodes.
LEMMA ProvingStep ==
  ASSUME NEW els, Len(els) \in Nat, NEW i \in 0..(Len(els) - 1), NEW n \in Nat
  PROVE  LET t == Walk(Len(els), i)[n]
         IN  /\ Along(els, i, n) # Bad
             /\ t.size <= 1 => /\ Proving(els, i, n) = <<>>
                               /\ Along(els, i, n) = Leaf(els[i + 1])
             /\ t.size > 1 =>
                  \E sibling \in TreeNode(els) :
                    /\ Proving(els, i, n) = Append(Proving(els, i, n + 1), sibling)
                    /\ Along(els, i, n) = Above(Len(els), i, n, sibling, Along(els, i, n + 1))
<1> DEFINE size == Len(els)
           T == MakeTree(els)
           P == Siblings(els, i)
           t == Walk(size, i)[n]
           u == Walk(size, i)[n + 1]
           k == LeftSize(t.size)
           b == i - t.index
<1>1. size \in Nat /\ i \in 0..(size - 1) /\ n + 1 \in Nat
  OBVIOUS
<1>2. /\ t \in [size : Nat, index : Nat] /\ t.index < t.size
      /\ b \in 0..(size - t.size)
  BY <1>1, WalkFacts
<1>3. /\ u \in [size : Nat, index : Nat] /\ u.index < u.size
      /\ i - u.index \in 0..(size - u.size)
  BY <1>1, WalkFacts
<1>4. u = Down(t)
  BY <1>1, WalkRecursive, ZenonT(40)
<1>5. /\ Along(els, i, n) = T[t.size][b] /\ Along(els, i, n + 1) = T[u.size][i - u.index]
      /\ Proving(els, i, n) = P[t.size][b] /\ Proving(els, i, n + 1) = P[u.size][i - u.index]
  BY DEF Along, Proving
<1>d. Direction(size, i, n) = IF t.size <= 1 THEN -1 ELSE RightChild(t)
  <2> HIDE DEF t
  <2> QED
    BY <1>1, <1>2 DEF Direction, t
<1> HIDE DEF t, u
<1>6. \A s \in 1..size : \A c \in 0..(size - s) :
        /\ T[s][c] # Bad
        /\ s = 1 => T[s][c] = Leaf(els[c + 1])
        /\ s # 1 => T[s][c] = Node(T[LeftSize(s)][c], T[s - LeftSize(s)][c + LeftSize(s)])
  <2> SUFFICES ASSUME NEW s \in 1..size, NEW c \in 0..(size - s)
               PROVE  /\ T[s][c] # Bad
                      /\ s = 1 => T[s][c] = Leaf(els[c + 1])
                      /\ s # 1 => T[s][c] =
                           Node(T[LeftSize(s)][c], T[s - LeftSize(s)][c + LeftSize(s)])
    OBVIOUS
  <2>1. /\ s = 1 => T[s][c] = Leaf(els[c + 1])
        /\ s # 1 => T[s][c] = Node(T[LeftSize(s)][c], T[s - LeftSize(s)][c + LeftSize(s)])
    BY TreeNodes
  <2>2. \A el, l, r : Leaf(el) # Bad /\ Node(l, r) # Bad
    BY DEF Leaf, Node, Bad
  <2> QED
    BY <2>1, <2>2, Zenon
<1>7. t.size \in 1..size /\ u.size \in 1..size
  BY <1>1, <1>2, <1>3
<1>8. Along(els, i, n) # Bad /\ Along(els, i, n + 1) # Bad
  <2> HIDE DEF T, b, size
  <2> QED
    BY <1>2, <1>3, <1>5, <1>6, <1>7
<1>9. \A s \in 0..size : \A c \in 0..(size - s) : P[s][c] =
              IF s <= 1 THEN <<>>
              ELSE IF i < c + LeftSize(s)
              THEN Append(P[LeftSize(s)][c], T[s - LeftSize(s)][c + LeftSize(s)])
              ELSE Append(P[s - LeftSize(s)][c + LeftSize(s)], T[LeftSize(s)][c])
  BY ProveRecursive, Zenon
<1> HIDE DEF T, P, size
<1>10. P[t.size][b] = IF t.size <= 1 THEN <<>>
              ELSE IF i < b + k
              THEN Append(P[k][b], T[t.size - k][b + k])
              ELSE Append(P[t.size - k][b + k], T[k][b])
  <2>1. t.size \in 0..size
    BY <1>7
  <2> HIDE DEF b
  <2> QED
    BY <1>2, <1>9, <2>1, Zenon
<1>11. CASE t.size <= 1
  <2>1. t.size = 1 /\ b = i
    BY <1>1, <1>2, <1>7, <1>11
  <2>2. T[t.size][b] = Leaf(els[i + 1])
    <3> HIDE DEF b
    <3> QED
      BY <1>2, <1>6, <1>7, <2>1
  <2>3. ~(t.size > 1)
    BY <2>1
  <2> HIDE DEF b
  <2> QED
    BY <1>5, <1>8, <1>10, <1>11, <2>2, <2>3, Zenon DEF t, size
<1>12. CASE ~(t.size <= 1)
  <2>1. t.size \in Nat /\ t.size >= 2 /\ t.size > 1 /\ t.index \in Nat /\ t.size # 1
    BY <1>2, <1>12
  <2>2. k \in 1..(t.size - 1)
    BY <2>1, LeftSizeFacts
  <2>3. RightChild(t) = IF t.index >= k THEN 1 ELSE 0
    BY <2>1, <1>2, RightChildFacts
  <2>4. T[t.size][b] = Node(T[k][b], T[t.size - k][b + k])
    <3> HIDE DEF b
    <3> QED
      BY <1>2, <1>6, <1>7, <2>1
  <2>5. T[k][b] \in TreeNode(els) /\ T[t.size - k][b + k] \in TreeNode(els)
    <3>1. /\ k \in 0..size /\ b \in 0..(size - k)
          /\ t.size - k \in 0..size /\ b + k \in 0..(size - (t.size - k))
      <4> HIDE DEF b, k
      <4> QED
        BY <1>1, <1>2, <1>7, <2>2, SMTT(30)
    <3>2. \A s \in 0..size : \A c \in 0..(size - s) : T[s][c] \in TreeNode(els)
      <4> SUFFICES ASSUME NEW s \in 0..size, NEW c \in 0..(size - s)
                   PROVE  T[s][c] \in TreeNode(els)
        OBVIOUS
      <4> DEFINE row(q) == {T[q][a] : a \in 0..(size - q)}
      <4>1. TreeNode(els) = UNION {row(q) : q \in 0..size}
        BY DEF TreeNode, T, size
      <4>2. T[s][c] \in row(s)
        OBVIOUS
      <4> HIDE DEF row
      <4> QED
        BY <4>1, <4>2
    <3> HIDE DEF b, k
    <3> QED
      BY <3>1, <3>2, ZenonT(40)
  <2>6. CASE t.index >= k
    <3>1. u = [size |-> t.size - k, index |-> t.index - k]
      BY <2>1, <1>4, <2>3, <2>6, <1>12 DEF Down
    <3>2. i - u.index = b + k /\ ~(i < b + k) /\ u.size = t.size - k
      BY <1>1, <1>2, <2>1, <2>2, <2>6, <3>1, SMTT(30)
    <3>3. Direction(size, i, n) = 1
      BY <1>d, <1>12, <2>3, <2>6
    <3> DEFINE x == T[k][b]
    <3>4. Proving(els, i, n) = Append(Proving(els, i, n + 1), x)
      BY <1>5, <1>10, <1>12, <3>2, ZenonT(40)
    <3>5. Along(els, i, n) = Node(x, Along(els, i, n + 1))
      BY <1>5, <2>4, <3>2
    <3>6. Along(els, i, n) = Above(size, i, n, x, Along(els, i, n + 1))
      <4>1. 1 # 0 /\ 1 # -1
        OBVIOUS
      <4> HIDE DEF x, k, b
      <4> QED
        BY <1>8, <3>3, <3>5, <4>1, Zenon DEF Above
    <3> HIDE DEF x
    <3> QED
      BY <1>8, <1>12, <2>5, <3>4, <3>6, Zenon DEF t, size, x
  <2>7. CASE ~(t.index >= k)
    <3>1. u = [size |-> k, index |-> t.index]
      BY <2>1, <1>4, <2>3, <2>7, <1>12 DEF Down
    <3>2. i - u.index = b /\ i < b + k /\ u.size = k
      BY <1>1, <1>2, <2>1, <2>2, <2>7, <3>1
    <3>3. Direction(size, i, n) = 0
      BY <1>d, <1>12, <2>3, <2>7, SMTT(30)
    <3> DEFINE x == T[t.size - k][b + k]
    <3>4. Proving(els, i, n) = Append(Proving(els, i, n + 1), x)
      BY <1>5, <1>10, <1>12, <3>2, ZenonT(40)
    <3>5. Along(els, i, n) = Node(Along(els, i, n + 1), x)
      BY <1>5, <2>4, <3>2
    <3>6. Along(els, i, n) = Above(size, i, n, x, Along(els, i, n + 1))
      <4>1. 0 # -1
        OBVIOUS
      <4> HIDE DEF x, k, b
      <4> QED
        BY <1>8, <3>3, <3>5, <4>1, Zenon DEF Above
    <3> HIDE DEF x
    <3> QED
      BY <1>8, <1>12, <2>5, <3>4, <3>6, Zenon DEF t, size, x
  <2> QED
    BY <2>6, <2>7
<1> QED
  BY <1>11, <1>12

\* The proofs in the subtrees are lists of nodes of the tree.
LEMMA ProvingLists ==
  ASSUME NEW els, Len(els) \in Nat, NEW i \in 0..(Len(els) - 1)
  PROVE  \A n \in Nat : Proving(els, i, n) \in Seq(TreeNode(els))
<1> DEFINE W == Walk(Len(els), i)
           Q(n) == Proving(els, i, n)
           H == TreeNode(els)
           S == {m \in Nat : \A n \in Nat : W[n].size <= m + 1 => Q(n) \in Seq(H)}
<1>1. \A n \in Nat :
        /\ W[n].size \in Nat
        /\ W[n].size <= 1 => Q(n) = <<>>
        /\ W[n].size > 1 => \E x \in H : Q(n) = Append(Q(n + 1), x)
        /\ W[n].size > 1 => W[n + 1].size < W[n].size
  <2> SUFFICES ASSUME NEW n \in Nat
               PROVE  /\ W[n].size \in Nat
                      /\ W[n].size <= 1 => Q(n) = <<>>
                      /\ W[n].size > 1 => \E x \in H : Q(n) = Append(Q(n + 1), x)
                      /\ W[n].size > 1 => W[n + 1].size < W[n].size
    OBVIOUS
  <2>1. W[n] \in [size : Nat, index : Nat] /\ W[n].index < W[n].size
    BY WalkFacts
  <2>2. /\ W[n].size <= 1 => Q(n) = <<>>
        /\ W[n].size > 1 => \E x \in H : Q(n) = Append(Q(n + 1), x)
    BY ProvingStep, Zenon
  <2>3. W[n + 1] = Down(W[n])
    BY WalkRecursive, ZenonT(40)
  <2> HIDE DEF W, Q, H
  <2>4. W[n].size > 1 => W[n + 1].size < W[n].size
    <3> SUFFICES ASSUME W[n].size > 1 PROVE W[n + 1].size < W[n].size
      OBVIOUS
    <3>1. W[n].size >= 2
      BY <2>1
    <3>2. Down(W[n]).size < W[n].size
      BY <2>1, <3>1, DownFacts
    <3> QED
      BY <2>3, <3>2
  <2> QED
    BY <2>1, <2>2, <2>4
<1> HIDE DEF W, Q, H
<1>2. 0 \in S
  <2>1. <<>> \in Seq(H)
    OBVIOUS
  <2>2. \A n \in Nat : W[n].size <= 0 + 1 => W[n].size <= 1
    OBVIOUS
  <2> QED
    BY <1>1, <2>1, <2>2, Zenon
<1>3. ASSUME NEW m \in Nat, m \in S PROVE m + 1 \in S
  <2> SUFFICES ASSUME NEW n \in Nat, W[n].size <= m + 1 + 1 PROVE Q(n) \in Seq(H)
    OBVIOUS
  <2>1. CASE W[n].size <= 1
    <3>1. Q(n) = <<>>
      BY <1>1, <2>1
    <3> QED
      BY <3>1
  <2>2. CASE W[n].size > 1
    <3>1. W[n + 1].size <= m + 1 /\ n + 1 \in Nat
      BY <1>1, <2>2
    <3>2. Q(n + 1) \in Seq(H)
      BY <1>3, <3>1
    <3>3. PICK x \in H : Q(n) = Append(Q(n + 1), x)
      BY <1>1, <2>2
    <3> DEFINE q == Q(n + 1)
    <3> HIDE DEF q
    <3>4. Append(q, x) \in Seq(H)
      BY <3>2 DEF q
    <3> QED
      BY <3>3, <3>4 DEF q
  <2> QED
    BY <1>1, <2>1, <2>2
<1>4. \A m \in Nat : m \in S
  <2> HIDE DEF S
  <2> QED
    BY <1>2, <1>3, NatSetInduction
<1>5. ASSUME NEW n \in Nat PROVE Q(n) \in Seq(H)
  <2>1. W[n].size \in Nat /\ W[n].size <= W[n].size + 1
    BY <1>1
  <2> QED
    BY <1>4, <2>1
<1> QED
  BY <1>5 DEF Q, H

\* The proof of leaf i is a list of the siblings on the way from the leaf to the
\* root: its last entry belongs to the first round of the walk.
LEMMA ProofFacts ==
  ASSUME NEW els, Len(els) \in Nat, NEW i \in 0..(Len(els) - 1)
  PROVE  /\ ProveLeaf(els, i) \in Seq(TreeNode(els))
         /\ Along(els, i, Len(ProveLeaf(els, i))) = Leaf(els[i + 1])
         /\ \A n \in 0..(Len(ProveLeaf(els, i)) - 1) :
              Along(els, i, n) =
                Above(Len(els), i, n, ProveLeaf(els, i)[Len(ProveLeaf(els, i)) - n],
                      Along(els, i, n + 1))
<1> DEFINE W == Walk(Len(els), i)
           Q(n) == Proving(els, i, n)
           H == TreeNode(els)
           P == ProveLeaf(els, i)
           D == Len(P)
           A(n) == Along(els, i, n)
           S == {m \in Nat : m <= D =>
                   Len(Q(m)) = D - m /\ \A k \in 1..(D - m) : Q(m)[k] = P[k]}
<1>1. \A n \in Nat :
        /\ W[n].size \in Nat
        /\ W[n].size <= 1 => Q(n) = <<>> /\ A(n) = Leaf(els[i + 1])
        /\ W[n].size > 1 => \E x \in H : Q(n) = Append(Q(n + 1), x)
                              /\ A(n) = Above(Len(els), i, n, x, A(n + 1))
  <2> SUFFICES ASSUME NEW n \in Nat
               PROVE  /\ W[n].size \in Nat
                      /\ W[n].size <= 1 => Q(n) = <<>> /\ A(n) = Leaf(els[i + 1])
                      /\ W[n].size > 1 => \E x \in H : Q(n) = Append(Q(n + 1), x)
                              /\ A(n) = Above(Len(els), i, n, x, A(n + 1))
    OBVIOUS
  <2>1. W[n] \in [size : Nat, index : Nat]
    BY WalkFacts
  <2>2. /\ W[n].size <= 1 => Q(n) = <<>> /\ A(n) = Leaf(els[i + 1])
        /\ W[n].size > 1 => \E x \in H : Q(n) = Append(Q(n + 1), x)
                              /\ A(n) = Above(Len(els), i, n, x, A(n + 1))
    BY ProvingStep, Zenon
  <2> HIDE DEF W, Q, H, A
  <2> QED
    BY <2>1, <2>2
<1>2. \A n \in Nat : Q(n) \in Seq(H)
  BY ProvingLists
<1>3. P = Q(0)
  <2>1. W[0] = [size |-> Len(els), index |-> i]
    BY WalkRecursive
  <2>2. W[0].size = Len(els) /\ i - W[0].index = 0
    BY <2>1
  <2>3. P = Siblings(els, i)[Len(els)][0]
    BY ProveRecursive
  <2> QED
    BY <2>2, <2>3 DEF Proving
<1> HIDE DEF W, Q, H, P, A
<1>4. P \in Seq(H) /\ D \in Nat
  BY <1>2, <1>3
<1>5. ASSUME NEW m \in Nat, m < D,
             Len(Q(m)) = D - m /\ \A k \in 1..(D - m) : Q(m)[k] = P[k]
      PROVE  /\ A(m) = Above(Len(els), i, m, P[D - m], A(m + 1))
             /\ Len(Q(m + 1)) = D - (m + 1)
             /\ \A k \in 1..(D - (m + 1)) : Q(m + 1)[k] = P[k]
  <2>0. m + 1 \in Nat
    OBVIOUS
  <2>1. Q(m) # <<>>
    BY <1>4, <1>5
  <2>2. W[m].size > 1
    BY <1>1, <2>1
  <2>3. PICK x \in H : Q(m) = Append(Q(m + 1), x)
                         /\ A(m) = Above(Len(els), i, m, x, A(m + 1))
    BY <1>1, <2>2
  <2> DEFINE q == Q(m)
             r == Q(m + 1)
  <2>4. q \in Seq(H) /\ r \in Seq(H) /\ q = Append(r, x) /\ Len(q) = D - m
        /\ \A k \in 1..(D - m) : q[k] = P[k]
    BY <1>2, <1>5, <2>0, <2>3, ZenonT(40)
  <2> HIDE DEF q, r, D
  <2>5. /\ Len(r) = D - (m + 1) /\ q[D - m] = x
        /\ \A k \in 1..(D - (m + 1)) : r[k] = q[k]
    BY <1>4, <1>5, <2>4
  <2>6. D - m \in 1..(D - m) /\ \A k \in 1..(D - (m + 1)) : k \in 1..(D - m)
    BY <1>4, <1>5
  <2>7. P[D - m] = x /\ \A k \in 1..(D - (m + 1)) : r[k] = P[k]
    BY <2>4, <2>5, <2>6, Zenon
  <2> QED
    BY <2>3, <2>5, <2>7 DEF r
<1>6. 0 \in S
  BY <1>3, <1>4
<1>7. ASSUME NEW m \in Nat, m \in S PROVE m + 1 \in S
  <2>1. CASE m < D
    <3>1. m <= D /\ m + 1 \in Nat
      BY <1>4, <2>1
    <3> HIDE DEF D
    <3>2. Len(Q(m)) = D - m /\ \A k \in 1..(D - m) : Q(m)[k] = P[k]
      BY <1>7, <3>1
    <3> QED
      BY <1>5, <2>1, <3>1, <3>2, Zenon
  <2>2. CASE ~(m < D)
    BY <1>4, <2>2
  <2> QED
    BY <2>1, <2>2
<1>8. \A m \in Nat : m \in S
  <2> HIDE DEF S
  <2> QED
    BY <1>6, <1>7, NatSetInduction
<1>9. \A n \in 0..(D - 1) : A(n) = Above(Len(els), i, n, P[D - n], A(n + 1))
  <2> SUFFICES ASSUME NEW n \in 0..(D - 1)
               PROVE  A(n) = Above(Len(els), i, n, P[D - n], A(n + 1))
    OBVIOUS
  <2>1. n \in Nat /\ n < D /\ n <= D
    BY <1>4
  <2> HIDE DEF D
  <2>2. Len(Q(n)) = D - n /\ \A k \in 1..(D - n) : Q(n)[k] = P[k]
    BY <1>8, <2>1, Zenon
  <2> QED
    BY <1>5, <2>1, <2>2, Zenon
<1>10. A(D) = Leaf(els[i + 1])
  <2>1. D <= D /\ D - D = 0
    BY <1>4
  <2>2. Len(Q(D)) = 0
    <3>1. Len(Q(D)) = D - D
      BY <1>4, <1>8, <2>1, Zenon
    <3> QED
      BY <2>1, <3>1, Zenon
  <2>3. \A x \in H : Q(D) # Append(Q(D + 1), x)
    <3> DEFINE q == Q(D)
               r == Q(D + 1)
    <3>1. r \in Seq(H) /\ Len(q) = 0
      BY <1>2, <1>4, <2>2
    <3> HIDE DEF q, r
    <3>2. \A x \in H : q # Append(r, x)
      BY <3>1
    <3> QED
      BY <3>2 DEF q, r
  <2>4. ~(W[D].size > 1)
    BY <1>1, <1>4, <2>3
  <2> QED
    BY <1>1, <1>4, <2>4
<1> QED
  BY <1>4, <1>9, <1>10 DEF A, H, P
\* A proof leads from its leaf to the root: after the first pos siblings, the
\* next ones lead from one node on the way to a higher one.
LEMMA ClimbHonest ==
  ASSUME NEW els, Len(els) \in Nat, NEW i \in 0..(Len(els) - 1),
         NEW pos \in Nat, NEW siblings, Len(siblings) \in Nat,
         pos + Len(siblings) <= Len(ProveLeaf(els, i)),
         \A k \in 1..Len(siblings) : siblings[k] = ProveLeaf(els, i)[pos + k]
  PROVE  Climb(Len(els), i, Along(els, i, Len(ProveLeaf(els, i)) - pos), pos,
               Len(ProveLeaf(els, i)), siblings)
           = Along(els, i, Len(ProveLeaf(els, i)) - (pos + Len(siblings)))
<1> DEFINE n == Len(siblings)
           leaves == Len(els)
           P == ProveLeaf(els, i)
           D == Len(P)
           A(m) == Along(els, i, m)
           cur == A(D - pos)
           c == Climb(leaves, i, cur, pos, D, siblings)
<1>1. PICK up : /\ c = up[n] /\ up[0] = cur
                /\ \A k \in 1..n :
                     up[k] = Above(leaves, i, D - (pos + k - 1) - 1, siblings[k], up[k - 1])
  <2>0. n \in Nat
    OBVIOUS
  <2> HIDE DEF cur, leaves, D
  <2>1. PICK up : Hashes(leaves, i, cur, pos, D, siblings, up)
    BY <2>0, ClimbRecursive, ZenonT(40)
  <2> QED
    BY <2>1, Zenon DEF Hashes
<1>2. n \in Nat /\ leaves \in Nat /\ i \in 0..(leaves - 1) /\ pos + n <= D
      /\ \A k \in 1..n : siblings[k] = P[pos + k]
  OBVIOUS
<1>3. /\ P \in Seq(TreeNode(els))
      /\ \A m \in 0..(D - 1) : A(m) = Above(leaves, i, m, P[D - m], A(m + 1))
  BY ProofFacts
<1>4. D \in Nat
  <2> HIDE DEF P
  <2> QED
    BY <1>3
<1> DEFINE S == {m \in Nat : m <= n => up[m] = A(D - (pos + m))}
<1> HIDE DEF n, leaves, P, D, c, A
<1>5. 0 \in S
  <2>1. D - (pos + 0) = D - pos
    BY <1>2, <1>4
  <2> QED
    BY <1>1, <2>1
<1>6. ASSUME NEW m \in Nat, m \in S PROVE m + 1 \in S
  <2> SUFFICES ASSUME m + 1 <= n PROVE up[m + 1] = A(D - (pos + (m + 1)))
    OBVIOUS
  <2> DEFINE e == D - (pos + (m + 1))
  <2>1. /\ m <= n /\ m + 1 \in 1..n /\ (m + 1) - 1 = m /\ e \in 0..(D - 1)
        /\ D - (pos + (m + 1) - 1) - 1 = e /\ D - (pos + m) = e + 1 /\ pos + (m + 1) = D - e
    BY <1>2, <1>4
  <2> HIDE DEF e
  <2>2. up[m + 1] = Above(leaves, i, e, siblings[m + 1], up[m])
    BY <1>1, <2>1
  <2>3. siblings[m + 1] = P[D - e]
    BY <1>2, <2>1
  <2>4. up[m] = A(e + 1)
    BY <1>6, <2>1
  <2>5. A(e) = Above(leaves, i, e, P[D - e], A(e + 1))
    BY <1>3, <2>1
  <2>6. up[m + 1] = A(e)
    BY <2>2, <2>3, <2>4, <2>5
  <2> QED
    BY <2>6 DEF e
<1>7. n \in S
  <2> HIDE DEF S
  <2> QED
    BY <1>2, <1>5, <1>6, NatSetInduction, ZenonT(40)
<1>8. up[n] = A(D - (pos + n))
  BY <1>2, <1>7
<1> QED
  BY <1>1, <1>8 DEF n, leaves, P, D, c, A
-----------------------------------------------------------------------------
(* What the device relies on, and what it owes a correct client.            *)

\* If the hashes that call_get_merkle_leaf_hash computes from an element and any
\* siblings end in the root of a list, that element is the list's element at the
\* index: a commitment to a list binds every position of it.
THEOREM ProofsBind ==
  ASSUME NEW els, Len(els) \in Nat, NEW i \in 0..(Len(els) - 1), NEW el,
         NEW siblings, Len(siblings) \in Nat,
         Climb(Len(els), i, Leaf(el), 0, Len(siblings), siblings) = Root(els)
  PROVE  el = els[i + 1]
<1> DEFINE n == Len(siblings)
           cur == Leaf(el)
           c == Climb(Len(els), i, cur, 0, n, siblings)
<1>1. Along(els, i, 0) = Root(els) /\ Along(els, i, 0) # Bad
  BY AlongRoot, ProvingStep, Zenon
<1>2. n \in Nat /\ 0 + n <= n /\ n - (0 + n) = 0 /\ n - 0 = n /\ c = Root(els)
  OBVIOUS
<1>3. c # Bad /\ c = Along(els, i, n - (0 + n))
  <2> HIDE DEF c, n
  <2> QED
    BY <1>1, <1>2
<1>4. cur = Along(els, i, n - 0)
  <2> HIDE DEF cur
  <2> QED
    BY <1>2, <1>3, ClimbSound
<1>5. Along(els, i, n) = Leaf(el)
  BY <1>2, <1>4
<1> QED
  BY <1>2, <1>5, AlongLeaf

\* The siblings that MerkleTree.prove_leaf returns lead from the element to the
\* root, in the order in which the device combines them, for trees of any size.
THEOREM ProofsLead ==
  ASSUME NEW els, Len(els) \in Nat, NEW i \in 0..(Len(els) - 1)
  PROVE  Climb(Len(els), i, Leaf(els[i + 1]), 0, Len(ProveLeaf(els, i)), ProveLeaf(els, i))
           = Root(els)
<1> DEFINE P == ProveLeaf(els, i)
           D == Len(P)
<1>1. P \in Seq(TreeNode(els)) /\ Along(els, i, D) = Leaf(els[i + 1])
  BY ProofFacts
<1>2. D \in Nat
  <2> HIDE DEF P
  <2> QED
    BY <1>1
<1>3. /\ 0 \in Nat /\ 0 + D <= D /\ D - 0 = D /\ D - (0 + D) = 0 /\ \A k \in 1..D : P[k] = P[0 + k]
  <2> HIDE DEF P
  <2>1. \A k \in 1..D : 0 + k = k
    OBVIOUS
  <2> QED
    BY <1>2, <2>1
<1>4. Climb(Len(els), i, Along(els, i, D - 0), 0, D, P) = Along(els, i, D - (0 + D))
  BY <1>2, <1>3, ClimbHonest, Zenon
<1> HIDE DEF D
<1> QED
  BY <1>1, <1>3, <1>4, AlongRoot DEF D
=============================================================================
