------------------------------- MODULE Merkle -------------------------------
(***************************************************************************)
(* Merkle trees, which the client builds (merkle.py) and the device walks  *)
(* (common/merkle.c).  SHA-256 is a free constructor: "leaf" is the hash   *)
(* of 0x00 and an element, "node" the hash of 0x01 and two hashes, "raw"   *)
(* the hash of anything else.                                              *)
(***************************************************************************)
EXTENDS Integers, Sequences

Leaf(el)      == <<"leaf", el>>
Node(l, r)    == <<"node", l, r>>
Sha(bytes)    == IF bytes # <<>> /\ bytes[1] = 0 THEN Leaf(Tail(bytes)) ELSE <<"raw", bytes>>
Bad           == <<>>      \* not a hash

Power2[d \in Nat] == IF d = 0 THEN 1 ELSE 2 * Power2[d - 1]

CeilLg[n \in Nat] == CHOOSE d \in 0..n : Power2[d] >= n /\ (d = 0 \/ Power2[d - 1] < n)

\* largest_power_of_2_less_than, and the mask of merkle_get_ith_direction
LeftSize(n) == Power2[CeilLg[n] - 1]

\* MakeTree(els)[s][b] is the node over the s leaves from b on.
MakeTree(els) ==
  LET make[s \in 0..Len(els)] ==
        [b \in 0..(Len(els) - s) |->
           LET k == LeftSize(s)
           IN  IF s = 0 THEN Bad
               ELSE IF s = 1 THEN Leaf(els[b + 1])
               ELSE Node(make[k][b], make[s - k][b + k])]
  IN  make

Root(els) == MakeTree(els)[Len(els)][0]

\* The siblings from the leaf up to the root.
ProveLeaf(els, i) ==
  LET tree == MakeTree(els)
      prove[s \in 0..Len(els)] ==
        [b \in 0..(Len(els) - s) |->
           LET k == LeftSize(s)
           IN  IF s <= 1 THEN <<>>
               ELSE IF i < b + k THEN Append(prove[k][b], tree[s - k][b + k])
               ELSE Append(prove[s - k][b + k], tree[k][b])]
  IN  prove[Len(els)][0]

\* The bit of the index that the mask selects.
RightChild(t) == (t.index \div LeftSize(t.size)) % 2

\* The subtree that the loop of merkle_get_ith_direction is in after n rounds:
\* the number of its leaves, and the index of the leaf among them.
Walk(size, i) ==
  LET at[n \in Nat] ==
        IF n = 0 THEN [size |-> size, index |-> i]
        ELSE LET t == at[n - 1]
             IN  IF t.size <= 1 THEN t
                 ELSE IF RightChild(t) = 1
                 THEN [size |-> t.size - LeftSize(t.size), index |-> t.index - LeftSize(t.size)]
                 ELSE [size |-> LeftSize(t.size), index |-> t.index]
  IN  at

\* Mutant: the walk ignores that the right subtree is smaller.
DirectionFullTree(size, i, nth) ==
  IF size <= 1 \/ i >= size \/ nth >= CeilLg[size] THEN -1
  ELSE (i \div Power2[CeilLg[size] - 1 - nth]) % 2

\* 0 for left, 1 for right, counted from the root, and -1 beyond the leaf.
Direction(size, i, nth) ==
  LET t == Walk(size, i)[nth]
  IN  IF size <= 1 \/ i >= size \/ t.size <= 1 THEN -1 ELSE RightChild(t)

\* The inner loop of call_get_merkle_leaf_hash over the received siblings: from
\* the hash cur, pos steps above leaf i, in a proof of size steps.
Climb(leaves, i, cur, pos, size, siblings) ==
  LET up[k \in 0..Len(siblings)] ==
        IF k = 0 THEN cur
        ELSE LET d == Direction(leaves, i, size - (pos + k - 1) - 1)
             IN  IF up[k - 1] = Bad \/ d = -1 THEN Bad
                 ELSE IF d = 0 THEN Node(up[k - 1], siblings[k]) ELSE Node(siblings[k], up[k - 1])
  IN  up[Len(siblings)]
=============================================================================
