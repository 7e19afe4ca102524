-------------------------- MODULE ClientDataProofs --------------------------
(***************************************************************************)
(* The lookups of handler/lib return what the command committed to or      *)
(* fail, whatever the client answers, for maps of any size and any number  *)
(* of wrong answers: ClientData implements AbstractLookup.                 *)
(*                                                                         *)
(* The inductive invariant says, for each call of a lookup, what its       *)
(* callers have established (Ready) and what the exchange in progress has  *)
(* gathered (Climbing, Bytes).  The hash of a leaf and the bytes of a      *)
(* preimage are not trusted before the last check, so the invariant holds  *)
(* "if the hashes end in the root, then the leaf is the committed one".    *)
(***************************************************************************)
EXTENDS ClientData, MerkleProofs

-----------------------------------------------------------------------------
(* The inductive invariant.                                                 *)

MapKinds == {"value", "valuehash", "stream"}
Proofs   == {"proof", "keyproof"}
Reads    == {"fetch", "stream", "preimage"}

CallOf(l, s) == Program[l.kind][s]
TreeOf(w, l, s) ==
  IF CallOf(l, s) = "keyproof" \/ l.kind = "sorted" THEN w.keys ELSE w.values

\* The first n keys are in order.
Ordered(w, n) == \A k \in 1..(n - 1) : Below(w.keys[k], w.keys[k + 1])

Fields == {"index", "leaf", "cur", "pos", "size", "want", "left", "len", "hashed", "out", "prev"}

\* What holds when call s of lookup l starts with locals r.
Ready(w, l, s, r) ==
  /\ l \in AllLookups /\ s \in 1..Len(Program[l.kind])
  /\ DOMAIN r = Fields /\ r.index \in Nat
  /\ CallOf(l, s) \in Proofs \cup {"fetch", "stream"} => r.index < Len(w.keys)
  /\ CallOf(l, s) \in {"fetch", "stream"} => r.leaf = Leaf(TreeOf(w, l, s)[r.index + 1])
  /\ l.kind = "element" => r.index = l.at
  /\ l.kind \in MapKinds => StrictlySorted(w.keys)
  /\ l.kind \in MapKinds /\ CallOf(l, s) \in {"proof", "fetch", "stream"} =>
       w.keys[r.index + 1] = Key(w, l.at)
  /\ l.kind = "sorted" =>
       Ordered(w, r.index) /\ (r.index > 0 => r.prev = w.keys[r.index])

\* In the middle of call_get_merkle_leaf_hash: if the hash is the right one for
\* its height, the leaf is the right one.
Climbing(w, l, s, r) ==
  /\ r.size \in Nat /\ r.pos \in 0..r.size
  /\ r.cur = Along(TreeOf(w, l, s), r.index, r.size - r.pos) =>
       r.leaf = Leaf(TreeOf(w, l, s)[r.index + 1])

\* In the middle of the calls that fetch a preimage: what was put out is what
\* was hashed, but for the prefix, as long as it fits.
Bytes(w, l, s, r) ==
  /\ r.hashed \in Seq(Nat) /\ r.left \in Nat
  /\ CallOf(l, s) = "fetch" => r.left = 0
  /\ CallOf(l, s) \in {"fetch", "stream"} =>
       r.want = r.leaf /\ r.hashed # <<>> /\ r.out = Tail(r.hashed)
  /\ CallOf(l, s) = "preimage" =>
       r.want = Sha(w.policy) /\ (Len(r.hashed) <= OutLen => r.out = r.hashed)

\* The message in flight belongs to the call.
InCall(w, l, s, r, m) ==
  \/ m.t = "get_index" /\ CallOf(l, s) = "index"
  \/ /\ m.t = "index" /\ CallOf(l, s) = "index"
     /\ m.found # 0 => m.at \in 0..(Len(w.keys) - 1)
  \/ m.t = "get_proof" /\ CallOf(l, s) \in Proofs
  \/ /\ m.t = "proof" /\ CallOf(l, s) \in Proofs
     /\ \E k \in 1..Len(w.keys) : m.leaf \in {Leaf(w.keys[k]), Leaf(w.values[k])}
     /\ m.size \in Nat /\ Len(m.els) \in Nat /\ Len(m.els) <= m.size
  \/ m.t = "get_preimage" /\ CallOf(l, s) \in Reads
  \/ /\ m.t = "preimage" /\ CallOf(l, s) \in Reads
     /\ m.els \in Seq(Nat) /\ m.els # <<>> /\ m.len \in Nat /\ Len(m.els) <= m.len
     /\ m.len <= OutLen + 1 => Len(m.els) = m.len
  \/ /\ m.t \in {"get_more", "elements"}
     /\ m.t = "elements" => Len(m.els) \in Nat /\ (m.elen = 1 => m.els \in Seq(Nat))
     /\ \/ CallOf(l, s) \in Proofs /\ Climbing(w, l, s, r)
        \/ CallOf(l, s) \in {"stream", "preimage"} /\ Bytes(w, l, s, r)

\* What the client may have to send later: bytes, and hashes of the trees.
Items(w) ==
  [len : {1}, v : Nat] \cup [len : {HashLen}, v : TreeNode(w.keys) \cup TreeNode(w.values)]

Inv ==
  /\ world \in Worlds
  /\ queue \in Seq(Items(world))
  /\ checked \in BOOLEAN /\ (checked => StrictlySorted(world.keys))
  /\ client # "up" => msg = NoMsg
  /\ client # "up" /\ outcome = None => lookup \in AllLookups
  /\ msg # NoMsg =>
       /\ outcome = None
       /\ Ready(world, lookup, step, reg)
       /\ InCall(world, lookup, step, reg, msg)
-----------------------------------------------------------------------------
(* Elements and hashes.                                                     *)

LEMMA BelowTransitive ==
  ASSUME NEW a \in Seq(Nat), NEW b \in Seq(Nat), NEW c \in Seq(Nat), Below(a, b), Below(b, c)
  PROVE  Below(a, c)
<1>1. PICK k \in 1..Len(b) : /\ \A m \in 1..(k - 1) : m <= Len(a) /\ a[m] = b[m]
                             /\ k > Len(a) \/ a[k] < b[k]
  BY ZenonT(40) DEF Below
<1>2. PICK q \in 1..Len(c) : /\ \A m \in 1..(q - 1) : m <= Len(b) /\ b[m] = c[m]
                             /\ q > Len(b) \/ b[q] < c[q]
  BY ZenonT(40) DEF Below
<1>3. Len(a) \in Nat /\ Len(b) \in Nat /\ Len(c) \in Nat
  OBVIOUS
<1>4. /\ \A m \in 1..Len(a) : a[m] \in Nat
      /\ \A m \in 1..Len(b) : b[m] \in Nat
      /\ \A m \in 1..Len(c) : c[m] \in Nat
  OBVIOUS
<1>5. CASE k < q
  <2>1. k \in 1..(q - 1) /\ k \in 1..Len(c)
    BY <1>3, <1>5
  <2>2. \A m \in 1..(k - 1) : m \in 1..(q - 1)
    BY <1>5
  <2>3. \A m \in 1..(k - 1) : m <= Len(a) /\ a[m] = c[m]
    BY <1>1, <1>2, <2>2, ZenonT(40)
  <2>4. k > Len(a) \/ a[k] < c[k]
    BY <1>1, <1>2, <2>1
  <2> QED
    BY <2>1, <2>3, <2>4, ZenonT(40) DEF Below
<1>6. CASE k = q
  <2>1. \A m \in 1..(q - 1) : m <= Len(a) /\ a[m] = c[m]
    BY <1>1, <1>2, <1>6
  <2>2. q > Len(a) \/ a[q] < c[q]
    <3> SUFFICES ASSUME ~(q > Len(a)) PROVE a[q] < c[q]
      OBVIOUS
    <3>1. q \in 1..Len(a) /\ q \in 1..Len(b)
      BY <1>3, <1>6
    <3>2. a[q] < b[q] /\ b[q] < c[q]
      BY <1>1, <1>2, <1>3, <1>6
    <3> QED
      BY <1>4, <3>1, <3>2, SMTT(30)
  <2> QED
    BY <2>1, <2>2, ZenonT(40) DEF Below
<1>7. CASE q < k
  <2>1. q \in 1..(k - 1) /\ q \in 1..Len(b) /\ q <= Len(b)
    BY <1>3, <1>7
  <2>2. \A m \in 1..(q - 1) : m \in 1..(k - 1)
    BY <1>7
  <2>3. \A m \in 1..(q - 1) : m <= Len(a) /\ a[m] = c[m]
    BY <1>1, <1>2, <2>2, ZenonT(40)
  <2>4. q > Len(a) \/ a[q] < c[q]
    BY <1>1, <1>2, <1>3, <2>1
  <2> QED
    BY <2>3, <2>4, ZenonT(40) DEF Below
<1> QED
  BY <1>5, <1>6, <1>7

LEMMA BelowIrreflexive ==
  ASSUME NEW a \in Seq(Nat)
  PROVE  ~Below(a, a)
<1>1. Len(a) \in Nat /\ \A k \in 1..Len(a) : a[k] \in Nat
  OBVIOUS
<1> QED
  BY <1>1 DEF Below

\* compare_byte_arrays is negative only for elements in lexicographic order.
LEMMA CompareSound ==
  ASSUME NEW a \in Seq(Nat), NEW b \in Seq(Nat), ~(CompareByteArrays(a, b) >= 0)
  PROVE  Below(a, b)
<1> DEFINE min == IF Len(a) < Len(b) THEN Len(a) ELSE Len(b)
           diffs == {k \in 1..min : a[k] # b[k]}
           least == CHOOSE k \in diffs : \A j \in diffs : k <= j
<1>1. /\ Len(a) \in Nat /\ Len(b) \in Nat
      /\ \A k \in 1..Len(a) : a[k] \in Nat
      /\ \A k \in 1..Len(b) : b[k] \in Nat
  OBVIOUS
<1>2. CompareByteArrays(a, b) = IF diffs = {} THEN Len(a) - Len(b) ELSE a[least] - b[least]
  BY Zenon DEF CompareByteArrays
<1>3. min \in Nat /\ min <= Len(a) /\ min <= Len(b) /\ (min = Len(a) \/ min = Len(b))
  BY <1>1
<1> HIDE DEF min
<1>4. CASE diffs = {}
  <2>1. Len(a) < Len(b)
    BY <1>1, <1>2, <1>4
  <2>2. Len(a) + 1 \in 1..Len(b) /\ Len(a) + 1 > Len(a) /\ (Len(a) + 1) - 1 = Len(a) /\ min = Len(a)
    BY <1>1, <1>3, <2>1
  <2>3. \A m \in 1..Len(a) : m <= Len(a) /\ a[m] = b[m]
    <3> SUFFICES ASSUME NEW m \in 1..Len(a) PROVE m <= Len(a) /\ a[m] = b[m]
      BY Zenon
    <3>1. m \in 1..min /\ m <= Len(a)
      BY <1>1, <2>2
    <3>2. a[m] = b[m]
      BY <1>4, <3>1, Zenon
    <3> QED
      BY <3>1, <3>2
  <2> QED
    BY <2>2, <2>3, Zenon DEF Below
<1>5. CASE diffs # {}
  <2>1. \E k \in diffs : \A j \in diffs : k <= j
    <3>1. diffs \subseteq Nat
      BY <1>3
    <3> HIDE DEF diffs
    <3> QED
      BY <1>5, <3>1, NatLeast, ZenonT(40)
  <2>2. least \in diffs /\ \A j \in diffs : least <= j
    BY <2>1, Zenon
  <2> HIDE DEF least
  <2>3. least \in 1..min /\ least \in 1..Len(a) /\ least \in 1..Len(b)
    BY <1>1, <1>3, <2>2
  <2>4. a[least] < b[least]
    <3>1. CompareByteArrays(a, b) = a[least] - b[least]
      BY <1>2, <1>5, Zenon
    <3>2. a[least] \in Nat /\ b[least] \in Nat
      BY <1>1, <2>3, Zenon
    <3> QED
      BY <3>1, <3>2
  <2>5. \A m \in 1..(least - 1) : m <= Len(a) /\ a[m] = b[m]
    <3> SUFFICES ASSUME NEW m \in 1..(least - 1) PROVE m <= Len(a) /\ a[m] = b[m]
      OBVIOUS
    <3>1. m \in 1..min /\ ~(least <= m) /\ m <= Len(a)
      BY <1>1, <1>3, <2>3
    <3> QED
      BY <2>2, <3>1
  <2> QED
    BY <2>3, <2>4, <2>5, Zenon DEF Below
<1> QED
  BY <1>4, <1>5

\* Neighbours in order are all that call_check_merkle_tree_sorted compares.
LEMMA NeighboursSort ==
  ASSUME NEW w, w.keys \in Seq(Seq(Nat)), Ordered(w, Len(w.keys))
  PROVE  StrictlySorted(w.keys)
<1> DEFINE keys == w.keys
           n == Len(keys)
           S == {m \in Nat : m + 1 <= n => \A i \in 1..m : Below(keys[i], keys[m + 1])}
<1>1. n \in Nat /\ \A k \in 1..n : keys[k] \in Seq(Nat)
  OBVIOUS
<1>2. \A k \in 1..(n - 1) : Below(keys[k], keys[k + 1])
  BY DEF Ordered
<1> HIDE DEF keys, n
<1>3. 0 \in S
  OBVIOUS
<1>4. ASSUME NEW m \in Nat, m \in S PROVE m + 1 \in S
  <2> SUFFICES ASSUME (m + 1) + 1 <= n, NEW i \in 1..(m + 1)
               PROVE  Below(keys[i], keys[(m + 1) + 1])
    OBVIOUS
  <2>1. /\ m + 1 \in 1..(n - 1) /\ m + 1 <= n /\ i \in 1..n /\ m + 1 \in 1..n
        /\ (m + 1) + 1 \in 1..n
    BY <1>1
  <2>2. Below(keys[m + 1], keys[(m + 1) + 1])
    BY <1>2, <2>1
  <2>3. CASE i = m + 1
    BY <2>2, <2>3
  <2>4. CASE i # m + 1
    <3>1. i \in 1..m
      BY <2>4
    <3>2. Below(keys[i], keys[m + 1])
      BY <1>4, <2>1, <3>1
    <3>3. keys[i] \in Seq(Nat) /\ keys[m + 1] \in Seq(Nat) /\ keys[(m + 1) + 1] \in Seq(Nat)
      BY <1>1, <2>1
    <3> QED
      BY <2>2, <3>2, <3>3, BelowTransitive
  <2> QED
    BY <2>3, <2>4
<1>5. Nat \subseteq S
  <2> HIDE DEF S
  <2> QED
    BY <1>3, <1>4, NatSetInduction
<1>6. ASSUME NEW i \in 1..n, NEW j \in 1..n, i < j PROVE Below(keys[i], keys[j])
  <2>1. j - 1 \in Nat /\ (j - 1) + 1 = j /\ j <= n /\ i \in 1..(j - 1)
    BY <1>1, <1>6
  <2>2. j - 1 \in S
    BY <1>5, <2>1, ZenonT(40)
  <2> QED
    BY <2>1, <2>2
<1> QED
  BY <1>6 DEF StrictlySorted, keys, n

\* In a sorted list a key occurs once.
LEMMA SortedOnce ==
  ASSUME NEW keys \in Seq(Seq(Nat)), StrictlySorted(keys),
         NEW i \in 1..Len(keys), NEW j \in 1..Len(keys), keys[i] = keys[j]
  PROVE  i = j
<1>1. keys[i] \in Seq(Nat) /\ keys[j] \in Seq(Nat) /\ Len(keys) \in Nat
  OBVIOUS
<1>2. ~Below(keys[i], keys[j]) /\ ~Below(keys[j], keys[i])
  BY <1>1, BelowIrreflexive
<1>3. ~(i < j) /\ ~(j < i)
  BY <1>2, Zenon DEF StrictlySorted
<1> QED
  BY <1>1, <1>3

LEMMA ShaFacts ==
  ASSUME NEW bytes \in Seq(Nat)
  PROVE  /\ \A el : Sha(bytes) = Leaf(el) => Tail(bytes) = el
         /\ \A more \in Seq(Nat) : Sha(bytes) = Sha(more) => bytes = more
<1>1. \A el : Sha(bytes) = Leaf(el) => Tail(bytes) = el
  BY Zenon DEF Sha, Leaf
<1>2. ASSUME NEW more \in Seq(Nat), Sha(bytes) = Sha(more) PROVE bytes = more
  <2>1. CASE bytes # <<>> /\ bytes[1] = 0
    <3>1. Sha(more) = Leaf(Tail(bytes))
      BY <1>2, <2>1 DEF Sha
    <3>2. more # <<>> /\ more[1] = 0 /\ Tail(more) = Tail(bytes)
      BY <3>1, ZenonT(40) DEF Sha, Leaf
    <3>3. Len(more) = Len(bytes) /\ \A k \in 2..Len(more) : more[k] = bytes[k]
      <4>1. /\ Len(Tail(more)) = Len(more) - 1 /\ Len(Tail(bytes)) = Len(bytes) - 1
            /\ Len(more) \in Nat /\ Len(bytes) \in Nat
        BY <2>1, <3>2
      <4>2. Len(more) = Len(bytes)
        <5>1. Len(more) - 1 = Len(bytes) - 1
          BY <3>2, <4>1, Zenon
        <5> QED
          BY <4>1, <5>1
      <4>3. ASSUME NEW k \in 2..Len(more) PROVE more[k] = bytes[k]
        <5>1. k - 1 \in 1..(Len(more) - 1) /\ (k - 1) + 1 = k
          BY <4>1
        <5>2. Tail(more)[k - 1] = more[k] /\ Tail(bytes)[k - 1] = bytes[k]
          BY <2>1, <3>2, <4>1, <4>2, <5>1
        <5> QED
          BY <3>2, <5>2, ZenonT(40)
      <4> QED
        BY <4>2, <4>3, ZenonT(40)
    <3> QED
      BY <2>1, <3>2, <3>3
  <2>2. CASE ~(bytes # <<>> /\ bytes[1] = 0)
    BY <1>2, <2>2 DEF Sha, Leaf
  <2> QED
    BY <2>1, <2>2
<1> QED
  BY <1>1, <1>2

LEMMA LeafInjective ==
  ASSUME NEW a, NEW b, Leaf(a) = Leaf(b)
  PROVE  a = b
BY DEF Leaf

-----------------------------------------------------------------------------
(* The programs of the lookups.                                             *)

\* Which call follows which, and in which lookups.
Follows(l, s) ==
  LET c == CallOf(l, s)
      n == Len(Program[l.kind])
      d == CallOf(l, s + 1)
  IN  /\ n \in Nat
      /\ c \in {"index"} \cup Proofs \cup Reads
      /\ c = "index" => l.kind \in MapKinds /\ s < n /\ d = "keyproof"
      /\ c = "keyproof" => l.kind \in MapKinds /\ s < n /\ d = "proof"
      /\ c = "proof" => l.kind # "policy" /\ (s < n => d \in {"fetch", "stream"})
                                         /\ (s = n => l.kind = "valuehash")
      /\ c \in {"fetch", "stream"} =>
           s = n /\ l.kind \in {"element", "value", "stream", "sorted"}
      /\ c = "fetch" => l.kind # "stream"
      /\ c = "preimage" => s = n /\ l.kind = "policy"

LEMMA Concatenation ==
  ASSUME NEW S, NEW a \in Seq(S), NEW b \in Seq(S)
  PROVE  /\ a \o b \in Seq(S) /\ Len(a \o b) = Len(a) + Len(b)
         /\ \A k \in 1..(Len(a) + Len(b)) :
              (a \o b)[k] = IF k <= Len(a) THEN a[k] ELSE b[k - Len(a)]
OBVIOUS

LEMMA Remainder ==
  ASSUME NEW S, NEW a \in Seq(S), NEW n \in 0..Len(a)
  PROVE  SubSeq(a, n + 1, Len(a)) \in Seq(S)
OBVIOUS

LEMMA Joined ==
  ASSUME NEW S, NEW u \in Seq(S), NEW v \in Seq(S), NEW t \in Seq(S),
         Len(t) = Len(u) + Len(v),
         \A k \in 1..Len(u) : t[k] = u[k], \A k \in 1..Len(v) : t[Len(u) + k] = v[k]
  PROVE  u \o v = t
<1>1. /\ u \o v \in Seq(S) /\ Len(u \o v) = Len(u) + Len(v)
      /\ \A k \in 1..(Len(u) + Len(v)) :
           (u \o v)[k] = IF k <= Len(u) THEN u[k] ELSE v[k - Len(u)]
  BY Concatenation
<1>2. ASSUME NEW k \in 1..Len(u \o v) PROVE (u \o v)[k] = t[k]
  <2>1. Len(u) \in Nat /\ Len(v) \in Nat
    OBVIOUS
  <2>2. CASE k <= Len(u)
    BY <1>1, <2>1, <2>2
  <2>3. CASE ~(k <= Len(u))
    <3>1. k - Len(u) \in 1..Len(v) /\ Len(u) + (k - Len(u)) = k
      BY <1>1, <2>1, <2>3
    <3>2. t[k] = v[k - Len(u)]
      BY <3>1
    <3> QED
      BY <1>1, <2>3, <3>2, Zenon
  <2> QED
    BY <2>2, <2>3
<1> QED
  BY <1>1, <1>2

LEMMA Programs ==
  /\ Program["element"] = <<"proof", "fetch">>
  /\ Program["sorted"] = <<"proof", "fetch">>
  /\ Program["value"] = <<"index", "keyproof", "proof", "fetch">>
  /\ Program["valuehash"] = <<"index", "keyproof", "proof">>
  /\ Program["stream"] = <<"index", "keyproof", "proof", "stream">>
  /\ Program["policy"] = <<"preimage">>
  /\ DOMAIN Program = {"element", "sorted", "value", "valuehash", "stream", "policy"}
<1> DEFINE u == <<"index", "keyproof">>
           C == {"index", "keyproof", "proof", "fetch", "stream"}
<1>1. u \in Seq(C) /\ Len(u) = 2 /\ u[1] = "index" /\ u[2] = "keyproof"
  OBVIOUS
<1>2. ASSUME NEW c \in C PROVE u \o <<c>> = <<"index", "keyproof", c>>
  <2> DEFINE v == <<c>>
             t == <<"index", "keyproof", c>>
  <2>1. v \in Seq(C) /\ Len(v) = 1 /\ v[1] = c
    OBVIOUS
  <2>2. t \in Seq(C) /\ Len(t) = 3 /\ t[1] = "index" /\ t[2] = "keyproof" /\ t[3] = c
    OBVIOUS
  <2> HIDE DEF u, v, t, C
  <2>3. Len(t) = Len(u) + Len(v)
    BY <1>1, <2>1, <2>2
  <2>4. /\ \A k \in 1..Len(u) : t[k] = u[k] 
        /\ \A k \in 1..Len(v) : t[Len(u) + k] = v[k]
    BY <1>1, <2>1, <2>2
  <2>5. u \o v = t
    BY <1>1, <2>1, <2>2, <2>3, <2>4, Joined, ZenonT(40)
  <2> QED
    BY <2>5 DEF v, t
<1>3. ASSUME NEW c \in C, NEW d \in C PROVE u \o <<c, d>> = <<"index", "keyproof", c, d>>
  <2> DEFINE v == <<c, d>>
             t == <<"index", "keyproof", c, d>>
  <2>1. v \in Seq(C) /\ Len(v) = 2 /\ v[1] = c /\ v[2] = d
    OBVIOUS
  <2>2. /\ t \in Seq(C) /\ Len(t) = 4
        /\ t[1] = "index" /\ t[2] = "keyproof" /\ t[3] = c /\ t[4] = d
    OBVIOUS
  <2> HIDE DEF u, v, t, C
  <2>3. Len(t) = Len(u) + Len(v)
    BY <1>1, <2>1, <2>2
  <2>4. /\ \A k \in 1..Len(u) : t[k] = u[k]
        /\ \A k \in 1..Len(v) : t[Len(u) + k] = v[k]
    BY <1>1, <2>1, <2>2
  <2>5. u \o v = t
    BY <1>1, <2>1, <2>2, <2>3, <2>4, Joined, ZenonT(40)
  <2> QED
    BY <2>5 DEF v, t
<1>4. /\ Program["element"] = GetMerkleLeafElement
      /\ Program["sorted"] = GetMerkleLeafElement
      /\ Program["value"] = GetMerkleizedMapValue
      /\ Program["valuehash"] = GetMerkleizedMapValueHash
      /\ Program["stream"] = StreamMerkleizedMapValue
      /\ Program["policy"] = <<"preimage">>
      /\ DOMAIN Program = {"element", "sorted", "value", "valuehash", "stream", "policy"}
  BY DEF Program
<1>5. /\ GetMerkleizedMapValue = u \o <<"proof", "fetch">>
      /\ GetMerkleizedMapValueHash = u \o <<"proof">>
      /\ StreamMerkleizedMapValue = u \o <<"proof", "stream">>
  BY DEF GetMerkleLeafElement, GetMerkleLeafIndex, GetMerkleizedMapValue,
     GetMerkleizedMapValueHash, StreamMerkleLeafElement, StreamMerkleizedMapValue
<1>6. "proof" \in C /\ "fetch" \in C /\ "stream" \in C
  OBVIOUS
<1> HIDE DEF C, u
<1> QED
  BY <1>2, <1>3, <1>4, <1>5, <1>6, Zenon DEF GetMerkleLeafElement

LEMMA ProgramFacts ==
  ASSUME NEW l \in AllLookups, NEW s \in 1..Len(Program[l.kind])
  PROVE  Follows(l, s)
<1>1. l.kind \in {"element", "sorted", "value", "valuehash", "stream", "policy"}
  BY Programs DEF AllLookups
<1>2. CASE l.kind \in {"element", "sorted"}
  <2>1. Program[l.kind] = <<"proof", "fetch">>
    BY <1>2, Programs
  <2> QED
    BY <1>2, <2>1 DEF Follows, CallOf, Proofs, Reads, MapKinds
<1>3. CASE l.kind = "value"
  <2>1. Program[l.kind] = <<"index", "keyproof", "proof", "fetch">>
    BY <1>3, Programs
  <2> QED
    BY <1>3, <2>1 DEF Follows, CallOf, Proofs, Reads, MapKinds
<1>4. CASE l.kind = "valuehash"
  <2>1. Program[l.kind] = <<"index", "keyproof", "proof">>
    BY <1>4, Programs
  <2> QED
    BY <1>4, <2>1 DEF Follows, CallOf, Proofs, Reads, MapKinds
<1>5. CASE l.kind = "stream"
  <2>1. Program[l.kind] = <<"index", "keyproof", "proof", "stream">>
    BY <1>5, Programs
  <2> QED
    BY <1>5, <2>1 DEF Follows, CallOf, Proofs, Reads, MapKinds
<1>6. CASE l.kind = "policy"
  <2>1. Program[l.kind] = <<"preimage">>
    BY <1>6, Programs
  <2> QED
    BY <1>6, <2>1 DEF Follows, CallOf, Proofs, Reads, MapKinds
<1> QED
  BY <1>1, <1>2, <1>3, <1>4, <1>5, <1>6
-----------------------------------------------------------------------------
(* How a call of the device ends.                                           *)

\* A step of the device keeps the invariant, and ends the lookup as
\* AbstractLookup allows or leaves it open.
Kept == Inv' /\ (Abstract!Finish \/ UNCHANGED <<world, lookup, outcome>>)

LEMMA WorldFacts ==
  ASSUME NEW w \in Worlds, NEW l, NEW s
  PROVE  /\ w.keys \in Seq(Seq(Nat)) /\ w.values \in Seq(Seq(Nat))
         /\ Len(w.keys) \in Nat /\ Len(w.values) = Len(w.keys)
         /\ TreeOf(w, l, s) \in {w.keys, w.values}
         /\ Len(TreeOf(w, l, s)) = Len(w.keys)
<1>1. /\ w.keys \in Seq(Seq(Nat)) /\ w.values \in Seq(Seq(Nat))
      /\ Len(w.values) = Len(w.keys)
  BY WorldsAssumption
<1>2. TreeOf(w, l, s) \in {w.keys, w.values}
  BY DEF TreeOf
<1> QED
  BY <1>1, <1>2

\* The locals that a call does not use may change.
LEMMA ReadyKeeps ==
  ASSUME NEW w, NEW l, NEW s, NEW r, NEW q, Ready(w, l, s, r),
         DOMAIN q = Fields, q.index = r.index, q.prev = r.prev,
         CallOf(l, s) \in {"fetch", "stream"} => q.leaf = r.leaf
  PROVE  Ready(w, l, s, q)
BY DEF Ready

LEMMA ReturnStep ==
  ASSUME Inv, msg # NoMsg, UNCHANGED <<world, queue>>, NEW v, Return(v),
         v \in {Failed, Committed(world, lookup)},
         v # Failed /\ lookup.kind = "sorted" => StrictlySorted(world.keys)
  PROVE  Kept
<1>1. /\ world' = world /\ queue' = queue /\ lookup' = lookup /\ client' = client
      /\ msg' = NoMsg /\ outcome' = v
      /\ checked' = (checked \/ (v # Failed /\ lookup.kind = "sorted"))
  BY DEF Return
<1>2. client = "up" /\ outcome = None /\ lookup \in AllLookups
  BY DEF Inv, Ready
<1>3. lookup # None
  BY <1>2, NoneAssumption
<1>4. checked' \in BOOLEAN /\ (checked' => StrictlySorted(world.keys))
  <2>1. checked \in BOOLEAN /\ (checked => StrictlySorted(world.keys))
    BY DEF Inv
  <2> QED
    BY <1>1, <2>1, Zenon
<1>5. Inv'
  <2>1. world \in Worlds /\ queue \in Seq(Items(world))
    BY DEF Inv
  <2> QED
    BY <1>1, <1>2, <1>4, <2>1 DEF Inv
<1>6. Abstract!Finish
  BY <1>1, <1>2, <1>3 DEF Abstract!Finish
<1> QED
  BY <1>5, <1>6 DEF Kept

\* The step starts or goes on with call s, whose message is in flight.
LEMMA GoOnStep ==
  ASSUME Inv, msg # NoMsg, UNCHANGED <<world, queue, lookup, outcome, client, checked>>,
         NEW s, NEW r, step' = s, reg' = r, Ready(world, lookup, s, r),
         NEW m, msg' = m, InCall(world, lookup, s, r, m)
  PROVE  Kept
<1>1. /\ world' = world /\ queue' = queue /\ lookup' = lookup /\ client' = client
      /\ outcome' = outcome /\ checked' = checked
  OBVIOUS
<1>2. client = "up" /\ outcome = None /\ lookup \in AllLookups
  BY DEF Inv, Ready
<1>3. /\ world \in Worlds /\ queue \in Seq(Items(world))
      /\ checked \in BOOLEAN /\ (checked => StrictlySorted(world.keys))
  BY DEF Inv
<1>4. Inv'
  BY <1>1, <1>2, <1>3 DEF Inv
<1> QED
  BY <1>4 DEF Kept

LEMMA EnterStep ==
  ASSUME Inv, msg # NoMsg, UNCHANGED <<world, queue>>, NEW s, NEW r, Enter(s, r),
         Ready(world, lookup, s, r)
  PROVE  Kept
<1> DEFINE m == Ask(lookup, CallOf(lookup, s), r)
<1>1. /\ step' = s /\ reg' = r /\ msg' = m
      /\ UNCHANGED <<world, queue, lookup, outcome, client, checked>>
  BY DEF Enter, CallOf
<1>2. InCall(world, lookup, s, r, m)
  <2> DEFINE c == CallOf(lookup, s)
  <2>1. c \in {"index"} \cup Proofs \cup Reads
    BY ProgramFacts DEF Ready, Follows
  <2>2. \/ c = "index" /\ m.t = "get_index"
        \/ c \in Proofs /\ m.t = "get_proof"
        \/ c \in Reads /\ m.t = "get_preimage"
    <3> HIDE DEF c
    <3>1. m = Ask(lookup, c, r)
      BY DEF c
    <3> HIDE DEF m
    <3> QED
      BY <2>1, <3>1 DEF Proofs, Reads, Ask
  <2> HIDE DEF m
  <2> QED
    BY <2>2 DEF InCall
<1> HIDE DEF m
<1> QED
  BY <1>1, <1>2, GoOnStep

LEMMA AskMoreStep ==
  ASSUME Inv, msg # NoMsg, UNCHANGED <<world, queue>>, NEW r, AskMore(r),
         Ready(world, lookup, step, r),
         \/ CallOf(lookup, step) \in Proofs /\ Climbing(world, lookup, step, r)
         \/ CallOf(lookup, step) \in {"stream", "preimage"} /\ Bytes(world, lookup, step, r)
  PROVE  Kept
<1>1. /\ step' = step /\ reg' = r /\ msg' = More
      /\ UNCHANGED <<world, queue, lookup, outcome, client, checked>>
  BY DEF AskMore
<1>2. InCall(world, lookup, step, r, More)
  <2>1. More.t = "get_more"
    BY DEF More
  <2> QED
    BY <2>1 DEF InCall
<1> QED
  BY <1>1, <1>2, GoOnStep

\* What a call has established when its last check has passed.
Done(w, l, s, r) ==
  /\ CallOf(l, s) # "index"
  /\ CallOf(l, s) \in Proofs => r.leaf = Leaf(TreeOf(w, l, s)[r.index + 1])
  /\ CallOf(l, s) = "keyproof" => r.leaf = Leaf(Key(w, l.at))
  /\ CallOf(l, s) \in {"fetch", "stream"} => r.out = TreeOf(w, l, s)[r.index + 1]
  /\ CallOf(l, s) = "preimage" => r.out = w.policy

\* A proof that has been checked is what the next call needs.
LEMMA NextReady ==
  ASSUME NEW w \in Worlds, NEW l, NEW s, NEW r, Ready(w, l, s, r), Done(w, l, s, r),
         s < Len(Program[l.kind])
  PROVE  Ready(w, l, s + 1, r)
<1> DEFINE n == Len(Program[l.kind])
           c == CallOf(l, s)
           d == CallOf(l, s + 1)
<1>1. l \in AllLookups /\ s \in 1..n /\ Follows(l, s)
  BY ProgramFacts DEF Ready
<1>2. n \in Nat /\ s + 1 \in 1..n
  BY <1>1 DEF Follows
<1>3. CASE c = "keyproof"
  <2>1. l.kind \in MapKinds /\ d = "proof"
    BY <1>1, <1>3 DEF Follows
  <2>2. l.kind \notin {"element", "sorted"}
    BY <2>1 DEF MapKinds
  <2>3. w.keys[r.index + 1] = Key(w, l.at)
    <3>1. TreeOf(w, l, s) = w.keys
      BY <1>3 DEF TreeOf
    <3>2. Leaf(w.keys[r.index + 1]) = Leaf(Key(w, l.at))
      BY <1>3, <3>1 DEF Done, Proofs
    <3> QED
      BY <3>2, LeafInjective
  <2>4. DOMAIN r = Fields /\ r.index \in Nat /\ r.index < Len(w.keys) /\ StrictlySorted(w.keys)
    BY <1>3, <2>1 DEF Ready, Proofs
  <2>5. d \notin {"fetch", "stream"}
    BY <2>1, Zenon
  <2> HIDE DEF n
  <2> QED
    BY <1>1, <1>2, <2>2, <2>3, <2>4, <2>5 DEF Ready, n
<1>4. CASE c = "proof"
  <2>1. d \in {"fetch", "stream"} /\ l.kind # "policy"
    BY <1>1, <1>4 DEF Follows
  <2>2. TreeOf(w, l, s + 1) = TreeOf(w, l, s)
    BY <1>4, <2>1 DEF TreeOf
  <2>3. r.leaf = Leaf(TreeOf(w, l, s + 1)[r.index + 1])
    BY <1>4, <2>2 DEF Done, Proofs
  <2> HIDE DEF n
  <2> QED
    BY <1>1, <1>2, <1>4, <2>1, <2>3 DEF Ready, n, Proofs
<1>5. c \in Proofs
  <2>1. s # n
    BY <1>1, <1>2
  <2> QED
    BY <1>1, <2>1 DEF Follows, Done, Reads
<1> QED
  BY <1>3, <1>4, <1>5, Zenon DEF Proofs

\* The index at which a value is read is the one of its key.
LEMMA IndexIs ==
  ASSUME NEW w \in Worlds, NEW l, NEW s, NEW r, Ready(w, l, s, r),
         l.kind \in {"element"} \cup MapKinds, CallOf(l, s) \in {"proof", "fetch", "stream"}
  PROVE  r.index = l.at /\ l.at < Len(w.values)
<1>1. /\ w.keys \in Seq(Seq(Nat)) /\ Len(w.keys) \in Nat /\ Len(w.values) = Len(w.keys)
      /\ \A k \in 1..Len(w.keys) : w.keys[k] # AbsentKey
  BY WorldFacts, WorldsAssumption
<1>2. r.index \in Nat /\ r.index < Len(w.keys) /\ l.at \in Nat
  BY DEF Ready, Proofs, AllLookups
<1>3. CASE l.kind = "element"
  <2>1. r.index = l.at
    BY <1>3 DEF Ready
  <2> QED
    BY <1>1, <1>2, <2>1
<1>4. CASE l.kind \in MapKinds
  <2>1. StrictlySorted(w.keys) /\ w.keys[r.index + 1] = Key(w, l.at)
    BY <1>4 DEF Ready
  <2>2. r.index + 1 \in 1..Len(w.keys)
    BY <1>1, <1>2
  <2>3. l.at < Len(w.keys) /\ w.keys[r.index + 1] = w.keys[l.at + 1]
    BY <1>1, <2>1, <2>2, Zenon DEF Key
  <2>4. l.at + 1 \in 1..Len(w.keys)
    BY <1>1, <1>2, <2>3
  <2>5. r.index + 1 = l.at + 1
    BY <1>1, <2>1, <2>2, <2>3, <2>4, SortedOnce
  <2> QED
    <3> DEFINE i == r.index
               n == Len(w.keys)
    <3>1. i \in Nat /\ l.at \in Nat /\ i + 1 = l.at + 1
      BY <1>2, <2>5, Zenon
    <3>2. l.at < n /\ n = Len(w.values)
      BY <1>1, <2>3, Zenon
    <3> HIDE DEF i, n
    <3>3. i = l.at
      BY <3>1
    <3> QED
      BY <3>2, <3>3, Zenon DEF i, n
<1> QED
  BY <1>3, <1>4, Zenon

\* A lookup that ends has found the committed data.
LEMMA FoundCommitted ==
  ASSUME NEW w \in Worlds, NEW l, NEW s, NEW r, Ready(w, l, s, r), Done(w, l, s, r),
         ~(s < Len(Program[l.kind])), l.kind # "sorted"
  PROVE  Committed(w, l) = IF l.kind = "valuehash" THEN r.leaf ELSE r.out
<1> DEFINE n == Len(Program[l.kind])
           c == CallOf(l, s)
<1>1. l \in AllLookups /\ s \in 1..n /\ Follows(l, s)
  BY ProgramFacts DEF Ready
<1>2. s = n
  <2>1. n \in Nat /\ s \in 1..n /\ ~(s < n)
    BY <1>1, Zenon DEF Follows
  <2> HIDE DEF n
  <2> QED
    BY <2>1
<1>4. CASE c = "preimage"
  <2>1. l.kind = "policy" /\ r.out = w.policy
    BY <1>1, <1>4, Zenon DEF Follows, Done
  <2> QED
    BY <2>1, Zenon DEF Committed
<1>5. CASE c \in {"proof", "fetch", "stream"}
  <2>1. /\ l.kind \in {"element", "value", "stream", "valuehash"}
        /\ c = "proof" <=> l.kind = "valuehash"
    BY <1>1, <1>2, <1>5 DEF Follows
  <2>3. TreeOf(w, l, s) = w.values
    BY <1>5, <2>1 DEF TreeOf
  <2>4. r.index = l.at /\ l.at < Len(w.values)
    BY <1>5, <2>1, IndexIs DEF MapKinds
  <2>6. IF c = "proof" THEN r.leaf = Leaf(w.values[l.at + 1]) ELSE r.out = w.values[l.at + 1]
    BY <1>5, <2>3, <2>4 DEF Done, Proofs
  <2> QED
    BY <2>1, <2>4, <2>6, Zenon DEF Committed
<1> QED
  BY <1>1, <1>2, <1>4, <1>5, Zenon DEF Follows, Done, Proofs, Reads

LEMMA NoRegFacts ==
  ASSUME NEW i, NEW p
  PROVE  LET q == [NoReg EXCEPT !.index = i, !.prev = p]
         IN  DOMAIN q = Fields /\ q.index = i /\ q.prev = p
BY DEF NoReg, Fields

\* The loop body of call_check_merkle_tree_sorted has found the next key in order.
LEMMA NextKeyReady ==
  ASSUME world \in Worlds, lookup.kind = "sorted", Ready(world, lookup, step, reg),
         reg.index < Size, NEW el, el = world.keys[reg.index + 1],
         ~(reg.index > 0 /\ CompareByteArrays(reg.prev, el) >= 0)
  PROVE  /\ reg.index + 1 = Size => StrictlySorted(world.keys)
         /\ reg.index + 1 # Size =>
              Ready(world, lookup, 1, [NoReg EXCEPT !.index = reg.index + 1, !.prev = el])
<1> DEFINE n == Size
           i == reg.index
           q == [NoReg EXCEPT !.index = reg.index + 1, !.prev = el]
<1>2. /\ world.keys \in Seq(Seq(Nat)) /\ n \in Nat /\ i \in Nat /\ i < n
      /\ \A k \in 1..n : world.keys[k] \in Seq(Nat)
  BY WorldFacts DEF Ready, Size
<1>3. lookup \in AllLookups /\ Ordered(world, i) /\ (i > 0 => reg.prev = world.keys[i])
  BY DEF Ready
<1>4. Ordered(world, i + 1)
  <2> SUFFICES ASSUME NEW k \in 1..i PROVE Below(world.keys[k], world.keys[k + 1])
    BY <1>2, SMTT(30) DEF Ordered
  <2>1. CASE k = i
    <3>1. i > 0 /\ i \in 1..n /\ i + 1 \in 1..n
      BY <1>2, <2>1
    <3>2. world.keys[i] \in Seq(Nat) /\ el \in Seq(Nat) /\ reg.prev = world.keys[i]
      BY <1>2, <1>3, <3>1
    <3>3. ~(CompareByteArrays(reg.prev, el) >= 0)
      BY <3>1
    <3>4. Below(world.keys[i], el)
      BY <3>2, <3>3, CompareSound
    <3> QED
      BY <2>1, <3>4
  <2>2. CASE k # i
    <3>1. k \in 1..(i - 1)
      BY <1>2, <2>2
    <3> QED
      BY <1>3, <3>1 DEF Ordered
  <2> QED
    BY <2>1, <2>2
<1>5. ASSUME i + 1 = n PROVE StrictlySorted(world.keys)
  BY <1>2, <1>4, <1>5, NeighboursSort DEF Size
<1>6. ASSUME i + 1 # n PROVE Ready(world, lookup, 1, q)
  <2>1. DOMAIN q = Fields /\ q.index = i + 1 /\ q.prev = el
    BY NoRegFacts
  <2> HIDE DEF q
  <2>2. /\ 1 \in 1..Len(Program["sorted"]) /\ CallOf(lookup, 1) = "proof"
    BY Programs DEF CallOf
  <2>3. i + 1 \in Nat /\ i + 1 < n /\ i + 1 > 0
    BY <1>2, <1>6
  <2> QED
    BY <1>3, <1>4, <2>1, <2>2, <2>3, Zenon DEF Ready, MapKinds, Size
<1> QED
  BY <1>5, <1>6, Zenon

LEMMA NextKeyStep ==
  ASSUME Inv, msg # NoMsg, UNCHANGED <<world, queue>>, NEW el, NextKey(el),
         lookup.kind = "sorted", Ready(world, lookup, step, reg), reg.index < Size,
         el = world.keys[reg.index + 1]
  PROVE  Kept
<1> DEFINE q == [NoReg EXCEPT !.index = reg.index + 1, !.prev = el]
<1>1. world \in Worlds
  BY Zenon DEF Inv
<1>2. \/ Return(Failed)
      \/ /\ ~(reg.index > 0 /\ CompareByteArrays(reg.prev, el) >= 0)
         /\ IF reg.index + 1 = Size THEN Return("sorted") ELSE Enter(1, q)
  BY Zenon DEF NextKey
<1>3. CASE Return(Failed)
  BY <1>3, ReturnStep, Zenon
<1>4. CASE /\ ~(reg.index > 0 /\ CompareByteArrays(reg.prev, el) >= 0)
           /\ IF reg.index + 1 = Size THEN Return("sorted") ELSE Enter(1, q)
  <2>1. /\ reg.index + 1 = Size => StrictlySorted(world.keys)
        /\ reg.index + 1 # Size => Ready(world, lookup, 1, q)
    BY <1>1, <1>4, NextKeyReady, Zenon
  <2> HIDE DEF q
  <2>2. CASE reg.index + 1 = Size
    <3>1. StrictlySorted(world.keys) /\ Committed(world, lookup) = "sorted"
      BY <2>1, <2>2 DEF Committed
    <3> QED
      BY <1>4, <2>2, <3>1, ReturnStep
  <2>3. CASE reg.index + 1 # Size
    BY <1>4, <2>1, <2>3, EnterStep
  <2> QED
    BY <2>2, <2>3, Zenon
<1> QED
  BY <1>2, <1>3, <1>4

LEMMA FinishStep ==
  ASSUME Inv, msg # NoMsg, UNCHANGED <<world, queue>>, NEW r, Finish(r),
         Ready(world, lookup, step, r), Done(world, lookup, step, r),
         r.index = reg.index
  PROVE  Kept
<1>1. world \in Worlds /\ Ready(world, lookup, step, reg)
  BY DEF Inv
<1>2. CASE step < Len(Program[lookup.kind])
  <2>1. Ready(world, lookup, step + 1, r)
    BY <1>1, <1>2, NextReady
  <2>2. Enter(step + 1, r)
    BY <1>2 DEF Finish
  <2> QED
    BY <2>1, <2>2, EnterStep
<1>3. CASE ~(step < Len(Program[lookup.kind])) /\ lookup.kind = "sorted"
  <2>1. NextKey(r.out)
    BY <1>3, Zenon DEF Finish
  <2>2. CallOf(lookup, step) \in {"fetch", "stream"}
    <3>1. Follows(lookup, step) /\ step \in 1..Len(Program[lookup.kind])
      BY <1>1, ProgramFacts, Zenon DEF Ready
    <3>2. step = Len(Program[lookup.kind])
      <4> DEFINE n == Len(Program[lookup.kind])
      <4>1. n \in Nat /\ step \in 1..n /\ ~(step < n)
        BY <1>3, <3>1, Zenon DEF Follows
      <4> HIDE DEF n
      <4>2. step = n
        BY <4>1
      <4> QED
        BY <4>2 DEF n
    <3> QED
      BY <1>3, <3>1, <3>2, Zenon DEF Follows, Done, MapKinds, Proofs, Reads
  <2>3. TreeOf(world, lookup, step) = world.keys
    BY <1>3, Zenon DEF TreeOf
  <2>4. r.out = world.keys[reg.index + 1] /\ reg.index < Size
    BY <1>1, <2>2, <2>3, Zenon DEF Done, Ready, Size
  <2> QED
    BY <1>1, <1>3, <2>1, <2>4, NextKeyStep
<1>4. CASE ~(step < Len(Program[lookup.kind])) /\ lookup.kind # "sorted"
  <2> DEFINE v == IF lookup.kind = "valuehash" THEN r.leaf ELSE r.out
  <2>1. Return(v)
    BY <1>4 DEF Finish
  <2>2. v = Committed(world, lookup)
    BY <1>1, <1>4, FoundCommitted
  <2> HIDE DEF v
  <2> QED
    BY <1>4, <2>1, <2>2, ReturnStep
<1> QED
  BY <1>2, <1>3, <1>4
-----------------------------------------------------------------------------
(* The checks of the device.                                                *)

LEMMA TreeIs ==
  ASSUME lookup \in AllLookups
  PROVE  Tree = TreeOf(world, lookup, step) /\ Call = CallOf(lookup, step)
BY DEF Tree, TreeOf, InKeys, Call, CallOf

\* The last hash has been computed.
LEMMA ProofCheckedStep ==
  ASSUME Inv, msg # NoMsg, UNCHANGED <<world, queue>>, NEW r, ProofChecked(r),
         Ready(world, lookup, step, r), CallOf(lookup, step) \in Proofs,
         r.index = reg.index,
         r.cur = Root(TreeOf(world, lookup, step)) =>
           r.leaf = Leaf(TreeOf(world, lookup, step)[r.index + 1])
  PROVE  Kept
<1>1. Tree = TreeOf(world, lookup, step) /\ Call = CallOf(lookup, step)
  BY TreeIs DEF Ready
<1>2. \/ Return(Failed)
      \/ /\ r.cur = Root(Tree)
         /\ Call = "keyproof" => r.leaf = Leaf(Key(world, lookup.at))
         /\ Finish(r)
  BY Zenon DEF ProofChecked
<1>3. CASE Return(Failed)
  BY <1>3, ReturnStep
<1>4. CASE /\ r.cur = Root(Tree)
           /\ Call = "keyproof" => r.leaf = Leaf(Key(world, lookup.at))
           /\ Finish(r)
  <2>1. Done(world, lookup, step, r)
    BY <1>1, <1>4, Zenon DEF Done, Proofs
  <2> QED
    BY <1>4, <2>1, FinishStep, Zenon
<1> QED
  BY <1>2, <1>3, <1>4

\* The siblings of one response have been combined.
LEMMA ClimbStep ==
  ASSUME Inv, msg # NoMsg, UNCHANGED <<world, queue>>, NEW r, NEW els, ClimbWith(r, els),
         Ready(world, lookup, step, r), CallOf(lookup, step) \in Proofs,
         Climbing(world, lookup, step, r), r.index = reg.index, r.prev = reg.prev,
         Len(els) \in Nat, r.pos + Len(els) <= r.size
  PROVE  Kept
<1> DEFINE tree == TreeOf(world, lookup, step)
           cur == Climb(Size, r.index, r.cur, r.pos, r.size, els)
           pos == r.pos + Len(els)
           next == [r EXCEPT !.cur = cur, !.pos = pos]
<1>1. /\ world \in Worlds /\ r.index \in Nat /\ r.index < Len(world.keys) /\ DOMAIN r = Fields
      /\ r.size \in Nat /\ r.pos \in 0..r.size
  BY Zenon DEF Inv, Ready, Climbing
<1>2. Len(tree) \in Nat /\ Len(tree) = Size /\ r.index \in 0..(Len(tree) - 1)
  <2>1. Len(tree) = Len(world.keys) /\ Len(world.keys) \in Nat
    BY <1>1, WorldFacts
  <2> QED
    BY <1>1, <2>1 DEF Size
<1>3. /\ DOMAIN next = Fields /\ next.cur = cur /\ next.pos = pos /\ next.size = r.size
      /\ next.index = r.index /\ next.leaf = r.leaf /\ next.prev = r.prev
  BY <1>1 DEF Fields
<1>4. IF cur = Bad THEN Return(Failed)
      ELSE IF pos = r.size THEN ProofChecked(next) ELSE AskMore(next)
  <2>1. IF next.cur = Bad THEN Return(Failed)
        ELSE IF next.pos = r.size THEN ProofChecked(next) ELSE AskMore(next)
    BY DEF ClimbWith
  <2> HIDE DEF next, cur, pos
  <2> QED
    BY <1>3, <2>1, Zenon
<1>5. pos \in 0..r.size /\ r.size - pos \in Nat
  BY <1>1
<1>6. cur # Bad /\ cur = Along(tree, r.index, r.size - pos) => r.leaf = Leaf(tree[r.index + 1])
  <2> SUFFICES ASSUME cur # Bad, cur = Along(tree, r.index, r.size - pos)
               PROVE  r.leaf = Leaf(tree[r.index + 1])
    OBVIOUS
  <2>1. r.cur = Along(tree, r.index, r.size - r.pos)
    <3>1. r.pos \in Nat
      BY <1>1
    <3> HIDE DEF tree
    <3> QED
      BY <1>1, <1>2, <3>1, ClimbSound, ZenonT(40)
  <2> QED
    BY <2>1, Zenon DEF Climbing
<1> HIDE DEF next, cur, tree
<1>7. Ready(world, lookup, step, next)
  <2>1. CallOf(lookup, step) \notin {"fetch", "stream"}
    BY Zenon DEF Proofs
  <2> QED
    BY <1>3, <2>1, ReadyKeeps
<1>8. CASE cur = Bad
  BY <1>4, <1>8, ReturnStep, Zenon
<1>9. CASE cur # Bad /\ pos = r.size
  <2>1. Along(tree, r.index, 0) = Root(tree) /\ r.size - pos = 0
    BY <1>1, <1>2, <1>9, AlongRoot
  <2>2. next.cur = Root(tree) => next.leaf = Leaf(tree[next.index + 1])
    BY <1>3, <1>6, <1>9, <2>1
  <2>3. ProofChecked(next) /\ next.index = reg.index
    BY <1>3, <1>4, <1>9
  <2> HIDE DEF pos
  <2> QED
    BY <1>7, <2>2, <2>3, ProofCheckedStep DEF tree
<1>10. CASE cur # Bad /\ pos # r.size
  <2>1. Climbing(world, lookup, step, next)
    BY <1>1, <1>3, <1>5, <1>6, <1>10 DEF Climbing, tree
  <2>2. AskMore(next)
    BY <1>4, <1>10
  <2> HIDE DEF pos
  <2> QED
    BY <1>7, <2>1, <2>2, AskMoreStep, Zenon
<1> QED
  BY <1>8, <1>9, <1>10, Zenon

\* Bytes with the right hash are the committed ones.
LEMMA HashDone ==
  ASSUME NEW w \in Worlds, NEW l, NEW s, NEW r, Ready(w, l, s, r), CallOf(l, s) \in Reads,
         Bytes(w, l, s, r), Sha(r.hashed) = r.want
  PROVE  Done(w, l, s, r)
<1> DEFINE tree == TreeOf(w, l, s)
           c == CallOf(l, s)
<1>1. CASE c \in {"fetch", "stream"}
  <2>1. /\ r.leaf = Leaf(tree[r.index + 1]) /\ r.want = r.leaf /\ r.out = Tail(r.hashed)
        /\ r.hashed \in Seq(Nat)
    BY <1>1 DEF Ready, Bytes
  <2>2. r.out = tree[r.index + 1]
    BY <2>1, ShaFacts, ZenonT(40)
  <2> QED
    BY <1>1, <2>2 DEF Done, Proofs
<1>2. CASE c = "preimage"
  <2>1. w.policy \in Seq(Nat) /\ Len(w.policy) <= OutLen
    BY WorldsAssumption, PoliciesFit
  <2>2. /\ r.hashed \in Seq(Nat) /\ r.want = Sha(w.policy)
        /\ Len(r.hashed) <= OutLen => r.out = r.hashed
    BY <1>2, Zenon DEF Bytes
  <2>3. r.hashed = w.policy
    BY <2>1, <2>2, ShaFacts, Zenon
  <2> QED
    BY <1>2, <2>1, <2>2, <2>3 DEF Done, Proofs
<1> QED
  BY <1>1, <1>2 DEF Reads

\* The bytes of one response have been hashed.
LEMMA HashStep ==
  ASSUME Inv, msg # NoMsg, UNCHANGED <<world, queue>>, NEW r, HashChecked(r),
         Ready(world, lookup, step, r), CallOf(lookup, step) \in Reads,
         Bytes(world, lookup, step, r), r.index = reg.index
  PROVE  Kept
<1> DEFINE c == CallOf(lookup, step)
<1>1. \/ r.left > 0 /\ AskMore(r)
      \/ Return(Failed)
      \/ Sha(r.hashed) = r.want /\ Finish(r)
  BY Zenon DEF HashChecked
<1>2. CASE r.left > 0 /\ AskMore(r)
  <2>1. c \in {"stream", "preimage"}
    BY <1>2 DEF Reads, Bytes
  <2> QED
    BY <1>2, <2>1, AskMoreStep
<1>3. CASE Return(Failed)
  BY <1>3, ReturnStep
<1>4. CASE Sha(r.hashed) = r.want /\ Finish(r)
  <2>1. world \in Worlds
    BY DEF Inv
  <2>2. Done(world, lookup, step, r)
    BY <1>4, <2>1, HashDone
  <2> QED
    BY <1>4, <2>2, FinishStep, Zenon
<1> QED
  BY <1>1, <1>2, <1>3, <1>4
-----------------------------------------------------------------------------
(* The responses that the device processes.                                 *)

\* A response belongs to the call that asked for it.
LEMMA InFlight ==
  ASSUME Inv, msg # NoMsg
  PROVE  /\ world \in Worlds /\ Ready(world, lookup, step, reg)
         /\ InCall(world, lookup, step, reg, msg)
         /\ lookup \in AllLookups /\ step \in 1..Len(Program[lookup.kind])
         /\ DOMAIN reg = Fields /\ Follows(lookup, step)
         /\ Call = CallOf(lookup, step) /\ Tree = TreeOf(world, lookup, step)
<1>1. world \in Worlds /\ Ready(world, lookup, step, reg) /\ InCall(world, lookup, step, reg, msg)
  BY DEF Inv
<1>2. lookup \in AllLookups /\ step \in 1..Len(Program[lookup.kind]) /\ DOMAIN reg = Fields
  BY <1>1 DEF Ready
<1> QED
  BY <1>1, <1>2, ProgramFacts, TreeIs

LEMMA GotIndexStep ==
  ASSUME Inv, GotIndex
  PROVE  Kept
<1>1. msg # NoMsg /\ msg.t = "index" /\ UNCHANGED <<world, queue>>
  BY Zenon DEF GotIndex, Receives
<1>2. CallOf(lookup, step) = "index" /\ (msg.found # 0 => msg.at \in 0..(Len(world.keys) - 1))
  BY <1>1, InFlight DEF InCall
<1> DEFINE q == [reg EXCEPT !.index = msg.at]
<1>3. CASE Return(Failed)
  BY <1>1, <1>3, ReturnStep
<1>4. CASE msg.found # 0 /\ Enter(step + 1, q)
  <2>1. DOMAIN q = Fields /\ q.index = msg.at
    BY <1>1, InFlight DEF Fields
  <2>2. /\ lookup.kind \in MapKinds /\ CallOf(lookup, step + 1) = "keyproof"
        /\ step + 1 \in 1..Len(Program[lookup.kind])
    BY <1>1, <1>2, InFlight DEF Follows
  <2>3. StrictlySorted(world.keys) /\ lookup \in AllLookups
    BY <1>1, <2>2, InFlight DEF Ready
  <2>4. msg.at \in Nat /\ msg.at < Len(world.keys)
    <3>1. Len(world.keys) \in Nat
      BY <1>1, InFlight, WorldFacts
    <3> QED
      BY <1>2, <1>4, <3>1
  <2> HIDE DEF q
  <2>5. Ready(world, lookup, step + 1, q)
    BY <2>1, <2>2, <2>3, <2>4, Zenon DEF Ready, MapKinds, Proofs
  <2> QED
    BY <1>1, <1>4, <2>5, EnterStep
<1> QED
  BY <1>3, <1>4 DEF GotIndex

\* The locals after the first part of a proof.
LEMMA ProofReady ==
  ASSUME Inv, msg # NoMsg, msg.t = "proof", NEW r, DOMAIN r = Fields, r.leaf = msg.leaf,
         r.cur = msg.leaf, r.pos = 0, r.size = msg.size, r.index = reg.index, r.prev = reg.prev
  PROVE  Ready(world, lookup, step, r) /\ Climbing(world, lookup, step, r)
<1> DEFINE tree == TreeOf(world, lookup, step)
<1>2. /\ CallOf(lookup, step) \in Proofs
      /\ \E k \in 1..Len(world.keys) : msg.leaf \in {Leaf(world.keys[k]), Leaf(world.values[k])}
      /\ msg.size \in Nat /\ Len(msg.els) \in Nat /\ Len(msg.els) <= msg.size
  BY InFlight DEF InCall
<1>4. Ready(world, lookup, step, r)
  <2>1. CallOf(lookup, step) \notin {"fetch", "stream"} /\ Ready(world, lookup, step, reg)
    BY <1>2, InFlight DEF Proofs
  <2> QED
    BY <2>1, ReadyKeeps, Zenon
<1>5. Climbing(world, lookup, step, r)
  <2> SUFFICES ASSUME msg.leaf = Along(tree, reg.index, msg.size)
               PROVE  msg.leaf = Leaf(tree[reg.index + 1])
    BY <1>2 DEF Climbing
  <2>1. PICK el : msg.leaf = Leaf(el)
    BY <1>2, Zenon
  <2>2. Len(tree) = Len(world.keys) /\ Len(world.keys) \in Nat
    BY InFlight, WorldFacts, Zenon
  <2>3. reg.index \in Nat /\ reg.index < Len(world.keys)
    BY <1>2, InFlight DEF Ready
  <2>4. Len(tree) \in Nat /\ reg.index \in 0..(Len(tree) - 1)
    BY <2>2, <2>3
  <2>5. el = tree[reg.index + 1]
    <3> HIDE DEF tree
    <3> QED
      BY <1>2, <2>1, <2>4, AlongLeaf, ZenonT(40)
  <2> QED
    BY <2>1, <2>5, Zenon
<1> QED
  BY <1>4, <1>5

LEMMA GotProofStep ==
  ASSUME Inv, GotProof
  PROVE  Kept
<1> DEFINE r == [reg EXCEPT !.leaf = msg.leaf, !.cur = msg.leaf, !.pos = 0, !.size = msg.size]
<1>1. msg # NoMsg /\ msg.t = "proof" /\ UNCHANGED <<world, queue>> /\ ClimbWith(r, msg.els)
  BY DEF GotProof, Receives
<1>2. /\ CallOf(lookup, step) \in Proofs
      /\ msg.size \in Nat /\ Len(msg.els) \in Nat /\ Len(msg.els) <= msg.size
  BY <1>1, InFlight DEF InCall
<1>3. /\ DOMAIN r = Fields /\ r.leaf = msg.leaf /\ r.cur = msg.leaf /\ r.pos = 0
      /\ r.size = msg.size /\ r.index = reg.index /\ r.prev = reg.prev
  BY <1>1, InFlight DEF Fields
<1> HIDE DEF r
<1>4. Ready(world, lookup, step, r) /\ Climbing(world, lookup, step, r)
  BY <1>1, <1>3, ProofReady, Zenon
<1>5. r.pos + Len(msg.els) <= r.size
  BY <1>2, <1>3
<1> QED
  BY <1>1, <1>2, <1>3, <1>4, <1>5, ClimbStep

\* A response with more elements comes in the middle of a call.
LEMMA MoreInFlight ==
  ASSUME Inv, msg # NoMsg, msg.t = "elements"
  PROVE  /\ Len(msg.els) \in Nat /\ (msg.elen = 1 => msg.els \in Seq(Nat))
         /\ \/ CallOf(lookup, step) \in Proofs /\ Climbing(world, lookup, step, reg)
            \/ CallOf(lookup, step) \in {"stream", "preimage"} /\ Bytes(world, lookup, step, reg)
BY InFlight DEF InCall

LEMMA GotMoreProofStep ==
  ASSUME Inv, GotMoreProof
  PROVE  Kept
<1>1. /\ msg # NoMsg /\ msg.t = "elements" /\ UNCHANGED <<world, queue>> /\ Call \in Proofs
      /\ \/ Return(Failed)
         \/ ~(reg.pos + Len(msg.els) > reg.size) /\ ClimbWith(reg, msg.els)
  BY DEF GotMoreProof, Receives, Proofs
<1>2. CASE Return(Failed)
  BY <1>1, <1>2, ReturnStep
<1>3. CASE ~(reg.pos + Len(msg.els) > reg.size) /\ ClimbWith(reg, msg.els)
  <2>1. CallOf(lookup, step) \in Proofs /\ Ready(world, lookup, step, reg)
    BY <1>1, InFlight
  <2>2. Len(msg.els) \in Nat /\ Climbing(world, lookup, step, reg)
    BY <1>1, <2>1, MoreInFlight DEF Proofs
  <2>3. reg.pos + Len(msg.els) <= reg.size
    BY <1>3, <2>2 DEF Climbing
  <2> QED
    BY <1>1, <1>3, <2>1, <2>2, <2>3, ClimbStep
<1> QED
  BY <1>1, <1>2, <1>3

\* The locals after the first bytes of a preimage.
LEMMA FirstBytesFacts ==
  ASSUME Inv, msg # NoMsg, msg.t = "preimage", NEW want, NEW out,
         CallOf(lookup, step) = "fetch" => msg.len - 1 <= OutLen,
         CallOf(lookup, step) \in {"fetch", "stream"} => want = reg.leaf /\ out = Tail(msg.els),
         CallOf(lookup, step) = "preimage" =>
           want = Sha(world.policy) /\ (Len(msg.els) <= OutLen => out = msg.els)
  PROVE  LET r == [reg EXCEPT !.want = want, !.hashed = msg.els, !.len = msg.len,
                              !.left = msg.len - Len(msg.els), !.out = out]
         IN  /\ CallOf(lookup, step) \in Reads
             /\ Ready(world, lookup, step, r) /\ Bytes(world, lookup, step, r)
             /\ r.index = reg.index /\ r.want = want /\ r.hashed = msg.els
             /\ r.left = msg.len - Len(msg.els)
<1> DEFINE r == [reg EXCEPT !.want = want, !.hashed = msg.els, !.len = msg.len,
                            !.left = msg.len - Len(msg.els), !.out = out]
<1>1. /\ CallOf(lookup, step) \in Reads
      /\ msg.els \in Seq(Nat) /\ msg.els # <<>> /\ msg.len \in Nat /\ Len(msg.els) <= msg.len
      /\ msg.len <= OutLen + 1 => Len(msg.els) = msg.len
  BY InFlight DEF InCall
<1>2. /\ DOMAIN r = Fields /\ r.want = want /\ r.hashed = msg.els /\ r.out = out
      /\ r.left = msg.len - Len(msg.els)
      /\ r.index = reg.index /\ r.prev = reg.prev /\ r.leaf = reg.leaf
  BY InFlight, Zenon DEF Fields
<1> HIDE DEF r
<1>3. Ready(world, lookup, step, r)
  BY <1>2, InFlight, ReadyKeeps, Zenon
<1>4. r.left \in Nat /\ (CallOf(lookup, step) = "fetch" => r.left = 0)
  BY <1>1, <1>2, CallersBuffers
<1>5. Bytes(world, lookup, step, r)
  BY <1>1, <1>2, <1>4 DEF Bytes
<1> QED
  BY <1>1, <1>2, <1>3, <1>5, Zenon DEF r

\* The first bytes of a preimage, for the buffer or the callback.
LEMMA FirstBytesStep ==
  ASSUME Inv, msg # NoMsg, msg.t = "preimage", UNCHANGED <<world, queue>>,
         NEW want, NEW out, FirstBytes(want, out),
         CallOf(lookup, step) = "fetch" => msg.len - 1 <= OutLen,
         CallOf(lookup, step) \in {"fetch", "stream"} => want = reg.leaf /\ out = Tail(msg.els),
         CallOf(lookup, step) = "preimage" =>
           want = Sha(world.policy) /\ (Len(msg.els) <= OutLen => out = msg.els)
  PROVE  Kept
<1> DEFINE r == [reg EXCEPT !.want = want, !.hashed = msg.els, !.len = msg.len,
                            !.left = msg.len - Len(msg.els), !.out = out]
<1>1. HashChecked(r)
  BY Zenon DEF FirstBytes
<1>2. /\ CallOf(lookup, step) \in Reads /\ r.index = reg.index
      /\ Ready(world, lookup, step, r) /\ Bytes(world, lookup, step, r)
  BY FirstBytesFacts, ZenonT(60)
<1> HIDE DEF r
<1> QED
  BY <1>1, <1>2, HashStep

LEMMA WriteFacts ==
  ASSUME NEW bytes \in Seq(Nat), Len(bytes) <= OutLen
  PROVE  Write(<<>>, bytes) = bytes
<1>1. Len(bytes) \in Nat /\ 0 + Len(bytes) <= OutLen /\ <<>> \o bytes = bytes
  OBVIOUS
<1> QED
  BY <1>1 DEF Write

LEMMA GotPreimageStep ==
  ASSUME Inv, GotMerklePreimage \/ GotStreamedPreimage \/ GotPreimage
  PROVE  Kept
<1>1. msg # NoMsg /\ msg.t = "preimage" /\ UNCHANGED <<world, queue>>
  BY Zenon DEF GotMerklePreimage, GotStreamedPreimage, GotPreimage, Receives
<1>2. /\ msg.els \in Seq(Nat) /\ msg.els # <<>> /\ msg.len \in Nat /\ Len(msg.els) <= msg.len
      /\ Call = CallOf(lookup, step)
  BY <1>1, InFlight DEF InCall
<1>3. CASE GotMerklePreimage
  <2>1. /\ CallOf(lookup, step) = "fetch"
        /\ \/ Return(Failed)
           \/ ~(msg.len - 1 > OutLen) /\ FirstBytes(reg.leaf, Write(<<>>, Tail(msg.els)))
    BY <1>2, <1>3 DEF GotMerklePreimage
  <2>2. CASE Return(Failed)
    BY <1>1, <2>2, ReturnStep
  <2>3. CASE ~(msg.len - 1 > OutLen) /\ FirstBytes(reg.leaf, Write(<<>>, Tail(msg.els)))
    <3>1. msg.len - 1 <= OutLen
      BY <1>2, <2>3, CallersBuffers
    <3>2. Tail(msg.els) \in Seq(Nat) /\ Len(Tail(msg.els)) = Len(msg.els) - 1
      BY <1>2
    <3>3. Len(Tail(msg.els)) <= OutLen
      BY <1>2, <3>1, <3>2, CallersBuffers
    <3>4. Write(<<>>, Tail(msg.els)) = Tail(msg.els)
      BY <3>2, <3>3, WriteFacts, ZenonT(40)
    <3> QED
      BY <1>1, <2>1, <2>3, <3>1, <3>4, FirstBytesStep, ZenonT(40)
  <2> QED
    BY <2>1, <2>2, <2>3
<1>4. CASE GotStreamedPreimage
  <2>1. CallOf(lookup, step) = "stream" /\ FirstBytes(reg.leaf, Tail(msg.els))
    BY <1>2, <1>4 DEF GotStreamedPreimage
  <2> QED
    BY <1>1, <2>1, FirstBytesStep, ZenonT(40)
<1>5. CASE GotPreimage
  <2>1. CallOf(lookup, step) = "preimage" /\ FirstBytes(Sha(world.policy), Write(<<>>, msg.els))
    BY <1>2, <1>5 DEF GotPreimage
  <2>2. Len(msg.els) <= OutLen => Write(<<>>, msg.els) = msg.els
    BY <1>2, WriteFacts
  <2> QED
    BY <1>1, <2>1, <2>2, FirstBytesStep
<1> QED
  BY <1>3, <1>4, <1>5

LEMMA TailJoined ==
  ASSUME NEW a \in Seq(Nat), NEW b \in Seq(Nat), a # <<>>
  PROVE  a \o b \in Seq(Nat) /\ a \o b # <<>> /\ Tail(a \o b) = Tail(a) \o b
<1>1. /\ Tail(a) \in Seq(Nat) /\ Len(Tail(a)) = Len(a) - 1 /\ Len(a) \in Nat /\ Len(a) > 0
      /\ Len(b) \in Nat
  OBVIOUS
<1>2. /\ a \o b \in Seq(Nat) /\ Len(a \o b) = Len(a) + Len(b)
      /\ \A k \in 1..(Len(a) + Len(b)) : (a \o b)[k] = IF k <= Len(a) THEN a[k] ELSE b[k - Len(a)]
  BY Concatenation
<1>3. a \o b # <<>>
  BY <1>1, <1>2
<1> DEFINE t == Tail(a \o b)
<1>4. t \in Seq(Nat) /\ Len(t) = Len(Tail(a)) + Len(b)
  BY <1>1, <1>2, <1>3
<1>5. \A k \in 1..Len(t) : t[k] = (a \o b)[k + 1]
  BY <1>2, <1>3
<1>6. ASSUME NEW k \in 1..Len(Tail(a)) PROVE t[k] = Tail(a)[k]
  <2>1. k \in 1..Len(t) /\ k + 1 \in 1..(Len(a) + Len(b)) /\ k + 1 <= Len(a)
    BY <1>1, <1>4
  <2>2. t[k] = a[k + 1]
    BY <1>2, <1>5, <2>1
  <2>3. Tail(a)[k] = a[k + 1]
    BY <1>1
  <2> QED
    BY <2>2, <2>3
<1>7. ASSUME NEW k \in 1..Len(b) PROVE t[Len(Tail(a)) + k] = b[k]
  <2> DEFINE j == Len(Tail(a)) + k
  <2>1. /\ j \in 1..Len(t) /\ j + 1 \in 1..(Len(a) + Len(b)) /\ ~(j + 1 <= Len(a))
        /\ (j + 1) - Len(a) = k
    BY <1>1, <1>4
  <2> HIDE DEF j, t
  <2>2. t[j] = b[k]
    BY <1>2, <1>5, <2>1, SMTT(30)
  <2> QED
    BY <2>2 DEF j
<1> HIDE DEF t
<1>8. Tail(a) \o b = t
  BY <1>1, <1>4, <1>6, <1>7, Joined, Zenon
<1> QED
  BY <1>2, <1>3, <1>8 DEF t

\* The locals after more bytes of a preimage.
LEMMA MoreBytesFacts ==
  ASSUME Inv, msg # NoMsg, msg.t = "elements", Call \in Reads, msg.elen = 1,
         ~(Len(msg.els) > reg.left), NEW r, DOMAIN r = Fields,
         r.hashed = reg.hashed \o msg.els, r.left = reg.left - Len(msg.els), r.want = reg.want,
         r.index = reg.index, r.prev = reg.prev, r.leaf = reg.leaf,
         Call = "stream" => r.out = reg.out \o msg.els,
         Call = "preimage" => r.out = Write(reg.out, msg.els)
  PROVE  Ready(world, lookup, step, r) /\ Bytes(world, lookup, step, r)
<1>1. Call = CallOf(lookup, step) /\ Ready(world, lookup, step, reg)
  BY InFlight
<1>2. /\ Len(msg.els) \in Nat /\ msg.els \in Seq(Nat)
      /\ Call \in {"stream", "preimage"} /\ Bytes(world, lookup, step, reg)
  BY <1>1, MoreInFlight DEF Proofs, Reads
<1>3. Ready(world, lookup, step, r)
  BY <1>1, ReadyKeeps
<1>4. reg.hashed \in Seq(Nat) /\ r.left \in Nat
  BY <1>2 DEF Bytes
<1>5. CASE Call = "stream"
  <2>1. reg.want = reg.leaf /\ reg.hashed # <<>> /\ reg.out = Tail(reg.hashed)
    BY <1>1, <1>2, <1>5 DEF Bytes
  <2>2. r.hashed \in Seq(Nat) /\ r.hashed # <<>> /\ r.out = Tail(r.hashed)
    <3> DEFINE all == reg.hashed \o msg.els
    <3>1. all \in Seq(Nat) /\ all # <<>> /\ Tail(all) = Tail(reg.hashed) \o msg.els
      BY <1>2, <1>4, <2>1, TailJoined, ZenonT(40)
    <3> HIDE DEF all
    <3> QED
      BY <1>5, <2>1, <3>1, Zenon DEF all
  <2>3. Bytes(world, lookup, step, r)
    BY <1>1, <1>4, <1>5, <2>1, <2>2, SMTT(30) DEF Bytes
  <2> QED
    BY <1>3, <2>3
<1>6. CASE Call = "preimage"
  <2>1. /\ reg.want = Sha(world.policy) /\ (Len(reg.hashed) <= OutLen => reg.out = reg.hashed)
    BY <1>1, <1>2, <1>6 DEF Bytes
  <2>2. /\ r.hashed \in Seq(Nat) /\ Len(r.hashed) = Len(reg.hashed) + Len(msg.els)
        /\ Len(reg.hashed) \in Nat /\ Len(msg.els) \in Nat
    BY <1>2, <1>4, Concatenation
  <2>3. ASSUME Len(r.hashed) <= OutLen PROVE r.out = r.hashed
    <3>1. Len(reg.hashed) <= OutLen /\ Len(reg.hashed) + Len(msg.els) <= OutLen
      <4>1. OutLen \in Nat
        BY CallersBuffers
      <4> DEFINE h == Len(reg.hashed)
                 e == Len(msg.els)
      <4>2. h \in Nat /\ e \in Nat /\ h + e <= OutLen
        BY <2>2, <2>3, Zenon
      <4> HIDE DEF h, e
      <4>3. h <= OutLen
        BY <4>1, <4>2
      <4> QED
        BY <4>2, <4>3, Zenon DEF h, e
    <3>2. reg.out = reg.hashed
      BY <2>1, <3>1
    <3> QED
      BY <1>6, <3>1, <3>2, ZenonT(40) DEF Write
  <2>4. Bytes(world, lookup, step, r)
    BY <1>1, <1>4, <1>6, <2>1, <2>2, <2>3, ZenonT(40) DEF Bytes
  <2> QED
    BY <1>3, <2>4
<1> QED
  BY <1>2, <1>5, <1>6

\* What call_get_preimage and call_stream_preimage do with more bytes.
LEMMA MoreBytesCases ==
  ASSUME Inv, GotMoreBytes
  PROVE  \/ (msg.elen # 1 \/ Len(msg.els) > reg.left) /\ Return(Failed)
         \/ /\ msg.elen = 1 /\ ~(Len(msg.els) > reg.left)
            /\ \E r : /\ HashChecked(r) /\ r.index = reg.index /\ r.want = reg.want
                      /\ r.hashed = reg.hashed \o msg.els /\ r.left = reg.left - Len(msg.els)
                      /\ Ready(world, lookup, step, r) /\ Bytes(world, lookup, step, r)
<1> DEFINE out == CASE Call = "stream" -> reg.out \o msg.els
                    [] Call = "fetch" -> Write(reg.out, StaleBytes(msg.els))
                    [] Call = "preimage" -> Write(reg.out, msg.els)
           r == [reg EXCEPT !.hashed = reg.hashed \o msg.els,
                            !.left = reg.left - Len(msg.els), !.out = out]
<1>1. msg # NoMsg /\ msg.t = "elements" /\ Call \in Reads
  BY DEF GotMoreBytes, Receives, Reads
<1>2. DOMAIN reg = Fields
  BY <1>1, InFlight
<1>3. \/ (msg.elen # 1 \/ Len(msg.els) > reg.left) /\ Return(Failed)
      \/ msg.elen = 1 /\ ~(Len(msg.els) > reg.left) /\ HashChecked(r)
  <2>1. /\ "hashed" \in DOMAIN reg /\ "left" \in DOMAIN reg /\ "out" \in DOMAIN reg
    BY <1>2 DEF Fields
  <2>2. r = [reg EXCEPT !.hashed = @ \o msg.els, !.left = @ - Len(msg.els),
               !.out = CASE Call = "stream" -> @ \o msg.els
                         [] Call = "fetch" -> Write(@, StaleBytes(msg.els))
                         [] Call = "preimage" -> Write(@, msg.els)]
    BY <2>1
  <2> HIDE DEF r
  <2> QED
    BY <2>2, ZenonT(40) DEF GotMoreBytes
<1>4. CASE msg.elen = 1 /\ ~(Len(msg.els) > reg.left) /\ HashChecked(r)
  <2>1. /\ DOMAIN r = Fields /\ r.hashed = reg.hashed \o msg.els
        /\ r.left = reg.left - Len(msg.els) /\ r.out = out /\ r.want = reg.want
        /\ r.index = reg.index /\ r.prev = reg.prev /\ r.leaf = reg.leaf
    <3> HIDE DEF out
    <3> QED
      BY <1>2 DEF Fields
  <2>2. /\ Call = "stream" => out = reg.out \o msg.els
        /\ Call = "preimage" => out = Write(reg.out, msg.els)
    BY ZenonT(40)
  <2> HIDE DEF r, out
  <2>3. Ready(world, lookup, step, r) /\ Bytes(world, lookup, step, r)
    BY <1>1, <1>4, <2>1, <2>2, MoreBytesFacts
  <2> QED
    BY <1>4, <2>1, <2>3, ZenonT(40)
<1> HIDE DEF r
<1> QED
  BY <1>3, <1>4, Zenon

LEMMA GotMoreBytesStep ==
  ASSUME Inv, GotMoreBytes
  PROVE  Kept
<1>1. msg # NoMsg /\ UNCHANGED <<world, queue>> /\ CallOf(lookup, step) \in Reads
  BY InFlight DEF GotMoreBytes, Receives, Reads
<1>2. CASE Return(Failed)
  BY <1>1, <1>2, ReturnStep
<1>3. ASSUME NEW r, HashChecked(r), r.index = reg.index, Ready(world, lookup, step, r),
             Bytes(world, lookup, step, r)
      PROVE  Kept
  BY <1>1, <1>3, HashStep
<1> QED
  BY <1>2, <1>3, MoreBytesCases, Zenon
-----------------------------------------------------------------------------
(* The answers of the client.                                               *)

LEMMA ReplyStep ==
  ASSUME Inv, msg # NoMsg, UNCHANGED <<world, lookup, step, reg, outcome, checked, client>>,
         queue' \in Seq(Items(world)), NEW m, msg' = m, InCall(world, lookup, step, reg, m)
  PROVE  Kept
<1>1. /\ world' = world /\ lookup' = lookup /\ step' = step /\ reg' = reg
      /\ outcome' = outcome /\ checked' = checked /\ client' = client
  OBVIOUS
<1>2. client = "up" /\ outcome = None /\ Ready(world, lookup, step, reg)
  BY DEF Inv
<1>3. world \in Worlds /\ checked \in BOOLEAN /\ (checked => StrictlySorted(world.keys))
  BY DEF Inv
<1>4. Inv'
  BY <1>1, <1>2, <1>3 DEF Inv
<1> QED
  BY <1>1, <1>4 DEF Kept

\* The client raises an exception or stops answering.
LEMMA StopStep ==
  ASSUME Inv, msg # NoMsg, UNCHANGED <<world, lookup, step, reg, outcome, checked, queue>>,
         msg' = NoMsg
  PROVE  Kept
<1>1. /\ world' = world /\ lookup' = lookup /\ queue' = queue
      /\ outcome' = outcome /\ checked' = checked
  BY Zenon
<1>2. outcome = None /\ lookup \in AllLookups
  BY DEF Inv, Ready
<1>3. /\ world \in Worlds /\ queue \in Seq(Items(world))
      /\ checked \in BOOLEAN /\ (checked => StrictlySorted(world.keys))
  BY DEF Inv
<1>4. Inv'
  BY <1>1, <1>2, <1>3 DEF Inv
<1> QED
  BY <1>1, <1>4 DEF Kept

LEMMA EnqueueFacts ==
  ASSUME Inv, NEW V, NEW vals \in Seq(V), NEW len, NEW n \in 0..Len(vals),
         \A x \in V : [len |-> len, v |-> x] \in Items(world), Enqueue(len, vals, n)
  PROVE  queue' \in Seq(Items(world))
<1> DEFINE I == Items(world)
           rest == SubSeq(vals, n + 1, Len(vals))
<1>1. rest \in Seq(V)
  BY Remainder
<1> HIDE DEF rest
<1>2. Elements(len, rest) \in Seq(I)
  <2>1. Len(rest) \in Nat /\ \A k \in 1..Len(rest) : rest[k] \in V
    BY <1>1
  <2>2. \A k \in 1..Len(rest) : [len |-> len, v |-> rest[k]] \in I
    BY <2>1
  <2> HIDE DEF I
  <2> QED
    BY <2>1, <2>2 DEF Elements
<1>3. queue \in Seq(I) /\ queue' = queue \o Elements(len, rest)
  BY Zenon DEF Inv, Enqueue, rest
<1> HIDE DEF I
<1>4. queue' \in Seq(I)
  BY <1>2, <1>3, Concatenation
<1> QED
  BY <1>4, Zenon DEF I

LEMMA AnswerLeafIndexStep ==
  ASSUME Inv, AnswerLeafIndex
  PROVE  Kept
<1>1. /\ msg # NoMsg /\ msg.t = "get_index"
      /\ UNCHANGED <<world, lookup, step, reg, outcome, checked, queue>>
  BY DEF AnswerLeafIndex, Answers
<1>2. PICK i \in -1..(Size - 1) :
        msg' = [t |-> "index", found |-> IF i = -1 THEN 0 ELSE 1, at |-> IF i = -1 THEN 0 ELSE i]
        /\ UNCHANGED client
  BY DEF AnswerLeafIndex, Reply
<1> DEFINE m == [t |-> "index", found |-> IF i = -1 THEN 0 ELSE 1, at |-> IF i = -1 THEN 0 ELSE i]
<1>3. CallOf(lookup, step) = "index" /\ queue \in Seq(Items(world))
  BY <1>1, InFlight, ZenonT(40) DEF InCall, Inv
<1>4. InCall(world, lookup, step, reg, m)
  <2>1. m.t = "index" /\ (m.found # 0 => m.at \in 0..(Len(world.keys) - 1))
    <3>1. Size \in Nat
      BY <1>1, InFlight, WorldFacts DEF Size
    <3> QED
      BY <3>1 DEF Size
  <2> HIDE DEF m
  <2> QED
    BY <1>3, <2>1 DEF InCall
<1>5. queue' \in Seq(Items(world))
  BY <1>1, <1>3
<1>6. msg' = m /\ UNCHANGED <<world, lookup, step, reg, outcome, checked, client>>
  BY <1>1, <1>2
<1> HIDE DEF m
<1> QED
  BY <1>1, <1>4, <1>5, <1>6, ReplyStep

LEMMA AnswerLeafProofStep ==
  ASSUME Inv, AnswerLeafProof
  PROVE  Kept
<1>1. /\ msg # NoMsg /\ msg.t = "get_proof"
      /\ UNCHANGED <<world, lookup, step, reg, outcome, checked>>
  BY DEF AnswerLeafProof, Answers
<1>2. CASE Raise
  BY <1>1, <1>2, StopStep DEF Raise
<1>3. CASE ~Raise
  <2> DEFINE list == List(msg.tree)
             proof(i) == ProveLeaf(list, i)
             room == (Payload - HashLen - 2) \div HashLen
             num(i) == IF room < Len(proof(i)) THEN room ELSE Len(proof(i))
             m(i) == [t |-> "proof", leaf |-> Leaf(list[i + 1]), size |-> Len(proof(i)),
                      els |-> SubSeq(proof(i), 1, num(i))]
  <2>1. PICK i \in 0..(Size - 1) :
          msg' = m(i) /\ UNCHANGED client /\ Enqueue(HashLen, proof(i), num(i))
    BY <1>3, Zenon DEF AnswerLeafProof, Reply
  <2>2. /\ list \in {world.keys, world.values} /\ Size \in Nat /\ Len(list) = Size
        /\ i + 1 \in 1..Len(world.keys)
    BY <1>1, InFlight, WorldFacts DEF List, Size
  <2> HIDE DEF list
  <2>3. proof(i) \in Seq(TreeNode(list))
    BY <2>2, ProofFacts, Zenon
  <2>4. room \in Nat
    BY SizesAssumption
  <2> HIDE DEF room
  <2> DEFINE p == proof(i)
             n == num(i)
  <2>5. n \in 0..Len(p) /\ Len(p) \in Nat /\ n = IF room < Len(p) THEN room ELSE Len(p)
    <3>1. p \in Seq(TreeNode(list)) /\ n = IF room < Len(p) THEN room ELSE Len(p)
      BY <2>3
    <3> HIDE DEF p, n
    <3> QED
      BY <2>4, <3>1
  <2>6. \A x \in TreeNode(list) : [len |-> HashLen, v |-> x] \in Items(world)
    BY <2>2, Zenon DEF Items
  <2>7. /\ msg' = [t |-> "proof", leaf |-> Leaf(list[i + 1]), size |-> Len(p),
                   els |-> SubSeq(p, 1, n)]
        /\ p \in Seq(TreeNode(list)) /\ Enqueue(HashLen, p, n)
    BY <2>1, <2>3, Zenon
  <2> HIDE DEF p, n
  <2>8. queue' \in Seq(Items(world))
    BY <2>5, <2>6, <2>7, EnqueueFacts
  <2>9. Len(SubSeq(p, 1, n)) = n
    BY <2>5, <2>7
  <2> DEFINE r == [t |-> "proof", leaf |-> Leaf(list[i + 1]), size |-> Len(p),
                   els |-> SubSeq(p, 1, n)]
  <2>10. InCall(world, lookup, step, reg, r)
    <3>1. CallOf(lookup, step) \in Proofs
      BY <1>1, InFlight DEF InCall
    <3>2. r.t = "proof" /\ r.leaf = Leaf(list[i + 1]) /\ r.size = Len(p) /\ r.els = SubSeq(p, 1, n)
      BY ZenonT(40)
    <3> HIDE DEF r
    <3>3. r.size \in Nat /\ Len(r.els) \in Nat /\ Len(r.els) <= r.size
      BY <2>5, <2>9, <3>2
    <3>4. \E k \in 1..Len(world.keys) : r.leaf \in {Leaf(world.keys[k]), Leaf(world.values[k])}
      BY <2>2, <3>2
    <3> QED
      BY <3>1, <3>2, <3>3, <3>4, ZenonT(40) DEF InCall
  <2>11. msg' = r /\ UNCHANGED <<world, lookup, step, reg, outcome, checked, client>>
    BY <1>1, <2>1, <2>7, ZenonT(40)
  <2> HIDE DEF r
  <2> QED
    BY <1>1, <2>8, <2>10, <2>11, ReplyStep, Zenon
<1> QED
  BY <1>2, <1>3

\* Every preimage that the client knows is a nonempty list of bytes.
LEMMA KnownFacts ==
  ASSUME world \in Worlds, NEW p \in KnownPreimages
  PROVE  p \in Seq(Nat) /\ p # <<>>
<1>1. /\ \A i \in 1..Size : world.keys[i] \in Seq(Nat) /\ world.values[i] \in Seq(Nat)
      /\ world.policy \in Seq(Nat) /\ world.policy # <<>>
  BY WorldFacts, WorldsAssumption DEF Size
<1>2. \A el \in Seq(Nat) : <<0>> \o el \in Seq(Nat) /\ <<0>> \o el # <<>>
  <2> SUFFICES ASSUME NEW el \in Seq(Nat) PROVE <<0>> \o el \in Seq(Nat) /\ <<0>> \o el # <<>>
    OBVIOUS
  <2>1. <<0>> \in Seq(Nat) /\ <<0>> # <<>>
    OBVIOUS
  <2> QED
    BY <2>1, TailJoined, Zenon
<1> QED
  BY <1>1, <1>2, ZenonT(40) DEF KnownPreimages

\* A response has room for a byte, and for all of what fits the buffer.
LEMMA RoomFacts ==
  ASSUME world \in Worlds, NEW len \in Nat, len > 0
  PROVE  LET room == Payload - VarintLen(len) - 1
         IN  room \in Nat /\ room > 0 /\ (len <= OutLen + 1 => len <= room)
<1>1. OutLen \in Nat /\ OutLen > 0
  <2>1. world.policy \in Seq(Nat) /\ world.policy # <<>> /\ Len(world.policy) <= OutLen
    BY WorldsAssumption, PoliciesFit
  <2>2. Len(world.policy) \in Nat /\ Len(world.policy) > 0
    BY <2>1
  <2> QED
    BY <2>1, <2>2, CallersBuffers
<1>2. Payload \in Nat /\ OutLen + 1 < Payload - 2
  BY SizesAssumption, CallersBuffers DEF VarintOne
<1>3. VarintLen(len) = IF len < Payload - 2 THEN 1 ELSE 3
  BY DEF VarintLen, VarintOne
<1> QED
  BY <1>1, <1>2, <1>3

LEMMA AnswerPreimageStep ==
  ASSUME Inv, AnswerPreimage
  PROVE  Kept
<1>1. /\ msg # NoMsg /\ msg.t = "get_preimage"
      /\ UNCHANGED <<world, lookup, step, reg, outcome, checked>>
  BY DEF AnswerPreimage, Answers
<1> DEFINE room(p) == Payload - VarintLen(Len(p)) - 1
           num(p) == IF room(p) < Len(p) THEN room(p) ELSE Len(p)
           m(p) == [t |-> "preimage", len |-> Len(p), els |-> SubSeq(p, 1, num(p))]
<1>2. PICK p \in KnownPreimages : msg' = m(p) /\ UNCHANGED client /\ Enqueue(1, p, num(p))
  BY ZenonT(40) DEF AnswerPreimage, Reply
<1>3. p \in Seq(Nat) /\ p # <<>> /\ Len(p) \in Nat /\ Len(p) > 0
  BY <1>1, InFlight, KnownFacts
<1> DEFINE n == num(p)
           k == room(p)
<1>4. k \in Nat /\ k > 0 /\ (Len(p) <= OutLen + 1 => Len(p) <= k)
  BY <1>1, <1>3, InFlight, RoomFacts
<1>5. n = IF k < Len(p) THEN k ELSE Len(p)
  BY Zenon
<1> DEFINE r == [t |-> "preimage", len |-> Len(p), els |-> SubSeq(p, 1, n)]
<1>6. msg' = r /\ UNCHANGED <<world, lookup, step, reg, outcome, checked, client>>
      /\ Enqueue(1, p, n)
  BY <1>1, <1>2
<1> HIDE DEF n, k
<1>7. n \in 1..Len(p) /\ (Len(p) <= OutLen + 1 => n = Len(p))
  BY <1>3, <1>4, <1>5
<1>8. queue' \in Seq(Items(world))
  <2>1. \A x \in Nat : [len |-> 1, v |-> x] \in Items(world)
    BY DEF Items
  <2>2. n \in 0..Len(p)
    BY <1>7
  <2> QED
    BY <1>3, <1>6, <2>1, <2>2, EnqueueFacts
<1>9. InCall(world, lookup, step, reg, r)
  <2>1. CallOf(lookup, step) \in Reads
    BY <1>1, InFlight DEF InCall
  <2>2. r.t = "preimage" /\ r.len = Len(p) /\ r.els = SubSeq(p, 1, n)
    BY ZenonT(40)
  <2>3. SubSeq(p, 1, n) \in Seq(Nat) /\ Len(SubSeq(p, 1, n)) = n
    BY <1>3, <1>7
  <2> HIDE DEF r
  <2>4. /\ r.els \in Seq(Nat) /\ r.els # <<>> /\ r.len \in Nat /\ Len(r.els) <= r.len
        /\ r.len <= OutLen + 1 => Len(r.els) = r.len
    <3> DEFINE e == r.els
               z == r.len
    <3>1. e \in Seq(Nat) /\ Len(e) = n /\ z = Len(p)
      BY <2>2, <2>3, Zenon
    <3> HIDE DEF e, z
    <3>2. e # <<>> /\ Len(e) <= z /\ z \in Nat /\ (z <= OutLen + 1 => Len(e) = z)
      BY <1>3, <1>7, <3>1
    <3> QED
      BY <3>1, <3>2, Zenon DEF e, z
  <2> QED
    BY <2>1, <2>2, <2>4, Zenon DEF InCall
<1> HIDE DEF r
<1> QED
  BY <1>1, <1>6, <1>8, <1>9, ReplyStep

LEMMA AnswerMoreElementsStep ==
  ASSUME Inv, AnswerMoreElements
  PROVE  Kept
<1>1. /\ msg # NoMsg /\ msg.t = "get_more"
      /\ UNCHANGED <<world, lookup, step, reg, outcome, checked>>
  BY DEF AnswerMoreElements, Answers
<1>2. CASE Raise
  BY <1>1, <1>2, StopStep DEF Raise
<1>3. CASE ~Raise
  <2> DEFINE len == queue[1].len
             n == IF Room(len) < Len(queue) THEN Room(len) ELSE Len(queue)
             els == [k \in 1..n |-> queue[k].v]
             r == [t |-> "elements", elen |-> len, els |-> els]
  <2>1. /\ queue # <<>> /\ \A k \in DOMAIN queue : queue[k].len = len
        /\ msg' = r /\ UNCHANGED client /\ queue' = SubSeq(queue, n + 1, Len(queue))
    BY <1>3 DEF AnswerMoreElements, Reply
  <2>2. queue \in Seq(Items(world))
    BY Zenon DEF Inv
  <2>3. Len(queue) \in Nat /\ \A k \in 1..Len(queue) : queue[k] \in Items(world) /\ queue[k].len = len
    BY <2>1, <2>2
  <2>4. \A x \in Items(world) : x.len \in Nat /\ x.len > 0 /\ (x.len = 1 => x.v \in Nat)
    BY SizesAssumption DEF Items
  <2>5. len \in Nat /\ len > 0
    <3>1. 1 \in 1..Len(queue)
      BY <2>1, <2>2
    <3> QED
      BY <2>3, <2>4, <3>1, Zenon
  <2>6. Room(len) \in Nat
    <3> HIDE DEF len
    <3>1. Payload - 2 \in Nat
      BY SizesAssumption
    <3> DEFINE q == Payload - 2
    <3> HIDE DEF q
    <3>2. q \div len \in Nat
      BY <2>5, <3>1 DEF q
    <3> QED
      BY <3>2 DEF Room, q
  <2>7. n \in 0..Len(queue)
    <3> HIDE DEF len
    <3> QED
      BY <2>3, <2>6
  <2> HIDE DEF n, len
  <2>8. queue' \in Seq(Items(world))
    BY <2>1, <2>2, <2>7, Remainder
  <2>9. Len(els) = n
    BY <2>7
  <2>10. len = 1 => els \in Seq(Nat)
    <3> SUFFICES ASSUME len = 1 PROVE els \in Seq(Nat)
      OBVIOUS
    <3>1. \A k \in 1..n : queue[k].v \in Nat
      <4> SUFFICES ASSUME NEW k \in 1..n PROVE queue[k].v \in Nat
        OBVIOUS
      <4>1. k \in 1..Len(queue)
        BY <2>3, <2>7, SMTT(30)
      <4> QED
        BY <2>3, <2>4, <4>1
    <3> QED
      BY <2>7, <3>1
  <2> HIDE DEF els
  <2>11. InCall(world, lookup, step, reg, r)
    <3>1. r.t = "elements" /\ r.elen = len /\ r.els = els
      BY Zenon
    <3> HIDE DEF r
    <3>2. \/ CallOf(lookup, step) \in Proofs /\ Climbing(world, lookup, step, reg)
          \/ CallOf(lookup, step) \in {"stream", "preimage"} /\ Bytes(world, lookup, step, reg)
      BY <1>1, InFlight DEF InCall
    <3>3. Len(r.els) \in Nat /\ (r.elen = 1 => r.els \in Seq(Nat))
      BY <2>7, <2>9, <2>10, <3>1
    <3> QED
      BY <3>1, <3>2, <3>3 DEF InCall
  <2>12. msg' = r /\ UNCHANGED <<world, lookup, step, reg, outcome, checked, client>>
    BY <1>1, <2>1
  <2> HIDE DEF r
  <2> QED
    BY <1>1, <2>8, <2>11, <2>12, ReplyStep
<1> QED
  BY <1>2, <1>3

-----------------------------------------------------------------------------
(* The refinement.                                                          *)

\* The first call of a lookup.
LEMMA LookupReady ==
  ASSUME Inv, NEW kind \in DOMAIN Program, NEW at \in Nat, Lookup(kind, at)
  PROVE  LET l == [kind |-> kind, at |-> at]
             r == [NoReg EXCEPT !.index = IF kind = "element" THEN at ELSE 0]
         IN  Ready(world, l, 1, r) /\ CallOf(l, 1) \in {"proof", "index", "preimage"}
<1> DEFINE l == [kind |-> kind, at |-> at]
           r == [NoReg EXCEPT !.index = IF kind = "element" THEN at ELSE 0]
<1>1. l \in AllLookups /\ l.kind = kind /\ l.at = at
  BY DEF AllLookups
<1>2. DOMAIN r = Fields /\ r.index = IF kind = "element" THEN at ELSE 0
  BY DEF NoReg, Fields
<1>3. /\ kind \in {"element", "sorted"} => at < Size
      /\ kind \in {"value", "valuehash", "stream"} => checked \/ Size = 0
  BY Zenon DEF Lookup
<1> HIDE DEF l, r
<1>4. 1 \in 1..Len(Program[kind])
      /\ kind \in {"element", "sorted", "value", "valuehash", "stream", "policy"}
  <2>1. kind \in {"element", "sorted", "value", "valuehash", "stream", "policy"}
    BY Programs, Zenon
  <2>2. \E n \in {1, 2, 3, 4} : Len(Program[kind]) = n
    BY <2>1, Programs
  <2> QED
    BY <2>1, <2>2
<1>5. /\ kind \in {"element", "sorted"} => CallOf(l, 1) = "proof"
      /\ kind \in {"value", "valuehash", "stream"} => CallOf(l, 1) = "index"
      /\ kind = "policy" => CallOf(l, 1) = "preimage"
  BY <1>1, Programs DEF CallOf
<1>6. world \in Worlds /\ Size \in Nat /\ Size = Len(world.keys)
  BY WorldFacts, Zenon DEF Inv, Size
<1>7. Ready(world, l, 1, r)
  <2>1. r.index \in Nat /\ (kind # "element" => r.index = 0) /\ (kind = "element" => r.index = at)
    BY <1>2
  <2>2. CallOf(l, 1) \in Proofs \cup {"fetch", "stream"} => kind \in {"element", "sorted"}
    BY <1>4, <1>5 DEF Proofs
  <2>3. kind \in {"element", "sorted"} => r.index < Len(world.keys)
    BY <1>3, <1>6, <2>1
  <2>4. kind \in MapKinds => StrictlySorted(world.keys)
    <3>1. checked => StrictlySorted(world.keys)
      BY Zenon DEF Inv
    <3>2. Size = 0 => StrictlySorted(world.keys)
      BY <1>6 DEF StrictlySorted
    <3> QED
      BY <1>3, <3>1, <3>2 DEF MapKinds
  <2>5. Ordered(world, 0)
    BY DEF Ordered
  <2>6. CallOf(l, 1) \notin {"fetch", "stream"} /\ (kind \in MapKinds => CallOf(l, 1) = "index")
    BY <1>4, <1>5 DEF MapKinds
  <2>7. kind = "sorted" => Ordered(world, r.index) /\ ~(r.index > 0)
    BY <2>1, <2>5, SMTT(30)
  <2> QED
    BY <1>1, <1>2, <1>4, <2>1, <2>2, <2>3, <2>4, <2>6, <2>7 DEF Ready
<1>8. CallOf(l, 1) \in {"proof", "index", "preimage"}
  BY <1>4, <1>5
<1> QED
  BY <1>7, <1>8, Zenon DEF l, r

LEMMA LookupStep ==
  ASSUME Inv, NEW kind \in DOMAIN Program, NEW at \in Nat, Lookup(kind, at)
  PROVE  Inv' /\ Abstract!Begin
<1> DEFINE l == [kind |-> kind, at |-> at]
           r == [NoReg EXCEPT !.index = IF kind = "element" THEN at ELSE 0]
           c == CallOf(l, 1)
           m == Ask(l, c, r)
<1>1. /\ client = "up" /\ msg = NoMsg
      /\ lookup' = l /\ outcome' = None /\ step' = 1 /\ reg' = r
      /\ UNCHANGED <<world, queue, client, checked>>
  BY DEF Lookup, history
<1>2. msg' = Ask(l, Program[kind][1], r)
  BY <1>1 DEF Lookup
<1>3. l \in AllLookups /\ l.kind = kind
  BY DEF AllLookups
<1>4. msg' = m
  BY <1>2, <1>3 DEF CallOf
<1>5. Ready(world, l, 1, r) /\ c \in {"proof", "index", "preimage"}
  BY LookupReady, Zenon
<1> HIDE DEF l, r
<1>6. InCall(world, l, 1, r, m)
  <2>1. \/ c = "index" /\ m.t = "get_index"
        \/ c \in Proofs /\ m.t = "get_proof"
        \/ c \in Reads /\ m.t = "get_preimage"
    <3> HIDE DEF c
    <3>1. m = Ask(l, c, r)
      BY Zenon
    <3> HIDE DEF m
    <3> QED
      BY <1>5, <3>1 DEF Proofs, Reads, Ask
  <2> HIDE DEF m
  <2> QED
    BY <2>1 DEF InCall
<1> HIDE DEF m
<1>7. Inv'
  <2>1. /\ world \in Worlds /\ queue \in Seq(Items(world)) /\ checked \in BOOLEAN
        /\ checked => StrictlySorted(world.keys)
    BY DEF Inv
  <2> QED
    BY <1>1, <1>3, <1>4, <1>5, <1>6, <2>1 DEF Inv
<1>8. Abstract!Begin
  BY <1>1, <1>3 DEF Abstract!Begin
<1> QED
  BY <1>7, <1>8

\* Every step keeps the invariant and is a step of AbstractLookup or invisible.
LEMMA NextStep ==
  ASSUME Inv, [Next]_vars
  PROVE  Inv' /\ [Abstract!Begin \/ Abstract!Finish \/ Abstract!Forget]_<<world, lookup, outcome>>
<1>1. ASSUME NEW kind \in {"element", "value", "valuehash", "stream"}, NEW at \in 0..Size,
             Lookup(kind, at)
      PROVE  Inv' /\ Abstract!Begin
  <2>1. kind \in DOMAIN Program
    BY Programs
  <2>2. at \in Nat
    OBVIOUS
  <2> QED
    BY <1>1, <2>1, <2>2, LookupStep
<1>2. ASSUME NEW kind \in {"sorted", "policy"}, Lookup(kind, 0)
      PROVE  Inv' /\ Abstract!Begin
  <2>1. kind \in DOMAIN Program /\ 0 \in Nat
    BY Programs
  <2> QED
    BY <1>2, <2>1, LookupStep
<1>3. CASE ClientGone
  <2>1. /\ client # "up" /\ outcome = None /\ outcome' = Failed
        /\ UNCHANGED <<world, lookup, msg, queue, client, checked>>
    BY <1>3 DEF ClientGone, history
  <2>2. msg = NoMsg /\ lookup \in AllLookups
    BY <2>1, Zenon DEF Inv
  <2>3. Inv'
    BY <2>1, <2>2 DEF Inv
  <2>4. Abstract!Finish
    BY <2>1, <2>2, NoneAssumption DEF Abstract!Finish
  <2> QED
    BY <2>3, <2>4
<1>4. CASE Silent
  <2>1. Kept
    BY <1>4, StopStep DEF Silent, history
  <2> QED
    BY <2>1 DEF Kept
<1>5. CASE NewCommand
  <2>1. /\ client' = "up" /\ queue' = <<>> /\ checked' = FALSE /\ lookup' = None /\ outcome' = None
        /\ UNCHANGED <<world, msg>> /\ msg = NoMsg
    BY <1>5 DEF NewCommand, Inv
  <2>2. Inv'
    <3>1. <<>> \in Seq(Items(world)) /\ world \in Worlds /\ FALSE \in BOOLEAN
      BY DEF Inv
    <3> QED
      BY <2>1, <3>1, Zenon DEF Inv
  <2>3. Abstract!Forget
    BY <2>1 DEF Abstract!Forget
  <2> QED
    BY <2>2, <2>3
<1>6. CASE Client
  <2>1. Kept
    BY <1>6, AnswerLeafIndexStep, AnswerLeafProofStep, AnswerPreimageStep, AnswerMoreElementsStep
       DEF Client
  <2> QED
    BY <2>1 DEF Kept
<1>7. CASE Device
  <2>1. CASE Kept
    BY <2>1 DEF Kept
  <2> QED
    BY <1>3, <1>7, <2>1, GotIndexStep, GotProofStep, GotMoreProofStep, GotPreimageStep,
       GotMoreBytesStep DEF Device
<1>8. CASE UNCHANGED vars
  <2>1. UNCHANGED <<world, lookup, step, reg, msg, outcome, queue, client, checked>>
    BY <1>8 DEF vars, history
  <2>2. Inv'
    BY <2>1 DEF Inv
  <2> QED
    BY <2>1, <2>2
<1> QED
  BY <1>1, <1>2, <1>4, <1>5, <1>6, <1>7, <1>8 DEF Next

\* Whatever the client answers, every lookup of handler/lib returns the data the
\* command committed to or fails: for maps of any size, responses of any length,
\* any number of wrong answers, exceptions and silences of the client.
THEOREM LookupsImplement == Spec => ImplementsLookup
<1>1. Init => Inv
  <2> SUFFICES ASSUME Init PROVE Inv
    OBVIOUS
  <2>1. <<>> \in Seq(Items(world)) /\ FALSE \in BOOLEAN
    OBVIOUS
  <2> QED
    BY <2>1, Zenon DEF Init, Inv
<1>2. Init => Abstract!Init
  BY DEF Init, Abstract!Init
<1>3. Inv /\ [Next]_vars
        => Inv' /\ [Abstract!Begin \/ Abstract!Finish \/ Abstract!Forget]_<<world, lookup, outcome>>
  BY NextStep
<1> QED
  BY <1>1, <1>2, <1>3, PTL DEF Spec, ImplementsLookup, Abstract!Spec
=============================================================================
