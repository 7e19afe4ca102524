---------------------------- MODULE HonestClient ----------------------------
(***************************************************************************)
(* The other half of what the lookups promise: a client that answers       *)
(* correctly gets every lookup of handler/lib through, and no lookup that  *)
(* succeeds leaves anything in the client's queue, for maps of any size    *)
(* and responses of any length.                                            *)
(*                                                                         *)
(* The inductive invariant Told goes on top of that of ClientDataProofs.   *)
(* Accounted says how many elements are in the queue, whether or not the   *)
(* client has made mistakes; Truthful says that without a mistake the      *)
(* message in flight and the queue are the parts of the right list.        *)
(***************************************************************************)
EXTENDS ClientDataProofs

-----------------------------------------------------------------------------
(* What a correct client gets.                                              *)

\* The list that a call with GET_MORE_ELEMENTS reads, the size of its elements,
\* how much of it the call has got and how much is still to come.
Whole(w, l, s, r) ==
  CASE CallOf(l, s) \in Proofs -> ProveLeaf(TreeOf(w, l, s), r.index)
    [] CallOf(l, s) = "preimage" -> w.policy
    [] OTHER -> <<0>> \o TreeOf(w, l, s)[r.index + 1]
Unit(l, s) == IF CallOf(l, s) \in Proofs THEN HashLen ELSE 1
Got(l, s, r) == IF CallOf(l, s) \in Proofs THEN r.pos ELSE Len(r.hashed)
Lacks(l, s, r) == IF CallOf(l, s) \in Proofs THEN r.size - r.pos ELSE r.left

\* What the client may have to send with GET_MORE_ELEMENTS after message m.
Owed(l, s, r, m) ==
  CASE m.t = "proof" -> m.size - Len(m.els)
    [] m.t = "preimage" -> m.len - Len(m.els)
    [] m.t = "get_more" -> Lacks(l, s, r)
    [] m.t = "elements" -> Lacks(l, s, r) - Len(m.els)
    [] OTHER -> 0

\* els is the part of list that follows the first n, and q the rest of it.
Part(els, list, n) == \A k \in 1..Len(els) : els[k] = list[n + k]
Rest(q, unit, list, n) == \A k \in 1..Len(q) : q[k].len = unit /\ q[k].v = list[n + k]

\* The device has combined or hashed the first elements of the right list.
OnTheWay(w, l, s, r) ==
  /\ Got(l, s, r) + Lacks(l, s, r) = Len(Whole(w, l, s, r))
  /\ CallOf(l, s) \in Proofs =>
       /\ r.leaf = Leaf(TreeOf(w, l, s)[r.index + 1])
       /\ r.cur = Along(TreeOf(w, l, s), r.index, r.size - r.pos)
  /\ CallOf(l, s) \notin Proofs =>
       r.want = Sha(Whole(w, l, s, r)) /\ Part(r.hashed, Whole(w, l, s, r), 0)

\* The message in flight asks for, or brings, what the commitment says.
KeyFound(w, l, s, r) == CallOf(l, s) = "keyproof" => w.keys[r.index + 1] = Key(w, l.at)

RightIndex(w, l, s, r, m) ==
  /\ KeyFound(w, l, s, r)
  /\ m.t = "get_index" => m.leaf = Leaf(Key(w, l.at))
  /\ m.t = "index" =>
       IF m.found = 0 THEN ~(l.at < Len(w.keys)) ELSE w.keys[m.at + 1] = Key(w, l.at)

RightFirst(w, l, s, r, m, q) ==
  /\ m.t = "get_proof" =>
       m.at = r.index /\ TreeOf(w, l, s) = IF m.tree = "keys" THEN w.keys ELSE w.values
  /\ m.t = "get_preimage" => m.hash = Sha(Whole(w, l, s, r))
  /\ m.t = "proof" =>
       m.leaf = Leaf(TreeOf(w, l, s)[r.index + 1]) /\ m.size = Len(Whole(w, l, s, r))
  /\ m.t = "preimage" => m.len = Len(Whole(w, l, s, r))
  /\ m.t \in {"proof", "preimage"} =>
       /\ Part(m.els, Whole(w, l, s, r), 0)
       /\ Rest(q, Unit(l, s), Whole(w, l, s, r), Len(m.els))

RightMore(w, l, s, r, m, q) ==
  /\ m.t \in {"get_more", "elements"} => OnTheWay(w, l, s, r)
  /\ m.t = "get_more" => Rest(q, Unit(l, s), Whole(w, l, s, r), Got(l, s, r))
  /\ m.t = "elements" =>
       /\ m.elen = Unit(l, s) /\ Part(m.els, Whole(w, l, s, r), Got(l, s, r))
       /\ Rest(q, Unit(l, s), Whole(w, l, s, r), Got(l, s, r) + Len(m.els))

Right(w, l, s, r, m, q) ==
  RightIndex(w, l, s, r, m) /\ RightFirst(w, l, s, r, m, q) /\ RightMore(w, l, s, r, m, q)

\* Why a lookup may fail although the client answers correctly.
Excused(w, l) ==
  \/ Committed(w, l) = Failed
  \/ l.kind \in {"element", "value"} /\ Len(w.values[l.at + 1]) > OutLen
  \/ l.kind = "sorted" /\ \E k \in DOMAIN w.keys : Len(w.keys[k]) > OutLen

\* The client's queue holds exactly what the lookup will still ask for, as long
\* as no lookup of the command was given up with elements in the queue.
Accounted ==
  client = "up" /\ ~abandoned =>
    Len(queue) = IF msg = NoMsg THEN 0 ELSE Owed(lookup, step, reg, msg)

\* Without a mistake of the client all that is exchanged is right.
Truthful ==
  client = "up" /\ ~abandoned /\ mistakes = 0 =>
    /\ msg # NoMsg => Right(world, lookup, step, reg, msg, queue)
    /\ outcome = Failed => Excused(world, lookup)

Told ==
  /\ abandoned \in BOOLEAN /\ mistakes \in Nat
  /\ client # "up" => outcome \in {None, Failed}
  /\ Accounted /\ Truthful

-----------------------------------------------------------------------------
(* Honest answers.                                                          *)

\* compare_byte_arrays is negative for all elements in lexicographic order.
LEMMA CompareComplete ==
  ASSUME NEW a \in Seq(Nat), NEW b \in Seq(Nat), Below(a, b)
  PROVE  ~(CompareByteArrays(a, b) >= 0)
<1> DEFINE min == IF Len(a) < Len(b) THEN Len(a) ELSE Len(b)
           diffs == {k \in 1..min : a[k] # b[k]}
           least == CHOOSE k \in diffs : \A j \in diffs : k <= j
<1>1. /\ Len(a) \in Nat /\ Len(b) \in Nat
      /\ \A k \in 1..Len(a) : a[k] \in Nat
      /\ \A k \in 1..Len(b) : b[k] \in Nat
  OBVIOUS
<1>2. CompareByteArrays(a, b) = IF diffs = {} THEN Len(a) - Len(b) ELSE a[least] - b[least]
  BY Zenon DEF CompareByteArrays
<1>3. min \in Nat /\ min <= Len(a) /\ min <= Len(b) /\ (min = Len(a) \/ min = Len(b))
  BY <1>1
<1> HIDE DEF min
<1>4. PICK k \in 1..Len(b) : /\ \A m \in 1..(k - 1) : m <= Len(a) /\ a[m] = b[m]
                             /\ k > Len(a) \/ a[k] < b[k]
  BY ZenonT(40) DEF Below
<1>5. CASE k > Len(a)
  <2>1. Len(a) < Len(b) /\ min = Len(a) /\ \A m \in 1..Len(a) : m \in 1..(k - 1)
    BY <1>1, <1>3, <1>5
  <2>2. diffs = {}
    BY <1>4, <2>1, Zenon
  <2>3. CompareByteArrays(a, b) = Len(a) - Len(b)
    BY <1>2, <2>2, Zenon
  <2> QED
    BY <1>1, <2>1, <2>3
<1>6. CASE ~(k > Len(a))
  <2>1. k \in 1..min /\ k \in 1..Len(a) /\ a[k] < b[k]
    BY <1>1, <1>3, <1>4, <1>6
  <2>2. a[k] \in Nat /\ b[k] \in Nat /\ a[k] # b[k]
    BY <1>1, <2>1
  <2>3. k \in diffs
    BY <2>1, <2>2, Zenon
  <2>4. \A j \in diffs : k <= j
    <3> SUFFICES ASSUME NEW j \in diffs, ~(k <= j) PROVE FALSE
      OBVIOUS
    <3>1. j \in 1..(k - 1) /\ a[j] # b[j]
      BY <1>3
    <3> QED
      BY <1>4, <3>1, Zenon
  <2>5. least \in diffs /\ \A j \in diffs : least <= j
    BY <2>3, <2>4, Zenon
  <2>6. least = k
    <3>1. least \in Nat /\ least <= k /\ k <= least
      <4> HIDE DEF least
      <4> QED
        BY <1>3, <2>3, <2>4, <2>5
    <3> HIDE DEF least
    <3> QED
      BY <3>1
  <2>7. CompareByteArrays(a, b) = a[k] - b[k]
    BY <1>2, <2>3, <2>6, Zenon
  <2> QED
    BY <2>1, <2>2, <2>7
<1> QED
  BY <1>5, <1>6

\* The preimage of a leaf hash is the element after a zero byte.
LEMMA ShaLeaf ==
  ASSUME NEW el \in Seq(Nat)
  PROVE  /\ <<0>> \o el \in Seq(Nat) /\ Len(<<0>> \o el) = Len(el) + 1
         /\ Sha(<<0>> \o el) = Leaf(el)
<1> DEFINE z == <<0>>
           a == z \o el
<1>1. z \in Seq(Nat) /\ z # <<>> /\ Len(z) = 1 /\ z[1] = 0 /\ Tail(z) = <<>>
  OBVIOUS
<1> HIDE DEF z
<1>2. a \in Seq(Nat) /\ a # <<>> /\ Tail(a) = Tail(z) \o el
  BY <1>1, TailJoined
<1>3. Tail(z) \o el = el
  <2>1. <<>> \o el = el
    OBVIOUS
  <2> QED
    BY <1>1, <2>1, Zenon
<1>4. Len(a) = Len(el) + 1 /\ a[1] = 0
  <2>1. /\ Len(a) = Len(z) + Len(el)
        /\ \A k \in 1..(Len(z) + Len(el)) : a[k] = IF k <= Len(z) THEN z[k] ELSE el[k - Len(z)]
    BY <1>1, Concatenation, Zenon
  <2>2. Len(el) \in Nat
    OBVIOUS
  <2> HIDE DEF a
  <2> QED
    BY <1>1, <2>1, <2>2
<1> HIDE DEF a
<1>5. Sha(a) = Leaf(el)
  <2>1. Tail(a) = el
    BY <1>2, <1>3, Zenon
  <2> QED
    BY <1>2, <1>4, <2>1, Zenon DEF Sha
<1> QED
  BY <1>2, <1>4, <1>5 DEF a, z

\* The list that a call reads, and its place in the tree.
LEMMA WholeFacts ==
  ASSUME NEW w \in Worlds, NEW l, NEW s, NEW r, Ready(w, l, s, r)
  PROVE  LET tree == TreeOf(w, l, s)
             all == Whole(w, l, s, r)
         IN  /\ CallOf(l, s) \in {"fetch", "stream"} =>
                  /\ all \in Seq(Nat) /\ tree[r.index + 1] \in Seq(Nat)
                  /\ all = <<0>> \o tree[r.index + 1]
                  /\ Len(all) = Len(tree[r.index + 1]) + 1 /\ Sha(all) = r.leaf
             /\ CallOf(l, s) = "preimage" => all = w.policy /\ all \in Seq(Nat)
<1> DEFINE tree == TreeOf(w, l, s)
           all == Whole(w, l, s, r)
           c == CallOf(l, s)
<1>1. /\ Len(tree) \in Nat /\ Len(tree) = Len(w.keys) /\ w.policy \in Seq(Nat)
      /\ \A k \in 1..Len(tree) : tree[k] \in Seq(Nat)
  <2>1. tree \in {w.keys, w.values} /\ Len(tree) = Len(w.keys)
    BY WorldFacts, Zenon
  <2>2. w.keys \in Seq(Seq(Nat)) /\ w.values \in Seq(Seq(Nat)) /\ w.policy \in Seq(Nat)
    BY WorldsAssumption, Zenon
  <2>3. tree \in Seq(Seq(Nat))
    BY <2>1, <2>2, Zenon
  <2> HIDE DEF tree
  <2> QED
    BY <2>1, <2>2, <2>3
<1>2. c \in {"fetch", "stream"} => r.index + 1 \in 1..Len(tree)
  <2>1. r.index \in Nat /\ (c \in {"fetch", "stream"} => r.index < Len(w.keys))
    BY Zenon DEF Ready
  <2> QED
    BY <1>1, <2>1
<1>4. CASE c \in {"fetch", "stream"}
  <2>1. all = <<0>> \o tree[r.index + 1] /\ c \notin Proofs /\ c # "preimage"
    BY <1>4 DEF Whole, Proofs
  <2>2. tree[r.index + 1] \in Seq(Nat)
    BY <1>1, <1>2, <1>4, Zenon
  <2>3. r.leaf = Leaf(tree[r.index + 1])
    BY <1>4 DEF Ready
  <2>4. all \in Seq(Nat) /\ Len(all) = Len(tree[r.index + 1]) + 1 /\ Sha(all) = r.leaf
    BY <2>1, <2>2, <2>3, ShaLeaf, Zenon
  <2> QED
    BY <2>1, <2>2, <2>4, Zenon
<1>5. CASE c \notin {"fetch", "stream"}
  <2>1. c = "preimage" => all = w.policy
    BY Zenon DEF Whole, Proofs
  <2> QED
    BY <1>1, <1>5, <2>1, Zenon
<1> QED
  BY <1>4, <1>5, Zenon

LEMMA ProofWhole ==
  ASSUME NEW w \in Worlds, NEW l, NEW s, NEW r, Ready(w, l, s, r), CallOf(l, s) \in Proofs
  PROVE  /\ Whole(w, l, s, r) = ProveLeaf(TreeOf(w, l, s), r.index)
         /\ Len(Whole(w, l, s, r)) \in Nat /\ Len(TreeOf(w, l, s)) \in Nat
         /\ r.index \in 0..(Len(TreeOf(w, l, s)) - 1)
<1> DEFINE tree == TreeOf(w, l, s)
           all == Whole(w, l, s, r)
<1>1. Len(tree) = Len(w.keys) /\ Len(w.keys) \in Nat
  BY WorldFacts, Zenon
<1>2. r.index \in Nat /\ r.index < Len(w.keys)
  BY Zenon DEF Ready
<1>3. all = ProveLeaf(tree, r.index)
  BY DEF Whole, Proofs
<1> HIDE DEF tree, all
<1>4. r.index \in 0..(Len(tree) - 1)
  BY <1>1, <1>2
<1>5. all \in Seq(TreeNode(tree))
  BY <1>1, <1>3, <1>4, ProofFacts, Zenon
<1>6. Len(all) \in Nat
  BY <1>5
<1> QED
  BY <1>1, <1>3, <1>4, <1>6, Zenon DEF tree, all

\* A device that returns keeps the account.
LEMMA ReturnTold ==
  ASSUME Inv, Told, msg # NoMsg, UNCHANGED <<world, queue, mistakes>>, NEW v, Return(v),
         ~abandoned /\ v # Failed => Len(queue) = 0,
         ~abandoned /\ mistakes = 0 /\ v = Failed => Excused(world, lookup)
  PROVE  Told'
<1>1. /\ world' = world /\ queue' = queue /\ mistakes' = mistakes /\ lookup' = lookup
      /\ client' = client /\ msg' = NoMsg /\ outcome' = v
      /\ abandoned' = (abandoned \/ (v = Failed /\ queue # <<>>))
  BY DEF Return
<1>2. client = "up" /\ abandoned \in BOOLEAN /\ mistakes \in Nat
  BY Zenon DEF Inv, Told
<1>3. abandoned' \in BOOLEAN /\ (~abandoned' => ~abandoned /\ (v = Failed => queue = <<>>))
  BY <1>1, <1>2, Zenon
<1>4. ~abandoned' => Len(queue) = 0
  BY <1>3
<1> QED
  BY <1>1, <1>2, <1>3, <1>4, Zenon DEF Told, Accounted, Truthful

\* A step that goes on with a lookup keeps the account.
LEMMA GoOnTold ==
  ASSUME Inv, Told, msg # NoMsg, UNCHANGED <<world, lookup, outcome, client, abandoned>>,
         mistakes' \in Nat, NEW s, NEW r, NEW m, step' = s, reg' = r, msg' = m, m # NoMsg,
         ~abandoned => Len(queue') = Owed(lookup, s, r, m),
         ~abandoned /\ mistakes' = 0 => Right(world, lookup, s, r, m, queue')
  PROVE  Told'
<1>1. /\ world' = world /\ lookup' = lookup /\ client' = client /\ outcome' = outcome
      /\ abandoned' = abandoned
  OBVIOUS
<1>2. client = "up" /\ outcome = None /\ abandoned \in BOOLEAN /\ None # Failed
  BY NoneAssumption, Zenon DEF Inv, Told
<1>3. Accounted'
  BY <1>1 DEF Accounted
<1>4. Truthful'
  BY <1>1, <1>2 DEF Truthful
<1> QED
  BY <1>1, <1>2, <1>3, <1>4, Zenon DEF Told

\* The request that starts a call.
LEMMA AskParts ==
  ASSUME world \in Worlds, NEW l, NEW s, NEW r, Ready(world, l, s, r)
  PROVE  LET c == CallOf(l, s)
             m == Ask(l, c, r)
         IN  /\ m # NoMsg /\ Owed(l, s, r, m) = 0
             /\ \/ c = "index" /\ m.t = "get_index" /\ m.leaf = Leaf(Key(world, l.at))
                \/ /\ c \in Proofs /\ m.t = "get_proof" /\ m.at = r.index
                   /\ m.tree = IF c = "keyproof" \/ l.kind = "sorted" THEN "keys" ELSE "values"
                \/ /\ c \in Reads /\ m.t = "get_preimage"
                   /\ m.hash = IF c = "preimage" THEN Sha(world.policy) ELSE r.leaf
<1> DEFINE c == CallOf(l, s)
           m == Ask(l, c, r)
<1>1. c \in {"index"} \cup Proofs \cup Reads
  BY ProgramFacts, Zenon DEF Ready, Follows
<1>2. \/ c = "index" /\ m.t = "get_index" /\ m.leaf = Leaf(Key(world, l.at))
      \/ /\ c \in Proofs /\ m.t = "get_proof" /\ m.at = r.index
         /\ m.tree = IF c = "keyproof" \/ l.kind = "sorted" THEN "keys" ELSE "values"
      \/ /\ c \in Reads /\ m.t = "get_preimage"
         /\ m.hash = IF c = "preimage" THEN Sha(world.policy) ELSE r.leaf
  <2> HIDE DEF c
  <2>1. m = Ask(l, c, r)
    OBVIOUS
  <2> HIDE DEF m
  <2>2. CASE c = "index"
    BY <2>1, <2>2 DEF Ask
  <2>3. CASE c = "keyproof"
    BY <2>1, <2>3 DEF Ask, Proofs
  <2>4. CASE c = "proof"
    BY <2>1, <2>4 DEF Ask, Proofs
  <2>5. CASE c \in {"fetch", "stream"}
    BY <2>1, <2>5 DEF Ask, Reads
  <2>6. CASE c = "preimage"
    BY <2>1, <2>6 DEF Ask, Reads
  <2> QED
    BY <1>1, <2>2, <2>3, <2>4, <2>5, <2>6, Zenon DEF Proofs, Reads
<1>3. NoMsg.t = "none"
  BY DEF NoMsg
<1> HIDE DEF m
<1>4. m # NoMsg /\ Owed(l, s, r, m) = 0
  BY <1>2, <1>3 DEF Owed
<1> QED
  BY <1>2, <1>4, Zenon DEF m

\* It asks for the right thing.
LEMMA AskRight ==
  ASSUME world \in Worlds, NEW l, NEW s, NEW r, Ready(world, l, s, r), NEW q,
         KeyFound(world, l, s, r)
  PROVE  Right(world, l, s, r, Ask(l, CallOf(l, s), r), q)
<1> DEFINE c == CallOf(l, s)
           m == Ask(l, c, r)
           all == Whole(world, l, s, r)
<1>2. \/ c = "index" /\ m.t = "get_index" /\ m.leaf = Leaf(Key(world, l.at))
      \/ /\ c \in Proofs /\ m.t = "get_proof" /\ m.at = r.index
         /\ m.tree = IF c = "keyproof" \/ l.kind = "sorted" THEN "keys" ELSE "values"
      \/ /\ c \in Reads /\ m.t = "get_preimage"
         /\ m.hash = IF c = "preimage" THEN Sha(world.policy) ELSE r.leaf
  BY AskParts, Zenon
<1> HIDE DEF m
<1>5. RightIndex(world, l, s, r, m) /\ RightMore(world, l, s, r, m, q)
  BY <1>2 DEF RightIndex, RightMore
<1>6. RightFirst(world, l, s, r, m, q)
  <2>1. CASE m.t = "get_index"
    BY <2>1 DEF RightFirst
  <2>2. CASE m.t = "get_proof"
    <3>1. TreeOf(world, l, s) = IF m.tree = "keys" THEN world.keys ELSE world.values
      BY <1>2, <2>2 DEF TreeOf
    <3> QED
      BY <1>2, <2>2, <3>1 DEF RightFirst
  <2>3. CASE m.t = "get_preimage"
    <3>1. c \in Reads /\ m.hash = IF c = "preimage" THEN Sha(world.policy) ELSE r.leaf
      BY <1>2, <2>3, SMTT(30)
    <3>2. /\ c = "preimage" => all = world.policy
          /\ c \in {"fetch", "stream"} => Sha(all) = r.leaf
      BY WholeFacts, Zenon
    <3>3. m.hash = Sha(all)
      BY <3>1, <3>2, Zenon DEF Reads
    <3> QED
      BY <2>3, <3>3 DEF RightFirst
  <2> QED
    BY <1>2, <2>1, <2>2, <2>3, Zenon
<1> QED
  BY <1>5, <1>6, Zenon DEF Right, m

LEMMA EnterTold ==
  ASSUME Inv, Told, msg # NoMsg, UNCHANGED <<world, queue, mistakes>>, NEW s, NEW r,
         Enter(s, r), Ready(world, lookup, s, r),
         ~abandoned => Len(queue) = 0,
         ~abandoned /\ mistakes = 0 => KeyFound(world, lookup, s, r)
  PROVE  Told'
<1> DEFINE m == Ask(lookup, CallOf(lookup, s), r)
<1>1. /\ step' = s /\ reg' = r /\ msg' = m
      /\ UNCHANGED <<world, queue, mistakes, lookup, outcome, client, abandoned>>
  BY DEF Enter, CallOf
<1>2. world \in Worlds /\ mistakes \in Nat
  BY Zenon DEF Inv, Told
<1>3. m # NoMsg /\ Owed(lookup, s, r, m) = 0
  BY <1>2, AskParts, Zenon
<1>4. ~abandoned /\ mistakes = 0 => Right(world, lookup, s, r, m, queue)
  BY <1>2, AskRight, Zenon
<1> HIDE DEF m
<1> QED
  BY <1>1, <1>2, <1>3, <1>4, GoOnTold

LEMMA AskMoreTold ==
  ASSUME Inv, Told, msg # NoMsg, UNCHANGED <<world, queue, mistakes>>, NEW r, AskMore(r),
         ~abandoned => Len(queue) = Lacks(lookup, step, r),
         ~abandoned /\ mistakes = 0 =>
           /\ KeyFound(world, lookup, step, r) /\ OnTheWay(world, lookup, step, r)
           /\ Rest(queue, Unit(lookup, step), Whole(world, lookup, step, r), Got(lookup, step, r))
  PROVE  Told'
<1>1. /\ step' = step /\ reg' = r /\ msg' = More /\ queue' = queue /\ mistakes' = mistakes
      /\ UNCHANGED <<world, lookup, outcome, client, abandoned>>
  BY DEF AskMore
<1>2. More.t = "get_more" /\ More # NoMsg
  BY DEF More, NoMsg
<1>3. mistakes \in Nat
  BY Zenon DEF Told
<1>4. Owed(lookup, step, r, More) = Lacks(lookup, step, r)
  BY <1>2 DEF Owed
<1>5. ~abandoned /\ mistakes = 0 => Right(world, lookup, step, r, More, queue)
  BY <1>2 DEF Right, RightIndex, RightFirst, RightMore
<1> QED
  BY <1>1, <1>2, <1>3, <1>4, <1>5, GoOnTold, Zenon

LEMMA NextKeyTold ==
  ASSUME Inv, Told, msg # NoMsg, UNCHANGED <<world, queue, mistakes>>, NEW el, NextKey(el),
         lookup.kind = "sorted", Ready(world, lookup, step, reg), reg.index < Size,
         el = world.keys[reg.index + 1], ~abandoned => Len(queue) = 0
  PROVE  Told'
<1> DEFINE q == [NoReg EXCEPT !.index = reg.index + 1, !.prev = el]
           i == reg.index
<1>1. world \in Worlds
  BY Zenon DEF Inv
<1>2. CASE (i > 0 /\ CompareByteArrays(reg.prev, el) >= 0) /\ Return(Failed)
  <2>1. world.keys \in Seq(Seq(Nat)) /\ Size = Len(world.keys) /\ Size \in Nat
    BY <1>1, WorldFacts DEF Size
  <2>2. i \in Nat /\ reg.prev = world.keys[i]
    BY <1>2, Zenon DEF Ready
  <2>3. i \in 1..Size /\ i + 1 \in 1..Size /\ i < i + 1
    BY <1>2, <2>1, <2>2
  <2>4. reg.prev \in Seq(Nat) /\ el \in Seq(Nat)
    BY <2>1, <2>2, <2>3
  <2>5. ~Below(world.keys[i], world.keys[i + 1])
    BY <1>2, <2>2, <2>4, CompareComplete, Zenon
  <2>6. ~StrictlySorted(world.keys)
    BY <2>1, <2>3, <2>5, Zenon DEF StrictlySorted
  <2>7. Committed(world, lookup) = Failed
    BY <2>6, Zenon DEF Committed
  <2> QED
    BY <1>2, <2>7, ReturnTold, Zenon DEF Excused
<1>3. CASE /\ ~(i > 0 /\ CompareByteArrays(reg.prev, el) >= 0)
           /\ IF i + 1 = Size THEN Return("sorted") ELSE Enter(1, q)
  <2>1. /\ i + 1 = Size => StrictlySorted(world.keys)
        /\ i + 1 # Size => Ready(world, lookup, 1, q)
    BY <1>1, <1>3, NextKeyReady, Zenon
  <2>2. CallOf(lookup, 1) = "proof"
    BY Programs DEF CallOf
  <2> HIDE DEF q
  <2>3. CASE i + 1 = Size
    <3>1. Committed(world, lookup) = "sorted"
      BY <2>1, <2>3, Zenon DEF Committed
    <3> QED
      BY <1>3, <2>3, <3>1, ReturnTold, Zenon DEF Excused
  <2>4. CASE i + 1 # Size
    <3>1. KeyFound(world, lookup, 1, q)
      BY <2>2 DEF KeyFound
    <3> QED
      BY <1>3, <2>1, <2>4, <3>1, EnterTold, Zenon
  <2> QED
    BY <2>3, <2>4, Zenon
<1> QED
  BY <1>2, <1>3, Zenon DEF NextKey

LEMMA FinishTold ==
  ASSUME Inv, Told, msg # NoMsg, UNCHANGED <<world, queue, mistakes>>, NEW r, Finish(r),
         Ready(world, lookup, step, r), Done(world, lookup, step, r),
         r.index = reg.index, ~abandoned => Len(queue) = 0
  PROVE  Told'
<1> DEFINE n == Len(Program[lookup.kind])
<1>1. /\ world \in Worlds /\ Ready(world, lookup, step, reg)
      /\ Follows(lookup, step) /\ step \in 1..n
  BY InFlight, Zenon
<1>2. CASE step < n
  <2>1. Ready(world, lookup, step + 1, r)
    BY <1>1, <1>2, NextReady, Zenon
  <2>2. Enter(step + 1, r)
    BY <1>2, Zenon DEF Finish
  <2>3. CallOf(lookup, step + 1) # "keyproof"
    <3>1. step # n /\ CallOf(lookup, step) # "index"
      BY <1>1, <1>2 DEF Done, Follows
    <3> QED
      BY <1>1, <1>2, <3>1 DEF Follows, Reads, Proofs
  <2>4. KeyFound(world, lookup, step + 1, r)
    BY <2>3, Zenon DEF KeyFound
  <2> QED
    BY <2>1, <2>2, <2>4, EnterTold, Zenon
<1>3. CASE ~(step < n) /\ lookup.kind = "sorted"
  <2>1. NextKey(r.out)
    BY <1>3, Zenon DEF Finish
  <2>2. CallOf(lookup, step) \in {"fetch", "stream"}
    <3>1. step = n
      <4>1. n \in Nat /\ step \in 1..n /\ ~(step < n)
        BY <1>1, <1>3, Zenon DEF Follows
      <4> HIDE DEF n
      <4> QED
        BY <4>1
    <3> QED
      BY <1>1, <1>3, <3>1, Zenon DEF Follows, Done, MapKinds, Proofs, Reads
  <2>3. TreeOf(world, lookup, step) = world.keys
    BY <1>3, Zenon DEF TreeOf
  <2>4. r.out = world.keys[reg.index + 1] /\ reg.index < Size
    BY <1>1, <2>2, <2>3, Zenon DEF Done, Ready, Size
  <2> QED
    BY <1>1, <1>3, <2>1, <2>4, NextKeyTold, Zenon
<1>4. CASE ~(step < n) /\ lookup.kind # "sorted"
  <2> DEFINE v == IF lookup.kind = "valuehash" THEN r.leaf ELSE r.out
  <2>1. Return(v)
    BY <1>4, Zenon DEF Finish
  <2>2. v = Committed(world, lookup)
    BY <1>1, <1>4, FoundCommitted, Zenon
  <2> HIDE DEF v
  <2> QED
    BY <2>1, <2>2, ReturnTold, Zenon DEF Excused
<1> QED
  BY <1>2, <1>3, <1>4, Zenon

LEMMA ProofCheckedTold ==
  ASSUME Inv, Told, msg # NoMsg, UNCHANGED <<world, queue, mistakes>>, NEW r, ProofChecked(r),
         Ready(world, lookup, step, r), CallOf(lookup, step) \in Proofs,
         r.index = reg.index, ~abandoned => Len(queue) = 0,
         r.cur = Root(TreeOf(world, lookup, step)) =>
           r.leaf = Leaf(TreeOf(world, lookup, step)[r.index + 1]),
         ~abandoned /\ mistakes = 0 =>
           r.cur = Root(TreeOf(world, lookup, step)) /\ KeyFound(world, lookup, step, r)
  PROVE  Told'
<1>1. Tree = TreeOf(world, lookup, step) /\ Call = CallOf(lookup, step)
  BY TreeIs DEF Ready
<1>2. \/ r.cur # Root(Tree) /\ Return(Failed)
      \/ Call = "keyproof" /\ r.leaf # Leaf(Key(world, lookup.at)) /\ Return(Failed)
      \/ /\ r.cur = Root(Tree)
         /\ Call = "keyproof" => r.leaf = Leaf(Key(world, lookup.at))
         /\ Finish(r)
  BY Zenon DEF ProofChecked
<1>3. CASE r.cur # Root(Tree) /\ Return(Failed)
  BY <1>1, <1>3, ReturnTold, Zenon
<1>4. CASE Call = "keyproof" /\ r.leaf # Leaf(Key(world, lookup.at)) /\ Return(Failed)
  <2>1. TreeOf(world, lookup, step) = world.keys
    BY <1>1, <1>4, Zenon DEF TreeOf
  <2>2. ~(~abandoned /\ mistakes = 0)
    BY <1>1, <1>4, <2>1, Zenon DEF KeyFound
  <2> QED
    BY <1>4, <2>2, ReturnTold, NoneAssumption, Zenon
<1>5. CASE /\ r.cur = Root(Tree)
           /\ Call = "keyproof" => r.leaf = Leaf(Key(world, lookup.at))
           /\ Finish(r)
  <2>1. Done(world, lookup, step, r)
    BY <1>1, <1>5, Zenon DEF Done, Proofs
  <2> QED
    BY <1>5, <2>1, FinishTold, Zenon
<1> QED
  BY <1>2, <1>3, <1>4, <1>5, Zenon

\* Right siblings lead to the right hash above.
LEMMA ClimbRight ==
  ASSUME NEW els, NEW r, NEW siblings, Len(els) \in Nat, r.index \in 0..(Len(els) - 1),
         r.pos \in Nat, Len(siblings) \in Nat,
         r.size = Len(ProveLeaf(els, r.index)), r.pos + Len(siblings) <= r.size,
         r.cur = Along(els, r.index, r.size - r.pos),
         Part(siblings, ProveLeaf(els, r.index), r.pos)
  PROVE  Climb(Len(els), r.index, r.cur, r.pos, r.size, siblings)
           = Along(els, r.index, r.size - (r.pos + Len(siblings)))
<1> DEFINE i == r.index
           pos == r.pos
           P == ProveLeaf(els, i)
<1>1. pos + Len(siblings) <= Len(P) /\ \A k \in 1..Len(siblings) : siblings[k] = P[pos + k]
  BY Zenon DEF Part
<1>2. Climb(Len(els), i, Along(els, i, Len(P) - pos), pos, Len(P), siblings)
        = Along(els, i, Len(P) - (pos + Len(siblings)))
  <2>1. i \in 0..(Len(els) - 1) /\ pos \in Nat
    BY Zenon
  <2> HIDE DEF i, pos
  <2> QED
    BY <1>1, <2>1, ClimbHonest, SMTT(60)
<1> HIDE DEF P
<1> QED
  BY <1>2, Zenon DEF P

LEMMA ClimbTold ==
  ASSUME Inv, Told, msg # NoMsg, UNCHANGED <<world, queue, mistakes>>, NEW r, NEW els,
         ClimbWith(r, els), Ready(world, lookup, step, r), CallOf(lookup, step) \in Proofs,
         Climbing(world, lookup, step, r), r.index = reg.index, r.prev = reg.prev,
         Len(els) \in Nat, r.pos + Len(els) <= r.size,
         ~abandoned => Len(queue) = r.size - (r.pos + Len(els)),
         ~abandoned /\ mistakes = 0 =>
           /\ KeyFound(world, lookup, step, r) /\ OnTheWay(world, lookup, step, r)
           /\ Part(els, Whole(world, lookup, step, r), r.pos)
           /\ Rest(queue, HashLen, Whole(world, lookup, step, r), r.pos + Len(els))
  PROVE  Told'
<1> DEFINE tree == TreeOf(world, lookup, step)
           cur == Climb(Size, r.index, r.cur, r.pos, r.size, els)
           pos == r.pos + Len(els)
           next == [r EXCEPT !.cur = cur, !.pos = pos]
           all == Whole(world, lookup, step, r)
<1>1. /\ world \in Worlds /\ r.index \in Nat /\ r.index < Len(world.keys) /\ DOMAIN r = Fields
      /\ r.size \in Nat /\ r.pos \in 0..r.size
  BY Zenon DEF Inv, Ready, Climbing
<1>2. /\ Len(tree) \in Nat /\ Len(tree) = Size /\ r.index \in 0..(Len(tree) - 1)
      /\ all = ProveLeaf(tree, r.index) /\ Len(all) \in Nat
  <2>1. Len(tree) = Len(world.keys)
    BY <1>1, WorldFacts, Zenon
  <2>2. /\ all = ProveLeaf(tree, r.index) /\ Len(all) \in Nat /\ Len(tree) \in Nat
        /\ r.index \in 0..(Len(tree) - 1)
    BY <1>1, ProofWhole
  <2> QED
    BY <2>1, <2>2, Zenon DEF Size
<1>3. /\ DOMAIN next = Fields /\ next.cur = cur /\ next.pos = pos /\ next.size = r.size
      /\ next.index = r.index /\ next.leaf = r.leaf /\ next.prev = r.prev
  BY <1>1 DEF Fields
<1>4. IF cur = Bad THEN Return(Failed)
      ELSE IF pos = r.size THEN ProofChecked(next) ELSE AskMore(next)
  <2>1. IF next.cur = Bad THEN Return(Failed)
        ELSE IF next.pos = r.size THEN ProofChecked(next) ELSE AskMore(next)
    BY DEF ClimbWith
  <2> HIDE DEF next, cur, pos
  <2> QED
    BY <1>3, <2>1, Zenon
<1>5. pos \in 0..r.size /\ r.size - pos \in Nat /\ r.pos \in Nat
  BY <1>1
<1>6. cur # Bad /\ cur = Along(tree, r.index, r.size - pos) => r.leaf = Leaf(tree[r.index + 1])
  <2> SUFFICES ASSUME cur # Bad, cur = Along(tree, r.index, r.size - pos)
               PROVE  r.leaf = Leaf(tree[r.index + 1])
    OBVIOUS
  <2>1. r.cur = Along(tree, r.index, r.size - r.pos)
    <3> HIDE DEF tree
    <3> QED
      BY <1>1, <1>2, <1>5, ClimbSound, ZenonT(40)
  <2> QED
    BY <2>1, Zenon DEF Climbing
<1>7. ASSUME ~abandoned, mistakes = 0
      PROVE  cur = Along(tree, r.index, r.size - pos) /\ cur # Bad /\ r.size = Len(all)
  <2>1. r.pos + (r.size - r.pos) = Len(all) /\ r.cur = Along(tree, r.index, r.size - r.pos)
    BY <1>7, Zenon DEF OnTheWay, Got, Lacks
  <2>2. r.size = Len(all)
    <3> HIDE DEF all
    <3> QED
      BY <1>1, <2>1
  <2>4. cur = Along(tree, r.index, r.size - pos)
    <3>1. r.size = Len(ProveLeaf(tree, r.index)) /\ Part(els, ProveLeaf(tree, r.index), r.pos)
      BY <1>2, <1>7, <2>2, Zenon
    <3>2. Climb(Len(tree), r.index, r.cur, r.pos, r.size, els) = Along(tree, r.index, r.size - pos)
      <4> HIDE DEF tree
      <4> QED
        BY <1>2, <1>5, <2>1, <3>1, ClimbRight, Zenon
    <3> QED
      BY <1>2, <3>2, Zenon
  <2>5. Along(tree, r.index, r.size - pos) # Bad
    <3> HIDE DEF tree
    <3> QED
      BY <1>2, <1>5, ProvingStep, ZenonT(40)
  <2> QED
    BY <2>2, <2>4, <2>5, Zenon
<1> HIDE DEF cur
<1>8. Ready(world, lookup, step, next)
  <2>1. CallOf(lookup, step) \notin {"fetch", "stream"}
    BY Zenon DEF Proofs
  <2> HIDE DEF next
  <2> QED
    BY <1>3, <2>1, ReadyKeeps
<1> HIDE DEF next, tree
<1>9. KeyFound(world, lookup, step, r) => KeyFound(world, lookup, step, next)
  BY <1>3, Zenon DEF KeyFound
<1>10. CASE cur = Bad
  BY <1>4, <1>7, <1>10, ReturnTold, Zenon
<1>11. CASE cur # Bad /\ pos = r.size
  <2>1. Along(tree, r.index, 0) = Root(tree) /\ r.size - pos = 0
    BY <1>1, <1>2, <1>11, AlongRoot
  <2>2. next.cur = Root(tree) => next.leaf = Leaf(tree[next.index + 1])
    BY <1>3, <1>6, <1>11, <2>1
  <2>3. ProofChecked(next) /\ next.index = reg.index
    BY <1>3, <1>4, <1>11
  <2>4. ~abandoned => Len(queue) = 0
    BY <2>1, Zenon
  <2>5. ~abandoned /\ mistakes = 0 => next.cur = Root(tree) /\ KeyFound(world, lookup, step, next)
    BY <1>3, <1>7, <1>9, <2>1, Zenon
  <2> HIDE DEF pos
  <2> QED
    BY <1>8, <2>2, <2>3, <2>4, <2>5, ProofCheckedTold, Zenon DEF tree
<1>12. CASE cur # Bad /\ pos # r.size
  <2>1. AskMore(next)
    BY <1>4, <1>12, Zenon
  <2>2. Lacks(lookup, step, next) = r.size - pos /\ Got(lookup, step, next) = pos
    BY <1>3, Zenon DEF Lacks, Got
  <2>3. Whole(world, lookup, step, next) = all
    BY <1>3, Zenon DEF Whole
  <2>4. Unit(lookup, step) = HashLen
    BY Zenon DEF Unit
  <2>5. ASSUME ~abandoned, mistakes = 0
        PROVE  /\ KeyFound(world, lookup, step, next) /\ OnTheWay(world, lookup, step, next)
               /\ Rest(queue, HashLen, all, pos)
    <3>1. pos + (r.size - pos) = Len(all)
      BY <1>1, <1>5, <1>7, <2>5
    <3>2. next.leaf = Leaf(tree[next.index + 1])
      BY <1>3, <1>6, <1>7, <2>5, Zenon
    <3>3. next.cur = Along(tree, next.index, next.size - next.pos)
      BY <1>3, <1>7, <2>5, Zenon
    <3> HIDE DEF pos, all
    <3>4. OnTheWay(world, lookup, step, next)
      BY <2>2, <2>3, <3>1, <3>2, <3>3, Zenon DEF OnTheWay, tree
    <3> QED
      BY <1>9, <2>5, <3>4, Zenon DEF pos, all
  <2> HIDE DEF pos, all
  <2> QED
    BY <2>1, <2>2, <2>3, <2>4, <2>5, AskMoreTold, Zenon DEF pos
<1> QED
  BY <1>10, <1>11, <1>12, Zenon

LEMMA HashTold ==
  ASSUME Inv, Told, msg # NoMsg, UNCHANGED <<world, queue, mistakes>>, NEW r, HashChecked(r),
         Ready(world, lookup, step, r), CallOf(lookup, step) \in Reads,
         Bytes(world, lookup, step, r), r.index = reg.index,
         ~abandoned => Len(queue) = r.left,
         ~abandoned /\ mistakes = 0 =>
           /\ OnTheWay(world, lookup, step, r)
           /\ Rest(queue, 1, Whole(world, lookup, step, r), Len(r.hashed))
  PROVE  Told'
<1> DEFINE all == Whole(world, lookup, step, r)
<1>1. \/ r.left > 0 /\ AskMore(r)
      \/ ~(r.left > 0) /\ Sha(r.hashed) # r.want /\ Return(Failed)
      \/ ~(r.left > 0) /\ Sha(r.hashed) = r.want /\ Finish(r)
  BY Zenon DEF HashChecked
<1>2. world \in Worlds /\ CallOf(lookup, step) \notin Proofs
  BY DEF Inv, Proofs, Reads
<1>3. /\ Lacks(lookup, step, r) = r.left /\ Got(lookup, step, r) = Len(r.hashed)
      /\ Unit(lookup, step) = 1
  BY <1>2, Zenon DEF Lacks, Got, Unit
<1>4. r.left \in Nat /\ r.hashed \in Seq(Nat)
  BY Zenon DEF Bytes
<1>5. CASE r.left > 0 /\ AskMore(r)
  <2>1. KeyFound(world, lookup, step, r)
    BY <1>2 DEF KeyFound, Proofs
  <2> QED
    BY <1>3, <1>5, <2>1, AskMoreTold, Zenon
<1>6. ASSUME ~(r.left > 0) PROVE r.left = 0
  BY <1>4, <1>6
<1>7. CASE ~(r.left > 0) /\ Sha(r.hashed) # r.want /\ Return(Failed)
  <2>1. ASSUME ~abandoned, mistakes = 0 PROVE FALSE
    <3>1. Len(r.hashed) + 0 = Len(all) /\ r.want = Sha(all) /\ Part(r.hashed, all, 0)
      BY <1>2, <1>3, <1>6, <1>7, <2>1, Zenon DEF OnTheWay
    <3>2. all \in Seq(Nat)
      BY <1>2, WholeFacts, Zenon DEF Reads
    <3>3. \A k \in 1..Len(r.hashed) : r.hashed[k] = all[0 + k]
      BY <3>1, Zenon DEF Part
    <3> DEFINE h == r.hashed
    <3>4. h \in Seq(Nat) /\ Len(h) + 0 = Len(all) /\ \A k \in 1..Len(h) : h[k] = all[0 + k]
      BY <1>4, <3>1, <3>3, Zenon
    <3> HIDE DEF h, all
    <3>5. h = all
      BY <3>2, <3>4
    <3> QED
      BY <1>7, <3>1, <3>5, Zenon DEF h
  <2> QED
    BY <1>7, <2>1, ReturnTold, Zenon
<1>8. CASE ~(r.left > 0) /\ Sha(r.hashed) = r.want /\ Finish(r)
  <2>1. Done(world, lookup, step, r)
    BY <1>2, <1>8, HashDone, Zenon
  <2> QED
    BY <1>6, <1>8, <2>1, FinishTold, Zenon
<1> QED
  BY <1>1, <1>5, <1>7, <1>8, Zenon

-----------------------------------------------------------------------------
(* The account through the actions.                                         *)

LEMMA GotIndexTold ==
  ASSUME Inv, Told, GotIndex
  PROVE  Told'
<1> DEFINE q == [reg EXCEPT !.index = msg.at]
<1>1. /\ msg # NoMsg /\ msg.t = "index" /\ UNCHANGED <<world, queue, mistakes>>
      /\ \/ msg.found = 0 /\ Return(Failed)
         \/ msg.found # 0 /\ Enter(step + 1, q)
  BY Zenon DEF GotIndex, Receives
<1>2. /\ CallOf(lookup, step) = "index" /\ (msg.found # 0 => msg.at \in 0..(Len(world.keys) - 1))
      /\ world \in Worlds /\ lookup \in AllLookups /\ client = "up"
  BY <1>1, InFlight DEF InCall, Inv
<1>3. /\ lookup.kind \in MapKinds /\ CallOf(lookup, step + 1) = "keyproof"
      /\ step + 1 \in 1..Len(Program[lookup.kind])
  BY <1>1, <1>2, InFlight DEF Follows
<1>4. ~abandoned => Len(queue) = 0
  BY <1>1, <1>2 DEF Told, Accounted, Owed
<1>5. ~abandoned /\ mistakes = 0 =>
        IF msg.found = 0 THEN ~(lookup.at < Len(world.keys))
        ELSE world.keys[msg.at + 1] = Key(world, lookup.at)
  BY <1>1, <1>2, Zenon DEF Told, Truthful, Right, RightIndex
<1>6. CASE msg.found = 0 /\ Return(Failed)
  <2>1. ASSUME ~(lookup.at < Len(world.keys)) PROVE Committed(world, lookup) = Failed
    <3>1. Len(world.values) = Len(world.keys)
      BY <1>2, WorldFacts
    <3> QED
      BY <1>3, <2>1, <3>1 DEF MapKinds, Committed
  <2> QED
    BY <1>1, <1>4, <1>5, <1>6, <2>1, ReturnTold, Zenon DEF Excused
<1>7. CASE msg.found # 0 /\ Enter(step + 1, q)
  <2>1. DOMAIN q = Fields /\ q.index = msg.at
    BY <1>1, InFlight DEF Fields
  <2>3. StrictlySorted(world.keys)
    BY <1>1, <1>3, InFlight DEF Ready
  <2>4. msg.at \in Nat /\ msg.at < Len(world.keys)
    <3>1. Len(world.keys) \in Nat
      BY <1>2, WorldFacts
    <3> QED
      BY <1>2, <1>7, <3>1
  <2> HIDE DEF q
  <2>5. Ready(world, lookup, step + 1, q)
    BY <1>2, <1>3, <2>1, <2>3, <2>4, Zenon DEF Ready, MapKinds, Proofs
  <2>6. ~abandoned /\ mistakes = 0 => KeyFound(world, lookup, step + 1, q)
    BY <1>5, <1>7, <2>1, Zenon DEF KeyFound
  <2> QED
    BY <1>1, <1>4, <1>7, <2>5, <2>6, EnterTold, Zenon
<1> QED
  BY <1>1, <1>6, <1>7, Zenon

LEMMA GotProofTold ==
  ASSUME Inv, Told, GotProof
  PROVE  Told'
<1> DEFINE r == [reg EXCEPT !.leaf = msg.leaf, !.cur = msg.leaf, !.pos = 0, !.size = msg.size]
           all == Whole(world, lookup, step, reg)
<1>1. /\ msg # NoMsg /\ msg.t = "proof" /\ UNCHANGED <<world, queue, mistakes>>
      /\ ClimbWith(r, msg.els)
  BY DEF GotProof, Receives
<1>2. /\ CallOf(lookup, step) \in Proofs /\ client = "up" /\ world \in Worlds
      /\ msg.size \in Nat /\ Len(msg.els) \in Nat /\ Len(msg.els) <= msg.size
  BY <1>1, InFlight DEF InCall, Inv
<1>3. /\ DOMAIN r = Fields /\ r.leaf = msg.leaf /\ r.cur = msg.leaf /\ r.pos = 0
      /\ r.size = msg.size /\ r.index = reg.index /\ r.prev = reg.prev
  BY <1>1, InFlight DEF Fields
<1> HIDE DEF r
<1>4. Ready(world, lookup, step, r) /\ Climbing(world, lookup, step, r)
  BY <1>1, <1>3, ProofReady, Zenon
<1>5. r.pos + Len(msg.els) = Len(msg.els) /\ r.pos + Len(msg.els) <= r.size
  BY <1>2, <1>3
<1>6. ~abandoned => Len(queue) = r.size - (r.pos + Len(msg.els))
  <2>1. Owed(lookup, step, reg, msg) = msg.size - Len(msg.els)
    BY <1>1 DEF Owed
  <2> QED
    BY <1>1, <1>2, <1>3, <1>5, <2>1, Zenon DEF Told, Accounted
<1>7. ASSUME ~abandoned, mistakes = 0
      PROVE  /\ KeyFound(world, lookup, step, r) /\ OnTheWay(world, lookup, step, r)
             /\ Part(msg.els, Whole(world, lookup, step, r), r.pos)
             /\ Rest(queue, HashLen, Whole(world, lookup, step, r), r.pos + Len(msg.els))
  <2>1. RightIndex(world, lookup, step, reg, msg) /\ RightFirst(world, lookup, step, reg, msg, queue)
    BY <1>1, <1>2, <1>7, Zenon DEF Told, Truthful, Right
  <2>2. /\ KeyFound(world, lookup, step, reg)
        /\ msg.leaf = Leaf(TreeOf(world, lookup, step)[reg.index + 1])
        /\ msg.size = Len(all) /\ Part(msg.els, all, 0) /\ Rest(queue, HashLen, all, Len(msg.els))
    BY <1>1, <1>2, <2>1, Zenon DEF RightIndex, RightFirst, Unit
  <2>3. KeyFound(world, lookup, step, r) /\ Whole(world, lookup, step, r) = all
    BY <1>3, <2>2, Zenon DEF KeyFound, Whole
  <2>4. /\ r.leaf = Leaf(TreeOf(world, lookup, step)[r.index + 1])
        /\ r.cur = Along(TreeOf(world, lookup, step), r.index, r.size)
    <3> DEFINE tree == TreeOf(world, lookup, step)
    <3>1. /\ all = ProveLeaf(tree, reg.index) /\ Len(tree) \in Nat
          /\ reg.index \in 0..(Len(tree) - 1)
      BY <1>1, <1>2, InFlight, ProofWhole
    <3>2. Along(tree, reg.index, Len(ProveLeaf(tree, reg.index))) = Leaf(tree[reg.index + 1])
      <4> HIDE DEF tree
      <4> QED
        BY <3>1, ProofFacts, Zenon
    <3> HIDE DEF tree, all
    <3> QED
      BY <1>3, <2>2, <3>1, <3>2, Zenon DEF tree
  <2>5. r.size - r.pos = r.size /\ r.pos + (r.size - r.pos) = Len(all)
    <3>1. r.size \in Nat /\ r.size = Len(all) /\ r.pos = 0
      BY <1>2, <1>3, <2>2, Zenon
    <3> HIDE DEF all
    <3> QED
      BY <3>1
  <2>6. OnTheWay(world, lookup, step, r)
    <3> HIDE DEF all
    <3> QED
      BY <1>2, <2>3, <2>4, <2>5, Zenon DEF OnTheWay, Got, Lacks
  <2> QED
    BY <1>3, <1>5, <2>2, <2>3, <2>6, Zenon
<1> QED
  BY <1>1, <1>2, <1>3, <1>4, <1>5, <1>6, <1>7, ClimbTold, Zenon

LEMMA GotMoreProofTold ==
  ASSUME Inv, Told, GotMoreProof
  PROVE  Told'
<1> DEFINE all == Whole(world, lookup, step, reg)
           n == Len(msg.els)
<1>1. /\ msg # NoMsg /\ msg.t = "elements" /\ UNCHANGED <<world, queue, mistakes>> /\ Call \in Proofs
      /\ \/ (msg.elen # HashLen \/ reg.pos + n > reg.size) /\ Return(Failed)
         \/ ~(reg.pos + n > reg.size) /\ ClimbWith(reg, msg.els)
  BY DEF GotMoreProof, Receives, Proofs
<1>2. CallOf(lookup, step) \in Proofs /\ Ready(world, lookup, step, reg) /\ client = "up"
  BY <1>1, InFlight DEF Inv
<1>3. n \in Nat /\ Climbing(world, lookup, step, reg)
  BY <1>1, <1>2, MoreInFlight DEF Proofs
<1>4. ~abandoned => Len(queue) = (reg.size - reg.pos) - n
  <2>1. Owed(lookup, step, reg, msg) = (reg.size - reg.pos) - n
    BY <1>1, <1>2 DEF Owed, Lacks
  <2> QED
    BY <1>1, <1>2, <2>1, Zenon DEF Told, Accounted
<1>5. reg.size \in Nat /\ reg.pos \in Nat /\ Len(queue) \in Nat
  <2>1. queue \in Seq(Items(world))
    BY Zenon DEF Inv
  <2> QED
    BY <1>3, <2>1 DEF Climbing
<1>6. ASSUME ~abandoned, mistakes = 0
      PROVE  /\ KeyFound(world, lookup, step, reg) /\ OnTheWay(world, lookup, step, reg)
             /\ msg.elen = HashLen /\ Part(msg.els, all, reg.pos)
             /\ Rest(queue, HashLen, all, reg.pos + n)
  <2>1. RightIndex(world, lookup, step, reg, msg) /\ RightMore(world, lookup, step, reg, msg, queue)
    BY <1>1, <1>2, <1>6, Zenon DEF Told, Truthful, Right
  <2> QED
    BY <1>1, <1>2, <2>1, Zenon DEF RightIndex, RightMore, Unit, Got
<1> HIDE DEF n
<1>7. CASE (msg.elen # HashLen \/ reg.pos + n > reg.size) /\ Return(Failed)
  <2>1. ~abandoned => ~(reg.pos + n > reg.size)
    BY <1>3, <1>4, <1>5
  <2> QED
    BY <1>1, <1>6, <1>7, <2>1, ReturnTold, Zenon
<1>8. CASE ~(reg.pos + n > reg.size) /\ ClimbWith(reg, msg.els)
  <2>1. reg.pos + n <= reg.size /\ (reg.size - reg.pos) - n = reg.size - (reg.pos + n)
    BY <1>3, <1>5, <1>8
  <2> HIDE DEF all
  <2> QED
    BY <1>1, <1>2, <1>3, <1>4, <1>6, <1>8, <2>1, ClimbTold, Zenon DEF n, all
<1> QED
  BY <1>1, <1>7, <1>8, Zenon

LEMMA FirstBytesTold ==
  ASSUME Inv, Told, msg # NoMsg, msg.t = "preimage", UNCHANGED <<world, queue, mistakes>>,
         NEW want, NEW out, FirstBytes(want, out),
         CallOf(lookup, step) = "fetch" => msg.len - 1 <= OutLen,
         CallOf(lookup, step) \in {"fetch", "stream"} => want = reg.leaf /\ out = Tail(msg.els),
         CallOf(lookup, step) = "preimage" =>
           want = Sha(world.policy) /\ (Len(msg.els) <= OutLen => out = msg.els)
  PROVE  Told'
<1> DEFINE r == [reg EXCEPT !.want = want, !.hashed = msg.els, !.len = msg.len,
                            !.left = msg.len - Len(msg.els), !.out = out]
           all == Whole(world, lookup, step, reg)
           c == CallOf(lookup, step)
<1>1. HashChecked(r)
  BY Zenon DEF FirstBytes
<1>2. /\ c \in Reads /\ r.index = reg.index
      /\ Ready(world, lookup, step, r) /\ Bytes(world, lookup, step, r)
      /\ r.want = want /\ r.hashed = msg.els /\ r.left = msg.len - Len(msg.els)
  <2>1. /\ CallOf(lookup, step) \in Reads /\ r.index = reg.index
        /\ Ready(world, lookup, step, r) /\ Bytes(world, lookup, step, r)
    BY FirstBytesFacts, ZenonT(40)
  <2>2. r.want = want /\ r.hashed = msg.els /\ r.left = msg.len - Len(msg.els)
    BY FirstBytesFacts, ZenonT(40)
  <2> QED
    BY <2>1, <2>2, Zenon
<1> HIDE DEF r
<1>3. /\ client = "up" /\ world \in Worlds /\ Ready(world, lookup, step, reg)
      /\ msg.els \in Seq(Nat) /\ msg.len \in Nat /\ Len(msg.els) \in Nat
  <2>1. client = "up" /\ world \in Worlds /\ Ready(world, lookup, step, reg)
    BY Zenon DEF Inv
  <2>2. msg.els \in Seq(Nat) /\ msg.len \in Nat
    BY InFlight DEF InCall
  <2> QED
    BY <2>1, <2>2
<1>4. ~abandoned => Len(queue) = r.left
  <2>1. Owed(lookup, step, reg, msg) = msg.len - Len(msg.els)
    BY DEF Owed
  <2> QED
    BY <1>2, <1>3, <2>1, Zenon DEF Told, Accounted
<1>5. c \notin Proofs /\ Unit(lookup, step) = 1 /\ Whole(world, lookup, step, r) = all
  <2>1. c \notin Proofs
    BY <1>2 DEF Reads, Proofs
  <2> QED
    BY <1>2, <2>1, Zenon DEF Unit, Whole
<1>6. ASSUME ~abandoned, mistakes = 0
      PROVE  OnTheWay(world, lookup, step, r) /\ Rest(queue, 1, all, Len(r.hashed))
  <2>1. RightFirst(world, lookup, step, reg, msg, queue)
    BY <1>3, <1>6, Zenon DEF Told, Truthful, Right
  <2>2. msg.len = Len(all) /\ Part(msg.els, all, 0) /\ Rest(queue, 1, all, Len(msg.els))
    BY <1>5, <2>1, Zenon DEF RightFirst
  <2>3. want = Sha(all)
    BY <1>2, <1>3, WholeFacts DEF Reads
  <2>4. Len(r.hashed) + r.left = Len(all)
    <3>1. Len(msg.els) + (msg.len - Len(msg.els)) = msg.len
      BY <1>3
    <3> QED
      BY <1>2, <2>2, <3>1, Zenon
  <2> HIDE DEF all
  <2> QED
    BY <1>2, <1>5, <2>2, <2>3, <2>4, Zenon DEF OnTheWay, Got, Lacks
<1> QED
  BY <1>1, <1>2, <1>4, <1>5, <1>6, HashTold, Zenon

\* An element that call_get_merkle_preimage refuses does not fit the buffer.
LEMMA RefusedExcused ==
  ASSUME NEW w \in Worlds, NEW l, NEW s, NEW r, Ready(w, l, s, r), CallOf(l, s) = "fetch",
         Len(Whole(w, l, s, r)) - 1 > OutLen
  PROVE  Excused(w, l)
<1> DEFINE el == TreeOf(w, l, s)[r.index + 1]
<1>1. Len(el) > OutLen
  <2>1. el \in Seq(Nat) /\ Len(Whole(w, l, s, r)) = Len(el) + 1
    BY WholeFacts
  <2>2. Len(el) \in Nat /\ OutLen \in Nat
    BY <2>1, CallersBuffers
  <2> QED
    BY <2>1, <2>2
<1>2. l.kind \in {"element", "value", "sorted"}
  BY ProgramFacts, Zenon DEF Ready, Follows
<1>3. CASE l.kind \in {"element", "value"}
  <2>1. r.index = l.at
    BY <1>3, IndexIs DEF MapKinds
  <2>2. TreeOf(w, l, s) = w.values
    BY <1>3 DEF TreeOf
  <2> QED
    BY <1>1, <1>3, <2>1, <2>2, Zenon DEF Excused
<1>4. CASE l.kind = "sorted"
  <2>1. TreeOf(w, l, s) = w.keys
    BY <1>4, Zenon DEF TreeOf
  <2>2. r.index + 1 \in DOMAIN w.keys
    <3>1. r.index \in Nat /\ r.index < Len(w.keys)
      BY Zenon DEF Ready
    <3>2. Len(w.keys) \in Nat /\ DOMAIN w.keys = 1..Len(w.keys)
      BY WorldFacts
    <3>3. r.index + 1 \in 1..Len(w.keys)
      BY <3>1, <3>2
    <3> QED
      BY <3>2, <3>3, Zenon
  <2> QED
    BY <1>1, <1>4, <2>1, <2>2, Zenon DEF Excused
<1> QED
  BY <1>2, <1>3, <1>4, Zenon

LEMMA GotPreimageTold ==
  ASSUME Inv, Told, GotMerklePreimage \/ GotStreamedPreimage \/ GotPreimage
  PROVE  Told'
<1>1. msg # NoMsg /\ msg.t = "preimage" /\ UNCHANGED <<world, queue, mistakes>>
  BY Zenon DEF GotMerklePreimage, GotStreamedPreimage, GotPreimage, Receives
<1>2. /\ msg.els \in Seq(Nat) /\ msg.els # <<>> /\ msg.len \in Nat /\ Len(msg.els) <= msg.len
      /\ Call = CallOf(lookup, step) /\ client = "up"
      /\ world \in Worlds /\ Ready(world, lookup, step, reg)
  BY <1>1, InFlight DEF InCall, Inv
<1>3. CASE GotMerklePreimage
  <2>1. /\ CallOf(lookup, step) = "fetch"
        /\ \/ msg.len - 1 > OutLen /\ Return(Failed)
           \/ ~(msg.len - 1 > OutLen) /\ FirstBytes(reg.leaf, Write(<<>>, Tail(msg.els)))
    BY <1>2, <1>3 DEF GotMerklePreimage
  <2>2. CASE msg.len - 1 > OutLen /\ Return(Failed)
    <3>1. ASSUME ~abandoned, mistakes = 0 PROVE Excused(world, lookup)
      <4>1. RightFirst(world, lookup, step, reg, msg, queue)
        BY <1>1, <1>2, <3>1, Zenon DEF Told, Truthful, Right
      <4>2. msg.len = Len(Whole(world, lookup, step, reg))
        BY <1>1, <4>1, Zenon DEF RightFirst
      <4> QED
        BY <1>2, <2>1, <2>2, <4>2, RefusedExcused, Zenon
    <3> QED
      BY <1>1, <2>2, <3>1, ReturnTold, Zenon
  <2>3. CASE ~(msg.len - 1 > OutLen) /\ FirstBytes(reg.leaf, Write(<<>>, Tail(msg.els)))
    <3>1. msg.len - 1 <= OutLen
      BY <1>2, <2>3, CallersBuffers
    <3>2. Tail(msg.els) \in Seq(Nat) /\ Len(Tail(msg.els)) = Len(msg.els) - 1
      BY <1>2
    <3>3. Len(Tail(msg.els)) <= OutLen
      BY <1>2, <3>1, <3>2, CallersBuffers
    <3>4. Write(<<>>, Tail(msg.els)) = Tail(msg.els)
      BY <3>2, <3>3, WriteFacts, ZenonT(40)
    <3> QED
      BY <1>1, <2>1, <2>3, <3>1, <3>4, FirstBytesTold, ZenonT(40)
  <2> QED
    BY <2>1, <2>2, <2>3, Zenon
<1>4. CASE GotStreamedPreimage
  <2>1. CallOf(lookup, step) = "stream" /\ FirstBytes(reg.leaf, Tail(msg.els))
    BY <1>2, <1>4 DEF GotStreamedPreimage
  <2> QED
    BY <1>1, <2>1, FirstBytesTold, ZenonT(40)
<1>5. CASE GotPreimage
  <2>1. CallOf(lookup, step) = "preimage" /\ FirstBytes(Sha(world.policy), Write(<<>>, msg.els))
    BY <1>2, <1>5 DEF GotPreimage
  <2>2. Len(msg.els) <= OutLen => Write(<<>>, msg.els) = msg.els
    BY <1>2, WriteFacts
  <2> QED
    BY <1>1, <2>1, <2>2, FirstBytesTold, ZenonT(40)
<1> QED
  BY <1>3, <1>4, <1>5, Zenon

\* More of the right bytes are still the right bytes.
LEMMA PartJoined ==
  ASSUME NEW a \in Seq(Nat), NEW b \in Seq(Nat), NEW all,
         Part(a, all, 0), Part(b, all, Len(a))
  PROVE  Part(a \o b, all, 0) /\ Len(a \o b) = Len(a) + Len(b)
<1>1. /\ Len(a \o b) = Len(a) + Len(b) /\ Len(a) \in Nat /\ Len(b) \in Nat
      /\ \A k \in 1..(Len(a) + Len(b)) : (a \o b)[k] = IF k <= Len(a) THEN a[k] ELSE b[k - Len(a)]
  BY Concatenation
<1>2. ASSUME NEW k \in 1..(Len(a) + Len(b)) PROVE (a \o b)[k] = all[0 + k]
  <2>1. 0 + k = k /\ (k <= Len(a) => k \in 1..Len(a))
    BY <1>1
  <2>2. CASE k <= Len(a)
    BY <1>1, <2>1, <2>2, Zenon DEF Part
  <2>3. CASE ~(k <= Len(a))
    <3>1. k - Len(a) \in 1..Len(b) /\ Len(a) + (k - Len(a)) = k
      BY <1>1, <2>3
    <3>2. b[k - Len(a)] = all[Len(a) + (k - Len(a))]
      BY <3>1, Zenon DEF Part
    <3> QED
      BY <1>1, <2>1, <2>3, <3>1, <3>2, Zenon
  <2> QED
    BY <2>2, <2>3, Zenon
<1> QED
  BY <1>1, <1>2, Zenon DEF Part

LEMMA GotMoreBytesTold ==
  ASSUME Inv, Told, GotMoreBytes
  PROVE  Told'
<1> DEFINE all == Whole(world, lookup, step, reg)
           n == Len(msg.els)
           c == CallOf(lookup, step)
<1>1. msg # NoMsg /\ msg.t = "elements" /\ UNCHANGED <<world, queue, mistakes>> /\ Call \in Reads
  BY DEF GotMoreBytes, Receives, Reads
<1>2. /\ c \in Reads /\ Ready(world, lookup, step, reg) /\ client = "up" /\ world \in Worlds
  BY <1>1, InFlight DEF Inv
<1>3. /\ n \in Nat /\ (msg.elen = 1 => msg.els \in Seq(Nat))
      /\ c \notin Proofs /\ Bytes(world, lookup, step, reg)
  BY <1>1, <1>2, MoreInFlight DEF Proofs, Reads
<1>4. reg.left \in Nat /\ reg.hashed \in Seq(Nat) /\ Len(queue) \in Nat /\ Len(reg.hashed) \in Nat
  <2>1. queue \in Seq(Items(world))
    BY Zenon DEF Inv
  <2> QED
    BY <1>3, <2>1 DEF Bytes
<1>5. ~abandoned => Len(queue) = reg.left - n
  <2>1. Owed(lookup, step, reg, msg) = reg.left - n
    BY <1>1, <1>3 DEF Owed, Lacks
  <2> QED
    BY <1>1, <1>2, <2>1, Zenon DEF Told, Accounted
<1>6. ASSUME ~abandoned, mistakes = 0
      PROVE  /\ OnTheWay(world, lookup, step, reg) /\ msg.elen = 1
             /\ Part(msg.els, all, Len(reg.hashed)) /\ Rest(queue, 1, all, Len(reg.hashed) + n)
  <2>1. RightMore(world, lookup, step, reg, msg, queue)
    BY <1>1, <1>2, <1>6, Zenon DEF Told, Truthful, Right
  <2> QED
    BY <1>1, <1>3, <2>1, Zenon DEF RightMore, Unit, Got
<1>7. CASE (msg.elen # 1 \/ n > reg.left) /\ Return(Failed)
  <2>1. ~abandoned => ~(n > reg.left)
    <3> HIDE DEF n
    <3> QED
      BY <1>3, <1>4, <1>5
  <2> QED
    BY <1>1, <1>6, <1>7, <2>1, ReturnTold, Zenon
<1>8. ASSUME msg.elen = 1, NEW r, HashChecked(r), r.index = reg.index, r.want = reg.want,
             r.hashed = reg.hashed \o msg.els, r.left = reg.left - n,
             Ready(world, lookup, step, r), Bytes(world, lookup, step, r)
      PROVE  Told'
  <2>1. Whole(world, lookup, step, r) = all
    BY <1>8, Zenon DEF Whole
  <2>2. ~abandoned => Len(queue) = r.left
    BY <1>5, <1>8, Zenon
  <2>3. ASSUME ~abandoned, mistakes = 0
        PROVE  OnTheWay(world, lookup, step, r) /\ Rest(queue, 1, all, Len(r.hashed))
    <3>1. /\ Len(reg.hashed) + reg.left = Len(all) /\ reg.want = Sha(all)
          /\ Part(reg.hashed, all, 0)
      BY <1>3, <1>6, <2>3, Zenon DEF OnTheWay, Got, Lacks
    <3>2. Part(r.hashed, all, 0) /\ Len(r.hashed) = Len(reg.hashed) + n
      <4> HIDE DEF all
      <4> QED
        BY <1>3, <1>4, <1>6, <1>8, <2>3, <3>1, PartJoined, Zenon
    <3> HIDE DEF all
    <3>3. Len(r.hashed) + r.left = Len(all)
      <4> DEFINE h == Len(reg.hashed)
                 a == Len(all)
                 x == reg.left
      <4>1. h \in Nat /\ x \in Nat /\ n \in Nat /\ h + x = a
        BY <1>3, <1>4, <3>1, Zenon
      <4> HIDE DEF h, a, x, n
      <4>2. (h + n) + (x - n) = a
        BY <4>1
      <4> QED
        BY <1>8, <3>2, <4>2, Zenon DEF h, a, x, n
    <3>4. OnTheWay(world, lookup, step, r)
      BY <1>3, <1>8, <2>1, <3>1, <3>2, <3>3, Zenon DEF OnTheWay, Got, Lacks
    <3> QED
      BY <1>6, <2>3, <3>2, <3>4, Zenon
  <2> QED
    BY <1>1, <1>2, <1>8, <2>1, <2>2, <2>3, HashTold, Zenon
<1> QED
  BY <1>7, <1>8, MoreBytesCases, Zenon

LEMMA ReplyTold ==
  ASSUME Inv, Told, msg # NoMsg, UNCHANGED <<world, lookup, step, reg, outcome, abandoned>>,
         NEW m, NEW right, Reply(m, right), m # NoMsg,
         ~abandoned => Len(queue') = Owed(lookup, step, reg, m),
         ~abandoned /\ mistakes = 0 /\ right => Right(world, lookup, step, reg, m, queue')
  PROVE  Told'
<1>1. /\ msg' = m /\ UNCHANGED client
      /\ mistakes' = IF right THEN mistakes ELSE mistakes + 1
  BY Zenon DEF Reply
<1>2. mistakes \in Nat
  BY Zenon DEF Told
<1>3. mistakes' \in Nat /\ (mistakes' = 0 => right /\ mistakes = 0)
  BY <1>1, <1>2
<1>4. step' = step /\ reg' = reg /\ UNCHANGED <<world, lookup, outcome, client, abandoned>>
  BY <1>1
<1> QED
  BY <1>1, <1>3, <1>4, GoOnTold, Zenon

LEMMA StopTold ==
  ASSUME Inv, Told, msg # NoMsg, client' # "up", UNCHANGED <<outcome, mistakes, abandoned>>
  PROVE  Told'
<1>1. outcome = None /\ abandoned \in BOOLEAN /\ mistakes \in Nat
  BY Zenon DEF Inv, Told
<1>2. outcome' = None /\ abandoned' \in BOOLEAN /\ mistakes' \in Nat
  BY <1>1
<1>3. Accounted' /\ Truthful'
  BY DEF Accounted, Truthful
<1> QED
  BY <1>2, <1>3, Zenon DEF Told

\* A request finds the queue empty.
LEMMA AskedTold ==
  ASSUME Inv, Told, msg # NoMsg, msg.t \in {"get_index", "get_proof", "get_preimage"}, ~abandoned
  PROVE  queue = <<>> /\ client = "up"
<1>1. client = "up" /\ queue \in Seq(Items(world))
  BY Zenon DEF Inv
<1>2. Owed(lookup, step, reg, msg) = 0
  BY DEF Owed
<1>3. Len(queue) = 0
  BY <1>1, <1>2, Zenon DEF Told, Accounted
<1> QED
  BY <1>1, <1>3

LEMMA AnswerLeafIndexTold ==
  ASSUME Inv, Told, AnswerLeafIndex
  PROVE  Told'
<1> DEFINE at == {j \in 0..(Size - 1) : Leaf(world.keys[j + 1]) = msg.leaf}
           first == IF at = {} THEN -1 ELSE CHOOSE k \in at : \A j \in at : k <= j
           m(i) == [t |-> "index", found |-> IF i = -1 THEN 0 ELSE 1, at |-> IF i = -1 THEN 0 ELSE i]
<1>1. /\ msg # NoMsg /\ msg.t = "get_index"
      /\ UNCHANGED <<world, lookup, step, reg, outcome, abandoned>> /\ queue' = queue
  BY DEF AnswerLeafIndex, Answers
<1>2. PICK i \in -1..(Size - 1) : Reply(m(i), i = first)
  BY ZenonT(40) DEF AnswerLeafIndex
<1>3. /\ m(i).t = "index" /\ m(i).found = IF i = -1 THEN 0 ELSE 1
      /\ i # -1 => m(i).at = i
  OBVIOUS
<1> DEFINE a == m(i)
<1>4. a # NoMsg /\ Owed(lookup, step, reg, a) = 0
  <2>1. a.t = "index"
    BY <1>3, Zenon
  <2> HIDE DEF a
  <2> QED
    BY <2>1 DEF NoMsg, Owed
<1>5. ~abandoned => Len(queue') = Owed(lookup, step, reg, a)
  <2>1. ~abandoned => Len(queue) = 0
    BY <1>1, AskedTold
  <2> QED
    BY <1>1, <1>4, <2>1, Zenon
<1>6. ASSUME ~abandoned, mistakes = 0, i = first
      PROVE  Right(world, lookup, step, reg, a, queue')
  <2>1. RightIndex(world, lookup, step, reg, msg)
    BY <1>1, <1>6, AskedTold, Zenon DEF Told, Truthful, Right
  <2>2. KeyFound(world, lookup, step, reg) /\ msg.leaf = Leaf(Key(world, lookup.at))
    BY <1>1, <2>1, Zenon DEF RightIndex
  <2>3. Size \in Nat /\ Size = Len(world.keys) /\ lookup.at \in Nat
    BY <1>1, InFlight, WorldFacts DEF Size, AllLookups
  <2>4. at = {} => i = -1
    BY <1>6, Zenon
  <2>5. at # {} => i \in at
    <3> SUFFICES ASSUME at # {} PROVE i \in at
      OBVIOUS
    <3>1. at \subseteq Nat
      BY <2>3
    <3> HIDE DEF at
    <3>2. \E k \in at : \A j \in at : k <= j
      BY <3>1, NatLeast, Zenon
    <3> QED
      BY <1>6, <3>2, Zenon
  <2>6. a.t = "index" /\ a.found = (IF i = -1 THEN 0 ELSE 1) /\ (i # -1 => a.at = i)
    BY <1>3, Zenon
  <2> HIDE DEF a, first
  <2>7. IF a.found = 0 THEN ~(lookup.at < Len(world.keys))
        ELSE world.keys[a.at + 1] = Key(world, lookup.at)
    <3>1. CASE i = -1
      <4>1. at = {}
        BY <2>3, <2>5, <3>1
      <4>2. ASSUME lookup.at < Len(world.keys) PROVE FALSE
        <5>1. Key(world, lookup.at) = world.keys[lookup.at + 1]
          BY <4>2, Zenon DEF Key
        <5>2. lookup.at \in 0..(Size - 1)
          BY <2>3, <4>2
        <5> QED
          BY <2>2, <4>1, <5>1, <5>2, Zenon
      <4> QED
        BY <2>6, <3>1, <4>2, Zenon
    <3>2. CASE i # -1
      <4>1. i \in at
        BY <2>4, <2>5, <3>2, Zenon
      <4>2. Leaf(world.keys[i + 1]) = Leaf(Key(world, lookup.at))
        BY <2>2, <4>1, Zenon
      <4>3. a.found # 0
        BY <2>6, <3>2
      <4> QED
        BY <2>6, <3>2, <4>2, <4>3, LeafInjective, Zenon
    <3> QED
      BY <3>1, <3>2, Zenon
  <2> HIDE DEF at
  <2>8. RightIndex(world, lookup, step, reg, a)
    BY <2>2, <2>6, <2>7 DEF RightIndex
  <2>9. RightFirst(world, lookup, step, reg, a, queue') /\ RightMore(world, lookup, step, reg, a, queue')
    BY <2>6 DEF RightFirst, RightMore
  <2> QED
    BY <2>8, <2>9, Zenon DEF Right
<1>7. Reply(a, i = first)
  BY <1>2, Zenon
<1> HIDE DEF a, first
<1> QED
  BY <1>1, <1>4, <1>5, <1>6, <1>7, ReplyTold, ZenonT(40)

\* What the client sends and what it queues are two parts of the list.
LEMMA EnqueuedRest ==
  ASSUME NEW V, NEW vals \in Seq(V), NEW len, NEW n \in 0..Len(vals), queue = <<>>,
         Enqueue(len, vals, n)
  PROVE  /\ Len(queue') = Len(vals) - n /\ Rest(queue', len, vals, n)
         /\ Part(SubSeq(vals, 1, n), vals, 0) /\ Len(SubSeq(vals, 1, n)) = n
<1> DEFINE rest == SubSeq(vals, n + 1, Len(vals))
<1>1. /\ Len(vals) \in Nat /\ rest \in Seq(V) /\ Len(rest) = Len(vals) - n
      /\ \A k \in 1..(Len(vals) - n) : rest[k] = vals[n + k]
  <2>1. Len(rest) = Len(vals) - n
    OBVIOUS
  <2>2. ASSUME NEW k \in 1..(Len(vals) - n) PROVE rest[k] = vals[n + k]
    <3>1. rest[k] = vals[(n + 1) + k - 1]
      OBVIOUS
    <3>2. (n + 1) + k - 1 = n + k
      OBVIOUS
    <3> QED
      BY <3>1, <3>2, Zenon
  <2> QED
    BY <2>1, <2>2, Remainder
<1>2. Len(SubSeq(vals, 1, n)) = n /\ Part(SubSeq(vals, 1, n), vals, 0)
  <2>1. Len(SubSeq(vals, 1, n)) = n
    BY <1>1
  <2>2. ASSUME NEW k \in 1..n PROVE SubSeq(vals, 1, n)[k] = vals[0 + k]
    BY <1>1
  <2> QED
    BY <2>1, <2>2, Zenon DEF Part
<1> HIDE DEF rest
<1> DEFINE N == Len(vals) - n
           els == [k \in 1..N |-> [len |-> len, v |-> rest[k]]]
<1>3. N \in Nat /\ Len(rest) = N
  BY <1>1
<1>4. queue' = <<>> \o els
  BY <1>3, Zenon DEF Enqueue, Elements, rest
<1> HIDE DEF N
<1>5. <<>> \o els = els /\ Len(els) = N
  BY <1>3
<1>6. \A k \in 1..N : els[k].len = len /\ els[k].v = rest[k]
  BY Zenon
<1> HIDE DEF els
<1>7. Len(queue') = N /\ Rest(queue', len, vals, n)
  BY <1>1, <1>4, <1>5, <1>6 DEF Rest, N
<1> QED
  BY <1>2, <1>7, Zenon DEF N

\* The first response to a request for a list brings the part sent of it.
LEMMA FirstTold ==
  ASSUME Inv, Told, msg # NoMsg, msg.t \in {"get_proof", "get_preimage"},
         UNCHANGED <<world, lookup, step, reg, outcome, abandoned>>,
         NEW V, NEW vals \in Seq(V), NEW n \in 0..Len(vals), NEW m, NEW right, Reply(m, right),
         Enqueue(Unit(lookup, step), vals, n), m.els = SubSeq(vals, 1, n),
         \/ m.t = "proof" /\ m.size = Len(vals)
         \/ m.t = "preimage" /\ m.len = Len(vals),
         ~abandoned /\ mistakes = 0 /\ right =>
           /\ vals = Whole(world, lookup, step, reg)
           /\ m.t = "proof" => m.leaf = Leaf(TreeOf(world, lookup, step)[reg.index + 1])
  PROVE  Told'
<1>1. m # NoMsg /\ Owed(lookup, step, reg, m) = Len(vals) - Len(m.els)
  BY DEF NoMsg, Owed
<1>2. ASSUME ~abandoned
      PROVE  /\ client = "up"
             /\ Len(queue') = Len(vals) - n /\ Rest(queue', Unit(lookup, step), vals, n)
             /\ Part(m.els, vals, 0) /\ Len(m.els) = n
  <2>1. queue = <<>> /\ client = "up"
    BY <1>2, AskedTold
  <2>2. /\ Len(queue') = Len(vals) - n /\ Rest(queue', Unit(lookup, step), vals, n)
        /\ Part(SubSeq(vals, 1, n), vals, 0) /\ Len(SubSeq(vals, 1, n)) = n
    BY <2>1, EnqueuedRest, ZenonT(40)
  <2> QED
    BY <2>1, <2>2, Zenon
<1>3. ASSUME ~abandoned, mistakes = 0, right
      PROVE  Right(world, lookup, step, reg, m, queue')
  <2>1. RightIndex(world, lookup, step, reg, msg)
    BY <1>2, <1>3, Zenon DEF Told, Truthful, Right
  <2>2. RightIndex(world, lookup, step, reg, m)
    <3>1. m.t \notin {"get_index", "index"}
      OBVIOUS
    <3> QED
      BY <2>1, <3>1 DEF RightIndex
  <2>3. RightMore(world, lookup, step, reg, m, queue')
    BY DEF RightMore
  <2>4. RightFirst(world, lookup, step, reg, m, queue')
    <3> DEFINE all == Whole(world, lookup, step, reg)
               u == Unit(lookup, step)
    <3>1. /\ Rest(queue', u, all, Len(m.els)) /\ Part(m.els, all, 0)
          /\ m.t = "proof" => m.leaf = Leaf(TreeOf(world, lookup, step)[reg.index + 1])
          /\ m.t = "proof" => m.size = Len(all)
          /\ m.t = "preimage" => m.len = Len(all)
      <4>1. vals = all
        BY <1>3, Zenon
      <4>2. m.t = "proof" => m.t # "preimage"
        OBVIOUS
      <4> QED
        BY <1>2, <1>3, <4>1, <4>2, Zenon
    <3>2. m.t # "get_proof" /\ m.t # "get_preimage"
      OBVIOUS
    <3> QED
      BY <3>1, <3>2, Zenon DEF RightFirst
  <2> QED
    BY <2>2, <2>3, <2>4, Zenon DEF Right
<1>4. ~abandoned => Len(queue') = Owed(lookup, step, reg, m)
  BY <1>1, <1>2, Zenon
<1> QED
  BY <1>1, <1>3, <1>4, ReplyTold, ZenonT(40)

LEMMA AnswerLeafProofTold ==
  ASSUME Inv, Told, AnswerLeafProof
  PROVE  Told'
<1>1. /\ msg # NoMsg /\ msg.t = "get_proof"
      /\ UNCHANGED <<world, lookup, step, reg, outcome, abandoned>>
  BY DEF AnswerLeafProof, Answers
<1>2. CASE Raise
  BY <1>1, <1>2, StopTold DEF Raise
<1>3. CASE ~Raise
  <2> DEFINE list == List(msg.tree)
             proof(i) == ProveLeaf(list, i)
             room == (Payload - HashLen - 2) \div HashLen
             num(i) == IF room < Len(proof(i)) THEN room ELSE Len(proof(i))
             m(i) == [t |-> "proof", leaf |-> Leaf(list[i + 1]), size |-> Len(proof(i)),
                      els |-> SubSeq(proof(i), 1, num(i))]
  <2>1. PICK i \in 0..(Size - 1) :
          Reply(m(i), i = msg.at) /\ Enqueue(HashLen, proof(i), num(i))
    BY <1>3, Zenon DEF AnswerLeafProof
  <2>2. /\ list \in {world.keys, world.values} /\ Size \in Nat /\ Len(list) = Size
        /\ i + 1 \in 1..Len(world.keys) /\ client = "up"
        /\ CallOf(lookup, step) \in Proofs /\ Ready(world, lookup, step, reg)
        /\ world \in Worlds
    <3>1. client = "up" /\ world \in Worlds /\ Ready(world, lookup, step, reg)
      BY <1>1, Zenon DEF Inv
    <3>2. CallOf(lookup, step) \in Proofs
      BY <1>1, InFlight DEF InCall
    <3>3. /\ list \in {world.keys, world.values} /\ Size \in Nat /\ Len(list) = Size
          /\ Size = Len(world.keys)
      BY <3>1, WorldFacts DEF List, Size
    <3> QED
      BY <3>1, <3>2, <3>3
  <2>3. ASSUME ~abandoned, mistakes = 0, i = msg.at
        PROVE  /\ proof(i) = Whole(world, lookup, step, reg)
               /\ Leaf(list[i + 1]) = Leaf(TreeOf(world, lookup, step)[reg.index + 1])
    <3>1. RightFirst(world, lookup, step, reg, msg, queue)
      BY <1>1, <2>2, <2>3, Zenon DEF Told, Truthful, Right
    <3>2. i = reg.index /\ TreeOf(world, lookup, step) = list
      BY <1>1, <2>3, <3>1, Zenon DEF RightFirst, List
    <3>3. Whole(world, lookup, step, reg) = ProveLeaf(TreeOf(world, lookup, step), reg.index)
      BY <2>2, ProofWhole, Zenon
    <3> QED
      BY <3>2, <3>3, Zenon
  <2> HIDE DEF list
  <2>4. proof(i) \in Seq(TreeNode(list))
    BY <2>2, ProofFacts, Zenon
  <2>5. room \in Nat
    BY SizesAssumption
  <2> HIDE DEF room
  <2> DEFINE p == proof(i)
             n == num(i)
             a == [t |-> "proof", leaf |-> Leaf(list[i + 1]), size |-> Len(p),
                   els |-> SubSeq(p, 1, n)]
  <2>6. n \in 0..Len(p)
    <3>1. p \in Seq(TreeNode(list)) /\ n = IF room < Len(p) THEN room ELSE Len(p)
      BY <2>4
    <3> HIDE DEF p, n
    <3> QED
      BY <2>5, <3>1
  <2>7. Unit(lookup, step) = HashLen
    BY <2>2, Zenon DEF Unit
  <2>8. /\ Reply(a, i = msg.at) /\ Enqueue(Unit(lookup, step), p, n)
        /\ p \in Seq(TreeNode(list))
    BY <2>1, <2>4, <2>7, Zenon
  <2>9. a.t = "proof" /\ a.size = Len(p) /\ a.els = SubSeq(p, 1, n) /\ a.leaf = Leaf(list[i + 1])
    <3> HIDE DEF p, n
    <3> QED
      BY ZenonT(40)
  <2>10. ~abandoned /\ mistakes = 0 /\ i = msg.at =>
           /\ p = Whole(world, lookup, step, reg)
           /\ a.t = "proof" => a.leaf = Leaf(TreeOf(world, lookup, step)[reg.index + 1])
    BY <2>3, <2>9, Zenon
  <2> HIDE DEF p, n, a
  <2>11. msg.t \in {"get_proof", "get_preimage"}
    BY <1>1, Zenon
  <2> QED
    BY <1>1, <2>6, <2>8, <2>9, <2>10, <2>11, FirstTold, ZenonT(60)
<1> QED
  BY <1>2, <1>3, Zenon

LEMMA AnswerPreimageTold ==
  ASSUME Inv, Told, AnswerPreimage
  PROVE  Told'
<1>1. /\ msg # NoMsg /\ msg.t = "get_preimage"
      /\ UNCHANGED <<world, lookup, step, reg, outcome, abandoned>>
  BY DEF AnswerPreimage, Answers
<1> DEFINE room(p) == Payload - VarintLen(Len(p)) - 1
           num(p) == IF room(p) < Len(p) THEN room(p) ELSE Len(p)
           m(p) == [t |-> "preimage", len |-> Len(p), els |-> SubSeq(p, 1, num(p))]
<1>2. PICK p \in KnownPreimages : Reply(m(p), Sha(p) = msg.hash) /\ Enqueue(1, p, num(p))
  BY ZenonT(40) DEF AnswerPreimage
<1>3. p \in Seq(Nat) /\ p # <<>> /\ Len(p) \in Nat /\ Len(p) > 0
  BY <1>1, InFlight, KnownFacts
<1>4. /\ CallOf(lookup, step) \in Reads /\ Ready(world, lookup, step, reg)
      /\ world \in Worlds /\ client = "up"
  BY <1>1, InFlight DEF InCall, Inv
<1> DEFINE n == num(p)
           k == room(p)
           a == [t |-> "preimage", len |-> Len(p), els |-> SubSeq(p, 1, n)]
<1>5. k \in Nat
  BY <1>3, <1>4, RoomFacts
<1>6. n = IF k < Len(p) THEN k ELSE Len(p)
  BY Zenon
<1>7. Reply(a, Sha(p) = msg.hash) /\ Enqueue(1, p, n)
  BY <1>2, Zenon
<1> HIDE DEF n, k
<1>8. n \in 0..Len(p)
  BY <1>3, <1>5, <1>6
<1>9. a.t = "preimage" /\ a.len = Len(p) /\ a.els = SubSeq(p, 1, n)
  BY ZenonT(40)
<1> HIDE DEF a
<1>10. ASSUME ~abandoned, mistakes = 0, Sha(p) = msg.hash
       PROVE  p = Whole(world, lookup, step, reg)
  <2>1. RightFirst(world, lookup, step, reg, msg, queue)
    BY <1>1, <1>4, <1>10, Zenon DEF Told, Truthful, Right
  <2>2. msg.hash = Sha(Whole(world, lookup, step, reg))
    BY <1>1, <2>1, Zenon DEF RightFirst
  <2>3. Whole(world, lookup, step, reg) \in Seq(Nat)
    BY <1>4, WholeFacts DEF Reads
  <2> QED
    BY <1>3, <1>10, <2>2, <2>3, ShaFacts, Zenon
<1>11. Unit(lookup, step) = 1
  BY <1>4 DEF Unit, Reads, Proofs
<1>12. /\ msg.t \in {"get_proof", "get_preimage"} /\ Enqueue(Unit(lookup, step), p, n)
       /\ a.t # "proof"
  BY <1>1, <1>7, <1>9, <1>11
<1> QED
  BY <1>1, <1>3, <1>7, <1>8, <1>9, <1>10, <1>12, FirstTold, ZenonT(60)

LEMMA AnswerMoreElementsTold ==
  ASSUME Inv, Told, AnswerMoreElements
  PROVE  Told'
<1>1. /\ msg # NoMsg /\ msg.t = "get_more"
      /\ UNCHANGED <<world, lookup, step, reg, outcome, abandoned>>
  BY DEF AnswerMoreElements, Answers
<1>2. CASE Raise
  BY <1>1, <1>2, StopTold DEF Raise
<1>3. CASE ~Raise
  <2> DEFINE len == queue[1].len
             n == IF Room(len) < Len(queue) THEN Room(len) ELSE Len(queue)
             els == [k \in 1..n |-> queue[k].v]
             a == [t |-> "elements", elen |-> len, els |-> els]
             all == Whole(world, lookup, step, reg)
             u == Unit(lookup, step)
             g == Got(lookup, step, reg)
  <2>1. queue # <<>> /\ Reply(a, TRUE) /\ queue' = SubSeq(queue, n + 1, Len(queue))
    BY <1>3 DEF AnswerMoreElements
  <2>2. queue \in Seq(Items(world)) /\ client = "up"
    BY <1>1, Zenon DEF Inv
  <2>3. Len(queue) \in Nat /\ 1 \in 1..Len(queue) /\ queue[1] \in Items(world)
    BY <2>1, <2>2
  <2>4. Room(len) \in Nat
    <3>1. len \in Nat /\ len > 0
      <4>1. \A x \in Items(world) : x.len \in Nat /\ x.len > 0
        BY SizesAssumption DEF Items
      <4> QED
        BY <2>3, <4>1, Zenon
    <3> DEFINE p == Payload - 2
    <3>2. p \in Nat
      BY SizesAssumption
    <3> HIDE DEF len, p
    <3>3. p \div len \in Nat
      BY <3>1, <3>2
    <3> QED
      BY <3>3 DEF Room, p
  <2>5. n \in 0..Len(queue)
    <3> HIDE DEF len
    <3> QED
      BY <2>3, <2>4
  <2> HIDE DEF n, len
  <2>6. Len(els) = n /\ \A k \in 1..n : els[k] = queue[k].v
    BY <2>5
  <2>7. Len(queue') = Len(queue) - n
        /\ \A k \in 1..(Len(queue) - n) : queue'[k] = queue[n + k] /\ n + k \in 1..Len(queue)
    <3>1. Len(queue') = Len(queue) - n
      BY <2>1, <2>2, <2>5
    <3>2. ASSUME NEW k \in 1..(Len(queue) - n)
          PROVE  queue'[k] = queue[n + k] /\ n + k \in 1..Len(queue)
      <4>1. queue'[k] = queue[(n + 1) + k - 1]
        BY <2>1, <2>2, <2>3, <2>5
      <4>2. (n + 1) + k - 1 = n + k /\ n + k \in 1..Len(queue)
        BY <2>3, <2>5
      <4> QED
        BY <4>1, <4>2, Zenon
    <3> QED
      BY <3>1, <3>2
  <2>8. a.t = "elements" /\ a.elen = len /\ a.els = els
    BY Zenon
  <2> HIDE DEF els, a
  <2>9. a # NoMsg /\ Owed(lookup, step, reg, a) = Lacks(lookup, step, reg) - n
    BY <2>6, <2>8 DEF NoMsg, Owed
  <2>10. ~abandoned => Len(queue') = Owed(lookup, step, reg, a)
    <3>1. Owed(lookup, step, reg, msg) = Lacks(lookup, step, reg)
      BY <1>1 DEF Owed
    <3> QED
      BY <1>1, <2>2, <2>7, <2>9, <3>1, Zenon DEF Told, Accounted
  <2>11. ASSUME ~abandoned, mistakes = 0
         PROVE  Right(world, lookup, step, reg, a, queue')
    <3>1. /\ RightMore(world, lookup, step, reg, msg, queue)
          /\ RightIndex(world, lookup, step, reg, msg)
      BY <1>1, <2>2, <2>11, Zenon DEF Told, Truthful, Right
    <3>2. OnTheWay(world, lookup, step, reg) /\ Rest(queue, u, all, g)
      BY <1>1, <3>1, Zenon DEF RightMore
    <3>3. g \in Nat
      <4>1. \/ CallOf(lookup, step) \in Proofs /\ Climbing(world, lookup, step, reg)
            \/ CallOf(lookup, step) \in {"stream", "preimage"} /\ Bytes(world, lookup, step, reg)
        BY <1>1, InFlight DEF InCall
      <4> QED
        BY <4>1 DEF Climbing, Bytes, Got, Proofs
    <3> HIDE DEF all, u, g
    <3>4. len = u
      BY <2>3, <3>2, Zenon DEF Rest, len
    <3>5. Part(a.els, all, g)
      <4>1. \A k \in 1..n : k \in 1..Len(queue)
        BY <2>3, <2>5
      <4> QED
        BY <2>6, <2>8, <3>2, <4>1, Zenon DEF Part, Rest
    <3>6. Rest(queue', u, all, g + Len(a.els))
      <4>1. ASSUME NEW k \in 1..(Len(queue) - n)
            PROVE  queue'[k].len = u /\ queue'[k].v = all[(g + n) + k]
        <5>1. queue'[k].len = u /\ queue'[k].v = all[g + (n + k)]
          <6>1. queue'[k] = queue[n + k] /\ n + k \in 1..Len(queue)
            BY <2>7, Zenon
          <6>2. queue[n + k].len = u /\ queue[n + k].v = all[g + (n + k)]
            BY <3>2, <6>1, Zenon DEF Rest
          <6> QED
            BY <6>1, <6>2, Zenon
        <5>2. g + (n + k) = (g + n) + k
          BY <2>5, <3>3
        <5> QED
          BY <5>1, <5>2, Zenon
      <4> QED
        BY <2>6, <2>7, <2>8, <4>1, Zenon DEF Rest
    <3>7. RightMore(world, lookup, step, reg, a, queue')
      BY <2>8, <3>2, <3>4, <3>5, <3>6 DEF RightMore, all, u, g
    <3>8. RightIndex(world, lookup, step, reg, a) /\ RightFirst(world, lookup, step, reg, a, queue')
      BY <2>8, <3>1 DEF RightIndex, RightFirst
    <3> QED
      BY <3>7, <3>8, Zenon DEF Right
  <2> QED
    BY <1>1, <2>1, <2>9, <2>10, <2>11, ReplyTold, ZenonT(40)
<1> QED
  BY <1>2, <1>3, Zenon

LEMMA LookupTold ==
  ASSUME Inv, Told, NEW kind \in DOMAIN Program, NEW at \in Nat, Lookup(kind, at)
  PROVE  Told'
<1> DEFINE l == [kind |-> kind, at |-> at]
           r == [NoReg EXCEPT !.index = IF kind = "element" THEN at ELSE 0]
           m == Ask(l, CallOf(l, 1), r)
<1>1. /\ client = "up" /\ msg = NoMsg
      /\ lookup' = l /\ outcome' = None /\ step' = 1 /\ reg' = r
      /\ UNCHANGED <<world, queue, client, mistakes, abandoned>>
  BY DEF Lookup, history
<1>2. msg' = m
  <2>1. msg' = Ask(l, Program[kind][1], r) /\ l.kind = kind
    BY <1>1 DEF Lookup
  <2> QED
    BY <2>1 DEF CallOf
<1>3. Ready(world, l, 1, r) /\ CallOf(l, 1) \in {"proof", "index", "preimage"}
  BY LookupReady, Zenon
<1> HIDE DEF l, r
<1>4. world \in Worlds /\ abandoned \in BOOLEAN /\ mistakes \in Nat
  BY Zenon DEF Inv, Told
<1>5. m # NoMsg /\ Owed(l, 1, r, m) = 0
  BY <1>3, <1>4, AskParts
<1>6. Right(world, l, 1, r, m, queue)
  <2>1. KeyFound(world, l, 1, r)
    BY <1>3 DEF KeyFound
  <2> QED
    BY <1>3, <1>4, <2>1, AskRight, Zenon
<1> HIDE DEF m
<1>7. Accounted'
  <2>1. ~abandoned => Len(queue) = 0
    BY <1>1, Zenon DEF Told, Accounted
  <2> QED
    BY <1>1, <1>2, <1>5, <2>1 DEF Accounted
<1>8. Truthful'
  BY <1>1, <1>2, <1>6, NoneAssumption DEF Truthful
<1> QED
  BY <1>1, <1>4, <1>7, <1>8 DEF Told

LEMMA NextTold ==
  ASSUME Inv, Told, [Next]_vars
  PROVE  Told'
<1>1. ASSUME NEW kind \in {"element", "value", "valuehash", "stream"}, NEW at \in 0..Size,
             Lookup(kind, at)
      PROVE  Told'
  <2>1. kind \in DOMAIN Program /\ at \in Nat
    BY Programs
  <2> QED
    BY <1>1, <2>1, LookupTold, Zenon
<1>2. ASSUME NEW kind \in {"sorted", "policy"}, Lookup(kind, 0)
      PROVE  Told'
  <2>1. kind \in DOMAIN Program /\ 0 \in Nat
    BY Programs
  <2> QED
    BY <1>2, <2>1, LookupTold, Zenon
<1>3. CASE ClientGone
  <2>1. client' = client /\ client # "up" /\ outcome' = Failed /\ UNCHANGED <<mistakes, abandoned>>
    BY <1>3 DEF ClientGone, history
  <2>2. Accounted' /\ Truthful'
    BY <2>1 DEF Accounted, Truthful
  <2> QED
    BY <2>1, <2>2 DEF Told
<1>4. CASE Silent
  <2>1. msg # NoMsg /\ client' = "gone" /\ UNCHANGED <<outcome, mistakes, abandoned>>
    BY <1>4 DEF Silent, history
  <2> QED
    BY <2>1, StopTold
<1>5. CASE NewCommand
  <2>1. /\ queue' = <<>> /\ mistakes' = 0 /\ abandoned' = FALSE /\ outcome' = None
        /\ msg' = NoMsg /\ client' = "up"
    BY <1>5 DEF NewCommand, Inv
  <2>2. Accounted' /\ Truthful'
    BY <2>1, NoneAssumption DEF Accounted, Truthful
  <2> QED
    BY <2>1, <2>2 DEF Told
<1>6. CASE Client
  BY <1>6, AnswerLeafIndexTold, AnswerLeafProofTold, AnswerPreimageTold, AnswerMoreElementsTold,
     Zenon DEF Client
<1>7. CASE Device
  BY <1>3, <1>7, GotIndexTold, GotProofTold, GotMoreProofTold, GotPreimageTold,
     GotMoreBytesTold, Zenon DEF Device
<1>8. CASE UNCHANGED vars
  <2>1. UNCHANGED <<world, lookup, step, reg, msg, outcome, queue, client, mistakes, abandoned>>
    BY <1>8 DEF vars, history
  <2>2. Accounted'
    BY <2>1 DEF Told, Accounted
  <2>3. Truthful'
    BY <2>1 DEF Told, Truthful
  <2> QED
    BY <2>1, <2>2, <2>3 DEF Told
<1> QED
  BY <1>1, <1>2, <1>4, <1>5, <1>6, <1>7, <1>8, Zenon DEF Next

LEMMA InvTold == Spec => [](Inv /\ Told)
<1>1. Init => Inv /\ Told
  <2> SUFFICES ASSUME Init PROVE Inv /\ Told
    OBVIOUS
  <2>1. <<>> \in Seq(Items(world)) /\ FALSE \in BOOLEAN /\ Len(<<>>) = 0 /\ 0 \in Nat
    OBVIOUS
  <2>2. Inv
    BY <2>1, Zenon DEF Init, Inv
  <2>3. Accounted /\ Truthful
    BY <2>1, NoneAssumption DEF Init, Accounted, Truthful
  <2> QED
    BY <2>1, <2>2, <2>3 DEF Init, Told
<1>2. Inv /\ Told /\ [Next]_vars => (Inv /\ Told)'
  BY NextStep, NextTold
<1> QED
  BY <1>1, <1>2, PTL DEF Spec

\* After a lookup of handler/lib that succeeded nothing is left in the client's
\* queue for GET_MORE_ELEMENTS: what the device counted as still to come is
\* exactly what the interpreter had queued, even after wrong answers.
THEOREM QueueIsDrained == Spec => []QueueDrained
<1>1. Inv /\ Told => QueueDrained
  <2> SUFFICES ASSUME Inv, Told, outcome \notin {None, Failed}, ~abandoned
               PROVE  queue = <<>>
    BY Zenon DEF QueueDrained
  <2>1. client = "up" /\ msg = NoMsg /\ queue \in Seq(Items(world))
    BY Zenon DEF Inv, Told
  <2>2. Len(queue) = 0
    BY <2>1, Zenon DEF Told, Accounted
  <2> QED
    BY <2>1, <2>2
<1> QED
  BY <1>1, InvTold, PTL

\* The calls of handler/lib accept what a correct client sends: for maps of any
\* size, a lookup that fails without a mistake of the client asks for an absent
\* key or a too long element, or checks keys that are not in order.
THEOREM HonestClientsServed == Spec => []HonestLookupsSucceed
<1>1. Inv /\ Told => HonestLookupsSucceed
  BY Zenon DEF Told, Truthful, HonestLookupsSucceed, Excused
<1> QED
  BY <1>1, InvTold, PTL
=============================================================================
