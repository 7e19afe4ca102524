----------------------------- MODULE ClientData -----------------------------
(***************************************************************************)
(* How the device reads data that it only holds a commitment of: the       *)
(* lookups of handler/lib (the device) against the command interpreter of  *)
(* the client library (the client), one request and one response at a      *)
(* time.                                                                   *)
(*                                                                         *)
(* A tree is named by the list it commits to, "keys" or "values".  Sizes   *)
(* are in bytes, scaled down: a response carries Payload bytes (255 in the *)
(* code) and a hash takes HashLen (32).                                    *)
(***************************************************************************)
EXTENDS Merkle

CONSTANTS
  Worlds,        \* [keys, values: lists of elements, policy: bytes]
  Payload, HashLen,
  OutLen,        \* the output buffer a handler passes
  MaxMistakes,   \* wrong answers of the client in one command
  None, Failed,
  Leftover       \* what the APDU buffer holds after the end of a message

VarintOne == Payload - 2            \* 253: shorter lengths take one byte
VarintLen(n) == IF n < VarintOne THEN 1 ELSE 3

\* Every handler passes a buffer shorter than one response (the largest are
\* MAX_POLICY_KEY_INFO_LEN and MAX_POLICY_MAP_SERIALIZED_LENGTH).
ASSUME CallersBuffers == OutLen \in Nat /\ OutLen + 1 < VarintOne

\* A response to GET_MERKLE_LEAF_PROOF has room for the leaf.
ASSUME SizesAssumption ==
  Payload \in Nat /\ HashLen \in Nat /\ HashLen > 1 /\ HashLen + 2 <= Payload

\* read_policy_map_wallet bounds the policies that get registered; a longer one
\* would leave the buffer of call_get_preimage incomplete.
ASSUME PoliciesFit == \A w \in Worlds : Len(w.policy) <= OutLen

\* A map has as many values as keys; keys, values and policies are bytes.
AbsentKey == <<9>>
ASSUME WorldsAssumption ==
  \A w \in Worlds :
    /\ w.keys \in Seq(Seq(Nat)) /\ w.values \in Seq(Seq(Nat))
    /\ Len(w.keys) = Len(w.values)
    /\ \A k \in DOMAIN w.keys : w.keys[k] # AbsentKey
    /\ w.policy \in Seq(Nat) /\ w.policy # <<>>

VARIABLES
  world,         \* what the client knows, and the command committed to
  lookup,        \* the lookup in progress: [kind, at]
  step,          \* the call it is in, an index of Program[lookup.kind]
  reg,           \* the locals of the calls
  msg,           \* the request or response in flight
  outcome,       \* what the lookup returned
  queue,         \* the client's queue for GET_MORE_ELEMENTS
  client,        \* "up", "raised" an exception, or "gone" silent
  checked,       \* the map has passed call_check_merkle_tree_sorted
  mistakes, abandoned   \* history, for one command

history == <<checked, mistakes, abandoned>>
vars == <<world, lookup, step, reg, msg, outcome, queue, client, history>>

\* Lexicographic order of elements, a prefix first.
CompareByteArrays(a, b) ==
  LET min   == IF Len(a) < Len(b) THEN Len(a) ELSE Len(b)
      diffs == {k \in 1..min : a[k] # b[k]}
  IN  IF diffs = {} THEN Len(a) - Len(b)
      ELSE LET k == CHOOSE k \in diffs : \A j \in diffs : k <= j IN a[k] - b[k]

-----------------------------------------------------------------------------
(* The calls each lookup makes, in order.  "keyproof" checks the index the  *)
(* client gave; "sorted" repeats its two calls for every key.               *)

GetMerkleLeafElement    == <<"proof", "fetch">>
GetMerkleLeafIndex      == <<"index", "keyproof">>
GetMerkleizedMapValue   == GetMerkleLeafIndex \o GetMerkleLeafElement
GetMerkleizedMapValueHash == GetMerkleLeafIndex \o <<"proof">>
StreamMerkleLeafElement == <<"proof", "stream">>
StreamMerkleizedMapValue == GetMerkleLeafIndex \o StreamMerkleLeafElement

Program == [
  element   |-> GetMerkleLeafElement,
  value     |-> GetMerkleizedMapValue,
  valuehash |-> GetMerkleizedMapValueHash,
  stream    |-> StreamMerkleizedMapValue,
  sorted    |-> GetMerkleLeafElement,    \* the loop body of the sortedness check
  policy    |-> <<"preimage">>]

Size    == Len(world.keys)
Key(w, at) == IF at < Len(w.keys) THEN w.keys[at + 1] ELSE AbsentKey
Call    == Program[lookup.kind][step]
InKeys  == Call = "keyproof" \/ lookup.kind = "sorted"
Tree    == IF InKeys THEN world.keys ELSE world.values

NoReg == [index |-> 0, leaf |-> Bad, cur |-> Bad, pos |-> 0, size |-> 0,
          want |-> Bad, left |-> 0, len |-> 0, hashed |-> <<>>, out |-> <<>>,
          prev |-> <<>>]

\* The request that starts call c of lookup l with locals r.
Ask(l, c, r) ==
  CASE c = "index" -> [t |-> "get_index", leaf |-> Leaf(Key(world, l.at))]
    [] c = "keyproof" -> [t |-> "get_proof", tree |-> "keys", at |-> r.index]
    [] c = "proof" ->
         [t |-> "get_proof", at |-> r.index,
          tree |-> IF l.kind = "sorted" THEN "keys" ELSE "values"]
    [] c \in {"fetch", "stream"} -> [t |-> "get_preimage", hash |-> r.leaf]
    [] c = "preimage" -> [t |-> "get_preimage", hash |-> Sha(world.policy)]

More  == [t |-> "get_more"]
NoMsg == [t |-> "none"]      \* nothing is in flight

Return(v) ==
  /\ outcome' = v /\ msg' = NoMsg
  /\ step' = 1 /\ reg' = NoReg
  /\ abandoned' = (abandoned \/ (v = Failed /\ queue # <<>>))
  /\ checked' = (checked \/ (v # Failed /\ lookup.kind = "sorted"))
  /\ UNCHANGED <<lookup, client>>

Enter(s, r) ==
  /\ step' = s /\ reg' = r
  /\ msg' = Ask(lookup, Program[lookup.kind][s], r)
  /\ UNCHANGED <<lookup, outcome, client, checked, abandoned>>

AskMore(r) ==
  /\ reg' = r /\ msg' = More
  /\ UNCHANGED <<lookup, step, outcome, client, checked, abandoned>>

\* Mutant: keys are looked up in maps that were not checked.
LookupUnsorted(kind, at) ==
  /\ client = "up" /\ msg = NoMsg
  /\ kind \in {"element", "sorted"} => at < Size
  /\ lookup' = [kind |-> kind, at |-> at]
  /\ outcome' = None /\ step' = 1
  /\ reg' = [NoReg EXCEPT !.index = IF kind = "element" THEN at ELSE 0]
  /\ msg' = Ask(lookup', Program[kind][1], reg')
  /\ UNCHANGED <<world, queue, client, history>>

\* A handler starts a lookup.  Keys are looked up only in a map that has passed
\* the sortedness check; the loop of an empty map makes no call.
Lookup(kind, at) ==
  /\ client = "up" /\ msg = NoMsg
  /\ kind \in {"element", "sorted"} => at < Size
  /\ kind \in {"value", "valuehash", "stream"} => checked \/ Size = 0
  /\ lookup' = [kind |-> kind, at |-> at]
  /\ outcome' = None /\ step' = 1
  /\ reg' = [NoReg EXCEPT !.index = IF kind = "element" THEN at ELSE 0]
  /\ msg' = Ask(lookup', Program[kind][1], reg')
  /\ UNCHANGED <<world, queue, client, history>>

-----------------------------------------------------------------------------
(* The device: one action per response it processes.                        *)

Receives(t) == msg # NoMsg /\ msg.t = t /\ UNCHANGED <<world, queue, mistakes>>

\* The end of call_check_merkle_tree_sorted's loop body.
NextKey(el) ==
  IF reg.index > 0 /\ CompareByteArrays(reg.prev, el) >= 0 THEN Return(Failed)
  ELSE IF reg.index + 1 = Size THEN Return("sorted")
  ELSE Enter(1, [NoReg EXCEPT !.index = reg.index + 1, !.prev = el])

\* The last call of a lookup has returned r.
Finish(r) ==
  IF step < Len(Program[lookup.kind]) THEN Enter(step + 1, r)
  ELSE IF lookup.kind = "sorted" THEN NextKey(r.out)
  ELSE Return(IF lookup.kind = "valuehash" THEN r.leaf ELSE r.out)

\* call_get_merkle_leaf_index
GotIndex ==
  /\ Receives("index")
  /\ IF msg.found = 0 THEN Return(Failed)
     ELSE Enter(step + 1, [reg EXCEPT !.index = msg.at])

\* The end of call_get_merkle_leaf_hash, and of call_get_merkle_leaf_index.
ProofChecked(r) ==
  IF r.cur # Root(Tree) THEN Return(Failed)
  ELSE IF Call = "keyproof" /\ r.leaf # Leaf(Key(world, lookup.at)) THEN Return(Failed)
  ELSE Finish(r)

ClimbWith(r, els) ==
  LET next == [r EXCEPT !.cur = Climb(Size, r.index, r.cur, r.pos, r.size, els),
                     !.pos = r.pos + Len(els)]
  IN  IF next.cur = Bad THEN Return(Failed)
      ELSE IF next.pos = r.size THEN ProofChecked(next)
      ELSE AskMore(next)

GotProof ==
  /\ Receives("proof")
  /\ ClimbWith([reg EXCEPT !.leaf = msg.leaf, !.cur = msg.leaf, !.pos = 0,
                           !.size = msg.size], msg.els)

GotMoreProof ==
  /\ Receives("elements") /\ Call \in {"proof", "keyproof"}
  /\ IF msg.elen # HashLen \/ reg.pos + Len(msg.els) > reg.size THEN Return(Failed)
     ELSE ClimbWith(reg, msg.els)

\* buffer_write_bytes writes all or nothing.
Write(out, bytes) == IF Len(out) + Len(bytes) <= OutLen THEN out \o bytes ELSE out

HashChecked(r) ==
  IF r.left > 0 THEN AskMore(r)
  ELSE IF Sha(r.hashed) # r.want THEN Return(Failed)
  ELSE Finish(r)

\* The first response: the bytes to hash, and what has been put out.
FirstBytes(want, out) ==
  HashChecked([reg EXCEPT !.want = want, !.hashed = msg.els, !.len = msg.len,
                          !.left = msg.len - Len(msg.els), !.out = out])

\* call_get_merkle_preimage refuses what does not fit and skips the prefix.
GotMerklePreimage ==
  /\ Receives("preimage") /\ Call = "fetch"
  /\ IF msg.len - 1 > OutLen THEN Return(Failed)
     ELSE FirstBytes(reg.leaf, Write(<<>>, Tail(msg.els)))

\* call_stream_preimage hands the bytes to the callback as they come.
GotStreamedPreimage ==
  /\ Receives("preimage") /\ Call = "stream"
  /\ FirstBytes(reg.leaf, Tail(msg.els))

\* call_get_preimage
GotPreimage ==
  /\ Receives("preimage") /\ Call = "preimage"
  /\ FirstBytes(Sha(world.policy), Write(<<>>, msg.els))

\* call_get_merkle_preimage copies from the pointer it computed for the first
\* response, whose data started after the length of the preimage.
StaleBytes(els) ==
  LET shift == VarintLen(reg.len) + 1 - 2
  IN  [k \in 1..Len(els) |-> IF k + shift <= Len(els) THEN els[k + shift] ELSE Leftover]

GotMoreBytes ==
  /\ Receives("elements") /\ Call \in {"fetch", "stream", "preimage"}
  /\ IF msg.elen # 1 \/ Len(msg.els) > reg.left THEN Return(Failed)
     ELSE HashChecked(
            [reg EXCEPT !.hashed = @ \o msg.els, !.left = @ - Len(msg.els),
               !.out = CASE Call = "stream" -> @ \o msg.els
                         [] Call = "fetch" -> Write(@, StaleBytes(msg.els))
                         [] Call = "preimage" -> Write(@, msg.els)])

-----------------------------------------------------------------------------
(* The client: one action per command class of the interpreter.  An answer  *)
(* to something else than what was asked is a mistake.                      *)

Answers(t) == msg # NoMsg /\ msg.t = t /\ UNCHANGED <<world, lookup, step, reg, outcome, checked, abandoned>>

Reply(m, right) ==
  /\ msg' = m /\ UNCHANGED client
  /\ right \/ mistakes < MaxMistakes
  /\ mistakes' = IF right THEN mistakes ELSE mistakes + 1

\* An exception ends the command on the client; the device times out.
Raise ==
  client' = "raised" /\ msg' = NoMsg /\ UNCHANGED <<queue, mistakes>>

List(tree) == IF tree = "keys" THEN world.keys ELSE world.values

AnswerLeafIndex ==
  /\ Answers("get_index") /\ UNCHANGED queue
  /\ LET at(l) == {i \in 0..(Size - 1) : Leaf(world.keys[i + 1]) = l}
         first == IF at(msg.leaf) = {} THEN -1
                  ELSE CHOOSE i \in at(msg.leaf) : \A j \in at(msg.leaf) : i <= j
     IN  \E i \in -1..(Size - 1) :
           Reply([t |-> "index", found |-> IF i = -1 THEN 0 ELSE 1,
                  at |-> IF i = -1 THEN 0 ELSE i], i = first)

Elements(len, vals) == [k \in 1..Len(vals) |-> [len |-> len, v |-> vals[k]]]

Enqueue(len, vals, n) == queue' = queue \o Elements(len, SubSeq(vals, n + 1, Len(vals)))

AnswerLeafProof ==
  /\ Answers("get_proof")
  /\ IF queue # <<>> \/ msg.at >= Size THEN Raise
     ELSE \E i \in 0..(Size - 1) :
            LET proof == ProveLeaf(List(msg.tree), i)
                room  == (Payload - HashLen - 2) \div HashLen
                n     == IF room < Len(proof) THEN room ELSE Len(proof)
            IN  /\ Reply([t |-> "proof", leaf |-> Leaf(List(msg.tree)[i + 1]),
                          size |-> Len(proof), els |-> SubSeq(proof, 1, n)], i = msg.at)
                /\ Enqueue(HashLen, proof, n)

KnownPreimages ==
  {<<0>> \o world.keys[i] : i \in 1..Size} \cup {<<0>> \o world.values[i] : i \in 1..Size}
    \cup {world.policy}

AnswerPreimage ==
  /\ Answers("get_preimage")
  /\ \E p \in KnownPreimages :
       LET room == Payload - VarintLen(Len(p)) - 1
           n    == IF room < Len(p) THEN room ELSE Len(p)
       IN  /\ Reply([t |-> "preimage", len |-> Len(p), els |-> SubSeq(p, 1, n)],
                    Sha(p) = msg.hash)
           /\ Enqueue(1, p, n)

\* Mutant: the header is counted twice, and nothing fits.
RoomForNone(len) == (Payload - 2 - HashLen - 3) \div (len + 1)
Room(len) == (Payload - 2) \div len

\* Mutant: the last element sent stays in the queue.
AnswerMoreKeepsLast ==
  /\ Answers("get_more")
  /\ IF queue = <<>> \/ (\E k \in DOMAIN queue : queue[k].len # queue[1].len) THEN Raise
     ELSE LET n == IF Room(queue[1].len) < Len(queue) THEN Room(queue[1].len) ELSE Len(queue)
          IN  /\ Reply([t |-> "elements", elen |-> queue[1].len,
                        els |-> [k \in 1..n |-> queue[k].v]], TRUE)
              /\ queue' = SubSeq(queue, n, Len(queue))

AnswerMoreElements ==
  /\ Answers("get_more")
  /\ IF queue = <<>> \/ (\E k \in DOMAIN queue : queue[k].len # queue[1].len) THEN Raise
     ELSE LET n == IF Room(queue[1].len) < Len(queue) THEN Room(queue[1].len) ELSE Len(queue)
          IN  /\ Reply([t |-> "elements", elen |-> queue[1].len,
                        els |-> [k \in 1..n |-> queue[k].v]], TRUE)
              /\ queue' = SubSeq(queue, n + 1, Len(queue))

\* The client stops answering: process_interruption fails in the device, which
\* is also where it ends up after an exception of the client.
Silent ==
  /\ client = "up" /\ msg # NoMsg /\ msg.t \in {"get_index", "get_proof", "get_preimage", "get_more"}
  /\ client' = "gone" /\ msg' = NoMsg
  /\ UNCHANGED <<world, lookup, step, reg, outcome, queue, history>>

ClientGone ==
  /\ client # "up" /\ outcome = None
  /\ outcome' = Failed /\ step' = 1 /\ reg' = NoReg
  /\ UNCHANGED <<world, lookup, msg, queue, client, history>>

\* The next command gets a new interpreter.
NewCommand ==
  /\ client # "up" /\ outcome = Failed
  /\ client' = "up" /\ queue' = <<>> /\ mistakes' = 0 /\ abandoned' = FALSE
  /\ checked' = FALSE
  /\ lookup' = None /\ outcome' = None
  /\ UNCHANGED <<world, step, reg, msg>>

-----------------------------------------------------------------------------
Init ==
  /\ world \in Worlds
  /\ lookup = None /\ step = 1 /\ reg = NoReg /\ msg = NoMsg /\ outcome = None
  /\ queue = <<>> /\ client = "up" /\ mistakes = 0 /\ abandoned = FALSE
  /\ checked = FALSE

Device == GotIndex \/ GotProof \/ GotMoreProof \/ GotMerklePreimage \/ GotStreamedPreimage
            \/ GotPreimage \/ GotMoreBytes \/ ClientGone
Client == AnswerLeafIndex \/ AnswerLeafProof \/ AnswerPreimage \/ AnswerMoreElements

Next ==
  \/ \E kind \in {"element", "value", "valuehash", "stream"}, at \in 0..Size : Lookup(kind, at)
  \/ \E kind \in {"sorted", "policy"} : Lookup(kind, 0)
  \/ Device \/ Client \/ Silent \/ NewCommand

Spec == Init /\ [][Next]_vars

\* The device processes what it receives, and a client that is up answers.
FairSpec == Spec /\ WF_vars(Device) /\ WF_vars(Client)

-----------------------------------------------------------------------------
(* Properties.                                                              *)

\* a is below b in lexicographic order.
Below(a, b) ==
  \E k \in 1..Len(b) :
    /\ \A m \in 1..(k - 1) : m <= Len(a) /\ a[m] = b[m]
    /\ k > Len(a) \/ a[k] < b[k]

StrictlySorted(keys) ==
  \A i \in 1..Len(keys), j \in 1..Len(keys) : i < j => Below(keys[i], keys[j])

Committed(w, l) ==
  CASE l.kind = "policy" -> w.policy
    [] l.kind = "sorted" -> IF StrictlySorted(w.keys) THEN "sorted" ELSE Failed
    [] l.kind = "valuehash" /\ l.at < Len(w.values) -> Leaf(w.values[l.at + 1])
    [] l.kind \in {"element", "value", "stream"} /\ l.at < Len(w.values) -> w.values[l.at + 1]
    [] OTHER -> Failed

AllLookups == [kind : DOMAIN Program, at : Nat]

ASSUME NoneAssumption == None \notin AllLookups /\ None # Failed

Abstract == INSTANCE AbstractLookup WITH Lookups <- AllLookups

\* Whatever the client answers, a lookup of handler/lib returns the data the
\* command committed to or fails (the chain of index, proof and preimage checks).
ImplementsLookup == Abstract!Spec

\* A client that answers correctly gets every lookup through, unless the key is
\* absent, the element does not fit the buffer, or the keys are not in order.
HonestLookupsSucceed ==
  outcome = Failed /\ client = "up" /\ mistakes = 0 /\ ~abandoned =>
    \/ Committed(world, lookup) = Failed
    \/ lookup.kind \in {"element", "value"} /\ Len(world.values[lookup.at + 1]) > OutLen
    \/ lookup.kind = "sorted" /\ \E k \in DOMAIN world.keys : Len(world.keys[k]) > OutLen

\* After a lookup that succeeded nothing is left in the client's queue, so that
\* the next GET_MERKLE_LEAF_PROOF of the command does not raise an exception.
QueueDrained ==
  lookup # None /\ outcome \notin {None, Failed} /\ ~abandoned => queue = <<>>

\* A lookup ends: the exchange of GET_MORE_ELEMENTS makes progress.
LookupEnds == lookup # None ~> outcome # None \/ lookup = None
=============================================================================
