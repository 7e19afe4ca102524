----------------------------- MODULE RawTxProofs -----------------------------
(***************************************************************************)
(* The parser of a non-witness UTXO, for every stream, every way to cut it *)
(* into chunks and all sizes of the fields.                                *)
(*                                                                         *)
(* Everything rests on what one round of the parser does with the bytes at *)
(* hand, x, and what it would do if more followed, y: if they suffice, the *)
(* same, and if they do not, the round has changed nothing and they are    *)
(* fewer than the store holds.                                             *)
(***************************************************************************)
EXTENDS RawTx, SequenceTheorems, TLAPS

\* The states of the parser.
States ==
  [step : 1..12, sub : 1..7, counter : Nat, size : Nat, got : Nat, segwit : BOOLEAN,
   nIn : Nat, nOut : Nat, el : Nat, els : Nat, elsRead : BOOLEAN, sizeRead : BOOLEAN,
   index : Nat, hashed : Seq(Nat), value : {Unset} \cup Seq(Nat), scriptLen : Nat,
   script : Seq(Nat), data : Seq(Nat)]

Fields == {"step", "sub", "counter", "size", "got", "segwit", "nIn", "nOut", "el", "els",
           "elsRead", "sizeRead", "index", "hashed", "value", "scriptLen", "script", "data"}

\* Those in which a script is being read.
InScript(s) == (s.step = 5 /\ s.sub = 5) \/ (s.step = 8 /\ s.sub = 4)

\* What holds between rounds: no script has been read past its end, and the
\* script of the output that was asked for is copied without a gap into a buffer
\* that is large enough.
Sound(s) ==
  /\ s \in States
  /\ InScript(s) => s.got <= s.size
  /\ Len(s.script) <= MaxScript
  /\ s.step = 8 /\ s.sub \in {3, 4} /\ Asked(s) => s.scriptLen = s.size
  /\ s.step = 8 /\ s.sub = 4 /\ Asked(s) => s.got <= Len(s.script)

\* The same state with more bytes at hand.
More(s, bytes) == [s EXCEPT !.data = @ \o bytes]

\* t differs from s in the given fields at most.
Same(s, t, fields) == \A f \in Fields \ fields : t[f] = s[f]

Outcomes == [r : {-1, 0, 1}, s : States]

Agrees(x, y, m) == x.r # 0 => y = [r |-> x.r, s |-> More(x.s, m)]

\* x is what is done in state s, y what is done when the bytes m follow.
Reads(s, x, y, m) ==
  /\ x \in Outcomes /\ Agrees(x, y, m)
  /\ x.r = 0 => x.s = s /\ Len(s.data) < Chunk

-----------------------------------------------------------------------------
(* Reading from the buffers.                                                *)

\* The result and the state of an outcome.
LEMMA Results ==
  ASSUME NEW s
  PROVE  /\ Done(s).r = 1 /\ Done(s).s = s /\ Need(s).r = 0 /\ Need(s).s = s
         /\ Wrong(s).r = -1 /\ Wrong(s).s = s
BY DEF Done, Need, Wrong

\* What is taken from a buffer, and what is left of it, are bytes.
LEMMA DropTyped ==
  ASSUME NEW d \in Seq(Nat), NEW n \in 0..Len(d)
  PROVE  Drop(d, n) \in Seq(Nat) /\ SubSeq(d, 1, n) \in Seq(Nat)
BY DEF Drop

\* Taking n bytes that are there does not depend on the bytes that follow.
LEMMA DropMore ==
  ASSUME NEW d \in Seq(Nat), NEW m \in Seq(Nat), NEW n \in 0..Len(d)
  PROVE  /\ d \o m \in Seq(Nat) /\ Len(d \o m) = Len(d) + Len(m)
         /\ Drop(d \o m, n) = Drop(d, n) \o m
         /\ SubSeq(d \o m, 1, n) = SubSeq(d, 1, n)
<1>1. /\ d \o m \in Seq(Nat) /\ Len(d \o m) = Len(d) + Len(m)
      /\ Len(d) \in Nat /\ Len(m) \in Nat
  OBVIOUS
<1>2. /\ SubSeq(d \o m, 1, n) = SubSeq(d, 1, n)
      /\ SubSeq(d \o m, n + 1, Len(d)) = SubSeq(d, n + 1, Len(d))
  BY SubSeqOfConcat1
<1>3. SubSeq(d \o m, Len(d) + 1, Len(d) + Len(m)) = m
  BY <1>1, SubSeqOfConcat2, SubSeqFull
<1>4. SubSeq(d \o m, n + 1, Len(d)) \o SubSeq(d \o m, Len(d) + 1, Len(d) + Len(m))
        = SubSeq(d \o m, n + 1, Len(d) + Len(m))
  <2> DEFINE t == d \o m
  <2>1. /\ t \in Seq(Nat) /\ n + 1 \in 1..(Len(t) + 1) /\ Len(d) \in ((n + 1) - 1)..Len(t)
        /\ Len(d) + Len(m) \in Len(d)..Len(t)
    BY <1>1
  <2> HIDE DEF t
  <2>2. SubSeq(t, n + 1, Len(d)) \o SubSeq(t, Len(d) + 1, Len(d) + Len(m))
          = SubSeq(t, n + 1, Len(d) + Len(m))
    BY <2>1, ConcatAdjacentSubSeq, Zenon
  <2> QED
    BY <2>2 DEF t
<1> QED
  BY <1>1, <1>2, <1>3, <1>4 DEF Drop

\* dbuffer_read_bytes asks for more when n bytes are not there.
LEMMA ReadBytesTyped ==
  ASSUME NEW s \in States, NEW n \in Nat
  PROVE  /\ Len(s.data) < n => ReadBytes(s, n) = Need(s)
         /\ Len(s.data) >= n => ReadBytes(s, n).r = 1 /\ ReadBytes(s, n).s \in States
<1>1. CASE Len(s.data) < n
  BY <1>1 DEF ReadBytes, Need, States
<1>2. CASE Len(s.data) >= n
  <2>1. s.data \in Seq(Nat) /\ s.hashed \in Seq(Nat)
    BY DEF States
  <2>2. Drop(s.data, n) \in Seq(Nat) /\ s.hashed \o SubSeq(s.data, 1, n) \in Seq(Nat)
    BY <1>2, <2>1, DropTyped
  <2>3. ReadBytes(s, n) = Done([s EXCEPT !.data = Drop(@, n), !.hashed = @ \o SubSeq(s.data, 1, n)])
    BY <1>2, <2>1 DEF ReadBytes
  <2>4. [s EXCEPT !.data = Drop(@, n), !.hashed = @ \o SubSeq(s.data, 1, n)] \in States
    BY <2>2 DEF States
  <2> QED  BY <1>2, <2>1, <2>3, <2>4 DEF Done
<1> QED  BY <1>1, <1>2 DEF States

\* When they are there, more bytes make no difference to what is read and hashed.
LEMMA ReadBytesMore ==
  ASSUME NEW s \in States, NEW m \in Seq(Nat), NEW n \in 0..Len(s.data)
  PROVE  ReadBytes(More(s, m), n) = Done(More(ReadBytes(s, n).s, m))
<1> DEFINE d == s.data
           h == s.hashed \o SubSeq(d, 1, n)
           t == [s EXCEPT !.data = d \o m]
<1>1. d \in Seq(Nat) /\ "data" \in DOMAIN s /\ "hashed" \in DOMAIN s
  BY DEF States
<1>2. /\ Drop(d \o m, n) = Drop(d, n) \o m /\ SubSeq(d \o m, 1, n) = SubSeq(d, 1, n)
      /\ ~(Len(d) < n) /\ ~(Len(d \o m) < n)
  <2>1. n \in 0..Len(d)
    OBVIOUS
  <2> HIDE DEF d
  <2> QED  BY <1>1, <2>1, DropMore
<1>3. ReadBytes(s, n) = Done([s EXCEPT !.data = Drop(d, n), !.hashed = h])
  BY <1>2, Zenon DEF ReadBytes
<1>4. t.data = d \o m /\ t.hashed = s.hashed
  BY <1>1
<1>5. ReadBytes(t, n) = Done([t EXCEPT !.data = Drop(d, n) \o m, !.hashed = h])
  <2> HIDE DEF t, d
  <2> QED
    BY <1>2, <1>4, Zenon DEF ReadBytes
<1>6. [t EXCEPT !.data = Drop(d, n) \o m, !.hashed = h]
        = [[s EXCEPT !.data = Drop(d, n), !.hashed = h] EXCEPT !.data = @ \o m]
  <2> DEFINE e == Drop(d, n)
  <2> HIDE DEF h, d, e
  <2> QED  BY <1>1
<1>7. More(ReadBytes(s, n).s, m)
        = [[s EXCEPT !.data = Drop(d, n), !.hashed = h] EXCEPT !.data = @ \o m]
  BY <1>3, Results, Zenon DEF More
<1> QED
  BY <1>5, <1>6, <1>7, Zenon DEF More
\* More bytes change the buffers and nothing else.
LEMMA MoreFacts ==
  ASSUME NEW s \in States, NEW m \in Seq(Nat)
  PROVE  /\ More(s, m) \in States /\ DOMAIN s = Fields
         /\ More(s, m).data = s.data \o m
         /\ \A f \in Fields \ {"data"} : More(s, m)[f] = s[f]
<1>1. s.data \o m \in Seq(Nat) /\ DOMAIN s = Fields
  BY DEF States, Fields
<1> DEFINE d == s.data \o m
<1> HIDE DEF d
<1>2. [s EXCEPT !.data = d] \in States
  BY <1>1 DEF States, d
<1>3. [s EXCEPT !.data = d].data = d /\ \A f \in Fields \ {"data"} : [s EXCEPT !.data = d][f] = s[f]
  BY <1>1 DEF Fields
<1> QED
  BY <1>1, <1>2, <1>3 DEF More, d

\* A round that ends in t, and in t with the bytes that follow, reads.
LEMMA DoneReads ==
  ASSUME NEW s, NEW t \in States, NEW m \in Seq(Nat)
  PROVE  Reads(s, Done(t), Done(More(t, m)), m)
BY DEF Reads, Outcomes, Agrees, Done

\* So does one that asks for more with fewer bytes than the store holds.
LEMMA NeedReads ==
  ASSUME NEW s \in States, Len(s.data) < Chunk, NEW y, NEW m
  PROVE  Reads(s, Need(s), y, m)
BY DEF Reads, Outcomes, Agrees, Need

\* Reading a field of at most 32 bytes.
LEMMA ReadBytesReads ==
  ASSUME NEW s \in States, NEW m \in Seq(Nat), NEW n \in 0..Chunk
  PROVE  LET x == ReadBytes(s, n)
         IN  /\ Reads(s, x, ReadBytes(More(s, m), n), m)
             /\ x.r \in {0, 1}
             /\ x.r = 1 => Len(s.data) >= n /\ Same(s, x.s, {"data", "hashed"})
<1>1. CASE Len(s.data) < n
  <2>1. ReadBytes(s, n) = Need(s)
    BY <1>1, ReadBytesTyped, SizesAssumption
  <2>2. Len(s.data) < Chunk
    BY <1>1, SizesAssumption DEF States
  <2> QED
    BY <2>1, <2>2, NeedReads, Results
<1>2. CASE ~(Len(s.data) < n)
  <2> DEFINE d == Drop(s.data, n)
             h == s.hashed \o SubSeq(s.data, 1, n)
             t == [s EXCEPT !.data = d, !.hashed = h]
  <2>1. n \in 0..Len(s.data) /\ n \in Nat /\ Len(s.data) >= n
    BY <1>2, SizesAssumption DEF States
  <2>2. ReadBytes(s, n) = Done(t)
    BY <1>2, Zenon DEF ReadBytes
  <2>3. DOMAIN s = Fields
    BY MoreFacts
  <2> HIDE DEF d, h
  <2>4. Same(s, t, {"data", "hashed"})
    BY <2>3 DEF Same, Fields
  <2> HIDE DEF t
  <2>5. t \in States
    BY <2>1, <2>2, ReadBytesTyped, Results
  <2>6. ReadBytes(More(s, m), n) = Done(More(t, m))
    BY <2>1, <2>2, ReadBytesMore, Results
  <2> QED
    BY <2>1, <2>2, <2>4, <2>5, <2>6, DoneReads, Results
<1> QED  BY <1>1, <1>2

\* Skipping at most 32 bytes, of a witness.
LEMMA SkipBytesReads ==
  ASSUME NEW s \in States, NEW m \in Seq(Nat), NEW n \in 0..Chunk
  PROVE  LET x == SkipBytes(s, n)
         IN  /\ Reads(s, x, SkipBytes(More(s, m), n), m)
             /\ x.r \in {0, 1}
             /\ x.r = 1 => Same(s, x.s, {"data"})
<1>1. CASE Len(s.data) < n
  <2>1. SkipBytes(s, n) = Need(s)
    BY <1>1 DEF SkipBytes
  <2>2. Len(s.data) < Chunk
    BY <1>1, SizesAssumption DEF States
  <2> QED
    BY <2>1, <2>2, NeedReads, Results
<1>2. CASE ~(Len(s.data) < n)
  <2> DEFINE d == Drop(s.data, n)
             t == [s EXCEPT !.data = d]
             e == More(s, m)
  <2>1. n \in 0..Len(s.data) /\ s.data \in Seq(Nat) /\ d \in Seq(Nat)
    BY <1>2, SizesAssumption, DropTyped DEF States
  <2>2. SkipBytes(s, n) = Done(t)
    BY <1>2, Zenon DEF SkipBytes
  <2>3. DOMAIN s = Fields /\ e.data = s.data \o m
    BY MoreFacts
  <2>4. Drop(e.data, n) = d \o m /\ ~(Len(e.data) < n)
    <3> DEFINE a == s.data
    <3>1. a \in Seq(Nat) /\ n \in 0..Len(a)
      BY <2>1
    <3> HIDE DEF a
    <3>2. Drop(a \o m, n) = Drop(a, n) \o m /\ ~(Len(a \o m) < n)
      BY <3>1, DropMore
    <3> QED
      BY <2>3, <3>2, Zenon DEF a
  <2>5. SkipBytes(e, n) = Done([e EXCEPT !.data = d \o m])
    BY <2>4, Zenon DEF SkipBytes
  <2> HIDE DEF d
  <2>6. Same(s, t, {"data"}) /\ t \in States
    BY <2>1, <2>3 DEF Same, Fields, States
  <2>7. [e EXCEPT !.data = d \o m] = More(t, m)
    BY <2>3 DEF Fields, More
  <2> HIDE DEF t, e
  <2>8. SkipBytes(e, n) = Done(More(t, m))
    BY <2>5, <2>7, Zenon
  <2> QED
    BY <2>2, <2>6, <2>8, DoneReads, Results DEF e
<1> QED  BY <1>1, <1>2

\* A varint that is there in full has the same length and value when bytes follow;
\* one that is not has fewer bytes than the longest, which fits the store.
LEMMA VarintFacts ==
  ASSUME NEW a \in Seq(Nat), NEW m \in Seq(Nat)
  PROVE  /\ VarintBytes(a) \in {0, 1, 3} /\ VarintBytes(a) <= Len(a)
         /\ VarintBytes(a) = 0 => Len(a) < 3
         /\ VarintBytes(a) # 0 =>
              /\ VarintValue(a) \in Nat
              /\ VarintBytes(a \o m) = VarintBytes(a) /\ VarintValue(a \o m) = VarintValue(a)
<1>1. /\ VarintBytes(a) \in {0, 1, 3} /\ VarintBytes(a) <= Len(a)
      /\ VarintBytes(a) = 0 => Len(a) < 3
  BY DEF VarintBytes
<1>2. ASSUME VarintBytes(a) # 0
      PROVE  /\ VarintValue(a) \in Nat
             /\ VarintBytes(a \o m) = VarintBytes(a) /\ VarintValue(a \o m) = VarintValue(a)
  <2>1. /\ a \o m \in Seq(Nat) /\ Len(a \o m) = Len(a) + Len(m) /\ Len(m) \in Nat
        /\ \A k \in 1..Len(a) : (a \o m)[k] = a[k]
    OBVIOUS
  <2>2. a # <<>> /\ Len(a) >= 1 /\ a \o m # <<>>
    BY <1>2, <2>1 DEF VarintBytes
  <2>3. (a \o m)[1] = a[1]
    BY <2>1, <2>2
  <2>4. VarintBytes(a \o m) = VarintBytes(a)
    <3> DEFINE t == a \o m
               n == IF a[1] = VarintOne THEN 3 ELSE 1
    <3> HIDE DEF t
    <3>1. VarintBytes(a) = IF Len(a) < n THEN 0 ELSE n
      BY <2>2 DEF VarintBytes
    <3>2. VarintBytes(t) = IF Len(t) < n THEN 0 ELSE n
      BY <2>2, <2>3 DEF VarintBytes, t
    <3>3. ~(Len(a) < n) /\ Len(t) >= Len(a)
      BY <1>2, <2>1, <3>1 DEF t
    <3>4. Len(a) \in Nat /\ Len(t) \in Nat /\ n \in Nat
      BY <2>1 DEF t
    <3> QED
      BY <3>1, <3>2, <3>3, <3>4 DEF t
  <2>5. CASE VarintBytes(a) = 3
    <3>1. (a \o m)[2] = a[2] /\ (a \o m)[3] = a[3] /\ a[2] \in Nat /\ a[3] \in Nat
      BY <1>1, <2>1, <2>5
    <3> QED
      BY <2>4, <2>5, <3>1 DEF VarintValue
  <2>6. CASE VarintBytes(a) # 3
    BY <2>2, <2>3, <2>4, <2>6 DEF VarintValue
  <2> QED  BY <2>4, <2>5, <2>6
<1> QED  BY <1>1, <1>2

\* The fields that a varint is read into.
VarintFields == {"size", "nIn", "nOut", "els"}

\* crypto_hash_update_varint hashes bytes.
LEMMA WriteVarintTyped ==
  ASSUME NEW n \in Nat
  PROVE  WriteVarint(n) \in Seq(Nat)
BY SizesAssumption DEF WriteVarint

\* dbuffer_read_varint into any of the fields that hold one.
LEMMA ReadVarintReads ==
  ASSUME NEW s \in States, NEW m \in Seq(Nat), NEW f \in VarintFields, NEW hash \in BOOLEAN
  PROVE  LET x == ReadVarint(s, f, hash)
         IN  /\ Reads(s, x, ReadVarint(More(s, m), f, hash), m)
             /\ x.r \in {0, 1}
             /\ x.r = 1 => Same(s, x.s, {f, "data", "hashed"}) /\ x.s[f] \in Nat
<1> DEFINE a == s.data
           n == VarintBytes(a)
           v == VarintValue(a)
           e == More(s, m)
<1>1. a \in Seq(Nat) /\ DOMAIN s = Fields /\ s.hashed \in Seq(Nat)
  BY MoreFacts DEF States
<1>2. CASE n = 0
  <2>1. ReadVarint(s, f, hash) = Need(s)
    BY <1>2 DEF ReadVarint
  <2>2. Len(s.data) < Chunk
    BY <1>1, <1>2, VarintFacts, SizesAssumption
  <2> QED
    BY <2>1, <2>2, NeedReads, Results
<1>3. CASE n # 0
  <2> HIDE DEF a
  <2>1. /\ n \in 0..Len(a) /\ v \in Nat /\ VarintBytes(a \o m) = n /\ VarintValue(a \o m) = v
    <3>1. n \in {0, 1, 3} /\ n <= Len(a)
      BY <1>1, VarintFacts, Zenon
    <3>2. v \in Nat /\ VarintBytes(a \o m) = n /\ VarintValue(a \o m) = v
      BY <1>1, <1>3, VarintFacts, Zenon
    <3> QED
      BY <1>1, <3>1, <3>2
  <2> DEFINE d == Drop(a, n)
             h == IF hash THEN s.hashed \o WriteVarint(v) ELSE s.hashed
             t == [s EXCEPT ![f] = v, !.data = d, !.hashed = h]
  <2> HIDE DEF n, v
  <2>2. d \in Seq(Nat) /\ h \in Seq(Nat)
    BY <1>1, <2>1, DropTyped, WriteVarintTyped
  <2>3. Drop(a \o m, n) = d \o m
    BY <1>1, <2>1, DropMore
  <2>4. e.data = a \o m /\ e.hashed = s.hashed
    BY MoreFacts DEF Fields, a
  <2>5. f \in Fields /\ f # "data" /\ f # "hashed"
    BY DEF VarintFields, Fields
  <2>6. ReadVarint(s, f, hash) = Done(t)
    BY <1>1, <1>3, <2>5 DEF ReadVarint, a, n, v
  <2>7. ReadVarint(e, f, hash) = Done([e EXCEPT ![f] = v, !.data = d \o m, !.hashed = h])
    BY <1>1, <1>3, <2>1, <2>3, <2>4, <2>5 DEF ReadVarint
  <2> HIDE DEF d, h
  <2>8. [e EXCEPT ![f] = v, !.data = d \o m, !.hashed = h] = More(t, m)
    BY <1>1, <2>5 DEF More, Fields
  <2>9. Same(s, t, {f, "data", "hashed"}) /\ t[f] = v
    BY <1>1, <2>5 DEF Same, Fields
  <2>10. t \in States
    <3>1. CASE f = "size"
      BY <2>1, <2>2, <3>1 DEF States
    <3>2. CASE f = "nIn"
      BY <2>1, <2>2, <3>2 DEF States
    <3>3. CASE f = "nOut"
      BY <2>1, <2>2, <3>3 DEF States
    <3>4. CASE f = "els"
      BY <2>1, <2>2, <3>4 DEF States
    <3> QED  BY <3>1, <3>2, <3>3, <3>4 DEF VarintFields
  <2> HIDE DEF t, e
  <2>11. ReadVarint(e, f, hash) = Done(More(t, m))
    BY <2>7, <2>8, Zenon
  <2> QED
    BY <2>1, <2>6, <2>9, <2>10, <2>11, DoneReads, Results DEF e
<1> QED  BY <1>2, <1>3

-----------------------------------------------------------------------------
(* Single steps.                                                            *)

\* parse_rawtx_check_segwit, which looks at one byte or takes two.
LEMMA CheckSegwitReads ==
  ASSUME NEW s \in States, NEW m \in Seq(Nat)
  PROVE  LET x == CheckSegwit(s)
         IN  /\ Reads(s, x, CheckSegwit(More(s, m)), m)
             /\ x.r # 0 => Same(s, x.s, {"segwit", "data"})
<1> DEFINE a == s.data
           e == More(s, m)
<1>1. /\ a \in Seq(Nat) /\ DOMAIN s = Fields /\ e.data = a \o m
  BY MoreFacts DEF States
<1>2. /\ a \o m \in Seq(Nat) /\ Len(a \o m) = Len(a) + Len(m) /\ Len(m) \in Nat /\ Len(a) \in Nat
      /\ \A k \in 1..Len(a) : (a \o m)[k] = a[k]
  <2> HIDE DEF a
  <2> QED  BY <1>1
<1>3. CASE a = <<>> \/ (a[1] = 0 /\ Len(a) < 2)
  <2>1. CheckSegwit(s) = Need(s)
    BY <1>3 DEF CheckSegwit
  <2>2. Len(s.data) < Chunk
    BY <1>1, <1>3, SizesAssumption
  <2> QED
    BY <2>1, <2>2, NeedReads, Results
<1>4. CASE a # <<>> /\ a[1] # 0
  <2> DEFINE t == [s EXCEPT !.segwit = FALSE]
  <2>1. CheckSegwit(s) = Done(t)
    BY <1>4, Zenon DEF CheckSegwit
  <2>2. e.data # <<>> /\ e.data[1] # 0
    <3> HIDE DEF a, e
    <3> QED  BY <1>1, <1>2, <1>4
  <2>3. CheckSegwit(e) = Done([e EXCEPT !.segwit = FALSE])
    BY <2>2, Zenon DEF CheckSegwit
  <2>4. [e EXCEPT !.segwit = FALSE] = More(t, m)
    BY <1>1 DEF Fields, More
  <2>5. Same(s, t, {"segwit", "data"})
    BY <1>1 DEF Same, Fields
  <2>6. t \in States
    BY DEF States
  <2> HIDE DEF t, e
  <2>7. CheckSegwit(e) = Done(More(t, m))
    BY <2>3, <2>4, Zenon
  <2> QED
    BY <2>1, <2>5, <2>6, <2>7, DoneReads, Results DEF e
<1>5. CASE a # <<>> /\ a[1] = 0 /\ ~(Len(a) < 2)
  <2> DEFINE d == Drop(a, 2)
  <2>1. /\ d \in Seq(Nat) /\ Drop(a \o m, 2) = d \o m
    <3> HIDE DEF a
    <3>1. 2 \in 0..Len(a)
      BY <1>2, <1>5
    <3> QED  BY <1>1, <3>1, DropTyped, DropMore
  <2>2. /\ e.data # <<>> /\ e.data[1] = 0 /\ ~(Len(e.data) < 2) /\ e.data[2] = a[2]
        /\ Drop(e.data, 2) = d \o m
    <3> HIDE DEF a, d, e
    <3> QED  BY <1>1, <1>2, <1>5, <2>1
  <2>3. CASE a[2] # 1
    <3> DEFINE t == [s EXCEPT !.data = d]
    <3>1. CheckSegwit(s) = Wrong(t)
      BY <1>5, <2>3, Zenon DEF CheckSegwit
    <3>2. CheckSegwit(e) = Wrong([e EXCEPT !.data = d \o m])
      BY <2>2, <2>3, Zenon DEF CheckSegwit
    <3> HIDE DEF d
    <3>3. [e EXCEPT !.data = d \o m] = More(t, m)
      BY <1>1 DEF Fields, More
    <3>4. t \in States
      BY <2>1 DEF States
    <3>5. Same(s, t, {"segwit", "data"})
      BY <1>1 DEF Same, Fields
    <3> HIDE DEF t, e
    <3>6. CheckSegwit(e) = Wrong(More(t, m))
      BY <3>2, <3>3, Zenon
    <3>7. Reads(s, Wrong(t), Wrong(More(t, m)), m)
      BY <3>4 DEF Wrong, Reads, Outcomes, Agrees
    <3> QED
      BY <3>1, <3>5, <3>6, <3>7, Results DEF e
  <2>4. CASE a[2] = 1
    <3> DEFINE t == [s EXCEPT !.data = d, !.segwit = TRUE]
    <3>1. CheckSegwit(s) = Done(t)
      BY <1>5, <2>4, Zenon DEF CheckSegwit
    <3>2. CheckSegwit(e) = Done([e EXCEPT !.data = d \o m, !.segwit = TRUE])
      BY <2>2, <2>4, Zenon DEF CheckSegwit
    <3> HIDE DEF d
    <3>3. [e EXCEPT !.data = d \o m, !.segwit = TRUE] = More(t, m)
      BY <1>1 DEF Fields, More
    <3>4. t \in States
      BY <2>1 DEF States
    <3>5. Same(s, t, {"segwit", "data"})
      BY <1>1 DEF Same, Fields
    <3> HIDE DEF t, e
    <3>6. CheckSegwit(e) = Done(More(t, m))
      BY <3>2, <3>3, Zenon
    <3> QED
      BY <3>1, <3>4, <3>5, <3>6, DoneReads, Results DEF e
  <2> QED  BY <2>3, <2>4
<1> QED  BY <1>3, <1>4, <1>5

\* parser_run goes on to the next step after a step that reads.
LEMMA NextStepReads ==
  ASSUME NEW s, NEW x, NEW y, NEW m \in Seq(Nat), Reads(s, x, y, m), x.r = 1 => x.s.step <= 11
  PROVE  /\ Reads(s, NextStep(x), NextStep(y), m) /\ NextStep(x).r = x.r
         /\ x.r = 1 => /\ Same(x.s, NextStep(x).s, {"step"})
                       /\ NextStep(x).s.step = x.s.step + 1
<1>1. CASE x.r = 1
  <2>1. x.s \in States /\ y.r = 1 /\ y.s = More(x.s, m)
    BY <1>1 DEF Reads, Outcomes, Agrees
  <2> DEFINE t == x.s
             v == t.step + 1
             u == [t EXCEPT !.step = v]
  <2>2. /\ NextStep(x) = Done(u)
        /\ NextStep(y) = Done([More(t, m) EXCEPT !.step = @ + 1])
    BY <1>1, <2>1, Zenon DEF NextStep
  <2>3. t \in States /\ t.step <= 11
    BY <1>1, <2>1
  <2> HIDE DEF t
  <2>4. DOMAIN t = Fields /\ More(t, m).step = t.step /\ t.step \in 1..12
    BY <2>3, MoreFacts DEF Fields, States
  <2>5. v \in 1..12
    BY <2>3, <2>4
  <2>6. [More(t, m) EXCEPT !.step = @ + 1] = More(u, m)
    BY <2>4 DEF More, Fields
  <2>7. NextStep(y) = Done(More(u, m))
    BY <2>2, <2>6, Zenon
  <2> HIDE DEF v
  <2>8. u \in States
    BY <2>3, <2>5 DEF States
  <2>9. Same(t, u, {"step"}) /\ u.step = v
    BY <2>4 DEF Same, Fields
  <2> HIDE DEF u
  <2> QED
    BY <1>1, <2>2, <2>7, <2>8, <2>9, DoneReads, Results DEF t, v
<1>2. CASE x.r # 1
  <2>1. NextStep(x) = x
    BY <1>2 DEF NextStep
  <2>2. x.r # 0 => NextStep(y) = y
    BY <1>2 DEF NextStep, Reads, Agrees
  <2> QED
    BY <1>2, <2>1, <2>2 DEF Reads, Agrees
<1> QED  BY <1>1, <1>2

\* The same for the steps of an input or output.
LEMMA NextSubReads ==
  ASSUME NEW s, NEW x, NEW y, NEW m \in Seq(Nat), Reads(s, x, y, m), x.r = 1 => x.s.sub <= 6
  PROVE  /\ Reads(s, NextSub(x), NextSub(y), m) /\ NextSub(x).r = x.r
         /\ x.r = 1 => /\ Same(x.s, NextSub(x).s, {"sub"})
                       /\ NextSub(x).s.sub = x.s.sub + 1
<1>1. CASE x.r = 1
  <2>1. x.s \in States /\ y.r = 1 /\ y.s = More(x.s, m)
    BY <1>1 DEF Reads, Outcomes, Agrees
  <2> DEFINE t == x.s
             v == t.sub + 1
             u == [t EXCEPT !.sub = v]
  <2>2. /\ NextSub(x) = Done(u)
        /\ NextSub(y) = Done([More(t, m) EXCEPT !.sub = @ + 1])
    BY <1>1, <2>1, Zenon DEF NextSub
  <2>3. t \in States /\ t.sub <= 6
    BY <1>1, <2>1
  <2> HIDE DEF t
  <2>4. DOMAIN t = Fields /\ More(t, m).sub = t.sub /\ t.sub \in 1..7
    BY <2>3, MoreFacts, SMTT(60) DEF Fields, States
  <2>5. v \in 1..7
    BY <2>3, <2>4
  <2>6. [More(t, m) EXCEPT !.sub = @ + 1] = More(u, m)
    BY <2>4 DEF More, Fields
  <2>7. NextSub(y) = Done(More(u, m))
    BY <2>2, <2>6, Zenon
  <2> HIDE DEF v
  <2>8. u \in States
    BY <2>3, <2>5 DEF States
  <2>9. Same(t, u, {"sub"}) /\ u.sub = v
    BY <2>4 DEF Same, Fields
  <2> HIDE DEF u
  <2> QED
    BY <1>1, <2>2, <2>7, <2>8, <2>9, DoneReads, Results DEF t, v
<1>2. CASE x.r # 1
  <2>1. NextSub(x) = x
    BY <1>2 DEF NextSub
  <2>2. x.r # 0 => NextSub(y) = y
    BY <1>2 DEF NextSub, Reads, Agrees
  <2> QED
    BY <1>2, <2>1, <2>2 DEF Reads, Agrees
<1> QED  BY <1>1, <1>2

\* A step that needs no bytes.
LEMMA NextStepDone ==
  ASSUME NEW s, NEW u \in States, NEW m \in Seq(Nat), u.step <= 11
  PROVE  LET x == NextStep(Done(u))
         IN  /\ Reads(s, x, NextStep(Done(More(u, m))), m) /\ x.r = 1
             /\ Same(u, x.s, {"step"}) /\ x.s.step = u.step + 1
<1> DEFINE d == Done(u)
<1>1. d.r = 1 /\ d.s = u /\ Reads(s, d, Done(More(u, m)), m)
  BY DoneReads, Results, Zenon
<1> HIDE DEF d
<1>2. d.r = 1 => d.s.step <= 11
  BY <1>1, Zenon
<1>3. /\ Reads(s, NextStep(d), NextStep(Done(More(u, m))), m) /\ NextStep(d).r = d.r
      /\ d.r = 1 => Same(d.s, NextStep(d).s, {"step"}) /\ NextStep(d).s.step = d.s.step + 1
  BY <1>1, <1>2, NextStepReads, Zenon
<1> QED
  BY <1>1, <1>3, Zenon DEF d

\* The same for the steps of an input or output.
LEMMA NextSubDone ==
  ASSUME NEW s, NEW u \in States, NEW m \in Seq(Nat), u.sub <= 6
  PROVE  LET x == NextSub(Done(u))
         IN  /\ Reads(s, x, NextSub(Done(More(u, m))), m) /\ x.r = 1
             /\ Same(u, x.s, {"sub"}) /\ x.s.sub = u.sub + 1
<1> DEFINE d == Done(u)
<1>1. d.r = 1 /\ d.s = u /\ Reads(s, d, Done(More(u, m)), m)
  BY DoneReads, Results, Zenon
<1> HIDE DEF d
<1>2. d.r = 1 => d.s.sub <= 6
  BY <1>1, Zenon
<1>3. /\ Reads(s, NextSub(d), NextSub(Done(More(u, m))), m) /\ NextSub(d).r = d.r
      /\ d.r = 1 => Same(d.s, NextSub(d).s, {"sub"}) /\ NextSub(d).s.sub = d.s.sub + 1
  BY <1>1, <1>2, NextSubReads, Zenon
<1> QED
  BY <1>1, <1>3, Zenon DEF d

-----------------------------------------------------------------------------
(* Inputs and outputs.                                                      *)

\* A piece of a script is not longer than the store and not longer than what is
\* left of the script.
LEMMA PieceFacts ==
  ASSUME NEW s \in States, NEW m \in Seq(Nat), s.got <= s.size
  PROVE  /\ ScriptPiece(s) \in 0..Chunk /\ s.got + ScriptPiece(s) \in 0..s.size
         /\ ScriptPiece(More(s, m)) = ScriptPiece(s)
<1>1. s.size \in Nat /\ s.got \in Nat
  BY DEF States
<1>2. ScriptPiece(s) \in 0..Chunk /\ s.got + ScriptPiece(s) \in 0..s.size
  BY <1>1, SizesAssumption DEF ScriptPiece, MinOf
<1>3. More(s, m).size = s.size /\ More(s, m).got = s.got
  BY MoreFacts DEF Fields
<1> QED
  BY <1>2, <1>3, Zenon DEF ScriptPiece

\* Setting the counter of the bytes of a script.
LEMMA GotUpdate ==
  ASSUME NEW t \in States, NEW m \in Seq(Nat), NEW v \in Nat
  PROVE  LET u == [t EXCEPT !.got = v]
         IN  /\ u \in States /\ Same(t, u, {"got"}) /\ u.got = v
             /\ [More(t, m) EXCEPT !.got = v] = More(u, m)
<1>1. DOMAIN t = Fields
  BY MoreFacts
<1> DEFINE u == [t EXCEPT !.got = v]
<1>2. u \in States
  BY DEF States
<1>3. Same(t, u, {"got"}) /\ u.got = v /\ [More(t, m) EXCEPT !.got = v] = More(u, m)
  BY <1>1 DEF Same, Fields, More
<1> QED
  BY <1>2, <1>3

\* A round of parse_rawtxinput_scriptsig, which goes on with the script or ends it.
LEMMA ScriptSigReads ==
  ASSUME NEW s \in States, NEW m \in Seq(Nat), s.got <= s.size, s.sub <= 6
  PROVE  LET x == ScriptSig(s)
         IN  /\ Reads(s, x, ScriptSig(More(s, m)), m)
             /\ x.r \in {0, 1}
             /\ x.r = 1 => /\ x.s.step = s.step /\ x.s.script = s.script
                           /\ \/ x.s.sub = s.sub /\ x.s.got <= x.s.size
                              \/ x.s.sub = s.sub + 1
<1> DEFINE n == ScriptPiece(s)
           e == More(s, m)
           b == ReadBytes(s, n)
           c == ReadBytes(e, n)
<1>1. n \in 0..Chunk /\ s.got + n \in 0..s.size /\ ScriptPiece(e) = n
  BY PieceFacts
<1> HIDE DEF n, e
<1>2. /\ Reads(s, b, c, m) /\ b.r \in {0, 1}
      /\ b.r = 1 => Same(s, b.s, {"data", "hashed"})
  BY <1>1, ReadBytesReads DEF e
<1> HIDE DEF b, c
<1>3. CASE b.r = 0
  <2>1. ScriptSig(s) = b
    BY <1>3, Zenon DEF ScriptSig, b, n
  <2> QED
    BY <1>2, <1>3, <2>1 DEF Reads, Agrees
<1>4. CASE b.r = 1
  <2> DEFINE t == b.s
             v == t.got + n
             u == [t EXCEPT !.got = v]
  <2>1. t \in States /\ c.r = 1 /\ c.s = More(t, m)
    BY <1>2, <1>4 DEF Reads, Outcomes, Agrees
  <2>2. t.got = s.got /\ t.size = s.size /\ t.sub = s.sub /\ t.step = s.step /\ t.script = s.script
    BY <1>2, <1>4 DEF Same, Fields
  <2> HIDE DEF t
  <2>3. v \in Nat /\ v <= s.size /\ More(t, m).got = t.got
    <3>1. v \in 0..s.size /\ s.size \in Nat
      BY <1>1, <2>2 DEF States
    <3>2. More(t, m).got = t.got
      BY <2>1, MoreFacts DEF Fields
    <3> HIDE DEF v
    <3> QED  BY <3>1, <3>2
  <2>4. /\ u \in States /\ Same(t, u, {"got"}) /\ u.got = v
        /\ [More(t, m) EXCEPT !.got = v] = More(u, m)
    BY <2>1, <2>3, GotUpdate
  <2>5. [More(t, m) EXCEPT !.got = @ + n] = More(u, m)
    BY <2>3, <2>4, Zenon
  <2>6. /\ u.size = s.size /\ u.sub = s.sub /\ u.step = s.step /\ u.script = s.script
        /\ More(u, m).got = u.got /\ More(u, m).size = u.size
    <3>1. /\ u.size = t.size /\ u.sub = t.sub /\ u.step = t.step /\ u.script = t.script
      BY <2>4, Zenon DEF Same, Fields
    <3>2. More(u, m).got = u.got /\ More(u, m).size = u.size
      BY <2>4, MoreFacts DEF Fields
    <3> QED
      BY <2>2, <3>1, <3>2, Zenon
  <2>7. ScriptSig(s) = IF u.got = u.size THEN NextSub(Done(u)) ELSE Done(u)
    <3>1. ScriptSig(s) = LET w == [b.s EXCEPT !.got = @ + n]
                         IN  IF w.got = w.size THEN NextSub(Done(w)) ELSE Done(w)
      BY <1>4 DEF ScriptSig, b, n
    <3> QED
      BY <3>1, Zenon DEF t
  <2>8. ScriptSig(e) = IF u.got = u.size THEN NextSub(Done(More(u, m))) ELSE Done(More(u, m))
    <3>1. ScriptSig(e) = LET w == [c.s EXCEPT !.got = @ + n]
                         IN  IF w.got = w.size THEN NextSub(Done(w)) ELSE Done(w)
      BY <1>1, <2>1 DEF ScriptSig, c
    <3> QED
      BY <2>1, <2>5, <2>6, <3>1, Zenon
  <2> HIDE DEF u, v
  <2>9. Reads(s, Done(u), Done(More(u, m)), m)
    BY <2>4, DoneReads
  <2>10. CASE u.got = u.size
    <3>1. /\ Reads(s, NextSub(Done(u)), NextSub(Done(More(u, m))), m)
          /\ NextSub(Done(u)).r = 1
          /\ Same(u, NextSub(Done(u)).s, {"sub"}) /\ NextSub(Done(u)).s.sub = u.sub + 1
      BY <2>4, <2>6, NextSubDone, Zenon
    <3>2. /\ NextSub(Done(u)).s.step = s.step /\ NextSub(Done(u)).s.sub = s.sub + 1
          /\ NextSub(Done(u)).s.script = s.script
      BY <2>6, <3>1 DEF Same, Fields
    <3> QED
      BY <2>7, <2>8, <2>10, <3>1, <3>2 DEF e
  <2>11. CASE u.got # u.size
    BY <2>3, <2>4, <2>6, <2>7, <2>8, <2>9, <2>11, Results DEF e
  <2> QED  BY <2>10, <2>11
<1> QED  BY <1>2, <1>3, <1>4

\* Which output was asked for does not depend on the bytes at hand.
LEMMA AskedMore ==
  ASSUME NEW s \in States, NEW m \in Seq(Nat)
  PROVE  Asked(More(s, m)) <=> Asked(s)
BY MoreFacts DEF Asked, Fields

\* The first n bytes do not depend on the bytes that follow.
LEMMA TakeMore ==
  ASSUME NEW s \in States, NEW m \in Seq(Nat), NEW n \in Nat, n <= Len(s.data)
  PROVE  /\ SubSeq(s.data, 1, n) \in Seq(Nat) /\ Len(SubSeq(s.data, 1, n)) = n
         /\ SubSeq(More(s, m).data, 1, n) = SubSeq(s.data, 1, n)
<1> DEFINE a == s.data
<1>1. a \in Seq(Nat) /\ More(s, m).data = a \o m /\ n \in 0..Len(a)
  <2>1. a \in Seq(Nat)
    BY DEF States
  <2>2. More(s, m).data = a \o m
    BY MoreFacts
  <2>3. n \in 0..Len(a)
    BY <2>1
  <2> QED  BY <2>1, <2>2, <2>3, Zenon
<1> HIDE DEF a
<1>2. SubSeq(a \o m, 1, n) = SubSeq(a, 1, n) /\ SubSeq(a, 1, n) \in Seq(Nat) /\ Len(SubSeq(a, 1, n)) = n
  BY <1>1, DropMore, DropTyped
<1> QED
  BY <1>1, <1>2, Zenon DEF a

\* parse_rawtxoutput_value, which keeps the amount of the output asked for.
LEMMA OutputValueReads ==
  ASSUME NEW s \in States, NEW m \in Seq(Nat)
  PROVE  LET x == OutputValue(s)
         IN  /\ Reads(s, x, OutputValue(More(s, m)), m)
             /\ x.r \in {0, 1}
             /\ x.r = 1 => Same(s, x.s, {"data", "hashed", "value"})
<1> DEFINE e == More(s, m)
           b == ReadBytes(s, Amount)
           c == ReadBytes(e, Amount)
<1>1. /\ Reads(s, b, c, m) /\ b.r \in {0, 1} /\ Amount \in Nat
      /\ b.r = 1 => Len(s.data) >= Amount /\ Same(s, b.s, {"data", "hashed"})
  BY ReadBytesReads, SizesAssumption
<1>2. /\ OutputValue(s) = IF b.r = 1 /\ Asked(s)
                          THEN Done([b.s EXCEPT !.value = SubSeq(s.data, 1, Amount)]) ELSE b
      /\ OutputValue(e) = IF c.r = 1 /\ Asked(e)
                          THEN Done([c.s EXCEPT !.value = SubSeq(e.data, 1, Amount)]) ELSE c
  BY DEF OutputValue
<1> HIDE DEF e, b, c
<1>3. Asked(e) <=> Asked(s)
  BY AskedMore DEF e
<1>4. CASE b.r = 1 /\ Asked(s)
  <2> DEFINE t == b.s
             v == SubSeq(s.data, 1, Amount)
             u == [t EXCEPT !.value = v]
  <2>1. t \in States /\ c.r = 1 /\ c.s = More(t, m)
    BY <1>1, <1>4 DEF Reads, Outcomes, Agrees
  <2>2. v \in Seq(Nat) /\ SubSeq(e.data, 1, Amount) = v
    BY <1>1, <1>4, TakeMore, SizesAssumption DEF States, e
  <2>3. OutputValue(s) = Done(u) /\ OutputValue(e) = Done([More(t, m) EXCEPT !.value = v])
    BY <1>2, <1>3, <1>4, <2>1, <2>2, Zenon
  <2>4. Same(s, t, {"data", "hashed"})
    BY <1>1, <1>4
  <2> HIDE DEF t, v
  <2>5. DOMAIN t = Fields
    BY <2>1, MoreFacts
  <2>6. u \in States
    BY <2>1, <2>2 DEF States
  <2>7. [More(t, m) EXCEPT !.value = v] = More(u, m)
    BY <2>5 DEF More, Fields
  <2>8. Same(s, u, {"data", "hashed", "value"})
    BY <2>4, <2>5 DEF Same, Fields
  <2> HIDE DEF u
  <2>9. OutputValue(e) = Done(More(u, m))
    BY <2>3, <2>7, Zenon
  <2> QED
    BY <2>3, <2>6, <2>8, <2>9, DoneReads, Results DEF e
<1>5. CASE ~(b.r = 1 /\ Asked(s))
  <2>1. OutputValue(s) = b /\ (b.r # 0 => OutputValue(e) = c)
    <3>1. CASE b.r = 0
      BY <1>2, <3>1
    <3>2. CASE b.r = 1
      BY <1>2, <1>3, <1>5, <3>2, Zenon
    <3> QED  BY <1>1, <3>1, <3>2
  <2>2. Reads(s, b, OutputValue(e), m)
    BY <1>1, <2>1 DEF Reads, Agrees
  <2>3. b.r = 1 => Same(s, b.s, {"data", "hashed", "value"})
    BY <1>1 DEF Same
  <2> QED
    BY <1>1, <2>1, <2>2, <2>3 DEF e
<1> QED  BY <1>4, <1>5

\* parse_rawtxoutput_scriptpubkey_size, which keeps the length for the output asked for.
LEMMA ScriptPubKeySizeReads ==
  ASSUME NEW s \in States, NEW m \in Seq(Nat)
  PROVE  LET x == ScriptPubKeySize(s)
         IN  /\ Reads(s, x, ScriptPubKeySize(More(s, m)), m)
             /\ x.r \in {0, 1}
             /\ x.r = 1 => /\ Same(s, x.s, {"data", "hashed", "size", "scriptLen"})
                           /\ Asked(s) => x.s.scriptLen = x.s.size
<1> DEFINE e == More(s, m)
           b == ReadVarint(s, "size", TRUE)
           c == ReadVarint(e, "size", TRUE)
<1>1. /\ Reads(s, b, c, m) /\ b.r \in {0, 1}
      /\ b.r = 1 => Same(s, b.s, {"size", "data", "hashed"}) /\ b.s.size \in Nat
  BY ReadVarintReads DEF VarintFields
<1>2. /\ ScriptPubKeySize(s) = IF b.r = 1 /\ Asked(s)
                               THEN Done([b.s EXCEPT !.scriptLen = b.s.size]) ELSE b
      /\ ScriptPubKeySize(e) = IF c.r = 1 /\ Asked(e)
                               THEN Done([c.s EXCEPT !.scriptLen = c.s.size]) ELSE c
  BY DEF ScriptPubKeySize
<1> HIDE DEF e, b, c
<1>3. Asked(e) <=> Asked(s)
  BY AskedMore DEF e
<1>4. CASE b.r = 1 /\ Asked(s)
  <2> DEFINE t == b.s
             v == t.size
             u == [t EXCEPT !.scriptLen = v]
  <2>1. t \in States /\ c.r = 1 /\ c.s = More(t, m)
    BY <1>1, <1>4 DEF Reads, Outcomes, Agrees
  <2>2. v \in Nat /\ DOMAIN t = Fields /\ More(t, m).size = v
    BY <1>1, <1>4, <2>1, MoreFacts DEF Fields
  <2>3. ScriptPubKeySize(s) = Done(u) /\ ScriptPubKeySize(e) = Done([More(t, m) EXCEPT !.scriptLen = v])
    BY <1>2, <1>3, <1>4, <2>1, <2>2, Zenon
  <2>4. Same(s, t, {"data", "hashed", "size"})
    BY <1>1, <1>4 DEF Same
  <2> HIDE DEF t, v
  <2>6. u \in States
    BY <2>1, <2>2 DEF States
  <2>7. [More(t, m) EXCEPT !.scriptLen = v] = More(u, m)
    BY <2>2 DEF More, Fields
  <2>8. Same(s, u, {"data", "hashed", "size", "scriptLen"}) /\ u.scriptLen = u.size
    BY <2>2, <2>4 DEF Same, Fields, v
  <2> HIDE DEF u
  <2>9. ScriptPubKeySize(e) = Done(More(u, m))
    BY <2>3, <2>7, Zenon
  <2> QED
    BY <2>3, <2>6, <2>8, <2>9, DoneReads, Results DEF e
<1>5. CASE ~(b.r = 1 /\ Asked(s))
  <2>1. ScriptPubKeySize(s) = b /\ (b.r # 0 => ScriptPubKeySize(e) = c)
    <3>1. CASE b.r = 0
      BY <1>2, <3>1
    <3>2. CASE b.r = 1
      BY <1>2, <1>3, <1>5, <3>2, Zenon
    <3> QED  BY <1>1, <3>1, <3>2
  <2>2. Reads(s, b, ScriptPubKeySize(e), m)
    BY <1>1, <2>1 DEF Reads, Agrees
  <2>3. b.r = 1 => Same(s, b.s, {"data", "hashed", "size", "scriptLen"})
    BY <1>1 DEF Same
  <2> QED
    BY <1>1, <1>5, <2>1, <2>2, <2>3 DEF e
<1> QED  BY <1>4, <1>5

\* What memcpy leaves of a script that was copied up to the offset.
LEMMA CopyToTyped ==
  ASSUME NEW script \in Seq(Nat), NEW at \in Nat, at <= Len(script), NEW bytes \in Seq(Nat)
  PROVE  /\ CopyTo(script, at, bytes) \in Seq(Nat)
         /\ Len(CopyTo(script, at, bytes)) = at + Len(bytes)
<1>1. SubSeq(script, 1, at) \in Seq(Nat) /\ Len(SubSeq(script, 1, at)) = at
  OBVIOUS
<1> QED
  BY <1>1 DEF CopyTo

\* A round of parse_rawtxoutput_scriptpubkey: the copy stays within the buffer, since
\* the length that is compared with its size is the length of this script.
LEMMA ScriptPubKeyReads ==
  ASSUME NEW s \in States, NEW m \in Seq(Nat), s.got <= s.size, s.sub <= 6,
         Asked(s) => s.got <= Len(s.script) /\ s.scriptLen = s.size,
         Len(s.script) <= MaxScript
  PROVE  LET x == ScriptPubKey(s)
         IN  /\ Reads(s, x, ScriptPubKey(More(s, m)), m)
             /\ x.r # 0 => x.s.step = s.step /\ Len(x.s.script) <= MaxScript
             /\ x.r = 1 => \/ /\ x.s.sub = s.sub /\ x.s.got <= x.s.size
                              /\ Asked(x.s) => x.s.got <= Len(x.s.script) /\ x.s.scriptLen = x.s.size
                           \/ x.s.sub = s.sub + 1
<1> DEFINE n == ScriptPiece(s)
           e == More(s, m)
           b == ReadBytes(s, n)
           c == ReadBytes(e, n)
<1>1. n \in 0..Chunk /\ s.got + n \in 0..s.size /\ ScriptPiece(e) = n /\ n \in Nat
  BY PieceFacts
<1> HIDE DEF n
<1>2. /\ Reads(s, b, c, m) /\ b.r \in {0, 1}
      /\ b.r = 1 => Len(s.data) >= n /\ Same(s, b.s, {"data", "hashed"})
  BY <1>1, ReadBytesReads
<1>3. /\ Asked(e) <=> Asked(s) 
      /\ e.scriptLen = s.scriptLen /\ e.got = s.got
  BY AskedMore, MoreFacts DEF Fields
<1> HIDE DEF e, b, c
<1>4. CASE b.r = 0
  <2>1. ScriptPubKey(s) = b
    BY <1>4 DEF ScriptPubKey, b, n
  <2> QED
    BY <1>2, <1>4, <2>1 DEF Reads, Agrees
<1>5. CASE b.r = 1
  <2> DEFINE t == b.s
             bytes == SubSeq(s.data, 1, n)
             v == t.got + n
             w == IF Asked(s) THEN CopyTo(t.script, s.got, bytes) ELSE t.script
             u == [t EXCEPT !.got = v, !.script = w]
  <2>1. t \in States /\ c.r = 1 /\ c.s = More(t, m)
    BY <1>2, <1>5 DEF Reads, Outcomes, Agrees
  <2>2. /\ t.got = s.got /\ t.size = s.size /\ t.sub = s.sub /\ t.step = s.step
        /\ t.script = s.script /\ t.counter = s.counter /\ t.index = s.index
        /\ t.scriptLen = s.scriptLen
    BY <1>2, <1>5 DEF Same, Fields
  <2>3. /\ bytes \in Seq(Nat) /\ Len(bytes) = n /\ SubSeq(e.data, 1, n) = bytes
    BY <1>1, <1>2, <1>5, TakeMore DEF States, e
  <2> HIDE DEF t, bytes
  <2>4. /\ DOMAIN t = Fields /\ More(t, m).got = t.got /\ More(t, m).script = t.script
    BY <2>1, MoreFacts DEF Fields
  <2>5. v \in 0..s.size /\ s.size \in Nat /\ s.got \in Nat /\ t.script \in Seq(Nat)
    BY <1>1, <2>1, <2>2 DEF States
  <2>6. w \in Seq(Nat) /\ (Asked(s) => Len(w) = v)
    <3>1. CASE Asked(s)
      <4>1. CopyTo(t.script, s.got, bytes) \in Seq(Nat) /\ Len(CopyTo(t.script, s.got, bytes)) = s.got + n
        BY <2>2, <2>3, <2>5, <3>1, CopyToTyped
      <4> QED  BY <2>2, <3>1, <4>1, Zenon
    <3>2. CASE ~Asked(s)
      BY <2>5, <3>2
    <3> QED  BY <3>1, <3>2
  <2>7. ScriptPubKey(s) = IF Asked(s) /\ s.scriptLen > MaxScript THEN Wrong(t)
                          ELSE IF u.got = u.size THEN NextSub(Done(u)) ELSE Done(u)
    <3>1. ScriptPubKey(s) =
            LET z == [b.s EXCEPT !.got = @ + n,
                        !.script = IF Asked(s) THEN CopyTo(@, s.got, SubSeq(s.data, 1, n)) ELSE @]
            IN  IF Asked(s) /\ s.scriptLen > MaxScript THEN Wrong(b.s)
                ELSE IF z.got = z.size THEN NextSub(Done(z)) ELSE Done(z)
      BY <1>5 DEF ScriptPubKey, b, n
    <3> QED
      BY <3>1, Zenon DEF t, bytes
  <2>8. ScriptPubKey(e) =
          LET z == [More(t, m) EXCEPT !.got = v, !.script = w]
          IN  IF Asked(s) /\ s.scriptLen > MaxScript THEN Wrong(More(t, m))
              ELSE IF z.got = z.size THEN NextSub(Done(z)) ELSE Done(z)
    <3>1. ScriptPubKey(e) =
            LET z == [c.s EXCEPT !.got = @ + n,
                        !.script = IF Asked(e) THEN CopyTo(@, e.got, SubSeq(e.data, 1, n)) ELSE @]
            IN  IF Asked(e) /\ e.scriptLen > MaxScript THEN Wrong(c.s)
                ELSE IF z.got = z.size THEN NextSub(Done(z)) ELSE Done(z)
      BY <1>1, <2>1 DEF ScriptPubKey, c
    <3> QED
      BY <1>3, <2>1, <2>3, <2>4, <3>1, Zenon
  <2> HIDE DEF v, w
  <2>9. [More(t, m) EXCEPT !.got = v, !.script = w] = More(u, m)
    BY <2>4 DEF More, Fields
  <2>10. Same(t, u, {"got", "script"}) /\ u.got = v /\ u.script = w
    BY <2>4 DEF Same, Fields
  <2>11. u \in States
    <3>1. v \in Nat
      BY <2>5
    <3> QED
      BY <2>1, <2>6, <3>1 DEF States
  <2> HIDE DEF u
  <2>12. /\ u.size = s.size /\ u.sub = s.sub /\ u.step = s.step /\ u.scriptLen = s.scriptLen
         /\ More(u, m).got = u.got /\ More(u, m).size = u.size
         /\ Asked(u) <=> Asked(s)
    BY <2>2, <2>10, <2>11, MoreFacts DEF Same, Fields, Asked
  <2>13. ScriptPubKey(e) = IF Asked(s) /\ s.scriptLen > MaxScript THEN Wrong(More(t, m))
                           ELSE IF u.got = u.size THEN NextSub(Done(More(u, m))) ELSE Done(More(u, m))
    BY <2>8, <2>9, <2>12, Zenon
  <2>14. ASSUME ~(Asked(s) /\ s.scriptLen > MaxScript)
         PROVE  Len(u.script) <= MaxScript
    <3>1. CASE Asked(s)
      <4>1. s.scriptLen \in Nat /\ MaxScript \in Nat
        BY SizesAssumption DEF States
      <4>2. Len(w) = v /\ v <= s.size /\ s.scriptLen = s.size /\ ~(s.scriptLen > MaxScript)
        BY <2>5, <2>6, <2>14, <3>1
      <4>3. v \in Nat
        BY <2>5
      <4> QED  BY <2>10, <4>1, <4>2, <4>3
    <3>2. CASE ~Asked(s)
      BY <2>2, <2>10, <3>2 DEF w
    <3> QED  BY <3>1, <3>2
  <2>15. CASE Asked(s) /\ s.scriptLen > MaxScript
    <3>1. ScriptPubKey(s) = Wrong(t) /\ ScriptPubKey(e) = Wrong(More(t, m))
      BY <2>7, <2>13, <2>15, Zenon
    <3> QED
      BY <2>1, <2>2, <3>1 DEF e, Wrong, Reads, Outcomes, Agrees
  <2>16. CASE ~(Asked(s) /\ s.scriptLen > MaxScript) /\ u.got = u.size
    <3>1. ScriptPubKey(s) = NextSub(Done(u)) /\ ScriptPubKey(e) = NextSub(Done(More(u, m)))
      BY <2>7, <2>13, <2>16, Zenon
    <3>2. /\ Reads(s, NextSub(Done(u)), NextSub(Done(More(u, m))), m)
          /\ NextSub(Done(u)).r = 1
          /\ Same(u, NextSub(Done(u)).s, {"sub"}) /\ NextSub(Done(u)).s.sub = u.sub + 1
      BY <2>11, <2>12, NextSubDone, Zenon
    <3>3. /\ NextSub(Done(u)).s.step = s.step /\ NextSub(Done(u)).s.sub = s.sub + 1
          /\ NextSub(Done(u)).s.script = u.script
      BY <2>12, <3>2 DEF Same, Fields
    <3> QED
      BY <2>16, <2>14, <3>1, <3>2, <3>3 DEF e
  <2>17. CASE ~(Asked(s) /\ s.scriptLen > MaxScript) /\ u.got # u.size
    <3>1. ScriptPubKey(s) = Done(u) /\ ScriptPubKey(e) = Done(More(u, m))
      BY <2>7, <2>13, <2>17, Zenon
    <3>2. Reads(s, Done(u), Done(More(u, m)), m) /\ Done(u).r = 1 /\ Done(u).s = u
      BY <2>11, DoneReads, Results, Zenon
    <3>3. u.got <= u.size /\ (Asked(u) => u.got <= Len(u.script) /\ u.scriptLen = u.size)
      BY <2>5, <2>6, <2>10, <2>12
    <3> QED
      BY <2>12, <2>17, <2>14, <3>1, <3>2, <3>3 DEF e
  <2> QED  BY <2>15, <2>16, <2>17
<1> QED  BY <1>2, <1>4, <1>5

\* A step of an input or output followed by the next one.
LEMMA SubStep ==
  ASSUME NEW s \in States, NEW x, NEW y, NEW m \in Seq(Nat), Reads(s, x, y, m), s.sub <= 6,
         x.r = 1 => x.s.step = s.step /\ x.s.sub = s.sub
  PROVE  LET z == NextSub(x)
         IN  /\ Reads(s, z, NextSub(y), m) /\ z.r = x.r
             /\ z.r = 1 => /\ z.s.step = s.step /\ z.s.sub = s.sub + 1
                           /\ Same(x.s, z.s, {"sub"})
<1>1. /\ Reads(s, NextSub(x), NextSub(y), m) /\ NextSub(x).r = x.r
      /\ x.r = 1 => Same(x.s, NextSub(x).s, {"sub"}) /\ NextSub(x).s.sub = x.s.sub + 1
  BY NextSubReads
<1> QED
  BY <1>1 DEF Same, Fields

\* Every step of an input reads and leaves the parser sound.
LEMMA InputStepReads ==
  ASSUME NEW s, Sound(s), NEW m \in Seq(Nat), s.step = 5, s.sub <= 6
  PROVE  LET x == InputStep(s)
         IN  /\ Reads(s, x, InputStep(More(s, m)), m)
             /\ x.r \in {0, 1}
             /\ x.r = 1 => Sound(x.s)
<1> DEFINE e == More(s, m)
           x == InputStep(s)
<1>1. s \in States /\ s.sub \in 1..6 /\ e.sub = s.sub
  <2>1. s \in States
    BY DEF Sound
  <2>2. s.sub \in 1..7
    BY <2>1 DEF States
  <2>3. e.sub = s.sub
    BY <2>1, MoreFacts DEF Fields
  <2> QED  BY <2>1, <2>2, <2>3
<1> HIDE DEF e
<1>2. ASSUME NEW b, NEW c, Reads(s, b, c, m), b.r \in {0, 1},
             b.r = 1 => b.s.step = s.step /\ b.s.sub = s.sub /\ b.s.script = s.script,
             x = NextSub(b), InputStep(e) = NextSub(c),
             s.sub = 4 => b.r = 1 /\ b.s.got = 0
      PROVE  /\ Reads(s, x, InputStep(e), m)
             /\ x.r \in {0, 1}
             /\ x.r = 1 => Sound(x.s)
  <2> HIDE DEF x
  <2>1. /\ Reads(s, x, InputStep(e), m) /\ x.r = b.r
        /\ x.r = 1 => x.s.step = s.step /\ x.s.sub = s.sub + 1 /\ Same(b.s, x.s, {"sub"})
    <3>1. s.sub <= 6
      BY <1>1
    <3> QED  BY <1>1, <1>2, <3>1, SubStep, Zenon
  <2>2. x.r = 1 => x.s \in States
    BY <2>1 DEF Reads, Outcomes
  <2>3. ASSUME x.r = 1
        PROVE  Sound(x.s)
    <3>1. x.s \in States /\ x.s.size \in Nat
      BY <2>2, <2>3 DEF States
    <3>2. Len(x.s.script) <= MaxScript
      BY <1>2, <2>1, <2>3 DEF Sound, Same, Fields
    <3>3. InScript(x.s) => x.s.got = 0
      BY <1>1, <1>2, <2>1, <2>3 DEF InScript, Same, Fields
    <3>4. InScript(x.s) => x.s.got <= x.s.size
      BY <3>1, <3>3
    <3> QED
      BY <2>1, <2>3, <3>2, <3>1, <3>4 DEF Sound
  <2> QED  BY <1>2, <2>1, <2>3
<1>3. CASE s.sub = 1
  <2>1. x = NextSub(ReadBytes(s, Chunk)) /\ InputStep(e) = NextSub(ReadBytes(e, Chunk))
    BY <1>1, <1>3 DEF InputStep
  <2>2. /\ Reads(s, ReadBytes(s, Chunk), ReadBytes(e, Chunk), m)
        /\ ReadBytes(s, Chunk).r \in {0, 1}
        /\ ReadBytes(s, Chunk).r = 1 => Same(s, ReadBytes(s, Chunk).s, {"data", "hashed"})
    BY <1>1, ReadBytesReads, SizesAssumption DEF e
  <2> DEFINE b == ReadBytes(s, Chunk)
  <2> HIDE DEF b
  <2>3. b.r = 1 => b.s.step = s.step /\ b.s.sub = s.sub /\ b.s.script = s.script
    BY <2>2 DEF Same, Fields, b
  <2> QED  BY <1>2, <1>3, <2>1, <2>2, <2>3 DEF e, b
<1>4. CASE s.sub = 2 \/ s.sub = 6
  <2>1. x = NextSub(ReadBytes(s, Word)) /\ InputStep(e) = NextSub(ReadBytes(e, Word))
    <3>1. CASE s.sub = 2
      BY <1>1, <3>1 DEF InputStep
    <3>2. CASE s.sub = 6
      BY <1>1, <3>2 DEF InputStep
    <3> QED  BY <1>4, <3>1, <3>2
  <2>2. /\ Reads(s, ReadBytes(s, Word), ReadBytes(e, Word), m)
        /\ ReadBytes(s, Word).r \in {0, 1}
        /\ ReadBytes(s, Word).r = 1 => Same(s, ReadBytes(s, Word).s, {"data", "hashed"})
    BY <1>1, ReadBytesReads, SizesAssumption DEF e
  <2> DEFINE b == ReadBytes(s, Word)
  <2> HIDE DEF b
  <2>3. b.r = 1 => b.s.step = s.step /\ b.s.sub = s.sub /\ b.s.script = s.script
    BY <2>2 DEF Same, Fields, b
  <2> QED  BY <1>2, <1>4, <2>1, <2>2, <2>3 DEF e, b
<1>5. CASE s.sub = 3
  <2> DEFINE b == ReadVarint(s, "size", TRUE)
             c == ReadVarint(e, "size", TRUE)
  <2>1. x = NextSub(b) /\ InputStep(e) = NextSub(c)
    BY <1>1, <1>5 DEF InputStep
  <2>2. /\ Reads(s, b, c, m) /\ b.r \in {0, 1}
        /\ b.r = 1 => Same(s, b.s, {"size", "data", "hashed"})
    BY <1>1, ReadVarintReads DEF e, VarintFields
  <2> HIDE DEF b, c
  <2>3. b.r = 1 => b.s.step = s.step /\ b.s.sub = s.sub /\ b.s.script = s.script
    BY <2>2 DEF Same, Fields
  <2> QED  BY <1>2, <1>5, <2>1, <2>2, <2>3 DEF e
<1>6. CASE s.sub = 4
  <2> DEFINE u == [s EXCEPT !.got = 0]
  <2>1. x = NextSub(Done(u)) /\ InputStep(e) = NextSub(Done([e EXCEPT !.got = 0]))
    BY <1>1, <1>6 DEF InputStep
  <2>2. u \in States /\ Same(s, u, {"got"}) /\ u.got = 0 /\ [e EXCEPT !.got = 0] = More(u, m)
    BY <1>1, GotUpdate DEF e
  <2> HIDE DEF u
  <2>3. Reads(s, Done(u), Done(More(u, m)), m) /\ Done(u).r = 1 /\ Done(u).s = u
    BY <2>2, DoneReads, Results, Zenon
  <2>4. u.step = s.step /\ u.sub = s.sub /\ u.script = s.script
    BY <2>2 DEF Same, Fields
  <2> QED  BY <1>2, <1>6, <2>1, <2>2, <2>3, <2>4 DEF e
<1>7. CASE s.sub = 5
  <2>1. x = ScriptSig(s) /\ InputStep(e) = ScriptSig(e) /\ s.got <= s.size
    BY <1>1, <1>7 DEF InputStep, Sound, InScript
  <2> HIDE DEF x
  <2>2. /\ Reads(s, x, InputStep(e), m) /\ x.r \in {0, 1}
        /\ x.r = 1 => /\ x.s.step = s.step /\ x.s.script = s.script
                      /\ \/ x.s.sub = s.sub /\ x.s.got <= x.s.size
                         \/ x.s.sub = s.sub + 1
    BY <1>1, <2>1, ScriptSigReads DEF e
  <2>3. x.r = 1 => Sound(x.s)
    BY <1>7, <2>2 DEF Sound, InScript, Reads, Outcomes
  <2> QED  BY <2>2, <2>3 DEF e, x
<1> QED  BY <1>1, <1>3, <1>4, <1>5, <1>6, <1>7

\* Every step of an output reads and leaves the parser sound.
LEMMA OutputStepReads ==
  ASSUME NEW s, Sound(s), NEW m \in Seq(Nat), s.step = 8, s.sub <= 4
  PROVE  LET x == OutputStep(s)
         IN  /\ Reads(s, x, OutputStep(More(s, m)), m)
             /\ x.r # 0 => x.s.step = 8 /\ Len(x.s.script) <= MaxScript
             /\ x.r = 1 => Sound(x.s)
<1> DEFINE e == More(s, m)
           x == OutputStep(s)
<1>1. s \in States /\ s.sub \in 1..4 /\ e.sub = s.sub
  <2>1. s \in States
    BY DEF Sound
  <2>2. s.sub \in 1..7
    BY <2>1 DEF States
  <2>3. e.sub = s.sub
    BY <2>1, MoreFacts DEF Fields
  <2> QED  BY <2>1, <2>2, <2>3
<1> HIDE DEF e
<1>2. ASSUME NEW b, NEW c, Reads(s, b, c, m), b.r \in {0, 1},
             b.r = 1 => b.s.step = s.step /\ b.s.sub = s.sub /\ b.s.script = s.script,
             x = NextSub(b), OutputStep(e) = NextSub(c), s.sub < 4,
             s.sub = 3 => b.r = 1 /\ b.s.got = 0,
             b.r = 1 => (Asked(b.s) <=> Asked(s)),
             b.r = 1 /\ (s.sub = 2 \/ s.sub = 3) /\ Asked(s) => b.s.scriptLen = b.s.size
      PROVE  /\ Reads(s, x, OutputStep(e), m)
             /\ x.r # 0 => x.s.step = 8 /\ Len(x.s.script) <= MaxScript
             /\ x.r = 1 => Sound(x.s)
  <2> HIDE DEF x
  <2>1. /\ Reads(s, x, OutputStep(e), m) /\ x.r = b.r
        /\ x.r = 1 => x.s.step = s.step /\ x.s.sub = s.sub + 1 /\ Same(b.s, x.s, {"sub"})
    <3>1. s.sub <= 6
      BY <1>1
    <3> QED  BY <1>1, <1>2, <3>1, SubStep, Zenon
  <2>2. x.r = 1 => x.s \in States
    BY <2>1 DEF Reads, Outcomes
  <2>3. ASSUME x.r = 1
        PROVE  Sound(x.s)
    <3>1. x.s \in States /\ x.s.size \in Nat
      BY <2>2, <2>3 DEF States
    <3>2. Len(x.s.script) <= MaxScript
      BY <1>2, <2>1, <2>3 DEF Sound, Same, Fields
    <3>3. InScript(x.s) => x.s.got = 0
      BY <1>1, <1>2, <2>1, <2>3 DEF InScript, Same, Fields
    <3>4. InScript(x.s) => x.s.got <= x.s.size
      BY <3>1, <3>3
    <3>5. x.s.step = 8 /\ x.s.sub = 4 => x.s.got <= Len(x.s.script)
      BY <3>1, <3>3 DEF InScript, States
    <3>6. /\ x.s.script = b.s.script /\ x.s.scriptLen = b.s.scriptLen /\ x.s.size = b.s.size
          /\ Asked(x.s) <=> Asked(b.s)
      BY <2>1, <2>3 DEF Same, Fields, Asked
    <3>7. x.s.sub = 3 \/ x.s.sub = 4 => s.sub = 2 \/ s.sub = 3
      BY <1>1, <2>1, <2>3
    <3>8. x.s.sub \in {3, 4} /\ Asked(x.s) => x.s.scriptLen = x.s.size
      BY <1>2, <2>1, <2>3, <3>6, <3>7
    <3> QED
      BY <3>2, <3>1, <3>4, <3>5, <3>8 DEF Sound
  <2>4. x.r = 1 => Len(x.s.script) <= MaxScript
    BY <2>3 DEF Sound
  <2> QED  BY <1>2, <2>1, <2>3, <2>4
<1>3. CASE s.sub = 1
  <2> DEFINE b == OutputValue(s)
             c == OutputValue(e)
  <2>1. x = NextSub(b) /\ OutputStep(e) = NextSub(c)
    BY <1>1, <1>3 DEF OutputStep
  <2>2. /\ Reads(s, b, c, m) /\ b.r \in {0, 1}
        /\ b.r = 1 => Same(s, b.s, {"data", "hashed", "value"})
    BY <1>1, OutputValueReads DEF e
  <2> HIDE DEF b, c
  <2>3. b.r = 1 => /\ b.s.step = s.step /\ b.s.sub = s.sub /\ b.s.script = s.script
                   /\ Asked(b.s) <=> Asked(s)
    BY <2>2 DEF Same, Fields, Asked
  <2> QED  BY <1>2, <1>3, <2>1, <2>2, <2>3 DEF e
<1>4. CASE s.sub = 2
  <2> DEFINE b == ScriptPubKeySize(s)
             c == ScriptPubKeySize(e)
  <2>1. x = NextSub(b) /\ OutputStep(e) = NextSub(c)
    BY <1>1, <1>4 DEF OutputStep
  <2>2. /\ Reads(s, b, c, m) /\ b.r \in {0, 1}
        /\ b.r = 1 => /\ Same(s, b.s, {"data", "hashed", "size", "scriptLen"})
                      /\ Asked(s) => b.s.scriptLen = b.s.size
    BY <1>1, ScriptPubKeySizeReads DEF e
  <2> HIDE DEF b, c
  <2>3. b.r = 1 => /\ b.s.step = s.step /\ b.s.sub = s.sub /\ b.s.script = s.script
                   /\ Asked(b.s) <=> Asked(s)
    BY <2>2 DEF Same, Fields, Asked
  <2> QED  BY <1>2, <1>4, <2>1, <2>2, <2>3 DEF e
<1>5. CASE s.sub = 3
  <2> DEFINE u == [s EXCEPT !.got = 0]
  <2>1. x = NextSub(Done(u)) /\ OutputStep(e) = NextSub(Done([e EXCEPT !.got = 0]))
    BY <1>1, <1>5 DEF OutputStep
  <2>2. u \in States /\ Same(s, u, {"got"}) /\ u.got = 0 /\ [e EXCEPT !.got = 0] = More(u, m)
    BY <1>1, GotUpdate DEF e
  <2> HIDE DEF u
  <2>3. Reads(s, Done(u), Done(More(u, m)), m) /\ Done(u).r = 1 /\ Done(u).s = u
    BY <2>2, DoneReads, Results, Zenon
  <2>4. /\ u.step = s.step /\ u.sub = s.sub /\ u.script = s.script
        /\ Asked(u) <=> Asked(s)
        /\ u.scriptLen = s.scriptLen /\ u.size = s.size
    BY <2>2 DEF Same, Fields, Asked
  <2>5. Asked(s) => u.scriptLen = u.size
    BY <1>5, <2>4 DEF Sound
  <2> QED  BY <1>2, <1>5, <2>1, <2>2, <2>3, <2>4, <2>5 DEF e
<1>6. CASE s.sub = 4
  <2>1. /\ x = ScriptPubKey(s) /\ OutputStep(e) = ScriptPubKey(e) /\ s.got <= s.size
        /\ Asked(s) => s.got <= Len(s.script) /\ s.scriptLen = s.size
        /\ Len(s.script) <= MaxScript
    BY <1>1, <1>6 DEF OutputStep, Sound, InScript
  <2> HIDE DEF x
  <2>2. /\ Reads(s, x, OutputStep(e), m)
        /\ x.r # 0 => x.s.step = s.step /\ Len(x.s.script) <= MaxScript
        /\ x.r = 1 => \/ /\ x.s.sub = s.sub /\ x.s.got <= x.s.size
                         /\ Asked(x.s) => x.s.got <= Len(x.s.script) /\ x.s.scriptLen = x.s.size
                      \/ x.s.sub = s.sub + 1
    BY <1>1, <2>1, ScriptPubKeyReads DEF e
  <2>3. x.r = 1 => Sound(x.s)
    BY <1>6, <2>2 DEF Sound, InScript, Reads, Outcomes
  <2> QED  BY <2>2, <2>3 DEF e, x
<1> QED  BY <1>1, <1>3, <1>4, <1>5, <1>6

\* The sub-parser is started for item v.
LEMMA RestartReads ==
  ASSUME NEW s, NEW t \in States, NEW m \in Seq(Nat), NEW v \in Nat
  PROVE  LET x == Done(Restart([t EXCEPT !.counter = v]))
         IN  /\ Reads(s, x, Done(Restart([More(t, m) EXCEPT !.counter = v])), m)
             /\ x.r = 1 /\ x.s.step = t.step /\ x.s.sub = 1 /\ x.s.script = t.script
<1> DEFINE u == Restart([t EXCEPT !.counter = v])
<1>1. DOMAIN t = Fields
  BY MoreFacts
<1>2. u \in States
  <2> DEFINE w == [t EXCEPT !.counter = v]
  <2>1. w \in States
    BY DEF States
  <2> HIDE DEF w
  <2>2. \A k \in 1..7 : [w EXCEPT !.sub = k] \in States
    BY <2>1 DEF States
  <2>3. 1 \in 1..7
    OBVIOUS
  <2> QED
    BY <2>2, <2>3, Zenon DEF Restart, w
<1>3. /\ u.step = t.step /\ u.sub = 1 /\ u.script = t.script
      /\ Restart([More(t, m) EXCEPT !.counter = v]) = More(u, m)
  BY <1>1 DEF Fields, More, Restart
<1> HIDE DEF u
<1> QED
  BY <1>2, <1>3, DoneReads, Results DEF u

\* The loops over inputs and outputs go on to the next item.
LEMMA NextItemReads ==
  ASSUME NEW s, NEW t \in States, NEW m \in Seq(Nat)
  PROVE  LET x == NextItem(t)
         IN  /\ Reads(s, x, NextItem(More(t, m)), m)
             /\ x.r = 1 /\ x.s.step = t.step /\ x.s.sub = 1 /\ x.s.script = t.script
<1> DEFINE v == t.counter + 1
<1>1. v \in Nat /\ More(t, m).counter = t.counter
  <2>1. v \in Nat
    BY DEF States
  <2>2. More(t, m).counter = t.counter
    BY MoreFacts DEF Fields
  <2> QED  BY <2>1, <2>2
<1>2. /\ NextItem(t) = Done(Restart([t EXCEPT !.counter = v]))
      /\ NextItem(More(t, m)) = Done(Restart([More(t, m) EXCEPT !.counter = v]))
  BY <1>1, Zenon DEF NextItem
<1> HIDE DEF v
<1> DEFINE x == Done(Restart([t EXCEPT !.counter = v]))
<1>3. /\ Reads(s, x, Done(Restart([More(t, m) EXCEPT !.counter = v])), m)
      /\ x.r = 1 /\ x.s.step = t.step /\ x.s.sub = 1 /\ x.s.script = t.script
  BY <1>1, RestartReads, Zenon
<1> QED
  BY <1>2, <1>3, Zenon

\* A step of the transaction followed by the next one.
LEMMA TopStep ==
  ASSUME NEW s \in States, NEW x, NEW y, NEW m \in Seq(Nat), Reads(s, x, y, m), s.step <= 11,
         x.r = 1 => x.s.step = s.step
  PROVE  LET z == NextStep(x)
         IN  /\ Reads(s, z, NextStep(y), m) /\ z.r = x.r
             /\ z.r = 1 => z.s.step = s.step + 1 /\ z.s.sub = x.s.sub /\ z.s.script = x.s.script
             /\ z.r # 1 => z = x
<1>1. /\ Reads(s, NextStep(x), NextStep(y), m) /\ NextStep(x).r = x.r
      /\ x.r = 1 => Same(x.s, NextStep(x).s, {"step"}) /\ NextStep(x).s.step = x.s.step + 1
  BY NextStepReads
<1> QED
  BY <1>1 DEF Same, Fields, NextStep

\* A loop over inputs, outputs or witnesses that is over.
LEMMA LeavesLoop ==
  ASSUME NEW s \in States, NEW m \in Seq(Nat), s.step \in {5, 8, 10}, Len(s.script) <= MaxScript
  PROVE  LET x == NextStep(Done(s))
         IN  Reads(s, x, NextStep(Done(More(s, m))), m) /\ x.r = 1 /\ Sound(x.s)
<1> DEFINE x == NextStep(Done(s))
<1>1. s.step <= 11
  OBVIOUS
<1>2. /\ Reads(s, x, NextStep(Done(More(s, m))), m) /\ x.r = 1 /\ x.s.step = s.step + 1
      /\ Same(s, x.s, {"step"})
  BY <1>1, NextStepDone
<1> HIDE DEF x
<1>3. Sound(x.s)
  <2>1. x.s \in States
    BY <1>2 DEF Reads, Outcomes
  <2>2. x.s.step # 5 /\ x.s.step # 8
    BY <1>2
  <2>3. x.s.script = s.script
    BY <1>2 DEF Same, Fields
  <2> QED  BY <2>1, <2>2, <2>3 DEF Sound, InScript
<1> QED  BY <1>2, <1>3 DEF x

\* At the start of an item the parser is sound if its buffer is.
LEMMA FirstSubIsSound ==
  ASSUME NEW s, NEW x, NEW y, NEW m, Reads(s, x, y, m), x.s.sub = 1, Len(x.s.script) <= MaxScript
  PROVE  Sound(x.s)
BY DEF Reads, Outcomes, Sound, InScript

\* A round of parse_rawtx_inputs.
LEMMA InputsReads ==
  ASSUME NEW s, Sound(s), NEW m \in Seq(Nat), s.step = 5
  PROVE  LET x == Inputs(s)
         IN  Reads(s, x, Inputs(More(s, m)), m) /\ (x.r # 0 => Sound(x.s))
<1> DEFINE e == More(s, m)
<1>1. s \in States /\ s.sub \in 1..7 /\ Len(s.script) <= MaxScript /\ s.counter \in Nat /\ s.nIn \in Nat
  BY DEF Sound, States
<1>2. e.counter = s.counter /\ e.nIn = s.nIn /\ e.sub = s.sub
  BY <1>1, MoreFacts DEF Fields
<1> HIDE DEF e
<1>3. CASE s.counter >= s.nIn
  <2>1. Inputs(s) = NextStep(Done(s)) /\ Inputs(e) = NextStep(Done(e))
    BY <1>2, <1>3, Zenon DEF Inputs
  <2>2. Reads(s, NextStep(Done(s)), NextStep(Done(e)), m) /\ Sound(NextStep(Done(s)).s)
    BY <1>1, LeavesLoop DEF e
  <2> QED  BY <2>1, <2>2, Zenon DEF e
<1>4. CASE ~(s.counter >= s.nIn) /\ s.sub > 6
  <2>1. Inputs(s) = NextItem(s) /\ Inputs(e) = NextItem(e)
    BY <1>2, <1>4, Zenon DEF Inputs
  <2>2. /\ Reads(s, NextItem(s), NextItem(e), m) /\ NextItem(s).s.sub = 1
        /\ NextItem(s).s.script = s.script
    BY <1>1, NextItemReads, Zenon DEF e
  <2> QED  BY <1>1, <2>1, <2>2, FirstSubIsSound, Zenon DEF e
<1>5. CASE ~(s.counter >= s.nIn) /\ ~(s.sub > 6)
  <2>1. Inputs(s) = InputStep(s) /\ Inputs(e) = InputStep(e)
    BY <1>2, <1>5, Zenon DEF Inputs
  <2>2. s.sub <= 6
    BY <1>1, <1>5
  <2>3. /\ Reads(s, InputStep(s), InputStep(e), m) /\ InputStep(s).r \in {0, 1}
        /\ InputStep(s).r = 1 => Sound(InputStep(s).s)
    BY <2>2, InputStepReads, Zenon DEF e
  <2>4. InputStep(s).r # 0 => InputStep(s).r = 1
    BY <2>3
  <2> QED  BY <2>1, <2>3, <2>4, Zenon DEF e
<1> QED  BY <1>3, <1>4, <1>5

\* A round of parse_rawtx_outputs, which takes an error of an output for its end.
LEMMA OutputsReads ==
  ASSUME NEW s, Sound(s), NEW m \in Seq(Nat), s.step = 8
  PROVE  LET x == Outputs(s)
         IN  Reads(s, x, Outputs(More(s, m)), m) /\ (x.r # 0 => Sound(x.s))
<1> DEFINE e == More(s, m)
           b == OutputStep(s)
           c == OutputStep(e)
<1>1. s \in States /\ s.sub \in 1..7 /\ Len(s.script) <= MaxScript /\ s.counter \in Nat /\ s.nOut \in Nat
  BY DEF Sound, States
<1>2. e.counter = s.counter /\ e.nOut = s.nOut /\ e.sub = s.sub
  BY <1>1, MoreFacts DEF Fields
<1> HIDE DEF e
<1>3. CASE s.counter >= s.nOut
  <2>1. Outputs(s) = NextStep(Done(s)) /\ Outputs(e) = NextStep(Done(e))
    BY <1>2, <1>3, Zenon DEF Outputs
  <2>2. Reads(s, NextStep(Done(s)), NextStep(Done(e)), m) /\ Sound(NextStep(Done(s)).s)
    BY <1>1, LeavesLoop DEF e
  <2> QED  BY <2>1, <2>2, Zenon DEF e
<1>4. CASE ~(s.counter >= s.nOut) /\ s.sub > 4
  <2>1. Outputs(s) = NextItem(s) /\ Outputs(e) = NextItem(e)
    BY <1>2, <1>4, Zenon DEF Outputs
  <2>2. /\ Reads(s, NextItem(s), NextItem(e), m) /\ NextItem(s).s.sub = 1
        /\ NextItem(s).s.script = s.script
    BY <1>1, NextItemReads, Zenon DEF e
  <2> QED  BY <1>1, <2>1, <2>2, FirstSubIsSound, Zenon DEF e
<1>5. CASE ~(s.counter >= s.nOut) /\ ~(s.sub > 4)
  <2>1. /\ Outputs(s) = IF b.r = -1 THEN NextItem(b.s) ELSE b
        /\ Outputs(e) = IF c.r = -1 THEN NextItem(c.s) ELSE c
    BY <1>2, <1>5, Zenon DEF Outputs
  <2>2. s.sub <= 4
    BY <1>1, <1>5
  <2>3. Reads(s, b, c, m) /\ (b.r # 0 => Len(b.s.script) <= MaxScript) /\ (b.r = 1 => Sound(b.s))
    BY <2>2, OutputStepReads, Zenon DEF e
  <2> HIDE DEF b, c
  <2>4. CASE b.r = -1
    <3>1. b.s \in States /\ c.r = -1 /\ c.s = More(b.s, m) /\ Len(b.s.script) <= MaxScript
      BY <2>3, <2>4 DEF Reads, Outcomes, Agrees
    <3>2. Outputs(s) = NextItem(b.s) /\ Outputs(e) = NextItem(More(b.s, m))
      BY <2>1, <2>4, <3>1, Zenon
    <3>3. /\ Reads(s, NextItem(b.s), NextItem(More(b.s, m)), m) /\ NextItem(b.s).s.sub = 1
          /\ NextItem(b.s).s.script = b.s.script
      BY <3>1, NextItemReads, Zenon
    <3> QED  BY <3>1, <3>2, <3>3, FirstSubIsSound, Zenon DEF e
  <2>5. CASE b.r # -1
    <3>1. Outputs(s) = b
      BY <2>1, <2>5, Zenon
    <3>2. b.r # 0 => Outputs(e) = c
      BY <2>1, <2>3, <2>5 DEF Reads, Agrees
    <3>3. Reads(s, b, Outputs(e), m)
      BY <2>3, <3>2 DEF Reads, Agrees
    <3>4. b.r # 0 => b.r = 1
      BY <2>3, <2>5 DEF Reads, Outcomes
    <3> QED  BY <2>3, <3>1, <3>3, <3>4, Zenon DEF e
  <2> QED  BY <2>4, <2>5
<1> QED  BY <1>3, <1>4, <1>5

-----------------------------------------------------------------------------
(* Witnesses, and the transaction.                                          *)

\* A round of parse_rawtx_witnesses that ends in u.
LEMMA WitnessRound ==
  ASSUME NEW s, NEW u \in States, NEW m \in Seq(Nat), u.step = 10, Len(u.script) <= MaxScript,
         Witnesses(s) = Done(u), Witnesses(More(s, m)) = Done(More(u, m))
  PROVE  LET x == Witnesses(s)
         IN  Reads(s, x, Witnesses(More(s, m)), m) /\ (x.r # 0 => Sound(x.s))
<1>1. Reads(s, Done(u), Done(More(u, m)), m) /\ Done(u).s = u
  BY DoneReads, Results, Zenon
<1>2. Sound(u)
  BY DEF Sound, InScript
<1> QED
  BY <1>1, <1>2, Zenon

\* Every round of parse_rawtx_witnesses.
LEMMA WitnessesReads ==
  ASSUME NEW s, Sound(s), NEW m \in Seq(Nat), s.step = 10
  PROVE  LET x == Witnesses(s)
         IN  Reads(s, x, Witnesses(More(s, m)), m) /\ (x.r # 0 => Sound(x.s))
<1> DEFINE e == More(s, m)
           n == ScriptPiece(s)
<1>1. s \in States /\ DOMAIN s = Fields /\ Len(s.script) <= MaxScript
  BY MoreFacts DEF Sound
<1>2. /\ e.counter = s.counter /\ e.nIn = s.nIn /\ e.segwit = s.segwit /\ e.elsRead = s.elsRead
      /\ e.el = s.el /\ e.els = s.els /\ e.sizeRead = s.sizeRead /\ e.got = s.got /\ e.size = s.size
  BY <1>1, MoreFacts DEF Fields
<1> HIDE DEF e
<1> DEFINE over == ~s.segwit \/ s.counter >= s.nIn
<1>3. CASE over
  <2>1. Witnesses(s) = NextStep(Done(s)) /\ Witnesses(e) = NextStep(Done(e))
    BY <1>2, <1>3, Zenon DEF Witnesses
  <2>2. Reads(s, NextStep(Done(s)), NextStep(Done(e)), m) /\ Sound(NextStep(Done(s)).s)
    BY <1>1, LeavesLoop DEF e
  <2> QED  BY <2>1, <2>2, Zenon DEF e
<1>4. CASE ~over /\ ~s.elsRead
  <2> DEFINE b == ReadVarint(s, "els", FALSE)
             c == ReadVarint(e, "els", FALSE)
  <2>1. /\ Witnesses(s) = IF b.r = 0 THEN b
                          ELSE Done([b.s EXCEPT !.elsRead = TRUE, !.sizeRead = FALSE, !.el = 0])
        /\ Witnesses(e) = IF c.r = 0 THEN c
                          ELSE Done([c.s EXCEPT !.elsRead = TRUE, !.sizeRead = FALSE, !.el = 0])
    BY <1>2, <1>4, Zenon DEF Witnesses
  <2>2. /\ Reads(s, b, c, m) /\ b.r \in {0, 1}
        /\ b.r = 1 => Same(s, b.s, {"els", "data", "hashed"})
    BY <1>1, ReadVarintReads DEF e, VarintFields
  <2> HIDE DEF b, c
  <2>3. CASE b.r = 0
    BY <2>1, <2>2, <2>3 DEF Reads, Agrees
  <2>4. CASE b.r = 1
    <3> DEFINE t == b.s
               u == [t EXCEPT !.elsRead = TRUE, !.sizeRead = FALSE, !.el = 0]
    <3>1. t \in States /\ c.r = 1 /\ c.s = More(t, m) /\ t.step = 10 /\ t.script = s.script
      BY <2>2, <2>4 DEF Reads, Outcomes, Agrees, Same, Fields
    <3>2. Witnesses(s) = Done(u)
      BY <2>1, <2>4
    <3>3. Witnesses(e) = Done([More(t, m) EXCEPT !.elsRead = TRUE, !.sizeRead = FALSE, !.el = 0])
      BY <2>1, <3>1
    <3> HIDE DEF t
    <3>4. DOMAIN t = Fields
      BY <3>1, MoreFacts
    <3>5. u \in States
      BY <3>1 DEF States
    <3>6. u.step = t.step /\ u.script = t.script /\ [More(t, m) EXCEPT !.elsRead = TRUE, !.sizeRead = FALSE, !.el = 0] = More(u, m)
      BY <3>4 DEF More, Fields
    <3> HIDE DEF u
    <3> QED
      BY <1>1, <3>1, <3>2, <3>3, <3>5, <3>6, WitnessRound, Zenon DEF e
  <2> QED  BY <2>2, <2>3, <2>4
<1>5. CASE ~over /\ s.elsRead /\ s.el >= s.els
  <2> DEFINE v == s.counter + 1
             u == [s EXCEPT !.elsRead = FALSE, !.counter = v]
  <2>1. Witnesses(s) = Done(u) /\ Witnesses(e) = Done([e EXCEPT !.elsRead = FALSE, !.counter = v])
    BY <1>2, <1>5, Zenon DEF Witnesses
  <2>2. v \in Nat
    BY <1>1 DEF States
  <2> HIDE DEF v
  <2>3. u \in States
    BY <1>1, <2>2 DEF States
  <2>4. u.step = s.step /\ u.script = s.script /\ [e EXCEPT !.elsRead = FALSE, !.counter = v] = More(u, m)
    BY <1>1 DEF e, More, Fields
  <2> HIDE DEF u
  <2> QED
    BY <1>1, <2>1, <2>3, <2>4, WitnessRound, Zenon DEF e
<1>6. CASE ~over /\ s.elsRead /\ ~(s.el >= s.els) /\ ~s.sizeRead
  <2> DEFINE b == ReadVarint(s, "size", FALSE)
             c == ReadVarint(e, "size", FALSE)
  <2>1. /\ Witnesses(s) = IF b.r = 0 THEN b ELSE Done([b.s EXCEPT !.sizeRead = TRUE, !.got = 0])
        /\ Witnesses(e) = IF c.r = 0 THEN c ELSE Done([c.s EXCEPT !.sizeRead = TRUE, !.got = 0])
    BY <1>2, <1>6, Zenon DEF Witnesses
  <2>2. /\ Reads(s, b, c, m) /\ b.r \in {0, 1}
        /\ b.r = 1 => Same(s, b.s, {"size", "data", "hashed"})
    BY <1>1, ReadVarintReads DEF e, VarintFields
  <2> HIDE DEF b, c
  <2>3. CASE b.r = 0
    BY <2>1, <2>2, <2>3 DEF Reads, Agrees
  <2>4. CASE b.r = 1
    <3> DEFINE t == b.s
               u == [t EXCEPT !.sizeRead = TRUE, !.got = 0]
    <3>1. t \in States /\ c.r = 1 /\ c.s = More(t, m) /\ t.step = 10 /\ t.script = s.script
      BY <2>2, <2>4 DEF Reads, Outcomes, Agrees, Same, Fields
    <3>2. Witnesses(s) = Done(u)
      BY <2>1, <2>4
    <3>3. Witnesses(e) = Done([More(t, m) EXCEPT !.sizeRead = TRUE, !.got = 0])
      BY <2>1, <3>1
    <3> HIDE DEF t
    <3>4. DOMAIN t = Fields
      BY <3>1, MoreFacts
    <3>5. u \in States
      BY <3>1 DEF States
    <3>6. u.step = t.step /\ u.script = t.script /\ [More(t, m) EXCEPT !.sizeRead = TRUE, !.got = 0] = More(u, m)
      BY <3>4 DEF More, Fields
    <3> HIDE DEF u
    <3> QED
      BY <1>1, <3>1, <3>2, <3>3, <3>5, <3>6, WitnessRound, Zenon DEF e
  <2> QED  BY <2>2, <2>3, <2>4
<1>7. CASE ~over /\ s.elsRead /\ ~(s.el >= s.els) /\ s.sizeRead /\ s.got >= s.size
  <2> DEFINE v == s.el + 1
             u == [s EXCEPT !.sizeRead = FALSE, !.el = v]
  <2>1. Witnesses(s) = Done(u) /\ Witnesses(e) = Done([e EXCEPT !.sizeRead = FALSE, !.el = v])
    BY <1>2, <1>7, Zenon DEF Witnesses
  <2>2. v \in Nat
    BY <1>1 DEF States
  <2> HIDE DEF v
  <2>3. u \in States
    BY <1>1, <2>2 DEF States
  <2>4. u.step = s.step /\ u.script = s.script /\ [e EXCEPT !.sizeRead = FALSE, !.el = v] = More(u, m)
    BY <1>1 DEF e, More, Fields
  <2> HIDE DEF u
  <2> QED
    BY <1>1, <2>1, <2>3, <2>4, WitnessRound, Zenon DEF e
<1>8. CASE ~over /\ s.elsRead /\ ~(s.el >= s.els) /\ s.sizeRead /\ ~(s.got >= s.size)
  <2> DEFINE b == SkipBytes(s, n)
             c == SkipBytes(e, n)
  <2>1. n \in 0..Chunk /\ ScriptPiece(e) = n
    <3>1. s.got <= s.size
      BY <1>1, <1>8 DEF States
    <3> QED  BY <1>1, <3>1, PieceFacts DEF e
  <2>2. /\ Witnesses(s) = IF b.r = 0 THEN b ELSE Done([b.s EXCEPT !.got = @ + n])
        /\ Witnesses(e) = IF c.r = 0 THEN c ELSE Done([c.s EXCEPT !.got = @ + n])
    BY <1>2, <1>8, <2>1, Zenon DEF Witnesses
  <2> HIDE DEF n
  <2>3. /\ Reads(s, b, c, m) /\ b.r \in {0, 1} /\ (b.r = 1 => Same(s, b.s, {"data"}))
    BY <1>1, <2>1, SkipBytesReads DEF e
  <2> HIDE DEF b, c
  <2>4. CASE b.r = 0
    BY <2>2, <2>3, <2>4 DEF Reads, Agrees
  <2>5. CASE b.r = 1
    <3> DEFINE t == b.s
               v == t.got + n
               u == [t EXCEPT !.got = v]
    <3>1. t \in States /\ c.r = 1 /\ c.s = More(t, m) /\ t.step = 10 /\ t.script = s.script
      BY <2>3, <2>5 DEF Reads, Outcomes, Agrees, Same, Fields
    <3>2. More(t, m).got = t.got
      BY <3>1, MoreFacts DEF Fields
    <3>3. Witnesses(s) = Done(u) /\ Witnesses(e) = Done([More(t, m) EXCEPT !.got = v])
      BY <2>2, <2>5, <3>1, <3>2
    <3> HIDE DEF t
    <3>4. v \in Nat
      BY <2>1, <3>1, SizesAssumption DEF States
    <3>5. u \in States /\ Same(t, u, {"got"}) /\ [More(t, m) EXCEPT !.got = v] = More(u, m)
      BY <3>1, <3>4, GotUpdate
    <3>6. u.step = 10 /\ u.script = s.script
      BY <3>1, <3>5 DEF Same, Fields
    <3> HIDE DEF u, v
    <3> QED
      BY <1>1, <3>3, <3>5, <3>6, WitnessRound, Zenon DEF e
  <2> QED  BY <2>3, <2>4, <2>5
<1> QED  BY <1>3, <1>4, <1>5, <1>6, <1>7, <1>8

\* What each step of parse_rawtx_steps does.
LEMMA StepCases ==
  ASSUME NEW s
  PROVE  /\ s.step = 1 => Step(s) = NextStep(ReadBytes(s, Word))
         /\ s.step = 2 => Step(s) = NextStep(CheckSegwit(s))
         /\ s.step = 3 => Step(s) = NextStep(ReadVarint(s, "nIn", TRUE))
         /\ s.step = 4 => Step(s) = NextStep(StartItems(s))
         /\ s.step = 5 => Step(s) = Inputs(s)
         /\ s.step = 6 => Step(s) = NextStep(ReadVarint(s, "nOut", TRUE))
         /\ s.step = 7 => Step(s) = NextStep(StartItems(s))
         /\ s.step = 8 => Step(s) = Outputs(s)
         /\ s.step = 9 => Step(s) = NextStep(Done([s EXCEPT !.counter = 0, !.elsRead = FALSE]))
         /\ s.step = 10 => Step(s) = Witnesses(s)
         /\ s.step = 11 => Step(s) = NextStep(ReadBytes(s, Word))
<1>1. CASE s.step = 1
  BY <1>1 DEF Step, LastStep
<1>2. CASE s.step = 2
  BY <1>2 DEF Step, LastStep
<1>3. CASE s.step = 3
  BY <1>3 DEF Step, LastStep
<1>4. CASE s.step = 4
  BY <1>4 DEF Step, LastStep
<1>5. CASE s.step = 5
  BY <1>5 DEF Step, LastStep
<1>6. CASE s.step = 6
  BY <1>6 DEF Step, LastStep
<1>7. CASE s.step = 7
  BY <1>7 DEF Step, LastStep
<1>8. CASE s.step = 8
  BY <1>8 DEF Step, LastStep
<1>9. CASE s.step = 9
  BY <1>9 DEF Step, LastStep
<1>10. CASE s.step = 10
  BY <1>10 DEF Step, LastStep
<1>11. CASE s.step = 11
  BY <1>11 DEF Step, LastStep
<1> QED
  BY <1>1, <1>2, <1>3, <1>4, <1>5, <1>6, <1>7, <1>8, <1>9, <1>10, <1>11, Zenon

\* A round of the parser in a sound state.  If it comes to an end with the bytes at
\* hand it does the same when others follow; if it does not, it has changed nothing
\* and fewer than 32 bytes are left.  Either way the parser remains sound.
THEOREM StepReads ==
  ASSUME NEW s, Sound(s), NEW m \in Seq(Nat), s.step <= LastStep
  PROVE  LET x == Step(s)
         IN  Reads(s, x, Step(More(s, m)), m) /\ (x.r # 0 => Sound(x.s))
<1> DEFINE e == More(s, m)
           x == Step(s)
<1>1. s \in States /\ DOMAIN s = Fields
  BY MoreFacts DEF Sound
<1>2. s.step \in 1..11 /\ s.step <= 11
  BY <1>1 DEF States, LastStep
<1>3. e.step = s.step
  BY <1>1, MoreFacts DEF Fields
<1> HIDE DEF e
<1>4. ASSUME NEW b, NEW c, Reads(s, b, c, m),
             b.r # 0 => b.s.step = s.step /\ b.s.script = s.script,
             x = NextStep(b), Step(e) = NextStep(c), s.step # 5 /\ s.step # 8,
             s.step = 4 \/ s.step = 7 => b.s.sub = 1
      PROVE  Reads(s, x, Step(e), m) /\ (x.r # 0 => Sound(x.s))
  <2> HIDE DEF x
  <2>1. /\ Reads(s, x, Step(e), m) /\ x.r = b.r
        /\ x.r = 1 => x.s.step = s.step + 1 /\ x.s.sub = b.s.sub /\ x.s.script = b.s.script
        /\ x.r # 1 => x = b
    <3>1. b.r = 1 => b.s.step = s.step
      BY <1>4
    <3> QED  BY <1>1, <1>2, <1>4, <3>1, TopStep, Zenon
  <2>2. ASSUME x.r # 0
        PROVE  Sound(x.s)
    <3>1. x.s \in States
      BY <2>1 DEF Reads, Outcomes
    <3>2. x.s.step = 5 \/ x.s.step = 8 => x.s.sub = 1
      BY <1>2, <1>4, <2>1, <2>2, SMTT(60)
    <3>3. x.s.script = s.script
      BY <1>4, <2>1, <2>2
    <3>4. Len(s.script) <= MaxScript
      BY DEF Sound
    <3> QED  BY <3>1, <3>2, <3>3, <3>4 DEF Sound, InScript
  <2> QED  BY <2>1, <2>2
<1>5. CASE s.step = 1 \/ s.step = 11
  <2> DEFINE b == ReadBytes(s, Word)
             c == ReadBytes(e, Word)
  <2>1. x = NextStep(b) /\ Step(e) = NextStep(c)
    <3>1. CASE s.step = 1
      BY <1>3, <3>1, StepCases, Zenon
    <3>2. CASE s.step = 11
      BY <1>3, <3>2, StepCases, Zenon
    <3> QED  BY <1>5, <3>1, <3>2
  <2>2. Reads(s, b, c, m) /\ (b.r # 0 => Same(s, b.s, {"data", "hashed"}))
    BY <1>1, ReadBytesReads, SizesAssumption DEF e
  <2> HIDE DEF b, c
  <2>3. b.r # 0 => b.s.step = s.step /\ b.s.script = s.script
    BY <2>2 DEF Same, Fields
  <2> QED  BY <1>4, <1>5, <2>1, <2>2, <2>3 DEF e
<1>6. CASE s.step = 2
  <2> DEFINE b == CheckSegwit(s)
             c == CheckSegwit(e)
  <2>1. x = NextStep(b) /\ Step(e) = NextStep(c)
    BY <1>3, <1>6, StepCases, Zenon
  <2>2. Reads(s, b, c, m) /\ (b.r # 0 => Same(s, b.s, {"segwit", "data"}))
    BY <1>1, CheckSegwitReads DEF e
  <2> HIDE DEF b, c
  <2>3. b.r # 0 => b.s.step = s.step /\ b.s.script = s.script
    BY <2>2 DEF Same, Fields
  <2> QED  BY <1>4, <1>6, <2>1, <2>2, <2>3 DEF e
<1>7. CASE s.step = 3
  <2> DEFINE b == ReadVarint(s, "nIn", TRUE)
             c == ReadVarint(e, "nIn", TRUE)
  <2>1. x = NextStep(b) /\ Step(e) = NextStep(c)
    BY <1>3, <1>7, StepCases, Zenon
  <2>2. Reads(s, b, c, m) /\ (b.r # 0 => Same(s, b.s, {"nIn", "data", "hashed"}))
    BY <1>1, ReadVarintReads DEF e, VarintFields
  <2> HIDE DEF b, c
  <2>3. b.r # 0 => b.s.step = s.step /\ b.s.script = s.script
    BY <2>2 DEF Same, Fields
  <2> QED  BY <1>4, <1>7, <2>1, <2>2, <2>3 DEF e
<1>8. CASE s.step = 6
  <2> DEFINE b == ReadVarint(s, "nOut", TRUE)
             c == ReadVarint(e, "nOut", TRUE)
  <2>1. x = NextStep(b) /\ Step(e) = NextStep(c)
    BY <1>3, <1>8, StepCases, Zenon
  <2>2. Reads(s, b, c, m) /\ (b.r # 0 => Same(s, b.s, {"nOut", "data", "hashed"}))
    BY <1>1, ReadVarintReads DEF e, VarintFields
  <2> HIDE DEF b, c
  <2>3. b.r # 0 => b.s.step = s.step /\ b.s.script = s.script
    BY <2>2 DEF Same, Fields
  <2> QED  BY <1>4, <1>8, <2>1, <2>2, <2>3 DEF e
<1>9. CASE s.step = 4 \/ s.step = 7
  <2> DEFINE b == StartItems(s)
             c == StartItems(e)
  <2>1. x = NextStep(b) /\ Step(e) = NextStep(c)
    <3>1. CASE s.step = 4
      BY <1>3, <3>1, StepCases, Zenon
    <3>2. CASE s.step = 7
      BY <1>3, <3>2, StepCases, Zenon
    <3> QED  BY <1>9, <3>1, <3>2
  <2>2. Reads(s, b, c, m) /\ b.s.step = s.step /\ b.s.sub = 1 /\ b.s.script = s.script
    BY <1>1, RestartReads DEF e, StartItems
  <2> HIDE DEF b, c
  <2> QED  BY <1>4, <1>9, <2>1, <2>2 DEF e
<1>10. CASE s.step = 9
  <2> DEFINE u == [s EXCEPT !.counter = 0, !.elsRead = FALSE]
  <2>1. x = NextStep(Done(u)) /\ Step(e) = NextStep(Done([e EXCEPT !.counter = 0, !.elsRead = FALSE]))
    BY <1>3, <1>10, StepCases, Zenon
  <2>2. u \in States
    BY <1>1 DEF States
  <2>3. u.step = s.step /\ u.script = s.script /\ [e EXCEPT !.counter = 0, !.elsRead = FALSE] = More(u, m)
    BY <1>1 DEF e, More, Fields
  <2> HIDE DEF u
  <2>4. Reads(s, Done(u), Done(More(u, m)), m) /\ Done(u).s = u
    BY <2>2, DoneReads, Results, Zenon
  <2> QED  BY <1>4, <1>10, <2>1, <2>3, <2>4 DEF e
<1>11. CASE s.step = 5
  <2>1. x = Inputs(s) /\ Step(e) = Inputs(e)
    BY <1>3, <1>11, StepCases, Zenon
  <2> QED  BY <1>11, <2>1, InputsReads, Zenon DEF e
<1>12. CASE s.step = 8
  <2>1. x = Outputs(s) /\ Step(e) = Outputs(e)
    BY <1>3, <1>12, StepCases, Zenon
  <2> QED  BY <1>12, <2>1, OutputsReads, Zenon DEF e
<1>13. CASE s.step = 10
  <2>1. x = Witnesses(s) /\ Step(e) = Witnesses(e)
    BY <1>3, <1>13, StepCases, Zenon
  <2> QED  BY <1>13, <2>1, WitnessesReads, Zenon DEF e
<1>14. \/ s.step = 1 \/ s.step = 2 \/ s.step = 3 \/ s.step = 4 \/ s.step = 5 \/ s.step = 6
       \/ s.step = 7 \/ s.step = 8 \/ s.step = 9 \/ s.step = 10 \/ s.step = 11
  BY <1>2
<1> QED
  BY <1>5, <1>6, <1>7, <1>8, <1>9, <1>10, <1>11, <1>12, <1>13, <1>14, Zenon

-----------------------------------------------------------------------------
(* The invariant.                                                           *)

\* The parser as it was when it asked for more: its bytes are those of the store.
Resumed == [p EXCEPT !.data = store]

Inv ==
  /\ case \in Cases
  /\ rest \in Seq(Nat) /\ store \in Seq(Nat) /\ Len(store) < Chunk
  /\ parsing \in BOOLEAN /\ error \in BOOLEAN
  /\ Sound(p)
  /\ parsing => ~error /\ answer = "none"
  /\ ~parsing /\ ~error /\ p.step <= LastStep => Step(Resumed).r = 0

\* The contents of the buffers do not matter for soundness.
LEMMA DataUpdate ==
  ASSUME NEW s \in States, NEW d \in Seq(Nat)
  PROVE  LET u == [s EXCEPT !.data = d]
         IN  /\ u \in States /\ u.data = d /\ Same(s, u, {"data"})
             /\ Sound(s) => Sound(u)
<1> DEFINE u == [s EXCEPT !.data = d]
<1>1. DOMAIN s = Fields
  BY MoreFacts
<1>2. u \in States
  BY DEF States
<1>3. u.data = d /\ Same(s, u, {"data"})
  BY <1>1 DEF Same, Fields
<1> HIDE DEF u
<1>4. /\ u.step = s.step /\ u.sub = s.sub /\ u.got = s.got /\ u.size = s.size /\ u.script = s.script
      /\ u.counter = s.counter /\ u.index = s.index /\ u.scriptLen = s.scriptLen
  BY <1>3 DEF Same, Fields
<1>5. Sound(s) => Sound(u)
  BY <1>2, <1>4, Zenon DEF Sound, InScript, Asked
<1> QED  BY <1>2, <1>3, <1>5 DEF u

\* Of two assignments to the buffers the second counts.
LEMMA DataTwice ==
  ASSUME NEW s \in States, NEW a, NEW b
  PROVE  /\ [[s EXCEPT !.data = a] EXCEPT !.data = b] = [s EXCEPT !.data = b]
         /\ [s EXCEPT !.data = s.data] = s
         /\ [s EXCEPT !.data = a].step = s.step
<1>1. DOMAIN s = Fields /\ s = [f \in Fields |-> s[f]]
  BY MoreFacts DEF States, Fields
<1>2. /\ [[s EXCEPT !.data = a] EXCEPT !.data = b] = [s EXCEPT !.data = b]
      /\ [s EXCEPT !.data = a].step = s.step
  BY <1>1 DEF Fields
<1>3. [s EXCEPT !.data = s.data] = s
  BY <1>1 DEF Fields
<1> QED  BY <1>2, <1>3

\* The transaction is complete or it is not.
LEMMA LastStepSplits ==
  ASSUME NEW s \in States
  PROVE  s.step > LastStep <=> ~(s.step <= LastStep)
<1>1. s.step \in 1..12
  BY DEF States
<1> QED  BY <1>1 DEF LastStep

\* Joining bytes is associative.
LEMMA JoinedTwice ==
  ASSUME NEW a \in Seq(Nat), NEW b \in Seq(Nat), NEW c \in Seq(Nat)
  PROVE  (a \o b) \o c = a \o (b \o c)
OBVIOUS

\* A new parser is sound, and asks for bytes.
LEMMA FreshFacts ==
  ASSUME NEW i \in Nat
  PROVE  /\ Fresh(i) \in States /\ Sound(Fresh(i)) /\ Fresh(i).step = 1 /\ Fresh(i).data = <<>>
         /\ [Fresh(i) EXCEPT !.data = <<>>] = Fresh(i)
         /\ Step(Fresh(i)).r = 0
<1> DEFINE s == Fresh(i)
<1>1. s \in States
  BY DEF Fresh, States
<1>2. s.step = 1 /\ s.data = <<>> /\ s.script = <<>> /\ [s EXCEPT !.data = <<>>] = s
  <2>1. s.step = 1 /\ s.data = <<>> /\ s.script = <<>>
    BY DEF Fresh
  <2> HIDE DEF s
  <2> QED  BY <1>1, <2>1, DataTwice
<1> HIDE DEF s
<1>3. Sound(s)
  <2>1. Len(s.script) <= MaxScript
    BY <1>2, SizesAssumption
  <2> QED  BY <1>1, <1>2, <2>1 DEF Sound, InScript
<1>4. Step(s).r = 0
  <2>1. Step(s) = NextStep(ReadBytes(s, Word))
    BY <1>2, StepCases, Zenon
  <2>2. Len(s.data) < Word
    BY <1>2, SizesAssumption
  <2>3. ReadBytes(s, Word) = Need(s)
    BY <2>2, Zenon DEF ReadBytes
  <2> QED
    BY <2>1, <2>3, Results DEF NextStep
<1> QED  BY <1>1, <1>2, <1>3, <1>4 DEF s

\* What StepReads says of the bytes at hand alone.
LEMMA StepFacts ==
  ASSUME NEW s, Sound(s), s.step <= LastStep
  PROVE  LET x == Step(s)
         IN  /\ x.s \in States /\ x.r \in {-1, 0, 1}
             /\ x.r = 0 => x.s = s /\ Len(s.data) < Chunk
             /\ x.r # 0 => Sound(x.s)
<1> DEFINE x == Step(s)
<1>1. <<>> \in Seq(Nat)
  OBVIOUS
<1>2. Reads(s, x, Step(More(s, <<>>)), <<>>) /\ (x.r # 0 => Sound(x.s))
  BY <1>1, StepReads, Zenon
<1> HIDE DEF x
<1>3. x.s \in States /\ x.r \in {-1, 0, 1} /\ (x.r = 0 => x.s = s /\ Len(s.data) < Chunk)
  BY <1>2 DEF Reads, Outcomes
<1> QED  BY <1>2, <1>3 DEF x

\* The invariant holds at the start of call_psbt_parse_rawtx.
LEMMA InitHolds == Init => Inv
<1> SUFFICES ASSUME Init PROVE Inv
  OBVIOUS
<1> DEFINE f == Fresh(case.index)
<1>1. case \in Cases /\ case.stream \in Seq(Nat) /\ case.index \in Nat
  BY CasesAssumption DEF Init
<1>2. f \in States /\ Sound(f) /\ [f EXCEPT !.data = <<>>] = f /\ Step(f).r = 0
  BY <1>1, FreshFacts, Zenon
<1>3. p = f /\ store = <<>> /\ rest = case.stream /\ ~parsing /\ ~error /\ parsing \in BOOLEAN /\ error \in BOOLEAN
  BY DEF Init
<1>4. Step(Resumed).r = 0
  BY <1>2, <1>3, Zenon DEF Resumed
<1>5. store \in Seq(Nat) /\ Len(store) < Chunk
  BY <1>3, SizesAssumption
<1> HIDE DEF f
<1> QED
  BY <1>1, <1>2, <1>3, <1>4, <1>5, Zenon DEF Inv

\* The bytes of a chunk follow those of the store.
LEMMA DeliverHolds ==
  ASSUME Inv, NEW n \in 1..Len(rest), Deliver(n)
  PROVE  Inv'
<1>1. /\ rest \in Seq(Nat) /\ store \in Seq(Nat) /\ p \in States
      /\ error \in BOOLEAN /\ answer = "none" /\ ~parsing
      /\ rest' = Drop(rest, n) /\ parsing' = ~error
      /\ UNCHANGED <<case, store, error, answer>>
  BY DEF Inv, Deliver, Sound
<1>2. rest' \in Seq(Nat) /\ SubSeq(rest, 1, n) \in Seq(Nat)
  BY <1>1, DropTyped
<1>3. CASE error
  <2>1. p' = p
    BY <1>3, Zenon DEF Deliver
  <2> QED
    BY <1>1, <1>2, <1>3, <2>1, Zenon DEF Inv
<1>4. CASE ~error
  <2> DEFINE d == store \o SubSeq(rest, 1, n)
  <2>1. p' = [p EXCEPT !.data = d]
    BY <1>4, Zenon DEF Deliver
  <2>2. d \in Seq(Nat) /\ Sound(p)
    BY <1>1, <1>2, <1>4 DEF Inv
  <2> HIDE DEF d
  <2>3. Sound(p')
    BY <1>1, <2>1, <2>2, DataUpdate
  <2>4. Sound(p)'
    BY <2>3
  <2> QED
    BY <1>1, <1>2, <1>4, <2>3, <2>4 DEF Inv
<1> QED  BY <1>3, <1>4

\* A round that asks for more leaves what it was given to the store.
LEMMA ParseHolds ==
  ASSUME Inv, Parse
  PROVE  Inv'
<1> DEFINE x == Step(p)
<1>1. /\ rest \in Seq(Nat) /\ store \in Seq(Nat) /\ Len(store) < Chunk /\ p \in States
      /\ parsing /\ ~error /\ Sound(p) /\ p.step <= LastStep /\ answer = "none"
      /\ UNCHANGED <<case, rest, answer>>
  BY DEF Inv, Parse, Sound
<1>2. /\ x.s \in States /\ x.r \in {-1, 0, 1}
      /\ x.r = 0 => x.s = p /\ Len(p.data) < Chunk
      /\ x.r # 0 => Sound(x.s)
  BY <1>1, StepFacts, Zenon
<1>3. /\ p' = IF x.r = 1 THEN x.s ELSE [x.s EXCEPT !.data = <<>>]
      /\ store' = IF x.r = 0 THEN Consolidate(x.s.data) ELSE store
      /\ parsing' = (x.r = 1) /\ error' = (x.r = -1)
  BY Zenon DEF Parse
<1> HIDE DEF x
<1>4. <<>> \in Seq(Nat) /\ parsing' \in BOOLEAN /\ error' \in BOOLEAN
  BY <1>3
<1>5. CASE x.r = 1
  <2>1. p' = x.s /\ store' = store /\ parsing' /\ ~error'
    <3>1. x.r # 0 /\ x.r # -1
      BY <1>5
    <3> QED  BY <1>3, <1>5, <3>1, Zenon
  <2>2. Sound(p)'
    BY <1>2, <1>5, <2>1
  <2> QED
    BY <1>1, <1>4, <2>1, <2>2 DEF Inv
<1>6. CASE x.r = 0
  <2>1. /\ p' = [p EXCEPT !.data = <<>>] /\ store' = Consolidate(p.data) /\ ~parsing' /\ ~error'
        /\ Len(p.data) < Chunk
    <3>1. x.r # 1 /\ x.r # -1
      BY <1>6
    <3> QED  BY <1>2, <1>3, <1>6, <3>1, Zenon
  <2>2. p.data \in Seq(Nat) /\ Consolidate(p.data) = p.data
    BY <1>1, <2>1, SizesAssumption, SMTT(60) DEF States, Consolidate
  <2>3. Sound(p')
    BY <1>1, <1>4, <2>1, DataUpdate, Zenon
  <2>4. Resumed' = p
    <3>1. Resumed' = [[p EXCEPT !.data = <<>>] EXCEPT !.data = p.data]
      BY <2>1, <2>2 DEF Resumed
    <3> QED  BY <1>1, <3>1, DataTwice, Zenon
  <2>5. (Step(Resumed).r)' = 0
    BY <1>6, <2>4 DEF x
  <2>6. Sound(p)' /\ store' = p.data
    BY <2>1, <2>2, <2>3
  <2> QED
    BY <1>1, <1>4, <2>1, <2>2, <2>3, <2>5, <2>6 DEF Inv
<1>7. CASE x.r = -1
  <2>1. p' = [x.s EXCEPT !.data = <<>>] /\ store' = store /\ ~parsing' /\ error'
    <3>1. x.r # 0 /\ x.r # 1
      BY <1>7
    <3> QED  BY <1>3, <1>7, <3>1, Zenon
  <2>2. Sound(p')
    <3>1. x.r # 0
      BY <1>7
    <3> QED  BY <1>2, <1>4, <2>1, <3>1, DataUpdate, Zenon
  <2>3. Sound(p)'
    BY <2>2
  <2> QED
    BY <1>1, <1>4, <2>1, <2>3 DEF Inv
<1> QED  BY <1>2, <1>5, <1>6, <1>7

\* After the last step the store no longer matters.
LEMMA FinishHolds ==
  ASSUME Inv, Finish
  PROVE  Inv'
<1>1. /\ p \in States /\ parsing /\ ~error /\ Sound(p) /\ p.step > LastStep
      /\ p' = [p EXCEPT !.data = <<>>] /\ parsing' = FALSE
      /\ UNCHANGED <<case, rest, store, error, answer>>
  BY DEF Inv, Finish, Sound
<1>2. Sound(p')
  <2>1. <<>> \in Seq(Nat)
    OBVIOUS
  <2> QED  BY <1>1, <2>1, DataUpdate, Zenon
<1>3. p'.step = p.step
  BY <1>1, DataTwice
<1>4. ~(p'.step <= LastStep)
  BY <1>1, <1>3, SMTT(60) DEF LastStep, States
<1>5. Sound(p)'
  BY <1>2
<1> QED
  BY <1>1, <1>2, <1>4, <1>5 DEF Inv, LastStep

\* Every step keeps the invariant.
LEMMA NextHolds == Inv /\ [Next]_vars => Inv'
<1> SUFFICES ASSUME Inv, [Next]_vars PROVE Inv'
  OBVIOUS
<1>1. ASSUME NEW n \in 1..Len(rest), Deliver(n) PROVE Inv'
  BY <1>1, DeliverHolds
<1>2. CASE Parse
  BY <1>2, ParseHolds
<1>3. CASE Finish
  BY <1>3, FinishHolds
<1>4. CASE Answer
  BY <1>4 DEF Inv, Answer, Resumed
<1>5. CASE UNCHANGED vars
  BY <1>5 DEF Inv, vars, Resumed
<1> QED
  BY <1>1, <1>2, <1>3, <1>4, <1>5 DEF Next

\* The inductive invariant: between chunks the parser is where the store does not
\* suffice for another round, and the store is not full.
THEOREM Invariance == Spec => []Inv
BY InitHolds, NextHolds, PTL DEF Spec

\* What cannot be parsed yet fits the 32 bytes of the store, for every stream and every
\* way to cut it: parser_consolidate_buffers, whose result is ignored, never fails.
THEOREM StoreBounded == Spec => []StoreNeverOverflows
<1>1. Inv => StoreNeverOverflows
  BY DEF Inv, StoreNeverOverflows
<1> QED
  BY <1>1, Invariance, PTL

\* What is copied of the script fits vout_scriptpubkey.
ScriptFits == Len(p.script) <= MaxScript

\* The memcpy of parse_rawtxoutput_scriptpubkey stays within vout_scriptpubkey, even
\* though an error in one output does not end the parser.
THEOREM ScriptsFit == Spec => []ScriptFits
<1>1. Inv => ScriptFits
  BY DEF Inv, Sound, ScriptFits
<1> QED
  BY <1>1, Invariance, PTL

-----------------------------------------------------------------------------
(* The whole transaction.                                                   *)

\* The bytes that the parser will still look at: those in its buffers, in front of
\* those that have not been delivered.
Unread ==
  IF error \/ p.step > LastStep THEN <<>> ELSE (IF parsing THEN p.data ELSE store) \o rest

Whole == INSTANCE WholeTx WITH p <- [p EXCEPT !.data = Unread]

\* At the start the parser has read nothing and all bytes are ahead.
LEMMA InitWhole == Init => Whole!Init
<1> SUFFICES ASSUME Init PROVE Whole!Init
  OBVIOUS
<1> DEFINE f == Fresh(case.index)
<1>1. case \in Cases /\ case.stream \in Seq(Nat) /\ case.index \in Nat
  BY CasesAssumption DEF Init
<1>2. f.step = 1
  BY <1>1, FreshFacts, Zenon
<1>3. /\ p = f /\ store = <<>> /\ rest = case.stream /\ parsing = FALSE /\ error = FALSE
      /\ answer = "none"
  BY DEF Init
<1> HIDE DEF f
<1>4. ~(p.step > LastStep)
  BY <1>2, <1>3 DEF LastStep
<1>5. <<>> \o case.stream = case.stream
  BY <1>1
<1>6. Unread = case.stream
  BY <1>3, <1>4, <1>5, Zenon DEF Unread
<1> QED
  BY <1>1, <1>3, <1>6, Zenon DEF Whole!Init, f

\* Delivering a chunk moves bytes and is no step of the whole.
LEMMA DeliverWhole ==
  ASSUME Inv, NEW n \in 1..Len(rest), Deliver(n)
  PROVE  UNCHANGED <<case, [p EXCEPT !.data = Unread], error, answer>>
<1>1. /\ rest \in Seq(Nat) /\ store \in Seq(Nat) /\ p \in States
      /\ error \in BOOLEAN /\ ~parsing
      /\ rest' = Drop(rest, n) /\ parsing' = ~error
      /\ UNCHANGED <<case, store, error, answer>>
  BY DEF Inv, Deliver, Sound
<1>2. [p EXCEPT !.data = Unread]' = [p EXCEPT !.data = Unread]
  <2>1. CASE error
    <3>1. p' = p
      BY <2>1, Zenon DEF Deliver
    <3>2. Unread = <<>> /\ Unread' = <<>>
      BY <1>1, <2>1 DEF Unread
    <3> QED  BY <3>1, <3>2
  <2>2. CASE ~error
    <3> DEFINE a == SubSeq(rest, 1, n)
    <3>1. p' = [p EXCEPT !.data = store \o a]
      BY <2>2, Zenon DEF Deliver
    <3>2. p'.step = p.step /\ p'.data = store \o a
      BY <1>1, <3>1, MoreFacts DEF Fields
    <3>3. (store \o a) \o rest' = store \o rest
      <4>1. a \in Seq(Nat) /\ rest' \in Seq(Nat)
        BY <1>1, DropTyped
      <4>2. a \o rest' = rest
        <5>1. a \o SubSeq(rest, n + 1, Len(rest)) = SubSeq(rest, 1, Len(rest))
          BY <1>1, ConcatAdjacentSubSeq
        <5>2. SubSeq(rest, 1, Len(rest)) = rest
          BY <1>1, SubSeqFull
        <5> QED  BY <1>1, <5>1, <5>2, Zenon DEF Drop
      <4> HIDE DEF a
      <4>3. (store \o a) \o rest' = store \o (a \o rest')
        BY <1>1, <4>1, JoinedTwice, Zenon
      <4> QED  BY <4>2, <4>3, Zenon
    <3>4. Unread' = Unread
      BY <1>1, <2>2, <3>2, <3>3 DEF Unread
    <3> HIDE DEF a
    <3>5. [p EXCEPT !.data = Unread]' = [[p EXCEPT !.data = store \o a] EXCEPT !.data = Unread]
      BY <3>1, <3>4
    <3> QED
      BY <1>1, <3>5, DataTwice, Zenon
  <2> QED  BY <2>1, <2>2
<1> QED  BY <1>1, <1>2

\* A round is the same round with all bytes at hand, or asks for more.
LEMMA ParseWhole ==
  ASSUME Inv, Parse
  PROVE  [Whole!Parse]_<<case, [p EXCEPT !.data = Unread], error, answer>>
<1> DEFINE x == Step(p)
           w == [p EXCEPT !.data = Unread]
<1>1. /\ rest \in Seq(Nat) /\ p \in States
      /\ parsing /\ ~error /\ Sound(p) /\ p.step <= LastStep /\ answer = "none"
      /\ case' = case /\ rest' = rest /\ answer' = answer
  BY DEF Inv, Parse, Sound
<1>2. /\ Reads(p, x, Step(More(p, rest)), rest)
      /\ x.s \in States /\ x.r \in {-1, 0, 1} /\ (x.r = 0 => x.s = p /\ Len(p.data) < Chunk)
  BY <1>1, StepReads, StepFacts, Zenon
<1>3. /\ p' = IF x.r = 1 THEN x.s ELSE [x.s EXCEPT !.data = <<>>]
      /\ store' = IF x.r = 0 THEN Consolidate(x.s.data) ELSE store
      /\ parsing' = (x.r = 1) /\ error' = (x.r = -1)
  BY Zenon DEF Parse
<1>4. ~(p.step > LastStep)
  BY <1>1, LastStepSplits, Zenon
<1>5. Unread = p.data \o rest /\ w = More(p, rest) /\ w.step = p.step
  <2>1. Unread = p.data \o rest
    BY <1>1, <1>4, Zenon DEF Unread
  <2>2. w = More(p, rest)
    BY <2>1, Zenon DEF More
  <2>3. w.step = p.step
    BY <1>1, <2>2, MoreFacts DEF Fields
  <2> QED  BY <2>1, <2>2, <2>3
<1>6. CASE x.r = 0
  <2>1. x.r # 1 /\ x.r # -1
    BY <1>6
  <2>2. /\ p' = [p EXCEPT !.data = <<>>] /\ store' = Consolidate(p.data) /\ ~parsing' /\ error' = FALSE
        /\ Len(p.data) < Chunk
    BY <1>2, <1>3, <1>6, <2>1, Zenon
  <2>3. Consolidate(p.data) = p.data
    <3>1. p.data \in Seq(Nat)
      BY <1>1 DEF States
    <3>2. ~(Len(p.data) > Chunk)
      BY <2>2, <3>1, SizesAssumption
    <3> QED
      BY <3>2, Zenon DEF Consolidate
  <2>4. p'.step = p.step
    BY <1>1, <2>2, DataTwice, Zenon
  <2>5. Unread' = p.data \o rest
    BY <1>1, <1>4, <2>2, <2>3, <2>4 DEF Unread
  <2>6. w' = [[p EXCEPT !.data = <<>>] EXCEPT !.data = p.data \o rest]
    BY <2>2, <2>5
  <2>7. w' = w
    BY <1>1, <1>5, <2>6, DataTwice, Zenon
  <2>8. error' = error
    BY <1>1, <2>2 DEF Inv
  <2> QED
    BY <1>1, <2>7, <2>8
<1>7. CASE x.r # 0
  <2>1. Step(w) = [r |-> x.r, s |-> More(x.s, rest)]
    BY <1>2, <1>5, <1>7 DEF Reads, Agrees
  <2>2. Step(w).r = x.r /\ Step(w).s = More(x.s, rest)
    BY <2>1
  <2> DEFINE y == Step(w)
             z == IF y.r = 1 /\ y.s.step <= LastStep THEN y.s ELSE [y.s EXCEPT !.data = <<>>]
  <2>3. More(x.s, rest).step = x.s.step
    BY <1>1, <1>2, MoreFacts DEF Fields
  <2>4. w' = z
    <3> HIDE DEF w, y
    <3>1. CASE x.r = 1 /\ x.s.step <= LastStep
      <4>1. x.r # -1 /\ ~(x.s.step > LastStep)
        BY <1>2, <3>1, LastStepSplits
      <4>2. p' = x.s /\ parsing' /\ ~error'
        BY <1>3, <3>1, <4>1, Zenon
      <4>3. Unread' = x.s.data \o rest
        BY <1>1, <4>1, <4>2 DEF Unread
      <4>4. w' = More(x.s, rest)
        BY <4>2, <4>3 DEF w, More
      <4>5. z = More(x.s, rest)
        BY <2>2, <2>3, <3>1, Zenon DEF y
      <4> QED  BY <4>4, <4>5, Zenon
    <3>2. CASE x.r = 1 /\ ~(x.s.step <= LastStep)
      <4>1. x.s.step > LastStep
        BY <1>2, <3>2, LastStepSplits, Zenon
      <4>2. p' = x.s
        BY <1>3, <3>2, Zenon
      <4>3. Unread' = <<>>
        BY <4>1, <4>2 DEF Unread
      <4>4. w' = [x.s EXCEPT !.data = <<>>]
        BY <4>2, <4>3 DEF w
      <4>5. z = [More(x.s, rest) EXCEPT !.data = <<>>]
        BY <2>2, <2>3, <3>2, Zenon DEF y
      <4>6. [More(x.s, rest) EXCEPT !.data = <<>>] = [x.s EXCEPT !.data = <<>>]
        BY <1>2, DataTwice, ZenonT(60) DEF More
      <4> QED  BY <4>4, <4>5, <4>6, Zenon
    <3>3. CASE x.r = -1
      <4>1. x.r # 1
        BY <3>3
      <4>2. p' = [x.s EXCEPT !.data = <<>>] /\ error'
        BY <1>3, <3>3, <4>1, Zenon
      <4>3. Unread' = <<>>
        BY <4>2 DEF Unread
      <4>4. w' = [[x.s EXCEPT !.data = <<>>] EXCEPT !.data = <<>>]
        BY <4>2, <4>3 DEF w
      <4>5. z = [More(x.s, rest) EXCEPT !.data = <<>>]
        BY <2>2, <4>1, Zenon DEF y
      <4>6. [More(x.s, rest) EXCEPT !.data = <<>>] = [x.s EXCEPT !.data = <<>>]
        BY <1>2, DataTwice, ZenonT(60) DEF More
      <4>7. [[x.s EXCEPT !.data = <<>>] EXCEPT !.data = <<>>] = [x.s EXCEPT !.data = <<>>]
        BY <1>2, DataTwice, Zenon
      <4> QED  BY <4>4, <4>5, <4>6, <4>7, Zenon
    <3> QED  BY <1>2, <1>7, <3>1, <3>2, <3>3
  <2>5. Whole!Parse
    BY <1>1, <1>3, <1>5, <1>7, <2>2, <2>4, Zenon DEF Whole!Parse
  <2> QED  BY <2>5
<1> QED  BY <1>6, <1>7

\* Forgetting what follows the transaction is no step of the whole.
LEMMA FinishWhole ==
  ASSUME Inv, Finish
  PROVE  UNCHANGED <<case, [p EXCEPT !.data = Unread], error, answer>>
<1>1. /\ p \in States /\ p.step > LastStep /\ p' = [p EXCEPT !.data = <<>>]
      /\ UNCHANGED <<case, error, answer>>
  BY DEF Inv, Finish, Sound
<1>2. p'.step = p.step
  BY <1>1, DataTwice, Zenon
<1>3. Unread = <<>> /\ Unread' = <<>>
  BY <1>1, <1>2 DEF Unread, LastStep
<1>4. [p EXCEPT !.data = Unread]' = [[p EXCEPT !.data = <<>>] EXCEPT !.data = <<>>]
  BY <1>1, <1>3
<1>5. [p EXCEPT !.data = Unread]' = [p EXCEPT !.data = Unread]
  BY <1>1, <1>3, <1>4, DataTwice, Zenon
<1> QED  BY <1>1, <1>5

\* The answer comes when all bytes were delivered and do not suffice, or when the
\* transaction is complete.
LEMMA AnswerWhole ==
  ASSUME Inv, Answer
  PROVE  Whole!Answer
<1> DEFINE w == [p EXCEPT !.data = Unread]
<1>1. /\ p \in States /\ store \in Seq(Nat) /\ ~parsing /\ rest = <<>> /\ answer = "none"
      /\ answer' = IF error \/ p.hashed # case.expected THEN "refused" ELSE "accepted"
      /\ UNCHANGED <<case, rest, store, p, parsing, error>>
  BY DEF Inv, Answer, Sound
<1>2. w.step = p.step /\ w.hashed = p.hashed
  BY <1>1, MoreFacts DEF Fields
<1>3. w' = w
  BY <1>1 DEF Unread
<1>4. ~error /\ w.step <= LastStep => Step(w).r = 0
  <2> SUFFICES ASSUME ~error, p.step <= LastStep PROVE Step(w).r = 0
    BY <1>2, Zenon
  <2>1. ~(p.step > LastStep)
    BY <1>1, LastStepSplits, Zenon
  <2>2. store \o rest = store
    BY <1>1
  <2>3. Unread = store
    BY <1>1, <2>1, <2>2, Zenon DEF Unread
  <2>4. Step(Resumed).r = 0
    BY <1>1 DEF Inv
  <2> QED
    BY <2>3, <2>4, Zenon DEF Resumed
<1> QED
  BY <1>1, <1>2, <1>3, <1>4, Zenon DEF Whole!Answer

\* However cb_process_data is called, the parser does what it would do with the whole
\* transaction in one piece: the id, the amount, the script and the answer do not
\* depend on how the client cuts the stream.
THEOREM ChunksImplementWhole == Spec => Whole!Spec
<1>1. ASSUME Inv, [Next]_vars
      PROVE  [Whole!Next]_Whole!vars
  <2>1. ASSUME NEW n \in 1..Len(rest), Deliver(n) PROVE UNCHANGED Whole!vars
    BY <1>1, <2>1, DeliverWhole, Zenon DEF Whole!vars
  <2>2. CASE Parse
    BY <1>1, <2>2, ParseWhole, Zenon DEF Whole!Next, Whole!vars
  <2>3. CASE Finish
    BY <1>1, <2>3, FinishWhole, Zenon DEF Whole!vars
  <2>4. CASE Answer
    BY <1>1, <2>4, AnswerWhole, Zenon DEF Whole!Next
  <2>5. CASE UNCHANGED vars
    BY <2>5 DEF vars, Whole!vars, Unread
  <2> QED
    BY <1>1, <2>1, <2>2, <2>3, <2>4, <2>5 DEF Next
<1> QED
  BY <1>1, InitWhole, Invariance, PTL DEF Spec, Whole!Spec
=============================================================================
