----------------------------- MODULE RawTxParser -----------------------------
(***************************************************************************)
(* The parser of a non-witness UTXO (psbt_parse_rawtx.c), which reads a    *)
(* transaction without storing it and yields the transaction id and one of *)
(* the outputs.                                                            *)
(*                                                                         *)
(* A parser state s says where in the nested lists of steps the parser is; *)
(* every function of the code goes on from there.  Step(s) is one round of *)
(* the innermost loop that is active.  Bytes are numbers; the sizes of the *)
(* fields are scaled down.  The transaction id stands for the bytes that   *)
(* were hashed.                                                            *)
(***************************************************************************)
EXTENDS Integers, Sequences

CONSTANTS
  Chunk,       \* 32: the store, a transaction id, and the longest read
  Word,        \* 4: version, index, sequence, locktime
  Amount,      \* 8
  VarintOne,   \* 0xfd: the first byte of a longer varint
  MaxScript,   \* MAX_PREVOUT_SCRIPTPUBKEY_LEN
  Unset        \* what the caller's txid_parser_outputs_t holds

\* Every field that is read in one piece fits the store, the longest varint included.
ASSUME SizesAssumption ==
  /\ Chunk \in Nat /\ Word \in 1..Chunk /\ Amount \in 1..Chunk /\ 3 <= Chunk
  /\ VarintOne \in Nat /\ MaxScript \in Nat

MinOf(a, b) == IF a < b THEN a ELSE b
Drop(s, n)  == SubSeq(s, n + 1, Len(s))

\* The result of a step: 1 go on, 0 more data needed, -1 error.
Done(s)  == [r |-> 1, s |-> s]
Need(s)  == [r |-> 0, s |-> s]
Wrong(s) == [r |-> -1, s |-> s]

-----------------------------------------------------------------------------
(* Reading.  s.data is the store followed by the new chunk.                 *)

\* dbuffer_read_bytes, and the hash of what was read.
ReadBytes(s, n) ==
  IF Len(s.data) < n THEN Need(s)
  ELSE Done([s EXCEPT !.data = Drop(@, n), !.hashed = @ \o SubSeq(s.data, 1, n)])

SkipBytes(s, n) == IF Len(s.data) < n THEN Need(s) ELSE Done([s EXCEPT !.data = Drop(@, n)])

\* The length of the varint at the front, or 0 when it is not complete.
VarintBytes(data) ==
  IF data = <<>> THEN 0
  ELSE LET n == IF data[1] = VarintOne THEN 3 ELSE 1 IN IF Len(data) < n THEN 0 ELSE n

VarintValue(data) == IF VarintBytes(data) = 3 THEN data[2] + 256 * data[3] ELSE data[1]

\* crypto_hash_update_varint hashes the shortest encoding.
WriteVarint(n) == IF n < VarintOne THEN <<n>> ELSE <<VarintOne, n % 256, n \div 256>>

\* dbuffer_read_varint into field f; hashed unless it is part of a witness.
ReadVarint(s, f, hash) ==
  LET n == VarintBytes(s.data)
      v == VarintValue(s.data)
  IN  IF n = 0 THEN Need(s)
      ELSE Done([s EXCEPT ![f] = v, !.data = Drop(@, n),
                          !.hashed = IF hash THEN @ \o WriteVarint(v) ELSE @])

\* parser_run: a step that is done is followed by the next one of its list.
NextStep(x) == IF x.r = 1 THEN Done([x.s EXCEPT !.step = @ + 1]) ELSE x
NextSub(x)  == IF x.r = 1 THEN Done([x.s EXCEPT !.sub = @ + 1]) ELSE x

-----------------------------------------------------------------------------
(* Inputs.                                                                  *)

\* Mutant: a script is read in one piece.
ScriptPieceWhole(s) == s.size - s.got

ScriptPiece(s) == MinOf(Chunk, s.size - s.got)

\* A round of the loop over a scriptSig.
ScriptSig(s) ==
  LET n == ScriptPiece(s)
      x == ReadBytes(s, n)
      t == [x.s EXCEPT !.got = @ + n]
  IN  IF x.r = 0 THEN x ELSE IF t.got = t.size THEN NextSub(Done(t)) ELSE Done(t)

InputStep(s) ==
  CASE s.sub = 1 -> NextSub(ReadBytes(s, Chunk))            \* txid
    [] s.sub = 2 -> NextSub(ReadBytes(s, Word))             \* vout
    [] s.sub = 3 -> NextSub(ReadVarint(s, "size", TRUE))
    [] s.sub = 4 -> NextSub(Done([s EXCEPT !.got = 0]))
    [] s.sub = 5 -> ScriptSig(s)
    [] s.sub = 6 -> NextSub(ReadBytes(s, Word))             \* sequence

-----------------------------------------------------------------------------
(* Outputs.                                                                 *)

\* Mutant: outputs are counted from one.
AskedFromOne(s) == s.counter + 1 = s.index

Asked(s) == s.counter = s.index

OutputValue(s) ==
  LET x == ReadBytes(s, Amount)
  IN  IF x.r = 1 /\ Asked(s) THEN Done([x.s EXCEPT !.value = SubSeq(s.data, 1, Amount)]) ELSE x

ScriptPubKeySize(s) ==
  LET x == ReadVarint(s, "size", TRUE)
  IN  IF x.r = 1 /\ Asked(s) THEN Done([x.s EXCEPT !.scriptLen = x.s.size]) ELSE x

\* memcpy to an offset of vout_scriptpubkey.
CopyTo(script, at, bytes) == SubSeq(script, 1, at) \o bytes

\* A round of the loop over a scriptPubKey.
ScriptPubKey(s) ==
  LET n == ScriptPiece(s)
      x == ReadBytes(s, n)
      t == [x.s EXCEPT !.got = @ + n,
                       !.script = IF Asked(s) THEN CopyTo(@, s.got, SubSeq(s.data, 1, n)) ELSE @]
  IN  IF x.r = 0 THEN x
      ELSE IF Asked(s) /\ s.scriptLen > MaxScript THEN Wrong(x.s)
      ELSE IF t.got = t.size THEN NextSub(Done(t)) ELSE Done(t)

OutputStep(s) ==
  CASE s.sub = 1 -> NextSub(OutputValue(s))
    [] s.sub = 2 -> NextSub(ScriptPubKeySize(s))
    [] s.sub = 3 -> NextSub(Done([s EXCEPT !.got = 0]))
    [] s.sub = 4 -> ScriptPubKey(s)

\* Mutant: the sub-parser is not started again for the next one.
RestartNot(s) == s

Restart(s) == [s EXCEPT !.sub = 1]

NextItem(s) == Done(Restart([s EXCEPT !.counter = @ + 1]))

\* parse_rawtx_inputs, and parser_run over the steps of an input.
Inputs(s) ==
  IF s.counter >= s.nIn THEN NextStep(Done(s))
  ELSE IF s.sub > 6 THEN NextItem(s)
  ELSE InputStep(s)

\* parse_rawtx_outputs: the result of an output is assigned to a bool, so that
\* an error ends the output like success.
Outputs(s) ==
  LET x == OutputStep(s)
  IN  IF s.counter >= s.nOut THEN NextStep(Done(s))
      ELSE IF s.sub > 4 THEN NextItem(s)
      ELSE IF x.r = -1 THEN NextItem(x.s) ELSE x

-----------------------------------------------------------------------------
(* Witnesses, which are read and not hashed.                                *)

\* A round of the innermost of the three loops of parse_rawtx_witnesses.
Witnesses(s) ==
  LET els  == ReadVarint(s, "els", FALSE)
      size == ReadVarint(s, "size", FALSE)
      n    == ScriptPiece(s)
      piece == SkipBytes(s, n)
  IN  IF ~s.segwit \/ s.counter >= s.nIn THEN NextStep(Done(s))
      ELSE IF ~s.elsRead
      THEN IF els.r = 0 THEN els
           ELSE Done([els.s EXCEPT !.elsRead = TRUE, !.sizeRead = FALSE, !.el = 0])
      ELSE IF s.el >= s.els THEN Done([s EXCEPT !.elsRead = FALSE, !.counter = @ + 1])
      ELSE IF ~s.sizeRead
      THEN IF size.r = 0 THEN size ELSE Done([size.s EXCEPT !.sizeRead = TRUE, !.got = 0])
      ELSE IF s.got >= s.size THEN Done([s EXCEPT !.sizeRead = FALSE, !.el = @ + 1])
      ELSE IF piece.r = 0 THEN piece ELSE Done([piece.s EXCEPT !.got = @ + n])

-----------------------------------------------------------------------------
(* The whole transaction.                                                   *)

CheckSegwit(s) ==
  IF s.data = <<>> THEN Need(s)
  ELSE IF s.data[1] # 0 THEN Done([s EXCEPT !.segwit = FALSE])
  ELSE IF Len(s.data) < 2 THEN Need(s)
  ELSE IF s.data[2] # 1 THEN Wrong([s EXCEPT !.data = Drop(@, 2)])
  ELSE Done([s EXCEPT !.data = Drop(@, 2), !.segwit = TRUE])

StartItems(s) == Done(Restart([s EXCEPT !.counter = 0]))

LastStep == 11

\* A round of parser_run over parse_rawtx_steps.
Step(s) ==
  CASE s.step = 1 -> NextStep(ReadBytes(s, Word))              \* version
    [] s.step = 2 -> NextStep(CheckSegwit(s))
    [] s.step = 3 -> NextStep(ReadVarint(s, "nIn", TRUE))
    [] s.step = 4 -> NextStep(StartItems(s))
    [] s.step = 5 -> Inputs(s)
    [] s.step = 6 -> NextStep(ReadVarint(s, "nOut", TRUE))
    [] s.step = 7 -> NextStep(StartItems(s))
    [] s.step = 8 -> Outputs(s)
    [] s.step = 9 -> NextStep(Done([s EXCEPT !.counter = 0, !.elsRead = FALSE]))
    [] s.step = 10 -> Witnesses(s)
    [] s.step = LastStep -> NextStep(ReadBytes(s, Word))       \* locktime

Fresh(index) ==
  [step |-> 1, sub |-> 1, counter |-> 0, size |-> 0, got |-> 0, segwit |-> FALSE,
   nIn |-> 0, nOut |-> 0, el |-> 0, els |-> 0, elsRead |-> FALSE, sizeRead |-> FALSE,
   index |-> index, hashed |-> <<>>, value |-> Unset, scriptLen |-> 0, script |-> <<>>,
   data |-> <<>>]
=============================================================================
