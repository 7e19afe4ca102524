------------------------------ MODULE MCRawTx ------------------------------
(***************************************************************************)
(* Transactions for RawTx: a reference serialisation, and the properties   *)
(* of the parser against it.                                               *)
(***************************************************************************)
EXTENDS RawTx, SequencesExt

CONSTANTS SigLens, ScriptLens

Bytes(tag, n) == [k \in 1..n |-> 10 * tag + k]

\* The serialisation of BIP-144, and the one that is hashed to the id.
SerializeIn(i)  == Bytes(i.tag, Chunk) \o Bytes(1, Word) \o WriteVarint(i.sig)
                     \o Bytes(i.tag + 1, i.sig) \o Bytes(2, Word)
SerializeOut(o) == Bytes(o.tag, Amount) \o WriteVarint(o.script) \o Bytes(o.tag + 1, o.script)
SerializeWit(w) == WriteVarint(Len(w)) \o
                     FlattenSeq([k \in DOMAIN w |-> WriteVarint(w[k]) \o Bytes(9, w[k])])

Body(tx) == WriteVarint(Len(tx.ins)) \o FlattenSeq([k \in DOMAIN tx.ins |-> SerializeIn(tx.ins[k])])
            \o WriteVarint(Len(tx.outs)) \o FlattenSeq([k \in DOMAIN tx.outs |-> SerializeOut(tx.outs[k])])

Legacy(tx)  == Bytes(7, Word) \o Body(tx) \o Bytes(8, Word)
Segwit(tx)  == Bytes(7, Word) \o <<0, 1>> \o Body(tx)
               \o FlattenSeq([k \in DOMAIN tx.wits |-> SerializeWit(tx.wits[k])]) \o Bytes(8, Word)
Serialize(tx) == IF tx.wits = <<>> THEN Legacy(tx) ELSE Segwit(tx)

Ins  == {<<[tag |-> 3, sig |-> n]>> : n \in SigLens}
          \cup {<<[tag |-> 3, sig |-> n], [tag |-> 4, sig |-> 0]>> : n \in SigLens}
Outs(lens) == {<<[tag |-> 5, script |-> n]>> : n \in lens}
          \cup {<<[tag |-> 5, script |-> n], [tag |-> 6, script |-> k]>> : n \in lens, k \in lens}
Stacks == {<<>>, <<0>>, <<Chunk + 2, 1>>}
Wits(n) == {<<>>} \cup [1..n -> Stacks]

Txs(lens) == UNION {{[ins |-> i, outs |-> o, wits |-> w] : w \in Wits(Len(i))} :
                      i \in Ins, o \in Outs(lens)}

\* The PSBT carries the whole transaction, one cut short, or another one.
Honest(tx, k) == [tx |-> tx, stream |-> Serialize(tx), expected |-> Legacy(tx), index |-> k,
                  honest |-> TRUE]
Cut(tx, k)    == [Honest(tx, k) EXCEPT !.stream = SubSeq(@, 1, Len(@) - 1), !.honest = FALSE]
Other(tx, k)  == [Honest(tx, k) EXCEPT !.expected = Append(@, 0), !.honest = FALSE]

CasesOf(lens) ==
  UNION {{Honest(tx, k) : k \in 0..(Len(tx.outs) - 1)} \cup {Cut(tx, 0), Other(tx, 0)} :
           tx \in Txs(lens)}

\* MaxScript is large enough for every script.
MCCases == CasesOf(ScriptLens)

-----------------------------------------------------------------------------
\* However the transaction is cut into chunks, an accepted one has the expected
\* id, and the amount and script are those of the output that was asked for.
AcceptedIsPrevout ==
  answer = "accepted" =>
    LET out == case.tx.outs[case.index + 1]
    IN  /\ p.hashed = Legacy(case.tx)
        /\ p.value = Bytes(out.tag, Amount)
        /\ p.scriptLen = out.script /\ p.script = Bytes(out.tag + 1, out.script)

\* The UTXO of a correct PSBT is accepted, in any chunks, legacy or segwit.
HonestAccepted ==
  case.honest /\ answer # "none" /\ case.tx.outs[case.index + 1].script <= MaxScript =>
    answer = "accepted"
=============================================================================
