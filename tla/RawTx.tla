------------------------------- MODULE RawTx -------------------------------
(***************************************************************************)
(* The transaction of a non-witness UTXO arrives in chunks of any size     *)
(* (cb_process_data of psbt_parse_rawtx.c); what cannot be parsed yet is   *)
(* kept in a small store.  At the end the caller,                          *)
(* get_amount_scriptpubkey_from_psbt_nonwitness, compares the id.          *)
(***************************************************************************)
EXTENDS RawTxParser

CONSTANTS
  Cases        \* [stream, expected, index]: the bytes, the id, the output asked for

ASSUME CasesAssumption == \A c \in Cases : c.stream \in Seq(Nat) /\ c.index \in Nat

VARIABLES
  case,        \* what the PSBT says
  rest,        \* the bytes that have not been delivered
  store,       \* bytes delivered and not parsed
  p,           \* the state of the parser, and what it has put out
  parsing,     \* is the parser running, in cb_process_data?
  error,       \* parser_error
  answer       \* "none", "accepted", "refused"

vars == <<case, rest, store, p, parsing, error, answer>>

Init ==
  /\ case \in Cases /\ rest = case.stream
  /\ store = <<>> /\ p = Fresh(case.index)
  /\ parsing = FALSE /\ error = FALSE /\ answer = "none"

\* cb_process_data with the next n bytes.  After an error they are ignored.
Deliver(n) ==
  /\ answer = "none" /\ ~parsing
  /\ rest' = Drop(rest, n)
  /\ parsing' = ~error
  /\ p' = IF error THEN p ELSE [p EXCEPT !.data = store \o SubSeq(rest, 1, n)]
  /\ UNCHANGED <<case, store, error, answer>>

\* parser_consolidate_buffers leaves the buffers alone when they do not fit.
Consolidate(left) == IF Len(left) > Chunk THEN store ELSE left

\* The parser goes on for a round.
Parse ==
  /\ parsing /\ p.step <= LastStep
  /\ \E x \in {Step(p)} :
       /\ p' = IF x.r = 1 THEN x.s ELSE [x.s EXCEPT !.data = <<>>]
       /\ store' = IF x.r = 0 THEN Consolidate(x.s.data) ELSE store
       /\ parsing' = (x.r = 1)
       /\ error' = (x.r = -1)
  /\ UNCHANGED <<case, rest, answer>>

\* The transaction is complete: what follows it is ignored.
Finish ==
  /\ parsing /\ p.step > LastStep
  /\ p' = [p EXCEPT !.data = <<>>]
  /\ parsing' = FALSE
  /\ UNCHANGED <<case, rest, store, error, answer>>

\* The end of call_psbt_parse_rawtx and of its caller.
Answer ==
  /\ answer = "none" /\ ~parsing /\ rest = <<>>
  /\ answer' = IF error \/ p.hashed # case.expected THEN "refused" ELSE "accepted"
  /\ UNCHANGED <<case, rest, store, p, parsing, error>>

Next == (\E n \in 1..Len(rest) : Deliver(n)) \/ Parse \/ Finish \/ Answer

Spec == Init /\ [][Next]_vars

-----------------------------------------------------------------------------
\* What cannot be parsed yet always fits the 32 bytes of the store: the return
\* value of parser_consolidate_buffers, which is not checked, is never false.
StoreNeverOverflows == ~error => Len(store) < Chunk
=============================================================================
