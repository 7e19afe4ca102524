------------------------------ MODULE WholeTx ------------------------------
(***************************************************************************)
(* What the parser of a non-witness UTXO promises: it reads the            *)
(* transaction as if all of it were there.  It stops when the transaction  *)
(* is complete, whatever follows, when bytes are missing or when it finds  *)
(* an error, and the id decides.                                           *)
(***************************************************************************)
EXTENDS Integers, Sequences

CONSTANTS
  Cases,       \* the transactions, as RawTx has them
  Step(_),     \* a round of the parser
  LastStep,    \* the number of its steps
  Fresh(_)     \* its state at the start, without bytes

VARIABLES case, p, error, answer

vars == <<case, p, error, answer>>

Init ==
  /\ case \in Cases
  /\ p = [Fresh(case.index) EXCEPT !.data = case.stream]
  /\ error = FALSE /\ answer = "none"

Parse ==
  /\ answer = "none" /\ ~error /\ p.step <= LastStep
  /\ \E x \in {Step(p)} :
       /\ x.r # 0
       /\ p' = IF x.r = 1 /\ x.s.step <= LastStep THEN x.s ELSE [x.s EXCEPT !.data = <<>>]
       /\ error' = (x.r = -1)
  /\ UNCHANGED <<case, answer>>

Answer ==
  /\ answer = "none"
  /\ ~error /\ p.step <= LastStep => Step(p).r = 0
  /\ answer' = IF error \/ p.hashed # case.expected THEN "refused" ELSE "accepted"
  /\ UNCHANGED <<case, p, error>>

Next == Parse \/ Answer

Spec == Init /\ [][Next]_vars
=============================================================================
