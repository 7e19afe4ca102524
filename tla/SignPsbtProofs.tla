--------------------------- MODULE SignPsbtProofs ---------------------------
(***************************************************************************)
(* What SIGN_PSBT guarantees for every PSBT, wallet and swap request: each *)
(* signature is one of a set that the PSBT alone determines, in the order  *)
(* of the inputs, and comes after the screens of all outputs.  The fee     *)
(* that the user approves, or that a swap asked for, is what the inputs    *)
(* are worth less what the outputs are, for every PSBT whose totals fit in *)
(* uint64_t.                                                               *)
(*                                                                         *)
(* The inductive invariant says what each stage of the chain of processors *)
(* has established.  The stage of a paused command is the processor that   *)
(* runs on approval, and the screen on display counts as approved: pressing *)
(* the button changes neither.  The totals of the code are the running     *)
(* totals of the PSBT's amounts up to the cursor of each loop.             *)
(***************************************************************************)
EXTENDS SignPsbt, SequenceTheorems, WellFoundedInduction, TLAPS

At == IF proc = "paused" THEN screen.next ELSE proc
Approving == approved \cup (IF proc = "paused" THEN {screen.what} ELSE {})

InputStages  == {"process_input_map", "check_input_owned"}
OutputStages == {"process_output_map", "check_output_owned", "output_validate_external",
                 "output_next"}
HashStages   == {"sign_legacy", "sign_legacy_compute_sighash", "sign_segwit", "sign_segwit_v0",
                 "sign_segwit_v1", "sign_sighash_ecdsa", "sign_sighash_schnorr"}
SignStages   == HashStages \cup {"sign_process_input_map"}
Ending       == {"finalize", "ok"}
Shown        == {"confirm_transaction", "sign_init"} \cup SignStages \cup Ending
Owned        == {"verify_outputs_init"} \cup OutputStages \cup Shown
Checked      == {"alert_external_inputs"} \cup Owned
Stages       == {"handler_sign_psbt", "error"} \cup InputStages \cup Checked
Unsigned     == Stages \ (SignStages \cup Ending \cup {"error"})

(* What the PSBT says of its inputs, counted from 0.                        *)
Indices     == 0..nInputs - 1
OkInputs    == {i \in Indices : UtxosUsable(psbt.inputs[i + 1])}
TrueScripts == [i \in Indices |-> TrueUtxo(i).script]
OwnInputs   == {i \in Indices : IsInternal(psbt.inputs[i + 1].deriv, TrueScripts[i], TRUE)}
Paths       == [i \in Indices |-> <<psbt.inputs[i + 1].deriv.change,
                                    psbt.inputs[i + 1].deriv.index>>]
LegacyHash(code) == [alg |-> "legacy", code |-> code]
Hashes ==
  [i \in Indices |->
     LET input == psbt.inputs[i + 1]
     IN (IF input.nonWit = NoUtxo THEN {}
         ELSE {LegacyHash(input.nonWit.script), LegacyHash(input.redeem)})
        \cup (IF input.wit = NoUtxo THEN {}
              ELSE {[alg |-> "v0", code |-> SegwitScript(input), amount |-> input.wit.amount],
                    [alg |-> "v1", amounts |-> TransactionHashes]})]
SignaturesOf == [i \in Indices |-> {[input |-> i, path |-> Paths[i], hash |-> h] : h \in Hashes[i]}]
Signatures   == UNION {SignaturesOf[i] : i \in Indices}

Verified == OkInputs = Indices /\ OwnInputs = Indices

(* The screens of the payments in set P are in shown, with numbers up to n. *)
Numbering(P, n, outputs, shown) ==
  \E number \in Injection(P, 1..n) : \A i \in P :
    OutputScreen(number[i], outputs[i].script, outputs[i].amount) \in shown
(* The screens of those among the first m outputs; a swap has no screens.    *)
Numbered(m, n, shown) ==
  swap = NoSwap => Numbering(Payments \cap (1..m), n, psbt.outputs, shown)
WalletShown(shown) == wallet.form = "registered" => [kind |-> "wallet"] \in shown

RequestInv ==
  /\ \E r \in Requests : psbt = r.psbt /\ wallet = r.wallet /\ swap = r.swap
  /\ At \in Stages
  /\ proc = "paused" => At \in {"process_input_map", "output_next", "sign_init"}

InputsInv ==
  /\ At \in InputStages =>
       /\ index \in 0..nInputs
       /\ 0..index - 1 \subseteq OkInputs
       /\ internal \subseteq OwnInputs
  /\ At = "check_input_owned" => index \in OkInputs /\ cur.script = TrueScripts[index]
  /\ At = "alert_external_inputs" => OkInputs = Indices /\ internal \subseteq OwnInputs
  /\ At \in Owned => Verified /\ internal = Indices

OutputsInv ==
  /\ At \in OutputStages => index \in 0..nOutputs /\ extCount \in Nat
  /\ At \in OutputStages \ {"process_output_map"} => index < nOutputs
  /\ At \in {"check_output_owned", "output_validate_external"} =>
       cur.amount = Output.amount /\ cur.script = Output.script
  /\ At \in {"process_output_map", "check_output_owned"} =>
       extCount <= index /\ Numbered(index, extCount, Approving)
  /\ At = "output_validate_external" =>
       extCount \in 1..(index + 1) /\ Numbered(index, extCount - 1, Approving)
  /\ At = "output_next" =>
       extCount <= index + 1 /\ Numbered(index + 1, extCount, Approving)
  /\ At \in Shown => Numbered(nOutputs, nOutputs, Approving)
  /\ At \notin {"handler_sign_psbt", "error"} => WalletShown(Approving)

SignInv ==
  /\ At \in SignStages => index = Len(sigs) /\ index \in 0..nInputs
                          /\ hashes \in {NoHashes, TransactionHashes}
  /\ At \in HashStages => index < nInputs /\ path = Paths[index]
  /\ At \in {"sign_legacy", "sign_segwit"} => cur = Cleared
  /\ At = "sign_legacy_compute_sighash" =>
       Input.nonWit # NoUtxo /\ cur.script = Input.nonWit.script
  /\ At \in {"sign_segwit", "sign_segwit_v0", "sign_segwit_v1"} => Input.wit # NoUtxo
  /\ At \in {"sign_segwit_v0", "sign_segwit_v1"} =>
       cur.script = SegwitScript(Input) /\ hashes = TransactionHashes
  /\ At \in {"sign_sighash_ecdsa", "sign_sighash_schnorr"} => sighash \in Hashes[index]
  /\ At \in Ending => Len(sigs) = nInputs

SigsInv ==
  /\ sigs \in Seq(Signatures)
  /\ Len(sigs) <= nInputs
  /\ \A k \in 1..Len(sigs) : sigs[k] \in SignaturesOf[k - 1]
  /\ At \in Unsigned => sigs = <<>>
  /\ sigs # <<>> => Verified /\ Numbered(nOutputs, nOutputs, approved) /\ WalletShown(approved)

IInv == RequestInv /\ InputsInv /\ OutputsInv /\ SignInv /\ SigsInv

-----------------------------------------------------------------------------
(* The request does not change, and neither does what is defined from it.   *)

Same == psbt' = psbt /\ wallet' = wallet /\ swap' = swap

\* No step changes the PSBT, the wallet or the swap request.
LEMMA NextSame == Next => Same
BY ZenonT(40) DEF Same, Next, Verify, Sign, handler_sign_psbt, process_input_map, check_input_owned,
  alert_external_inputs, verify_outputs_init, process_output_map, check_output_owned,
  output_validate_external, output_next, confirm_transaction, sign_init,
  sign_process_input_map, sign_legacy, sign_legacy_compute_sighash, sign_segwit,
  sign_segwit_v0, sign_segwit_v1, SignAndYield, sign_sighash_ecdsa, sign_sighash_schnorr,
  finalize, Press, ClientFails, Ended, request, vars

\* What is computed from the request alone does not change.
LEMMA SameRequest ==
  ASSUME Same
  PROVE  /\ nInputs' = nInputs /\ nOutputs' = nOutputs /\ Indices' = Indices
         /\ OkInputs' = OkInputs /\ OwnInputs' = OwnInputs
         /\ TrueScripts' = TrueScripts /\ Paths' = Paths
         /\ TransactionHashes' = TransactionHashes /\ Hashes' = Hashes
         /\ SignaturesOf' = SignaturesOf /\ Signatures' = Signatures
         /\ Payments' = Payments
BY DEF Same, nInputs, nOutputs, Indices, OkInputs, OwnInputs, TrueScripts, Paths,
  TransactionHashes, Hashes, SignaturesOf, Signatures, Payments, TrueUtxo, IsInternal,
  WalletScript

\* A PSBT has a number of inputs and a number of outputs.
LEMMA RequestSize ==
  ASSUME RequestInv
  PROVE  nInputs \in Nat /\ nOutputs \in Nat
BY RequestsAssumption DEF RequestInv, nInputs, nOutputs

-----------------------------------------------------------------------------
(* Where a step leads, and what it does to the set of screens.              *)

\* The invariant holds before handler_sign_psbt runs.
LEMMA InitInv == Init => IInv
<1> SUFFICES ASSUME Init PROVE IInv
    OBVIOUS
<1> USE DEF Init
<1>1. At = "handler_sign_psbt" /\ At \notin InputStages \cup Checked /\ At \in Unsigned
  BY DEF At, InputStages, OutputStages, HashStages, SignStages, Ending, Shown, Owned, Checked,
    Stages, Unsigned
<1>2. RequestInv
  BY <1>1 DEF RequestInv, Stages
<1>3. nInputs \in Nat
  BY <1>2, RequestSize
<1>4. InputsInv
  BY <1>1 DEF InputsInv, Checked, InputStages
<1>5. OutputsInv
  BY <1>1 DEF OutputsInv, Checked, Owned, OutputStages
<1>6. SignInv
  BY <1>1 DEF SignInv, Checked, Owned, Shown, SignStages, HashStages, Ending
<1>7. SigsInv
  BY <1>3 DEF SigsInv
<1> QED
  BY <1>2, <1>4, <1>5, <1>6, <1>7 DEF IInv

(* A paused command waits on one of three processors, which then runs; a step  *)
(* that is not an answer of the user's leaves the approved screens alone.      *)
LEMMA RequestStep ==
  ASSUME RequestInv, Next
  PROVE  RequestInv'
<1>1. Same
  BY NextSame
<1>2. \E r \in Requests : psbt' = r.psbt /\ wallet' = r.wallet /\ swap' = r.swap
  BY <1>1 DEF Same, RequestInv
<1>3. /\ At' \in Stages
      /\ proc' = "paused" => At' \in {"process_input_map", "output_next", "sign_init"}
  <2> USE DEF At, InputStages, OutputStages, HashStages, SignStages, Ending, Shown, Owned,
        Checked, Stages, Goto, Fail, Show
  <2>1. CASE Verify
    <3>1. CASE handler_sign_psbt
      BY <3>1 DEF handler_sign_psbt
    <3>2. CASE output_validate_external
      BY <3>2 DEF output_validate_external
    <3>3. CASE confirm_transaction
      BY <3>3 DEF confirm_transaction
    <3> QED
      BY <2>1, <3>1, <3>2, <3>3, ZenonT(40) DEF Verify, process_input_map, check_input_owned, NextInput,
        alert_external_inputs, verify_outputs_init, process_output_map, check_output_owned,
        output_next
  <2>2. CASE Sign
    <3>1. CASE sign_process_input_map
      BY <3>1 DEF sign_process_input_map
    <3>2. CASE sign_segwit
      BY <3>2 DEF sign_segwit
    <3> QED
      BY <2>2, <3>1, <3>2 DEF Sign, sign_init, sign_legacy, sign_legacy_compute_sighash,
        sign_segwit_v0, sign_segwit_v1, SignAndYield, sign_sighash_ecdsa,
        sign_sighash_schnorr, finalize
  <2>3. CASE \E yes \in BOOLEAN : Press(yes)
    BY <2>3 DEF Press, RequestInv
  <2>4. CASE ClientFails
    BY <2>4 DEF ClientFails
  <2>5. CASE Ended
    BY <2>5 DEF Ended, vars, RequestInv
  <2> QED
    BY <2>1, <2>2, <2>3, <2>4, <2>5 DEF Next
<1> QED
  BY <1>2, <1>3 DEF RequestInv

\* As long as the command does not fail, an approval is never taken back.
LEMMA ApprovingGrows ==
  ASSUME RequestInv, Next, At' # "error"
  PROVE  Approving \subseteq Approving' /\ approved \subseteq approved'
<1> USE DEF At, Approving, Goto, Fail, Show
<1>1. CASE Verify
  BY <1>1, ZenonT(40) DEF Verify, handler_sign_psbt, process_input_map, check_input_owned, NextInput,
    alert_external_inputs, verify_outputs_init, process_output_map, check_output_owned,
    output_validate_external, output_next, confirm_transaction
<1>2. CASE Sign
  BY <1>2 DEF Sign, sign_init, sign_process_input_map, sign_legacy,
    sign_legacy_compute_sighash, sign_segwit, sign_segwit_v0, sign_segwit_v1, SignAndYield,
    sign_sighash_ecdsa, sign_sighash_schnorr, finalize
<1>3. CASE \E yes \in BOOLEAN : Press(yes)
  BY <1>3 DEF Press, RequestInv
<1>4. CASE ClientFails
  BY <1>4 DEF ClientFails
<1>5. CASE Ended
  BY <1>5 DEF Ended, vars
<1> QED
  BY <1>1, <1>2, <1>3, <1>4, <1>5 DEF Next

-----------------------------------------------------------------------------
(* The inputs: when the outputs are looked at, every input has been verified *)
(* and found to be the wallet's.                                             *)

LaterStep == \/ verify_outputs_init \/ process_output_map \/ check_output_owned
             \/ output_validate_external \/ output_next \/ confirm_transaction \/ Sign

\* The processors after the inputs leave the set of internal inputs alone.
LEMMA LaterStepStage ==
  ASSUME RequestInv, LaterStep
  PROVE  At \in Owned /\ At' \in Owned \cup {"error"} /\ internal' = internal
<1> USE DEF At, OutputStages, HashStages, SignStages, Ending, Shown, Owned, Goto, Fail, Show
<1>1. CASE output_validate_external
  BY <1>1 DEF output_validate_external
<1>2. CASE confirm_transaction
  BY <1>2 DEF confirm_transaction
<1>3. CASE verify_outputs_init \/ process_output_map \/ check_output_owned \/ output_next
  BY <1>3, ZenonT(40) DEF verify_outputs_init, process_output_map, check_output_owned, output_next
<1>4. CASE Sign
  <2>1. CASE sign_process_input_map
    BY <2>1 DEF sign_process_input_map
  <2>2. CASE sign_segwit
    BY <2>2 DEF sign_segwit
  <2> QED
    BY <1>4, <2>1, <2>2 DEF Sign, sign_init, sign_legacy, sign_legacy_compute_sighash,
      sign_segwit_v0, sign_segwit_v1, SignAndYield, sign_sighash_ecdsa,
      sign_sighash_schnorr, finalize
<1> QED
  BY <1>1, <1>2, <1>3, <1>4 DEF LaterStep

\* A button moves the command to the processor the screen leads to, or fails it.
LEMMA PressStage ==
  ASSUME RequestInv, NEW yes \in BOOLEAN, Press(yes)
  PROVE  At' = At \/ At' = "error"
BY DEF RequestInv, Press, At

\* Every step keeps what process_input_map and check_input_owned established.
LEMMA InputsStep ==
  ASSUME RequestInv, InputsInv, Next
  PROVE  InputsInv'
<1> USE DEF InputStages, OutputStages, HashStages, SignStages, Ending, Shown, Owned, Verified
<1>a. Same
  BY NextSame
<1>b. nInputs \in Nat /\ Indices = 0..nInputs - 1 /\ OkInputs \subseteq Indices
  BY RequestSize DEF Indices, OkInputs
<1>c. /\ nInputs' = nInputs /\ Indices' = Indices /\ OkInputs' = OkInputs
      /\ OwnInputs' = OwnInputs /\ TrueScripts' = TrueScripts
  BY <1>a, SameRequest
<1>1. CASE handler_sign_psbt
  <2>1. At' \in {"process_input_map", "error"} /\ index' = 0 /\ internal' = {}
    BY <1>1 DEF handler_sign_psbt, At, Goto, Fail, Show
  <2> QED
    BY <2>1, <1>b, <1>c DEF InputsInv
<1>2. CASE process_input_map
  <2>1. At = "process_input_map" /\ index' = index /\ internal' = internal
    BY <1>2 DEF process_input_map, At
  <2>2. CASE index >= nInputs
    <3>1. At' = "alert_external_inputs" /\ index = nInputs
      BY <1>2, <2>1, <2>2, <1>b DEF process_input_map, At, Goto, InputsInv
    <3>2. OkInputs = Indices /\ internal \subseteq OwnInputs
      BY <2>1, <3>1, <1>b, ZenonT(40) DEF InputsInv
    <3> QED
      BY <2>1, <3>1, <3>2, <1>c DEF InputsInv
  <2>3. CASE index < nInputs /\ UtxosUsable(Input)
    <3>1. index \in Indices
      BY <2>1, <2>3, <1>b, SMTT(30) DEF InputsInv
    <3>2. At' = "check_input_owned" /\ cur'.script = TrueScripts[index]
      BY <1>2, <2>1, <2>3, <3>1, <1>b DEF process_input_map, At, Goto, InputsInv, ReadInput,
        TrueScripts, TrueUtxo, Input
    <3>3. index \in OkInputs
      BY <2>3, <3>1 DEF OkInputs, Input
    <3> QED
      BY <2>1, <3>2, <3>3, <1>c DEF InputsInv
  <2>4. CASE index < nInputs /\ ~UtxosUsable(Input)
    <3>1. At' = "error"
      BY <1>2, <2>1, <2>4, <1>b DEF process_input_map, At, Goto, Fail, InputsInv
    <3> QED
      BY <3>1 DEF InputsInv
  <2> QED
    BY <2>1, <2>2, <2>3, <2>4, <1>b DEF InputsInv
<1>3. CASE check_input_owned
  <2>1. At = "check_input_owned" /\ index \in Indices /\ index \in OkInputs
    BY <1>3, <1>b DEF check_input_owned, At, InputsInv
  <2>2. CASE At' = "error"
    BY <2>2 DEF InputsInv
  <2>3. CASE At' # "error"
    <3>1. /\ At' = "process_input_map" /\ index' = index + 1
          /\ \/ internal' = internal
             \/ internal' = internal \cup {index} /\ IsInternal(Input.deriv, cur.script, TRUE)
      BY <1>3, <2>3, ZenonT(40) DEF check_input_owned, At, Goto, Fail, NextInput
    <3>2. internal' \subseteq OwnInputs
      BY <2>1, <3>1, ZenonT(40) DEF InputsInv, OwnInputs, Input
    <3>3. index' \in 0..nInputs /\ 0..index' - 1 \subseteq OkInputs
      BY <2>1, <3>1, <1>b DEF InputsInv
    <3> QED
      BY <3>1, <3>2, <3>3, <1>c DEF InputsInv
  <2> QED
    BY <2>2, <2>3
<1>4. CASE alert_external_inputs
  <2>1. /\ At = "alert_external_inputs" /\ internal' = internal
        /\ \/ At' = "error"
           \/ At' = "verify_outputs_init" /\ internal = Indices
    BY <1>4 DEF alert_external_inputs, At, Goto, Fail, Indices
  <2>2. OwnInputs \subseteq Indices
    BY ZenonT(40) DEF OwnInputs
  <2> QED
    BY <2>1, <2>2, <1>c DEF InputsInv
<1>5. CASE LaterStep
  BY <1>5, <1>c, LaterStepStage DEF InputsInv
<1>6. CASE \E yes \in BOOLEAN : Press(yes)
  <2>1. At' = At \/ At' = "error"
    BY <1>6, PressStage
  <2>2. index' = index /\ internal' = internal /\ cur' = cur
    BY <1>6 DEF Press
  <2> QED
    BY <2>1, <2>2, <1>c DEF InputsInv
<1>7. CASE ClientFails
  BY <1>7 DEF ClientFails, Fail, Goto, At, InputsInv
<1>8. CASE Ended
  BY <1>8, <1>c DEF Ended, vars, At, InputsInv
<1> QED
  BY <1>1, <1>2, <1>3, <1>4, <1>5, <1>6, <1>7, <1>8 DEF Next, Verify, LaterStep

-----------------------------------------------------------------------------
(* The outputs: the screens number the payments, one screen each.           *)

\* Payments numbered so far stay numbered when more screens are approved.
LEMMA NumberingGrows ==
  ASSUME NEW P, NEW n \in Nat, NEW k \in Nat, n <= k, NEW outputs, NEW old, NEW new,
         old \subseteq new, Numbering(P, n, outputs, old)
  PROVE  Numbering(P, k, outputs, new)
<1>1. PICK number \in Injection(P, 1..n) : \A i \in P :
        OutputScreen(number[i], outputs[i].script, outputs[i].amount) \in old
  BY DEF Numbering
<1>2. number \in Injection(P, 1..k)
  BY DEF Injection, IsInjective
<1> QED
  BY <1>1, <1>2 DEF Numbering

(* One more payment, shown under the next number.                           *)
LEMMA NumberingExtends ==
  ASSUME NEW P, NEW n \in Nat, NEW outputs, NEW old, NEW new, NEW j, j \notin P,
         old \subseteq new, Numbering(P, n, outputs, old),
         OutputScreen(n + 1, outputs[j].script, outputs[j].amount) \in new
  PROVE  Numbering(P \cup {j}, n + 1, outputs, new)
<1>1. PICK number \in Injection(P, 1..n) : \A i \in P :
        OutputScreen(number[i], outputs[i].script, outputs[i].amount) \in old
  BY DEF Numbering
<1> DEFINE more == [i \in P \cup {j} |-> IF i = j THEN n + 1 ELSE number[i]]
<1>2. \A i \in P : number[i] \in 1..n /\ more[i] = number[i]
  BY DEF Injection
<1>3. more[j] = n + 1
  OBVIOUS
<1>4. more \in [P \cup {j} -> 1..(n + 1)]
  BY <1>2
<1>5. ASSUME NEW a \in P \cup {j}, NEW b \in P \cup {j}, more[a] = more[b]
      PROVE  a = b
  <2>1. CASE a \in P /\ b \in P
    BY <2>1, <1>2, <1>5 DEF Injection, IsInjective
  <2>2. CASE a = j /\ b \in P
    BY <2>2, <1>2, <1>3, <1>5
  <2>3. CASE a \in P /\ b = j
    BY <2>3, <1>2, <1>3, <1>5
  <2> QED
    BY <2>1, <2>2, <2>3
<1>6. more \in Injection(P \cup {j}, 1..(n + 1))
  BY <1>4, <1>5 DEF Injection, IsInjective
<1>7. \A i \in P \cup {j} :
        OutputScreen(more[i], outputs[i].script, outputs[i].amount) \in new
  BY <1>1, <1>2, <1>3
<1> HIDE DEF more
<1> QED
  BY <1>6, <1>7 DEF Numbering

(* The wallet's own change is not a payment.                                *)
LEMMA ChangeIsNoPayment ==
  ASSUME IsInternal(Output.deriv, Output.script, FALSE)
  PROVE  index + 1 \notin Payments
BY DEF IsInternal, WalletScript, Payments, Output

\* process_output_map ends the loop over the outputs or reads the next one.
LEMMA OutputRound ==
  ASSUME process_output_map
  PROVE  /\ index >= nOutputs => At' = "confirm_transaction" /\ outTotal' = outTotal
         /\ ~(index >= nOutputs) =>
              At' = "check_output_owned" /\ outTotal' = Plus(outTotal, Output.amount)
BY Zenon DEF process_output_map, At, Goto

\* output_validate_external goes on to the next output, at once or after a screen.
LEMMA OutputAccepted ==
  ASSUME output_validate_external, At' # "error"
  PROVE  At' = "output_next" /\ (swap # NoSwap => cur.script = swap.dest)
<1>1. CASE Fail
  BY <1>1, Zenon DEF Fail, Goto, At
<1>2. CASE swap = NoSwap /\ Show("output_next", OutputScreen(extCount, cur.script, cur.amount))
  <2>1. proc' = "paused" /\ screen'.next = "output_next"
    BY <1>2 DEF Show
  <2> QED
    BY <1>2, <2>1, Zenon DEF At
<1>3. CASE swap # NoSwap /\ SwapOutputMatches /\ Goto("output_next")
  BY <1>3, Zenon DEF SwapOutputMatches, Goto, At
<1> QED
  BY <1>1, <1>2, <1>3, Zenon DEF output_validate_external

\* While an output is looked at, the index is that of an output.
LEMMA AtOutput ==
  ASSUME OutputsInv, nOutputs \in Nat, At \in OutputStages \ {"process_output_map"}
  PROVE  /\ index \in 0..nOutputs - 1 /\ index \in Nat
         /\ index \in 0..nOutputs /\ index + 1 \in 0..nOutputs
<1>1. index \in 0..nOutputs /\ index < nOutputs
  BY Zenon DEF OutputsInv
<1> QED
  BY <1>1

\* The signing processors stay among themselves until they end or fail.
LEMMA SignStage ==
  ASSUME RequestInv, Sign
  PROVE  /\ At \in {"sign_init", "finalize"} \cup SignStages
         /\ At' \in Ending \cup SignStages \cup {"error"}
<1> USE DEF At, HashStages, SignStages, Ending, Goto, Fail
<1>1. CASE sign_process_input_map
  BY <1>1 DEF sign_process_input_map
<1>2. CASE sign_segwit
  BY <1>2 DEF sign_segwit
<1> QED
  BY <1>1, <1>2, SMTT(30) DEF Sign, sign_init, sign_legacy, sign_legacy_compute_sighash,
    sign_segwit_v0, sign_segwit_v1, SignAndYield, sign_sighash_ecdsa, sign_sighash_schnorr,
    finalize

\* Every step keeps the numbering of the payments by process_output_map and
\* output_validate_external.
LEMMA OutputsStep ==
  ASSUME RequestInv, OutputsInv, Next
  PROVE  OutputsInv'
<1> USE DEF InputStages, OutputStages, HashStages, SignStages, Ending, Shown
<1>a. Same
  BY NextSame
<1>b. nOutputs \in Nat /\ Payments \subseteq 1..nOutputs
  BY RequestSize DEF Payments
<1>c. /\ nOutputs' = nOutputs /\ Payments' = Payments
      /\ psbt' = psbt /\ wallet' = wallet /\ swap' = swap
  BY <1>a, SameRequest DEF Same
<1>d. At' # "error" => Approving \subseteq Approving'
  BY ApprovingGrows
<1>e. ASSUME At \notin {"handler_sign_psbt", "error"}, At' # "error"
      PROVE  WalletShown(Approving)'
  BY <1>c, <1>d, <1>e DEF OutputsInv, WalletShown
<1>f. ASSUME NEW m \in Nat, NEW n \in Nat, NEW k \in Nat, n <= k, At' # "error",
             Numbered(m, n, Approving)
      PROVE  swap' = NoSwap =>
               Numbering(Payments' \cap (1..m), k, psbt'.outputs, Approving')
  BY <1>c, <1>d, <1>f, NumberingGrows DEF Numbered
<1>0. CASE At' = "error"
  BY <1>0 DEF OutputsInv
<1>1. CASE handler_sign_psbt /\ At' # "error"
  <2>1. At' = "process_input_map" /\ (wallet.form = "registered" => screen'.what = [kind |-> "wallet"] /\ proc' = "paused")
    BY <1>1 DEF handler_sign_psbt, At, Goto, Fail, Show
  <2>2. WalletShown(Approving)'
    BY <2>1, <1>c DEF WalletShown, Approving
  <2> QED
    BY <2>1, <2>2 DEF OutputsInv
<1>2. CASE (process_input_map \/ check_input_owned \/ alert_external_inputs) /\ At' # "error"
  <2>1. /\ At \in InputStages \cup {"alert_external_inputs"}
        /\ At' \in InputStages \cup {"alert_external_inputs", "verify_outputs_init"}
    BY <1>2, ZenonT(40) DEF process_input_map, check_input_owned, NextInput, alert_external_inputs, At,
      Goto, Fail
  <2> QED
    BY <2>1, <1>e, SMTT(30) DEF OutputsInv
<1>3. CASE verify_outputs_init
  <2>1. /\ At = "verify_outputs_init" /\ At' = "process_output_map"
        /\ index' = 0 /\ extCount' = 0
    BY <1>3 DEF verify_outputs_init, At, Goto
  <2>2. <<>> \in Injection(Payments \cap (1..0), 1..0)
    BY DEF Injection, IsInjective
  <2>3. Numbering(Payments \cap (1..0), 0, psbt.outputs, Approving')
    BY <2>2 DEF Numbering
  <2> QED
    BY <2>1, <2>3, <1>b, <1>c, <1>e DEF OutputsInv, Numbered
<1>4. CASE process_output_map
  <2>1. /\ At = "process_output_map" /\ index' = index /\ extCount' = extCount
        /\ index \in 0..nOutputs /\ extCount \in Nat /\ extCount <= index
        /\ Numbered(index, extCount, Approving)
    BY <1>4 DEF process_output_map, At, OutputsInv
  <2>2. CASE index >= nOutputs
    <3>1. At' = "confirm_transaction" /\ index = nOutputs
      BY <1>4, <2>1, <2>2, <1>b DEF process_output_map, At, Goto
    <3>2. Numbered(nOutputs, nOutputs, Approving)'
      BY <2>1, <3>1, <1>b, <1>c, <1>f DEF Numbered
    <3> QED
      BY <2>1, <3>1, <3>2, <1>e DEF OutputsInv
  <2>3. CASE index < nOutputs
    <3>1. /\ At' = "check_output_owned"
          /\ cur'.amount = Output.amount /\ cur'.script = Output.script
      BY <1>4, <2>1, <2>3, <1>b DEF process_output_map, At, Goto
    <3>2. Numbered(index, extCount, Approving)'
      BY <2>1, <3>1, <1>c, <1>f DEF Numbered
    <3>3. Output' = Output
      BY <2>1, <1>c DEF Output
    <3> QED
      BY <2>1, <2>3, <3>1, <3>2, <3>3, <1>c, <1>e DEF OutputsInv
  <2> QED
    BY <2>1, <2>2, <2>3, <1>b
<1>5. CASE check_output_owned /\ At' # "error"
  <2>1. /\ At = "check_output_owned" /\ index' = index /\ cur' = cur
        /\ index \in 0..nOutputs /\ index < nOutputs
        /\ extCount \in Nat /\ extCount <= index
        /\ Numbered(index, extCount, Approving)
        /\ cur.amount = Output.amount /\ cur.script = Output.script
    BY <1>5 DEF check_output_owned, At, OutputsInv
  <2>2. Output' = Output
    BY <2>1, <1>c DEF Output
  <2>3. CASE IsInternal(Output.deriv, cur.script, FALSE)
    <3>1. At' = "output_next" /\ extCount' = extCount
      BY <1>5, <2>3, ZenonT(40) DEF check_output_owned, At, Goto, Fail
    <3>2. index + 1 \notin Payments
      BY <2>1, <2>3, ChangeIsNoPayment
    <3>3. Payments \cap (1..(index + 1)) = Payments \cap (1..index)
      BY <2>1, <3>2, <1>b
    <3>4. Numbered(index + 1, extCount, Approving)'
      <4>1. index \in Nat /\ extCount \in Nat /\ extCount <= extCount
        BY <2>1, <1>b
      <4>2. At' # "error" /\ Numbered(index, extCount, Approving)
        BY <2>1, <1>5
      <4>3. swap' = NoSwap =>
              Numbering(Payments' \cap (1..index), extCount, psbt'.outputs, Approving')
        BY <4>1, <4>2, <1>f, Zenon
      <4>4. Payments' \cap (1..(index' + 1)) = Payments' \cap (1..index)
        BY <2>1, <3>3, <1>c
      <4>5. swap' = NoSwap =>
              Numbering(Payments' \cap (1..(index' + 1)), extCount', psbt'.outputs, Approving')
        BY <3>1, <4>3, <4>4, Zenon
      <4> QED
        BY <4>5 DEF Numbered
    <3> QED
      BY <2>1, <3>1, <3>4, <1>b, <1>c, <1>e DEF OutputsInv
  <2>4. CASE ~IsInternal(Output.deriv, cur.script, FALSE)
    <3>1. At' = "output_validate_external" /\ extCount' = extCount + 1
      BY <1>5, <2>4, ZenonT(40) DEF check_output_owned, At, Goto, Fail
    <3>2. extCount' - 1 = extCount /\ extCount' \in Nat
      BY <2>1, <3>1
    <3>3. swap' = NoSwap =>
            Numbering(Payments' \cap (1..index), extCount, psbt'.outputs, Approving')
      <4>1. index \in Nat /\ extCount \in Nat /\ extCount <= extCount
        BY <2>1, <1>b
      <4>2. At' # "error" /\ Numbered(index, extCount, Approving)
        BY <2>1, <1>5
      <4> QED
        BY <4>1, <4>2, <1>f, Zenon
    <3>4. Numbered(index, extCount - 1, Approving)'
      BY <2>1, <3>2, <3>3 DEF Numbered
    <3> QED
      BY <2>1, <2>2, <3>1, <3>4, <1>b, <1>c, <1>e DEF OutputsInv
  <2> QED
    BY <2>3, <2>4, ZenonT(40)
<1>6. CASE output_validate_external /\ At' # "error"
  <2>1. /\ At = "output_validate_external" /\ index' = index /\ extCount' = extCount
        /\ index \in 0..nOutputs /\ index < nOutputs
        /\ extCount \in 1..(index + 1) /\ extCount - 1 \in Nat
        /\ Numbered(index, extCount - 1, Approving)
        /\ cur.amount = Output.amount /\ cur.script = Output.script
    BY <1>6, SMTT(30) DEF output_validate_external, outs, At, OutputsInv
  <2>2. At' = "output_next"
    BY <1>6, OutputAccepted, Zenon
  <2>3. ASSUME swap = NoSwap
        PROVE  Numbering(Payments \cap (1..(index + 1)), extCount, psbt.outputs, Approving')
    <3>1. OutputScreen(extCount, Output.script, Output.amount) \in Approving'
      BY <1>6, <2>1, <2>3 DEF output_validate_external, Goto, Fail, Show, At, Approving
    <3>2. Numbering(Payments \cap (1..index), extCount - 1, psbt.outputs, Approving)
      BY <2>1, <2>3 DEF Numbered
    <3>3. CASE index + 1 \in Payments
      <4>1. Payments \cap (1..(index + 1)) = (Payments \cap (1..index)) \cup {index + 1}
        BY <2>1, <3>3, <1>b
      <4>2. index + 1 \notin Payments \cap (1..index)
        BY <2>1
      <4>3. (extCount - 1) + 1 = extCount
        BY <2>1
      <4>4. OutputScreen((extCount - 1) + 1, psbt.outputs[index + 1].script,
                         psbt.outputs[index + 1].amount) \in Approving'
        BY <3>1, <4>3 DEF Output
      <4>5. Numbering((Payments \cap (1..index)) \cup {index + 1}, (extCount - 1) + 1,
                      psbt.outputs, Approving')
        BY <2>1, <2>2, <3>2, <4>2, <4>4, <1>d, NumberingExtends, ZenonT(40)
      <4> QED
        BY <4>1, <4>3, <4>5
    <3>4. CASE index + 1 \notin Payments
      <4>1. Payments \cap (1..(index + 1)) = Payments \cap (1..index)
        BY <2>1, <3>4, <1>b
      <4>2. extCount \in Nat /\ extCount - 1 <= extCount
        BY <2>1
      <4>3. Numbering(Payments \cap (1..index), extCount, psbt.outputs, Approving')
        BY <2>1, <2>2, <3>2, <4>2, <1>d, NumberingGrows
      <4> QED
        BY <4>1, <4>3
    <3> QED
      BY <3>3, <3>4
  <2>4. Numbered(index + 1, extCount, Approving)'
    BY <2>1, <2>3, <1>c DEF Numbered
  <2> QED
    BY <2>1, <2>2, <2>4, <1>b, <1>c, <1>e, SMTT(30) DEF OutputsInv
<1>7. CASE output_next
  <2>1. /\ At = "output_next" /\ At' = "process_output_map"
        /\ index' = index + 1 /\ extCount' = extCount
        /\ index \in 0..nOutputs /\ index < nOutputs
        /\ extCount \in Nat /\ extCount <= index + 1
        /\ Numbered(index + 1, extCount, Approving)
    BY <1>7 DEF output_next, outs, Goto, At, OutputsInv
  <2>2. Numbered(index, extCount, Approving)'
    BY <2>1, <1>c, <1>f DEF Numbered
  <2> QED
    BY <2>1, <2>2, <1>b, <1>c, <1>e, SMTT(30) DEF OutputsInv
<1>8. CASE (confirm_transaction \/ Sign) /\ At' # "error"
  <2>1. At \in Shown /\ At' \in Shown /\ At' \notin OutputStages
    <3>1. CASE confirm_transaction
      BY <1>8, <3>1 DEF confirm_transaction, At, Goto, Fail, Show
    <3>2. CASE Sign
      BY <1>8, <3>2, SignStage, SMTT(30)
    <3> QED
      BY <1>8, <3>1, <3>2
  <2>2. Numbered(nOutputs, nOutputs, Approving)'
    BY <2>1, <1>8, <1>b, <1>c, <1>f DEF Numbered, OutputsInv
  <2> QED
    BY <2>1, <2>2, <1>e DEF OutputsInv
<1>9. CASE (\E yes \in BOOLEAN : Press(yes)) /\ At' # "error"
  <2>1. At' = At /\ At \in {"process_input_map", "output_next", "sign_init"}
    BY <1>9, PressStage DEF RequestInv, Press
  <2>2. index' = index /\ extCount' = extCount
    BY <1>9 DEF Press, outs
  <2>3. CASE At = "process_input_map"
    BY <2>1, <2>3, <1>e DEF OutputsInv
  <2>4. CASE At = "output_next"
    <3>1. /\ index \in 0..nOutputs /\ index < nOutputs /\ index + 1 \in Nat
          /\ extCount \in Nat /\ extCount <= index + 1
          /\ Numbered(index + 1, extCount, Approving)
      BY <2>4 DEF OutputsInv
    <3>2. Numbered(index + 1, extCount, Approving)'
      BY <3>1, <2>2, <1>9, <1>c, <1>f DEF Numbered
    <3> QED
      BY <2>1, <2>2, <2>4, <3>1, <3>2, <1>c, <1>e, SMTT(30) DEF OutputsInv
  <2>5. CASE At = "sign_init"
    <3>1. Numbered(nOutputs, nOutputs, Approving)'
      BY <2>5, <1>9, <1>b, <1>c, <1>f DEF Numbered, OutputsInv
    <3> QED
      BY <2>1, <2>5, <3>1, <1>e, SMTT(30) DEF OutputsInv
  <2> QED
    BY <2>1, <2>3, <2>4, <2>5
<1>10. CASE ClientFails
  BY <1>10, <1>0 DEF ClientFails, Fail, Goto, At
<1>11. CASE Ended /\ At' # "error"
  <2>1. At \in Shown /\ At' \in Shown /\ At' \notin OutputStages
    BY <1>11, SMTT(30) DEF Ended, vars, At
  <2>2. Numbered(nOutputs, nOutputs, Approving)'
    BY <2>1, <1>11, <1>b, <1>c, <1>f DEF Numbered, OutputsInv
  <2> QED
    BY <2>1, <2>2, <1>e DEF OutputsInv
<1> QED
  BY <1>0, <1>1, <1>2, <1>3, <1>4, <1>5, <1>6, <1>7, <1>8, <1>9, <1>10, <1>11
  DEF Next, Verify

-----------------------------------------------------------------------------
(* Signing: the inputs are signed in their order, each with the path and the *)
(* amounts of the PSBT.                                                      *)

\* When every input is internal, sign_init skips none.
LEMMA NextInternalIsIndex ==
  ASSUME nInputs \in Nat, internal = 0..nInputs - 1, index \in 0..nInputs
  PROVE  NextInternal = index
<1> DEFINE rest == {i \in internal : i >= index}
<1>1. CASE index = nInputs
  <2>1. rest = {}
    BY <1>1
  <2> QED
    BY <1>1, <2>1 DEF NextInternal
<1>2. CASE index < nInputs
  <2>1. index \in rest /\ \A j \in rest : index <= j
    BY <1>2
  <2>2. \A i \in rest : (\A j \in rest : i <= j) => i = index
    BY <2>1
  <2>3. (CHOOSE i \in rest : \A j \in rest : i <= j) = index
    BY <2>1, <2>2, SMTT(30)
  <2> QED
    BY <2>1, <2>3 DEF NextInternal
<1> QED
  BY <1>1, <1>2

\* The processors that verify come before the first signature.
LEMMA VerifyStage ==
  ASSUME RequestInv, Verify
  PROVE  At \in Unsigned /\ At' \in Unsigned \cup {"error"} /\ sigs' = sigs
<1> USE DEF At, InputStages, OutputStages, HashStages, SignStages, Ending, Shown, Owned,
      Checked, Stages, Unsigned, Goto, Fail, Show, signing
<1>1. CASE handler_sign_psbt
  BY <1>1 DEF handler_sign_psbt
<1>2. CASE output_validate_external
  BY <1>2 DEF output_validate_external
<1>3. CASE confirm_transaction
  BY <1>3 DEF confirm_transaction
<1> QED
  BY <1>1, <1>2, <1>3, ZenonT(40) DEF Verify, process_input_map, check_input_owned, NextInput,
    alert_external_inputs, verify_outputs_init, process_output_map, check_output_owned,
    output_next

\* Every step keeps the registers of the input being signed tied to its UTXO.
LEMMA SignStep ==
  ASSUME RequestInv, InputsInv, SignInv, SigsInv, Next
  PROVE  SignInv'
<1> USE DEF HashStages, SignStages, Ending
<1>a. Same
  BY NextSame
<1>b. nInputs \in Nat /\ Indices = 0..nInputs - 1
  BY RequestSize DEF Indices
<1>c. /\ nInputs' = nInputs /\ Paths' = Paths /\ Hashes' = Hashes
      /\ TransactionHashes' = TransactionHashes /\ psbt' = psbt
  BY <1>a, SameRequest DEF Same
<1>d. At \in SignStages =>
        internal = Indices /\ index = Len(sigs) /\ index \in 0..nInputs
        /\ hashes \in {NoHashes, TransactionHashes}
  BY DEF InputsInv, SignInv, Owned, Shown
<1>e. At \in HashStages => index \in Indices /\ path = Paths[index]
  BY <1>b, <1>d DEF SignInv
<1>f. index' = index => Input' = Input
  BY <1>c DEF Input
<1>0. CASE At' = "error"
  BY <1>0, SMTT(30) DEF SignInv
<1>1. CASE Verify
  BY <1>1, <1>0, VerifyStage DEF SignInv, Unsigned
<1>2. CASE sign_init /\ At' # "error"
  <2>1. /\ At = "sign_init" /\ At' = "sign_process_input_map"
        /\ hashes' = NoHashes /\ index' = 0 /\ sigs' = sigs
    BY <1>2 DEF sign_init, At, Goto, Fail
  <2>2. sigs = <<>>
    BY <2>1 DEF SigsInv, Unsigned, Stages, Checked, Owned, Shown
  <2> QED
    BY <2>1, <2>2, <1>b, <1>c DEF SignInv
<1>3. CASE sign_process_input_map /\ At' # "error"
  <2>1. At = "sign_process_input_map" /\ sigs' = sigs /\ hashes' = hashes
    BY <1>3 DEF sign_process_input_map, At
  <2>2. index' = index
    BY <1>3, <2>1, <1>b, <1>d, NextInternalIsIndex, SMTT(30) DEF sign_process_input_map
  <2>3. CASE index >= nInputs
    <3>1. At' = "finalize"
      BY <1>3, <2>2, <2>3, <1>b, <1>d, <2>1, SMTT(30) DEF sign_process_input_map, At, Goto
    <3> QED
      BY <2>1, <2>3, <3>1, <1>b, <1>c, <1>d, SMTT(30) DEF SignInv
  <2>4. CASE index < nInputs
    <3>1. index \in Indices
      BY <2>1, <2>4, <1>b, <1>d, SMTT(30)
    <3>2. /\ cur' = Cleared
          /\ path' = <<Input.deriv.change, Input.deriv.index>>
          /\ At' = IF Input.wit = NoUtxo THEN "sign_legacy" ELSE "sign_segwit"
      BY <1>3, <2>2, <2>4, <3>1, <1>b DEF sign_process_input_map, At, Goto, Fail, Input
    <3>3. path' = Paths[index]
      BY <3>1, <3>2 DEF Paths, Input
    <3>4. Cleared' = Cleared
      BY DEF Cleared
    <3> QED
      BY <2>1, <2>2, <2>4, <3>2, <3>3, <3>4, <1>c, <1>d, <1>f DEF SignInv
  <2> QED
    BY <2>1, <2>3, <2>4, <1>b, <1>d, SMTT(30)
<1>4. CASE sign_legacy /\ At' # "error"
  <2>1. /\ At = "sign_legacy" /\ At' = "sign_legacy_compute_sighash"
        /\ index' = index /\ sigs' = sigs /\ hashes' = hashes /\ path' = path
        /\ cur' = [cur EXCEPT !.script = Input.nonWit.script]
        /\ Input.nonWit # NoUtxo
    BY <1>4 DEF sign_legacy, signing, At, Goto, Fail
  <2>2. cur'.script = Input.nonWit.script
    BY <2>1, SMTT(30) DEF SignInv, Cleared
  <2> QED
    BY <2>1, <2>2, <1>c, <1>d, <1>e, <1>f DEF SignInv
<1>5. CASE sign_legacy_compute_sighash
  <2>1. /\ At = "sign_legacy_compute_sighash" /\ At' = "sign_sighash_ecdsa"
        /\ index' = index /\ sigs' = sigs /\ hashes' = hashes /\ path' = path
        /\ sighash' = LegacyHash(IF Input.redeem = NoScript THEN cur.script ELSE Input.redeem)
    BY <1>5, SMTT(30) DEF sign_legacy_compute_sighash, At, Goto, LegacyHash
  <2>2. sighash' \in Hashes[index]
    BY <2>1, <1>e, ZenonT(20) DEF SignInv, Hashes, Input
  <2> QED
    BY <2>1, <2>2, <1>c, <1>d, <1>e, <1>f, SMTT(30) DEF SignInv
<1>6. CASE sign_segwit /\ At' # "error"
  <2>1. /\ At = "sign_segwit" /\ At' \in {"sign_segwit_v0", "sign_segwit_v1"}
        /\ index' = index /\ sigs' = sigs /\ path' = path
        /\ cur' = [cur EXCEPT !.script = SegwitScript(Input)]
        /\ hashes' = IF hashes # NoHashes THEN hashes ELSE TransactionHashes
    BY <1>6 DEF sign_segwit, At, Goto, Fail
  <2>2. cur'.script = SegwitScript(Input) /\ Input.wit # NoUtxo
    BY <2>1 DEF SignInv, Cleared
  <2>3. hashes' = TransactionHashes
    BY <2>1, <1>d, SMTT(30)
  <2> QED
    BY <2>1, <2>2, <2>3, <1>c, <1>d, <1>e, <1>f DEF SignInv, SegwitScript
<1>7. CASE sign_segwit_v0 /\ At' # "error"
  <2>1. /\ At = "sign_segwit_v0" /\ At' = "sign_sighash_ecdsa"
        /\ index' = index /\ sigs' = sigs /\ hashes' = hashes /\ path' = path
        /\ sighash' = [alg |-> "v0", code |-> cur.script, amount |-> Input.wit.amount]
    BY <1>7, Zenon DEF sign_segwit_v0, At, Goto, Fail
  <2>2. sighash' \in Hashes[index]
    BY <2>1, <1>e, ZenonT(20) DEF SignInv, Hashes, Input
  <2> QED
    BY <2>1, <2>2, <1>c, <1>d, <1>e, <1>f, SMTT(30) DEF SignInv
<1>8. CASE sign_segwit_v1
  <2>1. /\ At = "sign_segwit_v1" /\ At' = "sign_sighash_schnorr"
        /\ index' = index /\ sigs' = sigs /\ hashes' = hashes /\ path' = path
        /\ sighash' = [alg |-> "v1", amounts |-> hashes]
    BY <1>8, SMTT(30) DEF sign_segwit_v1, At, Goto
  <2>2. sighash' \in Hashes[index]
    BY <2>1, <1>e, ZenonT(20) DEF SignInv, Hashes, Input
  <2> QED
    BY <2>1, <2>2, <1>c, <1>d, <1>e, <1>f DEF SignInv
<1>9. CASE sign_sighash_ecdsa \/ sign_sighash_schnorr
  <2>1. /\ At \in {"sign_sighash_ecdsa", "sign_sighash_schnorr"}
        /\ At' = "sign_process_input_map"
        /\ index' = index + 1 /\ hashes' = hashes
        /\ sigs' = Append(sigs, [input |-> index, path |-> path, hash |-> sighash])
    BY <1>9, SMTT(30) DEF sign_sighash_ecdsa, sign_sighash_schnorr, SignAndYield, At, Goto
  <2>2. /\ sighash \in Hashes[index] /\ index \in Indices /\ path = Paths[index]
        /\ index = Len(sigs) /\ hashes \in {NoHashes, TransactionHashes}
    BY <2>1, <1>d, <1>e, SMTT(30) DEF SignInv
  <2>3. [input |-> index, path |-> path, hash |-> sighash] \in Signatures
    BY <2>2, SMTT(30) DEF Signatures, SignaturesOf
  <2>4. Len(sigs') = Len(sigs) + 1
    BY <2>1, <2>3, AppendProperties, ZenonT(40) DEF SigsInv
  <2> QED
    BY <2>1, <2>2, <2>4, <1>b, <1>c DEF SignInv
<1>10. CASE finalize
  <2>1. At = "finalize" /\ At' = "ok" /\ sigs' = sigs
    BY <1>10 DEF finalize, signing, At, Goto
  <2> QED
    BY <2>1, <1>c, ZenonT(20) DEF SignInv
<1>11. CASE \E yes \in BOOLEAN : Press(yes)
  <2>1. At' \in {"process_input_map", "output_next", "sign_init", "error"}
    BY <1>11, PressStage DEF RequestInv, Press
  <2> QED
    BY <2>1 DEF SignInv
<1>12. CASE ClientFails
  BY <1>12, <1>0, SMTT(30) DEF ClientFails, Fail, Goto, At
<1>13. CASE Ended /\ At' # "error"
  BY <1>13, <1>c DEF Ended, vars, signing, At, SignInv
<1> QED
  BY <1>0, <1>1, <1>2, <1>3, <1>4, <1>5, <1>6, <1>7, <1>8, <1>9, <1>10, <1>11, <1>12, <1>13
  DEF Next, Sign

\* Every step keeps the signatures so far a function of the request.
LEMMA SigsStep ==
  ASSUME IInv, Next
  PROVE  SigsInv'
<1> USE DEF IInv
<1>a. Same
  BY NextSame
<1>b. nInputs \in Nat /\ nOutputs \in Nat /\ Indices = 0..nInputs - 1
  BY RequestSize DEF Indices
<1>c. /\ nInputs' = nInputs /\ nOutputs' = nOutputs /\ Indices' = Indices
      /\ OkInputs' = OkInputs /\ OwnInputs' = OwnInputs
      /\ SignaturesOf' = SignaturesOf /\ Signatures' = Signatures /\ Payments' = Payments
      /\ psbt' = psbt /\ wallet' = wallet /\ swap' = swap
  BY <1>a, SameRequest DEF Same
<1>1. approved \subseteq approved'
  <2> USE DEF Goto, Fail, Show
  <2>1. CASE Verify
    BY <2>1, ZenonT(40) DEF Verify, handler_sign_psbt, process_input_map, check_input_owned, NextInput,
      alert_external_inputs, verify_outputs_init, process_output_map, check_output_owned,
      output_validate_external, output_next, confirm_transaction
  <2>2. CASE Sign
    BY <2>2 DEF Sign, sign_init, sign_process_input_map, sign_legacy,
      sign_legacy_compute_sighash, sign_segwit, sign_segwit_v0, sign_segwit_v1, SignAndYield,
      sign_sighash_ecdsa, sign_sighash_schnorr, finalize
  <2> QED
    BY <2>1, <2>2, SMTT(30) DEF Next, Press, ClientFails, Ended, vars
<1>2. ASSUME Verified, Numbered(nOutputs, nOutputs, approved), WalletShown(approved)
      PROVE  (Verified /\ Numbered(nOutputs, nOutputs, approved) /\ WalletShown(approved))'
  <2>1. Verified'
    BY <1>2, <1>c DEF Verified
  <2>2. Numbered(nOutputs, nOutputs, approved)'
    BY <1>2, <1>1, <1>b, <1>c, NumberingGrows DEF Numbered
  <2>3. WalletShown(approved)'
    BY <1>2, <1>1, <1>c, SMTT(30) DEF WalletShown
  <2> QED
    BY <2>1, <2>2, <2>3
<1>3. ASSUME sigs' = sigs, At' \in Unsigned => At \in Unsigned
      PROVE  SigsInv'
  BY <1>2, <1>3, <1>c, SMTT(30) DEF SigsInv
<1>4. CASE sign_sighash_ecdsa \/ sign_sighash_schnorr
  <2>1. /\ At \in {"sign_sighash_ecdsa", "sign_sighash_schnorr"} /\ proc # "paused"
        /\ At' = "sign_process_input_map"
        /\ sigs' = Append(sigs, [input |-> index, path |-> path, hash |-> sighash])
    BY <1>4 DEF sign_sighash_ecdsa, sign_sighash_schnorr, SignAndYield, At, Goto
  <2>2. /\ sighash \in Hashes[index] /\ index \in Indices /\ path = Paths[index]
        /\ index = Len(sigs)
    BY <2>1, <1>b, SMTT(30) DEF SignInv, HashStages, SignStages
  <2> DEFINE sig == [input |-> index, path |-> path, hash |-> sighash]
  <2>3. sig \in SignaturesOf[index] /\ sig \in Signatures
    BY <2>2, SMTT(30) DEF Signatures, SignaturesOf
  <2> HIDE DEF sig
  <2>4. /\ sigs' \in Seq(Signatures) /\ Len(sigs') = Len(sigs) + 1 /\ Len(sigs) \in Nat
        /\ sigs'[Len(sigs) + 1] = sig
        /\ \A k \in 1..Len(sigs) : sigs'[k] = sigs[k]
    BY <2>1, <2>3, AppendProperties, LenProperties DEF SigsInv, sig
  <2>5. \A k \in 1..Len(sigs') : sigs'[k] \in SignaturesOf[k - 1]
    <3> SUFFICES ASSUME NEW k \in 1..Len(sigs') PROVE sigs'[k] \in SignaturesOf[k - 1]
      OBVIOUS
    <3>1. CASE k = Len(sigs) + 1
      <4>1. k - 1 = index
        BY <2>2, <2>4, <3>1, SMTT(30)
      <4> QED
        BY <2>3, <2>4, <3>1, <4>1
    <3>2. CASE k \in 1..Len(sigs)
      BY <2>4, <3>2 DEF SigsInv
    <3> QED
      BY <2>4, <3>1, <3>2
  <2>6. Verified /\ Numbered(nOutputs, nOutputs, approved) /\ WalletShown(approved)
    <3>1. Approving = approved
      BY <2>1 DEF Approving
    <3>2. Verified
      BY <2>1, SMTT(30) DEF InputsInv, Owned, Shown, SignStages, HashStages
    <3>3. Numbered(nOutputs, nOutputs, Approving) /\ WalletShown(Approving)
      BY <2>1, ZenonT(20) DEF OutputsInv, Shown, SignStages, HashStages
    <3> QED
      BY <3>1, <3>2, <3>3 DEF Numbered, WalletShown
  <2>7. At' \notin Unsigned
    BY <2>1 DEF Unsigned, SignStages
  <2>8. Len(sigs') <= nInputs
    BY <2>2, <2>4, <1>b
  <2> QED
    BY <2>4, <2>5, <2>6, <2>7, <2>8, <1>2, <1>c DEF SigsInv
<1>5. CASE Verify
  BY <1>5, <1>3, VerifyStage
<1>6. CASE Sign /\ ~(sign_sighash_ecdsa \/ sign_sighash_schnorr)
  <2>1. sigs' = sigs
    BY <1>6 DEF Sign, sign_init, sign_process_input_map, sign_legacy, signing,
      sign_legacy_compute_sighash, sign_segwit, sign_segwit_v0, sign_segwit_v1, finalize
  <2>2. At' \notin Unsigned
    BY <1>6, SignStage DEF Unsigned
  <2> QED
    BY <2>1, <2>2, <1>3
<1>7. CASE \E yes \in BOOLEAN : Press(yes)
  <2>1. sigs' = sigs
    BY <1>7 DEF Press, signing
  <2>2. At' \in Unsigned => At \in Unsigned
    BY <1>7, PressStage DEF Unsigned
  <2> QED
    BY <2>1, <2>2, <1>3
<1>8. CASE ClientFails \/ Ended
  <2>1. sigs' = sigs
    BY <1>8 DEF ClientFails, Ended, vars, signing
  <2>2. At' \notin Unsigned
    BY <1>8 DEF ClientFails, Ended, vars, Fail, Goto, At, Unsigned, Ending
  <2> QED
    BY <2>1, <2>2, <1>3
<1> QED
  BY <1>4, <1>5, <1>6, <1>7, <1>8 DEF Next

-----------------------------------------------------------------------------
(* The theorems.                                                            *)

(* The invariant of the chain of processors holds in every state, whatever the *)
(* PSBT, the wallet, the swap request and the user's and client's behaviour.   *)
THEOREM ChainInvariant == Spec => []IInv
<1>1. IInv /\ [Next]_vars => IInv'
  <2> SUFFICES ASSUME IInv, [Next]_vars PROVE IInv'
    OBVIOUS
  <2>1. CASE Next
    BY <2>1, RequestStep, InputsStep, OutputsStep, SignStep, SigsStep DEF IInv
  <2>2. CASE UNCHANGED vars
    <3>2. Same
      BY <2>2 DEF Same, vars, request
    <3>3. /\ nInputs' = nInputs /\ nOutputs' = nOutputs /\ Indices' = Indices
          /\ OkInputs' = OkInputs /\ OwnInputs' = OwnInputs
          /\ TrueScripts' = TrueScripts /\ Paths' = Paths /\ Hashes' = Hashes
          /\ TransactionHashes' = TransactionHashes
          /\ SignaturesOf' = SignaturesOf /\ Signatures' = Signatures /\ Payments' = Payments
      BY <3>2, SameRequest
    <3>4. At' = At /\ Approving' = Approving
      BY <2>2 DEF vars, At, Approving
    <3>5. RequestInv'
      BY <2>2, <3>4, SMTT(30) DEF IInv, RequestInv, vars, request
    <3>6. InputsInv'
      BY <2>2, <3>3, <3>4, SMTT(30) DEF IInv, InputsInv, Verified, vars
    <3>7. OutputsInv'
      BY <2>2, <3>3, <3>4, ZenonT(20) DEF IInv, OutputsInv, Numbered, WalletShown, Output, vars, request, outs
    <3>8. SignInv'
      BY <2>2, <3>3, <3>4, ZenonT(40) DEF IInv, SignInv, Cleared, Input, vars, request, signing
    <3>9. SigsInv'
      BY <2>2, <3>3, <3>4, ZenonT(40) DEF IInv, SigsInv, Verified, Numbered, WalletShown, vars, request,
        signing
    <3> QED
      BY <3>5, <3>6, <3>7, <3>8, <3>9 DEF IInv
  <2> QED
    BY <2>1, <2>2
<1> QED
  BY InitInv, <1>1, PTL DEF Spec

(* A signature is one of those that the PSBT determines for its input.       *)
LEMMA SignatureFields ==
  ASSUME IInv, NEW k \in DOMAIN sigs
  PROVE  /\ k \in 1..Len(sigs) /\ k - 1 \in Indices
         /\ sigs[k].input = k - 1 /\ sigs[k].path = Paths[k - 1]
         /\ sigs[k].hash \in Hashes[k - 1]
         /\ Verified
<1>1. sigs \in Seq(Signatures) /\ Len(sigs) \in Nat /\ k \in 1..Len(sigs)
  BY LenProperties DEF IInv, SigsInv
<1>2. k - 1 \in Indices
  BY <1>1, RequestSize DEF IInv, SigsInv, Indices
<1>3. sigs[k] \in SignaturesOf[k - 1]
  BY <1>1, SMTT(30) DEF IInv, SigsInv
<1>4. PICK h \in Hashes[k - 1] : sigs[k] = [input |-> k - 1, path |-> Paths[k - 1], hash |-> h]
  BY <1>2, <1>3, ZenonT(40) DEF SignaturesOf
<1>5. Verified
  <2>1. sigs # <<>>
    BY <1>1
  <2> QED
    BY <2>1, ZenonT(40) DEF IInv, SigsInv
<1> QED
  BY <1>1, <1>2, <1>4, <1>5, SMTT(60)

(* Before the first signature of sign_sighash_* leaves the device, every output *)
(* that output_validate_external does not recognise as change has been approved *)
(* on a screen of its own number, and so has a registered wallet.               *)
THEOREM OutputsAreApproved == Spec => []OutputsApproved
<1>1. IInv => OutputsApproved
  <2> SUFFICES ASSUME IInv, sigs # <<>>, swap = NoSwap PROVE OutputsApproved
    BY SMTT(30) DEF OutputsApproved
  <2>1. Numbered(nOutputs, nOutputs, approved) /\ WalletShown(approved)
    BY DEF IInv, SigsInv
  <2>2. Payments \cap (1..nOutputs) = Payments
    BY DEF Payments
  <2> QED
    BY <2>1, <2>2, ZenonT(40) DEF OutputsApproved, Numbered, Numbering, WalletShown
<1> QED
  BY ChainInvariant, <1>1, PTL

(* The command ends with success only after one signature per input, yielded in *)
(* the order of the inputs by sign_sighash_ecdsa and sign_sighash_schnorr.      *)
THEOREM EachInputIsSignedOnce == Spec => []SignsEachInputOnce
<1>1. IInv => SignsEachInputOnce
  <2> SUFFICES ASSUME IInv PROVE SignsEachInputOnce
    OBVIOUS
  <2>1. sigs \in Seq(Signatures) /\ Len(sigs) \in Nat /\ DOMAIN sigs = 1..Len(sigs)
    BY LenProperties DEF IInv, SigsInv
  <2>2. \A k \in DOMAIN sigs : sigs[k].input = k - 1
    BY SignatureFields
  <2>3. ASSUME proc = "ok"
        PROVE  {sigs[k].input : k \in DOMAIN sigs} = 0..nInputs - 1
    <3>1. Len(sigs) = nInputs
      BY <2>3 DEF IInv, SignInv, At, Ending
    <3>2. ASSUME NEW i \in 0..nInputs - 1
          PROVE  i + 1 \in DOMAIN sigs /\ sigs[i + 1].input = i
      BY <3>1, <3>2, <2>1, <2>2, SMTT(30)
    <3>3. {sigs[k].input : k \in DOMAIN sigs} \subseteq 0..nInputs - 1
      BY <3>1, <2>1, <2>2
    <3> QED
      BY <3>2, <3>3, SMTT(30)
  <2>4. ASSUME NEW k \in DOMAIN sigs, k > 1
        PROVE  sigs[k - 1].input < sigs[k].input
    <3>1. k \in 1..Len(sigs) /\ k - 1 \in DOMAIN sigs
      BY <2>1, <2>4
    <3> QED
      BY <3>1, <2>1, <2>2
  <2> QED
    BY <2>3, <2>4 DEF SignsEachInputOnce
<1> QED
  BY ChainInvariant, <1>1, PTL

\* The amounts that a sighash has, for each algorithm.
LEMMA HashForms ==
  ASSUME NEW i \in Indices, NEW h \in Hashes[i]
  PROVE  /\ h.alg = "v0" => /\ psbt.inputs[i + 1].wit # NoUtxo
                            /\ h.amount = psbt.inputs[i + 1].wit.amount
         /\ h.alg = "v1" => h.amounts = TransactionHashes
<1> DEFINE input == psbt.inputs[i + 1]
<1>1. \/ h = LegacyHash(input.nonWit.script)
      \/ h = LegacyHash(input.redeem)
      \/ /\ input.wit # NoUtxo
         /\ h = [alg |-> "v0", code |-> SegwitScript(input), amount |-> input.wit.amount]
      \/ h = [alg |-> "v1", amounts |-> TransactionHashes]
  BY ZenonT(40) DEF Hashes
<1> HIDE DEF input
<1>2. CASE h = LegacyHash(input.nonWit.script) \/ h = LegacyHash(input.redeem)
  BY <1>2 DEF LegacyHash
<1>3. CASE /\ input.wit # NoUtxo
           /\ h = [alg |-> "v0", code |-> SegwitScript(input), amount |-> input.wit.amount]
  <2>1. h.alg = "v0" /\ h.amount = input.wit.amount
    BY <1>3
  <2> QED
    BY <1>3, <2>1, Zenon DEF input
<1>4. CASE h = [alg |-> "v1", amounts |-> TransactionHashes]
  BY <1>4
<1> QED
  BY <1>1, <1>2, <1>3, <1>4, Zenon

(* The amounts in a sighash, read again from the witness UTXO when signing, are  *)
(* the amounts of the UTXOs that process_input_map verified and counted.         *)
THEOREM CountedAmountsAreSigned == Spec => []SignedAmountsWereCounted
<1>1. IInv => SignedAmountsWereCounted
  <2> SUFFICES ASSUME IInv, NEW k \in DOMAIN sigs
               PROVE  /\ sigs[k].hash.alg = "v0" =>
                           sigs[k].hash.amount = TrueUtxo(sigs[k].input).amount
                      /\ sigs[k].hash.alg = "v1" =>
                           \A i \in 1..nInputs :
                             sigs[k].hash.amounts[i] = TrueUtxo(i - 1).amount
    BY DEF SignedAmountsWereCounted
  <2>1. /\ k - 1 \in Indices /\ sigs[k].input = k - 1
        /\ sigs[k].hash \in Hashes[k - 1] /\ OkInputs = Indices
    BY SignatureFields DEF Verified
  <2>2. nInputs \in Nat /\ Indices = 0..nInputs - 1
    BY RequestSize DEF IInv, Indices
  <2>3. \A j \in Indices : UtxosUsable(psbt.inputs[j + 1])
    BY <2>1, SMTT(30) DEF OkInputs
  <2>4. ASSUME NEW i \in 1..nInputs
        PROVE  EitherUtxo(psbt.inputs[i]).amount = TrueUtxo(i - 1).amount
    <3>1. i - 1 \in Indices /\ (i - 1) + 1 = i
      BY <2>2, SMTT(30)
    <3> QED
      BY <3>1, <2>3 DEF EitherUtxo, TrueUtxo, UtxosUsable, UtxosAgree
  <2>5. ASSUME sigs[k].hash.alg = "v0"
        PROVE  sigs[k].hash.amount = TrueUtxo(k - 1).amount
    <3> DEFINE input == psbt.inputs[(k - 1) + 1]
    <3>1. input.wit # NoUtxo /\ sigs[k].hash.amount = input.wit.amount
      BY <2>1, <2>5, HashForms, Zenon
    <3> QED
      BY <3>1, <2>1, <2>3, SMTT(30) DEF TrueUtxo, UtxosUsable, UtxosAgree
  <2>6. ASSUME sigs[k].hash.alg = "v1"
        PROVE  sigs[k].hash.amounts = TransactionHashes
    BY <2>1, <2>6, HashForms, Zenon
  <2> QED
    BY <2>1, <2>4, <2>5, <2>6, ZenonT(40) DEF TransactionHashes
<1> QED
  BY ChainInvariant, <1>1, PTL

(* The key path of a signature is the one that the input's script was derived    *)
(* with: is_in_out_internal accepted the input and sign_process_input_map reads  *)
(* the same derivation, for change steps of 0 and 1.                             *)
THEOREM OwnKeySigns == Spec => []SignsWithOwnKey
<1>1. IInv => SignsWithOwnKey
  <2> SUFFICES ASSUME IInv, NEW k \in DOMAIN sigs
               PROVE  /\ TrueUtxo(sigs[k].input).script.of = "wallet"
                      /\ TrueUtxo(sigs[k].input).script.at = sigs[k].path
    BY DEF SignsWithOwnKey
  <2> DEFINE input == psbt.inputs[(k - 1) + 1]
  <2>1. /\ k - 1 \in Indices /\ sigs[k].input = k - 1 /\ sigs[k].path = Paths[k - 1]
        /\ OwnInputs = Indices
    BY SignatureFields DEF Verified
  <2>2. IsInternal(input.deriv, TrueUtxo(k - 1).script, TRUE)
    BY <2>1, ZenonT(40) DEF OwnInputs, TrueScripts
  <2>3. input.deriv # NoDeriv /\ (k - 1) + 1 \in 1..nInputs
    BY <2>1, <2>2, RequestSize, SMTT(30) DEF IInv, IsInternal, Indices
  <2>4. input.deriv.change \in {0, 1}
    BY <2>3, RequestsAssumption DEF IInv, RequestInv, nInputs
  <2>5. sigs[k].path = <<input.deriv.change, input.deriv.index>>
    BY <2>1, SMTT(30) DEF Paths
  <2>6. /\ TrueUtxo(k - 1).script.of = "wallet"
        /\ TrueUtxo(k - 1).script.at = <<input.deriv.change, input.deriv.index>>
    <3>1. TrueUtxo(k - 1).script = WalletScript(input.deriv.change, input.deriv.index)
      BY <2>2, Zenon DEF IsInternal
    <3>2. /\ WalletScript(input.deriv.change, input.deriv.index).of = "wallet"
          /\ WalletScript(input.deriv.change, input.deriv.index).at =
               <<input.deriv.change, input.deriv.index>>
      BY <2>4 DEF WalletScript
    <3> QED
      BY <3>1, <3>2, Zenon
  <2> QED
    BY <2>1, <2>5, <2>6, ZenonT(20)
<1> QED
  BY ChainInvariant, <1>1, PTL

-----------------------------------------------------------------------------
(* Induction.                                                               *)

\* A set that contains 0 and the successor of each of its numbers contains all.
\* Of the numbers it does not contain one is the least, because < is well-founded.
LEMMA NatSetInduction ==
  ASSUME NEW S, 0 \in S, \A n \in Nat : n \in S => n + 1 \in S
  PROVE  Nat \subseteq S
<1> DEFINE R == OpToRel(<, Nat)
           T == Nat \ S
<1> SUFFICES ASSUME T # {} PROVE FALSE
  OBVIOUS
<1>1. IsWellFoundedOn(R, Nat)
  BY NatLessThanWellFounded, Zenon
<1>2. \A x \in Nat : \A y \in Nat : x < y => <<x, y>> \in R
  BY DEF OpToRel
<1> HIDE DEF R
<1>3. PICK t \in T : \A y \in T : ~(<<y, t>> \in R)
  BY <1>1, WFMin, Zenon
<1>4. t # 0 /\ t - 1 \in Nat /\ (t - 1) + 1 = t /\ t - 1 < t
  OBVIOUS
<1>5. t - 1 \in S
  BY <1>2, <1>3, <1>4, Zenon
<1> QED
  BY <1>4, <1>5

-----------------------------------------------------------------------------
(* Running totals.                                                          *)

\* The recursive definition has a solution: it is extended number by number.
LEMMA TotalsRecursive ==
  ASSUME NEW a \in Seq(Nat)
  PROVE  RunningTotals(a) =
           [n \in 0..Len(a) |-> IF n = 0 THEN 0 ELSE RunningTotals(a)[n - 1] + a[n]]
<1> DEFINE IsTotals(f, m) ==
             f = [n \in 0..m |-> IF n = 0 THEN 0 ELSE f[n - 1] + a[n]]
           S == {m \in Nat : \E f : IsTotals(f, m)}
<1>1. 0 \in S
  <2>1. IsTotals([n \in 0..0 |-> 0], 0)
    OBVIOUS
  <2> QED
    BY <2>1, Zenon
<1>2. ASSUME NEW m \in Nat, m \in S PROVE m + 1 \in S
  <2>1. PICK f : IsTotals(f, m)
    BY <1>2
  <2> DEFINE g == [n \in 0..(m + 1) |-> IF n = m + 1 THEN f[m] + a[m + 1] ELSE f[n]]
  <2>2. \A n \in 0..(m + 1) : g[n] = IF n = 0 THEN 0 ELSE g[n - 1] + a[n]
    BY <2>1
  <2>3. IsTotals(g, m + 1)
    BY <2>2
  <2> HIDE DEF g
  <2> QED
    BY <2>3, SMTT(30)
<1>3. Len(a) \in S
  <2> HIDE DEF S
  <2>1. Len(a) \in Nat
    OBVIOUS
  <2> QED
    BY <1>1, <1>2, <2>1, NatSetInduction, SMTT(30)
<1>4. \E f : IsTotals(f, Len(a))
  BY <1>3
<1> QED
  BY <1>4, Zenon DEF RunningTotals

\* The first total is 0, each further one adds an amount, and none exceeds the last.
LEMMA TotalsFacts ==
  ASSUME NEW a \in Seq(Nat)
  PROVE  /\ RunningTotals(a)[0] = 0
         /\ \A n \in 0..Len(a) - 1 : RunningTotals(a)[n + 1] = RunningTotals(a)[n] + a[n + 1]
         /\ Total(a) \in Nat
         /\ \A n \in 0..Len(a) : RunningTotals(a)[n] \in 0..Total(a)
<1> DEFINE T == RunningTotals(a)
<1>1. Len(a) \in Nat /\ \A n \in 1..Len(a) : a[n] \in Nat
  OBVIOUS
<1>2. T = [n \in 0..Len(a) |-> IF n = 0 THEN 0 ELSE T[n - 1] + a[n]]
  BY TotalsRecursive
<1> HIDE DEF T
<1>3. T[0] = 0 /\ \A n \in 0..Len(a) - 1 : T[n + 1] = T[n] + a[n + 1]
  <2>1. T[0] = 0
    BY <1>1, <1>2
  <2>2. ASSUME NEW n \in 0..Len(a) - 1 PROVE T[n + 1] = T[n] + a[n + 1]
    <3>1. n + 1 \in 0..Len(a) /\ n + 1 # 0 /\ (n + 1) - 1 = n
      BY <1>1
    <3> QED
      BY <1>2, <3>1
  <2> QED
    BY <2>1, <2>2
<1> DEFINE S == {m \in Nat : m <= Len(a) => T[m] \in Nat /\ \A n \in 0..m : T[n] \in 0..T[m]}
<1>4. 0 \in S
  BY <1>3
<1>5. ASSUME NEW m \in Nat, m \in S PROVE m + 1 \in S
  <2> SUFFICES ASSUME m + 1 <= Len(a)
               PROVE  T[m + 1] \in Nat /\ \A n \in 0..(m + 1) : T[n] \in 0..T[m + 1]
    OBVIOUS
  <2>1. T[m] \in Nat /\ \A n \in 0..m : T[n] \in 0..T[m]
    BY <1>1, <1>5
  <2>2. a[m + 1] \in Nat /\ T[m + 1] = T[m] + a[m + 1]
    BY <1>1, <1>3
  <2>3. \A n \in 0..(m + 1) : n \in 0..m \/ n = m + 1
    OBVIOUS
  <2> QED
    BY <2>1, <2>2, <2>3
<1> HIDE DEF S
<1>6. Len(a) \in S
  BY <1>1, <1>4, <1>5, NatSetInduction, SMTT(30)
<1>7. T[Len(a)] \in Nat /\ \A n \in 0..Len(a) : T[n] \in 0..T[Len(a)]
  BY <1>1, <1>6 DEF S
<1> QED
  BY <1>3, <1>7 DEF T, Total

\* A sum below 2^64 is not reduced.
LEMMA NoWrap ==
  ASSUME NEW x \in Nat, x < AmountModulus
  PROVE  x % AmountModulus = x
BY ModulusAssumption
-----------------------------------------------------------------------------
(* The inductive invariant.                                                 *)

InSums  == RunningTotals(InputAmounts(psbt))
OutSums == RunningTotals(OutputAmounts(psbt))
Counted   == {"alert_external_inputs", "verify_outputs_init", "confirm_transaction"}
             \cup OutputStages
Confirmed == {"sign_init"} \cup SignStages \cup Ending

InValue ==
  /\ At = "process_input_map" => inTotal = InSums[index]
  /\ At = "check_input_owned" => inTotal = InSums[index + 1]
  /\ At \in Counted => inTotal = InputValue

OutValue ==
  /\ At = "process_output_map" => outTotal = OutSums[index] /\ changeTotal \in 0..outTotal
  /\ At = "check_output_owned" =>
       outTotal = OutSums[index + 1] /\ changeTotal \in 0..OutSums[index]
  /\ At \in {"output_validate_external", "output_next"} =>
       outTotal = OutSums[index + 1] /\ changeTotal \in 0..outTotal
  /\ At = "confirm_transaction" => outTotal = OutputValue /\ changeTotal \in 0..outTotal

(* Of the first m outputs, one is not change: it is the only payment among  *)
(* them, goes to dest and is worth what is left when the change is taken    *)
(* off.  Nothing is left if all of them are change.                         *)
PaidOnce(P, m, outputs, dest, external, left) ==
  /\ external = 0 => P \cap (1..m) = {} /\ left = 0
  /\ external = 1 => \E i \in 1..m : /\ P \cap (1..m) \subseteq {i}
                                     /\ outputs[i].script = dest
                                     /\ outputs[i].amount = left

SwapMet ==
  /\ \E i \in 1..nOutputs : /\ Payments \subseteq {i}
                            /\ psbt.outputs[i].script = swap.dest
                            /\ psbt.outputs[i].amount = swap.amount
  /\ InputValue - OutputValue = swap.fees

SwapInv == swap # NoSwap =>
  /\ proc # "paused" /\ approved = {}
  /\ At = "process_output_map" =>
       PaidOnce(Payments, index, psbt.outputs, swap.dest, extCount, outTotal - changeTotal)
  /\ At = "check_output_owned" =>
       PaidOnce(Payments, index, psbt.outputs, swap.dest, extCount,
                OutSums[index] - changeTotal)
  /\ At = "output_validate_external" /\ extCount = 1 =>
       Payments \cap (1..index) = {} /\ changeTotal = OutSums[index]
  /\ At = "output_next" =>
       PaidOnce(Payments, index + 1, psbt.outputs, swap.dest, extCount,
                outTotal - changeTotal)
  /\ At = "confirm_transaction" =>
       PaidOnce(Payments, nOutputs, psbt.outputs, swap.dest, extCount,
                outTotal - changeTotal)
  /\ At \in Confirmed \/ sigs # <<>> => SwapMet

FeeScreen == [kind |-> "fee", fee |-> InputValue - OutputValue]

FeeInv == swap = NoSwap =>
  /\ At \in Confirmed => FeeScreen \in Approving
  /\ sigs # <<>> => FeeScreen \in approved

ValueInv == InValue /\ OutValue /\ SwapInv /\ FeeInv

\* What is known of the sums of a request.
LEMMA InputSums ==
  ASSUME AmountsFit, RequestInv
  PROVE  /\ nInputs \in Nat /\ InSums[0] = 0 /\ InSums[nInputs] = InputValue
         /\ \A i \in 0..nInputs - 1 :
              InSums[i + 1] = InSums[i] + SpentAmount(psbt.inputs[i + 1])
         /\ \A i \in 0..nInputs : InSums[i] \in Nat /\ InSums[i] < AmountModulus
<1> DEFINE a == InputAmounts(psbt)
<1>1. a \in Seq(Nat) /\ Total(a) < AmountModulus
  BY DEF AmountsFit, RequestInv
<1>2. Len(psbt.inputs) \in Nat
  BY RequestSize DEF nInputs
<1>3. Len(a) = nInputs /\ \A i \in 1..nInputs : a[i] = SpentAmount(psbt.inputs[i])
  BY <1>1, <1>2 DEF InputAmounts, nInputs
<1> HIDE DEF a
<1>4. /\ RunningTotals(a)[0] = 0 /\ Total(a) \in Nat
      /\ \A n \in 0..Len(a) - 1 : RunningTotals(a)[n + 1] = RunningTotals(a)[n] + a[n + 1]
      /\ \A n \in 0..Len(a) : RunningTotals(a)[n] \in 0..Total(a)
  BY <1>1, TotalsFacts
<1>5. InSums = RunningTotals(a) /\ InputValue = Total(a) /\ nInputs \in Nat
  BY <1>2 DEF InSums, InputValue, a, nInputs
<1>6. \A i \in 0..nInputs : InSums[i] \in Nat /\ InSums[i] < AmountModulus
  BY <1>1, <1>3, <1>4, <1>5, ModulusAssumption
<1>7. \A i \in 0..nInputs - 1 : InSums[i + 1] = InSums[i] + SpentAmount(psbt.inputs[i + 1])
  BY <1>3, <1>4, <1>5
<1> QED
  BY <1>3, <1>4, <1>5, <1>6, <1>7 DEF Total

\* The running totals of the outputs: they start at 0, add one amount at a time
\* as process_output_map does, and stay below the width of the counter.
LEMMA OutputSums ==
  ASSUME AmountsFit, RequestInv
  PROVE  /\ nOutputs \in Nat /\ OutSums[0] = 0 /\ OutSums[nOutputs] = OutputValue
         /\ \A i \in 0..nOutputs - 1 :
              /\ psbt.outputs[i + 1].amount \in Nat
              /\ OutSums[i + 1] = OutSums[i] + psbt.outputs[i + 1].amount
         /\ \A i \in 0..nOutputs : OutSums[i] \in Nat /\ OutSums[i] < AmountModulus
<1> DEFINE a == OutputAmounts(psbt)
<1>1. a \in Seq(Nat) /\ Total(a) < AmountModulus
  BY DEF AmountsFit, RequestInv
<1>2. Len(psbt.outputs) \in Nat
  BY RequestSize DEF nOutputs
<1>3. Len(a) = nOutputs /\ \A i \in 1..nOutputs : a[i] = psbt.outputs[i].amount
  BY <1>1, <1>2 DEF OutputAmounts, nOutputs
<1> HIDE DEF a
<1>4. /\ RunningTotals(a)[0] = 0 /\ Total(a) \in Nat
      /\ \A n \in 0..Len(a) - 1 : RunningTotals(a)[n + 1] = RunningTotals(a)[n] + a[n + 1]
      /\ \A n \in 0..Len(a) : RunningTotals(a)[n] \in 0..Total(a)
  BY <1>1, TotalsFacts
<1>5. OutSums = RunningTotals(a) /\ OutputValue = Total(a) /\ nOutputs \in Nat
  BY <1>2 DEF OutSums, OutputValue, a, nOutputs
<1>6. \A i \in 0..nOutputs : OutSums[i] \in Nat /\ OutSums[i] < AmountModulus
  BY <1>1, <1>3, <1>4, <1>5, ModulusAssumption
<1>7. ASSUME NEW i \in 0..nOutputs - 1
      PROVE  /\ psbt.outputs[i + 1].amount \in Nat
             /\ OutSums[i + 1] = OutSums[i] + psbt.outputs[i + 1].amount
  <2>1. i + 1 \in 1..Len(a) /\ a[i + 1] \in Nat
    BY <1>1, <1>3, <1>5
  <2> QED
    BY <1>3, <1>4, <1>5, <2>1
<1> QED
  BY <1>3, <1>4, <1>5, <1>6, <1>7 DEF Total

\* The amounts of the request are those of the PSBT, which no processor changes.
LEMMA SameAmounts ==
  ASSUME Same
  PROVE  /\ InSums' = InSums /\ OutSums' = OutSums
         /\ InputValue' = InputValue /\ OutputValue' = OutputValue
         /\ FeeScreen' = FeeScreen
BY DEF Same, InSums, OutSums, InputValue, OutputValue, FeeScreen
-----------------------------------------------------------------------------
(* The inputs: process_input_map counts each once.                          *)

\* Every step keeps the inputs total: process_input_map adds each input once.
LEMMA InValueStep ==
  ASSUME AmountsFit, RequestInv, InputsInv, InValue, Next
  PROVE  InValue'
<1> USE DEF InputStages, OutputStages, Counted
<1>a. /\ nInputs \in Nat /\ InSums[0] = 0 /\ InSums[nInputs] = InputValue
      /\ \A i \in 0..nInputs - 1 :
           InSums[i + 1] = InSums[i] + SpentAmount(psbt.inputs[i + 1])
      /\ \A i \in 0..nInputs : InSums[i] \in Nat /\ InSums[i] < AmountModulus
  BY InputSums
<1>b. InSums' = InSums /\ InputValue' = InputValue
  BY NextSame, SameAmounts
<1>0. CASE At' = "error"
  BY <1>0 DEF InValue
<1>1. CASE handler_sign_psbt /\ At' # "error"
  <2>1. At' = "process_input_map" /\ index' = 0 /\ inTotal' = 0
    BY <1>1 DEF handler_sign_psbt, At, Goto, Fail, Show
  <2> QED
    BY <2>1, <1>a, <1>b DEF InValue
<1>2. CASE process_input_map /\ At' # "error"
  <2>1. /\ At = "process_input_map" /\ index' = index /\ index \in 0..nInputs
        /\ inTotal = InSums[index]
    BY <1>2 DEF process_input_map, At, InputsInv, InValue
  <2>2. CASE index >= nInputs
    <3>1. At' = "alert_external_inputs" /\ index = nInputs /\ inTotal' = inTotal
      BY <1>2, <2>1, <2>2, <1>a DEF process_input_map, At, Goto
    <3> QED
      BY <2>1, <3>1, <1>a, <1>b DEF InValue
  <2>3. CASE index < nInputs
    <3>1. /\ At' = "check_input_owned" /\ UtxosUsable(Input)
          /\ ReadInput(IF Input.nonWit # NoUtxo THEN Input.nonWit ELSE Input.wit)
      BY <1>2, <2>1, <2>3, <1>a DEF process_input_map, At, Goto, Fail
    <3>2. inTotal' = Plus(inTotal, SpentAmount(Input))
      BY <3>1 DEF ReadInput, SpentAmount, UtxosUsable
    <3>3. index \in 0..nInputs - 1 /\ index + 1 \in 0..nInputs
      BY <2>1, <2>3, <1>a
    <3>4. InSums[index + 1] = inTotal + SpentAmount(Input)
      BY <2>1, <3>3, <1>a DEF Input
    <3>5. inTotal' = InSums[index + 1]
      BY <3>2, <3>3, <3>4, <1>a, NoWrap DEF Plus
    <3> QED
      BY <2>1, <3>1, <3>5, <1>b DEF InValue
  <2> QED
    BY <2>1, <2>2, <2>3, <1>a
<1>3. CASE check_input_owned /\ At' # "error"
  <2>1. /\ At = "check_input_owned" /\ At' = "process_input_map"
        /\ index' = index + 1 /\ inTotal' = inTotal
    BY <1>3, ZenonT(40) DEF check_input_owned, NextInput, At, Goto, Fail
  <2> QED
    BY <2>1, <1>b DEF InValue
<1>4. CASE (\/ alert_external_inputs \/ verify_outputs_init \/ process_output_map
            \/ check_output_owned \/ output_validate_external \/ output_next)
           /\ At' # "error"
  <2>1. At \in Counted /\ At' \in Counted /\ inTotal' = inTotal
    <3>1. CASE output_validate_external
      <4>1. At = "output_validate_external" /\ inTotal' = inTotal
        BY <3>1, Zenon DEF output_validate_external, At
      <4>2. At' = "output_next"
        BY <1>4, <3>1, OutputAccepted, Zenon
      <4> QED
        BY <4>1, <4>2, Zenon
    <3> QED
      BY <1>4, <3>1, ZenonT(40) DEF alert_external_inputs, verify_outputs_init, process_output_map,
        check_output_owned, output_next, At, Goto, Fail
  <2> QED
    BY <2>1, <1>b DEF InValue
<1>5. CASE confirm_transaction /\ At' # "error"
  <2>1. At' = "sign_init"
    BY <1>5 DEF confirm_transaction, At, Goto, Fail, Show
  <2> QED
    BY <2>1 DEF InValue
<1>6. CASE Sign
  <2>1. At' \in Ending \cup SignStages \cup {"error"}
    BY <1>6, SignStage
  <2> QED
    BY <2>1 DEF InValue, Ending, SignStages, HashStages
<1>7. CASE (\E yes \in BOOLEAN : Press(yes)) /\ At' # "error"
  <2>1. At' = At
    BY <1>7, PressStage
  <2>2. index' = index /\ inTotal' = inTotal
    BY <1>7 DEF Press
  <2> QED
    BY <2>1, <2>2, <1>b DEF InValue
<1>8. CASE ClientFails
  BY <1>8 DEF ClientFails, Fail, Goto, At, InValue
<1>9. CASE Ended
  BY <1>9, <1>b DEF Ended, vars, At, InValue
<1> QED
  BY <1>0, <1>1, <1>2, <1>3, <1>4, <1>5, <1>6, <1>7, <1>8, <1>9, SMTT(30) DEF Next, Verify

-----------------------------------------------------------------------------
(* The outputs: process_output_map counts each once, and the change is part *)
(* of them.                                                                 *)

\* Every step keeps the outputs total and the change total of process_output_map.
LEMMA OutValueStep ==
  ASSUME AmountsFit, RequestInv, OutputsInv, OutValue, Next
  PROVE  OutValue'
<1> USE DEF InputStages, OutputStages
<1>a. /\ nOutputs \in Nat /\ OutSums[0] = 0 /\ OutSums[nOutputs] = OutputValue
      /\ \A i \in 0..nOutputs - 1 :
           /\ psbt.outputs[i + 1].amount \in Nat
           /\ OutSums[i + 1] = OutSums[i] + psbt.outputs[i + 1].amount
      /\ \A i \in 0..nOutputs : OutSums[i] \in Nat /\ OutSums[i] < AmountModulus
  BY OutputSums
<1>b. OutSums' = OutSums /\ OutputValue' = OutputValue
  BY NextSame, SameAmounts
<1>0. CASE At' = "error"
  BY <1>0 DEF OutValue
<1>1. CASE (handler_sign_psbt \/ process_input_map \/ check_input_owned
            \/ alert_external_inputs) /\ At' # "error"
  <2>1. At' \in InputStages \cup {"alert_external_inputs", "verify_outputs_init"}
    <3>1. CASE handler_sign_psbt
      BY <1>1, <3>1 DEF handler_sign_psbt, At, Goto, Fail, Show
    <3> QED
      BY <1>1, <3>1, ZenonT(40) DEF process_input_map, check_input_owned, NextInput,
        alert_external_inputs, At, Goto, Fail
  <2> QED
    BY <2>1 DEF OutValue
<1>2. CASE verify_outputs_init
  <2>1. At' = "process_output_map" /\ index' = 0 /\ outTotal' = 0 /\ changeTotal' = 0
    BY <1>2 DEF verify_outputs_init, At, Goto
  <2> QED
    BY <2>1, <1>a, <1>b DEF OutValue
<1>3. CASE process_output_map
  <2>1. /\ At = "process_output_map" /\ index' = index /\ index \in 0..nOutputs
        /\ outTotal = OutSums[index] /\ changeTotal \in 0..outTotal
        /\ changeTotal' = changeTotal
    BY <1>3 DEF process_output_map, At, OutputsInv, OutValue
  <2>2. CASE index >= nOutputs
    <3>1. At' = "confirm_transaction" /\ index = nOutputs /\ outTotal' = outTotal
      <4>1. nOutputs \in Nat
        BY <1>a, Zenon
      <4>2. index = nOutputs
        BY <2>1, <2>2, <4>1
      <4> QED
        BY <1>3, <2>2, <4>2, OutputRound, Zenon
    <3> QED
      BY <2>1, <3>1, <1>a, <1>b DEF OutValue
  <2>3. CASE index < nOutputs
    <3>1. At' = "check_output_owned" /\ outTotal' = Plus(outTotal, Output.amount)
      <4>1. nOutputs \in Nat
        BY <1>a, Zenon
      <4>2. ~(index >= nOutputs)
        BY <2>1, <2>3, <4>1
      <4> QED
        BY <1>3, <4>2, OutputRound, Zenon
    <3>2. index \in 0..nOutputs - 1 /\ index + 1 \in 0..nOutputs
      BY <2>1, <2>3, <1>a
    <3>3. OutSums[index + 1] = outTotal + Output.amount
      BY <2>1, <3>2, <1>a DEF Output
    <3>4. outTotal' = OutSums[index + 1]
      BY <3>1, <3>2, <3>3, <1>a, NoWrap, SMTT(30) DEF Plus
    <3> QED
      BY <2>1, <3>1, <3>4, <1>b, SMTT(30) DEF OutValue
  <2> QED
    BY <2>1, <2>2, <2>3, <1>a
<1>4. CASE check_output_owned /\ At' # "error"
  <2>1. /\ At = "check_output_owned" /\ index' = index /\ outTotal' = outTotal
        /\ index \in 0..nOutputs - 1 /\ index \in 0..nOutputs /\ index + 1 \in 0..nOutputs
        /\ cur.amount = Output.amount
        /\ outTotal = OutSums[index + 1] /\ changeTotal \in 0..OutSums[index]
    <3>1. At = "check_output_owned" /\ index' = index /\ outTotal' = outTotal
      BY <1>4, Zenon DEF check_output_owned, At
    <3>2. cur.amount = Output.amount
      BY <3>1, Zenon DEF OutputsInv
    <3>3. outTotal = OutSums[index + 1] /\ changeTotal \in 0..OutSums[index]
      BY <3>1, Zenon DEF OutValue
    <3>4. At \in OutputStages \ {"process_output_map"} /\ nOutputs \in Nat
      BY <1>a, <3>1, Zenon DEF OutputStages
    <3> QED
      BY <3>1, <3>2, <3>3, <3>4, AtOutput, Zenon
  <2>2. /\ Output.amount \in Nat /\ OutSums[index + 1] = OutSums[index] + Output.amount
        /\ OutSums[index] \in Nat /\ OutSums[index + 1] < AmountModulus
    BY <2>1, <1>a DEF Output
  <2>3. /\ At' \in {"output_validate_external", "output_next"}
        /\ changeTotal' = changeTotal \/ changeTotal' = Plus(changeTotal, cur.amount)
    BY <1>4, ZenonT(40) DEF check_output_owned, At, Goto, Fail
  <2>4. /\ changeTotal \in Nat /\ changeTotal + Output.amount \in 0..outTotal
        /\ changeTotal + Output.amount < AmountModulus /\ changeTotal \in 0..outTotal
    BY <2>1, <2>2, ModulusAssumption
  <2>5. Plus(changeTotal, cur.amount) = changeTotal + Output.amount
    BY <2>1, <2>4, NoWrap DEF Plus
  <2>6. changeTotal' \in 0..outTotal'
    BY <2>1, <2>3, <2>4, <2>5
  <2> QED
    BY <2>1, <2>3, <2>6, <1>b, SMTT(30) DEF OutValue
<1>5. CASE output_validate_external /\ At' # "error"
  <2>1. /\ At = "output_validate_external" /\ At' = "output_next"
        /\ index' = index /\ outTotal' = outTotal /\ changeTotal' = changeTotal
    <3>1. /\ At = "output_validate_external"
          /\ index' = index /\ outTotal' = outTotal /\ changeTotal' = changeTotal
      BY <1>5, Zenon DEF output_validate_external, outs, At
    <3> QED
      BY <1>5, <3>1, OutputAccepted, Zenon
  <2> QED
    BY <2>1, <1>b DEF OutValue
<1>6. CASE output_next
  <2>1. /\ At = "output_next" /\ At' = "process_output_map"
        /\ index' = index + 1 /\ outTotal' = outTotal /\ changeTotal' = changeTotal
    BY <1>6 DEF output_next, outs, At, Goto
  <2> QED
    BY <2>1, <1>b DEF OutValue
<1>7. CASE confirm_transaction /\ At' # "error"
  <2>1. At' = "sign_init"
    BY <1>7 DEF confirm_transaction, At, Goto, Fail, Show
  <2> QED
    BY <2>1 DEF OutValue
<1>8. CASE Sign
  <2>1. At' \in Ending \cup SignStages \cup {"error"}
    BY <1>8, SignStage
  <2> QED
    BY <2>1 DEF OutValue, Ending, SignStages, HashStages
<1>9. CASE (\E yes \in BOOLEAN : Press(yes)) /\ At' # "error"
  <2>1. At' = At
    BY <1>9, PressStage
  <2>2. index' = index /\ outTotal' = outTotal /\ changeTotal' = changeTotal
    BY <1>9 DEF Press, outs
  <2> QED
    BY <2>1, <2>2, <1>b DEF OutValue
<1>10. CASE ClientFails
  BY <1>10 DEF ClientFails, Fail, Goto, At, OutValue
<1>11. CASE Ended
  BY <1>11, <1>b DEF Ended, vars, outs, At, OutValue
<1> QED
  BY <1>0, <1>1, <1>2, <1>3, <1>4, <1>5, <1>6, <1>7, <1>8, <1>9, <1>10, <1>11, SMTT(30)
     DEF Next, Verify
-----------------------------------------------------------------------------
(* Approvals and signatures.                                                *)

\* An approval is not taken back.
LEMMA ApprovedKept == Next => approved \subseteq approved'
<1> SUFFICES ASSUME Next PROVE approved \subseteq approved'
  BY SMTT(30)
<1> USE DEF Goto, Fail, Show
<1>1. CASE Verify
  BY <1>1, ZenonT(40) DEF Verify, handler_sign_psbt, process_input_map, check_input_owned, NextInput,
    alert_external_inputs, verify_outputs_init, process_output_map, check_output_owned,
    output_validate_external, output_next, confirm_transaction
<1>2. CASE Sign
  BY <1>2 DEF Sign, sign_init, sign_process_input_map, sign_legacy,
    sign_legacy_compute_sighash, sign_segwit, sign_segwit_v0, sign_segwit_v1, SignAndYield,
    sign_sighash_ecdsa, sign_sighash_schnorr, finalize
<1>3. CASE \E yes \in BOOLEAN : Press(yes)
  BY <1>3 DEF Press
<1>4. CASE ClientFails \/ Ended
  BY <1>4 DEF ClientFails, Ended, vars
<1> QED
  BY <1>1, <1>2, <1>3, <1>4 DEF Next

\* Only the two signing processors yield a signature.
LEMMA NewSignature ==
  ASSUME Next, sigs' # sigs
  PROVE  proc \in {"sign_sighash_ecdsa", "sign_sighash_schnorr"}
<1> USE DEF signing
<1>1. ~Verify
  BY ZenonT(40) DEF Verify, handler_sign_psbt, process_input_map, check_input_owned,
    alert_external_inputs, verify_outputs_init, process_output_map, check_output_owned,
    output_validate_external, output_next, confirm_transaction
<1>2. ~(\E yes \in BOOLEAN : Press(yes))
  BY DEF Press
<1>3. ~ClientFails /\ ~Ended
  BY DEF ClientFails, Ended, vars
<1>4. Sign
  BY <1>1, <1>2, <1>3 DEF Next
<1> QED
  BY <1>4 DEF Sign, sign_init, sign_process_input_map, sign_legacy,
    sign_legacy_compute_sighash, sign_segwit, sign_segwit_v0, sign_segwit_v1,
    sign_sighash_ecdsa, sign_sighash_schnorr, finalize

\* The difference confirm_transaction computes is the fee.
LEMMA FeeIsExact ==
  ASSUME AmountsFit, RequestInv, InValue, OutValue, At = "confirm_transaction",
         inTotal >= outTotal
  PROVE  Fee = InputValue - OutputValue
<1>1. inTotal = InputValue /\ outTotal = OutputValue
  BY DEF InValue, OutValue, Counted
<1>2. /\ InputValue \in Nat /\ InputValue < AmountModulus
      /\ OutputValue \in Nat /\ OutputValue < AmountModulus
  <2>1. nInputs \in 0..nInputs /\ nOutputs \in 0..nOutputs
    BY RequestSize
  <2> QED
    BY <2>1, InputSums, OutputSums
<1>3. inTotal - outTotal \in Nat /\ inTotal - outTotal < AmountModulus
  BY <1>1, <1>2, ModulusAssumption
<1> QED
  BY <1>1, <1>3, NoWrap DEF Fee

\* Every step keeps FeeInv: the fee of confirm_transaction is the difference of
\* the two totals, and it is signed for only once its screen is approved.
LEMMA FeeStep ==
  ASSUME AmountsFit, RequestInv, InValue, OutValue, SigsInv, FeeInv, Next
  PROVE  FeeInv'
<1> USE DEF HashStages, SignStages, Ending, Confirmed
<1>1. SUFFICES ASSUME swap' = NoSwap PROVE FeeInv'
  BY DEF FeeInv
<1>2. swap = NoSwap /\ FeeScreen' = FeeScreen
  BY <1>1, NextSame, SameAmounts DEF Same
<1>3. ASSUME At' \in Confirmed PROVE FeeScreen \in Approving'
  <2>1. At' # "error"
    BY <1>3
  <2>2. CASE At \in Confirmed
    BY <2>1, <2>2, <1>2, ApprovingGrows DEF FeeInv
  <2>3. CASE At \notin Confirmed
    <3>1. CASE Verify
      <4>1. confirm_transaction
        <5>1. CASE handler_sign_psbt
          BY <1>3, <5>1 DEF handler_sign_psbt, At, Goto, Fail, Show
        <5>2. CASE output_validate_external
          BY <1>3, <5>2 DEF output_validate_external, At, Goto, Fail, Show
        <5> QED
          BY <1>3, <3>1, <5>1, <5>2, ZenonT(40) DEF Verify, process_input_map, check_input_owned,
            NextInput, alert_external_inputs, verify_outputs_init, process_output_map,
            check_output_owned, output_next, At, Goto, Fail
      <4>2. /\ At = "confirm_transaction" /\ inTotal >= outTotal
            /\ proc' = "paused" /\ screen'.what = [kind |-> "fee", fee |-> Fee]
        BY <1>2, <2>1, <4>1 DEF confirm_transaction, At, Goto, Fail, Show
      <4>3. Fee = InputValue - OutputValue
        BY <4>2, FeeIsExact
      <4> QED
        BY <4>2, <4>3, SMTT(30) DEF FeeScreen, Approving
    <3>2. CASE Sign
      <4>1. At \in {"sign_init", "finalize"} \cup SignStages
        BY <3>2, SignStage
      <4> QED
        BY <2>3, <4>1
    <3>3. CASE \E yes \in BOOLEAN : Press(yes)
      BY <1>3, <2>3, <3>3, PressStage
    <3>4. CASE ClientFails
      BY <1>3, <3>4 DEF ClientFails, Fail, Goto, At
    <3>5. CASE Ended
      BY <1>3, <2>3, <3>5 DEF Ended, vars, At
    <3> QED
      BY <3>1, <3>2, <3>3, <3>4, <3>5, SMTT(30) DEF Next
  <2> QED
    BY <2>2, <2>3
<1>4. ASSUME sigs' # <<>> PROVE FeeScreen \in approved'
  <2>1. FeeScreen \in approved
    <3>1. CASE sigs # <<>>
      BY <3>1, <1>2 DEF FeeInv
    <3>2. CASE sigs = <<>>
      <4>1. proc \in {"sign_sighash_ecdsa", "sign_sighash_schnorr"}
        BY <1>4, <3>2, NewSignature
      <4> QED
        BY <4>1, <1>2 DEF FeeInv, At, Approving
    <3> QED
      BY <3>1, <3>2
  <2> QED
    BY <2>1, ApprovedKept
<1> QED
  BY <1>2, <1>3, <1>4 DEF FeeInv
-----------------------------------------------------------------------------
(* Swaps: the one output that is not change is the requested payment.       *)

\* An output that is not a payment leaves the account of the payments as it was.
LEMMA PaidChange ==
  ASSUME NEW P, NEW m \in Nat, NEW outputs, NEW dest, NEW external, NEW left,
         PaidOnce(P, m, outputs, dest, external, left), m + 1 \notin P
  PROVE  PaidOnce(P, m + 1, outputs, dest, external, left)
<1>1. P \cap (1..(m + 1)) = P \cap (1..m)
  <2>1. 1..(m + 1) = (1..m) \cup {m + 1}
    OBVIOUS
  <2> QED
    BY <2>1
<1>2. 1..m \subseteq 1..(m + 1)
  OBVIOUS
<1> QED
  BY <1>1, <1>2, Zenon DEF PaidOnce

\* The first payment of a swap is the one payment so far.
LEMMA PaidFirst ==
  ASSUME NEW P, NEW m \in Nat, NEW outputs, NEW dest, P \cap (1..m) = {},
         outputs[m + 1].script = dest
  PROVE  PaidOnce(P, m + 1, outputs, dest, 1, outputs[m + 1].amount)
<1>1. 1..(m + 1) = (1..m) \cup {m + 1}
  OBVIOUS
<1>2. P \cap (1..(m + 1)) \subseteq {m + 1} /\ m + 1 \in 1..(m + 1)
  BY <1>1
<1> QED
  BY <1>2 DEF PaidOnce

\* What a swap asks for does not change while the command runs.
LEMMA SameSwap ==
  ASSUME Same
  PROVE  SwapMet' = SwapMet
<1>1. /\ nOutputs' = nOutputs /\ Payments' = Payments
      /\ InputValue' = InputValue /\ OutputValue' = OutputValue
  BY SameRequest, SameAmounts
<1> QED
  BY <1>1 DEF SwapMet, Same

\* A swap shows no screen: not the wallet's, because it must be a canonical one.
LEMMA SwapIsSilent ==
  ASSUME Next, swap # NoSwap, proc # "paused", approved = {}
  PROVE  proc' # "paused" /\ approved' = {}
<1> USE DEF Goto, Fail, Show
<1>1. CASE Verify
  BY <1>1, ZenonT(40) DEF Verify, handler_sign_psbt, process_input_map, check_input_owned, NextInput,
    alert_external_inputs, verify_outputs_init, process_output_map, check_output_owned,
    output_validate_external, output_next, confirm_transaction
<1>2. CASE Sign
  <2>1. CASE sign_process_input_map
    BY <2>1, ZenonT(20) DEF sign_process_input_map
  <2>2. CASE sign_segwit
    BY <2>2 DEF sign_segwit
  <2> QED
    BY <1>2, <2>1, <2>2, SMTT(30) DEF Sign, sign_init, sign_legacy, sign_legacy_compute_sighash,
      sign_segwit_v0, sign_segwit_v1, SignAndYield, sign_sighash_ecdsa,
      sign_sighash_schnorr, finalize
<1>3. ~(\E yes \in BOOLEAN : Press(yes))
  BY DEF Press
<1>4. CASE ClientFails \/ Ended
  BY <1>4, SMTT(30) DEF ClientFails, Ended, vars
<1> QED
  BY <1>1, <1>2, <1>3, <1>4, SMTT(30) DEF Next

\* What the loop over the outputs knows of them, step by step.
LEMMA SwapOutputs ==
  ASSUME AmountsFit, RequestInv, OutputsInv, OutValue, SwapInv, swap # NoSwap, At' # "error",
         \/ verify_outputs_init \/ process_output_map \/ check_output_owned
         \/ output_validate_external \/ output_next
  PROVE  /\ At' \in OutputStages \cup {"confirm_transaction"}
         /\ At' = "process_output_map" =>
              PaidOnce(Payments, index', psbt.outputs, swap.dest, extCount',
                       outTotal' - changeTotal')
         /\ At' = "check_output_owned" =>
              PaidOnce(Payments, index', psbt.outputs, swap.dest, extCount',
                       OutSums[index'] - changeTotal')
         /\ At' = "output_validate_external" /\ extCount' = 1 =>
              Payments \cap (1..index') = {} /\ changeTotal' = OutSums[index']
         /\ At' = "output_next" =>
              PaidOnce(Payments, index' + 1, psbt.outputs, swap.dest, extCount',
                       outTotal' - changeTotal')
         /\ At' = "confirm_transaction" =>
              PaidOnce(Payments, nOutputs, psbt.outputs, swap.dest, extCount',
                       outTotal' - changeTotal')
<1> USE DEF OutputStages
<1>a. /\ nOutputs \in Nat /\ OutSums[0] = 0
      /\ \A i \in 0..nOutputs - 1 :
           /\ psbt.outputs[i + 1].amount \in Nat
           /\ OutSums[i + 1] = OutSums[i] + psbt.outputs[i + 1].amount
      /\ \A i \in 0..nOutputs : OutSums[i] \in Nat /\ OutSums[i] < AmountModulus
  BY OutputSums, ZenonT(20)
<1>1. CASE verify_outputs_init
  <2>1. /\ At' = "process_output_map" /\ index' = 0 /\ extCount' = 0
        /\ outTotal' = 0 /\ changeTotal' = 0
    BY <1>1 DEF verify_outputs_init, At, Goto
  <2>2. PaidOnce(Payments, 0, psbt.outputs, swap.dest, 0, 0)
    BY SMTT(30) DEF PaidOnce
  <2> QED
    BY <2>1, <2>2
<1>2. CASE process_output_map
  <2>1. /\ At = "process_output_map" /\ index' = index /\ index \in 0..nOutputs
        /\ outTotal = OutSums[index] /\ extCount' = extCount /\ changeTotal' = changeTotal
        /\ PaidOnce(Payments, index, psbt.outputs, swap.dest, extCount,
                    outTotal - changeTotal)
    BY <1>2, ZenonT(20) DEF process_output_map, At, OutputsInv, OutValue, SwapInv
  <2>2. CASE index >= nOutputs
    <3>1. At' = "confirm_transaction" /\ index = nOutputs /\ outTotal' = outTotal
      <4>1. nOutputs \in Nat
        BY <1>a, Zenon
      <4>2. index = nOutputs
        BY <2>1, <2>2, <4>1
      <4> QED
        BY <1>2, <2>2, <4>2, OutputRound, Zenon
    <3> QED
      BY <2>1, <3>1, SMTT(30)
  <2>3. CASE index < nOutputs
    <3>1. At' = "check_output_owned"
      <4>1. nOutputs \in Nat
        BY <1>a, Zenon
      <4>2. ~(index >= nOutputs)
        BY <2>1, <2>3, <4>1
      <4> QED
        BY <1>2, <4>2, OutputRound, Zenon
    <3> QED
      BY <2>1, <3>1, SMTT(30)
  <2>4. index >= nOutputs \/ index < nOutputs
    <3>1. nOutputs \in Nat
      BY <1>a, Zenon
    <3> QED
      BY <2>1, <3>1
  <2> QED
    BY <2>2, <2>3, <2>4, Zenon
<1>3. CASE check_output_owned
  <2>1. /\ At = "check_output_owned" /\ index' = index /\ outTotal' = outTotal
        /\ index \in 0..nOutputs - 1 /\ index \in Nat
        /\ index \in 0..nOutputs /\ index + 1 \in 0..nOutputs
        /\ cur.amount = Output.amount /\ cur.script = Output.script
        /\ outTotal = OutSums[index + 1] /\ changeTotal \in 0..OutSums[index]
        /\ extCount \in Nat
        /\ PaidOnce(Payments, index, psbt.outputs, swap.dest, extCount,
                    OutSums[index] - changeTotal)
    <3>1. At = "check_output_owned" /\ index' = index /\ outTotal' = outTotal
      BY <1>3, Zenon DEF check_output_owned, At
    <3>2. extCount \in Nat /\ cur.amount = Output.amount /\ cur.script = Output.script
      BY <3>1, Zenon DEF OutputsInv
    <3>3. outTotal = OutSums[index + 1] /\ changeTotal \in 0..OutSums[index]
      BY <3>1, Zenon DEF OutValue
    <3>4. PaidOnce(Payments, index, psbt.outputs, swap.dest, extCount,
                   OutSums[index] - changeTotal)
      BY <3>1, Zenon DEF SwapInv
    <3>5. At \in OutputStages \ {"process_output_map"} /\ nOutputs \in Nat
      BY <1>a, <3>1, Zenon
    <3> QED
      BY <3>1, <3>2, <3>3, <3>4, <3>5, AtOutput, Zenon
  <2>2. /\ Output.amount \in Nat /\ OutSums[index + 1] = OutSums[index] + Output.amount
        /\ OutSums[index] \in Nat /\ OutSums[index + 1] < AmountModulus
    <3>1. /\ psbt.outputs[index + 1].amount \in Nat
          /\ OutSums[index + 1] = OutSums[index] + psbt.outputs[index + 1].amount
      BY <2>1, <1>a, Zenon
    <3>2. OutSums[index] \in Nat /\ OutSums[index + 1] < AmountModulus
      BY <2>1, <1>a, Zenon
    <3> QED  BY <3>1, <3>2, Zenon DEF Output
  <2>3. CASE IsInternal(Output.deriv, cur.script, FALSE)
    <3>1. /\ At' = "output_next" /\ extCount' = extCount
          /\ changeTotal' = Plus(changeTotal, cur.amount)
      BY <1>3, <2>3, ZenonT(40) DEF check_output_owned, At, Goto, Fail
    <3>2. changeTotal + Output.amount \in Nat /\ changeTotal + Output.amount < AmountModulus
      <4>1. /\ changeTotal \in 0..OutSums[index] /\ Output.amount \in Nat
            /\ OutSums[index] \in Nat /\ OutSums[index + 1] < AmountModulus
            /\ OutSums[index + 1] = OutSums[index] + Output.amount
        BY <2>1, <2>2, Zenon
      <4> QED
        BY <4>1, ModulusAssumption
    <3>3. changeTotal' = changeTotal + Output.amount
      <4>1. changeTotal' = (changeTotal + Output.amount) % AmountModulus
        BY <2>1, <3>1, Zenon DEF Plus
      <4> QED
        BY <3>2, <4>1, NoWrap, Zenon
    <3>4. outTotal' - changeTotal' = OutSums[index] - changeTotal
      BY <2>1, <2>2, <3>3, SMTT(30)
    <3>5. index + 1 \notin Payments
      BY <2>1, <2>3, ChangeIsNoPayment, SMTT(30)
    <3>6. PaidOnce(Payments, index + 1, psbt.outputs, swap.dest, extCount,
                   OutSums[index] - changeTotal)
      BY <2>1, <3>5, PaidChange, Zenon
    <3>7. PaidOnce(Payments, index' + 1, psbt.outputs, swap.dest, extCount',
                   outTotal' - changeTotal')
      BY <2>1, <3>1, <3>4, <3>6, Zenon
    <3> QED
      BY <3>1, <3>7
  <2>4. CASE ~IsInternal(Output.deriv, cur.script, FALSE)
    <3>1. /\ At' = "output_validate_external" /\ extCount' = extCount + 1
          /\ changeTotal' = changeTotal
      BY <1>3, <2>4, ZenonT(40) DEF check_output_owned, At, Goto, Fail
    <3>2. ASSUME extCount' = 1
          PROVE  Payments \cap (1..index) = {} /\ changeTotal = OutSums[index]
      <4>1. extCount = 0
        BY <2>1, <3>1, <3>2, SMTT(30)
      <4>2. Payments \cap (1..index) = {} /\ OutSums[index] - changeTotal = 0
        BY <2>1, <4>1, SMTT(30) DEF PaidOnce
      <4> QED
        BY <2>1, <2>2, <4>2, SMTT(90)
    <3>3. extCount' = 1 => Payments \cap (1..index') = {} /\ changeTotal' = OutSums[index']
      BY <2>1, <3>1, <3>2, Zenon
    <3> QED
      BY <3>1, <3>3
  <2> QED
    BY <2>3, <2>4, ZenonT(40)
<1>4. CASE output_validate_external
  <2>1. /\ At = "output_validate_external" /\ index' = index /\ extCount' = extCount
        /\ outTotal' = outTotal /\ changeTotal' = changeTotal
        /\ index \in 0..nOutputs - 1 /\ index \in Nat
        /\ extCount \in 1..(index + 1)
        /\ cur.script = Output.script /\ outTotal = OutSums[index + 1]
        /\ extCount = 1 => Payments \cap (1..index) = {} /\ changeTotal = OutSums[index]
    <3>1. /\ At = "output_validate_external" /\ index' = index /\ extCount' = extCount
          /\ outTotal' = outTotal /\ changeTotal' = changeTotal
      BY <1>4, Zenon DEF output_validate_external, outs, At
    <3>2. extCount \in 1..(index + 1) /\ cur.script = Output.script
      BY <3>1, Zenon DEF OutputsInv
    <3>3. outTotal = OutSums[index + 1]
      BY <3>1, Zenon DEF OutValue
    <3>4. extCount = 1 => Payments \cap (1..index) = {} /\ changeTotal = OutSums[index]
      BY <3>1, Zenon DEF SwapInv
    <3>5. At \in OutputStages \ {"process_output_map"} /\ nOutputs \in Nat
      BY <1>a, <3>1, Zenon
    <3> QED
      BY <3>1, <3>2, <3>3, <3>4, <3>5, AtOutput, Zenon
  <2>2. At' = "output_next" /\ Output.script = swap.dest
    <3>1. At' = "output_next" /\ cur.script = swap.dest
      BY <1>4, OutputAccepted, Zenon
    <3> QED
      BY <2>1, <3>1, Zenon
  <2>3. ASSUME extCount = 1
        PROVE  PaidOnce(Payments, index + 1, psbt.outputs, swap.dest, 1,
                        outTotal - changeTotal)
    <3>1. outTotal - changeTotal = psbt.outputs[index + 1].amount
      <4>1. index \in 0..nOutputs /\ OutSums[index] \in Nat
        BY <2>1, <1>a
      <4>2. /\ psbt.outputs[index + 1].amount \in Nat
            /\ outTotal = OutSums[index] + psbt.outputs[index + 1].amount
            /\ changeTotal = OutSums[index]
        BY <2>1, <2>3, <1>a, Zenon
      <4> QED
        BY <4>1, <4>2
    <3>2. psbt.outputs[index + 1].script = swap.dest
      BY <2>2 DEF Output
    <3> QED
      BY <2>1, <2>3, <3>1, <3>2, PaidFirst, ZenonT(40)
  <2>4. PaidOnce(Payments, index + 1, psbt.outputs, swap.dest, extCount,
                 outTotal - changeTotal)
    <3>1. CASE extCount = 1
      BY <2>3, <3>1
    <3>2. CASE extCount # 1
      <4>1. extCount # 0
        BY <2>1
      <4> QED
        BY <3>2, <4>1 DEF PaidOnce
    <3> QED
      BY <3>1, <3>2
  <2>5. PaidOnce(Payments, index' + 1, psbt.outputs, swap.dest, extCount',
                 outTotal' - changeTotal')
    BY <2>1, <2>4, Zenon
  <2> QED
    BY <2>2, <2>5
<1>5. CASE output_next
  <2>1. /\ At = "output_next" /\ At' = "process_output_map"
        /\ index' = index + 1 /\ extCount' = extCount
        /\ outTotal' = outTotal /\ changeTotal' = changeTotal
    BY <1>5 DEF output_next, outs, Goto, At
  <2> QED
    BY <2>1 DEF SwapInv
<1> QED
  BY <1>1, <1>2, <1>3, <1>4, <1>5, ZenonT(20)

\* confirm_transaction accepts a swap only if the totals are the requested ones.
LEMMA SwapConfirmed ==
  ASSUME AmountsFit, RequestInv, InValue, OutValue, SwapInv, swap # NoSwap,
         confirm_transaction, At' # "error"
  PROVE  At' = "sign_init" /\ SwapMet
<1>1. /\ At = "confirm_transaction" /\ At' = "sign_init"
      /\ inTotal >= outTotal /\ SwapTotalsMatch
  BY DEF confirm_transaction, At, Goto, Fail, Show
<1>2. outTotal = OutputValue /\ changeTotal \in 0..outTotal
  BY <1>1 DEF OutValue
<1>3. outTotal \in Nat /\ outTotal < AmountModulus
  <2>1. nOutputs \in 0..nOutputs
    BY RequestSize
  <2> QED
    BY <1>2, <2>1, OutputSums
<1>4. (outTotal - changeTotal) % AmountModulus = outTotal - changeTotal
  <2>1. outTotal - changeTotal \in Nat /\ outTotal - changeTotal < AmountModulus
    BY <1>2, <1>3, ModulusAssumption
  <2> QED
    BY <2>1, NoWrap
<1>5. /\ extCount = 1 /\ swap.amount = outTotal - changeTotal
      /\ InputValue - OutputValue = swap.fees
  BY <1>1, <1>4, FeeIsExact DEF SwapTotalsMatch
<1>6. PaidOnce(Payments, nOutputs, psbt.outputs, swap.dest, 1, swap.amount)
  BY <1>1, <1>5 DEF SwapInv
<1>7. Payments \cap (1..nOutputs) = Payments
  BY DEF Payments
<1> QED
  BY <1>1, <1>5, <1>6, <1>7, SMTT(30) DEF PaidOnce, SwapMet

\* Every step keeps SwapInv: in a swap, output_validate_external and
\* confirm_transaction compare the one payment and the fee with the request.
LEMMA SwapStep ==
  ASSUME AmountsFit, RequestInv, OutputsInv, InValue, OutValue, SigsInv, SwapInv, Next
  PROVE  SwapInv'
<1> USE DEF InputStages, OutputStages, HashStages, SignStages, Ending, Confirmed
<1>1. SUFFICES ASSUME swap' # NoSwap PROVE SwapInv'
  BY ZenonT(20) DEF SwapInv
<1>2. /\ swap' = swap /\ psbt' = psbt /\ nOutputs' = nOutputs /\ Payments' = Payments
      /\ OutSums' = OutSums /\ SwapMet' = SwapMet /\ swap # NoSwap
  BY <1>1, NextSame, SameRequest, SameAmounts, SameSwap, SMTT(30) DEF Same
<1>3. proc' # "paused" /\ approved' = {}
  BY <1>2, SwapIsSilent DEF SwapInv
<1>4. ASSUME sigs' # <<>> PROVE SwapMet
  <2>1. CASE sigs # <<>>
    BY <2>1, <1>2, SMTT(30) DEF SwapInv
  <2>2. CASE sigs = <<>>
    <3>1. proc \in {"sign_sighash_ecdsa", "sign_sighash_schnorr"}
      BY <1>4, <2>2, NewSignature, SMTT(30)
    <3> QED
      BY <3>1, <1>2 DEF SwapInv, At
  <2> QED
    BY <2>1, <2>2
<1>5. ASSUME At' \notin OutputStages \cup {"confirm_transaction"},
             At' \in Confirmed => SwapMet
      PROVE  SwapInv'
  BY <1>2, <1>3, <1>4, <1>5 DEF SwapInv
<1>0. CASE At' = "error"
  BY <1>0, <1>5
<1>6. CASE (handler_sign_psbt \/ process_input_map \/ check_input_owned
            \/ alert_external_inputs) /\ At' # "error"
  <2>1. At' \in InputStages \cup {"alert_external_inputs", "verify_outputs_init"}
    <3>1. CASE handler_sign_psbt
      BY <1>6, <3>1, SMTT(30) DEF handler_sign_psbt, At, Goto, Fail, Show
    <3> QED
      BY <1>6, <3>1, ZenonT(40) DEF process_input_map, check_input_owned, NextInput,
        alert_external_inputs, At, Goto, Fail
  <2> QED
    BY <2>1, <1>5, SMTT(30)
<1>7. CASE (\/ verify_outputs_init \/ process_output_map \/ check_output_owned
            \/ output_validate_external \/ output_next) /\ At' # "error"
  <2>1. At' \in OutputStages \cup {"confirm_transaction"}
    BY <1>7, <1>2, SwapOutputs
  <2>2. At' \notin Confirmed
    BY <2>1
  <2> HIDE DEF InputStages, OutputStages, HashStages, SignStages, Ending, Confirmed
  <2> QED
    BY <1>7, <1>2, <1>3, <1>4, <2>2, SwapOutputs, ZenonT(20) DEF SwapInv
<1>8. CASE confirm_transaction /\ At' # "error"
  <2>1. At' = "sign_init" /\ SwapMet
    BY <1>8, <1>2, SwapConfirmed
  <2> QED
    BY <2>1, <1>5
<1>9. CASE Sign
  <2>1. /\ At \in {"sign_init", "finalize"} \cup SignStages
        /\ At' \in Ending \cup SignStages \cup {"error"}
    BY <1>9, SignStage, SMTT(30)
  <2>2. SwapMet
    BY <2>1, <1>2, SMTT(30) DEF SwapInv
  <2> QED
    BY <2>1, <2>2, <1>5
<1>10. ~(\E yes \in BOOLEAN : Press(yes))
  BY <1>2 DEF Press, SwapInv
<1>11. CASE ClientFails
  <2>1. At' = "error"
    BY <1>11, SMTT(30) DEF ClientFails, Fail, Goto, At
  <2> QED
    BY <2>1, <1>0
<1>12. CASE Ended
  <2>1. At' = At /\ At \in {"ok", "error"}
    BY <1>12 DEF Ended, vars, At
  <2> QED
    BY <2>1, <1>2, <1>5, ZenonT(20) DEF SwapInv
<1> QED
  BY <1>0, <1>6, <1>7, <1>8, <1>9, <1>10, <1>11, <1>12, SMTT(30) DEF Next, Verify

-----------------------------------------------------------------------------
(* The theorems.                                                            *)

\* The totals of the code are those of the PSBT up to the cursor, in every state.
THEOREM ValueInvariant ==
  ASSUME AmountsFit
  PROVE  Spec => [](IInv /\ ValueInv)
<1>1. Init => ValueInv
  <2> SUFFICES ASSUME Init PROVE ValueInv
    OBVIOUS
  <2>1. At = "handler_sign_psbt" /\ sigs = <<>> /\ proc # "paused" /\ approved = {}
    BY DEF Init, At
  <2> QED
    BY <2>1 DEF ValueInv, InValue, OutValue, SwapInv, FeeInv, Counted, Confirmed,
      OutputStages, SignStages, HashStages, Ending
<1>2. IInv /\ ValueInv /\ [Next]_vars => ValueInv'
  <2> SUFFICES ASSUME IInv, ValueInv, [Next]_vars PROVE ValueInv'
    OBVIOUS
  <2>1. CASE Next
    BY <2>1, InValueStep, OutValueStep, SwapStep, FeeStep, SMTT(30) DEF IInv, ValueInv
  <2>2. CASE UNCHANGED vars
    <3>1. Same
      BY <2>2 DEF Same, vars, request
    <3>2. /\ nOutputs' = nOutputs /\ Payments' = Payments /\ InSums' = InSums
          /\ OutSums' = OutSums /\ InputValue' = InputValue /\ OutputValue' = OutputValue
          /\ FeeScreen' = FeeScreen /\ SwapMet' = SwapMet
      BY <3>1, SameRequest, SameAmounts, SameSwap, SMTT(30)
    <3>3. At' = At /\ Approving' = Approving
      BY <2>2, SMTT(30) DEF vars, At, Approving
    <3>4. InValue' /\ OutValue'
      BY <2>2, <3>2, <3>3, SMTT(30) DEF ValueInv, InValue, OutValue, vars, outs
    <3>5. SwapInv'
      BY <2>2, <3>2, <3>3, ZenonT(20) DEF ValueInv, SwapInv, vars, outs, request, signing
    <3>6. FeeInv'
      BY <2>2, <3>2, <3>3 DEF ValueInv, FeeInv, vars, request, signing
    <3> QED
      BY <3>4, <3>5, <3>6 DEF ValueInv
  <2> QED
    BY <2>1, <2>2
<1> QED
  BY ChainInvariant, <1>1, <1>2, PTL DEF Spec

\* Before the first signature leaves the device the user has approved a fee that is
\* what the inputs are worth less what the outputs are: for any number of inputs
\* and outputs, the amount of each input counted once by process_input_map although
\* sign_segwit reads it again from another field.
THEOREM FeeIsApproved ==
  ASSUME AmountsFit
  PROVE  Spec => []FeeApproved
<1>1. ValueInv => FeeApproved
  BY SMTT(30) DEF ValueInv, FeeInv, FeeApproved, FeeScreen
<1> QED
  BY ValueInvariant, <1>1, PTL

\* A swap is signed only if it pays the requested amount to the requested address,
\* with the requested fee and nobody else, and no screen is shown: although
\* confirm_transaction compares only the number of external outputs and the totals.
THEOREM SwapIsAsRequested ==
  ASSUME AmountsFit
  PROVE  Spec => []SwapAsRequested
<1>1. ValueInv => SwapAsRequested
  BY ZenonT(20) DEF ValueInv, SwapInv, SwapMet, SwapAsRequested
<1> QED
  BY ValueInvariant, <1>1, PTL
=============================================================================
