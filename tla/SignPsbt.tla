------------------------------ MODULE SignPsbt ------------------------------
(***************************************************************************)
(* The SIGN_PSBT command: its chain of processors over one PSBT, one wallet *)
(* policy and, when the app is called by the exchange app, one swap        *)
(* request.  One action per processor; every step of `proc' is an exit     *)
(* that AppFlows lists for the processor (FollowsFlows).                   *)
(*                                                                         *)
(* The client answers truthfully from the PSBT it committed to.  A client  *)
(* command that fails, and a mandatory field that is absent, end the       *)
(* processor with an error: ClientFails.  A script is its kind and, for a  *)
(* script of the wallet, the derivation step it belongs to.                *)
(***************************************************************************)
EXTENDS Integers, Sequences, FiniteSets, Functions

CONSTANTS
  Requests,       \* the [psbt, wallet, swap] the command may be called with
  NoUtxo, NoDeriv, NoScript, NoSwap, NoHashes, None,
  MaxInputs,      \* MAX_N_INPUTS_CAN_SIGN
  MaxChange,      \* the limit on change outputs in confirm_transaction
  AmountModulus   \* amounts are uint64_t

\* A PSBT is two lists; the derivations have a change step of 0 or 1.
ASSUME RequestsAssumption ==
  \A r \in Requests :
    /\ r.psbt.inputs \in Seq(Range(r.psbt.inputs))
    /\ r.psbt.outputs \in Seq(Range(r.psbt.outputs))
    /\ \A i \in 1..Len(r.psbt.inputs) :
         r.psbt.inputs[i].deriv # NoDeriv => r.psbt.inputs[i].deriv.change \in {0, 1}
ASSUME ModulusAssumption == AmountModulus \in Nat \ {0}

MixedInputs == TRUE
Flows == INSTANCE AppFlows

VARIABLES
  psbt, wallet, swap,    \* the request
  proc,                  \* the processor to run, "paused", "ok" or "error"
  screen,                \* when paused: the processor on approval, what is shown
  index,                 \* cur_input_index / cur_output_index, a union
  cur,                   \* state->cur: amount and scriptPubKey
  path,                  \* state->cur.input.change, .address_index
  internal,              \* the internal_inputs bitvector, as a set
  inTotal, outTotal, changeTotal,   \* *_total_value
  extCount, changeCount,
  hashes, sighash,
  sigs,                  \* the signatures yielded to the client
  approved               \* history: what the user has approved

request == <<psbt, wallet, swap>>
outs    == <<outTotal, changeTotal, extCount, changeCount>>
signing == <<path, hashes, sighash, sigs>>
vars    == <<request, proc, screen, index, cur, internal, inTotal, outs, signing,
             approved>>

Init ==
  /\ \E r \in Requests : psbt = r.psbt /\ wallet = r.wallet /\ swap = r.swap
  /\ proc = "handler_sign_psbt" /\ screen = None
  /\ index = 0 /\ cur = None /\ path = None /\ internal = {}
  /\ inTotal = 0 /\ outTotal = 0 /\ changeTotal = 0
  /\ extCount = 0 /\ changeCount = 0
  /\ hashes = NoHashes /\ sighash = None /\ sigs = <<>> /\ approved = {}

Cleared == [amount |-> 0, script |-> NoScript]   \* the memset of state->cur

Goto(p) == proc' = p /\ UNCHANGED <<screen, approved>>
Fail    == Goto("error")
Show(p, what) ==
  /\ proc' = "paused" /\ screen' = [next |-> p, what |-> what]
  /\ UNCHANGED approved

Plus(a, b) == (a + b) % AmountModulus
nInputs    == Len(psbt.inputs)
nOutputs   == Len(psbt.outputs)
Input      == psbt.inputs[index + 1]
Output     == psbt.outputs[index + 1]

-----------------------------------------------------------------------------
(* Scripts and ownership.                                                   *)

Untyped == {"op_return", "nonstandard"}   \* get_script_type returns -1

\* get_segwit_version of a script kind.
SegwitVersion(kind) ==
  IF kind \in {"p2wpkh", "p2wsh"} THEN 0
  ELSE IF kind = "p2tr" THEN 1
  ELSE IF kind = "future_segwit" THEN 2 ELSE -1

\* call_get_wallet_script takes the change step as a bool.
WalletScript(change, addressIndex) ==
  [kind |-> wallet.kind, of |-> "wallet",
   at |-> <<IF change = 0 THEN 0 ELSE 1, addressIndex>>]

\* The PSBT field that is_in_out_internal looks the derivation up in.
DerivationField(kind) == IF kind = "p2tr" THEN "tap" ELSE "bip32"

\* The results -1 and 1 of is_in_out_internal; it is 0 otherwise.
Unreadable(deriv, script) ==
  /\ deriv # NoDeriv
  /\ \/ script.kind \in Untyped
     \/ /\ script.kind # "future_segwit"
        /\ deriv.field # DerivationField(script.kind) \/ deriv.form = "malformed"
\* Mutant: the script is not compared with the wallet's.
IsInternalByPath(deriv, script, isInput) ==
  /\ deriv # NoDeriv /\ deriv.form = "full"
  /\ isInput \/ deriv.change = 1
IsInternal(deriv, script, isInput) ==
  /\ deriv # NoDeriv /\ script.kind \notin Untyped \cup {"future_segwit"}
  /\ deriv.form = "full"
  /\ isInput \/ deriv.change = 1
  /\ wallet.form = "canonical" => deriv.standard /\ deriv.change \in {0, 1}
  /\ script = WalletScript(deriv.change, deriv.index)

\* get_amount_scriptpubkey_from_psbt: the witness UTXO first.
EitherUtxo(input) == IF input.wit # NoUtxo THEN input.wit ELSE input.nonWit

-----------------------------------------------------------------------------
(* The request.                                                             *)

handler_sign_psbt ==
  /\ proc = "handler_sign_psbt"
  /\ inTotal' = 0 /\ internal' = {} /\ index' = 0
  /\ IF \/ nInputs > MaxInputs
        \/ wallet.form = "refused"   \* wrong hmac, or none and not canonical
        \/ swap # NoSwap /\ wallet.form # "canonical"
     THEN Fail
     ELSE IF wallet.form = "canonical" THEN Goto("process_input_map")
     ELSE Show("process_input_map", [kind |-> "wallet"])
  /\ UNCHANGED <<request, cur, outs, signing>>

-----------------------------------------------------------------------------
(* Inputs.                                                                  *)

UtxosAgree(input) ==
  input.nonWit # NoUtxo /\ input.wit # NoUtxo =>
    /\ input.nonWit.script = input.wit.script
    /\ input.nonWit.amount = input.wit.amount

\* Mutant: the two fields are not compared.
UtxosUsableUncompared(input) ==
  /\ input.nonWit # NoUtxo \/ input.wit # NoUtxo
  /\ input.nonWit # NoUtxo => input.nonWit.txidMatches

\* The checks of process_input_map.  When the two fields disagree the code goes on
\* after sending the error; the dispatcher then stops the command.
UtxosUsable(input) ==
  /\ input.nonWit # NoUtxo \/ input.wit # NoUtxo
  /\ input.nonWit # NoUtxo => input.nonWit.txidMatches
  /\ UtxosAgree(input)

ReadInput(utxo) ==
  /\ cur' = [amount |-> utxo.amount, script |-> utxo.script]
  /\ inTotal' = Plus(inTotal, utxo.amount)

process_input_map ==
  /\ proc = "process_input_map"
  /\ \/ index >= nInputs /\ Goto("alert_external_inputs") /\ UNCHANGED <<cur, inTotal>>
     \/ /\ index < nInputs /\ UtxosUsable(Input)
        /\ ReadInput(IF Input.nonWit # NoUtxo THEN Input.nonWit ELSE Input.wit)
        /\ Goto("check_input_owned")
     \/ /\ index < nInputs /\ ~UtxosUsable(Input)
        /\ Fail /\ cur' = Cleared /\ UNCHANGED inTotal
  /\ UNCHANGED <<request, index, internal, outs, signing>>

\* The UTXO fields an internal input must have.
HasNeededUtxos(input, script) ==
  /\ SegwitVersion(script.kind) \in {-1, 0} => input.nonWit # NoUtxo
  /\ SegwitVersion(script.kind) >= 0 => input.wit # NoUtxo

\* Mutant: the index is not advanced.
NextInputStuck == UNCHANGED index /\ Goto("process_input_map")
NextInput == index' = index + 1 /\ Goto("process_input_map")

check_input_owned ==
  /\ proc = "check_input_owned"
  /\ \/ /\ Unreadable(Input.deriv, cur.script)
        /\ Fail /\ UNCHANGED <<index, internal>>
     \/ /\ ~Unreadable(Input.deriv, cur.script)
        /\ IsInternal(Input.deriv, cur.script, TRUE)
        /\ internal' = internal \cup {index}
        /\ IF HasNeededUtxos(Input, cur.script) THEN NextInput
           ELSE Fail /\ UNCHANGED index
     \/ /\ ~Unreadable(Input.deriv, cur.script)
        /\ ~IsInternal(Input.deriv, cur.script, TRUE)
        /\ NextInput /\ UNCHANGED internal
  /\ UNCHANGED <<request, cur, inTotal, outs, signing>>

\* With own and external inputs the warning does not pause the dispatcher, which
\* answers SW_BAD_STATE: for the client the command has failed.
alert_external_inputs ==
  /\ proc = "alert_external_inputs"
  /\ IF internal = 0..nInputs - 1 THEN Goto("verify_outputs_init") ELSE Fail
  /\ UNCHANGED <<request, index, cur, internal, inTotal, outs, signing>>

-----------------------------------------------------------------------------
(* Outputs.                                                                 *)

\* Mutant: cur_output_index, the same memory as cur_input_index, is not reset.
OutputsFromCursor ==
  /\ proc = "verify_outputs_init"
  /\ outTotal' = 0 /\ changeTotal' = 0 /\ changeCount' = 0 /\ extCount' = 0
  /\ Goto("process_output_map")
  /\ UNCHANGED <<request, index, cur, internal, inTotal, signing>>

verify_outputs_init ==
  /\ proc = "verify_outputs_init"
  /\ outTotal' = 0 /\ changeTotal' = 0 /\ changeCount' = 0 /\ extCount' = 0
  /\ index' = 0
  /\ Goto("process_output_map")
  /\ UNCHANGED <<request, cur, internal, inTotal, signing>>

process_output_map ==
  /\ proc = "process_output_map"
  /\ IF index >= nOutputs
     THEN Goto("confirm_transaction") /\ UNCHANGED <<cur, outTotal>>
     ELSE /\ cur' = [amount |-> Output.amount, script |-> Output.script]
          /\ outTotal' = Plus(outTotal, Output.amount)
          /\ Goto("check_output_owned")
  /\ UNCHANGED <<request, index, internal, inTotal, changeTotal, extCount,
                 changeCount, signing>>

check_output_owned ==
  /\ proc = "check_output_owned"
  /\ \/ /\ Unreadable(Output.deriv, cur.script)
        /\ Fail /\ UNCHANGED <<changeTotal, extCount, changeCount>>
     \/ /\ ~Unreadable(Output.deriv, cur.script)
        /\ ~IsInternal(Output.deriv, cur.script, FALSE)
        /\ extCount' = extCount + 1
        /\ Goto("output_validate_external")
        /\ UNCHANGED <<changeTotal, changeCount>>
     \/ /\ ~Unreadable(Output.deriv, cur.script)
        /\ IsInternal(Output.deriv, cur.script, FALSE)
        /\ changeTotal' = Plus(changeTotal, cur.amount)
        /\ changeCount' = changeCount + 1
        /\ Goto("output_next")
        /\ UNCHANGED extCount
  /\ UNCHANGED <<request, index, cur, internal, inTotal, outTotal, signing>>

\* What ui_validate_output displays.
OutputScreen(n, script, amount) ==
  [kind |-> "output", n |-> n, script |-> script, amount |-> amount]

HasAddress(script) == script.kind \notin Untyped

\* Mutant: in a swap the address is not compared.
SwapOutputAny == HasAddress(cur.script)
SwapOutputMatches == HasAddress(cur.script) /\ cur.script = swap.dest

output_validate_external ==
  /\ proc = "output_validate_external"
  /\ \/ cur.script.kind = "nonstandard" /\ Fail
     \/ /\ cur.script.kind # "nonstandard" /\ swap = NoSwap
        /\ Show("output_next", OutputScreen(extCount, cur.script, cur.amount))
     \/ /\ cur.script.kind # "nonstandard" /\ swap # NoSwap
        /\ IF SwapOutputMatches THEN Goto("output_next") ELSE Fail
  /\ UNCHANGED <<request, index, cur, internal, inTotal, outs, signing>>

output_next ==
  /\ proc = "output_next"
  /\ index' = index + 1
  /\ Goto("process_output_map")
  /\ UNCHANGED <<request, cur, internal, inTotal, outs, signing>>

\* Mutant: the fee leaves the change out.
FeeWithChange == (inTotal - changeTotal) % AmountModulus
Fee == (inTotal - outTotal) % AmountModulus

SwapTotalsMatch ==
  /\ extCount = 1
  /\ Fee = swap.fees
  /\ (outTotal - changeTotal) % AmountModulus = swap.amount

confirm_transaction ==
  /\ proc = "confirm_transaction"
  /\ \/ (inTotal < outTotal \/ changeCount > MaxChange) /\ Fail
     \/ /\ inTotal >= outTotal /\ changeCount <= MaxChange
        /\ \/ swap = NoSwap /\ Show("sign_init", [kind |-> "fee", fee |-> Fee])
           \/ /\ swap # NoSwap
              /\ IF SwapTotalsMatch THEN Goto("sign_init") ELSE Fail
  /\ UNCHANGED <<request, index, cur, internal, inTotal, outs, signing>>

-----------------------------------------------------------------------------
(* Signing.                                                                 *)

\* The wallet's own key is looked for among its keys.
sign_init ==
  /\ proc = "sign_init"
  /\ IF wallet.ours
     THEN hashes' = NoHashes /\ index' = 0 /\ Goto("sign_process_input_map")
     ELSE Fail /\ UNCHANGED <<hashes, index>>
  /\ UNCHANGED <<request, cur, internal, inTotal, outs, path, sighash, sigs>>

\* The next internal input from cur_input_index on, or n_inputs.
NextInternal ==
  LET rest == {i \in internal : i >= index}
  IN IF rest = {} THEN nInputs ELSE CHOOSE i \in rest : \A j \in rest : i <= j

\* SIGHASH_ALL, and a derivation in the field that the policy's type calls for.
CanSign(input) ==
  /\ input.sighash \in {"absent", "all"}
  /\ input.deriv # NoDeriv
  /\ input.deriv.field = DerivationField(wallet.kind) /\ input.deriv.form = "full"

sign_process_input_map ==
  /\ proc = "sign_process_input_map"
  /\ index' = NextInternal
  /\ \/ index' >= nInputs /\ Goto("finalize") /\ UNCHANGED <<cur, path>>
     \/ /\ index' < nInputs
        /\ cur' = Cleared
        /\ LET input == psbt.inputs[index' + 1]
           IN \/ ~CanSign(input) /\ Fail /\ UNCHANGED path
              \/ /\ CanSign(input)
                 /\ path' = <<input.deriv.change, input.deriv.index>>
                 /\ Goto(IF input.wit = NoUtxo THEN "sign_legacy" ELSE "sign_segwit")
  /\ UNCHANGED <<request, internal, inTotal, outs, hashes, sighash, sigs>>

sign_legacy ==
  /\ proc = "sign_legacy"
  /\ IF Input.nonWit = NoUtxo THEN Fail /\ UNCHANGED cur
     ELSE /\ cur' = [cur EXCEPT !.script = Input.nonWit.script]
          /\ Goto("sign_legacy_compute_sighash")
  /\ UNCHANGED <<request, index, internal, inTotal, outs, signing>>

sign_legacy_compute_sighash ==
  /\ proc = "sign_legacy_compute_sighash"
  /\ sighash' = [alg |-> "legacy",
                 code |-> IF Input.redeem = NoScript THEN cur.script ELSE Input.redeem]
  /\ Goto("sign_sighash_ecdsa")
  /\ UNCHANGED <<request, index, cur, internal, inTotal, outs, path, hashes, sigs>>

\* The script that is executed: the redeem script of a wrapped input.
SegwitScript(input) == IF input.redeem = NoScript THEN input.wit.script ELSE input.redeem
RedeemScriptMatches(input) ==
  input.redeem # NoScript => input.redeem.hashesTo = input.wit.script

\* sha_amounts; the other hashes are functions of the PSBT alone.
TransactionHashes == [i \in 1..nInputs |-> EitherUtxo(psbt.inputs[i]).amount]

sign_segwit ==
  /\ proc = "sign_segwit"
  /\ inTotal' = Plus(inTotal, Input.wit.amount)
  /\ LET version == SegwitVersion(SegwitScript(Input).kind)
         refused == ~RedeemScriptMatches(Input) \/ version > 1
     IN /\ cur' = [cur EXCEPT !.script = SegwitScript(Input)]
        /\ hashes' = IF refused \/ hashes # NoHashes THEN hashes ELSE TransactionHashes
        /\ IF refused \/ version = -1 THEN Fail
           ELSE Goto(IF version = 0 THEN "sign_segwit_v0" ELSE "sign_segwit_v1")
  /\ UNCHANGED <<request, index, internal, outs, path, sighash, sigs>>

sign_segwit_v0 ==
  /\ proc = "sign_segwit_v0"
  /\ IF cur.script.kind = "p2wsh" /\ ~Input.witnessScriptMatches
     THEN Fail /\ UNCHANGED sighash
     ELSE /\ sighash' = [alg |-> "v0", code |-> cur.script, amount |-> Input.wit.amount]
          /\ Goto("sign_sighash_ecdsa")
  /\ UNCHANGED <<request, index, cur, internal, inTotal, outs, path, hashes, sigs>>

\* Mutant: the sighash goes to the ECDSA signer.
SegwitV1ToEcdsa ==
  /\ proc = "sign_segwit_v1"
  /\ sighash' = [alg |-> "v1", amounts |-> hashes]
  /\ Goto("sign_sighash_ecdsa")
  /\ UNCHANGED <<request, index, cur, internal, inTotal, outs, path, hashes, sigs>>

sign_segwit_v1 ==
  /\ proc = "sign_segwit_v1"
  /\ sighash' = [alg |-> "v1", amounts |-> hashes]
  /\ Goto("sign_sighash_schnorr")
  /\ UNCHANGED <<request, index, cur, internal, inTotal, outs, path, hashes, sigs>>

\* The key is derived at path; the signature is yielded with the input's index.
SignAndYield(algs) ==
  /\ sighash.alg \in algs
  /\ sigs' = Append(sigs, [input |-> index, path |-> path, hash |-> sighash])
  /\ index' = index + 1
  /\ Goto("sign_process_input_map")
  /\ UNCHANGED <<request, cur, internal, inTotal, outs, path, hashes, sighash>>

sign_sighash_ecdsa ==
  proc = "sign_sighash_ecdsa" /\ SignAndYield({"legacy", "v0"})

\* Mutant: the signature is yielded before the index is advanced, and again.
SchnorrTwice ==
  /\ proc = "sign_sighash_schnorr"
  /\ sigs' = Append(sigs, [input |-> index, path |-> path, hash |-> sighash])
  /\ Goto(IF Len(sigs) > 0 THEN "finalize" ELSE "sign_process_input_map")
  /\ UNCHANGED <<request, index, cur, internal, inTotal, outs, path, hashes, sighash>>

sign_sighash_schnorr ==
  proc = "sign_sighash_schnorr" /\ SignAndYield({"v1"})

finalize ==
  /\ proc = "finalize"
  /\ Goto("ok")
  /\ UNCHANGED <<request, index, cur, internal, inTotal, outs, signing>>

-----------------------------------------------------------------------------
(* The user and the client.                                                 *)

Press(yes) ==
  /\ proc = "paused"
  /\ proc' = IF yes THEN screen.next ELSE "error"
  /\ approved' = IF yes THEN approved \cup {screen.what} ELSE approved
  /\ UNCHANGED <<request, screen, index, cur, internal, inTotal, outs, signing>>

ClientFails ==
  /\ proc \in Flows!AppAsking
  /\ Fail
  /\ UNCHANGED <<request, index, cur, internal, inTotal, outs, signing>>

Ended == proc \in {"ok", "error"} /\ UNCHANGED vars

Verify == \/ handler_sign_psbt
          \/ process_input_map \/ check_input_owned \/ alert_external_inputs
          \/ verify_outputs_init \/ process_output_map \/ check_output_owned
          \/ output_validate_external \/ output_next \/ confirm_transaction
Sign == \/ sign_init \/ sign_process_input_map
        \/ sign_legacy \/ sign_legacy_compute_sighash
        \/ sign_segwit \/ sign_segwit_v0 \/ sign_segwit_v1
        \/ sign_sighash_ecdsa \/ sign_sighash_schnorr \/ finalize

Next == \/ Verify \/ Sign
        \/ \E yes \in BOOLEAN : Press(yes)
        \/ ClientFails \/ Ended

Spec == Init /\ [][Next]_vars

\* The dispatcher runs every next processor; the user answers every screen.
FairSpec == /\ Spec
            /\ WF_vars(Verify \/ Sign) /\ WF_vars(\E yes \in BOOLEAN : Press(yes))

-----------------------------------------------------------------------------
(* What the PSBT says, independently of the processors.                     *)

\* The UTXO an input spends: the transaction itself is the better evidence.
TrueUtxo(i) == LET input == psbt.inputs[i + 1]
               IN IF input.nonWit # NoUtxo THEN input.nonWit ELSE input.wit

\* What the inputs spend, counted once each, and what the outputs pay.
SpentAmount(input) == IF input.nonWit # NoUtxo THEN input.nonWit.amount
                      ELSE IF input.wit # NoUtxo THEN input.wit.amount ELSE 0
InputAmounts(p)  == [i \in 1..Len(p.inputs) |-> SpentAmount(p.inputs[i])]
OutputAmounts(p) == [i \in 1..Len(p.outputs) |-> p.outputs[i].amount]

\* The sums of the first n amounts.
RunningTotals(amounts) ==
  LET sum[n \in 0..Len(amounts)] == IF n = 0 THEN 0 ELSE sum[n - 1] + amounts[n]
  IN sum
Total(amounts) == RunningTotals(amounts)[Len(amounts)]
InputValue  == Total(InputAmounts(psbt))
OutputValue == Total(OutputAmounts(psbt))

\* The amounts are naturals and their totals fit in uint64_t, which the code does not
\* check: those of a valid transaction stay below 2^51.
AmountsFit ==
  \A r \in Requests : \A amounts \in {InputAmounts(r.psbt), OutputAmounts(r.psbt)} :
    amounts \in Seq(Nat) /\ Total(amounts) < AmountModulus

\* The outputs that do not pay to a change address of the wallet.
Payments == {i \in 1..nOutputs : LET s == psbt.outputs[i].script
                                 IN ~(s.of = "wallet" /\ s.at[1] = 1)}

\* Every step of the command is an exit that AppFlows gives its processor, so the
\* dispatcher's properties apply to it.  (AppFlows has no swap.)
FollowsFlows ==
  [][\/ proc = "paused" \/ swap # NoSwap
     \/ /\ proc \in Flows!AppProcessors
        /\ \E e \in Flows!AppExits[proc] :
             \/ proc' = e.next /\ e.sw = "none"
             \/ proc' = "paused" /\ e.pause /\ screen'.next = e.ask
             \/ proc' = e.sw]_proc

\* Before the first signature leaves the device the user has seen and approved,
\* each on a screen of its own number, every output that does not pay back to the
\* wallet's change addresses, and the name of the wallet if it is a registered
\* one; a swap shows nothing.
OutputsApproved ==
  sigs # <<>> /\ swap = NoSwap =>
    /\ \E number \in Injection(Payments, 1..nOutputs) : \A i \in Payments :
         OutputScreen(number[i], psbt.outputs[i].script, psbt.outputs[i].amount)
           \in approved
    /\ wallet.form = "registered" => [kind |-> "wallet"] \in approved

\* ... and the fee: what the inputs are worth less what the outputs are, each input
\* counted once although a segwit input has its amount in two fields.
FeeApproved ==
  sigs # <<>> /\ swap = NoSwap =>
    [kind |-> "fee", fee |-> InputValue - OutputValue] \in approved

\* A swap is signed only if it pays the requested amount to the requested address
\* with the requested fee, and nobody else.  (That address may be the wallet's own.)
SwapAsRequested ==
  sigs # <<>> /\ swap # NoSwap =>
    /\ \E i \in 1..nOutputs : /\ Payments \subseteq {i}
                              /\ psbt.outputs[i].script = swap.dest
                              /\ psbt.outputs[i].amount = swap.amount
    /\ InputValue - OutputValue = swap.fees
    /\ approved = {}

\* The amounts that the signatures commit to are the ones the fee was computed
\* from, although they are read again from another field of the PSBT.
SignedAmountsWereCounted ==
  \A k \in DOMAIN sigs :
    /\ sigs[k].hash.alg = "v0" => sigs[k].hash.amount = TrueUtxo(sigs[k].input).amount
    /\ sigs[k].hash.alg = "v1" =>
         \A i \in 1..nInputs : sigs[k].hash.amounts[i] = TrueUtxo(i - 1).amount

\* The command succeeds only after one signature for each input of the wallet, in
\* their order.
SignsEachInputOnce ==
  /\ proc = "ok" => {sigs[k].input : k \in DOMAIN sigs} = 0..nInputs - 1
  /\ \A k \in DOMAIN sigs : k > 1 => sigs[k - 1].input < sigs[k].input

\* The key that signs an input is the one its script was derived with
\* (doc/bitcoin.md:197, sign_psbt.c:100-101).
SignsWithOwnKey ==
  \A k \in DOMAIN sigs : LET s == TrueUtxo(sigs[k].input).script
                          IN s.of = "wallet" /\ s.at = sigs[k].path

\* The command ends: every loop over inputs and outputs advances.
Ends == <>(proc \in {"ok", "error"})
=============================================================================
