------------------------------ MODULE AppFlows ------------------------------
(***************************************************************************)
(* How the processors of the app's six commands can end, as the dispatcher *)
(* sees it: the processor handed to dc->next, the one handed to a ui_*     *)
(* function, whether that function pauses the dispatcher, and the final    *)
(* status word.  Each operator is named after its C function and collects  *)
(* the return paths of it; every check that fails is the one exit Error.   *)
(* The app runs on its own here, not called by the exchange app.           *)
(***************************************************************************)
EXTENDS TLC

CONSTANTS None,
          MixedInputs   \* may a PSBT spend both the wallet's and other inputs?

Leave(next, ask, pause, sw) ==
  [next |-> next, ask |-> ask, pause |-> pause, sw |-> sw]

Goto(p)      == Leave(p, None, FALSE, "none")     \* dc->next(p)
Show(p)      == Leave(None, p, TRUE, "none")      \* a ui_* function, then p
ShowNoPause(p) == Leave(None, p, FALSE, "none")   \* ... that does not pause
Ok           == Leave(None, None, FALSE, "ok")    \* SEND_RESPONSE / SEND_SW(OK)
Error        == Leave(None, None, FALSE, "error") \* SEND_SW(error); return
ErrorGoto(p) == Leave(p, None, FALSE, "error")    \* SEND_SW(error); dc->next(p)

send_deny_sw == {Error}

handler_get_master_fingerprint == {Error, Ok}

handler_get_extended_pubkey ==
  {Error, Show("get_extended_pubkey_send_response"),
   Goto("get_extended_pubkey_send_response")}
get_extended_pubkey_send_response == {Ok}

handler_sign_message == {Error, Show("sign_message_send_response")}
sign_message_send_response == {Error, Ok}

handler_get_wallet_address == {Error, Goto("compute_address")}
compute_address ==
  {Error, Show("get_wallet_address_send_response"),
   Goto("get_wallet_address_send_response")}
get_wallet_address_send_response == {Ok}

handler_register_wallet == {Error, Show("process_cosigner_info")}
process_cosigner_info == {Error, Show("next_cosigner")}
next_cosigner == {Goto("process_cosigner_info"), Goto("register_wallet_finalize")}
register_wallet_finalize == {Error, Ok}

\* A canonical wallet goes on at once, a registered one asks the user first.
handler_sign_psbt ==
  {Error, Goto("process_input_map"), Show("process_input_map")}
\* When the two UTXO fields disagree the error is sent without returning.
process_input_map ==
  {Error, Goto("alert_external_inputs"), Goto("check_input_owned"),
   ErrorGoto("check_input_owned")}
check_input_owned == {Error, Goto("process_input_map")}
\* ui_warn_external_inputs is the ui_* function that does not pause.
ui_warn_external_inputs(p) == ShowNoPause(p)
alert_external_inputs ==
  {Error, Goto("verify_outputs_init")}
  \cup (IF MixedInputs THEN {ui_warn_external_inputs("verify_outputs_init")} ELSE {})
verify_outputs_init == {Goto("process_output_map")}
process_output_map ==
  {Error, Goto("confirm_transaction"), Goto("check_output_owned")}
check_output_owned ==
  {Error, Goto("output_validate_external"), Goto("output_next")}
output_validate_external == {Error, Show("output_next")}
output_next == {Goto("process_output_map")}
confirm_transaction == {Error, Show("sign_init")}

sign_init == {Error, Goto("sign_process_input_map")}
sign_process_input_map ==
  {Error, Goto("finalize"), Goto("sign_legacy"), Goto("sign_segwit")}
sign_legacy == {Error, Goto("sign_legacy_compute_sighash")}
sign_legacy_compute_sighash == {Error, Goto("sign_sighash_ecdsa")}
sign_segwit == {Error, Goto("sign_segwit_v0"), Goto("sign_segwit_v1")}
sign_segwit_v0 == {Error, Goto("sign_sighash_ecdsa")}
sign_segwit_v1 == {Goto("sign_sighash_schnorr")}
sign_sighash_ecdsa == {Error, Goto("sign_process_input_map")}
sign_sighash_schnorr == {Error, Goto("sign_process_input_map")}
finalize == {Ok}

AppExits ==
     ("send_deny_sw" :> send_deny_sw)
  @@ ("handler_get_master_fingerprint" :> handler_get_master_fingerprint)
  @@ ("handler_get_extended_pubkey" :> handler_get_extended_pubkey)
  @@ ("get_extended_pubkey_send_response" :> get_extended_pubkey_send_response)
  @@ ("handler_sign_message" :> handler_sign_message)
  @@ ("sign_message_send_response" :> sign_message_send_response)
  @@ ("handler_get_wallet_address" :> handler_get_wallet_address)
  @@ ("compute_address" :> compute_address)
  @@ ("get_wallet_address_send_response" :> get_wallet_address_send_response)
  @@ ("handler_register_wallet" :> handler_register_wallet)
  @@ ("process_cosigner_info" :> process_cosigner_info)
  @@ ("next_cosigner" :> next_cosigner)
  @@ ("register_wallet_finalize" :> register_wallet_finalize)
  @@ ("handler_sign_psbt" :> handler_sign_psbt)
  @@ ("process_input_map" :> process_input_map)
  @@ ("check_input_owned" :> check_input_owned)
  @@ ("alert_external_inputs" :> alert_external_inputs)
  @@ ("verify_outputs_init" :> verify_outputs_init)
  @@ ("process_output_map" :> process_output_map)
  @@ ("check_output_owned" :> check_output_owned)
  @@ ("output_validate_external" :> output_validate_external)
  @@ ("output_next" :> output_next)
  @@ ("confirm_transaction" :> confirm_transaction)
  @@ ("sign_init" :> sign_init)
  @@ ("sign_process_input_map" :> sign_process_input_map)
  @@ ("sign_legacy" :> sign_legacy)
  @@ ("sign_legacy_compute_sighash" :> sign_legacy_compute_sighash)
  @@ ("sign_segwit" :> sign_segwit)
  @@ ("sign_segwit_v0" :> sign_segwit_v0)
  @@ ("sign_segwit_v1" :> sign_segwit_v1)
  @@ ("sign_sighash_ecdsa" :> sign_sighash_ecdsa)
  @@ ("sign_sighash_schnorr" :> sign_sighash_schnorr)
  @@ ("finalize" :> finalize)

AppProcessors == DOMAIN AppExits

\* COMMAND_DESCRIPTORS
AppHandlers ==
  [GET_EXTENDED_PUBKEY    |-> "handler_get_extended_pubkey",
   REGISTER_WALLET        |-> "handler_register_wallet",
   GET_WALLET_ADDRESS     |-> "handler_get_wallet_address",
   SIGN_PSBT              |-> "handler_sign_psbt",
   GET_MASTER_FINGERPRINT |-> "handler_get_master_fingerprint",
   SIGN_MESSAGE           |-> "handler_sign_message"]

\* Processors that reach process_interruption.  sign_segwit_v1 does not: it
\* sends client commands only for ANYONECANPAY, which sign_process_input_map
\* has refused.
AppAsking ==
  {"handler_sign_message", "handler_get_wallet_address", "compute_address",
   "process_cosigner_info", "handler_sign_psbt", "process_input_map",
   "check_input_owned", "process_output_map", "check_output_owned", "sign_init",
   "sign_process_input_map", "sign_legacy", "sign_legacy_compute_sighash",
   "sign_segwit", "sign_segwit_v0", "sign_sighash_ecdsa", "sign_sighash_schnorr"}

\* Processors in which a failed lookup means an absent optional field
\* (PSBT_GLOBAL_FALLBACK_LOCKTIME, PSBT_IN_SEQUENCE, PSBT_IN_WITNESS_UTXO).
AppTolerant ==
  {"handler_sign_psbt", "sign_legacy_compute_sighash", "sign_segwit",
   "sign_segwit_v0"}

\* The four loops of the flow graph and the exit that leaves each: an index grows
\* by one per turn (cur_input_index, cur_output_index, next_pubkey_index) up to
\* a number fixed when the command starts.
AppLoopExit ==
  [process_input_map      |-> Goto("alert_external_inputs"),
   process_output_map     |-> Goto("confirm_transaction"),
   sign_process_input_map |-> Goto("finalize"),
   next_cosigner          |-> Goto("register_wallet_finalize")]
=============================================================================
