------------------------------- MODULE Legacy -------------------------------
(***************************************************************************)
(* The legacy protocol (CLA 0xE0): the transaction parser, the four        *)
(* commands that sign a transaction (GET_TRUSTED_INPUT, HASH_INPUT_START,  *)
(* HASH_INPUT_FINALIZE_FULL and HASH_SIGN), the screens they wait for and  *)
(* the silent mode of the swap library.                                    *)
(*                                                                         *)
(* Everything the handlers keep between two commands is in d: the context  *)
(* btchip_context_D, the swap data of vars and the flow on the display.    *)
(* The bytes of a command are tokens, one for each part the parser reads:  *)
(* "head" is the version and the number of inputs, "in" an input up to its *)
(* script length, "script" the script and the sequence, "n" the number of  *)
(* outputs, "o1" the amount and the script length of an output, "o2" its   *)
(* script, "lock" the lock time.  A hash is the sequence of the tokens put *)
(* into it.                                                                *)
(*                                                                         *)
(* The coin is Bitcoin (no Overwinter, no Peercoin time stamp, no Qtum     *)
(* contracts) and the options are those of btchip_autosetup: mode WALLET   *)
(* with BTCHIP_OPTION_SKIP_2FA_P2SH.                                       *)
(***************************************************************************)
EXTENDS Integers, Sequences, FiniteSets, SequencesExt

CONSTANTS
  Sessions,         \* what a host may start: see Apdus
  Earlier,          \* the transaction whose outputs GET_TRUSTED_INPUT is asked for
  SwapRequests,     \* the requests of the exchange application
  MaxSessions,      \* sessions in a behaviour
  MaxInterludes,    \* commands of the other protocol in a behaviour
  AmountModulus,    \* stands for 2^64
  MaxBuffered,      \* stands for MAX_OUTPUT_TO_CHECK, in tokens
  AbandonsOutputs   \* may a session begin while outputs of another are in the buffer?

VARIABLES
  d,         \* the device memory
  appMode,   \* G_app_mode
  swap,      \* the swap request, <<>> outside swap
  host,      \* the session, the commands it has left, and whether it was spoiled
  answer,    \* of the last command: idle, waiting, ok, error or lost
  exited,    \* has the application ended?
  count,     \* sessions begun and interludes
  issued,    \* the trusted inputs the device has issued
  agreed,    \* what the user agreed to: [outs, change, fee]
  seen,      \* the outputs, and an unusual change path, confirmed since the last new transaction
  sigs       \* what was signed

vars == <<d, appMode, swap, host, answer, exited, count, issued, agreed, seen, sigs>>

NoScreen == [t |-> "none"]

(* btchip_context_init: the context is zeroed; the swap data is not part of it. *)
ContextInit(swapData) ==
  [state |-> "none", firstSigned |-> FALSE, relaxed |-> FALSE, segwit |-> FALSE,
   once |-> FALSE, warned |-> FALSE, opt |-> "none", left |-> 0, cur |-> 0, script |-> 0,
   amount |-> 0, full |-> <<>>, auth |-> <<>>, union |-> <<>>, version |-> 0, value |-> 0,
   target |-> 0, found |-> FALSE, change |-> "none", accepted |-> FALSE, multi |-> FALSE,
   authHash |-> <<"zeros">>, path |-> "none", out |-> "number", buf |-> <<>>,
   remaining |-> 0, total |-> 0, outAmount |-> 0, changeFound |-> FALSE, discard |-> 0,
   halted |-> FALSE, async |-> FALSE, sw |-> "ok", reply |-> <<>>,
   screen |-> NoScreen, data |-> swapData]

NoSwapData == [on |-> FALSE, checked |-> FALSE, inputs |-> 0, signed |-> 0, exit |-> FALSE]

Tok(kind, v) == [t |-> kind, v |-> v]

-----------------------------------------------------------------------------
(* The parser.                                                             *)

(* transaction_offset: the data goes into the hashes the option selects. *)
Hash(e, tok) ==
  [e EXCEPT !.full = IF e.opt = "none" THEN @ ELSE Append(@, tok),
            !.auth = IF e.opt = "both" THEN Append(@, tok) ELSE @]

(* A failure discards the transaction and is thrown to app_dispatch. *)
ParseFail(e) == [e EXCEPT !.state = "none", !.sw = "throw"]

(* transaction_amount_add_be *)
AddBe(a, b) == (a + b) % AmountModulus
Carry(a, b) == a + b >= AmountModulus

(* INPUT_HASHING_DONE.  The first pass over the inputs of a segwit          *)
(* transaction leaves their hashes in the cache (which shares its memory    *)
(* with the running hash) and makes the full hash one of the outputs; the   *)
(* second pass is ready to sign.                                            *)
InputsDone(e, mode) ==
  CASE mode = "trusted" -> [e EXCEPT !.state = "inputs_done"]
    [] mode = "sign" /\ e.segwit /\ e.once ->
         [e EXCEPT !.full = Append(@, Tok("outputs", e.union.outputs)), !.state = "sign_ready"]
    [] mode = "sign" /\ e.segwit /\ ~e.once ->
         [e EXCEPT !.union = [prevouts |-> e.union, sequence |-> e.full, outputs |-> <<>>],
                   !.full = <<>>, !.state = "presign_ready"]
    [] OTHER -> [e EXCEPT !.state = "presign_ready"]

NextInput(e, mode) ==
  IF e.left = 0 THEN InputsDone(e, mode) ELSE [e EXCEPT !.state = "wait_input"]

(* NONE: the hashes start again; a resumed segwit transaction starts from    *)
(* the cache.  The swap data is told how many inputs there are, once.        *)
ParseHead(e, tok, mode) ==
  LET reset == [e EXCEPT !.left = 0, !.cur = 0, !.script = 0, !.amount = 0,
                         !.full = <<>>, !.auth = <<>>]
      begun ==
        CASE ~e.segwit -> reset
          [] e.segwit /\ ~e.once -> [reset EXCEPT !.opt = "none", !.union = <<>>]
          [] e.segwit /\ e.once ->
               [reset EXCEPT !.opt = "none",
                             !.full = <<Tok("version", e.version),
                                        Tok("prevouts", e.union.prevouts),
                                        Tok("sequence", e.union.sequence)>>,
                             !.auth = <<Tok("cache", e.union)>>]
      read == [Hash(begun, tok) EXCEPT !.version = tok.version, !.left = tok.n]
      noted ==
        IF e.data.on /\ mode = "sign"
        THEN [read EXCEPT !.data.inputs = IF @ = 0 THEN tok.n ELSE @, !.data.checked = FALSE]
        ELSE read
  IN  NextInput(noted, mode)

(* An input of HASH_INPUT_START in segwit mode.  The first pass hashes the   *)
(* outpoints apart and adds up the amounts, the second hashes the outpoint   *)
(* of the input to sign and keeps its amount.                                *)
SegwitInput(e, tok) ==
  IF e.once
  THEN [e EXCEPT !.opt = "full", !.full = Append(@, Tok("prevout", tok.coin)), !.value = tok.amount]
  ELSE [e EXCEPT !.union = Append(@, tok.coin), !.amount = AddBe(@, tok.amount)]

(* An input of HASH_INPUT_START outside segwit mode: an outpoint without      *)
(* amount makes the transaction relaxed, a trusted input adds its amount.     *)
(* The script and its length stay out of the authorization hash.              *)
PlainInput(e, tok) ==
  LET hashed == Hash(e, Tok("prevout", tok.coin))
  IN  IF tok.flag = 0
      THEN [hashed EXCEPT !.relaxed = TRUE, !.opt = "full"]
      ELSE [hashed EXCEPT !.amount = AddBe(@, tok.amount), !.opt = "full"]

(* DEFINED_WAIT_INPUT.  A trusted input is one that the device has issued:    *)
(* its authentication code is checked.                                        *)
ParseInput(e, tok, mode, good) ==
  LET counted == ~(e.segwit /\ e.once) /\ ~(~e.segwit /\ tok.flag = 0)
      read == IF mode = "trusted" THEN Hash(e, tok)
              ELSE IF e.segwit THEN SegwitInput(e, tok) ELSE PlainInput(e, tok)
  IN  IF mode = "sign" /\ (\/ tok.flag = 0 /\ e.segwit
                           \/ tok.flag = 2 /\ ~e.segwit
                           \/ tok.flag = 1 /\ [coin |-> tok.coin, amount |-> tok.amount] \notin good
                           \/ counted /\ Carry(e.amount, tok.amount))
      THEN ParseFail(e)
      ELSE [read EXCEPT !.state = "input_script"]

(* INPUT_HASHING_IN_PROGRESS_INPUT_SCRIPT: the script, then the amount of a   *)
(* segwit input that is signed, then the sequence.                            *)
ParseScript(e, tok, mode) ==
  LET script == Hash(e, Tok("script", tok.script))
      valued ==
        CASE mode = "sign" /\ ~e.segwit -> [script EXCEPT !.opt = "both"]
          [] mode = "sign" /\ e.segwit /\ e.once ->
               [script EXCEPT !.full = Append(@, Tok("value", e.value))]
          [] OTHER -> script
      sequence == Tok("sequence", tok.seq)
      hashed == IF e.segwit /\ ~e.once THEN [valued EXCEPT !.full = Append(@, sequence)]
                ELSE valued
  IN  NextInput([Hash(hashed, sequence) EXCEPT !.left = @ - 1, !.cur = @ + 1], mode)

NextOutput(e) ==
  IF e.left = 0 THEN [e EXCEPT !.state = "outputs_done"] ELSE [e EXCEPT !.state = "wait_output"]

(* Mutant: the outputs are counted on from the inputs. *)
ParseNumberCountsOn(e, tok) == NextOutput([Hash(e, tok) EXCEPT !.left = tok.v])

(* The number of outputs of the transaction a trusted input is asked for. *)
ParseNumber(e, tok) ==
  NextOutput([Hash(e, tok) EXCEPT !.left = tok.v, !.cur = 0])

(* DEFINED_WAIT_OUTPUT: the amount is kept if this is the output asked for. *)
ParseOutput(e, tok) ==
  LET wanted == e.cur = e.target
  IN  [Hash(e, tok) EXCEPT !.amount = IF wanted THEN tok.v.amount ELSE @,
                           !.found = wanted \/ @, !.script = 1, !.state = "output_script"]

ParseOutputScript(e, tok) == [Hash(e, tok) EXCEPT !.script = 0]

(* The parser leaves an output whose script is complete when the next data    *)
(* comes.                                                                     *)
LeaveOutput(e) ==
  IF e.state = "output_script" /\ e.script = 0
  THEN NextOutput([e EXCEPT !.left = @ - 1, !.cur = @ + 1])
  ELSE e

(* transaction_parse *)
Parse(e, tok, mode, good) ==
  LET step(f) ==
        CASE f.state = "none" /\ tok.t = "head" -> ParseHead(f, tok, mode)
        [] f.state = "wait_input" /\ tok.t = "in" -> ParseInput(f, tok, mode, good)
        [] f.state = "input_script" /\ tok.t = "script" -> ParseScript(f, tok, mode)
        [] f.state = "inputs_done" /\ tok.t = "n" -> ParseNumber(f, tok)
        [] f.state = "wait_output" /\ tok.t = "o1" -> ParseOutput(f, tok)
        [] f.state = "output_script" /\ tok.t = "o2" -> ParseOutputScript(f, tok)
        [] f.state = "outputs_done" /\ tok.t = "lock" ->
             [Hash(f, tok) EXCEPT !.state = "parsed"]
  IN  step(LeaveOutput(e))

-----------------------------------------------------------------------------
(* GET_TRUSTED_INPUT and HASH_INPUT_START.                                 *)

(* The previous transaction as the host sends it, and its identifier: the   *)
(* hash of the whole of it.                                                 *)
OutputTokens(outs) ==
  <<Tok("n", Len(outs))>> \o FlattenSeq([i \in DOMAIN outs |-> <<Tok("o1", outs[i]), Tok("o2", outs[i])>>])
EarlierTokens ==
  <<[t |-> "head", version |-> 1, n |-> 1], [t |-> "in", coin |-> <<"genesis", 0>>],
    [t |-> "script", script |-> "sig", seq |-> "final"]>>
  \o OutputTokens(Earlier) \o <<Tok("lock", 0)>>

(* The script and the sequence of an input go into the hash one by one. *)
Hashed(tok) ==
  IF tok.t = "script" THEN <<Tok("script", tok.script), Tok("sequence", tok.seq)>> ELSE <<tok>>
TxId(full) ==
  IF full = FlattenSeq([i \in DOMAIN EarlierTokens |-> Hashed(EarlierTokens[i])])
  THEN "earlier" ELSE "another"

(* A start resets the parser and leaves the flags of the session alone,      *)
(* except usingSegwit.  A parsed transaction with the output asked for is    *)
(* answered with the trusted input.                                          *)
GetTrustedInput(e, a, good) ==
  LET begun == IF a.first
               THEN [e EXCEPT !.target = a.target, !.state = "none", !.found = FALSE,
                              !.opt = "full", !.segwit = FALSE]
               ELSE e
      answered(p) ==
        CASE p.state = "parsed" /\ p.found ->
               [p EXCEPT !.state = "none",
                         !.reply = <<[coin |-> <<TxId(p.full), p.target>>, amount |-> p.amount]>>]
          [] p.state = "parsed" /\ ~p.found -> [p EXCEPT !.state = "none", !.sw = "error"]
          [] OTHER -> p
  IN  answered(Parse(begun, a.tok, "trusted", good))

(* Mutant: segwitParsedOnce is not reset. *)
NewTransactionResumes(e, p2) ==
  [e EXCEPT !.firstSigned = TRUE, !.relaxed = FALSE, !.segwit = (p2 = "segwit"),
            !.change = "none", !.accepted = TRUE, !.multi = FALSE, !.warned = FALSE]

(* The "Master transaction reset" of a new transaction. *)
NewTransaction(e, p2) ==
  [e EXCEPT !.firstSigned = TRUE, !.relaxed = FALSE, !.segwit = (p2 = "segwit"), !.once = FALSE,
            !.change = "none", !.accepted = TRUE, !.multi = FALSE, !.warned = FALSE]

(* Segwit inputs without a trusted input are announced on the display once;  *)
(* the parser goes on below that screen.  In swap they are refused.          *)
HashInputStart(e, a, good) ==
  LET first == IF a.first THEN [e EXCEPT !.state = "none", !.opt = "both"] ELSE e
      begun == IF a.first /\ a.p2 # "continue" THEN NewTransaction(first, a.p2) ELSE first
      warn == /\ begun.segwit /\ ~begun.warned /\ ~a.first /\ a.p2 # "continue"
              /\ a.tok.t = "in" /\ a.tok.flag # 1
      warned == IF warn THEN [begun EXCEPT !.warned = TRUE, !.async = TRUE,
                                           !.screen = [t |-> "warning"]]
                ELSE begun
  IN  IF warn /\ e.data.on THEN [begun EXCEPT !.sw = "error"]
      ELSE Parse(warned, a.tok, "sign", good)

-----------------------------------------------------------------------------
(* HASH_INPUT_FINALIZE_FULL.                                               *)

(* btchip_apdu_hash_input_finalize_full_reset *)
FinalizeReset(e) ==
  [e EXCEPT !.buf = <<>>, !.out = "number", !.outAmount = 0, !.changeFound = FALSE]

(* check_output_displayable: the amount is added without a look at the carry; *)
(* one output may go to the change address, and is not shown.                 *)
CheckOutput(e) ==
  LET output == e.buf[1].v
      isChange == e.change # "none" /\ output.to = e.change
      added == [e EXCEPT !.outAmount = AddBe(@, output.amount)]
  IN  IF ~isChange THEN [added EXCEPT !.async = TRUE, !.discard = 2]
      ELSE IF e.changeFound THEN [added EXCEPT !.sw = "throw"]
      ELSE [added EXCEPT !.changeFound = TRUE, !.remaining = @ - 1, !.buf = SubSeq(@, 3, Len(@))]

(* handle_output_state: one round over the buffer, and whether it took       *)
(* something from it.  The buffer starts with what the state expects: it is  *)
(* empty when a transaction begins (see Begin).                              *)
HandleOutputState(e) ==
  LET f == [e EXCEPT !.discard = 0]
  IN  CASE f.out = "number" /\ f.buf = <<>> -> [e |-> [f EXCEPT !.total = 0], processed |-> FALSE]
        [] f.out = "number" /\ f.buf # <<>> /\ f.buf[1].t = "n" ->
             [e |-> [f EXCEPT !.total = f.buf[1].v, !.remaining = f.buf[1].v,
                              !.buf = Tail(@), !.out = "output"],
              processed |-> TRUE]
        [] f.out = "output" /\ Len(f.buf) < 2 -> [e |-> f, processed |-> FALSE]
        [] f.out = "output" /\ Len(f.buf) >= 2 /\ f.buf[1].t = "o1" ->
             [e |-> CheckOutput(f), processed |-> TRUE]
        [] f.out \in {"none", "finalize"} -> [e |-> [f EXCEPT !.sw = "throw"], processed |-> FALSE]

(* The loop around it, which stops at an output to show. *)
RECURSIVE HandleOutputs(_)
HandleOutputs(e) ==
  LET goOn(r) == IF r.processed /\ ~r.e.async /\ r.e.sw # "throw" THEN HandleOutputs(r.e) ELSE r.e
  IN  goOn(HandleOutputState(e))

(* The transaction is accepted.  In segwit mode nothing can be signed yet:    *)
(* the inputs are sent once more.                                            *)
Accept(e) ==
  IF e.segwit /\ ~e.once
  THEN [e EXCEPT !.firstSigned = FALSE, !.once = TRUE, !.state = "none"]
  ELSE [e EXCEPT !.firstSigned = FALSE, !.state = "sign_ready"]

Discard(e) == FinalizeReset([e EXCEPT !.state = "none", !.sw = "error"])

DropFirst(e) == [e EXCEPT !.buf = SubSeq(@, e.discard + 1, Len(@)), !.async = FALSE]

(* The change path.  An unusual one is shown; the path is in use before the  *)
(* user has answered.                                                        *)
ChangeInfo(e, a) ==
  LET cleared == [e EXCEPT !.authHash = <<"zeros">>, !.path = a.path]
      kept == [cleared EXCEPT !.change = a.path, !.accepted = FALSE]
  IN  IF ~e.firstSigned THEN e
      ELSE IF ~e.accepted THEN Discard(e)
      ELSE CASE a.path = "none" -> cleared
             [] a.path = "usual" -> kept
             [] a.path = "unusual" /\ e.data.on -> Discard(kept)
             [] a.path = "unusual" /\ ~e.data.on ->
                  [kept EXCEPT !.async = TRUE, !.out = "number", !.screen = [t |-> "change"]]

(* Mutant: the number of outputs is hashed in segwit mode. *)
HashOutputsWhole(e, data) ==
  [e EXCEPT !.full = IF e.once THEN @ ELSE @ \o data, !.auth = IF e.segwit THEN @ ELSE @ \o data]

(* The data of the outputs goes into the hashes; the first pass of a segwit  *)
(* transaction leaves out the number of outputs.                             *)
HashOutputs(e, data) ==
  LET offset == IF e.segwit /\ ~e.multi THEN 1 ELSE 0
  IN  [e EXCEPT !.full = IF e.once THEN @ ELSE @ \o SubSeq(data, offset + 1, Len(data)),
                !.auth = IF e.segwit THEN @ ELSE @ \o data]

TooLong(e, data) == Len(e.buf) + Len(data) > MaxBuffered

(* The outputs of a transaction that the user has not seen yet. *)
ReadOutputs(e, data) ==
  LET complete(h) == IF h.remaining = 0 /\ ~h.async /\ h.sw # "throw"
                     THEN [h EXCEPT !.async = TRUE, !.out = "finalize"]
                     ELSE h
  IN  complete(HandleOutputs([e EXCEPT !.buf = @ \o data]))

(* Mutant: the authorization hash is not compared. *)
AuthorizeAnything(e) ==
  LET cached == IF e.segwit /\ ~e.once THEN [e EXCEPT !.union.outputs = e.full, !.full = <<>>] ELSE e
  IN  IF e.firstSigned THEN [cached EXCEPT !.authHash = e.auth] ELSE FinalizeReset(Accept(cached))

(* After the last data: the authorization hash is kept for the later inputs,  *)
(* or compared with the one that was kept.                                    *)
Authorize(e) ==
  LET cached == IF e.segwit /\ ~e.once THEN [e EXCEPT !.union.outputs = e.full, !.full = <<>>] ELSE e
      hash == IF e.segwit /\ e.once THEN Append(e.auth, Tok("cache", e.union)) ELSE e.auth
  IN  CASE e.firstSigned -> [cached EXCEPT !.authHash = hash]
        [] ~e.firstSigned /\ hash = e.authHash -> FinalizeReset(Accept(cached))
        [] ~e.firstSigned /\ hash # e.authHash -> Discard(cached)

(* btchip_apdu_hash_input_finalize_full_internal *)
FinalizeInternal(e, a) ==
  LET end(read) == IF read.sw = "throw" THEN Discard(read)
                   ELSE IF a.p1 = "more" THEN [read EXCEPT !.multi = TRUE]
                   ELSE Authorize(read)
      outputs(hashed) == IF ~e.firstSigned THEN end(hashed)
                         ELSE IF TooLong(e, a.data) THEN Discard(hashed)
                         ELSE end(ReadOutputs(hashed, a.data))
  IN  IF e.state # "presign_ready" THEN Discard(e)
      ELSE IF a.p1 = "change" THEN ChangeInfo(e, a)
      ELSE outputs(HashOutputs(e, a.data))

-----------------------------------------------------------------------------
(* The screens, and what takes their place in swap.  An operator that may   *)
(* refuse says so in sw.                                                    *)

Borrow(e) == e.outAmount > e.amount
UnknownFee == -1

(* btchip_bagl_finalize_tx: prepare_fees and the fee screen, or check_fee_swap, *)
(* which does not reset the output parser.                                      *)
FinalizeTx(e) ==
  LET fee == IF e.relaxed THEN UnknownFee ELSE e.amount - e.outAmount
  IN  IF e.data.on
      THEN IF Borrow(e) \/ e.amount - e.outAmount # swap.fee THEN [e EXCEPT !.sw = "error"]
           ELSE Accept(e)
      ELSE IF ~e.relaxed /\ Borrow(e) THEN [e EXCEPT !.sw = "error"]
           ELSE [e EXCEPT !.screen = [t |-> "fee", fee |-> fee]]

(* Mutant: the fee is not compared with the requested one. *)
SilentEndAnyFee(e) ==
  IF ~(e.out = "output" /\ e.remaining = 0) THEN e
  ELSE IF Borrow(e) THEN [e EXCEPT !.out = "finalize", !.sw = "error"] ELSE FinalizeReset(Accept(e))

(* The end of btchip_silent_confirm_single_output. *)
SilentEnd(e) ==
  IF ~(e.out = "output" /\ e.remaining = 0) THEN e
  ELSE IF Borrow(e) \/ e.amount - e.outAmount # swap.fee
       THEN [e EXCEPT !.out = "finalize", !.sw = "error"]
       ELSE FinalizeReset(Accept(e))

(* btchip_silent_confirm_single_output: one output only may be shown, and it  *)
(* is the one of the request.                                                 *)
RECURSIVE SilentConfirm(_)
SilentConfirm(e) ==
  LET output == e.buf[1].v
      checked == [e EXCEPT !.data.checked = TRUE, !.remaining = @ - 1]
      goOn(next) == IF next.sw = "throw" THEN next
                    ELSE IF next.async THEN SilentConfirm(next)
                    ELSE SilentEnd(next)
  IN  IF e.data.checked \/ output.amount # swap.amount \/ output.to # swap.to
      THEN [e EXCEPT !.data.checked = TRUE, !.sw = "error"]
      ELSE IF checked.remaining = 0 THEN SilentEnd(checked)
      ELSE goOn(HandleOutputs(DropFirst(checked)))

(* btchip_bagl_confirm_single_output *)
ConfirmOutput(e) ==
  IF e.data.on THEN SilentConfirm(e)
  ELSE [e EXCEPT !.screen = [t |-> "output", n |-> e.total - e.remaining + 1, out |-> e.buf[1].v]]

(* btchip_apdu_hash_input_finalize_full: a refusal by the screens discards    *)
(* the transaction and leaves the output parser where it is.                  *)
FinalizeFull(e, a) ==
  LET refused(g) == IF g.sw = "error" THEN [g EXCEPT !.async = FALSE, !.state = "none"] ELSE g
      shown(f) == IF ~f.async \/ a.p1 = "change" THEN f
                  ELSE refused(IF f.out = "finalize" THEN FinalizeTx(f) ELSE ConfirmOutput(f))
  IN  shown(FinalizeInternal(e, a))

(* btchip_bagl_user_action after the last output: the fee screen, unless the  *)
(* fee is negative.                                                           *)
LastOutput(e) ==
  LET refused(f) == IF f.sw = "error" THEN Discard(f) ELSE f
  IN  refused(FinalizeTx([e EXCEPT !.out = "finalize"]))

(* btchip_bagl_user_action: the answer to an output or to the fee. *)
UserAction(e, confirming) ==
  LET end(g) == IF g.out = "output" /\ g.remaining = 0 THEN LastOutput(g)
                ELSE IF g.out = "finalize" THEN FinalizeReset(Accept(g))
                ELSE g
      goOn(g) == IF g.sw = "throw" THEN g ELSE IF g.async THEN ConfirmOutput(g) ELSE end(g)
      counted(f) == IF f.remaining = 0 THEN end(f) ELSE goOn(HandleOutputs(DropFirst(f)))
  IN  IF ~confirming THEN Discard(e)
      ELSE counted(IF e.out = "output" THEN [e EXCEPT !.remaining = @ - 1] ELSE e)

-----------------------------------------------------------------------------
(* HASH_SIGN and the dispatcher.                                           *)

(* btchip_bagl_user_action_signtx: the hash is closed and signed.  The state *)
(* of the transaction stays as it is.                                        *)
SignTx(e) == [e EXCEPT !.reply = <<e.full>>, !.full = <<Tok("closed", e.full)>>]

(* Mutant: the inputs signed are compared before they are counted. *)
HashSignOffByOne(e, a) ==
  LET locked == [e EXCEPT !.path = a.path, !.full = Append(@, Tok("lock", 0))]
      signed == IF a.path = "usual" THEN SignTx(locked)
                ELSE [locked EXCEPT !.async = TRUE, !.screen = [t |-> "path"]]
  IN  IF e.state # "sign_ready" THEN [e EXCEPT !.state = "none", !.sw = "error"]
      ELSE IF ~e.data.on THEN signed
      ELSE [signed EXCEPT !.data.signed = @ + 1, !.data.exit = @ \/ e.data.signed >= e.data.inputs]

(* btchip_apdu_hash_sign *)
HashSign(e, a) ==
  LET locked == [e EXCEPT !.path = a.path, !.full = Append(@, Tok("lock", 0))]
      signed == IF a.path = "usual" THEN SignTx(locked)
                ELSE [locked EXCEPT !.async = TRUE, !.screen = [t |-> "path"]]
  IN  IF e.state # "sign_ready" THEN [e EXCEPT !.state = "none", !.sw = "error"]
      ELSE IF ~e.data.on THEN signed
      ELSE [signed EXCEPT !.data.signed = @ + 1,
                          !.data.exit = @ \/ e.data.signed + 1 >= e.data.inputs]

Handle(e, a, good) ==
  CASE e.halted -> [e EXCEPT !.sw = "error"]
    [] ~e.halted /\ a.ins = "trusted" -> GetTrustedInput(e, a, good)
    [] ~e.halted /\ a.ins = "start" -> HashInputStart(e, a, good)
    [] ~e.halted /\ a.ins = "finalize" -> FinalizeFull(e, a)
    [] ~e.halted /\ a.ins = "sign" -> HashSign(e, a)

(* app_dispatch: an exception halts the legacy application and nothing is    *)
(* sent; in swap every command is answered at once and an error ends it.     *)
Dispatch(e, a, good) ==
  LET sendSW(f) ==
        CASE f.sw = "throw" -> [f EXCEPT !.halted = TRUE]
          [] f.sw # "throw" /\ ~f.data.on -> f
          [] f.sw # "throw" /\ f.data.on ->
               [f EXCEPT !.async = FALSE, !.data.exit = (f.sw = "error") \/ @]
  IN  sendSW(Handle([e EXCEPT !.async = FALSE, !.sw = "ok", !.reply = <<>>], a, good))

-----------------------------------------------------------------------------
(* The host.  A session asks for a trusted input or signs a transaction:     *)
(*   [kind |-> "trusted", target]                                            *)
(*   [kind |-> "spend", style, tx, again, cuts, path]                        *)
(* where again is the transaction of the later passes (tx, unless the host   *)
(* is at fault), cuts says after which tokens the outputs are cut into       *)
(* commands and path is the one of the signing keys.  The styles are the     *)
(* ways to send an input: with a trusted input (plain, segwit), with no more *)
(* than its outpoint (untrusted), with a stated amount (witness).            *)

Flag(style) == CASE style \in {"plain", "segwit"} -> 1 [] style = "witness" -> 2 [] style = "untrusted" -> 0
ValueOf(coin) == Earlier[coin[2] + 1].amount
IsSegwit(style) == style \in {"segwit", "witness"}

(* One pass over the inputs ins; the input number signed comes with its script. *)
Pass(style, p2, ins, signed) ==
  LET next(tok) == [ins |-> "start", first |-> FALSE, p2 |-> p2, tok |-> tok]
  IN  <<[ins |-> "start", first |-> TRUE, p2 |-> p2,
         tok |-> [t |-> "head", version |-> 2, n |-> Len(ins)]]>>
      \o FlattenSeq([i \in DOMAIN ins |->
           <<next([t |-> "in", flag |-> Flag(style), coin |-> ins[i], amount |-> ValueOf(ins[i])]),
             next([t |-> "script", script |-> IF i = signed THEN "prevscript" ELSE "empty",
                   seq |-> "final"])>>])

(* The outputs, cut into commands. *)
Outputs(outs, cuts) ==
  LET tokens == OutputTokens(outs)
      ends == SetToSortSeq((cuts \cap 1..(Len(tokens) - 1)) \cup {Len(tokens)}, <)
      begin(k) == IF k = 1 THEN 1 ELSE ends[k - 1] + 1
  IN  [k \in DOMAIN ends |->
         [ins |-> "finalize", p1 |-> IF k = Len(ends) THEN "last" ELSE "more",
          data |-> SubSeq(tokens, begin(k), ends[k])]]

Change(tx) == <<[ins |-> "finalize", p1 |-> "change", path |-> tx.change]>>
Sign(s) == <<[ins |-> "sign", path |-> s.path]>>

(* Segwit: all inputs, the outputs, then each input alone and its signature.  *)
(* Otherwise all of it for each input.                                        *)
SpendApdus(s) ==
  LET turn(i) == IF i = 1 THEN s.tx ELSE s.again
      first(p2) == Pass(s.style, p2, s.tx.ins, 1) \o Change(s.tx) \o Outputs(s.tx.outs, s.cuts)
      later(i) == Pass(s.style, "continue", turn(i).ins, i) \o Outputs(turn(i).outs, s.cuts)
  IN  IF IsSegwit(s.style)
      THEN Pass(s.style, "segwit", s.tx.ins, 0) \o Change(s.tx) \o Outputs(s.tx.outs, s.cuts)
           \o FlattenSeq([i \in DOMAIN s.tx.ins |->
                Pass(s.style, "continue", <<turn(i).ins[i]>>, 1) \o Sign(s)])
      ELSE FlattenSeq([i \in DOMAIN s.tx.ins |->
             (IF i = 1 THEN first("plain") ELSE later(i)) \o Sign(s)])

Apdus(s) ==
  IF s.kind = "spend" THEN SpendApdus(s)
  ELSE [i \in DOMAIN EarlierTokens |->
          [ins |-> "trusted", first |-> i = 1, target |-> s.target, tok |-> EarlierTokens[i]]]

-----------------------------------------------------------------------------
NothingSeen == [outs |-> {}, change |-> FALSE]
NoHost == [session |-> [kind |-> "none"], todo |-> <<>>, spoiled |-> FALSE]

(* The application is opened by the user, or called by the exchange          *)
(* application.  Trusted inputs are good over restarts: their key is in the  *)
(* non-volatile memory.                                                      *)
Init ==
  /\ swap \in {<<>>} \cup SwapRequests
  /\ d = ContextInit([NoSwapData EXCEPT !.on = swap # <<>>])
  /\ appMode = IF swap = <<>> THEN "uninitialized" ELSE "legacy"
  /\ host = NoHost
  /\ answer = "idle"
  /\ exited = FALSE
  /\ count = [sessions |-> 0, interludes |-> 0]
  /\ issued = {[coin |-> <<"earlier", i - 1>>, amount |-> Earlier[i].amount] : i \in DOMAIN Earlier}
  /\ agreed = {}
  /\ seen = NothingSeen
  /\ sigs = {}

(* Nothing of an earlier transaction is left in the output parser. *)
OutputParserIdle == d.out = "number" /\ d.buf = <<>>

(* The host begins a session, once the last command is answered; what the    *)
(* earlier session has left is abandoned.  The exchange application has one  *)
(* transaction signed, with keys at usual paths.                             *)
Begin(s) ==
  /\ answer # "waiting" /\ ~exited
  /\ count.sessions < MaxSessions
  /\ ~AbandonsOutputs /\ appMode = "legacy" => OutputParserIdle
  /\ swap # <<>> /\ s.kind = "spend" => s.path = "usual" /\ host.session.kind # "spend"
  /\ host' = [session |-> s, todo |-> Apdus(s),
              spoiled |-> d.halted /\ appMode = "legacy"]
  /\ count' = [count EXCEPT !.sessions = @ + 1]
  /\ answer' = "idle"
  /\ UNCHANGED <<d, appMode, swap, exited, issued, agreed, seen, sigs>>

(* What the answer of the device is after e was computed. *)
AnswerOf(e) ==
  CASE e.sw = "throw" /\ e.screen.t = "none" -> "lost"
    [] e.screen.t # "none" -> "waiting"
    [] OTHER -> e.sw

(* The trusted input or the signature that is sent. *)
Reply(e) == IF e.reply = <<>> THEN {} ELSE {e.reply[1]}

(* A legacy command: a context of the other protocol is wiped first. *)
Command ==
  /\ answer \in {"idle", "ok"} /\ ~exited
  /\ host.todo # <<>>
  /\ appMode' = "legacy"
  /\ host' = [host EXCEPT !.todo = Tail(@)]
  /\ \E a \in {Head(host.todo)} :
     \E e \in {Dispatch(IF appMode = "legacy" THEN d ELSE ContextInit(d.data), a, issued)} :
       /\ d' = e
       /\ answer' = AnswerOf(e)
       /\ exited' = (e.data.on /\ e.data.exit)
       /\ issued' = issued \cup IF a.ins = "trusted" THEN Reply(e) ELSE {}
       /\ sigs' = sigs \cup IF a.ins = "sign" THEN Reply(e) ELSE {}
       /\ seen' = IF a.ins = "start" /\ a.first /\ a.p2 # "continue" THEN NothingSeen ELSE seen
  /\ UNCHANGED <<swap, count, agreed>>

(* A command of the other protocol, in the middle of a session or not: the   *)
(* next legacy command finds another mode.  (Not where the host would go on   *)
(* in the middle of its inputs: its bytes would be read as something else.)   *)
Interlude ==
  /\ answer # "waiting" /\ ~exited /\ swap = <<>>
  /\ count.interludes < MaxInterludes
  /\ appMode' = "new" /\ appMode # "new"
  /\ host.todo # <<>> => (Head(host.todo).ins \in {"start", "trusted"} => Head(host.todo).first)
  /\ host' = [host EXCEPT !.spoiled = (answer = "ok" /\ host.todo # <<>>) \/ @]
  /\ count' = [count EXCEPT !.interludes = @ + 1]
  /\ UNCHANGED <<d, swap, answer, exited, issued, agreed, seen, sigs>>

(* A button on an output or on the fee.  An exception leaves the application: *)
(* there is no handler around the callbacks.                                  *)
PressOutput(yes) ==
  LET confirmed == IF d.screen.t = "output" THEN {[n |-> d.screen.n, out |-> d.screen.out]} ELSE {}
  IN  /\ d.screen.t \in {"output", "fee"} /\ ~exited
      /\ \E e \in {UserAction([d EXCEPT !.screen = NoScreen, !.sw = "ok"], yes)} :
           /\ d' = e
           /\ exited' = (e.sw = "throw")
           /\ answer' = AnswerOf(e)
      /\ seen' = IF yes THEN [seen EXCEPT !.outs = @ \cup confirmed] ELSE seen
      /\ agreed' = IF yes /\ d.screen.t = "fee"
                   THEN agreed \cup {[outs |-> seen.outs, change |-> seen.change, fee |-> d.screen.fee]}
                   ELSE agreed
      /\ host' = [host EXCEPT !.spoiled = ~yes \/ @]
      /\ UNCHANGED <<appMode, swap, count, issued, sigs>>

(* A button on the warning about segwit inputs or on an unusual change path:  *)
(* the answer is sent, and nothing else happens.                              *)
PressDisplay(yes) ==
  /\ d.screen.t \in {"warning", "change"} /\ ~exited
  /\ d' = [d EXCEPT !.screen = NoScreen]
  /\ answer' = IF yes THEN "ok" ELSE "error"
  /\ seen' = IF d.screen.t = "change" THEN [seen EXCEPT !.change = yes] ELSE seen
  /\ host' = [host EXCEPT !.spoiled = ~yes \/ @]
  /\ UNCHANGED <<appMode, swap, exited, count, issued, agreed, sigs>>

(* A button on an unusual path of a signing key. *)
PressSign(yes) ==
  LET e == [IF yes THEN SignTx(d) ELSE d EXCEPT !.screen = NoScreen]
  IN  /\ d.screen.t = "path" /\ ~exited
      /\ d' = e
      /\ sigs' = sigs \cup IF yes THEN Reply(e) ELSE {}
      /\ answer' = IF yes THEN "ok" ELSE "error"
      /\ host' = [host EXCEPT !.spoiled = ~yes \/ @]
      /\ UNCHANGED <<appMode, swap, exited, count, issued, agreed, seen>>

(* The user opens the application that has ended.  (The swap library is       *)
(* called anew by the exchange application, with another request.)            *)
Reopen ==
  /\ exited /\ swap = <<>>
  /\ d' = ContextInit(NoSwapData)
  /\ appMode' = "uninitialized"
  /\ exited' = FALSE
  /\ answer' = "error"
  /\ UNCHANGED <<swap, host, count, issued, agreed, seen, sigs>>

Press(yes) == PressOutput(yes) \/ PressDisplay(yes) \/ PressSign(yes)

Next ==
  \/ \E s \in Sessions : Begin(s)
  \/ Command
  \/ Interlude
  \/ \E yes \in BOOLEAN : Press(yes)
  \/ Reopen

Spec == Init /\ [][Next]_vars

-----------------------------------------------------------------------------
(* Properties.                                                             *)

Spends == {s \in Sessions : s.kind = "spend"}
AddAll(amounts) == FoldSeq(+, 0, amounts)
TotalIn(coins) == AddAll([i \in DOMAIN coins |-> ValueOf(coins[i])])
TotalOut(outs) == AddAll([i \in DOMAIN outs |-> outs[i].amount])

(* What a signature of input i of a transaction has to cover: BIP 143 for    *)
(* segwit, otherwise the transaction with the script of that input alone.    *)
SigHash(s, i) ==
  LET ins == s.tx.ins
      coin == IF i = 1 THEN ins[i] ELSE s.again.ins[i]
      input(k) == <<Tok("prevout", ins[k]), Tok("script", IF k = i THEN "prevscript" ELSE "empty"),
                    Tok("sequence", "final")>>
      outputs == OutputTokens(s.tx.outs)
  IN  IF IsSegwit(s.style)
      THEN <<Tok("version", 2), Tok("prevouts", ins),
             Tok("sequence", [k \in DOMAIN ins |-> Tok("sequence", "final")]),
             Tok("prevout", coin), Tok("script", "prevscript"), Tok("value", ValueOf(coin)),
             Tok("sequence", "final"), Tok("outputs", Tail(outputs)), Tok("lock", 0)>>
      ELSE <<[t |-> "head", version |-> 2, n |-> Len(ins)]>>
           \o FlattenSeq([k \in DOMAIN ins |-> input(k)]) \o outputs \o <<Tok("lock", 0)>>

(* Every signature covers a transaction as the protocol of Bitcoin defines   *)
(* it, however its pieces came in and whatever was abandoned before (with    *)
(* the output parser empty, see Begin): the                                  *)
(* running hashes, the segwit cache and the hash options of                  *)
(* btchip_transaction.c put together the right message.                      *)
SignsTheSighash ==
  \A g \in sigs : \E s \in Spends : \E i \in DOMAIN s.tx.ins : g = SigHash(s, i)

(* The outputs and the inputs a signature covers. *)
OutputsOf(g) ==
  LET isOutputs(tok) == tok.t = "outputs"
      isO1(tok) == tok.t = "o1"
      whole == SelectSeq(g, isOutputs)
      tokens == SelectSeq(IF whole = <<>> THEN g ELSE whole[1].v, isO1)
  IN  [i \in DOMAIN tokens |-> tokens[i].v]
CoinsOf(g) ==
  LET isPrevouts(tok) == tok.t = "prevouts"
      isPrevout(tok) == tok.t = "prevout"
      whole == SelectSeq(g, isPrevouts)
      coins == SelectSeq(g, isPrevout)
  IN  IF whole = <<>> THEN [i \in DOMAIN coins |-> coins[i].v] ELSE whole[1].v

(* Outside swap nothing is signed that the user has not agreed to: every     *)
(* output was shown under its number, except one to an own address, whose    *)
(* path was shown when it is unusual, and the fee that was shown is the      *)
(* difference of the amounts, or was said to be unknown.  This also holds    *)
(* for the later inputs, which are signed without a screen: the              *)
(* authorization hash ties them to the transaction that was shown.  It is    *)
(* checked for sessions that begin with an empty output parser.              *)
SignsWhatWasApproved ==
  swap = <<>> =>
    \A g \in sigs : \E a \in agreed : \E hidden \in SUBSET DOMAIN OutputsOf(g) :
      LET outs == OutputsOf(g)
      IN  /\ Cardinality(hidden) <= 1
          /\ \A k \in hidden : \/ outs[k].to = "usual"
                               \/ outs[k].to = "unusual" /\ a.change
          /\ a.outs = {[n |-> k, out |-> outs[k]] : k \in DOMAIN outs \ hidden}
          /\ a.fee \in {UnknownFee, TotalIn(CoinsOf(g)) - TotalOut(outs)}

(* In swap nothing is shown, and what is signed pays the requested amount to  *)
(* the requested address, the requested fee, and the rest to an own address.  *)
SwapSignsTheRequest ==
  swap # <<>> =>
    /\ d.screen.t = "none"
    /\ \A g \in sigs :
         LET outs == OutputsOf(g)
             paid == {k \in DOMAIN outs : outs[k].to # "usual"}
         IN  /\ Cardinality(paid) = 1 /\ Cardinality(DOMAIN outs \ paid) <= 1
             /\ \A k \in paid : outs[k] = [to |-> swap.to, amount |-> swap.amount]
             /\ TotalIn(CoinsOf(g)) - TotalOut(outs) = swap.fee

(* The application goes back to the exchange application when every input of  *)
(* the transaction is signed, and not earlier unless it has refused a command *)
(* (totalNumberOfInputs counts the inputs of the first pass: the later passes *)
(* of a segwit transaction have one input each).                              *)
SwapReturnsWhenSigned ==
  swap # <<>> =>
    (exited <=> \/ answer = "error"
                \/ host.session.kind = "spend" /\ Cardinality(sigs) = Len(host.session.tx.ins))

(* A trusted input states the amount of the output it names, whatever the     *)
(* parser was doing before it was asked for.                                  *)
TrustedInputsAreTrue ==
  \A ti \in issued : /\ ti.coin[1] = "earlier" /\ ti.coin[2] < Len(Earlier)
                     /\ ti.amount = ValueOf(ti.coin)

(* A session the device has to serve: the output asked for exists; the        *)
(* amounts are in order, one output at most goes to the change address, the   *)
(* outputs come in pieces the buffer can hold, and in swap the transaction is *)
(* the requested one with trusted inputs.                                     *)
InOrder(s) ==
  IF s.kind = "trusted" THEN s.target < Len(Earlier)
  ELSE LET own == {k \in DOMAIN s.tx.outs : s.tx.outs[k].to = s.tx.change}
           pieces == Outputs(s.tx.outs, s.cuts)
       IN  /\ s.again = s.tx
           /\ s.style = "untrusted" \/ TotalIn(s.tx.ins) < AmountModulus
           /\ s.style = "untrusted" \/ TotalIn(s.tx.ins) >= TotalOut(s.tx.outs)
           /\ Cardinality(own) <= 1
           /\ \A k \in DOMAIN pieces : Len(pieces[k].data) < MaxBuffered
           /\ swap # <<>> =>
                /\ s.style \in {"plain", "segwit"} /\ s.tx.change # "unusual"
                /\ \E k \in DOMAIN s.tx.outs :
                     /\ s.tx.outs[k] = [to |-> swap.to, amount |-> swap.amount]
                     /\ DOMAIN s.tx.outs = {k} \cup own
                /\ TotalIn(s.tx.ins) - TotalOut(s.tx.outs) = swap.fee

(* Such a session is answered without an error to its last command, unless    *)
(* the user refuses, another protocol comes between its commands or the       *)
(* application was halted before: nothing that an earlier session left behind *)
(* gets in its way (what it may leave in the output parser is the matter of   *)
(* NewTransactionStartsClean).                                                *)
SessionsInOrderAreServed ==
  answer \in {"error", "lost"} /\ host.session.kind # "none" =>
    host.spoiled \/ ~InOrder(host.session)

(* A new transaction starts with an empty output parser ("Master transaction  *)
(* reset", btchip_apdu_hash_input_start.c): nothing of an earlier one is in   *)
(* the buffer that its outputs will be appended to.                           *)
NewTransactionStartsClean ==
  /\ appMode = "legacy" /\ host.session.kind = "spend"
  /\ d.firstSigned /\ d.state \in {"wait_input", "input_script"}
  => OutputParserIdle

=============================================================================
