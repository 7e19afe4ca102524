------------------------------ MODULE Wallets -------------------------------
(***************************************************************************)
(* REGISTER_WALLET and GET_WALLET_ADDRESS over a sequence of commands: what *)
(* the user is shown, the hmac that a registration returns and a later      *)
(* command presents, and the address computed by the machine of Policy.     *)
(*                                                                         *)
(* A wallet is [type, name, text, keys]; its serialization may be cut short *)
(* after some fields or have bytes behind them.  Hashes are ideal: the id   *)
(* of a serialization is the serialization, and the hmac of an id is known  *)
(* to the host only once the device has returned it.                       *)
(***************************************************************************)
EXTENDS Integers, Sequences, FiniteSets, Functions

\* What the commands use of Policy: Chars, parse_policy_map and
\* parse_policy_map_key_info, the machine (StartMachine, MachineDone, Round) and
\* get_script_address.  MCWallets gives them these values.
CONSTANTS
  Length(_), ParsedTemplate(_), ParsedKey(_, _),
  ScriptStart(_), ScriptDone(_), ScriptRound(_, _, _, _, _, _), ScriptAddress(_),
  ReferenceScript(_, _),   \* the script that a policy means
  SizeT,            \* the number of values of a size_t, as of a derivation step
  Hardened          \* BIP32_FIRST_HARDENED_CHILD, half of them

CONSTANTS
  Serializations,   \* the [wallet, fields, extra] the host may register
  Asked,            \* and those whose addresses it may ask for
  Indexes,          \* the address indexes it may ask for
  OwnXpub(_),       \* the device's extended public key at a path
  CoinTypes,        \* G_coin_config->bip44_coin_type and bip44_coin_type2
  MaxAccount,       \* MAX_BIP44_ACCOUNT_RECOMMENDED
  MaxIndex,         \* MAX_BIP44_ADDRESS_INDEX_RECOMMENDED
  MaxCommands       \* bound: commands in a behaviour

MAX_POLICY_MAP_STR_LENGTH == 74
MAX_WALLET_NAME_LENGTH    == 16
BIP44_PURPOSE == [pkh |-> 44, wpkh |-> 84, sh_wpkh |-> 49, tr |-> 86]

ASSUME WidthAssumption ==
  /\ Hardened \in Nat /\ SizeT = 2 * Hardened
  /\ MaxAccount \in 0..(Hardened - 1) /\ MaxIndex \in 0..(Hardened - 1)
  /\ CoinTypes \subseteq 0..(Hardened - 1)
  /\ \A type \in DOMAIN BIP44_PURPOSE : BIP44_PURPOSE[type] < Hardened
\* A wallet has a list of keys; the steps that the parser reads are of that width.
ASSUME KeysAssumption ==
  \A s \in Serializations \cup Asked :
    /\ s.wallet.keys \in Seq(Range(s.wallet.keys))
    /\ \A key \in Range(s.wallet.keys) :
         ParsedKey(key, FALSE).path \in Seq(0..(SizeT - 1))

VARIABLES
  pc,        \* the processor to run, or "idle"
  req,       \* the command being served
  tree,      \* wallet_policy_map
  keyAt,     \* next_pubkey_index
  internal,  \* n_internal_keys
  canonical, \* is_wallet_canonical
  machine,   \* the state of call_get_wallet_script
  screen,    \* what the user is asked to approve, or <<>>
  approved,  \* the screens approved in this command
  answer,    \* the status of the last command: "none", "ok" or "error"
  fault,     \* did the host or the user fail the command?
  hmacs,     \* [id, approved]: the registrations
  given,     \* the addresses returned, with what was asked for
  commands   \* the number of commands so far
vars == <<pc, req, tree, keyAt, internal, canonical, machine, screen, approved,
          answer, fault, hmacs, given, commands>>

NoReq == [cmd |-> "none"]

Init ==
  /\ pc = "idle" /\ req = NoReq /\ tree = <<>> /\ keyAt = 0 /\ internal = 0
  /\ canonical = FALSE /\ machine = <<>> /\ screen = <<>> /\ approved = <<>>
  /\ answer = "none" /\ fault = FALSE /\ hmacs = {} /\ given = {} /\ commands = 0

\* SEND_SW of an error, SEND_RESPONSE, a screen, and dc->next.
Finish(sw) == pc' = "idle" /\ answer' = sw /\ screen' = <<>>
Error == Finish("error")
Show(what, next) == screen' = what /\ pc' = next /\ UNCHANGED answer
Next_(p) == pc' = p /\ UNCHANGED <<screen, answer>>

(* ----------------------------- serialization --------------------------- *)
\* The fields are the type, the length of the name, the name, the length of the
\* template, the template, the number of keys and the root of their Merkle tree.
read_policy_map_wallet(s) ==
  IF s.fields < 1 THEN -1
  ELSE IF s.wallet.type # 1 THEN -2
  ELSE IF s.fields < 2 THEN -3
  ELSE IF Len(s.wallet.name) > MAX_WALLET_NAME_LENGTH THEN -4
  ELSE IF s.fields < 3 THEN -5
  ELSE IF s.fields < 4 \/ Length(s.wallet.text) > MAX_POLICY_MAP_STR_LENGTH THEN -6
  ELSE IF s.fields < 5 THEN -8
  ELSE IF s.fields < 6 THEN -9
  ELSE IF s.fields < 7 THEN -10 ELSE 0

\* Hashes what was read, not what was sent.
get_policy_wallet_id(s) == [wallet |-> s.wallet, fields |-> 7, extra |-> FALSE]

\* A name is a sequence of characters: " ", "c" a printable one, "x" another.
is_policy_name_acceptable(name) ==
  /\ name # <<>> /\ Len(name) <= MAX_WALLET_NAME_LENGTH
  /\ name[1] # " " /\ name[Len(name)] # " "
  /\ \A i \in DOMAIN name : name[i] # "x"

is_policy_acceptable(node) ==
  LET multi(n) == n.type \in {"multi", "sortedmulti"}
  IN CASE node.type = "sh" -> multi(IF node.script.type = "wsh" THEN node.script.script
                                    ELSE node.script)
       [] node.type = "wsh" -> multi(node.script)
       [] OTHER -> FALSE

(* ----------------------------- registration ---------------------------- *)
\* apdu_dispatcher clears the state of the previous command.
\* Mutant: the count of internal keys survives.
ClearStateButCount ==
  /\ keyAt' = 0 /\ canonical' = FALSE /\ machine' = <<>> /\ approved' = <<>>
  /\ UNCHANGED internal
ClearState ==
  /\ keyAt' = 0 /\ internal' = 0 /\ canonical' = FALSE /\ machine' = <<>> /\ approved' = <<>>

\* Bound: the host asks for one address, last of all.
NewCommand(r, failed) ==
  /\ pc = "idle" /\ commands < MaxCommands
  /\ commands' = IF r.cmd = "address" THEN MaxCommands ELSE commands + 1
  /\ req' = r /\ fault' = failed
  /\ UNCHANGED <<hmacs, given>>

\* The device is locked, the data too short, a length or the change out of range:
\* the handlers return before they read a wallet.
EarlyReturn ==
  /\ NewCommand(NoReq, TRUE) /\ ClearState /\ Error /\ tree' = <<>>

handler_register_wallet(s) ==
  /\ NewCommand([cmd |-> "register", s |-> s], FALSE) /\ ClearState
  /\ \E parsed \in {ParsedTemplate(s.wallet.text)} :
       /\ tree' = parsed.node
       /\ IF \/ read_policy_map_wallet(s) < 0 \/ parsed.res < 0
             \/ ~is_policy_name_acceptable(s.wallet.name)
          THEN Error
          ELSE IF ~is_policy_acceptable(parsed.node) THEN Error
          ELSE Show([name |-> s.wallet.name, text |-> s.wallet.text], "process_cosigner_info")

Keys == req.s.wallet.keys

\* Mutant: the fingerprint alone decides.
IsInternalByFingerprint(info) == info.fp = "ours"
\* The key is the device's own if its fingerprint is and the derived key agrees.
IsInternal(info) == info.fp = "ours" /\ OwnXpub(info.path) = info.xpub

process_cosigner_info(lost) ==
  /\ pc = "process_cosigner_info" /\ screen = <<>>
  /\ fault' = (fault \/ lost)
  /\ IF lost \/ keyAt >= Len(Keys) THEN Error /\ UNCHANGED internal
     ELSE \E info \in {ParsedKey(Keys[keyAt + 1], FALSE)} :
            IF ~info.ok \/ ~info.origin \/ ~info.wildcard THEN Error /\ UNCHANGED internal
            ELSE /\ internal' = internal + (IF IsInternal(info) THEN 1 ELSE 0)
                 /\ Show([key |-> Keys[keyAt + 1], index |-> keyAt, ours |-> IsInternal(info)],
                         "next_cosigner")
  /\ UNCHANGED <<req, tree, keyAt, canonical, machine, approved, hmacs, given, commands>>

next_cosigner ==
  /\ pc = "next_cosigner" /\ screen = <<>>
  /\ keyAt' = keyAt + 1
  /\ Next_(IF keyAt + 1 < Len(Keys) THEN "process_cosigner_info" ELSE "finalize_response")
  /\ UNCHANGED <<req, tree, internal, canonical, machine, approved, fault, hmacs, given, commands>>

finalize_response ==
  /\ pc = "finalize_response"
  /\ IF internal # 1 THEN Error /\ UNCHANGED hmacs
     ELSE /\ Finish("ok")
          /\ hmacs' = hmacs \cup {[id |-> get_policy_wallet_id(req.s), approved |-> approved]}
  /\ UNCHANGED <<req, tree, keyAt, internal, canonical, machine, approved, fault, given, commands>>

(* ------------------------------ addresses ------------------------------ *)
Xor(v) == (v + Hardened) % SizeT       \* v ^ BIP32_FIRST_HARDENED_CHILD
get_policy_address_type(node) ==
  IF node.type \in {"pkh", "wpkh", "tr"} THEN node.type
  ELSE IF node.type = "sh" /\ node.script.type = "wpkh" THEN "sh_wpkh" ELSE "none"
get_bip44_purpose(type) == BIP44_PURPOSE[type]

is_pubkey_path_standard(path, purpose) ==
  /\ Len(path) \in 2..3
  /\ path[1] = Xor(purpose)
  /\ path[2] >= Hardened /\ Xor(path[2]) \in CoinTypes
  /\ Len(path) = 3 => Xor(path[3]) <= MaxAccount

\* Called with the five steps of an address, and -1 for the expected change.
is_address_path_standard(path, purpose) ==
  /\ Len(path) = 5 /\ is_pubkey_path_standard(SubSeq(path, 1, 3), purpose)
  /\ path[4] \in {0, 1} /\ path[5] <= MaxIndex

\* A wallet without hmac: one key, our own, at a standard path.
CanonicalOk(s, node, lost, change, i) ==
  /\ get_policy_address_type(node) # "none"
  /\ Len(s.wallet.keys) = 1 /\ ~lost
  /\ \E info \in {ParsedKey(s.wallet.keys[1], FALSE)} :
       /\ info.ok /\ IsInternal(info)
       /\ Len(info.path) = 3
       /\ is_address_path_standard(info.path \o <<change, i>>,
                                   get_bip44_purpose(get_policy_address_type(node)))

\* Mutant: the hmac of any registered wallet will do.
check_wallet_hmacAny(id, hmac) == hmac # <<"wrong">>
check_wallet_hmac(id, hmac) == hmac = <<"of", id>>

NoHmac == <<>>
handler_get_wallet_address(s, hmac, change, i, display, lost) ==
  /\ NewCommand([cmd |-> "address", s |-> s, hmac |-> hmac, change |-> change, i |-> i,
                 display |-> display], lost)
  /\ \E parsed \in {ParsedTemplate(s.wallet.text)} :
       /\ tree' = parsed.node
       /\ IF \/ read_policy_map_wallet(s) < 0 \/ parsed.res < 0
             \/ (hmac = NoHmac /\ ~CanonicalOk(s, parsed.node, lost, change, i))
             \/ (hmac # NoHmac /\ ~check_wallet_hmac(s, hmac))
             \/ get_policy_wallet_id(s) # s
          THEN Error /\ ClearState
          ELSE /\ Next_("compute_address")
               /\ canonical' = (hmac = NoHmac) /\ machine' = ScriptStart(parsed.node)
               /\ keyAt' = 0 /\ internal' = 0 /\ approved' = <<>>

\* The script has room for MAX_PREVOUT_SCRIPTPUBKEY_LEN bytes.
ScriptRoom == 34
get_wallet_script_round(lookup) ==
  /\ pc = "compute_address" /\ ~ScriptDone(machine)
  /\ machine' = ScriptRound(machine, ScriptRoom, Keys, lookup, req.change, req.i)
  /\ fault' = (fault \/ lookup.at >= 0)
  /\ UNCHANGED <<pc, req, tree, keyAt, internal, canonical, screen, approved, answer, hmacs,
                 given, commands>>

compute_address ==
  /\ pc = "compute_address" /\ ScriptDone(machine)
  /\ IF machine.ret < 0 \/ ScriptAddress(machine.out) = <<>> THEN Error
     ELSE IF ~req.display THEN Next_("send_response")
     ELSE Show([name |-> IF canonical THEN <<>> ELSE req.s.wallet.name,
                address |-> ScriptAddress(machine.out)], "send_response")
  /\ UNCHANGED <<req, tree, keyAt, internal, canonical, machine, approved, fault, hmacs, given,
                 commands>>

send_response ==
  /\ pc = "send_response" /\ screen = <<>>
  /\ Finish("ok")
  /\ given' = given \cup {[s |-> req.s, tree |-> tree, canonical |-> canonical,
                           change |-> req.change, i |-> req.i, display |-> req.display,
                           approved |-> approved, address |-> ScriptAddress(machine.out)]}
  /\ UNCHANGED <<req, tree, keyAt, internal, canonical, machine, approved, fault, hmacs, commands>>

(* ------------------------------- the user ------------------------------ *)
Approve ==
  /\ screen # <<>>
  /\ approved' = Append(approved, screen) /\ screen' = <<>>
  /\ UNCHANGED <<pc, req, tree, keyAt, internal, canonical, machine, answer, fault, hmacs,
                 given, commands>>
Deny ==
  /\ screen # <<>>
  /\ Error /\ fault' = TRUE
  /\ UNCHANGED <<req, tree, keyAt, internal, canonical, machine, approved, hmacs, given, commands>>

\* The host serves every key, or one of them is lost with a code.
Stale == {Keys[k] : k \in DOMAIN Keys}
Lookups ==
  {[at |-> -1, code |-> -1, stale |-> <<>>]}
  \cup [at : 0..(Len(Keys) - 1), code : {-1, -2}, stale : Stale]

Hmacs == {NoHmac, <<"wrong">>} \cup {<<"of", h.id>> : h \in hmacs}

Next ==
  \/ EarlyReturn
  \/ \E s \in Serializations : handler_register_wallet(s)
  \/ \E s \in Asked, h \in Hmacs, c \in {0, 1}, i \in Indexes, d \in BOOLEAN :
       \E lost \in IF h = NoHmac THEN BOOLEAN ELSE {FALSE} :
         handler_get_wallet_address(s, h, c, i, d, lost)
  \/ \E lost \in BOOLEAN : process_cosigner_info(lost)
  \/ next_cosigner \/ finalize_response
  \/ pc = "compute_address" /\ \E lookup \in Lookups : get_wallet_script_round(lookup)
  \/ compute_address \/ send_response
  \/ Approve \/ Deny

Spec == Init /\ [][Next]_vars

-----------------------------------------------------------------------------
(* ------------------------------ properties ----------------------------- *)
\* The information in the text of a key as doc/wallet.md writes it.
AsWritten(key) == ParsedKey(key, FALSE)
Ours(key) == AsWritten(key).fp = "ours" /\ AsWritten(key).xpub = OwnXpub(AsWritten(key).path)

\* What the user has to see of a wallet: its name and template, then each key
\* in order, marked as the device's own or as another's.
Review(w) ==
  <<[name |-> w.name, text |-> w.text]>>
  \o [k \in DOMAIN w.keys |-> [key |-> w.keys[k], index |-> k - 1, ours |-> Ours(w.keys[k])]]

(* The hmac of a wallet is returned only after the user has approved its name, *)
(* its template and every one of its keys, in order and in that one command,   *)
(* and exactly one key is the device's own, whatever commands were refused or  *)
(* abandoned before (process_cosigner_info, next_cosigner, finalize_response). *)
RegisteredAsReviewed ==
  \A h \in hmacs : /\ h.approved = Review(h.id.wallet)
                   /\ Cardinality({k \in DOMAIN h.id.wallet.keys : Ours(h.id.wallet.keys[k])}) = 1

Policies == {<<"pkh", 44>>, <<"wpkh", 84>>, <<"tr", 86>>}
Purpose(node) == IF node.type = "sh" /\ node.script.type = "wpkh" THEN 49
                 ELSE IF \E p \in Policies : p[1] = node.type
                 THEN (CHOOSE p \in Policies : p[1] = node.type)[2] ELSE -1

(* An address is computed for a wallet registered before, or for one of the    *)
(* four default policies with a single key, the device's own, at the path that *)
(* the policy's BIP reserves for it (handler_get_wallet_address).              *)
OnlyKnownWallets ==
  \A g \in given :
    IF g.canonical
    THEN /\ Len(g.s.wallet.keys) = 1 /\ Ours(g.s.wallet.keys[1])
         /\ \E account \in 0..MaxAccount, coin \in CoinTypes :
              AsWritten(g.s.wallet.keys[1]).path =
                <<Purpose(g.tree) + Hardened, coin + Hardened, account + Hardened>>
         /\ g.i <= MaxIndex
    ELSE \E h \in hmacs : h.id.wallet = g.s.wallet

\* The public keys of a wallet at a derivation, and the address of its script.
Pubs(keys, change, i) ==
  [k \in DOMAIN keys |-> [xpub |-> AsWritten(keys[k]).xpub,
                          steps |-> IF AsWritten(keys[k]).wildcard THEN <<change, i>> ELSE <<>>]]
AddressOf(g) == ScriptAddress(ReferenceScript(g.tree, Pubs(g.s.wallet.keys, g.change, g.i)))
Right(g) == /\ g.address = AddressOf(g)
            /\ g.display => g.approved = <<[name |-> IF g.canonical THEN <<>> ELSE g.s.wallet.name,
                                            address |-> AddressOf(g)]>>

(* The address that is returned, and the one that is shown, is that of the     *)
(* wallet's script at the derivation asked for, though the machine computes    *)
(* nested scripts with one shared hash context and reads the keys from a host   *)
(* whose lookups may fail (call_get_wallet_script).  For the indexes that can   *)
(* be derived from a public key.                                               *)
AddressesAreRight == \A g \in given : g.i < Hardened => Right(g)

\* What doc/wallet.md promises to register, and to give addresses of.
Multi(node) == node.type \in {"multi", "sortedmulti"}
Supported(node) ==
  \/ node.type \in {"sh", "wsh"} /\ Multi(node.script)
  \/ node.type = "sh" /\ node.script.type = "wsh" /\ Multi(node.script.script)
Whole(s) == s.fields = 7 /\ ~s.extra /\ s.wallet.type = 1
KeyOk(key) == AsWritten(key).ok /\ AsWritten(key).origin /\ AsWritten(key).wildcard
Placed(node, w) == \A k \in DOMAIN node.keys : node.keys[k] < Len(w.keys)
                                            /\ AsWritten(w.keys[node.keys[k] + 1]).xpub # "bad"
Registrable(s, t) ==
  /\ Whole(s) /\ t # <<>> /\ Supported(t)
  /\ s.wallet.name \in {<<"c">>, <<"c", " ", "c">>} /\ s.wallet.keys # <<>>
  /\ \A k \in DOMAIN s.wallet.keys : KeyOk(s.wallet.keys[k])
  /\ Cardinality({k \in DOMAIN s.wallet.keys : Ours(s.wallet.keys[k])}) = 1
Innermost(t) == IF Multi(t.script) THEN t.script ELSE t.script.script
Addressable(r, t) ==
  /\ Registrable(r.s, t) /\ Placed(Innermost(t), r.s.wallet) /\ r.hmac = <<"of", r.s>>

(* A command is refused only for a reason: a wallet of a supported kind is     *)
(* registered and its addresses are given if the user approves and the host    *)
(* answers, whatever was refused, denied or cut short before it.               *)
HonestServed ==
  (pc = "idle" /\ answer = "error" /\ ~fault) =>
    /\ req.cmd = "register" => ~Registrable(req.s, tree)
    /\ req.cmd = "address" => ~Addressable(req, tree)
=============================================================================
