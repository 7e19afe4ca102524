---------------------------- MODULE MCAlgorithms ----------------------------
(***************************************************************************)
(* The pure algorithms of the application.  An initial state is a task: an   *)
(* operation and its input.  The one step computes the result, and the       *)
(* properties compare it with what the result means.                        *)
(***************************************************************************)
EXTENDS KeyCommands, Encodings, FiniteSetsExt

VARIABLES task, result

MCRank(pub) == 0
vars == <<task, result>>

(* ------------------------------ the inputs ----------------------------- *)
\* Amounts: every one of a byte, and around the digits' ends for two bytes.
Word(n) == <<n \div 256, n % 256>>
Amounts ==
  {<<>>, <<0, 0, 7>>} \cup {<<b>> : b \in 0..255}
  \cup {Word(n) : n \in (990..1030) \cup (9990..10010) \cup (32760..32775) \cup (65500..65535)}
  \cup {Word(100 * n) : n \in 0..99}

\* OP_RETURN outputs: what is pushed and how, and bytes more or less than that.
Payload(n, b) == [i \in 1..n |-> IF i = n THEN b ELSE (37 * i) % 256]
Pushes ==
  [how : {"direct"}, data : {Payload(n, b) : n \in 1..75, b \in {0, 255}}, more : {-1, 0, 1}]
  \cup [how : {"pushdata1"}, data : {Payload(n, b) : n \in 0..82, b \in {15, 16}}, more : {-1, 0, 1}]
  \cup [how : {"number"}, data : {<<n>> : n \in -1..17}, more : {0, 1}]
Script(p) ==
  LET n == Len(p.data)
      op == CASE p.how = "direct" -> <<n>> \o p.data
              [] p.how = "pushdata1" -> <<76, n>> \o p.data
              [] p.how = "number" -> <<IF p.data[1] = 0 THEN 0 ELSE 80 + p.data[1]>>
      whole == <<OP_RETURN>> \o op
  IN IF p.more < 0 THEN Front(whole) ELSE whole \o [i \in 1..p.more |-> 1]

Steps == {0, 9, 10, Hardened - 1, Hardened, 2 * Hardened - 1}
Paths == UNION {[1..n -> Steps] : n \in 1..3} \cup {[k \in 1..n |-> s] : n \in 4..6, s \in Steps}

\* Texts of templates and of key informations, with one symbol too many, too
\* few or in the place of another.  Their numbers fit a size_t.
Edits(text, symbols) ==
  {text}
  \cup {RemoveAt(text, k) : k \in DOMAIN text}
  \cup {InsertAt(text, k, s) : k \in 1..(Len(text) + 1), s \in symbols}
  \cup {ReplaceAt(text, k, s) : k \in DOMAIN text, s \in symbols}
KeyOf(t, k) == [type |-> t, key |-> k]
MultiOf(t, k, keys) == [type |-> t, k |-> k, keys |-> keys]
Within(t, node) == [type |-> t, script |-> node]
Trees ==
  {KeyOf("pkh", 0), KeyOf("tr", 10), Within("sh", KeyOf("wpkh", 0)),
   Within("wsh", MultiOf("multi", 1, <<0>>)), Within("sh", MultiOf("sortedmulti", 2, <<1, 0>>)),
   Within("sh", Within("wsh", MultiOf("sortedmulti", 3, <<0, 1, 2, 3, 4>>)))}
Templates ==
  UNION {Edits(Written(t), KNOWN_TOKENS \cup {"yolo", "@", ",", "(", ")", "0", "1", "6"}) : t \in Trees}
KeyTexts ==
  UNION {Edits(k, {"[", "]", "/", "'", "0", "1", "theirs", "xpub", "/**", "*"}) :
           k \in {<<"xpub">>, <<"xpub", "/**">>, <<"[", "ours", "]", "xpub">>,
                  <<"[", "ours", "/", "4", "8", "'", "/", "1", "]", "xpub", "/**">>,
                  <<"[", "ours", "/", "1", "/", "1", "/", "1", "/", "1", "/", "1", "]", "xpub", "/**">>}}

\* Bytes for base 58, and texts.
Base58Bytes ==
  UNION {[1..n -> {0, 1, 57, 58, 255}] : n \in 0..3} \cup [1..4 -> {0, 1, 58}]
  \cup {Zeros(z) \o [i \in 1..(10 - z) |-> (b * i) % 256] : z \in 0..2, b \in {1, 41, 255}}
Base58Texts == UNION {[1..n -> {48, 49, 50, 90, 108, 122}] : n \in 1..4}

Program(n, b) == [i \in 1..n |-> (b * i) % 256]
Bc == <<98, 99>>
\* A witness program, and a character put in a place of its address; 0 for none.
Programs ==
  [ver : {0, 1, 2, 16, 17}, prog : {Program(n, 37) : n \in {1, 2, 3, 20, 32, 40, 41}}, at : {0}, put : {0}]
  \cup [ver : {0, 1}, prog : {Program(20, 37)}, at : 1..42, put : {48, 49, 112, 113, 108, 81}]
Hashes == {Program(20, b) : b \in {0, 1, 5, 37, 255}} \cup {Program(19, 1)}

\* A curve of 31 points over the field of 43 elements; hashes of six bits.
MCHmac(chain, data, index) ==
  LET datum == IF index >= Hardened THEN data ELSE 64 * data.prefix + data.x
  IN <<1 + ((7 * chain + 5 * datum + 11 * index) % 34), (3 * chain + datum + 13 * index + 5) % 64>>
MCTapTweak(x) == (5 * x * x + 11 * x + 3) % 64
K == INSTANCE Keys WITH P <- 43, N <- 31, G <- <<2, 12>>, Seed <- [key |-> 5, chain |-> 9],
                        Hmac <- MCHmac, TapTweak <- MCTapTweak
Derivations ==
  [path : UNION {[1..n -> {0, 1, Hardened, Hardened + 1}] : n \in 0..3}, index : (0..4) \cup {Hardened - 1, Hardened},
   deep : BOOLEAN]
Bitcoin == [p2pkh_version |-> 0, p2sh_version |-> 5, prefix |-> Bc]
\* The key at path, how many of the steps are announced, the bytes that follow
\* them, and which address is asked about.
Checks ==
  [format : K!Formats, asked : K!Formats \cup {"none"},
   path : {<<Hardened + p, Hardened, Hardened + a, c, i>> : p \in {44, 49, 84, 86}, a \in 0..1, c \in 0..1, i \in 0..3},
   count : {5}, extra : {0}]
  \cup [format : {"legacy"}, asked : {"legacy"}, path : {<<Hardened + 44, Hardened, Hardened, 0, 1>>},
        count : 0..11, extra : 0..3]

\* Paths around the ones that doc/bitcoin.md:103 calls standard, and a command
\* that ends with the path or up to five bytes before.
CoinTypes == {0, 2}
H(step) == Hardened + step
Accounts(purposes, more) ==
  {<<H(p), H(c), H(a)>> \o m : p \in purposes, c \in CoinTypes,
                              a \in 0..MAX_BIP44_ACCOUNT_RECOMMENDED, m \in more}
StandardPaths ==
  LET accounts == Accounts({44, 49, 84, 86}, {<<>>}) \cup Accounts({48}, {<<H(1)>>, <<H(2)>>})
  IN accounts \cup {a \o <<change, i>> : a \in accounts, change \in 0..1,
                                         i \in 0..MAX_BIP44_ADDRESS_INDEX_RECOMMENDED}
ExportSteps ==
  LET low == {0, 1, 2, 3, 44, 48, 49, 84, MAX_BIP44_ACCOUNT_RECOMMENDED + 1,
              MAX_BIP44_ADDRESS_INDEX_RECOMMENDED + 1}
  IN low \cup {H(step) : step \in low}
ExportPaths ==
  UNION {Edits(p, ExportSteps) :
           p \in {<<>>, <<H(84), H(0), H(3)>>, <<H(44), H(2), H(0), 1, 5>>, <<H(48), H(0), H(1), H(2)>>,
                  <<H(48), H(2), H(3), H(1), 0, 0>>}}
Exports ==
  {[display |-> d, words |-> p, count |-> Len(p), have |-> 4 * Len(p) - less] :
     d \in 0..2, p \in ExportPaths, less \in {0, 4, 5}}

\* Messages, and the leaf that the client has wrong: missing or of another length.
MessageOf(n) == [i \in 1..n |-> i]
Pieces(n) == Cardinality({i \in 1..n : i % CHUNK = 1})
LeavesOf(n) ==
  [i \in 1..Pieces(n) |-> SubSeq(MessageOf(n), CHUNK * (i - 1) + 1, Min({CHUNK * i, n}))]
Messages ==
  {[length |-> n, leaves |-> LeavesOf(n), path |-> p] :
     n \in 0..MAX_MESSAGE + 1, p \in {<<>>, <<H(44), 1>>, [i \in 1..7 |-> i]}}
  \cup {[length |-> n, leaves |-> [LeavesOf(n) EXCEPT ![1] = wrong], path |-> <<1>>] :
          n \in 1..MAX_MESSAGE - 1, wrong \in {Undefined} \cup {MessageOf(k) : k \in 0..CHUNK + 1}}

Scalars == [1..SCALAR -> {0, 1, 127, 128, 255}] \ {Zeros(SCALAR)}
\* A number as DER has it: no zero in front but the one that clears the sign.
RECURSIVE Der(_)
Der(number) ==
  IF number[1] = 0 THEN Der(Tail(number))
  ELSE IF number[1] >= 128 THEN <<0>> \o number ELSE number

(* -------------------------------- the tasks ---------------------------- *)
Waiting == <<>>
Init ==
  /\ result = Waiting
  /\ \/ \E a \in Amounts : task = <<"amount", a>>
     \/ \E p \in Pushes : task = <<"push", p>>
     \/ \E p \in Paths : task = <<"path", p>>
     \/ \E t \in Templates : task = <<"template", t>>
     \/ \E t \in KeyTexts : task = <<"key_info", t>>
     \/ \E b \in Base58Bytes : task = <<"base58_encode", b>>
     \/ \E t \in Base58Texts : task = <<"base58_decode", t>>
     \/ \E p \in Programs : task = <<"program", p>>
     \/ \E h \in Hashes : task = <<"cash", h>>
     \/ \E d \in Derivations : task = <<"derive", d>>
     \/ \E k \in 1..30 : task = <<"tweak", k>>
     \/ \E c \in Checks : task = <<"check", c>>
     \/ \E e \in Exports : task = <<"export", e>>
     \/ \E d \in Messages : task = <<"message", d>>
     \/ \E r, s \in Scalars, odd \in 0..1 : task = <<"signature", <<r, s, odd>>>>

Does(kind) == result = Waiting /\ task[1] = kind /\ UNCHANGED task
Input == task[2]
Give(r) == result' = r

FormatAmount ==
  /\ Does("amount")
  /\ Give([sats |-> IF Len(Input) > AMOUNT_BYTES THEN <<>> ELSE format_sats_amount(read_u64_be(Input)),
           swap |-> handle_get_printable_amount(Input, DECIMALS),
           peercoin |-> handle_get_printable_amount(Input, DECIMALS - 1),
           copied |-> copy_transaction_parameters([amount |-> Input, fees |-> <<1>>, address |-> Bc])])
FormatOpReturn == Does("push") /\ Give(format_opscript_script(Script(Input)))
FormatPath == Does("path") /\ Give(bip32_path_format(Input, MAX_SERIALIZED_BIP32_PATH_LENGTH + 1))
ParseTemplate == Does("template") /\ Give(parse_policy_map(Input))
ParseKeyInfo == Does("key_info") /\ Give(parse_policy_map_key_info(Input, FALSE))

EncodeBase58 ==
  /\ Does("base58_encode")
  /\ \E e \in {base58_encode(Input, 120)} : Give([text |-> e, back |-> base58_decode(e.out, 120)])
DecodeBase58 ==
  /\ Does("base58_decode")
  /\ \E d \in {base58_decode(Input, 120)} : Give([bytes |-> d, back |-> base58_encode(d.out, 120)])

Put(text, at, c) == IF at = 0 THEN text ELSE [text EXCEPT ![at] = c]
EncodeProgram ==
  /\ Does("program")
  /\ \E e \in {segwit_addr_encode(Bc, Input.ver, Input.prog)} :
       Give([text |-> e, back |-> segwit_addr_decode(Bc, Put(e.out, Input.at, Input.put))])
EncodeCash == Does("cash") /\ Give(cashaddr_encode(Input, 50, "p2sh"))

Exists(path) == K!os_perso_derive_node_bip32(path) # <<>>
DeriveKey ==
  /\ Does("derive")
  /\ \E m \in {K!get_serialized_extended_pubkey_at_path(Input.path)} :
       Give([above |-> Exists(Input.path), below |-> Exists(Append(Input.path, Input.index)),
             private |-> K!get_serialized_extended_pubkey_at_path(Append(Input.path, Input.index)),
             public |-> IF ~Exists(Input.path) THEN K!Refused(0)
                        ELSE K!bip32_CKDpub(IF Input.deep THEN [m EXCEPT !.depth = 255] ELSE m,
                                            Input.index)])
TweakKey ==
  /\ Does("tweak")
  /\ Give([public |-> K!crypto_tr_tweak_pubkey(K!secp256k1_point(Input)[1]),
           secret |-> K!crypto_tr_tweak_seckey(Input)])

\* The key of a wallet at path, derived from the account's public key.
Public(path) ==
  LET change(m) == K!bip32_CKDpub(m, path[4])
      index(c) == IF c.ret < 0 THEN c ELSE K!bip32_CKDpub(c.child, path[5])
  IN index(change(K!get_serialized_extended_pubkey_at_path(SubSeq(path, 1, 3))))
\* Its address in a format.
AddressIn(format, pub) ==
  CASE format = "legacy" -> <<"base58", 0, K!crypto_hash160(pub)>>
    [] format = "segwit" -> <<"base58", 5, K!crypto_hash160(<<0, 20, K!crypto_hash160(pub)>>)>>
    [] format = "native_segwit" -> <<"bech32", <<Bc, 0>>, K!crypto_hash160(pub)>>
    [] format = "cashaddr" -> <<"cashaddr", "p2pkh", K!crypto_hash160(pub)>>
    [] format = "taproot" -> <<"bech32", <<Bc, 1>>, <<"tweaked", K!crypto_tr_tweak_pubkey(pub.x).x>>>>
    [] OTHER -> <<>>
CheckAddress ==
  /\ Does("check")
  /\ \E pub \in {IF Exists(SubSeq(Input.path, 1, 3)) THEN Public(Input.path) ELSE K!Refused(0)} :
       Give([derived |-> pub.child # <<>> /\ K!crypto_tr_tweak_pubkey(pub.child.key.x).ok,
             agrees |-> /\ pub.child # <<>>
                        /\ K!handle_check_address(
                             [format |-> Input.format, count |-> Input.count, words |-> Input.path,
                              extra |-> Input.extra, address |-> AddressIn(Input.asked, pub.child.key)],
                             Bitcoin)])

ExportKey == Does("export") /\ Give(handler_get_extended_pubkey(Input, CoinTypes))
SignMessage == Does("message") /\ Give(handler_sign_message(Input))
Compact == Does("signature") /\ Give(CompactSignature(Der(Input[1]), Der(Input[2]), Input[3]))

Next == \/ FormatAmount \/ FormatOpReturn \/ FormatPath \/ ParseTemplate \/ ParseKeyInfo
        \/ EncodeBase58 \/ DecodeBase58 \/ EncodeProgram \/ EncodeCash
        \/ DeriveKey \/ TweakKey \/ CheckAddress
        \/ ExportKey \/ SignMessage \/ Compact
Spec == Init /\ [][Next]_vars

(* ------------------------------ properties ----------------------------- *)
Done(kind) == task[1] = kind /\ result # Waiting

\* The number that a decimal text with up to d digits of fraction stands for, in
\* units of its last possible digit; -1 if it is not written the shortest way.
RECURSIVE Number(_)
Number(digits) == IF digits = <<>> THEN 0 ELSE 10 * Number(Front(digits)) + Last(digits) - 48
ReadAmount(text, d) ==
  LET dot == SelectInSeq(text, LAMBDA c : c = 46)
      whole == IF dot = 0 THEN text ELSE SubSeq(text, 1, dot - 1)
      part == IF dot = 0 THEN <<>> ELSE SubSeq(text, dot + 1, Len(text))
  IN IF \/ whole = <<>> \/ Len(part) > d \/ (dot > 0 /\ (part = <<>> \/ Last(part) = 48))
        \/ (Len(whole) > 1 /\ whole[1] = 48) \/ \E i \in DOMAIN (whole \o part) : (whole \o part)[i] \notin 48..57
     THEN -1 ELSE Number(whole) * 10^d + Number(part) * 10^(d - Len(part))

\* The amount as shown, by either converter, and as kept for the swap.
AmountShown ==
  LET v == read_u64_be(Input)
  IN IF Len(Input) > AMOUNT_BYTES THEN ~result.copied.ok /\ result.swap = <<>>
     ELSE /\ ReadAmount(result.sats, DECIMALS) = v /\ result.swap = result.sats
          /\ ReadAmount(result.peercoin, DECIMALS - 1) = v
          /\ Len(result.sats) <= SCRATCH_SIZE
          /\ result.copied.ok /\ result.copied.amount = v /\ result.copied.fees = 1

HexValue(c) == IF c >= 97 THEN c - 87 ELSE c - 48
Shown(p) ==
  LET body == SubSeq(result.out, 11, Len(result.out) - 1)
  IN /\ SubSeq(result.out, 1, 10) = Prefix /\ Last(result.out) = 0
     /\ IF p.how = "number"
        THEN body = (IF p.data[1] < 0 THEN <<45, 49>>
                     ELSE IF p.data[1] > 9 THEN <<49, 38 + p.data[1]>> ELSE <<48 + p.data[1]>>)
        ELSE \/ p.data = <<>> /\ body = <<>>
             \/ /\ SubSeq(body, 1, 2) = <<48, 120>> /\ Len(body) = 2 + 2 * Len(p.data)
                /\ \A i \in DOMAIN p.data :
                     p.data[i] = 16 * HexValue(body[2 * i + 1]) + HexValue(body[2 * i + 2])

ReadsAs(text, path) ==
  IF path = <<>> THEN text = <<"(Master key)">>
  ELSE OriginSteps(<<"/">> \o text, 0, NoInfo).path = path
ExportShown ==
  LET standard == Input.words \in StandardPaths
  IN /\ Input.have = 4 * Input.count =>
          (result.ok <=> /\ Input.display <= 1 /\ Input.count <= MAX_BIP32_PATH_STEPS
                         /\ Input.display = 1 \/ standard)
     /\ result.ok /\ Input.display = 0 => standard /\ result.screen = <<>>
     /\ result.ok /\ Input.display = 1 =>
          /\ result.screen[1].warns <=> ~standard
          /\ ReadsAs(result.screen[1].text, result.path)
MessageShown ==
  /\ Input.leaves = LeavesOf(Input.length) =>
       (result.ok <=> Input.length < MAX_MESSAGE /\ Len(Input.path) <= MAX_BIP32_PATH_STEPS)
  /\ result.ok /\ Input.leaves = LeavesOf(Input.length) =>
       /\ result.shown = MessageOf(Input.length) /\ ReadsAs(result.text, Input.path)
       /\ result.signed = [length |-> Input.length, data |-> result.shown]
  /\ result.ok => Len(result.shown) >= CHUNK * (Pieces(Input.length) - 1)

(* What a screen shows reads back as what is signed.  Whichever of the two        *)
(* converters shows an amount, the text is the shortest one of that amount and     *)
(* fits its buffer: the quotients found by a search in display_utils.c, and the     *)
(* digits shifted through btchip_bcd.c; and the amount that the exchange           *)
(* application had shown is the one that a swap is compared with, however many     *)
(* bytes it was given in.  An OP_RETURN output shows exactly the data it pushes; a  *)
(* byte more or less than the push, or more than 80 bytes of data, is refused       *)
(* (format_opscript_script).  A derivation path of up to six steps is shown in      *)
(* full, though the formatter does not notice a number that it cuts                *)
(* (bip32_path_format).  An extended public key leaves the device without a screen  *)
(* exactly at the paths that doc/bitcoin.md:103 calls standard, and at any other    *)
(* only with its path shown and a warning; and the hash of a message is shown for   *)
(* the message that is signed, in as many leaves as its length takes.               *)
ScreensReadBack ==
  /\ Done("amount") => AmountShown
  /\ Done("push") =>
       /\ result.ok <=> /\ Input.more = 0 /\ Len(Input.data) <= 80
                        /\ Input.how = "number" => Input.data[1] <= 16
       /\ result.ok => Shown(Input) /\ Len(result.out) <= MAX_OPRETURN_OUTPUT_DESC_SIZE
  /\ Done("path") =>
       result.ok /\ ReadsAs(result.out, Input)
  /\ Done("export") => ExportShown
  /\ Done("message") => MessageShown

\* A text is read as written if the template of the result is that text.  What
\* stands where a parenthesis is due is not looked at.
AsTemplate(text, written) ==
  /\ Len(text) = Len(written)
  /\ \A i \in DOMAIN text : written[i] \in {"(", ")"} \/ text[i] = written[i]
RECURSIVE ThresholdsOk(_)
ThresholdsOk(node) ==
  CASE node.type \in {"sh", "wsh"} -> ThresholdsOk(node.script)
    [] node.type \in {"multi", "sortedmulti"} -> node.k \in 1..Len(node.keys) /\ Len(node.keys) <= 5
    [] OTHER -> TRUE
AsKeyText(info) ==
  (IF info.origin
   THEN <<"[", info.fp>>
        \o FlattenSeq([k \in DOMAIN info.path |->
             <<"/">> \o Decimal(info.path[k] % Hardened) \o (IF info.path[k] >= Hardened THEN <<"'">> ELSE <<>>)])
        \o <<"]">>
   ELSE <<>>) \o (IF info.xpub = "" THEN <<>> ELSE <<info.xpub>>) \o (IF info.wildcard THEN <<"/**">> ELSE <<>>)

(* The parsers of wallet.c accept what doc/wallet.md writes, and what they        *)
(* accept is only that: every symbol of a template or of a key information         *)
(* accounts for a part of the result, no number has two spellings, thresholds      *)
(* are possible and nothing is left over, for texts with one symbol more, less     *)
(* or changed.  Parentheses are counted but not compared.                         *)
TextsReadAsWritten ==
  /\ Done("template") =>
       /\ result.res = 0 => AsTemplate(Input, Written(result.node)) /\ ThresholdsOk(result.node)
       /\ \A t \in Trees : Input = Written(t) => result.res = 0 /\ result.node = t
  /\ Done("key_info") /\ result.ok /\ result.fp # "step" => AsKeyText(result) = Input

RECURSIVE Value(_, _)
Value(digits, base) == IF digits = <<>> THEN 0 ELSE base * Value(Front(digits), base) + Last(digits)
Base58Digits(text) ==
  [i \in DOMAIN text |-> (CHOOSE d \in DOMAIN BASE58_ALPHABET : BASE58_ALPHABET[d] = text[i]) - 1]
\* The symbols of a text in the character set of bech32.
Symbols(text) == [i \in DOMAIN text |-> charset_rev(text[i])]

(* An encoded key or address stands for its bytes.  Base 58: the text has the     *)
(* value of the bytes, the loops of base58.c that stop where the number ends        *)
(* included, and decoding and encoding are inverse for every text of two           *)
(* characters or more.  Segwit: the address of a program decodes to it and, with    *)
(* any one character changed, to nothing (segwit_addr.c).  Bitcoin Cash: the       *)
(* symbols that follow the prefix have the checksum zero and hold the version and   *)
(* the hash (cashaddr.c).  Signature: either half of the 65 bytes is the number of  *)
(* the DER signature, whatever its length there (sign_message.c).                   *)
EncodingsReadBack ==
  /\ Done("base58_encode") =>
       /\ result.text.ok
       /\ Len(result.text.out) >= 2 => result.back = Encoded(Input)
       /\ Len(Input) <= 3 => Value(Base58Digits(result.text.out), 58) = Value(Input, 256)
  /\ Done("base58_decode") =>
       /\ result.bytes.ok <=> Len(Input) >= 2 /\ \A i \in DOMAIN Input : Input[i] \notin {48, 108}
       /\ result.bytes.ok => result.back = Encoded(Input)
  /\ Done("program") =>
       /\ result.text.ok <=> /\ Input.ver <= 16 /\ Len(Input.prog) \in 2..40
                             /\ Input.ver = 0 => Len(Input.prog) \in {20, 32}
       /\ result.text.ok /\ Put(result.text.out, Input.at, Input.put) = result.text.out
            => result.back = [ok |-> TRUE, ver |-> Input.ver, prog |-> Input.prog]
       /\ Put(result.text.out, Input.at, Input.put) # result.text.out => ~result.back.ok
  /\ Done("cash") =>
       /\ result.ok <=> Len(Input) = 20
       /\ result.ok =>
            LET sent == Symbols(result.out)
                all == [i \in DOMAIN cash_prefix |-> cash_prefix[i] % 32] \o <<0>> \o sent
            IN /\ Polymod(cashaddr_polymod, One, all) = One
               /\ convert_bits(SubSeq(sent, 1, Len(sent) - 8), 5, 8, FALSE) = Encoded(<<8>> \o Input)
  /\ Done("signature") =>
       /\ result[0] = 31 + Input[3]
       /\ \A k \in 1..SCALAR : result[k] = Input[1][k] /\ result[SCALAR + k] = Input[2][k]

(* A key is the same whichever way it is derived.  What a host derives from an    *)
(* exported extended public key is what the device signs with: bip32_CKDpub, which  *)
(* writes the child over its parent, gives all the fields of the key that the       *)
(* device derives privately, and fails where that fails.  The taproot output key    *)
(* of a public key is the public key of the tweaked private key, with the same      *)
(* parity.  And in a swap the address that the exchange application asks about is   *)
(* confirmed exactly if it is, in the format asked for, that of the wallet's key    *)
(* at that path, which a wallet derives from the account's public key and           *)
(* handle_check_address from the seed; a path announced longer than it is sent is   *)
(* refused.  For keys that can be derived and tweaked.                              *)
KeysAgree ==
  /\ Done("derive") /\ result.above =>
       IF Input.deep \/ Input.index >= Hardened THEN result.public.ret < 0
       ELSE /\ result.public.ret = 0 <=> result.below
            /\ result.below => result.public.child = result.private
  /\ Done("tweak") /\ result.public.ok =>
       /\ result.secret.ok
       /\ LET point == K!secp256k1_point(result.secret.key)
          IN point[1] = result.public.x /\ point[2] % 2 = result.public.parity
  /\ Done("check") /\ result.derived =>
       (result.agrees <=> Input.asked = Input.format /\ Input.count = Len(Input.path))
=============================================================================
