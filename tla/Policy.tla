------------------------------- MODULE Policy -------------------------------
(***************************************************************************)
(* Wallet policies.  The first half is the parser of common/wallet.c: a    *)
(* wallet descriptor template and the key informations it refers to are    *)
(* texts, and what a parser returns is a tree of nodes or the information   *)
(* about a key.  The second half is the stack machine of                    *)
(* handler/lib/policy.c that computes a script of the policy.              *)
(*                                                                         *)
(* A text is a sequence of symbols.  A symbol is a character, but for the   *)
(* tokens of the language, a fingerprint, an extended public key and the    *)
(* final wildcard, which are one symbol each; no two words are adjacent.    *)
(***************************************************************************)
EXTENDS Integers, Sequences, SequencesExt, TLC

CONSTANTS
  SizeT,        \* the number of values of a size_t
  Hardened,     \* BIP32_FIRST_HARDENED_CHILD, half of them
  Rank(_)       \* the number whose digits are the compressed public key

MAX_POLICY_MAP_BYTES      == 128
MAX_POLICY_MAP_COSIGNERS  == 5
MAX_POLICY_DEPTH          == 3
MAX_BIP32_PATH_STEPS      == 6

KNOWN_TOKENS == {"sh", "wsh", "pkh", "wpkh", "multi", "sortedmulti", "tr"}
Digit == ("0" :> 0) @@ ("1" :> 1) @@ ("2" :> 2) @@ ("3" :> 3) @@ ("4" :> 4) @@
         ("5" :> 5) @@ ("6" :> 6) @@ ("7" :> 7) @@ ("8" :> 8) @@ ("9" :> 9)

\* The number of characters of a template.
Chars(text) ==
  LET width == [sh |-> 2, wsh |-> 3, pkh |-> 3, wpkh |-> 4, multi |-> 5,
                sortedmulti |-> 11, tr |-> 2, yolo |-> 4]
  IN FoldLeft(LAMBDA n, c : n + IF c \in DOMAIN width THEN width[c] ELSE 1, 0, text)

(* ------------------------------ the texts ------------------------------ *)
\* buffer_peek at offset p; a text that has been consumed has no next symbol.
Peek(text, p) == IF p < Len(text) THEN text[p + 1] ELSE "end"

\* The symbol that parse_token takes for a token, and how far it advances.
ReadWord(text, p) == IF Peek(text, p) \in KNOWN_TOKENS \cup {"yolo"} THEN 1 ELSE 0
parse_token(text, p) == IF Peek(text, p) \in KNOWN_TOKENS THEN Peek(text, p) ELSE "unknown"

\* Mutant: leading zeros are let through.
AddDigitAnyZeros(r, d) == [r EXCEPT !.read = @ + 1, !.value = (10 * @ + d) % SizeT]
\* One round of the loop of parse_unsigned_decimal.  The sum is computed in a
\* size_t; the test for an overflow compares it with the number read so far.
AddDigit(r, d) ==
  LET sum == (10 * r.value + d) % SizeT
  IN IF (r.read = 1 /\ r.value = 0) \/ sum < r.value
     THEN [r EXCEPT !.ok = FALSE]
     ELSE [r EXCEPT !.read = @ + 1, !.value = sum]

RECURSIVE ReadDigits(_, _, _)
ReadDigits(text, p, r) ==
  IF Peek(text, p) \in DOMAIN Digit /\ r.ok
  THEN ReadDigits(text, p + 1, AddDigit(r, Digit[Peek(text, p)]))
  ELSE [ok |-> r.ok /\ r.read > 0, value |-> r.value, at |-> p]

parse_unsigned_decimal(text, p) ==
  ReadDigits(text, p, [ok |-> TRUE, value |-> 0, read |-> 0])

\* '@' and a number.  The index goes through an int in which -1 is an error.
parse_key_index(text, p) ==
  IF Peek(text, p) # "@" THEN [ok |-> FALSE, value |-> 0, at |-> p]
  ELSE LET checked(n) == [n EXCEPT !.ok = @ /\ n.value # SizeT - 1]
       IN checked(parse_unsigned_decimal(text, p + 1))

(* ---------------------------- the templates ---------------------------- *)
Failed(code) == [res |-> code, at |-> 0, used |-> 0, node |-> <<>>]
Parsed(at, used, node) == [res |-> 0, at |-> at, used |-> used, node |-> node]

\* buffer_alloc, from an aligned start: the bytes in use afterwards.
buffer_alloc(used, size) == used + ((4 - (used % 4)) % 4) + size
Full(used, size) == buffer_alloc(used, size) > MAX_POLICY_MAP_BYTES

\* The key indexes of a multi or sortedmulti, up to the ')' that is left alone.
RECURSIVE KeyIndexes(_, _, _, _)
KeyIndexes(text, p, used, keys) ==
  IF Peek(text, p) = ")" THEN Parsed(p, used, keys)
  ELSE IF Peek(text, p) # "," THEN Failed(-10)
  ELSE LET next(k) == IF ~k.ok THEN Failed(-11)
                      ELSE IF Full(used, 4) THEN Failed(-12)
                      ELSE KeyIndexes(text, k.at, buffer_alloc(used, 4), Append(keys, k.value))
       IN next(parse_key_index(text, p + 1))

ThresholdOk(k, n) == 1 <= k /\ k <= n /\ n <= MAX_POLICY_MAP_COSIGNERS

ParseMulti(token, text, p, used) ==
  LET whole(k, r) == IF r.res < 0 THEN r
                     ELSE IF ~ThresholdOk(k, Len(r.node)) THEN Failed(-13)
                     ELSE [r EXCEPT !.node = [type |-> token, k |-> k, keys |-> r.node]]
      keys(k) == IF ~k.ok THEN Failed(-9)
                 ELSE whole(k.value, KeyIndexes(text, k.at, buffer_alloc(used, 16), <<>>))
  IN IF Full(used, 16) THEN Failed(-8) ELSE keys(parse_unsigned_decimal(text, p))

ParseKey(token, text, p, used) ==
  LET whole(k) == IF ~k.ok THEN Failed(-7)
                  ELSE Parsed(k.at, buffer_alloc(used, 8), [type |-> token, key |-> k.value])
  IN IF Full(used, 8) THEN Failed(-6) ELSE whole(parse_key_index(text, p))

\* sh at the top level only, wsh there and anywhere within sh.
Misplaced(token, depth, withinSh) ==
  IF token = "sh" /\ depth # 0 THEN -2
  ELSE IF token = "wsh" /\ depth # 0 /\ ~withinSh THEN -3 ELSE 0

\* Only the end of the text is tested where a parenthesis is due: whatever
\* symbol is there stands for one.
Closed(text, depth, r) ==
  IF r.res < 0 THEN r
  ELSE IF r.at >= Len(text) THEN Failed(-15)
  ELSE IF depth = 0 /\ r.at + 1 < Len(text) THEN Failed(-16)
  ELSE [r EXCEPT !.at = @ + 1]

RECURSIVE parse_script(_, _, _, _, _)
ParseNested(token, text, p, used, depth, withinSh) ==
  LET whole(r) == IF r.res < 0 THEN Failed(r.res * 100 - 5)
                  ELSE [r EXCEPT !.node = [type |-> token, script |-> r.node]]
  IN IF Misplaced(token, depth, withinSh) < 0 THEN Failed(Misplaced(token, depth, withinSh))
     ELSE IF Full(used, 8) THEN Failed(-4)
     ELSE whole(parse_script(text, p, buffer_alloc(used, 8), depth + 1,
                             withinSh \/ token = "sh"))

parse_script(text, p, used, depth, withinSh) ==
  LET body(token, q) ==
        IF token \in {"sh", "wsh"} THEN ParseNested(token, text, q, used, depth, withinSh)
        ELSE IF token \in {"pkh", "wpkh", "tr"} THEN ParseKey(token, text, q, used)
        ELSE IF token \in {"multi", "sortedmulti"} THEN ParseMulti(token, text, q, used)
        ELSE Failed(-14)
      opened(token, q) == IF q >= Len(text) THEN Failed(-1)
                          ELSE Closed(text, depth, body(token, q + 1))
  IN opened(parse_token(text, p), p + ReadWord(text, p))

parse_policy_map(text) == parse_script(text, 0, 0, 0, FALSE)

(* ------------------------- the key informations ------------------------ *)
\* The steps of the key origin.  The length is tested before a step is read:
\* a seventh step is stored behind the array, over the fingerprint.
RECURSIVE OriginSteps(_, _, _)
OriginSteps(text, p, info) ==
  LET hardened(n) == Peek(text, n.at) = "'"
      stored(v) == [info EXCEPT !.path = Append(@, v),
                                !.fp = IF Len(info.path) = MAX_BIP32_PATH_STEPS THEN "step" ELSE @]
      step(n) == IF ~n.ok \/ n.value >= Hardened THEN [info EXCEPT !.ok = FALSE]
                 ELSE IF hardened(n) THEN OriginSteps(text, n.at + 1, stored(n.value + Hardened))
                 ELSE OriginSteps(text, n.at, stored(n.value))
  IN IF Peek(text, p) # "/" THEN [info EXCEPT !.at = p]
     ELSE IF Len(info.path) > MAX_BIP32_PATH_STEPS THEN [info EXCEPT !.ok = FALSE]
     ELSE step(parse_unsigned_decimal(text, p + 1))

Fingerprints == {"ours", "theirs"}     \* eight lowercase hexadecimal digits
Xpubs(text) == {text[i] : i \in DOMAIN text} \ (DOMAIN Digit \cup Fingerprints
                                                \cup {"[", "/", "'", "]", "/**", "*"})
NoInfo == [ok |-> TRUE, origin |-> FALSE, fp |-> "zero", path |-> <<>>, at |-> 0,
           xpub |-> "", wildcard |-> FALSE]

\* The key, then nothing or the wildcard, then nothing.  `endless' is a buffer
\* whose size is a negative length: there is always more to read.
KeyAndWildcard(text, endless, info) ==
  LET key == Peek(text, info.at) \in Xpubs(text)
      p   == info.at + IF key THEN 1 ELSE 0
  IN IF ~info.ok THEN info
     ELSE [info EXCEPT !.xpub = IF key THEN text[p] ELSE "",
                       !.wildcard = endless \/ p < Len(text),
                       !.ok = ~endless /\ (p = Len(text) \/ SubSeq(text, p + 1, Len(text)) = <<"/**">>)]

parse_policy_map_key_info(text, endless) ==
  LET closed(i) == [i EXCEPT !.ok = @ /\ Peek(text, i.at) = "]", !.at = @ + 1]
      origin == [NoInfo EXCEPT !.origin = TRUE, !.fp = Peek(text, 1),
                               !.ok = Len(text) > 2 /\ Peek(text, 1) \in Fingerprints]
  IN IF Peek(text, 0) # "[" THEN KeyAndWildcard(text, endless, [NoInfo EXCEPT !.ok = text # <<>>])
     ELSE IF ~origin.ok THEN origin
     ELSE KeyAndWildcard(text, endless, closed(OriginSteps(text, 2, origin)))

(* -------------------------- the script machine ------------------------- *)
\* A script is a sequence of the pieces that update_output is given.
U8(byte) == <<"u8", byte>>
Width(piece) == CASE piece[1] = "u8" -> 1
                  [] piece[1] \in {"hash160", "ripemd"} -> 20
                  [] piece[1] \in {"sha256", "tweaked"} -> 32
                  [] piece[1] = "key" -> 33
Bytes(script) == FoldLeft(LAMBDA n, piece : n + Width(piece), 0, script)

\* bip32_CKDpub in place: what it refuses it leaves as it was.
bip32_CKDpub(pub, index) ==
  IF index >= Hardened THEN pub ELSE [pub EXCEPT !.steps = Append(@, index)]

\* A lookup of a key information serves the text the wallet commits to, or it
\* fails with -1 or with a smaller code.  Only -1 is taken for a failure here:
\* after another one the buffer keeps what the stack held, and it is endless.
\* A text that is no base58 is "bad".
get_extended_pubkey(keys, index, lookup) ==
  LET fails == lookup.at = index \/ index >= Len(keys)
      info  == parse_policy_map_key_info(IF fails THEN lookup.stale ELSE keys[index + 1], fails)
  IN IF (fails /\ lookup.code = -1) \/ ~info.ok \/ info.xpub \in {"bad", ""}
     THEN [ok |-> FALSE] ELSE [ok |-> TRUE, xpub |-> info.xpub, wildcard |-> info.wildcard]

get_derived_pubkey(keys, index, lookup, change, i) ==
  LET derived(e) ==
        IF ~e.ok THEN <<>>
        ELSE LET pub == [xpub |-> e.xpub, steps |-> <<>>]
             IN <<IF e.wildcard THEN bip32_CKDpub(bip32_CKDpub(pub, change), i) ELSE pub>>
  IN derived(get_extended_pubkey(keys, index, lookup))

\* The state of the machine: the stack of nodes, the hash context they share,
\* the last hash, the script so far and the last return value.
StartMachine(tree) ==
  [nodes |-> <<[node |-> tree, step |-> 0, mode |-> "bytes"]>>,
   ctx |-> <<>>, hash |-> <<"sha256", <<>>>>, out |-> <<>>, ret |-> 0]
Abort(m) == [m EXCEPT !.ret = -1]
Top(m) == Last(m.nodes)

cx_sha256_init(m) == [m EXCEPT !.ctx = <<>>]
\* Mutant: the context is not initialised again.
InitIfHashingNot(m) == m
InitIfHashing(m) == IF Top(m).mode = "hash" THEN cx_sha256_init(m) ELSE m

\* A piece that does not fit in the output is left out.
update_output(m, room, pieces) ==
  IF Top(m).mode = "hash" THEN [m EXCEPT !.ctx = @ \o pieces]
  ELSE [m EXCEPT !.out = FoldLeft(LAMBDA s, piece :
                           IF Bytes(s) + Width(piece) <= room THEN Append(s, piece) ELSE s, @, pieces)]

state_stack_push(m, node) ==
  IF Len(m.nodes) >= MAX_POLICY_DEPTH THEN Abort(m)
  ELSE [cx_sha256_init(m) EXCEPT
          !.nodes = Append(Front(@) \o <<[Last(@) EXCEPT !.step = 1]>>,
                           [node |-> node, step |-> 0, mode |-> "hash"]),
          !.ret = 0]
state_stack_pop(m, ret) ==
  [m EXCEPT !.hash = IF Top(m).mode = "hash" THEN <<"sha256", m.ctx>> ELSE @,
            !.nodes = Front(@), !.ret = ret]

process_pkh_wpkh_node(m, room, pubs) ==
  LET hashed == <<"hash160", pubs[1]>>
      pieces == IF Top(m).node.type = "pkh"
                THEN <<U8(118), U8(169), U8(20), hashed, U8(136), U8(172)>>
                ELSE <<U8(0), U8(20), hashed>>
  IN IF (Top(m).mode = "bytes" /\ Bytes(m.out) + Bytes(pieces) > room)
     THEN Abort(m)
     ELSE state_stack_pop(update_output(InitIfHashing(m), room, pieces), Bytes(pieces))

process_tr_node(m, room, pubs) ==
  LET pieces == <<U8(81), U8(32), <<"tweaked", pubs[1]>>>>
  IN IF Top(m).mode = "bytes" /\ Bytes(m.out) + Bytes(pieces) > room THEN Abort(m)
     ELSE state_stack_pop(update_output(m, room, pieces), Bytes(pieces))

\* One pass of the bubble sort: neighbours from the left, swapped if larger.
BubblePass(pubs) ==
  FoldLeft(LAMBDA s, i : IF Rank(s[i]) > Rank(s[i + 1])
                         THEN [s EXCEPT ![i] = s[i + 1], ![i + 1] = s[i]] ELSE s,
           pubs, [i \in 1..(Len(pubs) - 1) |-> i])
RECURSIVE BubbleSort(_)
BubbleSort(pubs) ==
  LET again(next) == IF next = pubs THEN pubs ELSE BubbleSort(next) IN again(BubblePass(pubs))

process_multi_sortedmulti_node(m, room, pubs) ==
  LET n      == Len(pubs)
      sorted == IF Top(m).node.type = "sortedmulti" THEN BubbleSort(pubs) ELSE pubs
      pieces == <<U8(80 + Top(m).node.k)>>
                \o [j \in 1..(2 * n) |-> IF j % 2 = 1 THEN U8(33) ELSE <<"key", sorted[j \div 2]>>]
                \o <<U8(80 + n), U8(174)>>
  IN IF Top(m).mode = "bytes" /\ Bytes(m.out) + 34 * n + 3 > room THEN Abort(m)
     ELSE state_stack_pop(update_output(InitIfHashing(m), room, pieces), 34 * n + 3)

process_sh_wsh_node(m, room) ==
  LET ripemd == <<"ripemd", m.hash>>
      sh(x)  == state_stack_pop(update_output(x, room, <<U8(169), U8(20), ripemd, U8(135)>>), 23)
      wsh(x) == state_stack_pop(update_output(x, room, <<U8(0), U8(32), m.hash>>), 34)
  IN IF Top(m).step = 0 THEN state_stack_push(m, Top(m).node.script)
     ELSE IF Top(m).node.type = "sh" THEN sh([InitIfHashing(m) EXCEPT !.hash = ripemd])
     ELSE wsh(InitIfHashing(m))

\* One round of the loop of call_get_wallet_script.
NodeKeys(node) == IF node.type \in {"multi", "sortedmulti"} THEN node.keys
                  ELSE IF node.type \in {"sh", "wsh"} THEN <<>> ELSE <<node.key>>
Round(m, room, keys, lookup, change, i) ==
  LET type == Top(m).node.type
      pubs == [j \in DOMAIN NodeKeys(Top(m).node) |->
                 get_derived_pubkey(keys, NodeKeys(Top(m).node)[j], lookup, change, i)]
      process(ps) == IF \E j \in DOMAIN ps : ps[j] = <<>> THEN Abort(m)
                     ELSE IF type \in {"sh", "wsh"} THEN process_sh_wsh_node(m, room)
                     ELSE IF type = "tr" THEN process_tr_node(m, room, FlattenSeq(ps))
                     ELSE IF type \in {"pkh", "wpkh"} THEN process_pkh_wpkh_node(m, room, FlattenSeq(ps))
                     ELSE process_multi_sortedmulti_node(m, room, FlattenSeq(ps))
  IN process(pubs)
MachineDone(m) == m.ret < 0 \/ m.nodes = <<>>

\* get_script_type and the payload that the address encodes.
get_script_address(script) ==
  LET u8(i, b) == Len(script) >= i /\ script[i] = U8(b)
      n == Bytes(script)
  IN IF n = 25 /\ u8(1, 118) /\ u8(2, 169) /\ u8(3, 20) /\ u8(5, 136) /\ u8(6, 172)
     THEN <<"p2pkh", script[4]>>
     ELSE IF n = 23 /\ u8(1, 169) /\ u8(2, 20) /\ u8(4, 135) THEN <<"p2sh", script[3]>>
     ELSE IF n = 22 /\ u8(1, 0) /\ u8(2, 20) THEN <<"p2wpkh", script[3]>>
     ELSE IF n = 34 /\ u8(1, 0) /\ u8(2, 32) THEN <<"p2wsh", script[3]>>
     ELSE IF n = 34 /\ u8(1, 81) /\ u8(2, 32) THEN <<"p2tr", script[3]>>
     ELSE <<>>

(* ------------------- what templates and policies mean ------------------ *)
\* A number below 1000 in decimal.
Decimal(n) ==
  LET d(k) == SubSeq(<<"0", "1", "2", "3", "4", "5", "6", "7", "8", "9">>, k + 1, k + 1)
  IN (IF n >= 100 THEN d(n \div 100) ELSE <<>>)
     \o (IF n >= 10 THEN d((n \div 10) % 10) ELSE <<>>) \o d(n % 10)

\* The template that doc/wallet.md writes for a tree.
RECURSIVE Written(_)
Written(node) ==
  <<node.type, "(">>
  \o (CASE node.type \in {"sh", "wsh"} -> Written(node.script)
        [] node.type \in {"multi", "sortedmulti"} ->
             Decimal(node.k)
             \o FlattenSeq([i \in DOMAIN node.keys |-> <<",", "@">> \o Decimal(node.keys[i])])
        [] OTHER -> <<"@">> \o Decimal(node.key))
  \o <<")">>

\* The script of a policy for the public keys of its placeholders.
RECURSIVE ScriptOf(_, _)
ScriptOf(node, pubs) ==
  CASE node.type = "pkh" -> <<U8(118), U8(169), U8(20), <<"hash160", pubs[node.key + 1]>>,
                             U8(136), U8(172)>>
    [] node.type = "wpkh" -> <<U8(0), U8(20), <<"hash160", pubs[node.key + 1]>>>>
    [] node.type = "tr" -> <<U8(81), U8(32), <<"tweaked", pubs[node.key + 1]>>>>
    [] node.type = "sh" -> <<U8(169), U8(20),
                             <<"ripemd", <<"sha256", ScriptOf(node.script, pubs)>>>>, U8(135)>>
    [] node.type = "wsh" -> <<U8(0), U8(32), <<"sha256", ScriptOf(node.script, pubs)>>>>
    [] OTHER ->
         LET ks == [i \in DOMAIN node.keys |-> pubs[node.keys[i] + 1]]
             ordered == IF node.type = "multi" THEN ks
                        ELSE SortSeq(ks, LAMBDA a, b : Rank(a) < Rank(b))
         IN <<U8(80 + node.k)>> \o FlattenSeq([i \in DOMAIN ks |-> <<U8(33), <<"key", ordered[i]>>>>])
            \o <<U8(80 + Len(ks)), U8(174)>>
=============================================================================
