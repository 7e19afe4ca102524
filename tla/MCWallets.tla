----------------------------- MODULE MCWallets ------------------------------
(* Wallets of two keys and default wallets, of every form that the parser    *)
(* tells apart, with a size_t of eight bits.                                 *)
EXTENDS Wallets, SequencesExt

CONSTANT Rank(_)
P == INSTANCE Policy

MCChars(text) == P!Chars(text)
MCparse_policy_map(text) == P!parse_policy_map(text)
MCparse_policy_map_key_info(key, endless) == P!parse_policy_map_key_info(key, endless)
MCStartMachine(node) == P!StartMachine(node)
MCMachineDone(m) == P!MachineDone(m)
MCRound(m, room, keys, lookup, change, i) == P!Round(m, room, keys, lookup, change, i)
MCget_script_address(script) == P!get_script_address(script)
MCScriptOf(node, pubs) == P!ScriptOf(node, pubs)

H(n) == n + 128
Step(n) == IF n >= 128 THEN P!Decimal(n - 128) \o <<"'">> ELSE P!Decimal(n)
Key(fp, path, xpub) ==
  <<"[", fp>> \o FlattenSeq([k \in DOMAIN path |-> <<"/">> \o Step(path[k])]) \o <<"]", xpub>>
Ranged(fp, path, xpub) == Key(fp, path, xpub) \o <<"/**">>

\* The device's keys: "o44" at 44'/0'/0', and so on.
MCOwnXpub(path) ==
  IF Len(path) = 3 /\ path[2] = H(0) /\ path[3] = H(0)
  THEN CASE path[1] = H(44) -> "o44" [] path[1] = H(49) -> "o49"
         [] path[1] = H(84) -> "o84" [] path[1] = H(86) -> "o86"
         [] path[1] = H(48) -> "o48" [] OTHER -> "o"
  ELSE IF path = <<H(44), H(0), H(101)>> THEN "o101" ELSE "o"

Own(purpose, xpub) == Ranged("ours", <<H(purpose), H(0), H(0)>>, xpub)
O48 == Own(48, "o48")
A   == Ranged("theirs", <<H(48), H(0)>>, "alice")
B   == Ranged("theirs", <<>>, "bob")

\* The order of two public keys depends on the derivation.
MCRank(pub) ==
  LET base == CASE pub.xpub = "alice" -> 5 [] pub.xpub = "bob" -> 9 [] OTHER -> 1
  IN (base * (1 + 3 * FoldLeft(LAMBDA n, s : 2 * n + s + 1, 0, pub.steps))) % 11

Sh(n) == [type |-> "sh", script |-> n]
Wsh(n) == [type |-> "wsh", script |-> n]
K(t, i) == [type |-> t, key |-> i]
M(t, k, ks) == [type |-> t, k |-> k, keys |-> ks]

Wallet(name, node, keys) ==
  [wallet |-> [type |-> 1, name |-> name, text |-> P!Written(node), keys |-> keys],
   fields |-> 7, extra |-> FALSE]

Sorted == M("sortedmulti", 2, <<0, 1, 2>>)
Cold == Wallet(<<"c">>, Sh(Wsh(Sorted)), <<A, O48, B>>)

\* Wallets that can be registered.
Registrables ==
  {Cold, Wallet(<<"c", " ", "c">>, Wsh(Sorted), <<O48, A, B>>),
   Wallet(<<"c">>, Sh(M("multi", 1, <<1, 0>>)), <<A, O48>>)}
\* One reason each to refuse the registration, or none but the keys it names.
Refusables ==
  {[Cold EXCEPT !.wallet.name = n] :
     n \in {<<>>, <<" ", "c">>, <<"c", " ">>, <<"c", "x">>, [k \in 1..17 |-> "c"]}}
  \cup {[Cold EXCEPT !.fields = 6], [Cold EXCEPT !.extra = TRUE], [Cold EXCEPT !.wallet.type = 2]}
  \cup {[Cold EXCEPT !.wallet.keys = ks] :
          ks \in {<<A, B, B>>, <<O48, O48, A>>, <<>>, <<A, O48>>,
                  <<A, O48, Key("theirs", <<>>, "bob")>>, <<A, O48, <<"bob", "/**">>>>,
                  <<A, O48, Ranged("theirs", <<>>, "bad")>>,
                  <<A, Ranged("ours", <<H(48), H(0), H(0)>>, "bob"), B>>,
                  <<A, Ranged("theirs", <<H(48), H(0), H(0)>>, "o48"), B>>}}
  \cup {Wallet(<<"c">>, n, <<O48, A>>) :
          n \in {M("multi", 1, <<0, 1>>), Sh(K("pkh", 0)), Wsh(K("wpkh", 0)),
                 Sh(Wsh(Wsh(M("multi", 1, <<0>>)))), Wsh(M("multi", 3, <<0, 1>>)),
                 Wsh(M("multi", 1, <<0, 5>>))}}
\* The default wallets and what comes near to them.
Defaults ==
  {Wallet(<<>>, n[1], <<n[2]>>) :
     n \in {<<K("pkh", 0), Own(44, "o44")>>, <<K("wpkh", 0), Own(84, "o84")>>,
            <<Sh(K("wpkh", 0)), Own(49, "o49")>>, <<K("tr", 0), Own(86, "o86")>>,
            <<K("pkh", 0), Own(84, "o84")>>, <<Sh(K("wpkh", 0)), Own(44, "o44")>>,
            <<K("pkh", 1), Own(44, "o44")>>, <<K("wpkh", 0), Own(84, "bob")>>,
            <<K("pkh", 0), Ranged("ours", <<H(44), H(0), H(101)>>, "o101")>>,
            <<K("pkh", 0), Key("ours", <<H(44), H(0), H(0)>>, "o44")>>,
            <<Sh(K("tr", 0)), Own(86, "o86")>>, <<Wsh(K("wpkh", 0)), Own(84, "o84")>>}}
  \cup {Wallet(<<>>, K("pkh", 0), <<Own(44, "o44"), B>>)}

MCSerializations == Registrables \cup Refusables
MCAsked == Registrables \cup Defaults
           \cup {[Cold EXCEPT !.extra = TRUE], [Cold EXCEPT !.wallet.keys = <<A, O48>>],
                 [Cold EXCEPT !.wallet.keys = <<A, O48, Ranged("theirs", <<>>, "bad")>>],
                 Wallet(<<"c">>, Wsh(M("multi", 1, <<0, 5>>)), <<O48, A>>)}
=============================================================================
