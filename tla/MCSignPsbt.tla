----------------------------- MODULE MCSignPsbt -----------------------------
(***************************************************************************)
(* Small PSBTs, up to three inputs (one more than MaxInputs) and two       *)
(* outputs, in families that each vary one thing: the outputs and screens, *)
(* the UTXO fields of the inputs, what else is odd about an input, and the *)
(* swap requests.                                                          *)
(***************************************************************************)
EXTENDS SignPsbt

CONSTANT Families   \* a subset of {"screens", "utxos", "odd", "swap"}

Kinds == [legacy   |-> [kind |-> "p2pkh", redeem |-> "none",   segwit |-> FALSE],
          multisig |-> [kind |-> "p2sh",  redeem |-> "multi",  segwit |-> FALSE],
          wrapped  |-> [kind |-> "p2sh",  redeem |-> "p2wpkh", segwit |-> TRUE],
          native   |-> [kind |-> "p2wsh", redeem |-> "none",   segwit |-> TRUE],
          taproot  |-> [kind |-> "p2tr",  redeem |-> "none",   segwit |-> TRUE]]

Wallets(names, forms, ours) ==
  {[kind |-> Kinds[k].kind, redeem |-> Kinds[k].redeem, segwit |-> Kinds[k].segwit,
    form |-> form, ours |-> own] : k \in names, form \in forms, own \in ours}

Own(w, change) == [kind |-> w.kind, of |-> "wallet", at |-> <<change, 0>>]
Other(kind)    == [kind |-> kind, of |-> "other", at |-> <<0, 0>>]

Deriv(w, change, standard, form) ==
  [field |-> DerivationField(w.kind), form |-> form, standard |-> standard,
   change |-> change, index |-> 0]

InputWith(w, s, d, nonWit, wit) ==
  [nonWit |-> nonWit, wit |-> wit, deriv |-> d, sighash |-> "absent",
   redeem |-> IF w.redeem = "none" THEN NoScript ELSE [kind |-> w.redeem, hashesTo |-> s],
   witnessScriptMatches |-> TRUE]

\* The UTXO fields that a conforming client provides.
PlainInputs(w) ==
  {InputWith(w, Own(w, 0), Deriv(w, 0, TRUE, "full"),
             IF w.kind = "p2tr" THEN NoUtxo
             ELSE [amount |-> a, script |-> Own(w, 0), txidMatches |-> TRUE],
             IF w.segwit THEN [amount |-> a, script |-> Own(w, 0)] ELSE NoUtxo) :
     a \in {1, 3}}

\* ... and any other: absent, another transaction's, different from each other; for
\* a script of the wallet or another one.
UtxoInputs(w) ==
  LET fields(s, a) ==
        {NoUtxo, [amount |-> a, script |-> s, txidMatches |-> TRUE],
         [amount |-> a, script |-> s, txidMatches |-> FALSE]}
        \X {NoUtxo, [amount |-> a, script |-> s], [amount |-> a + 1, script |-> s]}
  IN UNION {{InputWith(w, s, Deriv(w, c, TRUE, "full"), u[1], u[2]) :
                u \in fields(s, 1)} :
              s \in {Own(w, 0), Own(w, 1), Other(w.kind)}, c \in {0, 1}}

\* Inputs that are refused for something else.
OddInputs(w) ==
  UNION {{[i EXCEPT !.sighash = "other"], [i EXCEPT !.deriv = NoDeriv],
          [i EXCEPT !.deriv.form = "malformed"], [i EXCEPT !.deriv.form = "short"],
          [i EXCEPT !.sighash = "all", !.witnessScriptMatches = FALSE],
          [i EXCEPT !.redeem = [kind |-> "p2wpkh", hashesTo |-> Other("p2sh")]]} :
           i \in PlainInputs(w)}

OutputWith(s, a, d) == [script |-> s, amount |-> a, deriv |-> d]

Payment == OutputWith(Other("p2wpkh"), 2, NoDeriv)
AllOutputs(w) ==
  {Payment,
   OutputWith(Own(w, 1), 1, Deriv(w, 1, TRUE, "full")),         \* change
   OutputWith(Own(w, 1), 1, Deriv(w, 1, FALSE, "full")),        \* of an odd account
   OutputWith(Own(w, 0), 1, Deriv(w, 0, TRUE, "full")),         \* receiving address
   OutputWith(Other(w.kind), 1, Deriv(w, 1, TRUE, "full")),     \* another script
   OutputWith(Other("future_segwit"), 1, NoDeriv),
   OutputWith(Other("op_return"), 0, NoDeriv),
   OutputWith(Other("nonstandard"), 1, NoDeriv)}

UpTo(n, S) == UNION {[1..k -> S] : k \in 0..n}

Request(w, inputList, outputList, swaps) ==
  [psbt : [inputs : inputList, outputs : outputList], wallet : {w}, swap : swaps]

Family ==
  [screens |->
     UNION {Request(w, UpTo(3, PlainInputs(w)), UpTo(2, AllOutputs(w)), {NoSwap}) :
              w \in Wallets({"native", "taproot"},
                            {"canonical", "registered", "refused"}, BOOLEAN)},
   utxos |->
     UNION {Request(w, UpTo(2, UtxoInputs(w)), {<<Payment>>}, {NoSwap}) :
              w \in Wallets(DOMAIN Kinds, {"canonical"}, {TRUE})},
   odd |->
     UNION {Request(w, UpTo(2, OddInputs(w) \cup PlainInputs(w)), {<<>>}, {NoSwap}) :
              w \in Wallets(DOMAIN Kinds, {"canonical"}, {TRUE})},
   swap |->
     UNION {Request(w, UpTo(2, PlainInputs(w)), UpTo(2, AllOutputs(w)),
                    [dest : {Other("p2wpkh"), Other("p2sh"), Own(w, 1)}, amount : {1, 2},
                     fees : {0, 1}]) :
              w \in Wallets({"legacy", "taproot"}, {"canonical", "registered"}, {TRUE})}]

MCRequests == UNION {Family[f] : f \in Families}

\* No total of a family overflows.
ASSUME TotalsAssumption == AmountsFit
=============================================================================
