------------------------------ MODULE MCLegacy ------------------------------
(***************************************************************************)
(* Instances of Legacy.  The earlier transaction has three outputs, the    *)
(* coins of the transactions to sign; two of them are too much for the     *)
(* amounts when added (AmountModulus).                                     *)
(***************************************************************************)
EXTENDS Legacy

Out(to, amount) == [to |-> to, amount |-> amount]

MCEarlier == <<Out("usual", 3), Out("usual", 4), Out("usual", 6)>>

Coin(i) == <<"earlier", i>>

Tx(ins, outs, change) == [ins |-> ins, outs |-> outs, change |-> change]

Simple == Tx(<<Coin(0)>>, <<Out("ann", 2)>>, "none")
WithChange == Tx(<<Coin(0), Coin(1)>>, <<Out("ann", 2), Out("usual", 4)>>, "usual")
ChangeFirst == Tx(<<Coin(1), Coin(0)>>, <<Out("unusual", 1), Out("bob", 4)>>, "unusual")
HighFee == Tx(<<Coin(1)>>, <<Out("ann", 2)>>, "none")
TwoPaid == Tx(<<Coin(0), Coin(1)>>, <<Out("ann", 2), Out("bob", 3)>>, "none")
TooMuch == Tx(<<Coin(1), Coin(2)>>, <<Out("ann", 2)>>, "none")
TwiceChange == Tx(<<Coin(1)>>, <<Out("ann", 1), Out("usual", 1), Out("usual", 1)>>, "usual")
Overspent == Tx(<<Coin(0)>>, <<Out("ann", 4)>>, "none")

Spend(style, tx, again, cuts, path) ==
  [kind |-> "spend", style |-> style, tx |-> tx, again |-> again, cuts |-> cuts, path |-> path]

Styles == {"plain", "untrusted", "segwit", "witness"}
\* All at once, one output per command after their number, and cut inside the outputs.
AtOnce == {}
OneByOne == {1, 3, 5}
Inside == {2, 4}

MCSessions ==
  {[kind |-> "trusted", target |-> i] : i \in {0, 1, 3}}
  \cup {Spend(style, tx, tx, cuts, "usual") :
          style \in Styles, tx \in {WithChange, ChangeFirst}, cuts \in {OneByOne, Inside}}
  \cup {Spend(style, TwoPaid, TwoPaid, AtOnce, "usual") : style \in {"plain", "witness"}}
  \cup {Spend(style, tx, tx, cuts, "usual") :
          style \in {"plain", "segwit"},
          tx \in {Simple, HighFee, TooMuch, Overspent, TwiceChange}, cuts \in {OneByOne}}
  \cup {Spend(style, Simple, Simple, AtOnce, "unusual") : style \in {"plain", "witness"}}
  \cup {Spend(style, TwoPaid, WithChange, OneByOne, "usual") : style \in {"plain", "segwit"}}
  \cup {Spend("plain", TwoPaid, TwoPaid, {1}, "usual")}
  \cup {Spend("segwit", TwiceChange, TwiceChange, cuts, "usual") : cuts \in {AtOnce, {1}}}

MCSwapRequests == {[to |-> "ann", amount |-> 2, fee |-> 1]}
=============================================================================
