---------------------------- MODULE MCClientData ----------------------------
(***************************************************************************)
(* Instances of ClientData: every tree of up to MaxLeaves leaves, with the *)
(* keys in order, with two keys swapped and with a key twice, and values   *)
(* whose lengths are the boundaries of one response and of the buffer.     *)
(***************************************************************************)
EXTENDS ClientData

CONSTANTS MaxLeaves, LongIn, Lengths

\* Keys with a common prefix, and one key that is a prefix of the next.
SortedKeys == <<<<1>>, <<1, 1>>, <<1, 2>>, <<2>>, <<2, 0>>, <<3>>, <<3, 3>>, <<4>>, <<5>>>>

Swap(s, i, j) == [s EXCEPT ![i] = s[j], ![j] = s[i]]

KeyLists(n) ==
  LET sorted == SubSeq(SortedKeys, 1, n)
  IN  {sorted} \cup (IF n >= 2 THEN {Swap(sorted, n - 1, n), [sorted EXCEPT ![2] = sorted[1]]}
                     ELSE {})

Value(i, len) == [k \in 1..len |-> 10 * i + k]
ValueList(n, long, len) == [i \in 1..n |-> Value(i, IF i = long THEN len ELSE 1)]

MCWorlds ==
  {[keys |-> SubSeq(SortedKeys, 1, n), values |-> ValueList(n, n, 3), policy |-> <<7, 8>>] :
     n \in 0..MaxLeaves}
  \cup
  UNION {{[keys |-> ks, values |-> ValueList(n, n, len), policy |-> <<7, 8>>] :
            ks \in KeyLists(n), len \in Lengths} : n \in LongIn}
=============================================================================
