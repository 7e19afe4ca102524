---------------------------- MODULE KeyCommands -----------------------------
(***************************************************************************)
(* The commands about one key: GET_EXTENDED_PUBKEY and SIGN_MESSAGE.  A      *)
(* command is its parsed fields; what is hashed is the sequence of what was  *)
(* put into the hash.  Steps of a path are numbers below 2 * Hardened.       *)
(***************************************************************************)
EXTENDS Texts

CONSTANTS
  MAX_BIP44_ACCOUNT_RECOMMENDED, MAX_BIP44_ADDRESS_INDEX_RECOMMENDED,
  CHUNK,          \* the bytes of a leaf of the message's tree, 64
  MAX_MESSAGE,    \* 2^32
  SCALAR,         \* the bytes of either half of a signature, 32
  Undefined       \* what the client does not give; what was never written

\* `words' is what lies in memory where the path should be, `have' the bytes of
\* it that belong to the command: the last step may reach past them.
bip32_path_read(words, have, count) ==
  /\ count <= MAX_BIP32_PATH_STEPS
  /\ \A i \in 0..count - 1 : 4 * i <= have

(* ------------------------- GET_EXTENDED_PUBKEY ------------------------- *)
HardenedSteps(purpose) == IF purpose = 48 THEN 4 ELSE 3

is_path_safe_for_pubkey_export(path, coin_types) ==
  LET n == Len(path)
      low(k) == path[k] % Hardened
      hardened == HardenedSteps(low(1))
  IN /\ n >= 3
     /\ low(1) \in {44, 48, 49, 84, 86}
     /\ n \in {hardened, hardened + 2}
     /\ \A k \in 1..n : path[k] >= Hardened <=> k <= hardened
     /\ low(2) \in coin_types
     /\ low(3) <= MAX_BIP44_ACCOUNT_RECOMMENDED
     /\ n > hardened => /\ path[n - 1] \in {0, 1}
                        /\ path[n] <= MAX_BIP44_ADDRESS_INDEX_RECOMMENDED
     /\ low(1) = 48 => low(4) \in {1, 2}

\* The formatter's failure is not looked at; it leaves an empty text.
PathText(path) ==
  IF path = <<>> THEN <<"(Master key)">>
  ELSE bip32_path_format(path, MAX_SERIALIZED_BIP32_PATH_LENGTH + 1).out

\* What the command does: an error, or the key at a path, sent at once or after
\* a screen, which may warn.
GaveUp == [ok |-> FALSE]
handler_get_extended_pubkey(cmd, coin_types) ==
  LET path == SubSeq(cmd.words, 1, cmd.count)
      safe == is_path_safe_for_pubkey_export(path, coin_types)
  IN IF \/ cmd.display > 1 \/ ~bip32_path_read(cmd.words, cmd.have, cmd.count)
        \/ ~safe /\ cmd.display = 0
     THEN GaveUp
     ELSE [ok |-> TRUE, path |-> path,
           screen |-> IF cmd.display = 0 THEN <<>> ELSE <<[text |-> PathText(path), warns |-> ~safe]>>]

(* ----------------------------- SIGN_MESSAGE ---------------------------- *)
Chunks(length) == (length + CHUNK - 1) \div CHUNK

\* What the client's leaf i is worth; the tree has `Chunks' leaves.
ChunkRefused(leaves, i, n) ==
  leaves[i] = Undefined \/ Len(leaves[i]) > CHUNK \/ (Len(leaves[i]) # CHUNK /\ i # n)

\* The command has its path in full, as the length and the root come after it.
handler_sign_message(cmd) ==
  LET n == Chunks(cmd.length)
      data == FlattenSeq([i \in 1..n |-> cmd.leaves[i]])
  IN IF \/ Len(cmd.path) > MAX_BIP32_PATH_STEPS \/ cmd.length >= MAX_MESSAGE
        \/ \E i \in 1..n : ChunkRefused(cmd.leaves, i, n)
     THEN GaveUp
     ELSE [ok |-> TRUE, text |-> PathText(cmd.path),
           shown |-> data, signed |-> [length |-> cmd.length, data |-> data]]

\* The two numbers of the DER signature, each with a zero in front if its first
\* bit is set, aligned to the ends of their halves.  The first number and then
\* the first byte are written last, over the zero of what stands behind them.
CompactSignature(r, s, odd) ==
  LET from(number, last) == last - Len(number)   \* the place before its first byte
      write(out, number, last) ==
        [k \in DOMAIN out |-> IF k > from(number, last) /\ k <= last
                              THEN number[k - from(number, last)] ELSE out[k]]
      zero == [k \in 0..2 * SCALAR |-> 0]
  IN [write(write(zero, s, 2 * SCALAR), r, SCALAR) EXCEPT ![0] = 31 + odd]
=============================================================================
