------------------------------- MODULE Texts --------------------------------
(***************************************************************************)
(* The texts that the screens show: amounts, converted by display_utils.c   *)
(* for the new protocol and by swap/btchip_bcd.c for the legacy one and for  *)
(* swaps, OP_RETURN outputs and derivation paths; and the amounts that the   *)
(* exchange application hands over.  Characters are ASCII codes, but for the *)
(* symbols of a path, which are those of Policy.                            *)
(***************************************************************************)
EXTENDS Policy

CONSTANTS
  AMOUNT_BYTES,   \* the bytes of an amount, 8
  DECIMALS,       \* the digits of a coin's fraction, 8
  SCRATCH_SIZE    \* one more than the digits of the largest amount, 21

UINT64_MAX == 2^(8 * AMOUNT_BYTES) - 1

(* -------------------------- display_utils.c ---------------------------- *)
\* Mutant: a number that ends in zero takes the quotient below.
FoundOffByOne(n, mid) == mid * 10 >= n - 10 /\ n >= mid * 10
Found(n, mid) == mid * 10 > n - 10 /\ n >= mid * 10
RECURSIVE BinarySearch(_, _, _)
BinarySearch(n, low, high) ==
  LET at(mid) == IF Found(n, mid) THEN mid
                 ELSE IF n < mid * 10 THEN BinarySearch(n, low, mid - 1)
                 ELSE BinarySearch(n, mid + 1, high)
  IN at((low + high) \div 2)
div10(n) == IF n < 10 THEN 0 ELSE BinarySearch(n, 0, UINT64_MAX \div 10)

RECURSIVE Div10Times(_, _)
Div10Times(n, times) == IF times = 0 THEN n ELSE Div10Times(div10(n), times - 1)
div100000000(n) == Div10Times(n, DECIMALS)

RECURSIVE n_digits(_)
n_digits(n) == IF div10(n) = 0 THEN 1 ELSE 1 + n_digits(div10(n))

\* The last `count' digits of a number, as characters.
RECURSIVE LastDigits(_, _)
LastDigits(n, count) ==
  IF count = 0 THEN <<>> ELSE Append(LastDigits(div10(n), count - 1), 48 + n - 10 * div10(n))

\* All but the first digit of the fraction may be dropped.
RECURSIVE DropTrailingZeros(_)
DropTrailingZeros(digits) ==
  IF Len(digits) > 1 /\ Last(digits) = 48 THEN DropTrailingZeros(Front(digits)) ELSE digits

\* The amount without the coin's name.
format_sats_amount(amount) ==
  LET text(integral) ==
        LET fraction == amount - integral * 10^DECIMALS
        IN LastDigits(integral, n_digits(integral))
           \o (IF fraction = 0 THEN <<>>
               ELSE <<46>> \o DropTrailingZeros(LastDigits(fraction, DECIMALS)))
  IN text(div100000000(amount))

(* ---------------------------- btchip_bcd.c ----------------------------- *)
\* One bit is shifted in.  Only the digits from smin on are in use; the loop
\* over the digits goes up, so each takes the carry of one not yet shifted.
ShiftIn(r, bit) ==
  LET adjusted == [k \in 1..SCRATCH_SIZE |->
                     r.scratch[k] + IF k >= r.smin /\ r.scratch[k] >= 5 THEN 3 ELSE 0]
      shifted(s, smin) ==
        [scratch |-> [k \in 1..SCRATCH_SIZE |->
           IF k < smin THEN s[k]
           ELSE ((2 * s[k]) % 16) + IF k = SCRATCH_SIZE THEN bit ELSE IF s[k + 1] >= 8 THEN 1 ELSE 0],
         smin |-> smin]
  IN shifted(adjusted, IF adjusted[r.smin] >= 8 THEN r.smin - 1 ELSE r.smin)

RECURSIVE ShiftInAll(_, _)
ShiftInAll(r, bits) ==
  IF r.smin = 0 \/ bits = <<>> THEN r ELSE ShiftInAll(ShiftIn(r, Head(bits)), Tail(bits))

\* The bits of the bytes, the most significant one first.
BitsOf(bytes) ==
  [i \in 1..(8 * Len(bytes)) |-> (bytes[1 + (i - 1) \div 8] \div 2^(7 - ((i - 1) % 8))) % 2]

\* Digits are written as long as one that is not zero is left.
FractionText(digits) ==
  LET left(i) == \E j \in i..Len(digits) : digits[j] # 0
      used == {i \in DOMAIN digits : left(i)}
  IN IF used = {} THEN <<>> ELSE <<46>> \o [i \in used |-> 48 + digits[i]]

\* loop2 digits are the fraction, 8 of them or, for Peercoin units, 6.
btchip_convert_hex_amount_to_displayable_no_globals(bytes, loop2) ==
  LET loop1 == SCRATCH_SIZE - loop2
      start == [scratch |-> [k \in 1..SCRATCH_SIZE |-> 0], smin |-> SCRATCH_SIZE - 1]
      text(s) ==
        LET used == SelectInSeq(SubSeq(s, 1, loop1), LAMBDA d : d # 0)
        IN (IF used = 0 THEN <<48>> ELSE [i \in 1..(loop1 - used + 1) |-> 48 + s[used + i - 1]])
           \o FractionText(SubSeq(s, loop1 + 1, loop1 + loop2))
  IN text(ShiftInAll(start, BitsOf(bytes)).scratch)

(* ------------------------ the swap application ------------------------- *)
\* The bytes given are the last ones of the amount.
Aligned(bytes) == [i \in 1..(AMOUNT_BYTES - Len(bytes)) |-> 0] \o bytes

RECURSIVE read_u64_be(_)
read_u64_be(bytes) == IF bytes = <<>> THEN 0 ELSE 256 * read_u64_be(Front(bytes)) + Last(bytes)

\* The text after the coin's name, and none if the amount is too long.
handle_get_printable_amount(bytes, loop2) ==
  IF Len(bytes) > AMOUNT_BYTES THEN <<>>
  ELSE btchip_convert_hex_amount_to_displayable_no_globals(Aligned(bytes), loop2)

\* What the signing flows compare a transaction with.  strncpy cuts the address;
\* its last byte, tested afterwards, is always zero.
copy_transaction_parameters(params) ==
  IF Len(params.amount) > AMOUNT_BYTES \/ Len(params.fees) > AMOUNT_BYTES THEN [ok |-> FALSE]
  ELSE [ok |-> TRUE, amount |-> read_u64_be(Aligned(params.amount)),
        fees |-> read_u64_be(Aligned(params.fees)),
        destination |-> SubSeq(params.address, 1, IF Len(params.address) > 64 THEN 64
                                                  ELSE Len(params.address))]

(* ------------------------------ OP_RETURN ------------------------------ *)
OP_RETURN == 106
MAX_OPRETURN_OUTPUT_DESC_SIZE == 12 + 80 * 2 + 1
Prefix == <<79, 80, 95, 82, 69, 84, 85, 82, 78, 32>>
HexDigit(d) == IF d < 10 THEN 48 + d ELSE 87 + d
Hex(bytes) ==
  IF bytes = <<>> THEN <<>>
  ELSE <<48, 120>> \o [i \in 1..(2 * Len(bytes)) |->
         HexDigit(IF i % 2 = 1 THEN bytes[(i + 1) \div 2] \div 16 ELSE bytes[i \div 2] % 16)]

PushFits(script, header, n) == Len(script) = header + n
\* The text with its final zero.  The opcode and the length byte of a script
\* that is too short for them are read from behind it; whatever they are, the
\* length of the script does not fit and it is refused.
format_opscript_script(script) ==
  LET byte(i) == IF i < Len(script) THEN script[i + 1] ELSE 0
      op == byte(1)
      text(t) == [ok |-> TRUE, out |-> Prefix \o t \o <<0>>]
      data(from, n) == text(Hex(SubSeq(script, from + 1, from + n)))
      refused == [ok |-> FALSE, out |-> <<>>]
      number(n) == IF n >= 10 THEN <<48 + n \div 10, 48 + (n % 10)>> ELSE <<48 + n>>
  IN IF script = <<>> \/ byte(0) # OP_RETURN \/ op > 96 \/ op \in {80, 77, 78} THEN refused
     ELSE IF op \in 1..75 THEN IF PushFits(script, 2, op) THEN data(2, op) ELSE refused
     ELSE IF op = 76 THEN IF PushFits(script, 3, byte(2)) /\ byte(2) <= 80
                          THEN data(3, byte(2)) ELSE refused
     ELSE IF Len(script) # 2 THEN refused
     ELSE IF op = 0 THEN text(<<48>>) ELSE IF op = 79 THEN text(<<45, 49>>)
     ELSE text(number(op - 80))

(* --------------------------------- paths ------------------------------- *)
\* Each step has up to as many digits as the last one below Hardened, the mark
\* of a hardened step and a separator.
MAX_SERIALIZED_BIP32_PATH_LENGTH ==
  (Len(Decimal(Hardened - 1)) + 2) * MAX_BIP32_PATH_STEPS

\* snprintf cuts what does not fit; only a piece of which nothing fits is noticed.
Snprintf(r, room, piece) ==
  LET fits == room - Len(r.out) - 1
  IN IF ~r.ok THEN r
     ELSE IF fits < 1 THEN [ok |-> FALSE, out |-> <<>>]
     ELSE [r EXCEPT !.out = @ \o SubSeq(piece, 1, IF Len(piece) < fits THEN Len(piece) ELSE fits)]

RECURSIVE FormatSteps(_, _, _)
FormatSteps(path, room, r) ==
  LET step == Head(path)
      number == Snprintf(r, room, Decimal(step % Hardened))
      marked == IF step >= Hardened THEN Snprintf(number, room, <<"'">>) ELSE number
  IN IF path = <<>> \/ ~r.ok THEN r
     ELSE FormatSteps(Tail(path), room,
                      IF Len(path) > 1 THEN Snprintf(marked, room, <<"/">>) ELSE marked)

bip32_path_format(path, room) ==
  IF Len(path) > MAX_BIP32_PATH_STEPS \/ room < 1 THEN [ok |-> FALSE, out |-> <<>>]
  ELSE FormatSteps(path, room, [ok |-> TRUE, out |-> <<>>])
=============================================================================
