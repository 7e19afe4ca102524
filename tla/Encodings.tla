----------------------------- MODULE Encodings ------------------------------
(***************************************************************************)
(* The encodings of addresses and keys: base 58, bech32 and the address     *)
(* format of Bitcoin Cash.  Bytes, five-bit symbols and characters are      *)
(* numbers; a character is its ASCII code.  A checksum of 30 or 40 bits is  *)
(* the sequence of its five-bit symbols, the most significant one first.    *)
(***************************************************************************)
EXTENDS Integers, Sequences, SequencesExt, FiniteSets
LOCAL INSTANCE Bitwise

Failure == [ok |-> FALSE, out |-> <<>>]
Encoded(out) == [ok |-> TRUE, out |-> out]
LeadingZeros(s) ==
  CHOOSE n \in 0..Len(s) : /\ \A i \in 1..n : s[i] = 0
                           /\ n < Len(s) => s[n + 1] # 0
Zeros(n) == [i \in 1..n |-> 0]
From(s, i) == SubSeq(s, i, Len(s))
\* The loops over the symbols of an address are taken in halves, which keeps the
\* recursion shallow.
Half(s)  == SubSeq(s, 1, Len(s) \div 2)
Other(s) == From(s, Len(s) \div 2 + 1)

(* ------------------------------- base 58 ------------------------------- *)
MAX_DEC_INPUT_SIZE == 164
MAX_ENC_INPUT_SIZE == 120
Codes(a, b) == [i \in 1..(b - a + 1) |-> a + i - 1]
\* Without 0, I, O and l.
BASE58_ALPHABET ==
  Codes(49, 57) \o Codes(65, 72) \o Codes(74, 78) \o Codes(80, 90)
  \o Codes(97, 107) \o Codes(109, 122)
\* The digits of the characters from '1' to 'z'; 255 for no digit.
BASE58_TABLE_TRIMMED ==
  Codes(0, 8) \o [i \in 1..7 |-> 255] \o Codes(9, 16) \o <<255>> \o Codes(17, 21) \o <<255>>
  \o Codes(22, 32) \o [i \in 1..6 |-> 255] \o Codes(33, 43) \o <<255>> \o Codes(44, 57)

\* Divides the number in tmp from start on by 256: the quotient and the remainder.
DivideBy256(tmp, start) ==
  LET digit(r, i) == [tmp |-> [r.tmp EXCEPT ![i] = (r.rem * 58 + @) \div 256],
                      rem |-> (r.rem * 58 + r.tmp[i]) % 256]
  IN FoldLeft(digit, [tmp |-> tmp, rem |-> 0], Codes(start + 1, Len(tmp)))

\* The remainders, last one first, until nothing is left of the number.
RECURSIVE Bytes256(_, _, _)
Bytes256(tmp, start, out) ==
  LET next(d) == Bytes256(d.tmp, IF d.tmp[start + 1] = 0 THEN start + 1 ELSE start,
                          <<d.rem>> \o out)
  IN IF start >= Len(tmp) THEN out ELSE next(DivideBy256(tmp, start))

base58_decode(in, room) ==
  LET n       == Len(in)
      pos(i)  == in[i] - 49
      digit(i) == IF pos(i) < 0 \/ pos(i) >= Len(BASE58_TABLE_TRIMMED) THEN 255
                  ELSE BASE58_TABLE_TRIMMED[pos(i) + 1]
      trimmed(bytes) == From(bytes, LeadingZeros(bytes) + 1)
      fits(out) == IF Len(out) > room THEN Failure ELSE Encoded(out)
      decoded(tmp, zeros) == fits(Zeros(zeros) \o trimmed(Bytes256(tmp, zeros, <<>>)))
      whole(tmp) == IF \E i \in 1..n : tmp[i] = 255 THEN Failure ELSE decoded(tmp, LeadingZeros(tmp))
  IN IF n > MAX_DEC_INPUT_SIZE \/ n < 2 THEN Failure ELSE whole([i \in 1..n |-> digit(i)])

\* Mutant: the loop ends where nothing is carried.
StopsEarly(j, stop, carry) == carry = 0
\* The inner loop ends beyond the digits in use.  The mark is a size_t: for 0,
\* and for the value below it, any position is at or before the one it allows.
Stops(j, stop, carry) == carry = 0 /\ (stop <= 0 \/ j <= stop - 1)
RECURSIVE AddByte(_, _, _, _)
AddByte(buf, j, stop, carry) ==
  LET step(c) == IF Stops(j, stop, c \div 58)
                 THEN [buf |-> [buf EXCEPT ![j + 1] = c % 58], stop |-> j]
                 ELSE AddByte([buf EXCEPT ![j + 1] = c % 58], j - 1, stop, c \div 58)
  IN IF j < 0 THEN [buf |-> buf, stop |-> -1] ELSE step(carry + 256 * buf[j + 1])

RECURSIVE AddBytes(_, _)
AddBytes(r, bytes) ==
  IF bytes = <<>> THEN r
  ELSE AddBytes(AddByte(r.buf, Len(r.buf) - 1, r.stop, Head(bytes)), Tail(bytes))

base58_encode(in, room) ==
  LET zeros == LeadingZeros(in)
      size  == ((Len(in) - zeros) * 138) \div 100 + 1
      digits(r) == From(r.buf, LeadingZeros(r.buf) + 1)
      text(ds) == [i \in DOMAIN ds |-> BASE58_ALPHABET[ds[i] + 1]]
      fits(out) == IF Len(out) > room THEN Failure ELSE Encoded(out)
      start == [buf |-> Zeros(size), stop |-> size - 1]
  IN IF Len(in) > MAX_ENC_INPUT_SIZE THEN Failure
     ELSE fits([i \in 1..zeros |-> BASE58_ALPHABET[1]]
               \o text(digits(AddBytes(start, From(in, zeros + 1)))))

(* ------------------------------ checksums ------------------------------ *)
XorTable == [a \in 0..31 |-> [b \in 0..31 |-> a ^^ b]]
XorSeq(s, t) == [i \in DOMAIN s |-> XorTable[s[i]][t[i]]]
Bit(v, k) == (v \div 2^k) % 2 = 1

\* What the five bits shifted out put back: the generators of those that are set.
Feedback(gen) ==
  [b \in 0..31 |->
     FoldLeft(LAMBDA c, k : IF Bit(b, k - 1) THEN XorSeq(c, gen[k]) ELSE c, Zeros(Len(gen[1])),
              <<1, 2, 3, 4, 5>>)]
\* One step and the exclusive or with the next symbol, for every symbol.
RECURSIVE Polymod(_, _, _)
Polymod(feedback, chk, symbols) ==
  IF chk = <<>> \/ symbols = <<>> THEN chk
  ELSE IF Len(symbols) = 1 THEN XorSeq(Append(Tail(chk), symbols[1]), feedback[chk[1]])
  ELSE Polymod(feedback, Polymod(feedback, chk, Half(symbols)), Other(symbols))

\* convert_bits with padding, and without: the bits left over must be few and zero.
RECURSIVE Regrouped(_, _, _, _)
Regrouped(in, inbits, outbits, r) ==
  IF r.bits >= outbits
  THEN Regrouped(in, inbits, outbits,
                 [out |-> Append(r.out, r.val \div 2^(r.bits - outbits)),
                  bits |-> r.bits - outbits, val |-> r.val % 2^(r.bits - outbits)])
  ELSE IF in = <<>> THEN r
  ELSE IF Len(in) = 1
  THEN Regrouped(<<>>, inbits, outbits, [r EXCEPT !.bits = @ + inbits, !.val = @ * 2^inbits + in[1]])
  ELSE Regrouped(Other(in), inbits, outbits, Regrouped(Half(in), inbits, outbits, r))
convert_bits(in, inbits, outbits, pad) ==
  LET whole(r) ==
        IF pad THEN Encoded(IF r.bits > 0 THEN Append(r.out, r.val * 2^(outbits - r.bits)) ELSE r.out)
        ELSE IF r.val # 0 \/ r.bits >= inbits THEN Failure ELSE Encoded(r.out)
  IN whole(Regrouped(in, inbits, outbits, [out |-> <<>>, bits |-> 0, val |-> 0]))

(* -------------------------------- bech32 ------------------------------- *)
bech32_polymod ==
  Feedback(<<<<29, 22, 20, 21, 29, 18>>, <<19, 5, 1, 3, 19, 13>>, <<15, 10, 2, 6, 15, 26>>,
             <<30, 20, 4, 12, 30, 29>>, <<21, 1, 8, 24, 21, 19>>>>)
bech32_final_constant(enc) ==
  IF enc = "bech32" THEN <<0, 0, 0, 0, 0, 1>> ELSE <<21, 28, 16, 12, 5, 3>>
charset == <<113, 112, 122, 114, 121, 57, 120, 56, 103, 102, 50, 116, 118, 100, 119, 48,
             115, 51, 106, 110, 53, 52, 107, 104, 99, 101, 54, 109, 117, 97, 55, 108>>
Upper(c) == c \in 65..90
Lower(c) == c \in 97..122
charset_rev(c) ==
  LET lower == IF Upper(c) THEN c + 32 ELSE c
  IN IF \E v \in DOMAIN charset : charset[v] = lower
     THEN (CHOOSE v \in DOMAIN charset : charset[v] = lower) - 1 ELSE -1
Expanded(hrp) == [i \in DOMAIN hrp |-> hrp[i] \div 32] \o <<0>> \o [i \in DOMAIN hrp |-> hrp[i] % 32]
Start == <<0, 0, 0, 0, 0, 1>>

bech32_encode(hrp, data, enc) ==
  LET chk == XorSeq(Polymod(bech32_polymod, Start, Expanded(hrp) \o data \o Zeros(6)),
                    bech32_final_constant(enc))
  IN IF \/ \E i \in DOMAIN hrp : hrp[i] \notin 33..126 \/ Upper(hrp[i])
        \/ Len(hrp) + 7 + Len(data) > 90 \/ \E i \in DOMAIN data : data[i] >= 32
     THEN Failure
     ELSE Encoded(hrp \o <<49>> \o [i \in DOMAIN (data \o chk) |-> charset[(data \o chk)[i] + 1]])

NoAddress == [enc |-> "none", hrp |-> <<>>, data |-> <<>>]
bech32_decode(input) ==
  LET n    == Len(input)
      ones == {i \in 1..n : input[i] = 49}
      sep  == CHOOSE i \in ones : \A j \in ones : j <= i
      hrp  == [i \in 1..(sep - 1) |-> IF Upper(input[i]) THEN input[i] + 32 ELSE input[i]]
      vs   == [i \in 1..(n - sep) |-> IF input[sep + i] >= 128 THEN -1 ELSE charset_rev(input[sep + i])]
      \* the low bits of the prefix are taken as it was given; they are those of the lower case
      checked(chk) ==
        LET enc == IF chk = bech32_final_constant("bech32") THEN "bech32"
                   ELSE IF chk = bech32_final_constant("bech32m") THEN "bech32m" ELSE "none"
        IN [enc |-> enc, hrp |-> hrp, data |-> SubSeq(vs, 1, Len(vs) - 6)]
  IN IF \/ n \notin 8..90 \/ ones = {} THEN NoAddress
     ELSE IF \/ sep = 1 \/ n - sep < 6 \/ \E i \in 1..(sep - 1) : input[i] \notin 33..126
             \/ \E i \in DOMAIN vs : vs[i] = -1
             \/ (\E i \in 1..n : Upper(input[i])) /\ (\E i \in 1..n : Lower(input[i]))
     THEN NoAddress ELSE checked(Polymod(bech32_polymod, Start, Expanded(hrp) \o vs))

segwit_addr_encode(hrp, witver, prog) ==
  IF \/ witver > 16 \/ Len(prog) \notin 2..40
     \/ witver = 0 /\ Len(prog) \notin {20, 32}
  THEN Failure
  ELSE bech32_encode(hrp, <<witver>> \o convert_bits(prog, 8, 5, TRUE).out,
                     IF witver > 0 THEN "bech32m" ELSE "bech32")

NoProgram == [ok |-> FALSE, ver |-> 0, prog |-> <<>>]
segwit_addr_decode(hrp, addr) ==
  LET program(ver, c) ==
        IF \/ ~c.ok \/ Len(c.out) \notin 2..40 \/ (ver = 0 /\ Len(c.out) \notin {20, 32})
        THEN NoProgram ELSE [ok |-> TRUE, ver |-> ver, prog |-> c.out]
      decoded(d) ==
        IF \/ d.enc = "none" \/ Len(d.data) \notin 1..65 \/ d.hrp # hrp THEN NoProgram
        ELSE IF \/ d.data[1] > 16 \/ (d.data[1] = 0) # (d.enc = "bech32") THEN NoProgram
        ELSE program(d.data[1], convert_bits(Tail(d.data), 5, 8, FALSE))
  IN decoded(bech32_decode(addr))

(* ---------------------------- Bitcoin Cash ----------------------------- *)
cashaddr_polymod ==
  Feedback(<<<<19, 3, 25, 11, 25, 3, 19, 1>>, <<15, 6, 27, 22, 27, 6, 15, 2>>,
             <<30, 12, 31, 5, 31, 12, 30, 4>>, <<21, 24, 23, 10, 23, 24, 21, 8>>,
             <<3, 25, 7, 20, 7, 25, 3, 16>>>>)
cash_prefix == <<98, 105, 116, 99, 111, 105, 110, 99, 97, 115, 104>>
One == <<0, 0, 0, 0, 0, 0, 0, 1>>
\* The checksum's place is the eight zeros.
PolyMod(payload) ==
  XorSeq(Polymod(cashaddr_polymod, One,
                 [i \in DOMAIN cash_prefix |-> cash_prefix[i] % 32] \o <<0>> \o payload \o Zeros(8)), One)
create_checksum(payload) == PolyMod(payload)
CashVersion(type) == IF type = "p2pkh" THEN 0 ELSE 8
cashaddr_encode(hash, room, type) ==
  LET payload  == convert_bits(<<CashVersion(type)>> \o hash, 8, 5, TRUE).out
      symbols == payload \o create_checksum(payload)
  IN IF Len(hash) # 20 \/ type \notin {"p2pkh", "p2sh"} \/ Len(symbols) > room THEN Failure
     ELSE Encoded([i \in DOMAIN symbols |-> charset[symbols[i] + 1]])
=============================================================================
