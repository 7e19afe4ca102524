-------------------------------- MODULE Keys --------------------------------
(***************************************************************************)
(* Keys, their derivation and their addresses (crypto.c, and the address of  *)
(* a key in swap/handle_check_address.c), over a small curve of the same     *)
(* equation as secp256k1, y^2 = x^3 + 7, whose field also has p % 4 = 3.     *)
(* Hashes are numbers of a width that exceeds both p and n.  The hash        *)
(* functions are parameters; the curve's operations and the derivation of    *)
(* private keys are those of the operating system.                          *)
(***************************************************************************)
EXTENDS Integers, Sequences

CONSTANTS
  P, N, G,            \* the field, the order and the generator
  Hardened,           \* BIP32_FIRST_HARDENED_CHILD
  Seed,               \* the device's master key and chain code
  Hmac(_, _, _),      \* of a chain code, a key and an index: <<I_L, I_R>>
  TapTweak(_),        \* the tagged hash of an x coordinate
  Undefined           \* what is in memory that was never written

(* ------------------------ the operating system ------------------------- *)
Infinity == <<>>
RECURSIVE Pow(_, _, _)
Pow(b, e, m) ==
  IF e = 0 THEN 1 ELSE ((IF e % 2 = 1 THEN b ELSE 1) * Pow((b * b) % m, e \div 2, m)) % m
Inv(a) == Pow(a % P, P - 2, P)
cx_ecfp_add_point(a, b) ==
  LET third(slope) ==
        LET x == (slope * slope - a[1] - b[1]) % P
        IN <<x, (slope * (a[1] - x) - a[2]) % P>>
  IN IF a = Infinity THEN b ELSE IF b = Infinity THEN a
     ELSE IF a[1] = b[1] /\ (a[2] + b[2]) % P = 0 THEN Infinity
     ELSE IF a = b THEN third((3 * a[1] * a[1] * Inv(2 * a[2])) % P)
     ELSE third(((b[2] - a[2]) * Inv(b[1] - a[1])) % P)
RECURSIVE cx_ecfp_scalar_mult(_, _)
cx_ecfp_scalar_mult(point, k) ==
  IF k = 0 THEN Infinity
  ELSE cx_ecfp_add_point(IF k % 2 = 1 THEN point ELSE Infinity,
                         cx_ecfp_scalar_mult(cx_ecfp_add_point(point, point), k \div 2))

secp256k1_point(k) == cx_ecfp_scalar_mult(G, k)

(* --------------------------- points and keys --------------------------- *)
SqrtExponent == (P + 1) \div 4
crypto_get_compressed_pubkey(point) == [prefix |-> IF point[2] % 2 = 1 THEN 3 ELSE 2, x |-> point[1]]

\* The root whose parity is that of the prefix.  A key that is no point is not
\* noticed here.
crypto_get_uncompressed_pubkey(key) ==
  LET root(y) == <<key.x, IF key.prefix % 2 # y % 2 THEN P - y ELSE y>>
  IN root(Pow((Pow(key.x, 3, P) + 7) % P, SqrtExponent, P))

crypto_hash160(data) == <<"hash160", data>>
crypto_get_key_fingerprint(key) == <<"first", crypto_hash160(key)>>

\* The node that the operating system derives from the seed, or none.  A child
\* of an unhardened step depends on the public key of its parent.
RECURSIVE os_perso_derive_node_bip32(_)
os_perso_derive_node_bip32(path) ==
  LET child(parent, index) ==
        LET pub == crypto_get_compressed_pubkey(secp256k1_point(parent.key))
            i   == Hmac(parent.chain, IF index >= Hardened THEN parent.key ELSE pub, index)
        IN IF i[1] >= N \/ (i[1] + parent.key) % N = 0 THEN <<>>
           ELSE <<[key |-> (i[1] + parent.key) % N, chain |-> i[2]]>>
      next(parent) == IF parent = <<>> THEN <<>> ELSE child(parent[1], path[Len(path)])
  IN IF path = <<>> THEN <<Seed>> ELSE next(os_perso_derive_node_bip32(SubSeq(path, 1, Len(path) - 1)))

\* An exception leaves the outputs unwritten; the private key is then zero and
\* the generation of its pair throws as well.
crypto_get_compressed_pubkey_at_path(path) ==
  LET derived(node) ==
        IF node = <<>> THEN [ok |-> FALSE, pubkey |-> Undefined, chain |-> Undefined]
        ELSE [ok |-> TRUE, chain |-> node[1].chain,
              pubkey |-> crypto_get_compressed_pubkey(secp256k1_point(node[1].key))]
  IN derived(os_perso_derive_node_bip32(path))

crypto_get_master_key_fingerprint ==
  crypto_get_key_fingerprint(crypto_get_compressed_pubkey_at_path(<<>>).pubkey)

(* --------------------------- extended keys ----------------------------- *)
\* The value whose base58 text is returned, without its checksum.  Whether the
\* derivations succeed is not looked at.
get_serialized_extended_pubkey_at_path(path) ==
  LET n == Len(path)
      parent == crypto_get_compressed_pubkey_at_path(SubSeq(path, 1, n - 1))
      own == crypto_get_compressed_pubkey_at_path(path)
  IN [depth |-> n, chain |-> own.chain, key |-> own.pubkey,
      parent |-> IF n > 0 THEN crypto_get_key_fingerprint(parent.pubkey) ELSE <<"zero">>,
      number |-> IF n > 0 THEN path[n] ELSE 0]

Refused(code) == [ret |-> code, child |-> <<>>]
\* Mutant: the fingerprint is that of the key already written.
WriteChildLate(m, index, chain, point) ==
  LET written == [m EXCEPT !.key = crypto_get_compressed_pubkey(point)]
  IN [written EXCEPT !.depth = @ + 1, !.parent = crypto_get_key_fingerprint(written.key),
                     !.number = index, !.chain = chain]
\* The child is written over the parent: callers pass one key for both.
WriteChild(m, index, chain, point) ==
  LET headed == [m EXCEPT !.depth = @ + 1, !.parent = crypto_get_key_fingerprint(m.key),
                          !.number = index, !.chain = chain]
  IN [headed EXCEPT !.key = crypto_get_compressed_pubkey(point)]

bip32_CKDpub(m, index) ==
  LET added(i, point) == IF point = Infinity THEN Refused(-3)
                         ELSE [ret |-> 0, child |-> WriteChild(m, index, i[2], point)]
      sum(i) == IF i[1] >= N THEN Refused(-1)
                ELSE added(i, cx_ecfp_add_point(secp256k1_point(i[1]),
                                                crypto_get_uncompressed_pubkey(m.key)))
  IN IF index >= Hardened THEN Refused(-1)
     ELSE IF m.depth = 255 THEN Refused(-2)
     ELSE sum(Hmac(m.chain, m.key, index))

(* ------------------------------- taproot ------------------------------- *)
\* The point of even y, or none.
crypto_tr_lift_x(x) ==
  LET lifted(c, y) == IF (y * y) % P # c THEN <<>>
                      ELSE <<<<x, IF y % 2 = 1 THEN P - y ELSE y>>>>
      square(c) == lifted(c, Pow(c, SqrtExponent, P))
  IN square((Pow(x, 3, P) + 7) % P)

crypto_tr_tweak_pubkey(x) ==
  LET failed == [ok |-> FALSE, parity |-> Undefined, x |-> Undefined]
      sum(q) == IF q = Infinity THEN failed ELSE [ok |-> TRUE, parity |-> q[2] % 2, x |-> q[1]]
      lifted(l) == IF l = <<>> \/ secp256k1_point(TapTweak(x)) = Infinity THEN failed
                   ELSE sum(cx_ecfp_add_point(secp256k1_point(TapTweak(x)), l[1]))
  IN IF TapTweak(x) >= N THEN failed ELSE lifted(crypto_tr_lift_x(x))

Negated(k) == IF secp256k1_point(k)[2] % 2 = 1 THEN N - k ELSE k
crypto_tr_tweak_seckey(k) ==
  LET t == TapTweak(secp256k1_point(k)[1])
  IN IF t >= N THEN [ok |-> FALSE, key |-> k] ELSE [ok |-> TRUE, key |-> (Negated(k) + t) % N]

(* ------------------------------ addresses ------------------------------ *)
Formats == {"legacy", "segwit", "native_segwit", "cashaddr", "taproot"}
\* An address is the encoding's name, what it is parameterised by, and what it
\* encodes.  The failure of a tweak is not looked at.
get_address_from_compressed_public_key(format, pub, coin) ==
  LET hash == crypto_hash160(pub)
      program == <<0, 20, hash>>
  IN CASE format = "cashaddr" -> <<"cashaddr", "p2pkh", hash>>
       [] format = "legacy" -> <<"base58", coin.p2pkh_version, hash>>
       [] format = "segwit" -> <<"base58", coin.p2sh_version, crypto_hash160(program)>>
       [] format = "native_segwit" /\ coin.prefix # <<>> -> <<"bech32", <<coin.prefix, 0>>, hash>>
       [] format = "taproot" /\ coin.prefix # <<>> ->
            <<"bech32", <<coin.prefix, 1>>, <<"tweaked", crypto_tr_tweak_pubkey(pub.x).x>>>>
       [] OTHER -> <<>>

MAX_BIP32_PATH == 10
\* The number of steps, the steps that follow it and the bytes after them.
parse_serialized_path(count, words, extra) ==
  LET length == (1 + 4 * Len(words) + extra) % 256
  IN IF length < 1 \/ count > MAX_BIP32_PATH \/ count * 4 + 1 > length
     THEN [ok |-> FALSE, path |-> <<>>] ELSE [ok |-> TRUE, path |-> SubSeq(words, 1, count)]

\* The address that the exchange application asks about, <<>> for none.
handle_check_address(params, coin) ==
  LET path == parse_serialized_path(params.count, params.words, params.extra)
      checked(key) == /\ key.ok
                      /\ LET address == get_address_from_compressed_public_key(params.format, key.pubkey, coin)
                         IN address # <<>> /\ address = params.address
  IN params.address # <<>> /\ path.ok /\ checked(crypto_get_compressed_pubkey_at_path(path.path))
=============================================================================
