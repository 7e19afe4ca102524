--------------------------- MODULE WalletsProofs ----------------------------
(***************************************************************************)
(* A wallet is registered as the user reviewed it, and addresses are given  *)
(* only for such wallets and the default ones: for every parser, script     *)
(* machine and set of wallets, and any number of commands.                  *)
(***************************************************************************)
EXTENDS Wallets, FiniteSetTheorems, SequenceTheorems, TLAPS

-----------------------------------------------------------------------------
(* The inductive invariant.                                                 *)

Registering == {"process_cosigner_info", "next_cosigner", "finalize_response"}
Addressing  == {"compute_address", "send_response"}

\* The screens a are the first n of the review r.
FirstOf(a, n, r) ==
  /\ a \in Seq(Range(r)) /\ Len(a) = n /\ n <= Len(r)
  /\ \A k \in 1..n : a[k] = r[k]
OursUpTo(w, n) == {k \in 1..n : Ours(w.keys[k])}

\* How many screens of the registration have been shown.
Shown == keyAt + (IF pc = "next_cosigner" THEN 2 ELSE 1)

\* A registration in progress: the screens that were shown are the first ones of
\* the review, all but the current one are approved, and n_internal_keys counts
\* the device's keys among those shown.
ReviewInv ==
  pc \in Registering =>
    /\ req.s \in Serializations /\ keyAt \in Nat
    /\ FirstOf(approved, IF screen = <<>> THEN Shown ELSE Shown - 1, Review(req.s.wallet))
    /\ screen # <<>> => Shown <= Len(Keys) + 1 /\ screen = Review(req.s.wallet)[Shown]
    /\ internal = Cardinality(OursUpTo(req.s.wallet, Shown - 1))
    /\ pc = "finalize_response" => screen = <<>> /\ keyAt = Len(Keys)

\* The wallet whose address is being computed is a default one or registered.
KnownInv ==
  pc \in Addressing =>
    /\ req.s \in Asked
    /\ canonical => CanonicalOk(req.s, tree, FALSE, req.change, req.i)
    /\ ~canonical => \E h \in hmacs : h.id.wallet = req.s.wallet

IdleInv == pc = "idle" => screen = <<>>
StageInv == pc \in {"idle"} \cup Registering \cup Addressing

IInv == /\ StageInv /\ IdleInv /\ ReviewInv /\ KnownInv
        /\ RegisteredAsReviewed /\ OnlyKnownWallets
-----------------------------------------------------------------------------
(* The review, and the keys that are the device's own.                      *)

\* A list is one over the set of its elements.
LEMMA ListOfItself ==
  ASSUME NEW T, NEW r \in Seq(T)
  PROVE  r \in Seq(Range(r))
<1>1. DOMAIN r = 1..Len(r) /\ Len(r) \in Nat
  OBVIOUS
<1>2. \A k \in 1..Len(r) : r[k] \in Range(r)
  BY <1>1 DEF Range
<1> QED
  BY <1>1, <1>2

\* The review of a wallet: one screen for the wallet and one for each key.
LEMMA ReviewFacts ==
  ASSUME NEW s \in Serializations \cup Asked
  PROVE  /\ Len(s.wallet.keys) \in Nat
         /\ DOMAIN s.wallet.keys = 1..Len(s.wallet.keys)
         /\ Review(s.wallet) \in Seq(Range(Review(s.wallet)))
         /\ Len(Review(s.wallet)) = Len(s.wallet.keys) + 1
         /\ Review(s.wallet)[1] = [name |-> s.wallet.name, text |-> s.wallet.text]
         /\ \A k \in 1..Len(s.wallet.keys) :
              Review(s.wallet)[k + 1] =
                [key |-> s.wallet.keys[k], index |-> k - 1, ours |-> Ours(s.wallet.keys[k])]
<1> DEFINE keys == s.wallet.keys
           first == [name |-> s.wallet.name, text |-> s.wallet.text]
           line(k) == [key |-> keys[k], index |-> k - 1, ours |-> Ours(keys[k])]
           lines == [k \in DOMAIN keys |-> line(k)]
           T == {first} \cup {line(k) : k \in DOMAIN keys}
<1>1. keys \in Seq(Range(keys))
  BY KeysAssumption, ZenonT(40)
<1>2. Len(keys) \in Nat /\ DOMAIN keys = 1..Len(keys)
  BY <1>1
<1>3. Review(s.wallet) = <<first>> \o lines
  BY DEF Review
<1> HIDE DEF first, line
<1>4. lines \in Seq(T) /\ Len(lines) = Len(keys) /\ <<first>> \in Seq(T)
  BY <1>2
<1>5. \A k \in 1..Len(keys) : lines[k] = line(k)
  BY <1>2
<1> HIDE DEF lines, keys
<1>6. /\ <<first>> \o lines \in Seq(T) /\ Len(<<first>> \o lines) = Len(keys) + 1
      /\ (<<first>> \o lines)[1] = first
      /\ \A k \in 1..Len(keys) : (<<first>> \o lines)[k + 1] = lines[k]
  BY <1>2, <1>4
<1>7. Review(s.wallet) \in Seq(Range(Review(s.wallet)))
  BY <1>3, <1>6, ListOfItself, ZenonT(40)
<1> QED
  BY <1>2, <1>3, <1>5, <1>6, <1>7, SMTT(30) DEF keys, first, line
\* One more approved screen.
LEMMA OneMore ==
  ASSUME NEW r, r \in Seq(Range(r)), NEW n \in Nat, n + 1 <= Len(r),
         NEW a, FirstOf(a, n, r)
  PROVE  FirstOf(Append(a, r[n + 1]), n + 1, r)
<1>1. Len(r) \in Nat /\ r[n + 1] \in Range(r)
  BY ElementOfSeq
<1>2. /\ Append(a, r[n + 1]) \in Seq(Range(r)) /\ Len(Append(a, r[n + 1])) = n + 1
      /\ \A k \in 1..n : Append(a, r[n + 1])[k] = a[k]
      /\ Append(a, r[n + 1])[n + 1] = r[n + 1]
  BY <1>1 DEF FirstOf
<1> QED
  BY <1>2 DEF FirstOf

\* All screens are the review.
LEMMA AllScreens ==
  ASSUME NEW r, r \in Seq(Range(r)), NEW a, FirstOf(a, Len(r), r)
  PROVE  a = r
BY DEF FirstOf

\* One more key: the count grows if it is the device's own.
LEMMA CountKeys ==
  ASSUME NEW w, NEW n \in Nat
  PROVE  /\ Cardinality(OursUpTo(w, 0)) = 0
         /\ Cardinality(OursUpTo(w, n + 1)) =
              Cardinality(OursUpTo(w, n)) + (IF Ours(w.keys[n + 1]) THEN 1 ELSE 0)
<1>1. OursUpTo(w, 0) = {}
  BY DEF OursUpTo
<1>2. IsFiniteSet(OursUpTo(w, n)) /\ n + 1 \notin OursUpTo(w, n)
  <2>1. IsFiniteSet(1..n)
    BY FS_Interval
  <2>2. OursUpTo(w, n) \subseteq 1..n
    BY DEF OursUpTo
  <2> QED
    BY <2>1, <2>2, FS_Subset
<1>3. OursUpTo(w, n + 1) = OursUpTo(w, n) \cup (IF Ours(w.keys[n + 1]) THEN {n + 1} ELSE {})
  BY DEF OursUpTo
<1>4. Cardinality(OursUpTo(w, n)) \in Nat
  BY <1>2, FS_CardinalityType
<1>5. Cardinality(OursUpTo(w, n) \cup {n + 1}) = Cardinality(OursUpTo(w, n)) + 1
  BY <1>2, FS_AddElement
<1>6. Cardinality(OursUpTo(w, 0)) = 0
  BY <1>1, FS_EmptySet, Zenon
<1>7. CASE Ours(w.keys[n + 1])
  BY <1>3, <1>5, <1>6, <1>7, ZenonT(40)
<1>8. CASE ~Ours(w.keys[n + 1])
  <2>1. OursUpTo(w, n + 1) = OursUpTo(w, n)
    BY <1>3, <1>8
  <2> QED
    BY <1>4, <1>6, <1>8, <2>1
<1> QED
  BY <1>7, <1>8
-----------------------------------------------------------------------------
(* The paths of the default wallets.                                        *)

\* Flipping the top bit of a step adds or takes away BIP32_FIRST_HARDENED_CHILD.
LEMMA XorFacts ==
  ASSUME NEW v \in 0..(SizeT - 1)
  PROVE  Xor(v) = IF v < Hardened THEN v + Hardened ELSE v - Hardened
BY WidthAssumption DEF Xor

\* The purpose of a default policy's address type is the one of its BIP.
LEMMA PurposeFacts ==
  ASSUME NEW node, get_policy_address_type(node) # "none"
  PROVE  /\ get_policy_address_type(node) \in DOMAIN BIP44_PURPOSE
         /\ get_bip44_purpose(get_policy_address_type(node)) = Purpose(node)
         /\ Purpose(node) \in 0..(Hardened - 1)
<1>1. \A p \in Policies : \A q \in Policies : p[1] = q[1] => p[2] = q[2]
  BY DEF Policies
<1>2. CASE node.type = "sh"
  <2>1. node.script.type = "wpkh" /\ get_policy_address_type(node) = "sh_wpkh"
    BY <1>2 DEF get_policy_address_type
  <2> QED
    BY <1>2, <2>1, WidthAssumption DEF Purpose, get_bip44_purpose, BIP44_PURPOSE
<1>3. CASE node.type # "sh"
  <2>1. node.type \in {"pkh", "wpkh", "tr"} /\ get_policy_address_type(node) = node.type
    BY <1>3 DEF get_policy_address_type
  <2>2. \E p \in Policies : p[1] = node.type /\ p[2] = BIP44_PURPOSE[node.type]
    BY <2>1 DEF Policies, BIP44_PURPOSE
  <2> DEFINE q == CHOOSE p \in Policies : p[1] = node.type
  <2>3. q \in Policies /\ q[1] = node.type
    BY <2>2
  <2>4. Purpose(node) = q[2]
    BY <1>3, <2>2 DEF Purpose
  <2>5. q[2] = BIP44_PURPOSE[node.type]
    BY <1>1, <2>2, <2>3
  <2> QED
    BY <2>1, <2>4, <2>5, WidthAssumption DEF get_bip44_purpose, BIP44_PURPOSE
<1> QED
  BY <1>2, <1>3
\* The five steps of an address: three of the key, the change and the index.
LEMMA FiveSteps ==
  ASSUME NEW T, NEW path \in Seq(T), Len(path) <= 3, 3 <= Len(path), NEW change, NEW i
  PROVE  LET full == path \o <<change, i>>
         IN  /\ SubSeq(full, 1, 3)[1] = path[1] /\ SubSeq(full, 1, 3)[2] = path[2]
             /\ SubSeq(full, 1, 3)[3] = path[3] /\ Len(SubSeq(full, 1, 3)) = 3
             /\ full[5] = i
             /\ path[2] \in T /\ path[3] \in T
<1> DEFINE U == T \cup {change, i}
           full == path \o <<change, i>>
<1>1. T \subseteq U /\ change \in U /\ i \in U
  OBVIOUS
<1> HIDE DEF U
<1> DEFINE two == <<change, i>>
<1>2. path \in Seq(U) /\ two \in Seq(U) /\ Len(two) \in Nat /\ Len(two) >= 2 /\ Len(two) <= 2
      /\ two[2] = i
  BY <1>1, SeqMonotonic
<1> HIDE DEF two
<1>3. path[2] \in T /\ path[3] \in T
  BY ElementOfSeq
<1>4. /\ full \in Seq(U) /\ Len(full) \in Nat /\ Len(full) >= 5 /\ Len(full) <= 5
      /\ full[1] = path[1] /\ full[2] = path[2]
      /\ full[3] = path[3] /\ full[5] = i
  <2>1. full \in Seq(U) /\ Len(full) = Len(path) + Len(two)
    BY <1>2, ConcatProperties DEF two
  <2>2. \A j \in 1..(Len(path) + Len(two)) :
          full[j] = IF j <= Len(path) THEN path[j] ELSE two[j - Len(path)]
    BY <1>2, ConcatProperties DEF two
  <2>3. Len(path) \in Nat /\ Len(two) \in Nat
    BY <1>2
  <2> HIDE DEF full
  <2>4. full[1] = path[1] /\ full[2] = path[2] /\ full[3] = path[3]
    BY <1>2, <2>2, <2>3
  <2>5. full[5] = two[5 - Len(path)] /\ 5 - Len(path) = 2
    BY <1>2, <2>2, <2>3
  <2> QED
    BY <1>2, <2>1, <2>3, <2>4, <2>5
<1> HIDE DEF full
<1>5. /\ SubSeq(full, 1, 3)[1] = path[1] /\ SubSeq(full, 1, 3)[2] = path[2]
      /\ SubSeq(full, 1, 3)[3] = path[3] /\ Len(SubSeq(full, 1, 3)) = 3
  BY <1>4
<1> QED
  BY <1>3, <1>4, <1>5 DEF full, two

\* A list of three is the tuple of its elements.
LEMMA ThreeSteps ==
  ASSUME NEW T, NEW path \in Seq(T), Len(path) <= 3, 3 <= Len(path)
  PROVE  path = <<path[1], path[2], path[3]>>
<1> DEFINE t == <<path[1], path[2], path[3]>>
<1>1. path[1] \in T /\ path[2] \in T /\ path[3] \in T
  BY ElementOfSeq
<1>2. /\ t \in Seq(T) /\ Len(t) \in Nat /\ Len(t) <= 3 /\ 3 <= Len(t)
      /\ t[1] = path[1] /\ t[2] = path[2] /\ t[3] = path[3]
  BY <1>1
<1> HIDE DEF t
<1>3. Len(t) = Len(path)
  BY <1>2
<1>4. \A k \in 1..Len(path) : path[k] = t[k]
  <2>1. \A k \in 1..Len(path) : k = 1 \/ k = 2 \/ k = 3
    OBVIOUS
  <2> QED
    BY <1>2, <2>1
<1>5. path = t
  BY <1>2, <1>3, <1>4, SeqEqual, SMTT(30)
<1> QED
  BY <1>5 DEF t

\* What handler_get_wallet_address checks of a wallet without hmac.
LEMMA CanonicalFacts ==
  ASSUME NEW s \in Asked, NEW node, NEW lost, NEW change, NEW i,
         CanonicalOk(s, node, lost, change, i)
  PROVE  /\ Len(s.wallet.keys) = 1 /\ Ours(s.wallet.keys[1])
         /\ \E account \in 0..MaxAccount, coin \in CoinTypes :
              AsWritten(s.wallet.keys[1]).path =
                <<Purpose(node) + Hardened, coin + Hardened, account + Hardened>>
         /\ i <= MaxIndex
<1> DEFINE key == s.wallet.keys[1]
           path == AsWritten(key).path
           T == 0..(SizeT - 1)
           full == path \o <<change, i>>
<1>1. /\ get_policy_address_type(node) # "none" /\ Len(s.wallet.keys) = 1
      /\ IsInternal(AsWritten(key)) /\ Len(path) = 3
      /\ is_address_path_standard(full, get_bip44_purpose(get_policy_address_type(node)))
  BY ZenonT(40) DEF CanonicalOk, AsWritten
<1>2. Ours(key)
  BY <1>1 DEF IsInternal, Ours
<1>3. path \in Seq(T)
  <2>1. s.wallet.keys \in Seq(Range(s.wallet.keys))
    BY KeysAssumption, ZenonT(40)
  <2>2. key \in Range(s.wallet.keys)
    BY <1>1, <2>1
  <2> QED
    BY <2>2, KeysAssumption, ZenonT(40) DEF AsWritten
<1>4. is_address_path_standard(full, Purpose(node)) /\ Purpose(node) \in 0..(Hardened - 1)
  BY <1>1, PurposeFacts
<1>a. Len(path) <= 3 /\ 3 <= Len(path)
  BY <1>1
<1> HIDE DEF path, T
<1>5. /\ SubSeq(full, 1, 3)[1] = path[1] /\ SubSeq(full, 1, 3)[2] = path[2]
      /\ SubSeq(full, 1, 3)[3] = path[3] /\ Len(SubSeq(full, 1, 3)) = 3
      /\ full[5] = i /\ path[2] \in T /\ path[3] \in T
  BY <1>3, <1>a, FiveSteps
<1>6. /\ path[1] = Xor(Purpose(node)) /\ path[2] >= Hardened /\ Xor(path[2]) \in CoinTypes
      /\ Xor(path[3]) <= MaxAccount /\ i <= MaxIndex
  BY <1>4, <1>5 DEF is_address_path_standard, is_pubkey_path_standard
<1> USE DEF T
<1>8. path[1] = Purpose(node) + Hardened
  BY <1>4, <1>6, XorFacts, WidthAssumption
<1>9. path[2] = Xor(path[2]) + Hardened
  BY <1>6, <1>5, XorFacts, WidthAssumption
<1>10. path[3] = Xor(path[3]) + Hardened /\ Xor(path[3]) \in 0..MaxAccount
  <2>1. Xor(path[3]) = IF path[3] < Hardened THEN path[3] + Hardened ELSE path[3] - Hardened
    BY <1>5, XorFacts
  <2>2. path[3] \in Nat /\ Hardened \in Nat /\ MaxAccount \in 0..(Hardened - 1)
    BY <1>5, WidthAssumption
  <2> QED
    BY <1>6, <2>1, <2>2
<1>11. path = <<Purpose(node) + Hardened, Xor(path[2]) + Hardened, Xor(path[3]) + Hardened>>
  BY <1>3, <1>8, <1>9, <1>10, <1>a, ThreeSteps
<1> QED
  BY <1>1, <1>2, <1>6, <1>10, <1>11, ZenonT(40) DEF path
-----------------------------------------------------------------------------
(* Every step keeps the invariant.                                          *)

\* A device that has served no command.
LEMMA InitInv == Init => IInv
BY DEF Init, IInv, StageInv, IdleInv, ReviewInv, KnownInv, Registering, Addressing,
       RegisteredAsReviewed, OnlyKnownWallets

\* Outside finalize_response and send_response nothing is registered or given.
LEMMA NothingNew ==
  ASSUME RegisteredAsReviewed, OnlyKnownWallets, UNCHANGED <<hmacs, given>>
  PROVE  RegisteredAsReviewed' /\ OnlyKnownWallets'
BY ZenonT(40) DEF RegisteredAsReviewed, OnlyKnownWallets

\* A command that has ended, with or without success.
LEMMA Ended ==
  ASSUME pc' = "idle", screen' = <<>>
  PROVE  StageInv' /\ IdleInv' /\ ReviewInv' /\ KnownInv'
BY DEF StageInv, IdleInv, ReviewInv, KnownInv, Registering, Addressing

\* The first screen of a registration: the name and the template.
LEMMA RegisterStep ==
  ASSUME IInv, NEW s \in Serializations, handler_register_wallet(s)
  PROVE  IInv'
<1> USE DEF handler_register_wallet, NewCommand
<1>1. RegisteredAsReviewed' /\ OnlyKnownWallets'
  BY NothingNew DEF IInv
<1>2. CASE Error
  BY <1>1, <1>2, Ended DEF IInv, Error, Finish
<1>3. CASE Show([name |-> s.wallet.name, text |-> s.wallet.text], "process_cosigner_info")
  <2> DEFINE r == Review(s.wallet)
  <2>1. /\ r \in Seq(Range(r)) /\ Len(r) \in Nat /\ Len(s.wallet.keys) \in Nat
        /\ Len(r) = Len(s.wallet.keys) + 1 /\ r[1] = [name |-> s.wallet.name, text |-> s.wallet.text]
    BY ReviewFacts
  <2> HIDE DEF r
  <2>2. /\ pc' = "process_cosigner_info" /\ req' = [cmd |-> "register", s |-> s]
        /\ screen' = [name |-> s.wallet.name, text |-> s.wallet.text]
        /\ keyAt' = 0 /\ internal' = 0 /\ approved' = <<>>
    BY <1>3 DEF Show, ClearState
  <2>3. screen' # <<>> /\ req'.s = s
    BY <2>2
  <2>4. Shown' = 1
    BY <2>2 DEF Shown
  <2>5. FirstOf(<<>>, 0, r)
    BY <2>1 DEF FirstOf
  <2>6. Cardinality(OursUpTo(s.wallet, 0)) = 0
    BY CountKeys
  <2>7. ReviewInv'
    BY <2>1, <2>2, <2>3, <2>4, <2>5, <2>6 DEF ReviewInv, Registering, Keys, r
  <2> QED
    BY <1>1, <2>2, <2>7 DEF IInv, StageInv, IdleInv, KnownInv, Registering, Addressing
<1> QED
  BY <1>2, <1>3

\* A key is shown after the ones before it, and counted if it is the device's own.
LEMMA CosignerStep ==
  ASSUME IInv, NEW lost \in BOOLEAN, process_cosigner_info(lost)
  PROVE  IInv'
<1> USE DEF process_cosigner_info
<1>1. RegisteredAsReviewed' /\ OnlyKnownWallets'
  BY NothingNew DEF IInv
<1>2. CASE Error
  BY <1>1, <1>2, Ended DEF IInv, Error, Finish
<1>3. CASE ~Error
  <2> DEFINE key == Keys[keyAt + 1]
             info == ParsedKey(key, FALSE)
             line == [key |-> key, index |-> keyAt, ours |-> IsInternal(info)]
             w == req.s.wallet
             r == Review(w)
  <2>1. /\ ~(keyAt >= Len(Keys)) /\ Show(line, "next_cosigner")
        /\ internal' = internal + (IF IsInternal(info) THEN 1 ELSE 0)
    BY <1>3, ZenonT(40)
  <2>2. /\ req.s \in Serializations /\ keyAt \in Nat
        /\ FirstOf(approved, keyAt + 1, r)
        /\ internal = Cardinality(OursUpTo(w, keyAt))
    BY DEF IInv, ReviewInv, Registering, Shown
  <2>3. IsInternal(info) = Ours(key)
    BY ZenonT(40) DEF IsInternal, Ours, AsWritten
  <2>4. line = [key |-> key, index |-> keyAt, ours |-> Ours(key)]
    BY <2>3, ZenonT(40)
  <2>5. /\ Len(Keys) \in Nat /\ Len(r) = Len(Keys) + 1
        /\ r[keyAt + 2] = line
    <3>1. keyAt + 1 \in 1..Len(Keys) /\ Len(Keys) \in Nat
      BY <2>1, <2>2, ReviewFacts DEF Keys
    <3>2. r[(keyAt + 1) + 1] = [key |-> key, index |-> (keyAt + 1) - 1, ours |-> Ours(key)]
      BY <2>2, <3>1, ReviewFacts, ZenonT(40) DEF Keys
    <3>3. (keyAt + 1) + 1 = keyAt + 2 /\ (keyAt + 1) - 1 = keyAt
      BY <2>2
    <3> QED
      BY <2>2, <2>4, <3>1, <3>2, <3>3, ReviewFacts, ZenonT(40) DEF Keys
  <2>6. internal' = Cardinality(OursUpTo(w, keyAt + 1))
    BY <2>1, <2>2, <2>3, CountKeys, ZenonT(40) DEF Keys
  <2> HIDE DEF r
  <2>a. line # <<>>
    <3>1. \A a, b, c : [key |-> a, index |-> b, ours |-> c] # <<>>
      OBVIOUS
    <3> HIDE DEF key
    <3> QED
      BY <2>4, <3>1, Zenon
  <2> HIDE DEF line
  <2>7. /\ pc' = "next_cosigner" /\ screen' = line /\ line # <<>>
        /\ UNCHANGED <<req, keyAt, approved>>
    BY <2>1, <2>a DEF Show
  <2>8. Shown' = keyAt + 2 /\ keyAt + 2 <= Len(Keys) + 1 /\ (keyAt + 2) - 1 = keyAt + 1
    BY <2>1, <2>2, <2>5, <2>7, SMTT(30) DEF Shown
  <2>9. ReviewInv'
    BY <2>2, <2>5, <2>6, <2>7, <2>8 DEF ReviewInv, Registering, Keys, r
  <2> QED
    BY <1>1, <2>7, <2>9 DEF IInv, StageInv, IdleInv, KnownInv, Registering, Addressing
<1> QED
  BY <1>2, <1>3
\* The count of keys moves on with the screens.
LEMMA NextCosignerStep ==
  ASSUME IInv, next_cosigner
  PROVE  IInv'
<1> USE DEF next_cosigner, Next_
<1>1. RegisteredAsReviewed' /\ OnlyKnownWallets'
  BY NothingNew DEF IInv
<1>2. /\ req.s \in Serializations /\ keyAt \in Nat /\ Shown = keyAt + 2
      /\ FirstOf(approved, keyAt + 2, Review(req.s.wallet))
      /\ internal = Cardinality(OursUpTo(req.s.wallet, keyAt + 1))
  <2>1. Shown = keyAt + 2
    BY DEF Shown
  <2>2. /\ req.s \in Serializations /\ keyAt \in Nat
        /\ FirstOf(approved, Shown, Review(req.s.wallet))
        /\ internal = Cardinality(OursUpTo(req.s.wallet, Shown - 1))
    BY DEF IInv, ReviewInv, Registering
  <2>3. Shown - 1 = keyAt + 1
    BY <2>1, <2>2
  <2> QED
    BY <2>1, <2>2, <2>3
<1> DEFINE n == Len(Keys)
<1>3. n \in Nat /\ keyAt + 2 <= n + 1
  BY <1>2, ReviewFacts, ZenonT(40) DEF FirstOf, Keys
<1>4. /\ pc' \in {"process_cosigner_info", "finalize_response"} /\ keyAt' = keyAt + 1
      /\ UNCHANGED <<req, approved, internal>> /\ screen = <<>> /\ screen' = <<>>
  OBVIOUS
<1>5. Shown' = keyAt + 2 /\ (keyAt + 2) - 1 = keyAt + 1
  BY <1>2, <1>4 DEF Shown
<1>6. pc' = "finalize_response" => keyAt' = n
  <2>1. pc' = IF keyAt + 1 < n THEN "process_cosigner_info" ELSE "finalize_response"
    OBVIOUS
  <2> HIDE DEF n
  <2> QED
    BY <1>2, <1>3, <1>4, <2>1
<1>7. ReviewInv'
  BY <1>2, <1>4, <1>5, <1>6 DEF ReviewInv, Registering, Keys
<1> QED
  BY <1>1, <1>4, <1>7 DEF IInv, StageInv, IdleInv, KnownInv, Registering, Addressing

\* What finalize_response registers was reviewed.
LEMMA FinalizeStep ==
  ASSUME IInv, finalize_response
  PROVE  IInv'
<1> USE DEF finalize_response
<1>1. pc' = "idle" /\ screen' = <<>> /\ given' = given /\ hmacs \subseteq hmacs'
  BY DEF Finish, Error
<1>2. OnlyKnownWallets'
  BY <1>1, ZenonT(40) DEF IInv, OnlyKnownWallets
<1>3. CASE hmacs' = hmacs
  BY <1>1, <1>2, <1>3, Ended DEF IInv, RegisteredAsReviewed
<1>4. CASE hmacs' # hmacs
  <2> DEFINE w == req.s.wallet
             h == [id |-> get_policy_wallet_id(req.s), approved |-> approved]
  <2>1. internal = 1 /\ hmacs' = hmacs \cup {h}
    BY <1>4
  <2>2. /\ req.s \in Serializations /\ keyAt = Len(w.keys) /\ keyAt \in Nat /\ Shown = keyAt + 1
        /\ FirstOf(approved, keyAt + 1, Review(w))
        /\ internal = Cardinality(OursUpTo(w, keyAt))
    <3>1. /\ req.s \in Serializations /\ keyAt = Len(w.keys) /\ keyAt \in Nat /\ screen = <<>>
          /\ FirstOf(approved, Shown, Review(w))
          /\ internal = Cardinality(OursUpTo(w, Shown - 1))
      BY DEF IInv, ReviewInv, Registering, Keys
    <3>2. Shown = keyAt + 1
      BY DEF Shown
    <3>3. Shown - 1 = keyAt
      BY <3>1, <3>2
    <3> QED
      BY <3>1, <3>2, <3>3
  <2>3. approved = Review(w)
    BY <2>2, ReviewFacts, AllScreens, ZenonT(40)
  <2>4. h.id.wallet = w /\ h.approved = approved
    BY DEF get_policy_wallet_id
  <2>5. {k \in DOMAIN w.keys : Ours(w.keys[k])} = OursUpTo(w, keyAt)
    BY <2>2, ReviewFacts DEF OursUpTo
  <2>6. /\ h.approved = Review(h.id.wallet)
        /\ Cardinality({k \in DOMAIN h.id.wallet.keys : Ours(h.id.wallet.keys[k])}) = 1
    BY <2>1, <2>2, <2>3, <2>4, <2>5, ZenonT(40)
  <2> HIDE DEF h
  <2>7. RegisteredAsReviewed'
    BY <2>1, <2>6, ZenonT(40) DEF IInv, RegisteredAsReviewed
  <2> QED
    BY <1>1, <1>2, <2>7, Ended DEF IInv
<1> QED
  BY <1>3, <1>4

\* An address is computed only for a default wallet or a registered one.
LEMMA AddressStep ==
  ASSUME IInv, NEW s \in Asked, NEW hmac \in Hmacs, NEW change, NEW i, NEW display,
         NEW lost \in BOOLEAN, handler_get_wallet_address(s, hmac, change, i, display, lost)
  PROVE  IInv'
<1> USE DEF handler_get_wallet_address, NewCommand
<1>1. RegisteredAsReviewed' /\ OnlyKnownWallets'
  BY NothingNew DEF IInv
<1>2. CASE Error
  BY <1>1, <1>2, Ended, SMTT(30) DEF IInv, Error, Finish
<1>3. CASE ~Error
  <2> DEFINE node == ParsedTemplate(s.wallet.text).node
  <2>1. /\ tree' = node /\ canonical' = (hmac = NoHmac) /\ pc' = "compute_address"
        /\ hmac = NoHmac => CanonicalOk(s, node, lost, change, i)
        /\ hmac # NoHmac => check_wallet_hmac(s, hmac)
        /\ req' = [cmd |-> "address", s |-> s, hmac |-> hmac, change |-> change, i |-> i,
                   display |-> display]
        /\ hmacs' = hmacs
    BY <1>3 DEF Next_
  <2>2. req'.s = s /\ req'.change = change /\ req'.i = i
    BY <2>1, SMTT(30)
  <2>3. hmac = NoHmac => CanonicalOk(s, node, FALSE, change, i)
    BY <2>1, ZenonT(40) DEF CanonicalOk
  <2>4. hmac # NoHmac => \E h \in hmacs : h.id.wallet = s.wallet
    <3> SUFFICES ASSUME hmac # NoHmac PROVE \E h \in hmacs : h.id = s
      OBVIOUS
    <3>1. hmac = <<"of", s>>
      BY <2>1 DEF check_wallet_hmac
    <3>2. hmac # <<"wrong">>
      BY <3>1, SMTT(30)
    <3>3. PICK h \in hmacs : hmac = <<"of", h.id>>
      BY <3>2 DEF Hmacs
    <3> QED
      BY <3>1, <3>3
  <2>5. KnownInv'
    BY <2>1, <2>2, <2>3, <2>4, ZenonT(40) DEF KnownInv
  <2> QED
    BY <1>1, <2>1, <2>5 DEF IInv, StageInv, IdleInv, ReviewInv, Registering, Addressing
<1> QED
  BY <1>2, <1>3
\* The address that is given belongs to a default wallet or a registered one.
LEMMA ResponseStep ==
  ASSUME IInv, send_response
  PROVE  IInv'
<1> USE DEF send_response
<1> DEFINE g == [s |-> req.s, tree |-> tree, canonical |-> canonical,
                 change |-> req.change, i |-> req.i, display |-> req.display,
                 approved |-> approved, address |-> ScriptAddress(machine.out)]
<1>1. pc' = "idle" /\ screen' = <<>> /\ hmacs' = hmacs /\ given' = given \cup {g}
  BY DEF Finish
<1>2. /\ req.s \in Asked
      /\ canonical => CanonicalOk(req.s, tree, FALSE, req.change, req.i)
      /\ ~canonical => \E h \in hmacs : h.id.wallet = req.s.wallet
  BY ZenonT(40) DEF IInv, KnownInv, Addressing
<1>3. g.s = req.s /\ g.tree = tree /\ g.canonical = canonical /\ g.i = req.i
  BY SMTT(30)
<1> HIDE DEF g
<1>4. IF g.canonical
      THEN /\ Len(g.s.wallet.keys) = 1 /\ Ours(g.s.wallet.keys[1])
           /\ \E account \in 0..MaxAccount, coin \in CoinTypes :
                AsWritten(g.s.wallet.keys[1]).path =
                  <<Purpose(g.tree) + Hardened, coin + Hardened, account + Hardened>>
           /\ g.i <= MaxIndex
      ELSE \E h \in hmacs : h.id.wallet = g.s.wallet
  <2>1. CASE canonical
    <3>1. req.s \in Asked /\ CanonicalOk(req.s, tree, FALSE, req.change, req.i)
      BY <1>2, <2>1, ZenonT(40)
    <3>2. /\ Len(req.s.wallet.keys) = 1 /\ Ours(req.s.wallet.keys[1])
          /\ \E account \in 0..MaxAccount, coin \in CoinTypes :
               AsWritten(req.s.wallet.keys[1]).path =
                 <<Purpose(tree) + Hardened, coin + Hardened, account + Hardened>>
          /\ req.i <= MaxIndex
      BY <3>1, CanonicalFacts, ZenonT(40)
    <3> QED
      BY <1>3, <2>1, <3>2
  <2>2. CASE ~canonical
    BY <1>2, <1>3, <2>2
  <2> QED
    BY <2>1, <2>2, Zenon
<1>5. OnlyKnownWallets'
  BY <1>1, <1>4, ZenonT(40) DEF IInv, OnlyKnownWallets
<1>6. RegisteredAsReviewed'
  BY <1>1, Zenon DEF IInv, RegisteredAsReviewed
<1> QED
  BY <1>1, <1>5, <1>6, Ended DEF IInv

\* The user approves the screen of a registration, which is the next of the review.
LEMMA ApproveStep ==
  ASSUME IInv, Approve
  PROVE  IInv'
<1> USE DEF Approve
<1>1. RegisteredAsReviewed' /\ OnlyKnownWallets'
  BY NothingNew DEF IInv
<1>2. ReviewInv'
  <2> SUFFICES ASSUME pc \in Registering PROVE ReviewInv'
    BY DEF ReviewInv
  <2> DEFINE r == Review(req.s.wallet)
             n == Shown - 1
  <2>1. /\ req.s \in Serializations /\ keyAt \in Nat /\ FirstOf(approved, n, r)
        /\ Shown <= Len(Keys) + 1 /\ screen = r[Shown] /\ pc # "finalize_response"
        /\ internal = Cardinality(OursUpTo(req.s.wallet, n))
    BY DEF IInv, ReviewInv
  <2>2. r \in Seq(Range(r)) /\ Len(r) \in Nat /\ Len(Keys) \in Nat /\ Len(r) = Len(Keys) + 1
    <3>1. req.s \in Serializations
      BY <2>1
    <3>2. r \in Seq(Range(r)) /\ Len(Keys) \in Nat /\ Len(r) = Len(Keys) + 1
      BY <3>1, ReviewFacts, Zenon DEF Keys
    <3> QED
      BY <3>2
  <2>3. n \in Nat /\ n + 1 = Shown /\ n + 1 <= Len(r)
    BY <2>1, <2>2 DEF Shown
  <2> HIDE DEF r, n
  <2>4. FirstOf(Append(approved, r[n + 1]), n + 1, r)
    BY <2>1, <2>2, <2>3, OneMore
  <2>5. Shown' = Shown
    BY SMTT(30) DEF Shown
  <2> QED
    BY <2>1, <2>3, <2>4, <2>5, SMTT(30) DEF ReviewInv, Keys, r, n
<1> QED
  BY <1>1, <1>2, ZenonT(40) DEF IInv, StageInv, IdleInv, KnownInv

\* The invariant does not depend on the other variables.
LEMMA Unchanged ==
  ASSUME IInv,
         UNCHANGED <<pc, req, tree, keyAt, internal, canonical, screen, approved, hmacs, given>>
  PROVE  IInv'
BY ZenonT(40) DEF IInv, StageInv, IdleInv, ReviewInv, KnownInv, RegisteredAsReviewed, OnlyKnownWallets,
       Shown, Keys

\* Every step keeps the invariant.
LEMMA NextInv ==
  ASSUME IInv, [Next]_vars
  PROVE  IInv'
<1>1. CASE EarlyReturn
  BY <1>1, NothingNew, Ended DEF EarlyReturn, NewCommand, Error, Finish, IInv
<1>2. ASSUME NEW lookup \in Lookups, get_wallet_script_round(lookup) PROVE IInv'
  <2>1. UNCHANGED <<pc, req, tree, keyAt, internal, canonical, screen, approved, hmacs, given>>
    BY <1>2 DEF get_wallet_script_round
  <2> QED
    BY <2>1, Unchanged
<1>3. CASE compute_address
  <2>1. RegisteredAsReviewed' /\ OnlyKnownWallets'
    BY <1>3, NothingNew DEF compute_address, IInv
  <2>2. CASE Error
    BY <2>1, <2>2, Ended, SMTT(30) DEF IInv, Error, Finish
  <2>3. CASE ~Error
    <3>1. /\ pc' = "send_response" /\ pc = "compute_address"
          /\ UNCHANGED <<req, tree, canonical, hmacs>>
      BY <1>3, <2>3, ZenonT(40) DEF compute_address, Next_, Show
    <3> QED
      BY <2>1, <3>1, ZenonT(40)
         DEF IInv, StageInv, IdleInv, ReviewInv, KnownInv, Registering, Addressing
  <2> QED
    BY <2>2, <2>3
<1>4. CASE Deny
  BY <1>4, NothingNew, Ended DEF Deny, Error, Finish, IInv
<1>5. CASE UNCHANGED vars
  BY <1>5, Unchanged DEF vars
<1>6. ASSUME NEW s \in Asked, NEW h \in Hmacs, NEW c \in {0, 1}, NEW i \in Indexes,
             NEW d \in BOOLEAN, NEW lost \in IF h = NoHmac THEN BOOLEAN ELSE {FALSE},
             handler_get_wallet_address(s, h, c, i, d, lost)
      PROVE  IInv'
  <2>1. lost \in BOOLEAN
    BY ZenonT(40)
  <2> QED
    BY <1>6, <2>1, AddressStep
<1> QED
  BY <1>1, <1>2, <1>3, <1>4, <1>5, <1>6, RegisterStep, CosignerStep, NextCosignerStep,
     FinalizeStep, ResponseStep, ApproveStep, ZenonT(40)
     DEF Next
-----------------------------------------------------------------------------

\* The inductive invariant holds throughout.
THEOREM Invariance == Spec => []IInv
<1>1. Init => IInv
  BY InitInv
<1>2. IInv /\ [Next]_vars => IInv'
  BY NextInv
<1> QED
  BY <1>1, <1>2, PTL DEF Spec

(* A wallet is registered only as the user reviewed it in that one command:    *)
(* process_cosigner_info, next_cosigner and finalize_response cannot be led to *)
(* skip, repeat or swap a screen, or to miscount the device's keys, by any     *)
(* sequence of commands, refusals and lost answers.                            *)
THEOREM RegistersAsReviewed == Spec => []RegisteredAsReviewed
<1>1. IInv => RegisteredAsReviewed
  BY DEF IInv
<1> QED
  BY <1>1, Invariance, PTL

(* handler_get_wallet_address lets an address be computed only for a wallet    *)
(* registered before, or for a default policy whose one key is the device's    *)
(* own at a path reserved for it, whatever the parser makes of a template.     *)
THEOREM ServesKnownWallets == Spec => []OnlyKnownWallets
<1>1. IInv => OnlyKnownWallets
  BY DEF IInv
<1> QED
  BY <1>1, Invariance, PTL
=============================================================================
