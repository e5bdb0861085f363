----------------------------- MODULE CardanoKeys -----------------------------
(***************************************************************************)
(* Derivation of Cardano keys (cardano_derive.go, cardano_extkey.go): from *)
(* an extended key, and from its public half by a wallet that can watch    *)
(* but not sign.                                                           *)
(*                                                                         *)
(* Scalars are little-endian digits and added digit by digit.  A point is  *)
(* its scalar modulo the order of the group; HMAC is a function, given as  *)
(* a constant.                                                             *)
(***************************************************************************)
EXTENDS PureCall, Integers, SequencesExt

CONSTANTS
    Digit,          \* 256
    Width,          \* 32: digits of a scalar
    Trunc,          \* 28: digits of the tweak that are used
    Cofactor,       \* 8
    Order,          \* L, the order of the group
    Hardened,       \* 2^31: the first index of a hardened child
    Chains,         \* chain codes
    Hmac(_, _, _),  \* of a chain code, key material and an index: [zl, zr, chain]
    NoKey           \* nil, an error

Digits  == [1..Width -> 0..Digit-1]
Points  == 0..Order-1
Indices == 0..2*Hardened-1

ASSUME CardanoKeysAssumption ==
    /\ Digit \in Nat \ {0, 1} /\ Width \in Nat /\ Trunc \in 1..Width
    /\ {Cofactor, Order, Hardened} \subseteq Nat \ {0}
    /\ \A c \in Chains, m \in (Digits \X Digits) \cup { <<p>> : p \in Points }, index \in Indices :
          Hmac(c, m, index) \in [zl : Digits, zr : Digits, chain : Chains]
    /\ NoKey \notin Chains \cup [scalar : Digits, nonce : Digits, pub : Points, chain : Chains \cup {NoKey}]
                           \cup [pub : Points, chain : Chains]

Zero == [i \in 1..Width |-> 0]

\* What one of the digit n + 1 stands for.
Place[n \in 0..Width] == IF n = 0 THEN 1 ELSE Digit * Place[n - 1]
Size == Place[Width]

\* The number that the first n digits make.
Value(x, n) ==
    LET v[k \in 0..n] == IF k = 0 THEN 0 ELSE v[k - 1] + x[k] * Place[k - 1]
    IN  v[n]

\* c[k] is what digit k hands on to the next.
Carried(terms) ==
    LET c[k \in 0..Len(terms)] == IF k = 0 THEN 0 ELSE (terms[k] + c[k - 1]) \div Digit
    IN  [k \in 1..Len(terms) |-> (terms[k] + c[k - 1]) % Digit]

\* mutant: the carry out of the truncated digits is lost.
cardanoAdd28Mul8Cut(x, y) ==
    Carried([i \in 1..Trunc |-> x[i] + Cofactor * y[i]]) \o SubSeq(x, Trunc + 1, Width)

cardanoAdd28Mul8(x, y) ==
    Carried([i \in 1..Width |-> x[i] + (IF i <= Trunc THEN Cofactor * y[i] ELSE 0)])

cardanoAdd256(x, y) == Carried([i \in 1..Width |-> x[i] + y[i]])

cardanoScalarBasePub(scalar) == Value(scalar, Width) % Order

-----------------------------------------------------------------------------
(***************************************************************************)
(* Keys.                                                                   *)
(***************************************************************************)
\* chain is NoKey for a key of 64 bytes, which has no chain code.
NewCardanoExtendedKey(scalar, nonce, chain) ==
    [scalar |-> scalar, nonce |-> nonce, pub |-> cardanoScalarBasePub(scalar), chain |-> chain]

ExtendedPublicKey(ek) ==
    IF ek = NoKey \/ ek.chain = NoKey THEN NoKey ELSE [pub |-> ek.pub, chain |-> ek.chain]

\* A hardened child hashes the secret, a soft one the public key.
Material(ek, index) == IF index >= Hardened THEN <<ek.scalar, ek.nonce>> ELSE <<ek.pub>>

DeriveChild(ek, index) ==
    IF ek = NoKey \/ ek.chain = NoKey THEN NoKey
    ELSE LET h == Hmac(ek.chain, Material(ek, index), index)
         IN  NewCardanoExtendedKey(cardanoAdd28Mul8(ek.scalar, h.zl),
                                   cardanoAdd256(ek.nonce, h.zr), h.chain)

cardanoPointAddBase(pub, scalar) == (pub + cardanoScalarBasePub(scalar)) % Order

\* mutant: the first hardened index is taken for a soft one.
DerivePublicChildLate(xp, index) ==
    IF xp = NoKey \/ index > Hardened THEN NoKey
    ELSE LET h == Hmac(xp.chain, <<xp.pub>>, index)
         IN  [pub |-> cardanoPointAddBase(xp.pub, cardanoAdd28Mul8(Zero, h.zl)), chain |-> h.chain]

DerivePublicChild(xp, index) ==
    IF xp = NoKey \/ index >= Hardened THEN NoKey
    ELSE LET h == Hmac(xp.chain, <<xp.pub>>, index)
         IN  [pub |-> cardanoPointAddBase(xp.pub, cardanoAdd28Mul8(Zero, h.zl)), chain |-> h.chain]

DerivePath(ek, indices) ==
    LET cur[k \in 0..Len(indices)] == IF k = 0 THEN ek ELSE DeriveChild(cur[k - 1], indices[k])
    IN  cur[Len(indices)]

DerivePublicPath(xp, indices) ==
    LET cur[k \in 0..Len(indices)] == IF k = 0 THEN xp ELSE DerivePublicChild(cur[k - 1], indices[k])
    IN  cur[Len(indices)]

-----------------------------------------------------------------------------
(***************************************************************************)
(* Properties.                                                             *)
(***************************************************************************)
\* The sums of digits are sums of numbers, for every run of carries
\* (cardano_derive.go:197, 214).
AdditionsAreExact ==
    Called("cardanoAdd") =>
        LET x == Value(call.x, Width)
        IN  /\ Value(cardanoAdd28Mul8(call.x, call.y), Width) =
                   (x + Cofactor * Value(call.y, Trunc)) % Size
            /\ Value(cardanoAdd256(call.x, call.y), Width) = (x + Value(call.y, Width)) % Size

\* The scalar stays below 2^256 along a path of this length, as it does for keys of
\* the clamped form (cardano_derive.go:34) and less than 2^27 steps.
Room(ek, path) == Value(ek.scalar, Width) + Len(path) * Cofactor * Place[Trunc] <= Size

\* A wallet with the public half finds the same addresses as the owner of the key,
\* along every soft path, and gets nothing from a path with a hardened step; the
\* owner gets nothing without a chain code (cardano_derive.go:44, 147).
WatchOnlyAgrees ==
    Called("DerivePath") /\ Room(call.key, call.path) =>
        LET full == DerivePath(call.key, call.path)
            soft == \A i \in DOMAIN call.path : call.path[i] < Hardened
        IN  /\ DerivePublicPath(ExtendedPublicKey(call.key), call.path) =
                   IF soft THEN ExtendedPublicKey(full) ELSE NoKey
            /\ full = NoKey <=> call.key.chain = NoKey /\ call.path # <<>>

\* Both halves of a key derive alike because the digits add up (cardano_derive.go:91).
DerivationIsExact == AdditionsAreExact /\ WatchOnlyAgrees
=============================================================================
