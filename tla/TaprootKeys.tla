----------------------------- MODULE TaprootKeys -----------------------------
(***************************************************************************)
(* The keys of a taproot output and the signature that spends it (p2tr.go, *)
(* p2trSign of btctx_p2tr.go): BIP-341's tweak with no scripts, and        *)
(* BIP-340's signature.                                                    *)
(*                                                                         *)
(* The group is the scalars modulo its order: a point is its multiple of   *)
(* the generator, 0 the point at infinity.  A point and its negative share *)
(* their x, and one of them has an odd y; which one is part of a call, and *)
(* so are the values of the hashes.                                        *)
(***************************************************************************)
EXTENDS PureCall, Integers, FiniteSetsExt

CONSTANTS
    GroupOrder, \* n, an odd number
    NoSignature \* an error

ASSUME TaprootAssumption == GroupOrder \in Nat /\ GroupOrder % 2 = 1 /\ GroupOrder > 1

Scalars == 0..GroupOrder-1
Negate(k) == (GroupOrder - k) % GroupOrder
Plus(a, b) == (a + b) % GroupOrder

XOf(point) == {point, Negate(point)}
IsOdd(point) == point \in call.odd

\* The ways y may be odd: one of each two points that share their x.
OddChoices == { S \in SUBSET (Scalars \ {0}) : \A p \in Scalars \ {0} : p \in S <=> Negate(p) \notin S }

\* A call of p2trSign: its key, what the hashes give, and which points are odd.
TaprootCalls == [f : {"p2trSign"}, priv : Scalars \ {0}, tweak : Scalars, nonce : Scalars,
                 challenge : Scalars, odd : OddChoices]

\* Hashes: of an x, of an x with key and message, and of two x and the message.
TapTweak(x)       == Plus(call.tweak, Min(x))
Nonce(d, px)      == Plus(call.nonce, d + Min(px))
Challenge(rx, px) == Plus(call.challenge, 2 * Min(rx) + 3 * Min(px))

-----------------------------------------------------------------------------
\* The point with this x whose y is even.
taprootLiftX(x) == CHOOSE p \in x : ~ IsOdd(p)

taprootTweakPubKey(x) ==
    LET q == Plus(taprootLiftX(x), TapTweak(x)) IN [x |-> XOf(q), parity |-> IF IsOdd(q) THEN 1 ELSE 0]

\* A scalar, or its negative if its point has an odd y.
Evened(k) == IF IsOdd(k) THEN Negate(k) ELSE k

\* mutant: the nonce stays as it is when its point has an odd y.
bip340SignRaw(priv) ==
    LET d == Evened(priv)  px == XOf(priv)  k == Nonce(d, px)
    IN  IF priv = 0 \/ k = 0 THEN NoSignature
        ELSE [r |-> XOf(k), s |-> Plus(k, Challenge(XOf(k), px) * d)]

bip340Sign(priv) ==
    LET d == Evened(priv)  px == XOf(priv)  k == Nonce(d, px)
    IN  IF priv = 0 \/ k = 0 THEN NoSignature
        ELSE [r |-> XOf(k), s |-> Plus(Evened(k), Challenge(XOf(k), px) * d)]

\* mutant: the tweak is added to the key as it is.
TweakedPlain(priv) ==
    LET d == Plus(priv, TapTweak(XOf(priv)))
    IN  IF taprootTweakPubKey(XOf(priv)).parity = 1 THEN Negate(d) ELSE d

\* The scalar the output's key has.
Tweaked(priv) ==
    LET d == Plus(Evened(priv), TapTweak(XOf(priv)))
    IN  IF taprootTweakPubKey(XOf(priv)).parity = 1 THEN Negate(d) ELSE d

p2trSign(priv) == bip340Sign(Tweaked(priv))

-----------------------------------------------------------------------------
(***************************************************************************)
(* Properties.                                                             *)
(***************************************************************************)
\* BIP-340's verification, which the program leaves to others.
Verifies340(x, sig) ==
    LET r == Plus(sig.s, Negate((Challenge(sig.r, x) * taprootLiftX(x)) % GroupOrder))
    IN  r # 0 /\ ~ IsOdd(r) /\ XOf(r) = sig.r

\* The output that TaprootTweak makes for the x of a key can be spent by the signature
\* p2trSign makes with that key, whichever of the key's, the output's and the nonce's
\* points have an odd y; the scalar it is made with has an even one; and there is no
\* signature only for a tweak or a nonce that happens to be zero
\* (p2tr.go:59, 127; btctx_p2tr.go:255, 262).
KeyPathSpends ==
    Called("p2trSign") =>
        LET output == taprootTweakPubKey(XOf(call.priv))
            sig    == p2trSign(call.priv)
            q      == Tweaked(call.priv)
        IN  /\ ~ IsOdd(q)
            /\ IF q = 0 \/ Nonce(q, output.x) = 0 THEN sig = NoSignature
               ELSE Verifies340(output.x, sig)
==============================================================================
