--------------------------- MODULE AlgorithmProofs ---------------------------
(***************************************************************************)
(* Theorems about the pure algorithms, for every value of their arguments  *)
(* and constants: what p2trSign makes spends the output TaprootTweak made, *)
(* in a group of any odd order; an amount is read exactly or refused,      *)
(* whatever the width of a word and the number of decimals; the forms of a *)
(* count, a push and a compact-u16 are read back, whatever the radix, and  *)
(* so are bits put into smaller groups, whatever the widths; the halves of *)
(* a Cardano key derive alike along every path; the coins minted up to a   *)
(* block are the rewards of all blocks up to it.                           *)
(***************************************************************************)
EXTENDS TaprootKeys, Amounts, Lengths, CardanoKeys, Rewards, SharedLemmas, SequenceTheorems

(***************************************************************************)
(* Arithmetic modulo the order of the group.                               *)
(***************************************************************************)
\* What is multiplied out falls away.
LEMMA ModMultiple ==
  ASSUME NEW n \in Nat \ {0}, NEW m \in Nat, NEW a \in Nat
  PROVE  (m % n) \in 0..n-1 /\ ((a + m) % n) = ((a + (m % n)) % n)
<1> DEFINE q == m \div n
           r == m % n
           b == a + r
           p == b \div n
           c == b % n
<1>1. q \in Nat /\ r \in 0..n-1 /\ m = n * q + r
  OBVIOUS
<1>2. b \in Nat
  OBVIOUS
<1> HIDE DEF q, r
<1>3. p \in Nat /\ c \in 0..n-1 /\ b = n * p + c
  <2> HIDE DEF b
  <2>1. QED
    BY <1>2
<1>4. b = a + r
  OBVIOUS
<1> HIDE DEF b, p, c
<1>5. a + m = (p + q) * n + c
  <2>1. n * q = q * n /\ n * p = p * n /\ (p + q) * n = p * n + q * n
    BY <1>1, <1>3
  <2> DEFINE x == q * n
             y == p * n
  <2>2. x \in Nat /\ y \in Nat
    BY <1>1, <1>3
  <2>3. m = x + r /\ b = y + c /\ (p + q) * n = y + x
    BY <1>1, <1>3, <2>1
  <2> HIDE DEF x, y
  <2>4. QED
    BY <1>1, <1>3, <1>4, <2>2, <2>3
<1>6. ((p + q) * n + c) % n = c
  <2> DEFINE k == p + q
  <2>1. k \in Nat
    BY <1>1, <1>3
  <2> HIDE DEF k
  <2>2. (k * n + c) % n = c
    BY <1>3, <2>1
  <2>3. QED
    BY <2>2 DEF k
<1>7. QED
  BY <1>1, <1>5, <1>6 DEF c, b, r

LEMMA OddOrder ==
  GroupOrder \in Nat /\ GroupOrder > 1 /\ GroupOrder % 2 = 1
  BY TaprootAssumption

LEMMA PlusType ==
  ASSUME NEW a \in Nat, NEW b \in Nat
  PROVE  Plus(a, b) \in Scalars
  BY OddOrder DEF Plus, Scalars

\* A point and its negative differ, since the order is odd, but at infinity.
LEMMA NegateFacts ==
  ASSUME NEW k \in Scalars
  PROVE  /\ Negate(k) \in Scalars
         /\ Negate(Negate(k)) = k
         /\ k = 0 => Negate(k) = 0
         /\ k # 0 => Negate(k) = GroupOrder - k /\ Negate(k) # 0
<1>1. CASE k = 0
  <2>1. GroupOrder % GroupOrder = 0
    BY OddOrder
  <2>2. Negate(0) = 0
    BY OddOrder, <2>1 DEF Negate
  <2>3. QED
    BY <1>1, <2>2
<1>2. CASE k # 0
  <2> DEFINE m == GroupOrder - k
  <2>1. m \in 1..GroupOrder-1 /\ k \in 1..GroupOrder-1 /\ GroupOrder - m = k
    BY <1>2, OddOrder DEF Scalars
  <2>2. \A x \in 1..GroupOrder-1 : x % GroupOrder = x
    BY OddOrder
  <2>3. Negate(k) = m
    BY <2>1, <2>2 DEF Negate
  <2>4. Negate(m) = k
    BY <2>1, <2>2 DEF Negate
  <2>5. QED
    BY <1>2, <2>1, <2>3, <2>4, OddOrder DEF Scalars
<1>3. QED
  BY <1>1, <1>2

\* What verification takes off is what signing added.
LEMMA TakenOff ==
  ASSUME NEW k \in Scalars, NEW m \in Nat
  PROVE  Plus(Plus(k, m), Negate(m % GroupOrder)) = k
<1> DEFINE n == GroupOrder
           r == m % GroupOrder
<1>1. r \in 0..n-1 /\ Plus(k, m) = ((k + r) % n)
  <2>1. n \in Nat \ {0} /\ k \in Nat
    BY OddOrder DEF Scalars
  <2> HIDE DEF n
  <2>2. (m % n) \in 0..n-1 /\ ((k + m) % n) = ((k + (m % n)) % n)
    BY <2>1, ModMultiple
  <2>3. QED
    BY <2>2 DEF Plus, n
<1> HIDE DEF r
<1>2. k \in 0..n-1 /\ n \in Nat /\ n > 1
  BY OddOrder DEF Scalars
<1>3. \A x \in 0..n-1 : (x % n) = x /\ ((n + x) % n) = x
  <2> TAKE x \in 0..n-1
  <2>1. (1 * n + x) % n = x
    BY <1>2
  <2>2. QED
    BY <1>2, <2>1
<1>4. CASE r = 0
  <2>1. Plus(k, m) = k /\ Negate(r) = 0
    BY <1>1, <1>2, <1>3, <1>4, NegateFacts DEF Scalars
  <2>2. Plus(k, 0) = k
    BY <1>2, <1>3 DEF Plus
  <2>3. QED
    BY <2>1, <2>2 DEF r
<1>5. CASE r # 0
  <2>1. Negate(r) = n - r
    BY <1>1, <1>5, NegateFacts DEF Scalars
  <2>2. CASE k + r < n
    <3>1. Plus(k, m) = k + r
      BY <1>1, <1>2, <1>3, <2>2
    <3>2. (k + r) + (n - r) = n + k
      BY <1>1, <1>2
    <3>3. QED
      BY <1>2, <1>3, <2>1, <3>1, <3>2 DEF Plus, r
  <2>3. CASE k + r >= n
    <3> DEFINE x == k + r - n
    <3>1. x \in 0..n-1 /\ k + r = n + x
      BY <1>1, <1>2, <2>3
    <3>2. Plus(k, m) = x
      BY <1>1, <1>3, <3>1
    <3>3. x + (n - r) = k
      BY <1>1, <1>2
    <3>4. QED
      BY <1>2, <1>3, <2>1, <3>2, <3>3 DEF Plus, r
  <2>4. QED
    BY <1>1, <1>2, <2>2, <2>3
<1>6. QED
  BY <1>4, <1>5

-----------------------------------------------------------------------------
(***************************************************************************)
(* Points: which of a point and its negative has the odd y.                *)
(***************************************************************************)
LEMMA OneIsOdd ==
  ASSUME call \in TaprootCalls, NEW k \in Scalars
  PROVE  /\ k = 0 => ~ IsOdd(k)
         /\ k # 0 => (IsOdd(k) <=> ~ IsOdd(Negate(k)))
<1>1. call.odd \in OddChoices
  BY DEF TaprootCalls
<1>2. /\ call.odd \in SUBSET (Scalars \ {0})
      /\ \A p \in Scalars \ {0} : p \in call.odd <=> Negate(p) \notin call.odd
  BY <1>1 DEF OddChoices
<1>3. QED
  BY <1>2 DEF IsOdd

LEMMA EvenedFacts ==
  ASSUME call \in TaprootCalls, NEW k \in Scalars
  PROVE  /\ Evened(k) \in Scalars
         /\ ~ IsOdd(Evened(k))
         /\ XOf(Evened(k)) = XOf(k)
         /\ Evened(k) \in XOf(k)
         /\ k # 0 => Evened(k) # 0
         /\ ~ IsOdd(k) => Evened(k) = k
<1>1. CASE IsOdd(k)
  <2>1. k # 0 /\ ~ IsOdd(Negate(k))
    BY <1>1, OneIsOdd
  <2>2. Evened(k) = Negate(k)
    BY <1>1 DEF Evened
  <2>3. Negate(k) \in Scalars /\ Negate(k) # 0 /\ Negate(Negate(k)) = k
    BY <2>1, NegateFacts
  <2>4. QED
    BY <1>1, <2>1, <2>2, <2>3, Zenon DEF XOf
<1>2. CASE ~ IsOdd(k)
  BY <1>2, Zenon DEF Evened, XOf
<1>3. QED
  BY <1>1, <1>2

\* An x is lifted to the one of its two points whose y is even.
LEMMA Lifted ==
  ASSUME call \in TaprootCalls, NEW k \in Scalars
  PROVE  taprootLiftX(XOf(k)) = Evened(k)
<1>1. Evened(k) \in XOf(k) /\ ~ IsOdd(Evened(k))
  BY EvenedFacts
<1>2. ASSUME NEW p \in XOf(k), ~ IsOdd(p) PROVE p = Evened(k)
  <2>1. p = k \/ p = Negate(k)
    BY <1>2 DEF XOf
  <2>2. CASE IsOdd(k)
    BY <1>2, <2>1, <2>2, Zenon DEF Evened
  <2>3. CASE ~ IsOdd(k) /\ p # k
    <3>1. p = Negate(k)
      BY <2>1, <2>3
    <3>2. k = 0
      BY <1>2, <2>3, <3>1, OneIsOdd
    <3>3. QED
      BY <2>3, <3>1, <3>2, NegateFacts
  <2>4. CASE ~ IsOdd(k) /\ p = k
    BY <2>4, Zenon DEF Evened
  <2>5. QED
    BY <2>2, <2>3, <2>4
<1>3. QED
  BY <1>1, <1>2, Zenon DEF taprootLiftX

LEMMA HashTypes ==
  ASSUME call \in TaprootCalls, NEW k \in Scalars, NEW d \in Scalars, NEW r \in Scalars
  PROVE  /\ TapTweak(XOf(k)) \in Scalars
         /\ Nonce(d, XOf(k)) \in Scalars
         /\ Challenge(XOf(r), XOf(k)) \in Scalars
<1>1. call.tweak \in Nat /\ call.nonce \in Nat /\ call.challenge \in Nat
  BY OddOrder DEF TaprootCalls, Scalars
<1>2. \A j \in Scalars : Min(XOf(j)) \in Nat
  <2> TAKE j \in Scalars
  <2>1. XOf(j) \in SUBSET Nat /\ XOf(j) # {}
    <3>1. j \in Nat /\ Negate(j) \in Nat
      BY NegateFacts, OddOrder DEF Scalars
    <3>2. QED
      BY <3>1 DEF XOf
  <2>2. QED
    BY <2>1, LeastNat
<1>3. d \in Nat
  BY OddOrder DEF Scalars
<1> DEFINE u == Min(XOf(k))
           v == Min(XOf(r))
<1>4. u \in Nat /\ v \in Nat
  BY <1>2
<1>5. TapTweak(XOf(k)) = Plus(call.tweak, u) /\ Nonce(d, XOf(k)) = Plus(call.nonce, d + u)
      /\ Challenge(XOf(r), XOf(k)) = Plus(call.challenge, 2 * v + 3 * u)
  BY DEF TapTweak, Nonce, Challenge
<1> HIDE DEF u, v
<1>6. d + u \in Nat /\ 2 * v + 3 * u \in Nat
  BY <1>3, <1>4
<1>7. QED
  BY <1>1, <1>4, <1>5, <1>6, PlusType

-----------------------------------------------------------------------------
(***************************************************************************)
(* Signing.                                                                *)
(***************************************************************************)
\* The tweaked scalar is that of the output's key, and its y is even.
LEMMA TweakedIsOutput ==
  ASSUME call \in TaprootCalls, NEW priv \in Scalars
  PROVE  /\ Tweaked(priv) \in Scalars
         /\ ~ IsOdd(Tweaked(priv))
         /\ taprootTweakPubKey(XOf(priv)).x = XOf(Tweaked(priv))
<1> DEFINE q == Plus(Evened(priv), TapTweak(XOf(priv)))
<1>1. q \in Scalars
  <2>1. Evened(priv) \in Nat /\ TapTweak(XOf(priv)) \in Nat
    <3>1. Evened(priv) \in Scalars /\ TapTweak(XOf(priv)) \in Scalars
      BY EvenedFacts, HashTypes
    <3>2. QED
      BY <3>1, OddOrder DEF Scalars
  <2>2. QED
    BY <2>1, PlusType
<1>2. taprootTweakPubKey(XOf(priv)) = [x |-> XOf(q), parity |-> IF IsOdd(q) THEN 1 ELSE 0]
  BY Lifted, Zenon DEF taprootTweakPubKey
<1>3. Tweaked(priv) = Evened(q)
  <2> HIDE DEF q
  <2>1. taprootTweakPubKey(XOf(priv)).parity = 1 <=> IsOdd(q)
    BY <1>2
  <2>2. Tweaked(priv) = IF taprootTweakPubKey(XOf(priv)).parity = 1 THEN Negate(q) ELSE q
    BY Zenon DEF Tweaked, q
  <2>3. QED
    BY <2>1, <2>2, Zenon DEF Evened
<1> HIDE DEF q
<1>4. QED
  BY <1>1, <1>2, <1>3, EvenedFacts

\* A signature made with a scalar whose y is even verifies for its x.
LEMMA SignedVerifies ==
  ASSUME call \in TaprootCalls, NEW q \in Scalars, ~ IsOdd(q)
  PROVE  IF q = 0 \/ Nonce(q, XOf(q)) = 0 THEN bip340Sign(q) = NoSignature
         ELSE Verifies340(XOf(q), bip340Sign(q))
<1> DEFINE k == Nonce(q, XOf(q))
           e == Challenge(XOf(k), XOf(q))
           v == Evened(k)
           sig == [r |-> XOf(k), s |-> Plus(v, e * q)]
<1>1. Evened(q) = q /\ taprootLiftX(XOf(q)) = q
  BY EvenedFacts, Lifted
<1>2. k \in Scalars
  BY HashTypes
<1>3. e \in Scalars
  <2> HIDE DEF k
  <2>1. QED
    BY <1>2, HashTypes
<1>4. v \in Scalars /\ ~ IsOdd(v) /\ XOf(v) = XOf(k) /\ (k # 0 => v # 0)
  <2> HIDE DEF k
  <2>1. QED
    BY <1>2, EvenedFacts
<1>5. bip340Sign(q) = IF q = 0 \/ k = 0 THEN NoSignature ELSE sig
  BY <1>1, Zenon DEF bip340Sign
<1>6. sig.r = XOf(k) /\ sig.s = Plus(v, e * q)
  OBVIOUS
<1>7. Challenge(sig.r, XOf(q)) = e
  BY <1>6, Zenon
<1> HIDE DEF k, e, v, sig
<1>8. e * q \in Nat
  <2>1. e \in Nat /\ q \in Nat
    BY <1>3, OddOrder DEF Scalars
  <2>2. QED
    BY <2>1
<1>9. Plus(sig.s, Negate((Challenge(sig.r, XOf(q)) * taprootLiftX(XOf(q))) % GroupOrder)) = v
  <2>1. Plus(Plus(v, e * q), Negate((e * q) % GroupOrder)) = v
    BY <1>4, <1>8, TakenOff
  <2>2. QED
    BY <1>1, <1>6, <1>7, <2>1
<1>10. k # 0 => Verifies340(XOf(q), sig)
  BY <1>4, <1>6, <1>9, Zenon DEF Verifies340
<1>11. QED
  BY <1>5, <1>10, Zenon DEF k

\* Whatever the key, the hashes, and the points with an odd y: the output TaprootTweak
\* makes for a key is spent by what p2trSign makes with that key (p2tr.go:59, 127;
\* btctx_p2tr.go:255, 262), in a group of any odd order.
THEOREM TaprootSpends ==
  call \in TaprootCalls /\ [][Answered]_call => []KeyPathSpends
<1>1. call \in TaprootCalls => KeyPathSpends
  <2> SUFFICES ASSUME call \in TaprootCalls PROVE KeyPathSpends
    OBVIOUS
  <2> DEFINE q == Tweaked(call.priv)
             output == taprootTweakPubKey(XOf(call.priv))
             sig == p2trSign(call.priv)
  <2>1. call.priv \in Scalars
    BY DEF TaprootCalls
  <2>2. q \in Scalars /\ ~ IsOdd(q) /\ output.x = XOf(q)
    BY <2>1, TweakedIsOutput
  <2>3. sig = bip340Sign(q)
    BY Zenon DEF p2trSign
  <2> HIDE DEF q, output, sig
  <2>4. IF q = 0 \/ Nonce(q, output.x) = 0 THEN sig = NoSignature
        ELSE Verifies340(output.x, sig)
    BY <2>2, <2>3, SignedVerifies
  <2>5. QED
    BY <2>2, <2>4, Zenon DEF KeyPathSpends, q, output, sig
<1>2. call \in TaprootCalls /\ [Answered]_call => (call \in TaprootCalls)'
  BY DEF Answered
<1>3. QED
  BY <1>1, <1>2, PTL

-----------------------------------------------------------------------------
(***************************************************************************)
(* Amounts.                                                                *)
(***************************************************************************)
LEMMA TensFacts ==
  /\ \A n \in 0..Decimals : Tens[n] \in Nat /\ Tens[n] > 0
  /\ Tens[0] = 1 /\ \A n \in 1..Decimals : Tens[n] = 10 * Tens[n - 1]
<1> DEFINE Runs(f) == f = [n \in 0..Decimals |-> IF n = 0 THEN 1 ELSE 10 * f[n - 1]]
           step == [n \in 1..Decimals |-> [x \in Nat \ {0} |-> 10 * x]]
<1>1. Decimals \in Nat
  BY AmountsAssumption
<1>2. PICK f \in [0..Decimals -> Nat \ {0}] :
         f[0] = 1 /\ \A n \in 1..Decimals : f[n] = step[n][f[n - 1]]
  <2> DEFINE P == Nat \ {0}
  <2>1. step \in [1..Decimals -> [P -> P]] /\ 1 \in P
    OBVIOUS
  <2> HIDE DEF step, P
  <2>2. \E f : Iterates(f, P, 1, step, Decimals)
    BY <1>1, <2>1, Iterated
  <2>3. QED
    BY <2>2 DEF P, Iterates
<1>3. \A n \in 1..Decimals : f[n] = 10 * f[n - 1]
  <2> TAKE n \in 1..Decimals
  <2>1. f[n - 1] \in Nat \ {0}
    BY <1>1, <1>2
  <2>2. QED
    BY <1>2, <2>1
<1>4. Runs(f)
  BY <1>1, <1>2, <1>3
<1>5. Runs(Tens)
  <2>1. Tens = CHOOSE g : Runs(g)
    BY Zenon DEF Tens
  <2> HIDE DEF Runs
  <2>2. QED
    BY <1>4, <2>1
<1>6. Tens[0] = 1 /\ \A n \in 1..Decimals : Tens[n] = 10 * Tens[n - 1]
  BY <1>1, <1>5
<1> DEFINE S == { n \in Nat : n \in 0..Decimals => Tens[n] \in Nat /\ Tens[n] > 0 }
<1>7. 0 \in S
  BY <1>6
<1>8. ASSUME NEW n \in Nat, n \in S PROVE n + 1 \in S
  <2>1. CASE n + 1 \in 0..Decimals
    <3>1. n \in 0..Decimals /\ n + 1 \in 1..Decimals /\ (n + 1) - 1 = n
      BY <1>1, <2>1
    <3>2. Tens[n] \in Nat /\ Tens[n] > 0 /\ Tens[n + 1] = 10 * Tens[n]
      BY <1>6, <1>8, <3>1
    <3>3. QED
      BY <3>2
  <2>2. QED
    BY <2>1
<1>9. \A n \in Nat : n \in S
  <2> HIDE DEF S
  <2>1. QED
    BY <1>7, <1>8, Induct
<1>10. QED
  BY <1>6, <1>9

\* The test before a multiplication says what the product would.
LEMMA ProductFits ==
  ASSUME NEW n \in Nat, n > 0, NEW m \in Nat, NEW a \in Nat
  PROVE  a * n \in Nat /\ (a > m \div n <=> a * n > m)
<1> DEFINE q == m \div n
           r == m % n
<1>1. q \in Nat /\ r \in 0..n-1 /\ m = n * q + r
  OBVIOUS
<1> HIDE DEF q, r
<1>2. m = q * n + r /\ q * n \in Nat /\ a * n \in Nat
  BY <1>1
<1>3. CASE a > q
  <2> DEFINE d == a - q - 1
  <2>1. d \in Nat /\ a = q + 1 + d
    BY <1>1, <1>3
  <2> HIDE DEF d
  <2>2. a * n = q * n + n + d * n /\ d * n \in Nat
    BY <1>1, <2>1
  <2>3. QED
    BY <1>1, <1>2, <1>3, <2>2 DEF q
<1>4. CASE ~ (a > q)
  <2> DEFINE d == q - a
  <2>1. d \in Nat /\ q = a + d
    BY <1>1, <1>4
  <2> HIDE DEF d
  <2>2. q * n = a * n + d * n /\ d * n \in Nat
    BY <1>1, <2>1
  <2>3. QED
    BY <1>1, <1>2, <1>4, <2>2 DEF q
<1>5. QED
  BY <1>3, <1>4

\* n if it fits a word.
Fits(n) == IF n > MaxAmount THEN NoAmount ELSE n

LEMMA TimesTenFits ==
  ASSUME NEW n \in Nat
  PROVE  TimesTen(Fits(n)) = Fits(10 * n)
<1>1. /\ AmountTop \in Nat /\ AmountTop > 0 /\ MaxAmount = AmountTop - 1 /\ MaxAmount \in Nat
      /\ NoAmount \notin Nat
  BY AmountsAssumption, TensFacts DEF MaxAmount
<1>2. CASE n > MaxAmount
  BY <1>1, <1>2 DEF TimesTen, Fits
<1>3. CASE ~ (n > MaxAmount)
  <2>1. n # NoAmount /\ Fits(n) = n
    BY <1>1, <1>3 DEF Fits
  <2>2. n > MaxAmount \div 10 <=> n * 10 > MaxAmount
    BY <1>1, ProductFits
  <2>3. CASE n * 10 > MaxAmount
    BY <2>1, <2>2, <2>3 DEF TimesTen, Fits
  <2>4. CASE ~ (n * 10 > MaxAmount)
    <3>1. n * 10 \in 0..AmountTop - 1
      BY <1>1, <2>4
    <3>2. (n * 10) % AmountTop = n * 10
      BY <1>1, <3>1
    <3>3. QED
      BY <2>1, <2>2, <2>4, <3>2 DEF TimesTen, Fits
  <2>5. QED
    BY <2>3, <2>4
<1>4. QED
  BY <1>2, <1>3

\* Decimal by decimal, with a test at each, the product is exact or refused.
LEMMA ScaledFits ==
  ASSUME NEW v \in Nat, NEW times \in 0..Decimals
  PROVE  Scaled(Fits(v), times) = Fits(v * Tens[times])
<1> DEFINE Runs(x) == x = [n \in 0..times |-> IF n = 0 THEN Fits(v) ELSE TimesTen(x[n - 1])]
           x == [n \in 0..times |-> Fits(v * Tens[n])]
<1>1. times \in Nat /\ \A n \in 0..times : n \in 0..Decimals /\ v * Tens[n] \in Nat
  BY TensFacts, AmountsAssumption
<1>2. ASSUME NEW g, Runs(g) PROVE g = x
  <2> DEFINE S == { n \in Nat : n \in 0..times => g[n] = x[n] }
  <2>1. 0 \in S
    <3>1. v * Tens[0] = v
      BY TensFacts
    <3>2. g[0] = Fits(v) /\ x[0] = Fits(v * Tens[0])
      BY <1>1, <1>2
    <3>3. QED
      BY <3>1, <3>2
  <2>2. ASSUME NEW n \in Nat, n \in S PROVE n + 1 \in S
    <3>1. CASE n + 1 \in 0..times
      <4>1. n \in 0..times /\ n + 1 # 0 /\ (n + 1) - 1 = n /\ n + 1 \in 1..Decimals /\ n \in 0..Decimals
        BY <1>1, <3>1
      <4>2. g[n + 1] = TimesTen(g[n])
        BY <1>2, <3>1, <4>1
      <4>3. g[n] = Fits(v * Tens[n])
        BY <2>2, <4>1
      <4>4. v * Tens[n + 1] = 10 * (v * Tens[n])
        <5>1. Tens[n + 1] = 10 * Tens[n] /\ Tens[n] \in Nat
          BY <4>1, TensFacts
        <5>2. QED
          BY <5>1
      <4>5. g[n + 1] = Fits(v * Tens[n + 1])
        BY <1>1, <4>1, <4>2, <4>3, <4>4, TimesTenFits
      <4>6. QED
        BY <3>1, <4>5
    <3>2. QED
      BY <3>1
  <2>3. \A n \in Nat : n \in S
    <3> HIDE DEF S
    <3>1. QED
      BY <2>1, <2>2, Induct
  <2>4. \A n \in 0..times : g[n] = x[n]
    <3> TAKE n \in 0..times
    <3>1. n \in Nat
      BY <1>1
    <3>2. QED
      BY <2>3, <3>1, Zenon
  <2> HIDE DEF S
  <2>5. g = [n \in 0..times |-> g[n]]
    BY <1>2
  <2>6. QED
    BY <2>4, <2>5
<1>3. Runs(x)
  <2> DEFINE h == [n \in 0..times |-> IF n = 0 THEN Fits(v) ELSE TimesTen(x[n - 1])]
  <2>1. ASSUME NEW n \in 0..times PROVE x[n] = h[n]
    <3>1. CASE n = 0
      <4>1. v * Tens[0] = v
        BY TensFacts
      <4>2. QED
        BY <3>1, <4>1
    <3>2. CASE n # 0
      <4>1. n - 1 \in 0..times /\ n \in 1..Decimals /\ n - 1 \in 0..Decimals
        BY <1>1, <3>2
      <4>2. v * Tens[n] = 10 * (v * Tens[n - 1])
        <5>1. Tens[n] = 10 * Tens[n - 1] /\ Tens[n - 1] \in Nat
          BY <4>1, TensFacts
        <5>2. QED
          BY <5>1
      <4>3. TimesTen(x[n - 1]) = Fits(v * Tens[n])
        BY <1>1, <4>1, <4>2, TimesTenFits
      <4>4. QED
        BY <3>2, <4>3
    <3>3. QED
      BY <3>1, <3>2
  <2>2. x = h
    BY <2>1
  <2>3. QED
    BY <2>2
<1>4. Scaled(Fits(v), times) = (CHOOSE g : Runs(g))[times]
  BY Zenon DEF Scaled
<1>5. (CHOOSE g : Runs(g)) = x
  <2> HIDE DEF x, Runs
  <2>1. QED
    BY <1>2, <1>3
<1>6. Scaled(Fits(v), times) = x[times]
  <2> HIDE DEF x, Runs
  <2>1. QED
    BY <1>4, <1>5
<1>7. QED
  BY <1>1, <1>6

\* What the text of an amount may be once its digits are taken for a number.
Texts == { t \in [form : {"hex", "decimal"}, digits : Nat, behind : Nat \cup {NoDot}] :
              t.form = "hex" => t.behind = NoDot }

LEMMA TextIsExact ==
  ASSUME NEW t \in Texts
  PROVE  UnmarshalText(t) = IF t.behind > Decimals \/ t.digits > MaxAmount \/ Satoshis(t) > MaxAmount
                            THEN NoAmount ELSE Satoshis(t)
<1> DEFINE d == t.digits
<1>1. /\ t.form \in {"hex", "decimal"} /\ d \in Nat /\ t.behind \in Nat \cup {NoDot}
      /\ t.form = "hex" => t.behind = NoDot
  BY DEF Texts
<1>2. /\ AmountTop \in Nat /\ AmountTop > 0 /\ MaxAmount = AmountTop - 1 /\ MaxAmount \in Nat
      /\ NoAmount \notin Nat /\ Decimals \in Nat /\ Coin \in Nat /\ Coin > 0
  BY AmountsAssumption, TensFacts DEF MaxAmount, Coin
<1>3. ParseUint(d) = Fits(d)
  BY DEF ParseUint, Fits
<1>4. CASE t.form = "hex"
  <2>1. UnmarshalText(t) = Fits(d) /\ Satoshis(t) = d
    BY <1>3, <1>4 DEF UnmarshalText, Satoshis
  <2>2. ~ (t.behind > Decimals)
    BY <1>1, <1>2, <1>4 DEF NoDot
  <2>3. QED
    BY <2>1, <2>2 DEF Fits
<1>5. CASE t.form = "decimal" /\ t.behind = NoDot
  <2>1. Satoshis(t) = d * Coin
    BY <1>2, <1>5 DEF Satoshis, Coin
  <2>2. d * Coin \in Nat /\ (d > MaxAmount \div Coin <=> d * Coin > MaxAmount)
    BY <1>1, <1>2, ProductFits
  <2>3. ~ (t.behind > Decimals)
    BY <1>2, <1>5 DEF NoDot
  <2>4. UnmarshalText(t) = IF Fits(d) = NoAmount \/ Fits(d) > MaxAmount \div Coin THEN NoAmount
                           ELSE (Fits(d) * Coin) % AmountTop
    <3>1. t.form # "hex"
      BY <1>5
    <3>2. QED
      BY <1>3, <1>5, <2>3, <3>1, Zenon DEF UnmarshalText
  <2>5. CASE d > MaxAmount
    BY <2>4, <2>5 DEF Fits
  <2>6. CASE ~ (d > MaxAmount)
    <3>1. Fits(d) = d /\ d # NoAmount
      BY <1>1, <1>2, <2>6 DEF Fits
    <3>2. d * Coin <= MaxAmount => (d * Coin) % AmountTop = d * Coin
      <4> DEFINE p == d * Coin
      <4>1. p \in Nat
        BY <2>2
      <4> HIDE DEF p
      <4>2. p <= MaxAmount => p % AmountTop = p
        BY <1>2, <4>1
      <4>3. QED
        BY <4>2 DEF p
    <3>3. d * Coin <= MaxAmount <=> ~ (d * Coin > MaxAmount)
      BY <1>2, <2>2
    <3>4. QED
      BY <2>1, <2>2, <2>3, <2>4, <2>6, <3>1, <3>2, <3>3
  <2>7. QED
    BY <2>5, <2>6
<1>6. CASE t.form = "decimal" /\ t.behind # NoDot /\ t.behind > Decimals
  BY <1>6 DEF UnmarshalText
<1>7. CASE t.form = "decimal" /\ t.behind # NoDot /\ ~ (t.behind > Decimals)
  <2> DEFINE k == Decimals - t.behind
  <2>1. k \in 0..Decimals
    BY <1>1, <1>2, <1>7
  <2>2. UnmarshalText(t) = Scaled(Fits(d), k)
    BY <1>3, <1>7, Zenon DEF UnmarshalText
  <2>3. Satoshis(t) = d * Tens[k]
    BY <1>7 DEF Satoshis
  <2> HIDE DEF k
  <2>4. UnmarshalText(t) = Fits(d * Tens[k])
    BY <1>1, <2>1, <2>2, ScaledFits
  <2>5. d > MaxAmount => d * Tens[k] > MaxAmount
    <3>1. Tens[k] \in Nat /\ Tens[k] > 0
      BY <2>1, TensFacts
    <3> DEFINE e == Tens[k] - 1
    <3>2. e \in Nat /\ Tens[k] = e + 1
      BY <3>1
    <3> HIDE DEF e
    <3>3. d * Tens[k] = d * e + d /\ d * e \in Nat
      BY <1>1, <3>2
    <3>4. QED
      BY <1>1, <1>2, <3>3
  <2>6. QED
    BY <1>7, <2>3, <2>4, <2>5 DEF Fits
<1>8. QED
  BY <1>1, <1>4, <1>5, <1>6, <1>7

LEMMA AmountReadBack ==
  ASSUME NEW a \in 0..MaxAmount
  PROVE  UnmarshalJSON(NoAmount, MarshalJSON(a)) = a
<1> DEFINE t == MarshalJSON(a)
<1>1. /\ MaxAmount \in Nat /\ Decimals \in Nat
  BY AmountsAssumption, TensFacts DEF MaxAmount
<1>2. t = [form |-> "decimal", digits |-> a, behind |-> Decimals] /\ t \in Texts
  BY <1>1 DEF MarshalJSON, Texts
<1>3. UnmarshalJSON(NoAmount, t) = UnmarshalText(t)
  BY <1>2 DEF UnmarshalJSON
<1> HIDE DEF t
<1>4. Satoshis(t) = a * Tens[Decimals - Decimals]
  BY <1>1, <1>2 DEF Satoshis, NoDot
<1>5. Satoshis(t) = a
  BY <1>1, <1>4, TensFacts
<1>6. QED
  BY <1>1, <1>2, <1>3, <1>5, TextIsExact DEF t

\* An amount is read as exactly what its text says or refused, at whichever step of
\* the conversion it stops fitting a word, and comes back from its own JSON
\* (btcamount.go:46, 66, 88), for every width of a word and number of decimals.
THEOREM AmountsExact ==
  call \in [f : {"UnmarshalText"}, text : Texts] \cup [f : {"MarshalJSON"}, amount : 0..MaxAmount]
    /\ [][Answered]_call => []AmountsAreExact
<1> DEFINE Calls == [f : {"UnmarshalText"}, text : Texts] \cup [f : {"MarshalJSON"}, amount : 0..MaxAmount]
<1>1. call \in Calls => AmountsAreExact
  <2> SUFFICES ASSUME call \in Calls PROVE AmountsAreExact
    OBVIOUS
  <2>1. Called("UnmarshalText") => call.text \in Texts
    BY DEF Called
  <2>2. Called("MarshalJSON") => call.amount \in 0..MaxAmount
    BY DEF Called
  <2>3. QED
    BY <2>1, <2>2, TextIsExact, AmountReadBack, Zenon DEF AmountsAreExact
<1>2. call \in Calls /\ [Answered]_call => (call \in Calls)'
  <2>1. CASE call' = call
    <3>1. NoAmount = NoAmount
      OBVIOUS
    <3>2. QED
      BY <2>1
  <2>2. QED
    BY <2>1 DEF Answered
<1>3. QED
  BY <1>1, <1>2, PTL

-----------------------------------------------------------------------------
(***************************************************************************)
(* Lengths.                                                                *)
(***************************************************************************)
LEMMA Radixes ==
  /\ Byte \in Nat /\ Byte > 4
  /\ U16 \in Nat /\ U32 \in Nat /\ U64 \in Nat /\ Byte < U16 /\ U16 < U32 /\ U32 < U64
<1>1. Byte \in Nat /\ Byte > 4
  BY LengthsAssumption
<1>2. ASSUME NEW x \in Nat, x > 4 PROVE x * x \in Nat /\ x * x > x
  <2> DEFINE y == x - 1
  <2>1. y \in Nat /\ y > 0 /\ x = y + 1
    BY <1>2
  <2>2. x * x = x * y + x /\ x * y = y * y + y /\ y * y \in Nat
    BY <2>1
  <2>3. QED
    BY <1>2, <2>1, <2>2
<1>3. U16 \in Nat /\ U16 > Byte
  BY <1>1, <1>2 DEF U16
<1>4. U32 \in Nat /\ U32 > U16
  BY <1>1, <1>2, <1>3 DEF U32
<1>5. U64 \in Nat /\ U64 > U32
  BY <1>1, <1>2, <1>3, <1>4 DEF U64
<1>6. QED
  BY <1>1, <1>3, <1>4, <1>5

Announces(f, w) ==
    \/ f = Byte - 3 /\ w = 2
    \/ f = Byte - 2 /\ w = 4
    \/ f = Byte - 1 /\ w = 8

\* A first byte above 0xfc announces a form that is read whatever its number is.
LEMMA LongRead ==
  ASSUME NEW f, NEW w, NEW v, NEW s, Announces(f, w),
         Len(s) \in Nat, Len(s) >= 2, s[1] = Fixed(1, f), s[2] = Fixed(w, v)
  PROVE  VarIntRead(s) = [value |-> v, n |-> 1 + w]
<1>1. s[1].value = f /\ s[2].width = w /\ s[2].value = v
  BY DEF Fixed
<1>2. Announced(f) = w /\ w # 0
  BY Radixes DEF Announced, Announces
<1>3. QED
  BY <1>1, <1>2 DEF VarIntRead

LEMMA VarIntReadBack ==
  ASSUME NEW v \in 0..U64-1
  PROVE  LET s == VarIntBytes(v)
         IN  /\ VarIntRead(Append(s, Fixed(2, 0))) = [value |-> v, n |-> VarIntLen(v)]
             /\ Widths(s) = VarIntLen(v)
<1> DEFINE s == VarIntBytes(v)
           u == Append(s, Fixed(2, 0))
<1>0. v \in Nat
  BY Radixes
<1>1. CASE v <= Byte - 4
  <2>1. s = <<Fixed(1, v)>> /\ VarIntLen(v) = 1
    BY <1>0, <1>1, Radixes DEF VarIntBytes, VarIntLen
  <2> HIDE DEF s
  <2>2. s[1].width = 1 /\ Len(s) = 1 /\ u[1].value = v
    BY <2>1 DEF Fixed
  <2>3. Announced(v) = 0
    BY <1>0, <1>1, Radixes DEF Announced
  <2> HIDE DEF u
  <2>4. QED
    BY <2>1, <2>2, <2>3 DEF VarIntRead, Widths, u, s
<1>2. ASSUME NEW f, NEW w, Announces(f, w),
             s = <<Fixed(1, f), Fixed(w, v)>>, VarIntLen(v) = 1 + w
      PROVE  VarIntRead(u) = [value |-> v, n |-> VarIntLen(v)] /\ Widths(s) = VarIntLen(v)
  <2> HIDE DEF s
  <2>1. Len(u) \in Nat /\ Len(u) >= 2 /\ u[1] = Fixed(1, f) /\ u[2] = Fixed(w, v)
    BY <1>2
  <2>2. VarIntRead(u) = [value |-> v, n |-> 1 + w]
    <3> HIDE DEF u
    <3>1. QED
      BY <1>2, <2>1, LongRead, Zenon
  <2>3. s[1].width = 1 /\ s[2].width = w /\ Len(s) = 2
    BY <1>2 DEF Fixed
  <2>4. QED
    BY <1>2, <2>2, <2>3 DEF Widths
<1>3. CASE ~ (v <= Byte - 4) /\ v < U16
  <2>1. s = <<Fixed(1, Byte - 3), Fixed(2, v)>> /\ VarIntLen(v) = 1 + 2
    BY <1>0, <1>3, Radixes DEF VarIntBytes, VarIntLen
  <2>2. Announces(Byte - 3, 2)
    BY DEF Announces
  <2> HIDE DEF s, u
  <2>3. VarIntRead(u) = [value |-> v, n |-> VarIntLen(v)] /\ Widths(s) = VarIntLen(v)
    BY <1>2, <2>1, <2>2, Zenon
  <2>4. QED
    BY <2>3, Zenon DEF s, u
<1>4. CASE v >= U16 /\ v < U32
  <2>1. s = <<Fixed(1, Byte - 2), Fixed(4, v)>> /\ VarIntLen(v) = 1 + 4
    BY <1>0, <1>4, Radixes DEF VarIntBytes, VarIntLen
  <2>2. Announces(Byte - 2, 4)
    BY DEF Announces
  <2> HIDE DEF s, u
  <2>3. VarIntRead(u) = [value |-> v, n |-> VarIntLen(v)] /\ Widths(s) = VarIntLen(v)
    BY <1>2, <2>1, <2>2, Zenon
  <2>4. QED
    BY <2>3, Zenon DEF s, u
<1>5. CASE v >= U32
  <2>1. s = <<Fixed(1, Byte - 1), Fixed(8, v)>> /\ VarIntLen(v) = 1 + 8
    BY <1>0, <1>5, Radixes DEF VarIntBytes, VarIntLen
  <2>2. Announces(Byte - 1, 8)
    BY DEF Announces
  <2> HIDE DEF s, u
  <2>3. VarIntRead(u) = [value |-> v, n |-> VarIntLen(v)] /\ Widths(s) = VarIntLen(v)
    BY <1>2, <2>1, <2>2, Zenon
  <2>4. QED
    BY <2>3, Zenon DEF s, u
<1>6. QED
  BY <1>0, <1>1, <1>3, <1>4, <1>5, Radixes

LEMMA LongFormsRead ==
  ASSUME NEW v, NEW w \in {2, 4, 8}
  PROVE  VarIntRead(<<Fixed(1, CASE w = 2 -> Byte - 3 [] w = 4 -> Byte - 2 [] w = 8 -> Byte - 1),
                      Fixed(w, v)>>).value = v
<1> DEFINE f == CASE w = 2 -> Byte - 3 [] w = 4 -> Byte - 2 [] w = 8 -> Byte - 1
           s == <<Fixed(1, f), Fixed(w, v)>>
<1>1. Announces(f, w)
  <2>1. CASE w = 2
    BY <2>1 DEF Announces
  <2>2. CASE w = 4
    BY <2>2 DEF Announces
  <2>3. CASE w = 8
    BY <2>3 DEF Announces
  <2>4. QED
    BY <2>1, <2>2, <2>3
<1> HIDE DEF f
<1>2. Len(s) = 2 /\ s[1] = Fixed(1, f) /\ s[2] = Fixed(w, v)
  OBVIOUS
<1> HIDE DEF s
<1>3. VarIntRead(s) = [value |-> v, n |-> 1 + w]
  BY <1>1, <1>2, LongRead
<1>4. QED
  BY <1>3 DEF s, f

LEMMA PushReadBack ==
  ASSUME NEW v \in 0..U32-1, NEW more \in {0, 1, Byte}
  PROVE  LET p == PushBytes(v)
             n == PushHeader(p.op) + v
         IN  /\ ParsePushBytes([p EXCEPT !.data = @ + more]) = [data |-> v, n |-> n]
             /\ v > 0 => ParsePushBytes([p EXCEPT !.data = @ - 1]) = Nil
<1> DEFINE p == PushBytes(v)
<1>0. v \in Nat /\ Direct \in Nat /\ Direct + 3 < Byte /\ more \in Nat
  BY Radixes, LengthsAssumption
<1>1. p = [op |-> p.op, length |-> p.length, data |-> v] /\ p.op \in 0..Direct + 3
      /\ v = IF p.op <= Direct THEN p.op ELSE p.length
  <2>1. ASSUME NEW top \in Nat, v < top PROVE v % top = v
    BY <1>0, <2>1
  <2>2. CASE v <= Direct
    BY <1>0, <2>2, Radixes DEF PushBytes
  <2>3. CASE v > Direct /\ v < Byte
    <3>1. p = [op |-> Direct + 1, length |-> v % Byte, data |-> v] /\ v % Byte = v
      BY <1>0, <2>1, <2>3, Radixes DEF PushBytes
    <3>2. QED
      BY <1>0, <3>1
  <2>4. CASE v >= Byte /\ v < U16
    <3>1. p = [op |-> Direct + 2, length |-> v % U16, data |-> v] /\ v % U16 = v
      BY <1>0, <2>1, <2>4, Radixes DEF PushBytes
    <3>2. QED
      BY <1>0, <3>1
  <2>5. CASE v >= U16
    <3>1. p = [op |-> Direct + 3, length |-> v % U32, data |-> v] /\ v % U32 = v
      BY <1>0, <2>1, <2>5, Radixes DEF PushBytes
    <3>2. QED
      BY <1>0, <3>1
  <2>6. QED
    BY <1>0, <2>2, <2>3, <2>4, <2>5, Radixes
<1> HIDE DEF p
<1>2. ASSUME NEW d \in Int
      PROVE  ParsePushBytes([p EXCEPT !.data = d]) =
                 IF d < v THEN Nil ELSE [data |-> v, n |-> PushHeader(p.op) + v]
  <2> DEFINE q == [p EXCEPT !.data = d]
  <2>1. q.op = p.op /\ q.length = p.length /\ q.data = d
    BY <1>1
  <2> HIDE DEF q
  <2>2. QED
    BY <1>0, <1>1, <2>1 DEF ParsePushBytes, q
<1>3. /\ [p EXCEPT !.data = @ + more] = [p EXCEPT !.data = v + more]
      /\ [p EXCEPT !.data = @ - 1] = [p EXCEPT !.data = v - 1]
  BY <1>1
<1>4. v + more \in Int /\ ~ (v + more < v) /\ v - 1 \in Int /\ v - 1 < v
  BY <1>0
<1>5. /\ ParsePushBytes([p EXCEPT !.data = v + more]) = [data |-> v, n |-> PushHeader(p.op) + v]
      /\ ParsePushBytes([p EXCEPT !.data = v - 1]) = Nil
  BY <1>2, <1>4
<1>6. QED
  BY <1>3, <1>5 DEF p

\* The two digits and the rest of a number below 4 * Septet * Septet.
LEMMA SeptetDigits ==
  ASSUME NEW a \in 0..Septet-1, NEW b \in 0..Septet-1, NEW c \in 0..3
  PROVE  LET v == a + b * Septet + c * Septet * Septet
         IN  /\ v \in 0..CompactTop-1
             /\ v % Septet = a /\ v \div Septet = b + c * Septet
             /\ (v \div Septet) % Septet = b /\ v \div (Septet * Septet) = c
             /\ c = 0 => v < Septet * Septet /\ (b = 0 <=> v < Septet)
             /\ c # 0 => v >= Septet * Septet /\ v >= Septet
<1> DEFINE n == Septet
           w == b + c * n
           v == a + b * Septet + c * Septet * Septet
           m == n * n
<1>1. n \in Nat /\ n > 3
  BY LengthsAssumption
<1> HIDE DEF n
<1>2. a \in 0..n-1 /\ b \in 0..n-1 /\ c \in Nat /\ c <= 3 /\ a \in Nat /\ b \in Nat
  BY <1>1 DEF n
<1>3. ASSUME NEW q \in Nat, NEW k \in Nat, k > 0, NEW r \in 0..k-1
      PROVE  (r + q * k) % k = r /\ (r + q * k) \div k = q
  <2>1. (q * k + r) % k = r /\ (q * k + r) \div k = q
    BY <1>3
  <2>2. q * k \in Nat
    BY <1>3
  <2> DEFINE p == q * k
  <2>3. p \in Nat /\ r \in Nat
    BY <1>3, <2>2
  <2> HIDE DEF p
  <2>4. r + p = p + r
    BY <2>3
  <2>5. QED
    BY <2>1, <2>4 DEF p
<1>4. w \in Nat /\ w % n = b /\ w \div n = c
  BY <1>1, <1>2, <1>3
<1>5. v = a + w * n
  <2>1. (b + c * n) * n = b * n + c * n * n
    BY <1>1, <1>2
  <2> DEFINE x == b * n
             y == c * n * n
  <2>2. x \in Nat /\ y \in Nat
    BY <1>1, <1>2
  <2>3. w * n = x + y /\ v = a + x + y
    BY <2>1 DEF n
  <2> HIDE DEF x, y, w, v
  <2>4. QED
    BY <1>2, <2>2, <2>3
<1>6. v % n = a /\ v \div n = w
  <2> HIDE DEF w, v
  <2>1. QED
    BY <1>1, <1>2, <1>3, <1>4, <1>5
<1>7. b * n \in Nat /\ b * n + n <= m /\ (b # 0 => b * n >= n) /\ m \in Nat
  <2> DEFINE d == n - 1 - b
  <2>1. d \in Nat /\ n = b + 1 + d
    BY <1>1, <1>2
  <2> HIDE DEF d
  <2>2. n * n = b * n + n + d * n /\ d * n \in Nat /\ b * n \in Nat
    BY <1>1, <1>2, <2>1
  <2>3. b # 0 => b * n >= n
    <3> DEFINE e == b - 1
    <3>1. b # 0 => e \in Nat /\ b = e + 1
      BY <1>2
    <3> HIDE DEF e
    <3>2. b # 0 => b * n = e * n + n /\ e * n \in Nat
      BY <1>1, <3>1
    <3>3. QED
      BY <1>1, <1>2, <2>2, <3>2
  <2>4. QED
    BY <1>1, <2>2, <2>3
<1> DEFINE x == b * n
           r == a + x
           y == c * m
<1>8. x \in Nat /\ x + n <= m /\ (b # 0 => x >= n) /\ m \in Nat /\ (b = 0 => x = 0)
  BY <1>1, <1>7
<1>9. y \in Nat /\ v = a + x + y /\ (c # 0 => y >= m) /\ (c = 0 => y = 0) /\ y <= 3 * m
  <2>1. c * n * n = c * (n * n)
    BY <1>1, <1>2
  <2>2. v = a + x + y
    BY <2>1 DEF n
  <2> HIDE DEF m
  <2>3. y \in Nat /\ (c # 0 => y >= m) /\ (c = 0 => y = 0) /\ y <= 3 * m
    <3>1. c = 0 \/ c = 1 \/ c = 2 \/ c = 3
      BY <1>2
    <3>2. QED
      BY <1>8, <3>1
  <2>4. QED
    BY <2>2, <2>3
<1>10. CompactTop = 4 * m
  <2>1. 4 * n * n = 4 * (n * n)
    BY <1>1
  <2>2. QED
    BY <2>1 DEF CompactTop, n
<1>11. v \div m = c
  <2> HIDE DEF v, x, m, w
  <2>1. r \in 0..m - 1 /\ m > 0
    BY <1>1, <1>2, <1>8
  <2>2. v = r + c * m
    <3> HIDE DEF y
    <3>1. v = r + y
      BY <1>2, <1>8, <1>9
    <3>2. QED
      BY <3>1 DEF y
  <2> HIDE DEF r
  <2>3. (r + c * m) \div m = c
    BY <1>2, <1>3, <1>8, <2>1
  <2>4. QED
    BY <2>2, <2>3
<1>12. /\ v \in 0..4 * m - 1
       /\ c = 0 => v < m /\ (b = 0 <=> v < n)
       /\ c # 0 => v >= m /\ v >= n
  <2> HIDE DEF v, x, y, m, w
  <2>1. QED
    BY <1>1, <1>2, <1>8, <1>9
<1>13. QED
  <2> HIDE DEF v, x, y
  <2>1. /\ v \in 0..CompactTop-1
        /\ v % n = a /\ v \div n = w
        /\ (v \div n) % n = b /\ v \div m = c
        /\ c = 0 => v < m /\ (b = 0 <=> v < n)
        /\ c # 0 => v >= m /\ v >= n
    BY <1>4, <1>6, <1>10, <1>11, <1>12
  <2>2. QED
    BY <2>1, Zenon DEF v, n

HasDigits(v, a, b, c) ==
    /\ v \in 0..CompactTop-1
    /\ v % Septet = a /\ v \div Septet = b + c * Septet
    /\ (v \div Septet) % Septet = b /\ v \div (Septet * Septet) = c
    /\ c = 0 => v < Septet * Septet /\ (b = 0 <=> v < Septet)
    /\ c # 0 => v >= Septet * Septet /\ v >= Septet

LEMMA ThreeDigits ==
  ASSUME NEW a \in 0..Septet-1, NEW b \in 0..Septet-1, NEW c \in 0..3,
         NEW v, v = a + b * Septet + c * Septet * Septet
  PROVE  HasDigits(v, a, b, c)
<1>1. HasDigits(a + b * Septet + c * Septet * Septet, a, b, c)
  BY SeptetDigits, Zenon DEF HasDigits
<1>2. QED
  BY <1>1, Zenon

LEMMA FirstOnes ==
  ASSUME NEW S, NEW s \in Seq(S)
  PROVE  /\ Len(s) >= 1 => SubSeq(s, 1, 1) = <<s[1]>>
         /\ Len(s) >= 2 => SubSeq(s, 1, 2) = <<s[1], s[2]>>
         /\ Len(s) >= 3 => SubSeq(s, 1, 3) = <<s[1], s[2], s[3]>>
<1>1. Len(s) \in Nat /\ \A i \in 1..Len(s) : s[i] \in S
  OBVIOUS
<1>2. ASSUME NEW k \in 1..Len(s), NEW t \in Seq(S), Len(t) = k, \A i \in 1..k : t[i] = s[i]
      PROVE  SubSeq(s, 1, k) = t
  <2>1. SubSeq(s, 1, k) \in Seq(S) /\ Len(SubSeq(s, 1, k)) = k
    BY <1>1
  <2>2. \A i \in 1..k : SubSeq(s, 1, k)[i] = s[i]
    BY <1>1
  <2>3. QED
    BY <1>2, <2>1, <2>2, SeqEqual
<1>3. ASSUME Len(s) >= 1 PROVE SubSeq(s, 1, 1) = <<s[1]>>
  <2> DEFINE t == <<s[1]>>
  <2>1. t \in Seq(S) /\ Len(t) = 1 /\ (\A i \in 1..1 : t[i] = s[i]) /\ 1 \in 1..Len(s)
    BY <1>1, <1>3
  <2> HIDE DEF t
  <2>2. SubSeq(s, 1, 1) = t
    BY <1>2, <2>1
  <2>3. QED
    BY <2>2 DEF t
<1>4. ASSUME Len(s) >= 2 PROVE SubSeq(s, 1, 2) = <<s[1], s[2]>>
  <2> DEFINE t == <<s[1], s[2]>>
  <2>1. t \in Seq(S) /\ Len(t) = 2 /\ t[1] = s[1] /\ t[2] = s[2] /\ 2 \in 1..Len(s)
    BY <1>1, <1>4
  <2>2. \A i \in 1..2 : i = 1 \/ i = 2
    OBVIOUS
  <2> HIDE DEF t
  <2>3. \A i \in 1..2 : t[i] = s[i]
    BY <2>1, <2>2
  <2>4. SubSeq(s, 1, 2) = t
    BY <1>2, <2>1, <2>3
  <2>5. QED
    BY <2>4 DEF t
<1>5. ASSUME Len(s) >= 3 PROVE SubSeq(s, 1, 3) = <<s[1], s[2], s[3]>>
  <2> DEFINE t == <<s[1], s[2], s[3]>>
  <2>1. t \in Seq(S) /\ Len(t) = 3 /\ t[1] = s[1] /\ t[2] = s[2] /\ t[3] = s[3] /\ 3 \in 1..Len(s)
    BY <1>1, <1>5
  <2>2. \A i \in 1..3 : i = 1 \/ i = 2 \/ i = 3
    OBVIOUS
  <2> HIDE DEF t
  <2>3. \A i \in 1..3 : t[i] = s[i]
    BY <2>1, <2>2
  <2>4. SubSeq(s, 1, 3) = t
    BY <1>2, <2>1, <2>3
  <2>5. QED
    BY <2>4 DEF t
<1>6. QED
  BY <1>3, <1>4, <1>5

CompactBytes == 0..2*Septet-1

\* What is accepted is what is written for it.
LEMMA CompactDecoded ==
  ASSUME NEW s \in Seq(CompactBytes), DecodeCompactU16(s) # Nil
  PROVE  LET d == DecodeCompactU16(s)
         IN  d.value < CompactTop /\ EncodeCompactU16(d.value) = SubSeq(s, 1, d.n)
<1> DEFINE d == DecodeCompactU16(s)
           n == Septet
<1>1. n \in Nat /\ n > 3 /\ Len(s) \in Nat /\ \A i \in 1..Len(s) : s[i] \in 0..2*n-1
  BY LengthsAssumption DEF CompactBytes
<1>2. CompactTop \in Nat /\ n * n \in Nat /\ \A v \in 0..CompactTop-1 : v < CompactTop
  <2>1. n * n \in Nat /\ 4 * n * n \in Nat
    BY <1>1
  <2>2. QED
    BY <2>1 DEF CompactTop
<1>3. CASE Len(s) >= 1 /\ s[1] < n
  <2>1. s # <<>> /\ s[1] \in 0..n-1
    BY <1>1, <1>3
  <2>2. d = [value |-> s[1], n |-> 1]
    BY <1>1, <1>3, <2>1 DEF DecodeCompactU16
  <2>3. EncodeCompactU16(s[1]) = <<s[1]>>
    <3>1. ~ (s[1] >= n)
      BY <1>1, <2>1
    <3>2. QED
      BY <1>3, <3>1 DEF EncodeCompactU16
  <2>4. SubSeq(s, 1, 1) = <<s[1]>>
    BY <1>3, FirstOnes
  <2>5. s[1] < CompactTop
    <3>1. s[1] = s[1] + 0 * Septet + 0 * Septet * Septet
      BY <1>1, <2>1
    <3>2. 0 \in 0..Septet-1 /\ 0 \in 0..3
      BY <1>1
    <3>3. HasDigits(s[1], s[1], 0, 0)
      BY <2>1, <3>1, <3>2, ThreeDigits
    <3>4. QED
      BY <1>2, <3>3 DEF HasDigits
  <2> HIDE DEF d
  <2>6. QED
    BY <2>2, <2>3, <2>4, <2>5 DEF d
<1>4. CASE Len(s) >= 2 /\ s[1] >= n /\ s[2] \in 1..n-1
  <2> DEFINE a == s[1] - n
             v == a + s[2] * Septet
  <2>1. s # <<>> /\ ~ (s[1] < n) /\ a \in 0..n-1 /\ s[1] = n + a /\ s[2] \in Nat
    BY <1>1, <1>4
  <2>2. d = [value |-> v, n |-> 2]
    <3>1. ~ (s[2] >= n)
      BY <1>1, <1>4
    <3>2. QED
      BY <1>1, <1>4, <2>1, <3>1 DEF DecodeCompactU16
  <2>3. a + s[2] * Septet + 0 * Septet * Septet = v
    <3>1. s[2] * n \in Nat /\ 0 * Septet * Septet = 0
      BY <1>1, <2>1
    <3> DEFINE p == s[2] * n
    <3>2. p \in Nat /\ a \in Nat
      BY <1>1, <2>1, <3>1
    <3> HIDE DEF p, a
    <3>3. a + p + 0 = a + p
      BY <3>2
    <3>4. QED
      BY <3>1, <3>3 DEF p
  <2> DEFINE b == s[2]
  <2>4. b \in 0..n-1 /\ b # 0
    BY <1>1, <1>4
  <2> HIDE DEF v, a, b
  <2>5. v \in 0..CompactTop-1 /\ v % n = a /\ v \div n = b + 0 * Septet /\ v < n * n /\ ~ (v < n)
    <3>1. a + b * Septet + 0 * Septet * Septet = v
      BY <2>3 DEF b
    <3>2. 0 \in 0..3
      OBVIOUS
    <3>3. QED
      BY <2>1, <2>4, <3>1, <3>2, SeptetDigits
  <2>6. v \in Nat /\ v >= n /\ v \div n = b
    BY <1>1, <1>2, <2>4, <2>5
  <2>7. EncodeCompactU16(v) = <<n + a, b>>
    BY <2>5, <2>6 DEF EncodeCompactU16
  <2>8. SubSeq(s, 1, 2) = <<s[1], s[2]>>
    BY <1>4, FirstOnes
  <2>9. SubSeq(s, 1, 2) = EncodeCompactU16(v)
    BY <2>1, <2>7, <2>8 DEF b
  <2> HIDE DEF d
  <2>10. QED
    BY <1>2, <2>2, <2>5, <2>9 DEF d
<1>5. CASE Len(s) >= 3 /\ s[1] >= n /\ s[2] >= n /\ s[3] \in 1..3
  <2> DEFINE a == s[1] - n
             b == s[2] - n
             c == s[3]
             v == a + b * Septet + c * Septet * Septet
  <2>1. s # <<>> /\ ~ (s[1] < n) /\ a \in 0..n-1 /\ s[1] = n + a /\ b \in 0..n-1 /\ s[2] = n + b
        /\ c \in 1..3 /\ s[2] \notin 1..n-1
    BY <1>1, <1>5
  <2>2. d = [value |-> v, n |-> 3]
    BY <1>1, <1>5, <2>1 DEF DecodeCompactU16
  <2> HIDE DEF v, a, b, c
  <2>3. /\ v \in 0..CompactTop-1 /\ v % n = a /\ (v \div n) % n = b /\ v \div (n * n) = c
        /\ v >= n * n /\ v >= n
    <3>1. c \in 0..3 /\ c # 0
      BY <2>1
    <3>2. v = a + b * Septet + c * Septet * Septet
      BY DEF v
    <3>3. a \in 0..Septet-1 /\ b \in 0..Septet-1
      BY <2>1
    <3> HIDE DEF n
    <3>4. HasDigits(v, a, b, c)
      BY <3>1, <3>2, <3>3, ThreeDigits
    <3>5. QED
      BY <3>1, <3>4, Zenon DEF n, HasDigits
  <2>4. ~ (v < n) /\ ~ (v < n * n)
    BY <1>1, <1>2, <2>3
  <2>5. EncodeCompactU16(v) = <<n + a, n + b, c>>
    BY <2>3, <2>4 DEF EncodeCompactU16
  <2>6. SubSeq(s, 1, 3) = <<s[1], s[2], s[3]>>
    BY <1>5, FirstOnes
  <2>7. SubSeq(s, 1, 3) = EncodeCompactU16(v)
    BY <2>1, <2>5, <2>6 DEF c
  <2> HIDE DEF d
  <2>8. QED
    BY <1>2, <2>2, <2>3, <2>7 DEF d
<1>6. CASE /\ ~ (Len(s) >= 1 /\ s[1] < n) /\ ~ (Len(s) >= 2 /\ s[1] >= n /\ s[2] \in 1..n-1)
           /\ ~ (Len(s) >= 3 /\ s[1] >= n /\ s[2] >= n /\ s[3] \in 1..3)
  <2>1. d = Nil
    BY <1>6, Zenon DEF DecodeCompactU16
  <2>2. QED
    BY <2>1
<1>7. QED
  BY <1>3, <1>4, <1>5, <1>6

\* What is written is accepted, whatever follows.
LEMMA CompactEncoded ==
  ASSUME NEW s \in Seq(CompactBytes), NEW v \in 0..CompactTop-1, IsPrefix(EncodeCompactU16(v), s)
  PROVE  DecodeCompactU16(s) # Nil
<1> DEFINE n == Septet
           m == n * n
           e == EncodeCompactU16(v)
<1>1. n \in Nat /\ n > 3 /\ Len(s) \in Nat /\ \A i \in 1..Len(s) : s[i] \in 0..2*n-1
  BY LengthsAssumption DEF CompactBytes
<1>2. m \in Nat /\ m > 0 /\ CompactTop = 4 * m /\ v \in Nat /\ v < 4 * m
  <2>1. n * n \in Nat /\ 4 * n * n = 4 * (n * n) /\ n * n > 0
    BY <1>1
  <2>2. CompactTop = 4 * m
    BY <2>1 DEF CompactTop
  <2> HIDE DEF m
  <2>3. QED
    BY <2>1, <2>2 DEF m
<1>3. ASSUME NEW x, Len(x) \in Nat, IsPrefix(x, s), NEW k \in 1..Len(x)
      PROVE  s[k] = x[k] /\ Len(x) <= Len(s)
  <2>1. Len(x) <= Len(s) /\ SubSeq(x, 1, Len(x)) = SubSeq(s, 1, Len(x))
    BY <1>3 DEF IsPrefix
  <2>2. SubSeq(x, 1, Len(x))[k] = x[k] /\ SubSeq(s, 1, Len(x))[k] = s[k]
    BY <1>1, <1>3, <2>1
  <2>3. QED
    BY <2>1, <2>2
<1>4. \A val \in Nat, k \in Nat : [value |-> val, n |-> k] # Nil
  BY LengthsAssumption
<1>5. CASE v < n
  <2>1. e = <<v>>
    <3>1. ~ (v >= n)
      BY <1>1, <1>2, <1>5
    <3>2. QED
      BY <1>5, <3>1 DEF EncodeCompactU16
  <2>2. Len(s) >= 1 /\ s[1] = v /\ s # <<>>
    BY <1>1, <1>3, <2>1
  <2>3. DecodeCompactU16(s) = [value |-> v, n |-> 1]
    BY <1>1, <1>2, <1>5, <2>2 DEF DecodeCompactU16
  <2>4. QED
    BY <1>2, <1>4, <2>3
<1>6. CASE v >= n /\ v < m
  <2>1. v \div n \in 1..n-1 /\ v % n \in 0..n-1
    <3>1. n > v \div n <=> n * n > v
      <4>1. n \in Nat /\ n > 0 /\ v \in Nat
        BY <1>1, <1>2
      <4> HIDE DEF n
      <4>2. QED
        BY <4>1, ProductFits
    <3>2. 1 > v \div n <=> 1 * n > v
      BY <1>1, <1>2, ProductFits
    <3>3. v \div n \in Nat /\ v % n \in 0..n-1
      BY <1>1, <1>2
    <3>4. n * n > v /\ ~ (1 * n > v)
      BY <1>1, <1>2, <1>6
    <3>5. QED
      BY <1>1, <3>1, <3>2, <3>3, <3>4
  <2> DEFINE q == v \div n
             r == v % n
  <2>2. e = <<n + r, q>>
    <3>1. ~ (v < n)
      BY <1>1, <1>2, <1>6
    <3>2. QED
      BY <1>6, <3>1 DEF EncodeCompactU16
  <2>3. q \in 1..n-1 /\ r \in 0..n-1
    BY <2>1
  <2> HIDE DEF q, r, e, m
  <2>4. Len(e) = 2 /\ IsPrefix(e, s) /\ e[1] = n + r /\ e[2] = q
    BY <2>2 DEF e
  <2>5. Len(s) >= 2 /\ s[1] = n + r /\ s[2] = q
    <3>1. Len(e) \in Nat /\ 1 \in 1..Len(e) /\ 2 \in 1..Len(e)
      BY <2>4
    <3>2. s[1] = e[1] /\ s[2] = e[2] /\ Len(e) <= Len(s)
      BY <1>3, <2>4, <3>1
    <3>3. QED
      BY <2>4, <3>2
  <2>6. s # <<>> /\ ~ (s[1] < n) /\ s[1] >= n /\ s[2] \in 1..n-1 /\ ~ (s[2] >= n)
    BY <1>1, <2>3, <2>5
  <2>7. DecodeCompactU16(s) = [value |-> s[1] - Septet + s[2] * Septet, n |-> 2]
    BY <2>5, <2>6 DEF DecodeCompactU16
  <2>8. s[1] - Septet + s[2] * Septet \in Nat
    BY <1>1, <2>3, <2>5
  <2>9. QED
    BY <1>4, <2>7, <2>8
<1>7. CASE v >= m
  <2>1. v \div m \in 1..3
    <3>1. 4 > v \div m <=> 4 * m > v
      BY <1>2, ProductFits
    <3>2. 1 > v \div m <=> 1 * m > v
      BY <1>2, ProductFits
    <3>3. v \div m \in Nat
      BY <1>2
    <3>4. 4 * m > v /\ ~ (1 * m > v)
      BY <1>2, <1>7
    <3>5. QED
      BY <3>1, <3>2, <3>3, <3>4
  <2>2. v % n \in 0..n-1 /\ (v \div n) % n \in 0..n-1
    <3>1. v \div n \in Nat
      BY <1>1, <1>2
    <3>2. QED
      BY <1>1, <1>2, <3>1
  <2> DEFINE a == v % n
             b == (v \div n) % n
             c == v \div m
  <2>3. v >= n
    <3>1. m >= n
      <4> DEFINE j == n - 1
      <4>1. j \in Nat /\ n = j + 1
        BY <1>1
      <4> HIDE DEF j
      <4>2. n * n = n * j + n /\ n * j \in Nat
        BY <1>1, <4>1
      <4>3. QED
        BY <1>1, <4>2
    <3>2. QED
      BY <1>1, <1>2, <1>7, <3>1
  <2>4. e = <<n + a, n + b, c>>
    <3>1. ~ (v < n) /\ ~ (v < m)
      BY <1>1, <1>2, <1>7, <2>3
    <3>2. QED
      BY <3>1 DEF EncodeCompactU16
  <2>5. a \in 0..n-1 /\ b \in 0..n-1 /\ c \in 1..3
    BY <2>1, <2>2
  <2> HIDE DEF a, b, c, e, m
  <2>6. Len(e) = 3 /\ IsPrefix(e, s) /\ e[1] = n + a /\ e[2] = n + b /\ e[3] = c
    BY <2>4 DEF e
  <2>7. Len(s) >= 3 /\ s[1] = n + a /\ s[2] = n + b /\ s[3] = c
    BY <1>1, <1>3, <2>6, SMTT(30)
  <2>8. s # <<>> /\ ~ (s[1] < n) /\ s[1] >= n /\ s[2] >= n /\ s[2] \notin 1..n-1 /\ s[3] \in 1..3
    BY <1>1, <2>5, <2>7
  <2>9. DecodeCompactU16(s)
          = [value |-> s[1] - Septet + (s[2] - Septet) * Septet + s[3] * Septet * Septet, n |-> 3]
    BY <2>7, <2>8 DEF DecodeCompactU16
  <2>10. s[1] - Septet + (s[2] - Septet) * Septet + s[3] * Septet * Septet \in Nat
    <3>1. a \in Nat /\ b * n \in Nat /\ c * n * n \in Nat
      BY <1>1, <2>5
    <3>2. s[1] - n = a /\ s[2] - n = b
      BY <1>1, <2>5, <2>7
    <3>3. QED
      BY <2>7, <3>1, <3>2
  <2>11. QED
    BY <1>4, <2>9, <2>10
<1>8. QED
  <2> HIDE DEF m
  <2>1. QED
    BY <1>1, <1>2, <1>5, <1>6, <1>7

-----------------------------------------------------------------------------
(***************************************************************************)
(* Regrouped bits.  Of numbers and powers first: what is below a power of  *)
(* two and what is above it.                                               *)
(***************************************************************************)
LEMMA PowerAdds ==
  ASSUME NEW b \in Positive, NEW m \in Nat, NEW n \in Nat
  PROVE  Power(b, m + n) = Power(b, m) * Power(b, n)
<1> DEFINE Q == { k \in Nat : Power(b, m + k) = Power(b, m) * Power(b, k) }
<1>1. 0 \in Q
  <2>1. Power(b, m) \in Positive /\ Power(b, 0) = 1 /\ m + 0 = m
    BY PowerFacts
  <2>2. QED
    BY <2>1 DEF Positive
<1>2. ASSUME NEW k \in Nat, k \in Q PROVE k + 1 \in Q
  <2> DEFINE p == Power(b, m)
             q == Power(b, k)
  <2>1. m + k \in Nat /\ m + (k + 1) = (m + k) + 1
    OBVIOUS
  <2>2. p \in Positive /\ q \in Positive /\ Power(b, m + k) = p * q
    BY <1>2, PowerFacts
  <2>3. Power(b, k + 1) = b * q /\ Power(b, m + (k + 1)) = b * Power(b, m + k)
    BY <2>1, PowerFacts
  <2> HIDE DEF p, q
  <2>4. b * (p * q) = p * (b * q)
    BY <2>2 DEF Positive
  <2>5. QED
    BY <2>2, <2>3, <2>4 DEF p
<1>3. n \in Q
  <2> HIDE DEF Q
  <2>1. QED
    BY <1>1, <1>2, Induct
<1>4. QED
  BY <1>3

\* Quotient and remainder are the only ones.
LEMMA Divided ==
  ASSUME NEW h \in Nat, NEW d \in Positive, NEW k \in Nat, NEW r \in 0..d-1, h = d * k + r
  PROVE  h \div d = k /\ h % d = r
<1>1. h = k * d + r
  BY DEF Positive
<1>2. (k * d + r) \div d = k /\ (k * d + r) % d = r
  BY DEF Positive
<1>3. QED
  BY <1>1, <1>2

LEMMA DividedTwice ==
  ASSUME NEW a \in Nat, NEW p \in Positive, NEW q \in Positive
  PROVE  (a \div p) \div q = a \div (p * q) /\ p * q \in Positive
<1> DEFINE x == a \div p
           r == a % p
           y == x \div q
           s == x % q
<1>1. x \in Nat /\ r \in 0..p-1 /\ a = p * x + r
  BY DivFacts
<1> HIDE DEF x, r
<1>2. y \in Nat /\ s \in 0..q-1 /\ x = q * y + s
  BY <1>1, DivFacts
<1> HIDE DEF y, s
<1>3. p * q \in Positive
  BY DEF Positive
<1>4. p * s + r \in 0..(p * q) - 1
  <2>1. p * s \in Nat /\ p * q \in Nat
    BY <1>2 DEF Positive
  <2>2. p * s + p <= p * q
    <3> DEFINE e == q - 1 - s
    <3>1. e \in Nat /\ q = s + 1 + e
      BY <1>2 DEF Positive
    <3> HIDE DEF e
    <3>2. p * (s + 1 + e) = p * s + p + p * e /\ p * e \in Nat
      BY <1>2, <3>1 DEF Positive
    <3>3. QED
      BY <2>1, <3>1, <3>2 DEF Positive
  <2>3. QED
    BY <1>1, <2>1, <2>2 DEF Positive
<1>5. a = (p * q) * y + (p * s + r)
  <2>1. p * (q * y + s) = (p * q) * y + p * s
    BY <1>2 DEF Positive
  <2>2. (p * q) * y \in Nat /\ p * s \in Nat
    BY <1>2 DEF Positive
  <2>3. QED
    BY <1>1, <1>2, <2>1, <2>2
<1>6. a \div (p * q) = y
  <2> DEFINE d == p * q
             e == p * s + r
  <2>1. d \in Positive /\ e \in 0..d-1 /\ a = d * y + e
    BY <1>3, <1>4, <1>5
  <2> HIDE DEF d, e
  <2>2. a \div d = y
    BY <1>2, <2>1, Divided
  <2>3. QED
    BY <2>2 DEF d
<1>7. QED
  BY <1>3, <1>6 DEF x, y

\* A remainder has the same low part.
LEMMA LowPart ==
  ASSUME NEW a \in Nat, NEW t \in Positive, NEW m \in Positive
  PROVE  (a % (t * m)) % t = a % t
<1> DEFINE f == t * m
           q == a \div f
           r == a % f
           d == r \div t
           c == r % t
<1>1. f \in Positive
  BY DEF Positive
<1>2. f = t * m
  OBVIOUS
<1> HIDE DEF f
<1>3. q \in Nat /\ r \in Nat /\ a = f * q + r
  BY <1>1, DivFacts DEF Positive
<1> HIDE DEF q, r
<1>4. d \in Nat /\ c \in 0..t-1 /\ r = t * d + c
  BY <1>3, DivFacts
<1> HIDE DEF d, c
<1>5. m * q + d \in Nat
  BY <1>3, <1>4 DEF Positive
<1>6. a = t * (m * q + d) + c
  <2>1. (t * m) * q = t * (m * q) /\ t * (m * q + d) = t * (m * q) + t * d
    BY <1>3, <1>4 DEF Positive
  <2>2. t * (m * q) \in Nat /\ t * d \in Nat
    BY <1>3, <1>4 DEF Positive
  <2>3. QED
    BY <1>2, <1>3, <1>4, <2>1, <2>2
<1>7. a % t = c
  <2> DEFINE k == m * q + d
  <2>1. k \in Nat /\ a = t * k + c
    BY <1>5, <1>6
  <2> HIDE DEF k
  <2>2. QED
    BY <1>4, <2>1, Divided
<1>8. QED
  BY <1>7 DEF c, r, f

\* What is above it falls away.
LEMMA MiddlePart ==
  ASSUME NEW a \in Nat, NEW x \in Positive, NEW t \in Positive, NEW m \in Positive
  PROVE  ((a % (x * (t * m))) \div x) % t = (a \div x) % t
<1> DEFINE g == t * m
           f == x * g
           q == a \div f
           r == a % f
           u == r \div x
           e == r % x
<1>1. g \in Positive
  BY DEF Positive
<1> HIDE DEF g
<1>2. f \in Positive
  BY <1>1 DEF Positive
<1>3. f = x * g
  OBVIOUS
<1> HIDE DEF f
<1>4. q \in Nat /\ r \in 0..f-1 /\ a = f * q + r
  BY <1>2, DivFacts
<1> HIDE DEF q, r
<1>5. u \in Nat /\ e \in 0..x-1 /\ r = x * u + e
  <2>1. r \in Nat
    BY <1>2, <1>4 DEF Positive
  <2>2. QED
    BY <2>1, DivFacts
<1> HIDE DEF u, e
<1> DEFINE k == g * q + u
<1>6. k \in Nat /\ a = x * k + e
  <2>1. (x * g) * q = x * (g * q) /\ x * (g * q + u) = x * (g * q) + x * u
    BY <1>1, <1>4, <1>5 DEF Positive
  <2>2. x * (g * q) \in Nat /\ x * u \in Nat /\ g * q \in Nat
    BY <1>1, <1>4, <1>5 DEF Positive
  <2>3. QED
    BY <1>3, <1>4, <1>5, <2>1, <2>2
<1>7. k = g * q + u
  OBVIOUS
<1> HIDE DEF k
<1>8. a \div x = k
  BY <1>5, <1>6, Divided
<1>9. u < g
  <2> SUFFICES ASSUME g <= u PROVE FALSE
    BY <1>1, <1>5 DEF Positive
  <2> DEFINE h == u - g
  <2>1. h \in Nat /\ u = g + h
    BY <1>1, <1>5 DEF Positive
  <2> HIDE DEF h
  <2>2. x * (g + h) = x * g + x * h /\ x * h \in Nat /\ x * g \in Nat
    BY <1>1, <2>1 DEF Positive
  <2>3. QED
    BY <1>3, <1>4, <1>5, <2>1, <2>2 DEF Positive
<1>10. k % g = u
  BY <1>1, <1>4, <1>5, <1>6, <1>7, <1>9, Divided DEF Positive
<1>11. (k % g) % t = k % t
  BY <1>6, LowPart DEF g
<1>12. QED
  BY <1>8, <1>10, <1>11 DEF u, r, f, g

\* What is appended below does not reach what is above it.
LEMMA HighPart ==
  ASSUME NEW a \in Nat, NEW s \in Positive, NEW v \in 0..s-1, NEW x \in Positive
  PROVE  (a * s + v) \div (x * s) = a \div x
<1> DEFINE b == a * s + v
<1>1. b \in Nat /\ b = s * a + v
  BY DEF Positive
<1> HIDE DEF b
<1>2. b \div s = a
  BY <1>1, Divided
<1>3. (b \div s) \div x = b \div (s * x)
  BY <1>1, DividedTwice
<1>4. s * x = x * s
  BY DEF Positive
<1>5. QED
  BY <1>2, <1>3, <1>4 DEF b

LEMMA ShiftedRemainder ==
  ASSUME NEW x \in Nat, NEW r \in Positive, NEW s \in Positive
  PROVE  (x * s) % (r * s) = (x % r) * s
<1> DEFINE y == x \div r
           z == x % r
<1>1. y \in Nat /\ z \in 0..r-1 /\ x = r * y + z
  BY DivFacts
<1> HIDE DEF y, z
<1>2. r * s \in Positive /\ x * s \in Nat
  BY DEF Positive
<1>3. x * s = (r * s) * y + z * s
  <2>1. (r * y + z) * s = (r * s) * y + z * s
    BY <1>1 DEF Positive
  <2>2. QED
    BY <1>1, <2>1
<1>4. z * s \in 0..(r * s) - 1
  <2> DEFINE e == r - 1 - z
  <2>1. e \in Nat /\ r = z + 1 + e
    BY <1>1 DEF Positive
  <2> HIDE DEF e
  <2>2. (z + 1 + e) * s = z * s + s + e * s /\ e * s \in Nat /\ z * s \in Nat
    BY <1>1, <2>1 DEF Positive
  <2>3. QED
    BY <2>1, <2>2 DEF Positive
<1>5. (x * s) % (r * s) = z * s
  <2> DEFINE h == x * s
             d == r * s
             c == z * s
  <2>1. h \in Nat /\ d \in Positive /\ c \in 0..d-1 /\ h = d * y + c
    BY <1>2, <1>3, <1>4
  <2> HIDE DEF h, d, c
  <2>2. h % d = c
    BY <1>1, <2>1, Divided
  <2>3. QED
    BY <2>2 DEF h, d, c
<1>6. QED
  BY <1>5 DEF z

\* A value appended to a remainder is appended to the number.
LEMMA AppendedToRemainder ==
  ASSUME NEW a \in Nat, NEW f \in Positive, NEW s \in Positive, NEW v \in Nat
  PROVE  ((a % f) * s + v) % f = (a * s + v) % f
<1> DEFINE q == a \div f
           r == a % f
<1>1. q \in Nat /\ r \in Nat /\ a = f * q + r
  BY DivFacts DEF Positive
<1> HIDE DEF q, r
<1> DEFINE y == r * s + v
           z == y \div f
           c == y % f
<1>2. y \in Nat /\ y = r * s + v
  BY <1>1 DEF Positive
<1> HIDE DEF y
<1>3. z \in Nat /\ c \in 0..f-1 /\ y = f * z + c
  BY <1>2, DivFacts
<1> HIDE DEF z, c
<1> DEFINE k == q * s + z
           h == a * s + v
<1>4. k \in Nat /\ h \in Nat
  BY <1>1, <1>3 DEF Positive
<1>5. h = f * k + c
  <2>1. (f * q + r) * s = f * (q * s) + r * s /\ f * (q * s + z) = f * (q * s) + f * z
    BY <1>1, <1>3 DEF Positive
  <2>2. f * (q * s) \in Nat /\ r * s \in Nat /\ f * z \in Nat
    BY <1>1, <1>3 DEF Positive
  <2>3. QED
    BY <1>1, <1>2, <1>3, <2>1, <2>2
<1> HIDE DEF k, h
<1>6. h % f = c
  BY <1>3, <1>4, <1>5, Divided
<1>7. QED
  BY <1>6 DEF h, c, y, r
-----------------------------------------------------------------------------
(***************************************************************************)
(* Groups of bits.  A window of t bits above the lowest x of a number.     *)
(***************************************************************************)
Window(v, x, t) == (v \div Power(2, x)) % Power(2, t)

LEMMA PowerTwo ==
  ASSUME NEW n \in Nat
  PROVE  Power(2, n) \in Positive /\ Power(2, 0) = 1
<1>1. 2 \in Positive
  BY DEF Positive
<1>2. QED
  BY <1>1, PowerFacts

LEMMA PowerTwoAdds ==
  ASSUME NEW m \in Nat, NEW n \in Nat
  PROVE  Power(2, m + n) = Power(2, m) * Power(2, n)
<1>1. 2 \in Positive
  BY DEF Positive
<1>2. QED
  BY <1>1, PowerAdds

LEMMA WindowType ==
  ASSUME NEW v \in Nat, NEW x \in Nat, NEW t \in Nat
  PROVE  Window(v, x, t) \in 0..Power(2, t)-1
<1> DEFINE p == Power(2, x)
           q == Power(2, t)
<1>1. p \in Positive /\ q \in Positive
  BY PowerTwo
<1> HIDE DEF p, q
<1>2. v \div p \in Nat
  BY <1>1, DivFacts
<1>3. (v \div p) % q \in 0..q-1
  BY <1>1, <1>2, DivFacts
<1>4. QED
  BY <1>3 DEF Window, p, q

LEMMA WindowLow ==
  ASSUME NEW v \in Nat, NEW x \in Nat, NEW t \in Nat, NEW f \in Nat, x + t <= f
  PROVE  Window(v % Power(2, f), x, t) = Window(v, x, t)
<1> DEFINE p == Power(2, x)
           q == Power(2, t)
           k == f - (x + t)
           m == Power(2, k)
<1>1. k \in Nat /\ t + k \in Nat /\ f = x + (t + k)
  OBVIOUS
<1> HIDE DEF k
<1>2. p \in Positive /\ q \in Positive /\ m \in Positive
  BY <1>1, PowerTwo
<1>3. Power(2, t + k) = q * m /\ Power(2, x + (t + k)) = p * Power(2, t + k)
  BY <1>1, PowerTwoAdds
<1>4. Power(2, f) = p * (q * m)
  BY <1>1, <1>3
<1> HIDE DEF p, q, m
<1>5. ((v % (p * (q * m))) \div p) % q = (v \div p) % q
  BY <1>2, MiddlePart
<1>6. QED
  BY <1>4, <1>5 DEF Window, p, q

LEMMA WindowHigh ==
  ASSUME NEW v \in Nat, NEW s \in Nat, NEW d \in 0..Power(2, s)-1, NEW x \in Nat, NEW t \in Nat
  PROVE  Window(v * Power(2, s) + d, x + s, t) = Window(v, x, t)
<1> DEFINE p == Power(2, x)
           r == Power(2, s)
<1>1. p \in Positive /\ r \in Positive
  BY PowerTwo
<1>2. Power(2, x + s) = p * r
  BY PowerTwoAdds
<1>3. (v * r + d) \div (p * r) = v \div p
  <2>1. d \in 0..r-1
    OBVIOUS
  <2> HIDE DEF p, r
  <2>2. QED
    BY <1>1, <2>1, HighPart
<1>4. QED
  BY <1>2, <1>3 DEF Window

LEMMA WindowWithin ==
  ASSUME NEW v \in Nat, NEW x \in Nat, NEW t \in Nat, NEW y \in Nat, NEW s \in Nat, y + s <= t
  PROVE  Window(Window(v, x, t), y, s) = Window(v, x + y, s)
<1> DEFINE p == Power(2, x)
           a == v \div p
<1>1. p \in Positive /\ Power(2, y) \in Positive
  BY PowerTwo
<1>2. a \in Nat
  BY <1>1, DivFacts
<1>3. Window(v, x, t) = a % Power(2, t)
  BY DEF Window
<1>4. Power(2, x + y) = p * Power(2, y)
  BY PowerTwoAdds
<1>5. a \div Power(2, y) = v \div (p * Power(2, y))
  <2> HIDE DEF p
  <2>1. QED
    BY <1>1, DividedTwice DEF a
<1>6. Window(a, y, s) = Window(v, x + y, s)
  BY <1>4, <1>5 DEF Window
<1> HIDE DEF a
<1>7. Window(a % Power(2, t), y, s) = Window(a, y, s)
  BY <1>2, WindowLow
<1>8. QED
  BY <1>3, <1>6, <1>7

\* The groups s of width t that are complete in the l bits of v, the highest first.
HasGroups(s, v, l, t) ==
    /\ s \in Seq(Nat) /\ Len(s) = l \div t
    /\ \A k \in 1..l \div t : s[k] = Window(v, l - k * t, t)

\* A group that is complete begins within the bits.
LEMMA WithinBits ==
  ASSUME NEW l \in Nat, NEW t \in Positive, NEW k \in 1..l \div t
  PROVE  l - k * t \in Nat /\ l \div t \in Nat /\ k * t \in Nat
<1> DEFINE q == l \div t
           r == l % t
           e == q - k
<1>1. q \in Nat /\ r \in Nat /\ l = t * q + r
  BY DivFacts DEF Positive
<1>2. k \in 1..q
  OBVIOUS
<1> HIDE DEF q, r
<1>3. e \in Nat /\ q = k + e /\ k \in Nat
  BY <1>1, <1>2
<1> HIDE DEF e
<1>4. t * (k + e) = k * t + t * e /\ t * e \in Nat /\ k * t \in Nat
  BY <1>3 DEF Positive
<1>5. l - k * t \in Nat
  BY <1>1, <1>3, <1>4
<1>6. QED
  BY <1>1, <1>4, <1>5 DEF q

LEMMA ListOf ==
  ASSUME NEW n \in Nat, NEW S, NEW s \in [1..n -> S]
  PROVE  s \in Seq(S) /\ Len(s) = n
  OBVIOUS

LEMMA GroupsAre ==
  ASSUME NEW v \in Nat, NEW l \in Nat, NEW t \in Positive
  PROVE  HasGroups(Groups(v, l, t), v, l, t)
<1> DEFINE n == l \div t
           e(k) == Window(v, l - k * t, t)
           s == Groups(v, l, t)
<1>1. n \in Nat
  BY DivFacts
<1>2. s = [k \in 1..n |-> e(k)]
  BY DEF Groups, Window
<1>3. \A k \in 1..n : e(k) \in Nat
  <2> TAKE k \in 1..n
  <2>1. l - k * t \in Nat
    BY WithinBits
  <2>2. t \in Nat
    BY DEF Positive
  <2>3. Window(v, l - k * t, t) \in 0..Power(2, t)-1 /\ Power(2, t) \in Positive
    BY <2>1, <2>2, WindowType, PowerTwo
  <2>4. QED
    BY <2>3 DEF Positive
<1> HIDE DEF n, e, s
<1>4. s \in [1..n -> Nat] /\ \A k \in 1..n : s[k] = e(k)
  BY <1>2, <1>3
<1>5. s \in Seq(Nat) /\ Len(s) = n
  BY <1>1, <1>4, ListOf
<1>6. QED
  BY <1>4, <1>5 DEF HasGroups, n, e, s
-----------------------------------------------------------------------------
(***************************************************************************)
(* The loop.  v is the number that n values of w bits make up.             *)
(***************************************************************************)
BitStates == [acc : Nat, bits : Nat, out : Seq(Nat)]

Kept(st, v, n, w, t) ==
    /\ st \in BitStates /\ st.bits = (n * w) % t
    /\ st.acc = v % Power(2, w + t - 1)
    /\ HasGroups(st.out, v, n * w, t)

LEMMA BothLists ==
  ASSUME NEW s \in Seq(Nat), NEW g \in Seq(Nat)
  PROVE  /\ s \o g \in Seq(Nat) /\ Len(s \o g) = Len(s) + Len(g)
         /\ (\A k \in 1..Len(s) : (s \o g)[k] = s[k])
         /\ \A k \in 1..Len(g) : (s \o g)[Len(s) + k] = g[k]
  OBVIOUS

\* The groups that were complete stay, and those that a value completes come after them.
LEMMA GroupsGrow ==
  ASSUME NEW w \in Positive, NEW t \in Positive, NEW l \in Nat, NEW v \in Nat,
         NEW d \in 0..Power(2, w)-1, NEW s, HasGroups(s, v, l, t),
         NEW u \in Nat, u = v * Power(2, w) + d,
         NEW g, HasGroups(g, u % Power(2, w + t - 1), (l % t) + w, t)
  PROVE  HasGroups(s \o g, u, l + w, t) /\ (l + w) % t = ((l % t) + w) % t
<1> DEFINE q == l \div t
           r == l % t
           b == r + w
           m == b \div t
           c == b % t
           z == s \o g
<1>1. q \in Nat /\ r \in 0..t-1 /\ l = t * q + r
  BY DivFacts
<1>2. s \in Seq(Nat) /\ Len(s) = q /\ \A k \in 1..q : s[k] = Window(v, l - k * t, t)
  BY DEF HasGroups
<1>3. g \in Seq(Nat) /\ Len(g) = m /\ \A k \in 1..m : g[k] = Window(u % Power(2, w + t - 1), b - k * t, t)
  BY DEF HasGroups
<1> HIDE DEF q, r
<1>4. b \in Nat /\ b <= w + t - 1
  BY <1>1 DEF Positive
<1>5. b = r + w
  OBVIOUS
<1> HIDE DEF b
<1>6. m \in Nat /\ c \in 0..t-1 /\ b = t * m + c
  BY <1>4, DivFacts
<1>7. \A k \in 1..m : b - k * t \in Nat
  BY <1>4, WithinBits
<1> HIDE DEF m, c
<1>8. (l + w) \div t = q + m /\ (l + w) % t = c
  <2> DEFINE k == q + m
             h == l + w
  <2>1. h \in Nat /\ k \in Nat
    BY <1>1, <1>6 DEF Positive
  <2>2. h = t * k + c
    <3>1. t * (q + m) = t * q + t * m /\ t * q \in Nat /\ t * m \in Nat
      BY <1>1, <1>6 DEF Positive
    <3>2. QED
      BY <1>1, <1>5, <1>6, <3>1 DEF Positive
  <2> HIDE DEF k, h
  <2>3. h \div t = k /\ h % t = c
    BY <1>6, <2>1, <2>2, Divided
  <2>4. QED
    BY <2>3 DEF k, h
<1>9. z \in Seq(Nat) /\ Len(z) = q + m
      /\ (\A k \in 1..q : z[k] = s[k]) /\ \A k \in 1..m : z[q + k] = g[k]
  <2>1. s \in Seq(Nat) /\ g \in Seq(Nat) /\ Len(s) = q /\ Len(g) = m
    BY <1>2, <1>3
  <2>2. /\ z \in Seq(Nat) /\ Len(z) = Len(s) + Len(g)
        /\ (\A k \in 1..Len(s) : z[k] = s[k]) /\ \A k \in 1..Len(g) : z[Len(s) + k] = g[k]
    BY <2>1, BothLists, Zenon
  <2> HIDE DEF z
  <2>3. QED
    BY <2>1, <2>2
<1> HIDE DEF z
<1>10. ASSUME NEW k \in 1..q PROVE z[k] = Window(u, (l + w) - k * t, t)
  <2>1. l - k * t \in Nat /\ k * t \in Nat
    BY WithinBits DEF q
  <2>2. (l - k * t) + w = (l + w) - k * t
    BY <2>1 DEF Positive
  <2>3. Window(u, (l - k * t) + w, t) = Window(v, l - k * t, t)
    BY <2>1, WindowHigh DEF Positive
  <2>4. QED
    BY <1>2, <1>9, <2>2, <2>3
<1>11. ASSUME NEW k \in 1..m PROVE z[q + k] = Window(u, (l + w) - (q + k) * t, t)
  <2>1. b - k * t \in Nat /\ k * t \in Nat
    BY <1>4, WithinBits DEF m
  <2>2. (l + w) - (q + k) * t = b - k * t
    <3>1. (q + k) * t = t * q + k * t /\ t * q \in Nat
      BY <1>1, <1>6 DEF Positive
    <3>2. QED
      BY <1>1, <1>4, <1>5, <2>1, <3>1 DEF Positive
  <2>3. (b - k * t) + t <= w + t - 1
    <3>1. k * t >= t
      <4> DEFINE e == k - 1
      <4>1. e \in Nat /\ k = e + 1
        BY <1>6
      <4> HIDE DEF e
      <4>2. (e + 1) * t = e * t + t /\ e * t \in Nat
        BY <4>1 DEF Positive
      <4>3. QED
        BY <4>1, <4>2 DEF Positive
    <3>2. QED
      BY <1>4, <2>1, <3>1 DEF Positive
  <2> DEFINE x == b - k * t
             f == w + t - 1
  <2>4. x \in Nat /\ f \in Nat /\ t \in Nat /\ x + t <= f
    BY <2>1, <2>3 DEF Positive
  <2>5. g[k] = Window(u % Power(2, f), x, t)
    BY <1>3
  <2> HIDE DEF x, f
  <2>6. g[k] = Window(u, x, t)
    BY <2>4, <2>5, WindowLow
  <2>7. QED
    BY <1>9, <2>2, <2>6 DEF x
<1>12. \A k \in 1..q + m : z[k] = Window(u, (l + w) - k * t, t)
  <2> TAKE k \in 1..q + m
  <2>1. CASE k \in 1..q
    BY <1>10, <2>1
  <2>2. CASE k \notin 1..q
    <3> DEFINE j == k - q
    <3>1. j \in 1..m /\ k = q + j
      BY <1>1, <1>6, <2>2
    <3> HIDE DEF j
    <3>2. QED
      BY <1>11, <3>1
  <2>3. QED
    BY <2>1, <2>2
<1>13. HasGroups(z, u, l + w, t)
  BY <1>8, <1>9, <1>12 DEF HasGroups
<1>14. QED
  BY <1>8, <1>13 DEF z, c, b, r

LEMMA KeptStep ==
  ASSUME NEW w \in Positive, NEW t \in Positive, NEW n \in Nat, NEW v \in Nat,
         NEW d \in 0..Power(2, w)-1, NEW st, Kept(st, v, n, w, t)
  PROVE  Kept(Regroup(st, d, w, t), v * Power(2, w) + d, n + 1, w, t)
<1> DEFINE p == Power(2, w)
           f == Power(2, w + t - 1)
           u == v * p + d
           l == n * w
           acc == (st.acc * p + d) % f
           b == st.bits + w
           new == Regroup(st, d, w, t)
<1>1. /\ st.acc \in Nat /\ st.bits \in Nat /\ st.out \in Seq(Nat)
      /\ st.bits = l % t /\ st.acc = v % f /\ HasGroups(st.out, v, l, t)
  BY DEF Kept, BitStates
<1>2. p \in Positive /\ f \in Positive /\ w \in Nat /\ t \in Nat
  BY PowerTwo DEF Positive
<1>3. l \in Nat /\ (n + 1) * w = l + w
  BY <1>2
<1>4. new = [acc |-> acc, bits |-> b % t, out |-> st.out \o Groups(acc, b, t)]
  BY DEF Regroup
<1>5. d \in 0..p-1
  OBVIOUS
<1>6. u \in Nat
  BY <1>2, <1>5 DEF Positive
<1>7. acc = u % f
  <2>1. d \in Nat
    BY <1>2, <1>5 DEF Positive
  <2> HIDE DEF p, f
  <2>2. ((v % f) * p + d) % f = (v * p + d) % f
    <3>1. f \in Positive /\ p \in Positive
      BY <1>2
    <3>2. \A a \in Nat : ((a % f) * p + d) % f = (a * p + d) % f
      <4> TAKE a \in Nat
      <4>1. QED
        BY <2>1, <3>1, AppendedToRemainder
    <3>3. QED
      BY <3>2, Zenon
  <2>3. QED
    BY <1>1, <2>2
<1>8. u = v * p + d
  OBVIOUS
<1> HIDE DEF u
<1>9. acc \in Nat
  <2> HIDE DEF acc, f
  <2>1. QED
    BY <1>2, <1>6, <1>7, DivFacts DEF Positive
<1>10. b \in Nat /\ b = (l % t) + w
  BY <1>1, <1>2
<1> DEFINE g == Groups(acc, b, t)
<1> HIDE DEF acc, b, l
<1>11. HasGroups(g, acc, b, t)
  BY <1>9, <1>10, GroupsAre
<1>12. HasGroups(g, u % f, (l % t) + w, t)
  BY <1>7, <1>10, <1>11
<1> HIDE DEF g
<1>13. HasGroups(st.out \o g, u, l + w, t) /\ (l + w) % t = ((l % t) + w) % t
  BY <1>1, <1>3, <1>5, <1>6, <1>8, <1>12, GroupsGrow DEF f, p
<1>14. b % t \in Nat
  <2>1. b % t \in 0..t-1
    BY <1>10, DivFacts
  <2>2. QED
    BY <1>2, <2>1
<1>15. new \in BitStates
  <2>1. st.out \o g \in Seq(Nat)
    BY <1>13 DEF HasGroups
  <2>2. QED
    BY <1>4, <1>9, <1>14, <2>1 DEF BitStates, g
<1>16. new.bits = ((n + 1) * w) % t /\ new.acc = u % f /\ new.out = st.out \o g
  <2>1. new.bits = b % t /\ new.acc = acc /\ new.out = st.out \o g
    BY <1>4 DEF g
  <2>2. b % t = (l + w) % t
    BY <1>10, <1>13
  <2>3. QED
    BY <1>3, <1>7, <2>1, <2>2
<1>17. Kept(new, u, n + 1, w, t)
  BY <1>3, <1>13, <1>15, <1>16 DEF Kept, f
<1>18. QED
  BY <1>17 DEF u, p, new

\* f[n] is the number that the first n values make up.
Joins(f, data, w) ==
    /\ f \in [0..Len(data) -> Nat] /\ f[0] = 0
    /\ \A n \in 1..Len(data) : f[n] = f[n - 1] * Power(2, w) + data[n]

\* Values of w bits.
Values(data, w) == data \in Seq(Nat) /\ \A i \in 1..Len(data) : data[i] \in 0..Power(2, w)-1

LEMMA JoinExists ==
  ASSUME NEW w \in Nat, NEW data \in Seq(Nat)
  PROVE  \E f : Joins(f, data, w)
<1> DEFINE n == Len(data)
           p == Power(2, w)
           step == [k \in 1..n |-> [x \in Nat |-> x * p + data[k]]]
<1>1. n \in Nat /\ p \in Nat /\ \A k \in 1..n : data[k] \in Nat
  <2>1. p \in Positive
    BY PowerTwo
  <2> HIDE DEF p
  <2>2. QED
    BY <2>1 DEF Positive
<1> HIDE DEF n, p
<1>2. \A k \in 1..n : \A x \in Nat : x * p + data[k] \in Nat
  BY <1>1
<1>3. step \in [1..n -> [Nat -> Nat]]
  BY <1>2
<1>4. PICK f : f \in [0..n -> Nat] /\ f[0] = 0 /\ \A k \in 1..n : f[k] = step[k][f[k - 1]]
  <2> HIDE DEF step
  <2>1. \E f : Iterates(f, Nat, 0, step, n)
    BY <1>1, <1>3, Iterated
  <2>2. QED
    BY <2>1 DEF Iterates
<1>5. \A k \in 1..n : f[k] = f[k - 1] * p + data[k]
  <2> TAKE k \in 1..n
  <2>1. f[k - 1] \in Nat
    BY <1>1, <1>4
  <2>2. QED
    BY <1>4, <2>1
<1>6. QED
  BY <1>4, <1>5 DEF Joins, n, p

LEMMA RegroupedIs ==
  ASSUME NEW w \in Positive, NEW t \in Positive, NEW data, Values(data, w),
         NEW f, Joins(f, data, w)
  PROVE  Kept(Regrouped(data, w, t), f[Len(data)], Len(data), w, t)
<1> DEFINE L == Len(data)
           s0 == [acc |-> 0, bits |-> 0, out |-> <<>>]
           IsRun(s) == s = [n \in 0..L |-> IF n = 0 THEN s0 ELSE Regroup(s[n - 1], data[n], w, t)]
           I(n, st) == Kept(st, f[n], n, w, t)
           step == [n \in 1..L |-> [st \in BitStates |-> Regroup(st, data[n], w, t)]]
<1>1. L \in Nat /\ \A n \in 1..L : data[n] \in 0..Power(2, w)-1 /\ data[n] \in Nat
  <2>1. Power(2, w) \in Positive
    BY PowerTwo DEF Positive
  <2>2. QED
    BY <2>1 DEF Values, Positive
<1>2. f[0] = 0 /\ \A n \in 1..L : f[n - 1] \in Nat /\ f[n] = f[n - 1] * Power(2, w) + data[n]
  <2>1. /\ f \in [0..L -> Nat] /\ f[0] = 0
        /\ \A n \in 1..L : f[n] = f[n - 1] * Power(2, w) + data[n]
    BY Zenon DEF Joins
  <2>2. \A n \in 1..L : n - 1 \in 0..L
    BY <1>1
  <2> HIDE DEF L
  <2>3. QED
    BY <2>1, <2>2, Zenon
<1>3. Kept(s0, 0, 0, w, t)
  <2>1. w \in Nat /\ t \in Nat /\ w + t - 1 \in Nat
    BY DEF Positive
  <2>2. 0 * w = 0 /\ 0 % t = 0 /\ 0 \div t = 0
    BY <2>1, Divided DEF Positive
  <2>3. 0 % Power(2, w + t - 1) = 0
    <3>1. Power(2, w + t - 1) \in Positive
      BY <2>1, PowerTwo
    <3> DEFINE q == Power(2, w + t - 1)
    <3> HIDE DEF q
    <3>2. q \in Positive
      BY <3>1 DEF q
    <3>3. 0 % q = 0
      BY <3>2 DEF Positive
    <3>4. QED
      BY <3>3 DEF q
  <2>4. s0 \in BitStates
    BY DEF BitStates
  <2>5. <<>> \in Seq(Nat) /\ Len(<<>>) = 0
    OBVIOUS
  <2>6. HasGroups(<<>>, 0, 0, t)
    BY <2>2, <2>5 DEF HasGroups
  <2>7. QED
    BY <2>2, <2>3, <2>4, <2>6 DEF Kept
<1>4. step \in [1..L -> [BitStates -> BitStates]]
  <2>1. ASSUME NEW n \in 1..L, NEW st \in BitStates PROVE Regroup(st, data[n], w, t) \in BitStates
    <3> DEFINE b == st.bits + w
               a == (st.acc * Power(2, w) + data[n]) % Power(2, w + t - 1)
    <3>1. st.bits \in Nat /\ st.acc \in Nat /\ st.out \in Seq(Nat) /\ w \in Nat /\ w + t - 1 \in Nat
      BY DEF BitStates, Positive
    <3>2. b \in Nat /\ b % t \in Nat
      <4>1. b \in Nat
        BY <3>1
      <4> HIDE DEF b
      <4>2. QED
        BY <4>1, DivFacts DEF Positive
    <3>3. a \in Nat
      <4> DEFINE p == Power(2, w)
                 q == Power(2, w + t - 1)
      <4>1. p \in Positive /\ q \in Positive
        BY <3>1, PowerTwo
      <4> HIDE DEF p, q
      <4> DEFINE h == st.acc * p + data[n]
      <4>2. h \in Nat
        <5>1. st.acc \in Nat /\ p \in Nat /\ data[n] \in Nat
          BY <1>1, <3>1, <4>1 DEF Positive
        <5>2. \A x, y, z \in Nat : x * y + z \in Nat
          OBVIOUS
        <5>3. QED
          BY <5>1, <5>2, Zenon
      <4> HIDE DEF h
      <4>3. h % q \in Nat
        BY <4>1, <4>2, DivFacts DEF Positive
      <4>4. QED
        BY <4>3 DEF h, p, q
    <3> HIDE DEF a, b
    <3>4. Groups(a, b, t) \in Seq(Nat)
      BY <3>2, <3>3, GroupsAre DEF HasGroups
    <3>5. Regroup(st, data[n], w, t) = [acc |-> a, bits |-> b % t, out |-> st.out \o Groups(a, b, t)]
      BY DEF Regroup, a, b
    <3> DEFINE o == st.out \o Groups(a, b, t)
    <3>6. o \in Seq(Nat)
      BY <3>1, <3>4
    <3> HIDE DEF o
    <3>7. [acc |-> a, bits |-> b % t, out |-> o] \in BitStates
      BY <3>2, <3>3, <3>6 DEF BitStates
    <3>8. QED
      BY <3>5, <3>7 DEF o
  <2>2. QED
    BY <2>1
<1>5. s0 \in BitStates
  BY DEF BitStates
<1> HIDE DEF s0, step
<1>6. PICK r : r \in [0..L -> BitStates] /\ r[0] = s0 /\ \A n \in 1..L : r[n] = step[n][r[n - 1]]
  <2>1. \E r : Iterates(r, BitStates, s0, step, L)
    BY <1>1, <1>4, <1>5, Iterated
  <2>2. QED
    BY <2>1 DEF Iterates
<1> HIDE DEF L
<1>7. \A n \in 1..L : r[n] = Regroup(r[n - 1], data[n], w, t)
  <2> TAKE n \in 1..L
  <2>1. n - 1 \in 0..L
    BY <1>1
  <2>2. r[n - 1] \in BitStates
    BY <1>6, <2>1, Zenon
  <2>3. QED
    BY <1>6, <2>2, Zenon DEF step
<1>8. IsRun(r)
  BY <1>1, <1>6, <1>7
<1> DEFINE s == CHOOSE s : IsRun(s)
<1>9. IsRun(s)
  <2> HIDE DEF IsRun
  <2>1. QED
    BY <1>8
<1>10. Regrouped(data, w, t) = s[L]
  BY Zenon DEF Regrouped, L, s0
<1> HIDE DEF s
<1>11. s[0] = s0 /\ \A n \in 1..L : s[n] = Regroup(s[n - 1], data[n], w, t)
  BY <1>1, <1>9
<1> DEFINE Q == { n \in Nat : n <= L => I(n, s[n]) }
<1>12. 0 \in Q
  BY <1>2, <1>3, <1>11 DEF s0
<1>13. ASSUME NEW n \in Nat, n \in Q PROVE n + 1 \in Q
  <2> SUFFICES ASSUME n + 1 <= L PROVE I(n + 1, s[n + 1])
    OBVIOUS
  <2>1. I(n, s[n]) /\ n + 1 \in 1..L /\ (n + 1) - 1 = n
    BY <1>1, <1>13
  <2> DEFINE d == data[n + 1]
             v == f[n]
             st == s[n]
  <2>2. /\ d \in 0..Power(2, w)-1 /\ v \in Nat /\ f[n + 1] = v * Power(2, w) + d
        /\ s[n + 1] = Regroup(st, d, w, t)
    BY <1>1, <1>2, <1>11, <2>1
  <2>3. Kept(st, v, n, w, t)
    BY <2>1
  <2> HIDE DEF d, v, st
  <2>4. Kept(Regroup(st, d, w, t), v * Power(2, w) + d, n + 1, w, t)
    BY <2>2, <2>3, KeptStep
  <2>5. QED
    BY <2>2, <2>4
<1>14. L \in Q
  <2> HIDE DEF Q
  <2>1. QED
    BY <1>1, <1>12, <1>13, Induct
<1>15. QED
  BY <1>1, <1>10, <1>14 DEF L
-----------------------------------------------------------------------------
(***************************************************************************)
(* A number is its groups.                                                 *)
(***************************************************************************)
LEMMA JoinedDigits ==
  ASSUME NEW w \in Positive, NEW data, Values(data, w), NEW f, Joins(f, data, w)
  PROVE  LET n == Len(data)
             v == f[n]
         IN  /\ v \in Nat /\ v < Power(2, n * w) /\ n \in Nat
             /\ \A k \in 1..n : data[k] = Window(v, (n - k) * w, w)
<1> DEFINE n == Len(data)
           v == f[n]
           p == Power(2, w)
<1>1. n \in Nat /\ w \in Nat /\ \A k \in 1..n : data[k] \in 0..p-1
  BY DEF Values, Positive
<1>2. f[0] = 0 /\ (\A k \in 0..n : f[k] \in Nat) /\ \A k \in 1..n : f[k] = f[k - 1] * p + data[k]
  BY <1>1 DEF Joins
<1>3. p \in Positive
  BY <1>1, PowerTwo
<1> HIDE DEF n
<1> DEFINE Q == { j \in Nat : j <= n => v \div Power(2, j * w) = f[n - j] }
<1>4. 0 \in Q
  <2>1. 0 * w = 0 /\ n - 0 = n
    BY <1>1
  <2>2. Power(2, 0) = 1
    BY PowerTwo
  <2>3. v \div 1 = v
    BY <1>1, <1>2
  <2>4. v \div Power(2, 0 * w) = f[n - 0]
    BY <2>1, <2>2, <2>3
  <2> HIDE DEF v
  <2>5. QED
    BY <2>4
<1>5. ASSUME NEW j \in Nat, j \in Q PROVE j + 1 \in Q
  <2> SUFFICES ASSUME j + 1 <= n PROVE v \div Power(2, (j + 1) * w) = f[n - (j + 1)]
    OBVIOUS
  <2> DEFINE k == n - j
             x == Power(2, j * w)
  <2>1. k \in 1..n /\ n - (j + 1) = k - 1 /\ j * w \in Nat /\ (j + 1) * w = j * w + w
    BY <1>1
  <2>2. v \div x = f[k]
    BY <1>1, <1>5
  <2> HIDE DEF k
  <2>3. Power(2, (j + 1) * w) = x * p
    BY <1>1, <2>1, PowerTwoAdds
  <2>4. x \in Positive
    BY <2>1, PowerTwo
  <2>5. v \in Nat
    BY <1>1, <1>2
  <2> HIDE DEF v, x, p
  <2>6. (v \div x) \div p = v \div (x * p)
    BY <1>3, <2>4, <2>5, DividedTwice
  <2>7. f[k] \div p = f[k - 1]
    <3> DEFINE a == f[k]
               b == f[k - 1]
               c == data[k]
    <3>1. a \in Nat /\ b \in Nat /\ c \in 0..p-1 /\ a = b * p + c
      BY <1>1, <1>2, <2>1
    <3> HIDE DEF a, b, c
    <3>2. b * p = p * b
      BY <1>3, <3>1 DEF Positive
    <3>3. a \div p = b
      BY <1>3, <3>1, <3>2, Divided
    <3>4. QED
      BY <3>3 DEF a, b
  <2>8. QED
    BY <2>1, <2>2, <2>3, <2>6, <2>7
<1>6. \A j \in 0..n : v \div Power(2, j * w) = f[n - j]
  <2>1. \A j \in Nat : j \in Q
    <3> HIDE DEF Q
    <3>1. QED
      BY <1>4, <1>5, Induct
  <2>2. QED
    BY <1>1, <2>1
<1>7. v \in Nat
  BY <1>1, <1>2
<1>8. v < Power(2, n * w)
  <2> DEFINE d == Power(2, n * w)
  <2>1. n * w \in Nat
    BY <1>1
  <2>2. d \in Positive
    BY <2>1, PowerTwo
  <2>3. v \div d = f[n - n]
    BY <1>1, <1>6
  <2>4. n - n = 0
    BY <1>1
  <2> HIDE DEF d, v
  <2>5. v \div d = 0
    BY <1>2, <2>3, <2>4
  <2>6. v < d
    BY <1>7, <2>2, <2>5, DivFacts
  <2>7. QED
    BY <2>6 DEF d
<1>9. ASSUME NEW k \in 1..n PROVE data[k] = Window(v, (n - k) * w, w)
  <2>1. n - k \in 0..n /\ n - (n - k) = k
    BY <1>1
  <2>2. v \div Power(2, (n - k) * w) = f[k]
    BY <1>6, <2>1
  <2> DEFINE a == f[k]
             b == f[k - 1]
             c == data[k]
  <2>3. a \in Nat /\ b \in Nat /\ c \in 0..p-1 /\ a = b * p + c
    BY <1>1, <1>2
  <2>4. Window(v, (n - k) * w, w) = a % p
    BY <2>2 DEF Window
  <2> HIDE DEF a, b, c, p
  <2>5. b * p = p * b
    BY <1>3, <2>3 DEF Positive
  <2>6. a % p = c
    BY <1>3, <2>3, <2>5, Divided
  <2>7. QED
    BY <2>4, <2>6 DEF c
<1>10. QED
  BY <1>1, <1>7, <1>8, <1>9 DEF n

LEMMA JoinedBack ==
  ASSUME NEW w \in Positive, NEW m \in Nat, NEW x \in Nat, x < Power(2, m * w),
         NEW data, Len(data) = m, NEW f, Joins(f, data, w),
         \A k \in 1..m : data[k] = Window(x, (m - k) * w, w)
  PROVE  f[m] = x
<1> DEFINE p == Power(2, w)
           Q == { k \in Nat : k <= m => f[k] = x \div Power(2, (m - k) * w) }
<1>1. w \in Nat /\ p \in Positive
  BY PowerTwo DEF Positive
<1>2. f[0] = 0 /\ (\A k \in 0..m : f[k] \in Nat) /\ \A k \in 1..m : f[k] = f[k - 1] * p + data[k]
  BY DEF Joins
<1>3. 0 \in Q
  <2> DEFINE d == Power(2, m * w)
  <2>1. m * w \in Nat /\ m - 0 = m
    BY <1>1
  <2>2. d \in Positive /\ x < d
    BY <2>1, PowerTwo
  <2> HIDE DEF d
  <2>3. x \div d = 0
    BY <2>2, DivFacts
  <2>4. f[0] = x \div Power(2, (m - 0) * w)
    BY <1>2, <2>1, <2>3 DEF d
  <2>5. QED
    BY <2>4
<1>4. ASSUME NEW k \in Nat, k \in Q PROVE k + 1 \in Q
  <2> SUFFICES ASSUME k + 1 <= m PROVE f[k + 1] = x \div Power(2, (m - (k + 1)) * w)
    OBVIOUS
  <2> DEFINE j == m - (k + 1)
             e == Power(2, j * w)
             y == x \div e
  <2>1. j \in Nat /\ m - k = j + 1 /\ k + 1 \in 1..m /\ (k + 1) - 1 = k
    OBVIOUS
  <2>2. f[k] = x \div Power(2, (m - k) * w)
    BY <1>4
  <2>3. data[k + 1] = Window(x, j * w, w)
    BY <2>1
  <2>4. f[k + 1] = f[k] * p + data[k + 1]
    BY <1>2, <2>1
  <2>5. m - (k + 1) = j
    OBVIOUS
  <2> HIDE DEF j
  <2>6. j * w \in Nat /\ (j + 1) * w = j * w + w
    BY <1>1, <2>1
  <2>7. e \in Positive /\ Power(2, (j + 1) * w) = e * p
    BY <1>1, <2>6, PowerTwo, PowerTwoAdds
  <2>8. data[k + 1] = y % p
    BY <2>3 DEF Window
  <2> HIDE DEF e, p
  <2>9. y \in Nat
    BY <2>7, DivFacts
  <2>10. f[k] = y \div p
    BY <1>1, <2>1, <2>2, <2>7, DividedTwice
  <2>11. y = p * (y \div p) + (y % p) /\ y \div p \in Nat /\ p * (y \div p) = (y \div p) * p
    <3> HIDE DEF y
    <3>1. y \div p \in Nat /\ y = p * (y \div p) + (y % p)
      BY <1>1, <2>9, DivFacts
    <3> DEFINE z == y \div p
    <3> HIDE DEF z
    <3>2. p * z = z * p
      BY <1>1, <3>1 DEF Positive, z
    <3>3. QED
      BY <3>1, <3>2 DEF z
  <2>12. f[k + 1] = y
    BY <2>4, <2>8, <2>10, <2>11
  <2>13. QED
    BY <2>5, <2>12 DEF e
<1>5. m \in Q
  <2> HIDE DEF Q
  <2>1. QED
    BY <1>3, <1>4, Induct
<1>6. (m - m) * w = 0 /\ Power(2, 0) = 1 /\ x \div 1 = x
  BY <1>1, PowerTwo
<1>7. f[m] = x \div Power(2, (m - m) * w)
  BY <1>5
<1>8. QED
  BY <1>6, <1>7

LEMMA OneBit ==
  ASSUME NEW v \in Nat, NEW x \in Nat
  PROVE  Window(v, x, 1) = (v \div Power(2, x)) % 2
<1>1. Power(2, 0 + 1) = 2 * Power(2, 0) /\ Power(2, 0) = 1
  BY PowerFacts DEF Positive
<1>2. Power(2, 1) = 2
  BY <1>1
<1>3. QED
  BY <1>2 DEF Window

\* The n values of w bits that make up v.
GroupsOf(data, v, n, w) == Len(data) = n /\ \A k \in 1..n : data[k] = Window(v, (n - k) * w, w)

\* The l bits of v, the highest first.
BitsOf(b, v, l) == b \in Seq(0..1) /\ Len(b) = l /\ \A j \in 1..l : b[j] = Window(v, l - j, 1)

\* The bits of the groups are those of the number.
LEMMA BitsAre ==
  ASSUME NEW w \in Positive, NEW n \in Nat, NEW v \in Nat, NEW data, GroupsOf(data, v, n, w)
  PROVE  BitsOf(Bits(data, w), v, n * w)
<1> DEFINE l == n * w
           b == Bits(data, w)
           e(j) == (data[(j - 1) \div w + 1] \div Power(2, w - 1 - ((j - 1) % w))) % 2
<1>1. w \in Nat /\ l \in Nat /\ Len(data) = n /\ \A k \in 1..n : data[k] = Window(v, (n - k) * w, w)
  BY DEF Positive, GroupsOf
<1>2. b = [j \in 1..l |-> e(j)]
  BY <1>1 DEF Bits
<1>3. ASSUME NEW j \in 1..l PROVE e(j) = Window(v, l - j, 1) /\ e(j) \in 0..1
  <2> DEFINE q == (j - 1) \div w
             i == (j - 1) % w
             k == q + 1
  <2>1. q \in Nat /\ i \in 0..w-1 /\ j - 1 = w * q + i
    <3> DEFINE h == j - 1
    <3>1. h \in Nat
      BY <1>1
    <3> HIDE DEF h
    <3>2. h \div w \in Nat /\ h % w \in 0..w-1 /\ h = w * (h \div w) + (h % w)
      BY <3>1, DivFacts
    <3>3. QED
      BY <3>2 DEF h
  <2>2. e(j) = (data[k] \div Power(2, w - 1 - i)) % 2
    OBVIOUS
  <2> HIDE DEF q, i
  <2>3. k \in 1..n
    <3> SUFFICES ASSUME n <= q PROVE FALSE
      BY <2>1
    <3> DEFINE y == q - n
    <3>1. y \in Nat /\ q = n + y
      BY <2>1
    <3> HIDE DEF y
    <3>2. w * (n + y) = n * w + w * y /\ w * y \in Nat
      BY <1>1, <3>1
    <3>3. QED
      BY <1>1, <2>1, <3>1, <3>2
  <2> DEFINE a == (n - k) * w
             s == w - 1 - i
  <2>4. a \in Nat /\ s \in Nat /\ s + 1 <= w /\ a + s = l - j
    <3> DEFINE y == n - k
    <3>1. y \in Nat /\ n = y + q + 1
      BY <2>1, <2>3
    <3> HIDE DEF y
    <3>2. (y + q + 1) * w = y * w + w * q + w /\ y * w \in Nat /\ w * q \in Nat
      BY <1>1, <2>1, <3>1
    <3>3. a = y * w
      BY DEF y
    <3>4. QED
      BY <1>1, <2>1, <3>1, <3>2, <3>3
  <2>5. data[k] = Window(v, a, w)
    BY <1>1, <2>3
  <2> HIDE DEF a, s, k
  <2>6. Window(v, a, w) \in Nat
    <3>1. Window(v, a, w) \in 0..Power(2, w)-1 /\ Power(2, w) \in Positive
      BY <1>1, <2>4, WindowType, PowerTwo
    <3>2. QED
      BY <3>1 DEF Positive
  <2>7. Window(Window(v, a, w), s, 1) = Window(v, a + s, 1)
    BY <1>1, <2>4, WindowWithin
  <2>8. e(j) = Window(Window(v, a, w), s, 1)
    <3>1. Window(Window(v, a, w), s, 1) = (Window(v, a, w) \div Power(2, s)) % 2
      BY <2>4, <2>6, OneBit
    <3>2. e(j) = (data[k] \div Power(2, s)) % 2
      BY <2>2 DEF k, s
    <3>3. QED
      BY <2>5, <3>1, <3>2
  <2>9. e(j) = Window(v, l - j, 1)
    BY <2>4, <2>7, <2>8
  <2>10. Window(v, l - j, 1) \in 0..Power(2, 1)-1
    <3>1. l - j \in Nat /\ 1 \in Nat
      BY <2>4
    <3> HIDE DEF l
    <3>2. QED
      BY <3>1, WindowType
  <2>11. Power(2, 1) = 2
    <3>1. Power(2, 0 + 1) = 2 * Power(2, 0) /\ Power(2, 0) = 1
      BY PowerFacts DEF Positive
    <3>2. QED
      BY <3>1
  <2>12. QED
    BY <2>9, <2>10, <2>11
<1> HIDE DEF e, l, b
<1>4. b \in [1..l -> 0..1] /\ \A j \in 1..l : b[j] = Window(v, l - j, 1)
  BY <1>2, <1>3
<1>5. b \in Seq(0..1) /\ Len(b) = l
  BY <1>1, <1>4, ListOf
<1>6. QED
  BY <1>4, <1>5 DEF BitsOf, b, l
-----------------------------------------------------------------------------
(***************************************************************************)
(* What convertBits returns.                                               *)
(***************************************************************************)
\* The bits that are left, moved to the top of a group, are the lowest group of the
\* number moved as far.
LEMMA RestIs ==
  ASSUME NEW w \in Positive, NEW t \in Positive, NEW v \in Nat, NEW st,
         st.acc = v % Power(2, w + t - 1), st.bits \in 0..t-1
  PROVE  /\ Rest(st, t) = (v % Power(2, st.bits)) * Power(2, t - st.bits)
         /\ Rest(st, t) = Window(v * Power(2, t - st.bits), 0, t)
<1> DEFINE r == st.bits
           p == t - r
           e == w + t - 1 - r
           R == Power(2, r)
           P == Power(2, p)
           E == Power(2, e)
           T == Power(2, t)
           F == Power(2, w + t - 1)
<1>1. r \in Nat /\ p \in Nat /\ e \in Nat /\ r + p = t /\ r + e = w + t - 1
  BY DEF Positive
<1>2. Rest(st, t) = (st.acc * P) % T
  BY DEF Rest
<1>3. st.acc = v % F
  OBVIOUS
<1> HIDE DEF r, p, e
<1>4. R \in Positive /\ P \in Positive /\ E \in Positive
  BY <1>1, PowerTwo
<1>5. T = R * P /\ F = R * E
  BY <1>1, PowerTwoAdds
<1>6. Power(2, 0) = 1
  BY PowerTwo
<1>7. Window(v * P, 0, t) = ((v * P) \div 1) % T
  BY <1>6 DEF Window
<1> HIDE DEF R, P, E, T, F
<1> DEFINE a == v % F
<1>8. a \in Nat /\ a % R = v % R
  <2>1. F \in Positive
    BY <1>4, <1>5 DEF Positive
  <2>2. a \in Nat
    BY <2>1, DivFacts DEF Positive
  <2>3. (v % (R * E)) % R = v % R
    BY <1>4, LowPart
  <2>4. QED
    BY <1>5, <2>2, <2>3
<1>9. st.acc = a
  BY <1>3
<1> HIDE DEF a
<1>10. (a * P) % (R * P) = (a % R) * P
  BY <1>4, <1>8, ShiftedRemainder
<1>11. (v * P) % (R * P) = (v % R) * P
  BY <1>4, ShiftedRemainder
<1>12. (v * P) \div 1 = v * P
  <2>1. v * P \in Nat
    BY <1>4 DEF Positive
  <2>2. \A x \in Nat : x \div 1 = x
    OBVIOUS
  <2>3. QED
    BY <2>1, <2>2
<1>13. QED
  BY <1>2, <1>5, <1>7, <1>8, <1>9, <1>10, <1>11, <1>12 DEF R, P, p, r

\* s says in groups of t bits what the n values of w bits say, which make up v: the p
\* bits that fill the last group are zeros.
Says(s, v, n, w, t, p) ==
    /\ p \in 0..t-1 /\ s \in Seq(Nat) /\ n * w + p = Len(s) * t
    /\ \A k \in 1..Len(s) : s[k] = Window(v * Power(2, p), (Len(s) - k) * t, t)

LEMMA Appended ==
  ASSUME NEW s \in Seq(Nat), NEW x \in Nat
  PROVE  LET z == Append(s, x)
         IN  /\ z \in Seq(Nat) /\ Len(z) = Len(s) + 1 /\ z[Len(s) + 1] = x
             /\ \A k \in 1..Len(s) : z[k] = s[k]
  OBVIOUS

LEMMA PaddedIs ==
  ASSUME NEW w \in Positive, NEW t \in Positive, NEW data, Values(data, w),
         NEW f, Joins(f, data, w)
  PROVE  \E p \in Nat : Says(ConvertBits(data, w, t, TRUE), f[Len(data)], Len(data), w, t, p)
<1> DEFINE n == Len(data)
           v == f[n]
           L == n * w
           h == L \div t
           r == L % t
           st == Regrouped(data, w, t)
           up == ConvertBits(data, w, t, TRUE)
<1>1. Kept(st, v, n, w, t)
  BY RegroupedIs
<1>2. n \in Nat /\ v \in Nat
  <2>1. n \in Nat
    BY DEF Values
  <2>2. QED
    BY <2>1 DEF Joins
<1>3. ~ \E i \in DOMAIN data : data[i] >= Power(2, w)
  <2>1. Power(2, w) \in Positive
    BY PowerTwo DEF Positive
  <2>2. QED
    BY <2>1 DEF Values, Positive
<1>4. up = IF st.bits > 0 THEN Append(st.out, Rest(st, t)) ELSE st.out
  BY <1>3 DEF ConvertBits
<1> HIDE DEF n, v, st, up
<1>5. /\ st.bits = r /\ st.acc = v % Power(2, w + t - 1)
      /\ st.out \in Seq(Nat) /\ Len(st.out) = h
      /\ \A k \in 1..h : st.out[k] = Window(v, L - k * t, t)
  BY <1>1 DEF Kept, HasGroups
<1>6. L \in Nat
  BY <1>2 DEF Positive
<1> HIDE DEF L
<1>7. h \in Nat /\ r \in 0..t-1 /\ L = t * h + r
  BY <1>6, DivFacts
<1>8. \A k \in 1..h : L - k * t \in Nat /\ k * t \in Nat
  BY <1>6, WithinBits
<1> HIDE DEF h, r
<1>9. CASE r = 0
  <2>1. up = st.out
    BY <1>4, <1>5, <1>9
  <2>2. h * t = t * h
    BY <1>7 DEF Positive
  <2>3. Power(2, 0) = 1 /\ v * 1 = v
    BY <1>2, PowerTwo
  <2>4. ASSUME NEW k \in 1..h PROVE up[k] = Window(v * Power(2, 0), (h - k) * t, t)
    <3>1. (h - k) * t = L - k * t
      BY <1>7, <1>9 DEF Positive
    <3>2. QED
      BY <1>5, <2>1, <2>3, <3>1
  <2>5. L + 0 = h * t /\ 0 \in 0..t-1
    BY <1>6, <1>7, <1>9, <2>2 DEF Positive
  <2>6. Says(up, v, n, w, t, 0)
    BY <1>5, <2>1, <2>4, <2>5 DEF Says, L
  <2>7. QED
    BY <2>6 DEF up, v, n
<1>10. CASE r > 0
  <2> DEFINE p == t - r
             x == Rest(st, t)
  <2>1. up = Append(st.out, x)
    BY <1>4, <1>5, <1>10
  <2>2. p \in 0..t-1 /\ p \in Nat /\ r + p = t
    BY <1>7, <1>10 DEF Positive
  <2>3. x = Window(v * Power(2, p), 0, t)
    BY <1>2, <1>5, <1>7, RestIs
  <2> HIDE DEF p, x
  <2>4. v * Power(2, p) \in Nat
    <3>1. Power(2, p) \in Positive
      BY <2>2, PowerTwo
    <3> DEFINE y == Power(2, p)
    <3> HIDE DEF y
    <3>2. v * y \in Nat
      BY <1>2, <3>1 DEF Positive, y
    <3>3. QED
      BY <3>2 DEF y
  <2>5. x \in Nat
    <3> DEFINE z == v * Power(2, p)
    <3> HIDE DEF z
    <3>1. t \in Nat /\ 0 \in Nat /\ Power(2, t) \in Positive
      BY PowerTwo DEF Positive
    <3>2. z \in Nat
      BY <2>4 DEF z
    <3>3. Window(z, 0, t) \in 0..Power(2, t)-1
      BY <3>1, <3>2, WindowType
    <3>4. QED
      BY <2>3, <3>1, <3>3 DEF z, Positive
  <2>6. /\ up \in Seq(Nat) /\ Len(up) = h + 1 /\ up[h + 1] = x
        /\ \A k \in 1..h : up[k] = st.out[k]
    <3> DEFINE o == st.out
    <3>1. o \in Seq(Nat) /\ Len(o) = h
      BY <1>5
    <3>2. up = Append(o, x)
      BY <2>1
    <3> HIDE DEF o
    <3>3. /\ up \in Seq(Nat) /\ Len(up) = h + 1 /\ up[h + 1] = x
          /\ \A k \in 1..h : up[k] = o[k]
      BY <2>5, <3>1, <3>2, Appended
    <3>4. QED
      BY <3>3 DEF o
  <2>7. L + p = (h + 1) * t
    <3>1. (h + 1) * t = t * h + t
      BY <1>7 DEF Positive
    <3>2. t * h \in Nat
      BY <1>7 DEF Positive
    <3>3. QED
      BY <1>7, <2>2, <3>1, <3>2 DEF Positive
  <2>8. ASSUME NEW k \in 1..h PROVE up[k] = Window(v * Power(2, p), ((h + 1) - k) * t, t)
    <3>1. L - k * t \in Nat /\ k * t \in Nat
      BY <1>8
    <3>2. ((h + 1) - k) * t = (h + 1) * t - k * t
      BY <1>7 DEF Positive
    <3>3. (L - k * t) + p = ((h + 1) - k) * t
      BY <1>6, <2>2, <2>7, <3>1, <3>2 DEF Positive
    <3>4. 0 \in 0..Power(2, p)-1
      <4>1. Power(2, p) \in Positive
        BY <2>2, PowerTwo
      <4>2. QED
        BY <4>1 DEF Positive
    <3>5. t \in Nat
      BY DEF Positive
    <3> DEFINE y == L - k * t
    <3> HIDE DEF y
    <3>6. Window(v * Power(2, p) + 0, y + p, t) = Window(v, y, t)
      BY <1>2, <2>2, <3>1, <3>4, <3>5, WindowHigh DEF y
    <3>7. v * Power(2, p) + 0 = v * Power(2, p)
      BY <2>4
    <3>8. QED
      BY <1>5, <2>6, <3>3, <3>6, <3>7 DEF y
  <2>9. up[h + 1] = Window(v * Power(2, p), ((h + 1) - (h + 1)) * t, t)
    <3>1. ((h + 1) - (h + 1)) * t = 0
      BY <1>7 DEF Positive
    <3>2. QED
      BY <2>3, <2>6, <3>1
  <2>10. \A k \in 1..h + 1 : up[k] = Window(v * Power(2, p), ((h + 1) - k) * t, t)
    <3> TAKE k \in 1..h + 1
    <3>1. CASE k = h + 1
      BY <2>9, <3>1
    <3>2. CASE k # h + 1
      <4>1. k \in 1..h
        BY <1>7, <3>2
      <4>2. QED
        BY <2>8, <4>1
    <3>3. QED
      BY <3>1, <3>2
  <2>11. Says(up, v, n, w, t, p)
    <3> DEFINE l == Len(up)
    <3>1. l = h + 1
      BY <2>6
    <3> HIDE DEF l
    <3>2. \A k \in 1..l : up[k] = Window(v * Power(2, p), (l - k) * t, t)
      <4> TAKE k \in 1..l
      <4>1. k \in 1..h + 1
        BY <3>1
      <4>2. up[k] = Window(v * Power(2, p), ((h + 1) - k) * t, t)
        BY <2>10, <4>1, Zenon
      <4>3. QED
        BY <3>1, <4>2, Zenon
    <3>3. p \in 0..t-1 /\ up \in Seq(Nat) /\ L + p = l * t
      BY <2>2, <2>6, <2>7, <3>1
    <3>4. QED
      BY <3>2, <3>3, Zenon DEF Says, L, l
  <2>12. QED
    BY <2>2, <2>11 DEF up, v, n
<1>11. r = 0 \/ r > 0
  BY <1>7
<1>12. QED
  BY <1>9, <1>10, <1>11, Zenon

LEMMA UnpaddedIs ==
  ASSUME NEW w \in Positive, NEW t \in Positive, NEW data, Values(data, w),
         NEW f, Joins(f, data, w)
  PROVE  LET n == Len(data)
             v == f[n]
             r == (n * w) % t
             s == ConvertBits(data, w, t, FALSE)
         IN  IF r < w /\ v % Power(2, r) = 0 THEN HasGroups(s, v, n * w, t) ELSE s = Nil
<1> DEFINE n == Len(data)
           v == f[n]
           L == n * w
           r == L % t
           st == Regrouped(data, w, t)
           s == ConvertBits(data, w, t, FALSE)
<1>1. Kept(st, v, n, w, t)
  BY RegroupedIs
<1>2. n \in Nat /\ v \in Nat
  <2>1. n \in Nat
    BY DEF Values
  <2>2. QED
    BY <2>1 DEF Joins
<1>3. ~ \E i \in DOMAIN data : data[i] >= Power(2, w)
  <2>1. Power(2, w) \in Positive
    BY PowerTwo DEF Positive
  <2>2. QED
    BY <2>1 DEF Values, Positive
<1>4. s = IF st.bits >= w \/ Rest(st, t) # 0 THEN Nil ELSE st.out
  BY <1>3 DEF ConvertBits
<1> HIDE DEF n, v, st, s
<1>5. /\ st.bits = r /\ st.acc = v % Power(2, w + t - 1)
      /\ HasGroups(st.out, v, L, t)
  BY <1>1 DEF Kept
<1>6. L \in Nat
  BY <1>2 DEF Positive
<1>7. r \in 0..t-1
  <2> HIDE DEF L
  <2>1. QED
    BY <1>6, DivFacts
<1> HIDE DEF L
<1> HIDE DEF r
<1> DEFINE y == v % Power(2, r)
           p == Power(2, t - r)
<1>8. Rest(st, t) = y * p
  BY <1>2, <1>5, <1>7, RestIs
<1>9. p \in Positive /\ y \in Nat
  <2>1. t - r \in Nat /\ r \in Nat
    BY <1>7 DEF Positive
  <2> DEFINE q == Power(2, r)
  <2>2. p \in Positive /\ q \in Positive
    BY <2>1, PowerTwo
  <2> HIDE DEF q, p
  <2>3. v % q \in Nat
    BY <1>2, <2>2, DivFacts DEF Positive
  <2>4. QED
    BY <2>2, <2>3 DEF q
<1> HIDE DEF y, p
<1>10. y * p = 0 <=> y = 0
  BY <1>9 DEF Positive
<1>11. st.bits >= w <=> ~ (r < w)
  BY <1>5, <1>7 DEF Positive
<1>12. IF r < w /\ y = 0 THEN HasGroups(s, v, L, t) ELSE s = Nil
  BY <1>4, <1>5, <1>8, <1>10, <1>11
<1>13. QED
  BY <1>12 DEF y, r, L, v, n, s

\* V is v moved up by p bits.
Moved(V, v, p) == \A x \in Nat, t \in Nat : Window(V, x + p, t) = Window(v, x, t)

\* A number of n values moved up by p bits stays within the bits it has then.
LEMMA MovedUp ==
  ASSUME NEW v \in Nat, NEW l \in Nat, NEW p \in Nat, v < Power(2, l)
  PROVE  /\ v * Power(2, p) \in Nat /\ v * Power(2, p) < Power(2, l + p)
         /\ (v * Power(2, p)) % Power(2, p) = 0
         /\ Moved(v * Power(2, p), v, p)
<1> DEFINE P == Power(2, p)
           E == Power(2, l)
           V == v * P
<1>1. P \in Positive /\ E \in Positive /\ Power(2, l + p) = E * P
  BY PowerTwo, PowerTwoAdds
<1>2. v < E
  OBVIOUS
<1>3. 0 \in 0..P-1
  BY <1>1 DEF Positive
<1>4. V = v * P
  OBVIOUS
<1>5. V \in Nat
  <2> HIDE DEF P, V
  <2>1. QED
    BY <1>1, <1>4 DEF Positive
<1>6. Moved(V, v, p)
  <2> SUFFICES ASSUME NEW x \in Nat, NEW t \in Nat PROVE Window(V, x + p, t) = Window(v, x, t)
    BY DEF Moved
  <2>1. Window(v * Power(2, p) + 0, x + p, t) = Window(v, x, t)
    BY <1>3, WindowHigh
  <2>2. v * Power(2, p) + 0 = V
    BY <1>5
  <2>3. QED
    BY <2>1, <2>2
<1> HIDE DEF P, E, V
<1>7. V < E * P
  <2> DEFINE d == E - v - 1
  <2>1. d \in Nat /\ E = v + 1 + d
    BY <1>1, <1>2 DEF Positive
  <2> HIDE DEF d
  <2>2. (v + 1 + d) * P = v * P + P + d * P /\ d * P \in Nat /\ v * P \in Nat
    BY <1>1, <2>1 DEF Positive
  <2>3. QED
    BY <1>1, <1>4, <2>1, <2>2 DEF Positive
<1>8. V % P = 0
  <2>1. V = P * v + 0
    BY <1>1, <1>4 DEF Positive
  <2>2. QED
    BY <1>1, <1>3, <1>5, <2>1, Divided, Zenon
<1>9. QED
  BY <1>1, <1>5, <1>6, <1>7, <1>8 DEF V, P, E

LEMMA IsPrefixOf ==
  ASSUME NEW S, NEW a \in Seq(S), NEW b \in Seq(S), Len(a) <= Len(b),
         \A j \in 1..Len(a) : a[j] = b[j]
  PROVE  IsPrefix(a, b)
<1>1. SubSeq(a, 1, Len(a)) = SubSeq(b, 1, Len(a))
  OBVIOUS
<1>2. QED
  BY <1>1 DEF IsPrefix

\* Bytes are read back from the groups that were made of them with padding.
LEMMA PaddedReadBack ==
  ASSUME NEW w \in Positive, NEW t \in Positive, t < w, NEW data, Values(data, w)
  PROVE  LET up == ConvertBits(data, w, t, TRUE)
         IN  /\ IsPrefix(Bits(data, w), Bits(up, t))
             /\ Len(up) * t - Len(data) * w \in 0..t-1
             /\ ConvertBits(up, t, w, FALSE) = data
<1> DEFINE n == Len(data)
           up == ConvertBits(data, w, t, TRUE)
           q == Len(up)
<1>1. data \in Seq(Nat) /\ n \in Nat /\ w \in Nat /\ t \in Nat
  BY DEF Values, Positive
<1>2. PICK f : Joins(f, data, w)
  BY <1>1, JoinExists
<1> DEFINE v == f[n]
<1>3. PICK p \in Nat : Says(up, v, n, w, t, p)
  BY <1>2, PaddedIs
<1>4. v \in Nat /\ v < Power(2, n * w) /\ \A k \in 1..n : data[k] = Window(v, (n - k) * w, w)
  BY <1>2, JoinedDigits
<1> DEFINE V == v * Power(2, p)
<1>5. /\ p \in 0..t-1 /\ up \in Seq(Nat) /\ q \in Nat /\ n * w + p = q * t
      /\ \A k \in 1..q : up[k] = Window(V, (q - k) * t, t)
  <2>1. /\ p \in 0..t-1 /\ up \in Seq(Nat) /\ n * w + p = q * t
        /\ \A k \in 1..q : up[k] = Window(V, (q - k) * t, t)
    BY <1>3, Zenon DEF Says
  <2>2. \A z \in Seq(Nat) : Len(z) \in Nat
    OBVIOUS
  <2>3. QED
    BY <2>1, <2>2, Zenon
<1> HIDE DEF n, up, v
<1>6. n * w \in Nat /\ q * t \in Nat
  BY <1>1, <1>5
<1>7. /\ V \in Nat /\ V < Power(2, q * t) /\ V % Power(2, p) = 0
      /\ Moved(V, v, p)
  <2>1. /\ V \in Nat /\ V < Power(2, n * w + p) /\ V % Power(2, p) = 0
        /\ Moved(V, v, p)
    BY <1>3, <1>4, <1>6, MovedUp, Zenon
  <2>2. QED
    BY <1>5, <2>1
<1> HIDE DEF V, q
<1>8. Values(up, t)
  <2>1. ASSUME NEW k \in 1..q PROVE up[k] \in 0..Power(2, t)-1
    <3>1. (q - k) * t \in Nat
      <4>1. q - k \in Nat
        BY <1>5
      <4>2. QED
        BY <1>1, <4>1
    <3> DEFINE x == (q - k) * t
    <3>2. x \in Nat /\ up[k] = Window(V, x, t)
      BY <1>5, <3>1
    <3> HIDE DEF x
    <3>3. QED
      BY <1>1, <1>7, <3>2, WindowType
  <2>2. QED
    BY <1>5, <2>1 DEF Values, q
<1>9. PICK g : Joins(g, up, t)
  BY <1>1, <1>5, JoinExists
<1>10. g[q] = V
  BY <1>5, <1>7, <1>9, JoinedBack DEF q
<1>11. (q * t) % w = p /\ (q * t) \div w = n
  <2> DEFINE h == q * t
  <2>1. h \in Nat /\ h = w * n + p /\ p \in 0..w-1
    BY <1>1, <1>5, <1>6 DEF Positive
  <2> HIDE DEF h
  <2>2. h \div w = n /\ h % w = p
    BY <1>1, <2>1, Divided
  <2>3. QED
    BY <2>2 DEF h
<1> DEFINE s == ConvertBits(up, t, w, FALSE)
<1>12. HasGroups(s, V, q * t, w)
  <2>1. LET r == (q * t) % w
        IN  IF r < t /\ g[q] % Power(2, r) = 0 THEN HasGroups(s, g[q], q * t, w) ELSE s = Nil
    BY <1>8, <1>9, UnpaddedIs, Zenon DEF q
  <2>2. p < t
    BY <1>1, <1>5
  <2>3. QED
    BY <1>7, <1>10, <1>11, <2>1, <2>2
<1> HIDE DEF s
<1>13. s \in Seq(Nat) /\ Len(s) = n /\ \A k \in 1..n : s[k] = Window(V, q * t - k * w, w)
  BY <1>11, <1>12 DEF HasGroups
<1>14. ASSUME NEW k \in 1..n PROVE s[k] = data[k]
  <2> DEFINE x == (n - k) * w
  <2>1. n - k \in Nat /\ k \in Nat
    BY <1>1
  <2>2. x \in Nat /\ x = n * w - k * w /\ k * w \in Nat
    BY <1>1, <2>1
  <2>3. q * t - k * w = x + p
    BY <1>5, <1>6, <2>2
  <2>4. data[k] = Window(v, x, w)
    BY <1>4
  <2> HIDE DEF x
  <2>5. Window(V, x + p, w) = Window(v, x, w)
    BY <1>1, <1>7, <2>2 DEF Moved
  <2>6. QED
    BY <1>13, <2>3, <2>4, <2>5
<1>15. s = data
  BY <1>1, <1>13, <1>14, SeqEqual DEF n
<1>16. IsPrefix(Bits(data, w), Bits(up, t))
  <2> DEFINE a == Bits(data, w)
             b == Bits(up, t)
  <2>1. a \in Seq(0..1) /\ Len(a) = n * w /\ \A j \in 1..n * w : a[j] = Window(v, n * w - j, 1)
    <3>1. GroupsOf(data, v, n, w)
      BY <1>4, Zenon DEF GroupsOf, n
    <3>2. BitsOf(Bits(data, w), v, n * w)
      BY <1>1, <1>4, <3>1, BitsAre, Zenon
    <3>3. QED
      BY <3>2, Zenon DEF BitsOf
  <2>2. b \in Seq(0..1) /\ Len(b) = q * t /\ \A j \in 1..q * t : b[j] = Window(V, q * t - j, 1)
    <3>1. GroupsOf(up, V, q, t)
      BY <1>5, Zenon DEF GroupsOf, q
    <3>2. BitsOf(Bits(up, t), V, q * t)
      BY <1>5, <1>7, <3>1, BitsAre, Zenon
    <3>3. QED
      BY <3>2, Zenon DEF BitsOf
  <2> HIDE DEF a, b
  <2>3. n * w <= q * t /\ p \in Nat
    BY <1>5, <1>6
  <2>4. ASSUME NEW j \in 1..n * w PROVE a[j] = b[j]
    <3> DEFINE x == n * w - j
    <3>1. x \in Nat /\ q * t - j = x + p /\ j \in 1..q * t
      BY <1>5, <1>6, <2>3
    <3>2. a[j] = Window(v, x, 1)
      BY <2>1
    <3> HIDE DEF x
    <3>3. b[j] = Window(V, x + p, 1)
      BY <2>2, <3>1
    <3>4. Window(V, x + p, 1) = Window(v, x, 1)
      BY <1>7, <3>1 DEF Moved
    <3>5. QED
      BY <3>2, <3>3, <3>4
  <2>5. IsPrefix(a, b)
    BY <2>1, <2>2, <2>3, <2>4, IsPrefixOf
  <2>6. QED
    BY <2>5 DEF a, b
<1>17. q * t - n * w \in 0..t-1
  BY <1>1, <1>5, <1>6
<1>18. QED
  BY <1>15, <1>16, <1>17 DEF s, q, up, n

\* Without padding only what padding would have made is accepted.
LEMMA UnpaddedReadBack ==
  ASSUME NEW w \in Positive, NEW t \in Positive, t < w, NEW data \in Seq(Nat),
         ConvertBits(data, t, w, FALSE) # Nil
  PROVE  ConvertBits(ConvertBits(data, t, w, FALSE), w, t, TRUE) = data
<1> DEFINE n == Len(data)
           down == ConvertBits(data, t, w, FALSE)
           up == ConvertBits(down, w, t, TRUE)
<1>1. n \in Nat /\ w \in Nat /\ t \in Nat /\ t > 0
  BY DEF Positive
<1>2. Values(data, t)
  <2>1. ~ \E i \in DOMAIN data : data[i] >= Power(2, t)
    BY DEF ConvertBits
  <2>2. Power(2, t) \in Positive
    BY <1>1, PowerTwo
  <2>3. QED
    BY <2>1, <2>2 DEF Values, Positive
<1>3. PICK f : Joins(f, data, t)
  BY <1>1, JoinExists
<1> DEFINE v == f[n]
           r == (n * t) % w
           q == (n * t) \div w
<1>4. v \in Nat /\ v < Power(2, n * t) /\ \A k \in 1..n : data[k] = Window(v, (n - k) * t, t)
  BY <1>2, <1>3, JoinedDigits
<1>5. r < t /\ v % Power(2, r) = 0 /\ HasGroups(down, v, n * t, w)
  <2>1. IF r < t /\ v % Power(2, r) = 0 THEN HasGroups(down, v, n * t, w) ELSE down = Nil
    BY <1>2, <1>3, UnpaddedIs, Zenon
  <2>2. QED
    BY <2>1
<1>6. n * t \in Nat /\ q \in Nat /\ r \in Nat /\ n * t = w * q + r
  <2> DEFINE h == n * t
  <2>1. h \in Nat
    BY <1>1
  <2> HIDE DEF h
  <2>2. h \div w \in Nat /\ h % w \in 0..w-1 /\ h = w * (h \div w) + (h % w)
    BY <2>1, DivFacts
  <2>3. QED
    BY <1>1, <2>1, <2>2 DEF h
<1>7. down \in Seq(Nat) /\ Len(down) = q /\ \A k \in 1..q : down[k] = Window(v, n * t - k * w, w)
  BY <1>5, Zenon DEF HasGroups
<1> HIDE DEF n, v, down, up, q, r
<1> DEFINE R == Power(2, r)
           x == v \div R
           E == Power(2, q * w)
<1>8. q * w \in Nat /\ q * w + r = n * t
  BY <1>1, <1>6
<1>9. R \in Positive /\ E \in Positive /\ Power(2, n * t) = E * R
  BY <1>6, <1>8, PowerTwo, PowerTwoAdds
<1>10. x \in Nat /\ v = x * R /\ x < E
  <2>1. v % R = 0
    BY <1>5
  <2>2. v < E * R
    BY <1>4, <1>9
  <2> HIDE DEF R, E
  <2>3. x \in Nat /\ v = R * x + (v % R)
    BY <1>4, <1>9, DivFacts
  <2> HIDE DEF x
  <2>4. v = x * R
    BY <1>9, <2>1, <2>3 DEF Positive
  <2>5. x < E
    <3> SUFFICES ASSUME E <= x PROVE FALSE
      BY <1>9, <2>3 DEF Positive
    <3> DEFINE d == x - E
    <3>1. d \in Nat /\ x = E + d
      BY <1>9, <2>3 DEF Positive
    <3> HIDE DEF d
    <3>2. (E + d) * R = E * R + d * R /\ d * R \in Nat /\ E * R \in Nat
      BY <1>9, <3>1 DEF Positive
    <3>3. QED
      BY <2>2, <2>4, <3>1, <3>2
  <2>6. QED
    BY <2>3, <2>4, <2>5
<1>11. x < Power(2, q * w) /\ v = x * Power(2, r)
  BY <1>10
<1> HIDE DEF x, R, E
<1>12. Moved(v, x, r)
  <2>1. Moved(x * Power(2, r), x, r)
    BY <1>6, <1>8, <1>10, <1>11, MovedUp, Zenon
  <2>2. QED
    BY <1>11, <2>1
<1>13. \A k \in 1..q : down[k] = Window(x, (q - k) * w, w) /\ (q - k) * w \in Nat
  <2> TAKE k \in 1..q
  <2> DEFINE y == (q - k) * w
  <2>1. q - k \in Nat /\ k \in Nat
    BY <1>6
  <2>2. y \in Nat /\ y = q * w - k * w /\ k * w \in Nat
    BY <1>1, <1>6, <2>1
  <2>3. n * t - k * w = y + r
    BY <1>6, <1>8, <2>2
  <2> HIDE DEF y
  <2>4. Window(v, y + r, w) = Window(x, y, w)
    BY <1>1, <1>12, <2>2 DEF Moved
  <2>5. down[k] = Window(v, y + r, w)
    BY <1>7, <2>3
  <2>6. QED
    BY <2>2, <2>4, <2>5 DEF y
<1>14. Values(down, w)
  <2>1. ASSUME NEW k \in 1..q PROVE down[k] \in 0..Power(2, w)-1
    <3> DEFINE y == (q - k) * w
    <3>1. y \in Nat /\ down[k] = Window(x, y, w)
      BY <1>13
    <3> HIDE DEF y
    <3>2. QED
      BY <1>1, <1>10, <3>1, WindowType
  <2>2. QED
    BY <1>7, <2>1 DEF Values
<1>15. PICK g : Joins(g, down, w)
  BY <1>1, <1>7, JoinExists
<1>16. g[q] = x
  BY <1>6, <1>7, <1>10, <1>11, <1>13, <1>15, JoinedBack
<1>17. PICK p \in Nat : Says(up, x, q, w, t, p)
  <2>1. \E p \in Nat : Says(up, g[q], q, w, t, p)
    BY <1>7, <1>14, <1>15, PaddedIs, Zenon DEF up
  <2>2. QED
    BY <1>16, <2>1
<1> DEFINE m == Len(up)
           V == x * Power(2, p)
<1>18. /\ p \in 0..t-1 /\ up \in Seq(Nat) /\ q * w + p = m * t
       /\ \A k \in 1..m : up[k] = Window(V, (m - k) * t, t)
  BY <1>17, Zenon DEF Says
<1>19. m \in Nat
  <2>1. \A z \in Seq(Nat) : Len(z) \in Nat
    OBVIOUS
  <2>2. QED
    BY <1>18, <2>1, Zenon
<1> HIDE DEF m
<1>20. m = n /\ p = r
  <2>1. m * t + r = n * t + p /\ r < t /\ p < t /\ p \in Nat
    BY <1>1, <1>5, <1>6, <1>8, <1>17, <1>18, <1>19
  <2>2. ~ (m < n)
    <3> SUFFICES ASSUME m < n PROVE FALSE
      OBVIOUS
    <3> DEFINE d == n - m - 1
    <3>1. d \in Nat /\ n = m + 1 + d
      BY <1>1, <1>19
    <3> HIDE DEF d
    <3>2. (m + 1 + d) * t = m * t + t + d * t /\ d * t \in Nat /\ m * t \in Nat
      BY <1>1, <1>19, <3>1
    <3>3. n * t = m * t + t + d * t
      BY <3>1, <3>2
    <3>4. QED
      BY <1>1, <1>6, <2>1, <3>2, <3>3
  <2>3. ~ (n < m)
    <3> SUFFICES ASSUME n < m PROVE FALSE
      OBVIOUS
    <3> DEFINE d == m - n - 1
    <3>1. d \in Nat /\ m = n + 1 + d
      BY <1>1, <1>19
    <3> HIDE DEF d
    <3>2. (n + 1 + d) * t = n * t + t + d * t /\ d * t \in Nat /\ n * t \in Nat
      BY <1>1, <1>19, <3>1
    <3>3. m * t = n * t + t + d * t
      BY <3>1, <3>2
    <3>4. QED
      BY <1>1, <1>6, <2>1, <3>2, <3>3
  <2>4. m = n
    BY <1>1, <1>19, <2>2, <2>3
  <2>5. QED
    BY <1>6, <1>18, <2>1, <2>4
<1>21. ASSUME NEW k \in 1..n PROVE up[k] = data[k]
  <2>1. V = v
    BY <1>11, <1>20
  <2> HIDE DEF V
  <2>2. up[k] = Window(v, (n - k) * t, t)
    BY <1>18, <1>20, <2>1
  <2>3. QED
    BY <1>4, <2>2
<1>22. up = data
  <2>1. Len(up) = Len(data) /\ \A k \in 1..Len(up) : up[k] = data[k]
    BY <1>20, <1>21 DEF m, n
  <2>2. QED
    BY <1>18, <2>1, SeqEqual
<1>23. QED
  BY <1>22 DEF up, down

\* Bytes are read back as they were from groups of fewer bits, and no other groups are
\* read.
LEMMA RegroupedBack ==
  ASSUME Called("convertBits") =>
            call.from \in Positive /\ call.to \in Positive /\ call.to < call.from /\ call.data \in Seq(Nat)
  PROVE  RegroupingKeepsBits
<1> SUFFICES ASSUME Called("convertBits") PROVE RegroupingKeepsBits
  BY DEF RegroupingKeepsBits
<1> DEFINE from == call.from
           to == call.to
           data == call.data
<1>1. from \in Positive /\ to \in Positive /\ to < from /\ data \in Seq(Nat)
  OBVIOUS
<1> HIDE DEF from, to, data
<1>2. ASSUME \A i \in DOMAIN data : data[i] < Power(2, from) PROVE Values(data, from)
  <2>1. Power(2, from) \in Nat
    BY <1>1, PowerTwo DEF Positive
  <2>2. QED
    BY <1>1, <1>2, <2>1 DEF Values
<1>3. (\A i \in DOMAIN data : data[i] < Power(2, from)) =>
          LET up == ConvertBits(data, from, to, TRUE)
          IN  /\ IsPrefix(Bits(data, from), Bits(up, to))
              /\ Len(up) * to - Len(data) * from \in 0..to-1
              /\ ConvertBits(up, to, from, FALSE) = data
  BY <1>1, <1>2, PaddedReadBack, Zenon
<1>4. LET down == ConvertBits(data, to, from, FALSE)
      IN  down # Nil => ConvertBits(down, from, to, TRUE) = data
  BY <1>1, UnpaddedReadBack, Zenon
<1>5. QED
  BY <1>3, <1>4, Zenon DEF RegroupingKeepsBits, from, to, data

\* The calls of the encoders that have a reader of their own.
EncoderCalls ==
    [f : {"BtcVarInt"}, v : 0..U64-1] \cup [f : {"PushBytes"}, v : Nat]
        \cup [f : {"compact-u16"}, bytes : Seq(CompactBytes)]
        \cup { c \in [f : {"convertBits"}, from : Positive, to : Positive, data : Seq(Nat)] : c.to < c.from }

\* Counts, pushes, compact-u16 and regrouped bits are read back from their own bytes, and
\* of all strings of bytes compact-u16 accepts for a number, and convertBits for a list of
\* bytes, only the one it writes (btcvarint.go:14, pushbytes.go:30, solanatx.go:871, 886,
\* cardano.go:209); for every radix, every length and every width of the groups.
THEOREM EncodersReadBack == call \in EncoderCalls /\ [][Answered]_call => []EncodingsReadBack
<1>1. call \in EncoderCalls => EncodingsReadBack
  <2> SUFFICES ASSUME call \in EncoderCalls PROVE EncodingsReadBack
    OBVIOUS
  <2>1. VarIntsReadBack
    <3>1. Called("BtcVarInt") => call.v \in 0..U64-1
      BY DEF Called, EncoderCalls
    <3>2. QED
      BY <3>1, VarIntReadBack, LongFormsRead, Zenon DEF VarIntsReadBack
  <2>2. PushesReadBack
    <3> SUFFICES ASSUME Called("PushBytes") /\ call.v < U32 PROVE PushesReadBack
      BY DEF PushesReadBack
    <3>1. call.v \in 0..U32-1
      BY Radixes DEF Called, EncoderCalls
    <3>2. QED
      BY <3>1, PushReadBack, Zenon DEF PushesReadBack
  <2>3. CompactIsCanonical
    <3>1. Called("compact-u16") => call.bytes \in Seq(CompactBytes)
      BY DEF Called, EncoderCalls
    <3>2. QED
      BY <3>1, CompactDecoded, CompactEncoded, Zenon DEF CompactIsCanonical
  <2>4. RegroupingKeepsBits
    <3>1. Called("convertBits") =>
            call.from \in Positive /\ call.to \in Positive /\ call.to < call.from /\ call.data \in Seq(Nat)
      BY DEF Called, EncoderCalls
    <3>2. QED
      BY <3>1, RegroupedBack
  <2>5. QED
    BY <2>1, <2>2, <2>3, <2>4, Zenon DEF EncodingsReadBack
<1>2. call \in EncoderCalls /\ [Answered]_call => (call \in EncoderCalls)'
  BY DEF Answered
<1>3. QED
  BY <1>1, <1>2, PTL

-----------------------------------------------------------------------------
(***************************************************************************)
(* Derivation of Cardano keys.                                             *)
(***************************************************************************)
LEMMA KeyConstants ==
  /\ Digit \in Nat /\ Digit > 1 /\ Width \in Nat /\ Trunc \in Nat /\ Trunc > 0 /\ Trunc <= Width
  /\ Cofactor \in Nat /\ Cofactor > 0 /\ Order \in Nat /\ Order > 0 /\ Hardened \in Nat /\ Hardened > 0
  BY CardanoKeysAssumption

LEMMA PlaceFacts ==
  /\ Place[0] = 1 /\ \A n \in 1..Width : Place[n] = Digit * Place[n - 1]
  /\ \A n \in 0..Width : Place[n] \in Nat /\ Place[n] > 0
<1> DEFINE Runs(f) == f = [n \in 0..Width |-> IF n = 0 THEN 1 ELSE Digit * f[n - 1]]
           P == Nat \ {0}
           step == [n \in 1..Width |-> [x \in P |-> Digit * x]]
<1>1. Width \in Nat /\ Digit \in Nat /\ Digit > 1
  BY KeyConstants
<1>2. step \in [1..Width -> [P -> P]] /\ 1 \in P
  BY <1>1
<1> HIDE DEF step, P
<1>3. PICK f : Iterates(f, P, 1, step, Width)
  BY <1>1, <1>2, Iterated
<1>4. f \in [0..Width -> P] /\ f[0] = 1 /\ \A n \in 1..Width : f[n] = Digit * f[n - 1]
  <2>1. f \in [0..Width -> P] /\ f[0] = 1 /\ \A n \in 1..Width : f[n] = step[n][f[n - 1]]
    BY <1>3 DEF Iterates
  <2>2. ASSUME NEW n \in 1..Width PROVE f[n] = Digit * f[n - 1]
    <3>1. f[n - 1] \in P
      BY <1>1, <2>1
    <3>2. QED
      BY <2>1, <3>1 DEF step
  <2>3. QED
    BY <2>1, <2>2
<1>5. Runs(f)
  BY <1>1, <1>4
<1>6. Runs(Place)
  <2>1. Place = CHOOSE g : Runs(g)
    BY Zenon DEF Place
  <2> HIDE DEF Runs
  <2>2. QED
    BY <1>5, <2>1
<1>7. Place[0] = 1 /\ \A n \in 1..Width : Place[n] = Digit * Place[n - 1]
  BY <1>1, <1>6
<1> DEFINE S == { n \in Nat : n \in 0..Width => Place[n] \in Nat /\ Place[n] > 0 }
<1>8. 0 \in S
  BY <1>7
<1>9. ASSUME NEW n \in Nat, n \in S PROVE n + 1 \in S
  <2>1. CASE n + 1 \in 0..Width
    <3>1. n \in 0..Width /\ n + 1 \in 1..Width /\ (n + 1) - 1 = n
      BY <1>1, <2>1
    <3>2. Place[n] \in Nat /\ Place[n] > 0 /\ Place[n + 1] = Digit * Place[n]
      BY <1>7, <1>9, <3>1
    <3>3. QED
      BY <1>1, <3>2
  <2>2. QED
    BY <2>1
<1>10. \A n \in Nat : n \in S
  <2> HIDE DEF S
  <2>1. QED
    BY <1>8, <1>9, Induct
<1>11. QED
  BY <1>7, <1>10

\* What k digits are worth, for all k up to n.
Worth(v, x, n) ==
    /\ v \in [0..n -> Nat] /\ v[0] = 0
    /\ \A k \in 1..n : v[k] = v[k - 1] + x[k] * Place[k - 1]

LEMMA ValueRuns ==
  ASSUME NEW n \in 0..Width, NEW x, \A k \in 1..n : x[k] \in Nat
  PROVE  \E v : Worth(v, x, n) /\ Value(x, n) = v[n]
<1> DEFINE Runs(f) == f = [k \in 0..n |-> IF k = 0 THEN 0 ELSE f[k - 1] + x[k] * Place[k - 1]]
           step == [k \in 1..n |-> [a \in Nat |-> a + x[k] * Place[k - 1]]]
<1>1. n \in Nat /\ \A k \in 1..n : x[k] * Place[k - 1] \in Nat
  <2>1. n \in Nat /\ \A k \in 1..n : k - 1 \in 0..Width
    BY KeyConstants
  <2>2. \A a, b \in Nat : a * b \in Nat
    OBVIOUS
  <2>3. QED
    BY <2>1, <2>2, PlaceFacts
<1>2. step \in [1..n -> [Nat -> Nat]]
  BY <1>1
<1> HIDE DEF step
<1>3. PICK f : Iterates(f, Nat, 0, step, n)
  BY <1>1, <1>2, Iterated
<1>4. f \in [0..n -> Nat] /\ f[0] = 0 /\ \A k \in 1..n : f[k] = f[k - 1] + x[k] * Place[k - 1]
  <2>1. f \in [0..n -> Nat] /\ f[0] = 0 /\ \A k \in 1..n : f[k] = step[k][f[k - 1]]
    BY <1>3 DEF Iterates
  <2>2. ASSUME NEW k \in 1..n PROVE f[k] = f[k - 1] + x[k] * Place[k - 1]
    <3>1. f[k - 1] \in Nat
      BY <1>1, <2>1
    <3>2. QED
      BY <2>1, <3>1 DEF step
  <2>3. QED
    BY <2>1, <2>2
<1>5. Runs(f)
  BY <1>1, <1>4
<1> DEFINE r == CHOOSE r : Runs(r)
<1>6. Runs(r)
  <2> HIDE DEF Runs
  <2>1. QED
    BY <1>5
<1>7. Value(x, n) = r[n]
  BY Zenon DEF Value
<1> HIDE DEF r
<1>8. r[0] = 0 /\ \A k \in 1..n : r[k] = r[k - 1] + x[k] * Place[k - 1]
  BY <1>1, <1>6
<1> DEFINE S == { k \in Nat : k \in 0..n => r[k] \in Nat }
<1>9. 0 \in S
  BY <1>8
<1>10. ASSUME NEW k \in Nat, k \in S PROVE k + 1 \in S
  <2>1. CASE k + 1 \in 0..n
    <3>1. k \in 0..n /\ k + 1 \in 1..n /\ (k + 1) - 1 = k
      BY <1>1, <2>1
    <3>2. r[k] \in Nat /\ r[k + 1] = r[k] + x[k + 1] * Place[k] /\ x[k + 1] * Place[k] \in Nat
      BY <1>1, <1>8, <1>10, <3>1
    <3>3. QED
      BY <3>2
  <2>2. QED
    BY <2>1
<1>11. \A k \in Nat : k \in S
  <2> HIDE DEF S
  <2>1. QED
    BY <1>9, <1>10, Induct
<1>12. r \in [0..n -> Nat]
  <2>1. r = [k \in 0..n |-> r[k]]
    BY <1>6
  <2>2. \A k \in 0..n : r[k] \in Nat
    BY <1>1, <1>11
  <2>3. QED
    BY <2>1, <2>2
<1>13. QED
  BY <1>7, <1>8, <1>12 DEF Worth

\* What the first digits make does not depend on how many are looked at.
LEMMA SameWorth ==
  ASSUME NEW n \in 0..Width, NEW x, NEW v, NEW w, Worth(v, x, n), Worth(w, x, n)
  PROVE  v[n] = w[n]
<1> DEFINE S == { k \in Nat : k \in 0..n => v[k] = w[k] }
<1>1. n \in Nat
  OBVIOUS
<1>2. /\ v[0] = 0 /\ w[0] = 0
      /\ \A k \in 1..n : v[k] = v[k - 1] + x[k] * Place[k - 1] /\ w[k] = w[k - 1] + x[k] * Place[k - 1]
  BY DEF Worth
<1>3. 0 \in S
  BY <1>2
<1>4. ASSUME NEW k \in Nat, k \in S PROVE k + 1 \in S
  <2>1. CASE k + 1 \in 0..n
    <3>1. k \in 0..n /\ k + 1 \in 1..n /\ (k + 1) - 1 = k
      BY <1>1, <2>1
    <3>2. v[k] = w[k] /\ v[k + 1] = v[k] + x[k + 1] * Place[k] /\ w[k + 1] = w[k] + x[k + 1] * Place[k]
      BY <1>2, <1>4, <3>1
    <3>3. QED
      BY <3>2
  <2>2. QED
    BY <2>1
<1>5. \A k \in Nat : k \in S
  <2> HIDE DEF S
  <2>1. QED
    BY <1>3, <1>4, Induct
<1>6. n \in S
  BY <1>1, <1>5
<1>7. QED
  BY <1>1, <1>6

\* The carries, as c of Carried.
Carries(c, terms) ==
    /\ c \in [0..Width -> Nat] /\ c[0] = 0
    /\ \A k \in 1..Width : c[k] = (terms[k] + c[k - 1]) \div Digit

LEMMA CarriedRuns ==
  ASSUME NEW terms \in [1..Width -> Nat]
  PROVE  /\ Carried(terms) \in Digits
         /\ \E c : Carries(c, terms) /\ \A k \in 1..Width : Carried(terms)[k] = (terms[k] + c[k - 1]) % Digit
<1> DEFINE L == Len(terms)
           Runs(f) == f = [k \in 0..L |-> IF k = 0 THEN 0 ELSE (terms[k] + f[k - 1]) \div Digit]
           step == [k \in 1..L |-> [a \in Nat |-> (terms[k] + a) \div Digit]]
<1>1. L \in Nat /\ L = Width /\ Digit \in Nat /\ Digit > 1 /\ \A k \in 1..L : terms[k] \in Nat
  <2>1. Len(terms) = Width
    BY KeyConstants, LenProperties
  <2>2. QED
    BY <2>1, KeyConstants
<1>2. \A a \in Nat : a \div Digit \in Nat /\ (a % Digit) \in 0..Digit-1
  <2>1. \A d \in Nat : d > 1 => \A a \in Nat : a \div d \in Nat /\ (a % d) \in 0..d-1
    OBVIOUS
  <2>2. QED
    BY <1>1, <2>1
<1>3. step \in [1..L -> [Nat -> Nat]]
  <2>1. ASSUME NEW k \in 1..L, NEW a \in Nat PROVE (terms[k] + a) \div Digit \in Nat
    <3> DEFINE m == terms[k] + a
    <3>1. m \in Nat
      BY <1>1
    <3> HIDE DEF m
    <3>2. m \div Digit \in Nat
      BY <1>2, <3>1
    <3>3. QED
      BY <3>2 DEF m
  <2>2. QED
    BY <2>1
<1> HIDE DEF step
<1>4. PICK f : Iterates(f, Nat, 0, step, L)
  BY <1>1, <1>3, Iterated
<1>5. f \in [0..L -> Nat] /\ f[0] = 0 /\ \A k \in 1..L : f[k] = (terms[k] + f[k - 1]) \div Digit
  <2>1. f \in [0..L -> Nat] /\ f[0] = 0 /\ \A k \in 1..L : f[k] = step[k][f[k - 1]]
    BY <1>4 DEF Iterates
  <2>2. ASSUME NEW k \in 1..L PROVE f[k] = (terms[k] + f[k - 1]) \div Digit
    <3>1. f[k - 1] \in Nat
      BY <1>1, <2>1
    <3>2. QED
      BY <2>1, <3>1 DEF step
  <2>3. QED
    BY <2>1, <2>2
<1>6. Runs(f)
  BY <1>1, <1>5
<1> DEFINE r == CHOOSE r : Runs(r)
<1>7. Runs(r)
  <2> HIDE DEF Runs
  <2>1. QED
    BY <1>6
<1>8. Carried(terms) = [k \in 1..L |-> (terms[k] + r[k - 1]) % Digit]
  BY Zenon DEF Carried
<1> HIDE DEF r, L
<1>9. r[0] = 0 /\ \A k \in 1..L : r[k] = (terms[k] + r[k - 1]) \div Digit
  BY <1>1, <1>7
<1> DEFINE S == { k \in Nat : k \in 0..L => r[k] \in Nat }
<1>10. 0 \in S
  BY <1>9
<1>11. ASSUME NEW k \in Nat, k \in S PROVE k + 1 \in S
  <2>1. CASE k + 1 \in 0..L
    <3>1. k \in 0..L /\ k + 1 \in 1..L /\ (k + 1) - 1 = k
      BY <1>1, <2>1
    <3>2. r[k] \in Nat /\ r[k + 1] = (terms[k + 1] + r[k]) \div Digit /\ terms[k + 1] \in Nat
      BY <1>1, <1>9, <1>11, <3>1
    <3> DEFINE m == terms[k + 1] + r[k]
    <3>3. m \in Nat /\ r[k + 1] = m \div Digit
      BY <3>2
    <3> HIDE DEF m
    <3>4. m \div Digit \in Nat
      BY <1>2, <3>3
    <3>5. QED
      BY <3>3, <3>4
  <2>2. QED
    BY <2>1
<1>12. \A k \in Nat : k \in S
  <2> HIDE DEF S
  <2>1. QED
    BY <1>10, <1>11, Induct
<1>13. r \in [0..L -> Nat]
  <2>1. r = [k \in 0..L |-> r[k]]
    BY <1>7
  <2>2. \A k \in 0..L : r[k] \in Nat
    BY <1>1, <1>12
  <2>3. QED
    BY <2>1, <2>2
<1>14. Carries(r, terms)
  BY <1>1, <1>9, <1>13 DEF Carries
<1>15. \A k \in 1..L : ((terms[k] + r[k - 1]) % Digit) \in 0..Digit-1
  <2> TAKE k \in 1..L
  <2>1. k - 1 \in 0..L
    BY <1>1
  <2>2. terms[k] + r[k - 1] \in Nat
    BY <1>1, <1>13, <2>1
  <2>3. QED
    BY <1>2, <2>2
<1>16. Carried(terms) \in Digits
  BY <1>1, <1>8, <1>15 DEF Digits
<1>17. \A k \in 1..L : Carried(terms)[k] = (terms[k] + r[k - 1]) % Digit
  BY <1>8
<1>18. QED
  BY <1>1, <1>14, <1>16, <1>17

LEMMA Remainder ==
  ASSUME NEW n \in Nat \ {0}, NEW q \in Nat, NEW r \in 0..n-1
  PROVE  (r + q * n) % n = r
  OBVIOUS

\* One digit: what it keeps and hands on is what it was given.
LEMMA DigitStep ==
  ASSUME NEW p \in Nat, NEW v \in Nat, NEW c \in Nat, NEW t \in Nat, v < p
  PROVE  LET out  == (t + c) % Digit
             next == (t + c) \div Digit
         IN  /\ (v + out * p) + next * (Digit * p) = (v + c * p) + t * p
             /\ v + out * p < Digit * p
<1> DEFINE out == (t + c) % Digit
           next == (t + c) \div Digit
<1>1. Digit \in Nat /\ Digit > 1
  BY KeyConstants
<1>2. out \in 0..Digit-1 /\ next \in Nat /\ t + c = Digit * next + out
  BY <1>1
<1> HIDE DEF out, next
<1>3. next * (Digit * p) = (Digit * next) * p
  BY <1>1, <1>2
<1>4. out * p + (Digit * next) * p = (out + Digit * next) * p
  BY <1>1, <1>2
<1>5. (out + Digit * next) * p = (t + c) * p
  BY <1>1, <1>2
<1>6. (t + c) * p = t * p + c * p
  OBVIOUS
<1>7. out * p <= (Digit - 1) * p
  BY <1>1, <1>2
<1>8. (Digit - 1) * p = Digit * p - p
  BY <1>1
<1>9. out * p \in Nat /\ c * p \in Nat /\ t * p \in Nat /\ (Digit * next) * p \in Nat /\ Digit * p \in Nat
  BY <1>1, <1>2
<1> DEFINE a == out * p
           b == (Digit * next) * p
           d == c * p
           e == t * p
           f == Digit * p
<1>10. /\ a \in Nat /\ b \in Nat /\ d \in Nat /\ e \in Nat /\ f \in Nat
       /\ a + b = e + d /\ a <= f - p /\ next * (Digit * p) = b
  BY <1>3, <1>4, <1>5, <1>6, <1>7, <1>8, <1>9
<1> HIDE DEF a, b, d, e, f
<1>11. (v + a) + b = (v + d) + e /\ v + a < f
  BY <1>10
<1>12. QED
  BY <1>10, <1>11 DEF a, d, e, f, out, next

\* The digits that Carried keeps make the sum of the terms, modulo the size.
LEMMA CarriedValue ==
  ASSUME NEW terms \in [1..Width -> Nat], NEW s, Worth(s, terms, Width)
  PROVE  Carried(terms) \in Digits /\ Value(Carried(terms), Width) = s[Width] % Size
<1> DEFINE out == Carried(terms)
<1>1. Width \in Nat /\ Digit \in Nat /\ Digit > 1 /\ Width \in 0..Width
  BY KeyConstants
<1>2. out \in Digits
  BY CarriedRuns
<1>3. PICK c : Carries(c, terms) /\ \A k \in 1..Width : out[k] = (terms[k] + c[k - 1]) % Digit
  BY CarriedRuns
<1>4. \A k \in 1..Width : out[k] \in Nat
  BY <1>1, <1>2 DEF Digits
<1> HIDE DEF out
<1>5. PICK v : Worth(v, out, Width) /\ Value(out, Width) = v[Width]
  BY <1>1, <1>4, ValueRuns
<1>6. /\ c \in [0..Width -> Nat] /\ c[0] = 0 /\ \A k \in 1..Width : c[k] = (terms[k] + c[k - 1]) \div Digit
      /\ v \in [0..Width -> Nat] /\ v[0] = 0 /\ \A k \in 1..Width : v[k] = v[k - 1] + out[k] * Place[k - 1]
      /\ s \in [0..Width -> Nat] /\ s[0] = 0 /\ \A k \in 1..Width : s[k] = s[k - 1] + terms[k] * Place[k - 1]
  BY <1>3, <1>5 DEF Carries, Worth
<1> DEFINE S == { k \in Nat : k \in 0..Width => v[k] + c[k] * Place[k] = s[k] /\ v[k] < Place[k] }
<1>7. 0 \in S
  <2>1. 0 * Place[0] = 0 /\ Place[0] = 1
    BY PlaceFacts
  <2>2. QED
    BY <1>6, <2>1
<1>8. ASSUME NEW k \in Nat, k \in S PROVE k + 1 \in S
  <2>1. CASE k + 1 \in 0..Width
    <3> DEFINE p == Place[k]
               t == terms[k + 1]
               d == c[k]
               o == (t + d) % Digit
               e == (t + d) \div Digit
    <3>1. k \in 0..Width /\ k + 1 \in 1..Width /\ (k + 1) - 1 = k
      BY <1>1, <2>1
    <3>2. p \in Nat /\ v[k] \in Nat /\ d \in Nat /\ t \in Nat /\ v[k] < p /\ Place[k + 1] = Digit * p
      BY <1>6, <1>8, <3>1, PlaceFacts
    <3>3. v[k] + d * p = s[k]
      BY <1>8, <3>1
    <3>4. out[k + 1] = o /\ c[k + 1] = e
      BY <1>3, <1>6, <3>1
    <3>5. v[k + 1] = v[k] + o * p /\ s[k + 1] = s[k] + t * p
      BY <1>6, <3>1, <3>4
    <3>6. (v[k] + o * p) + e * (Digit * p) = (v[k] + d * p) + t * p /\ v[k] + o * p < Digit * p
      <4> HIDE DEF p, t, d
      <4>1. QED
        BY <3>2, DigitStep DEF o, e
    <3> HIDE DEF p, t, d, o, e
    <3>7. v[k + 1] + c[k + 1] * Place[k + 1] = s[k + 1] /\ v[k + 1] < Place[k + 1]
      BY <3>2, <3>3, <3>4, <3>5, <3>6, Zenon
    <3>8. QED
      BY <3>7
  <2>2. QED
    BY <2>1
<1>9. Width \in S
  <2> HIDE DEF S
  <2>1. QED
    BY <1>1, <1>7, <1>8, Induct
<1> DEFINE n == Size
           q == c[Width]
           r == v[Width]
<1>10. n \in Nat \ {0} /\ q \in Nat /\ r \in Nat /\ r < n /\ r + q * n = s[Width]
  BY <1>1, <1>6, <1>9, PlaceFacts DEF Size
<1> HIDE DEF n, q, r
<1>11. (r + q * n) % n = r
  BY <1>10, Remainder
<1>12. QED
  BY <1>2, <1>5, <1>10, <1>11 DEF n, r, out

LEMMA ValueType ==
  ASSUME NEW n \in 0..Width, NEW x \in Digits
  PROVE  Value(x, n) \in Nat /\ Value(x, n) < Place[n]
<1>1. Width \in Nat /\ Digit \in Nat /\ Digit > 1 /\ n \in Nat
  BY KeyConstants
<1>2. \A k \in 1..n : x[k] \in 0..Digit-1
  BY <1>1 DEF Digits
<1>3. PICK v : Worth(v, x, n) /\ Value(x, n) = v[n]
  BY <1>1, <1>2, ValueRuns
<1>4. v \in [0..n -> Nat] /\ v[0] = 0 /\ \A k \in 1..n : v[k] = v[k - 1] + x[k] * Place[k - 1]
  BY <1>3 DEF Worth
<1> DEFINE S == { k \in Nat : k \in 0..n => v[k] < Place[k] }
<1>5. 0 \in S
  BY <1>4, PlaceFacts
<1>6. ASSUME NEW k \in Nat, k \in S PROVE k + 1 \in S
  <2>1. CASE k + 1 \in 0..n
    <3> DEFINE p == Place[k]
               d == x[k + 1]
    <3>1. k \in 0..n /\ k + 1 \in 1..n /\ (k + 1) - 1 = k /\ k + 1 \in 1..Width /\ k \in 0..Width
      BY <1>1, <2>1
    <3>2. p \in Nat /\ d \in 0..Digit-1 /\ v[k] \in Nat /\ v[k] < p /\ Place[k + 1] = Digit * p
      BY <1>2, <1>4, <1>6, <3>1, PlaceFacts
    <3>3. v[k + 1] = v[k] + d * p
      BY <1>4, <3>1
    <3> HIDE DEF p, d
    <3>4. d * p <= (Digit - 1) * p /\ (Digit - 1) * p = Digit * p - p /\ d * p \in Nat /\ Digit * p \in Nat
      BY <1>1, <3>2
    <3>5. v[k + 1] < Place[k + 1]
      <4> DEFINE a == d * p
                 b == Digit * p
      <4>1. a \in Nat /\ b \in Nat /\ a <= b - p /\ v[k + 1] = v[k] + a /\ Place[k + 1] = b
        BY <3>2, <3>3, <3>4
      <4> HIDE DEF a, b
      <4>2. QED
        BY <3>2, <4>1
    <3>6. QED
      BY <3>5
  <2>2. QED
    BY <2>1
<1>7. n \in S
  <2> HIDE DEF S
  <2>1. QED
    BY <1>1, <1>5, <1>6, Induct
<1>8. QED
  BY <1>1, <1>3, <1>4, <1>7

LEMMA AddExact ==
  ASSUME NEW x \in Digits, NEW y \in Digits
  PROVE  /\ cardanoAdd256(x, y) \in Digits
         /\ Value(cardanoAdd256(x, y), Width) = (Value(x, Width) + Value(y, Width)) % Size
<1> DEFINE terms == [i \in 1..Width |-> x[i] + y[i]]
<1>1. Width \in Nat /\ Digit \in Nat /\ Width \in 0..Width
  BY KeyConstants
<1>2. \A k \in 1..Width : x[k] \in Nat /\ y[k] \in Nat
  BY <1>1 DEF Digits
<1>3. PICK v : Worth(v, x, Width) /\ Value(x, Width) = v[Width]
  BY <1>1, <1>2, ValueRuns
<1>4. PICK w : Worth(w, y, Width) /\ Value(y, Width) = w[Width]
  BY <1>1, <1>2, ValueRuns
<1>5. /\ v \in [0..Width -> Nat] /\ v[0] = 0 /\ \A k \in 1..Width : v[k] = v[k - 1] + x[k] * Place[k - 1]
      /\ w \in [0..Width -> Nat] /\ w[0] = 0 /\ \A k \in 1..Width : w[k] = w[k - 1] + y[k] * Place[k - 1]
  BY <1>3, <1>4 DEF Worth
<1> DEFINE s == [k \in 0..Width |-> v[k] + w[k]]
<1>6. ASSUME NEW k \in 1..Width PROVE s[k] = s[k - 1] + terms[k] * Place[k - 1]
  <2> DEFINE p == Place[k - 1]
             a == x[k] * p
             b == y[k] * p
  <2>1. k - 1 \in 0..Width /\ k \in 0..Width
    BY <1>1
  <2>2. p \in Nat /\ v[k - 1] \in Nat /\ w[k - 1] \in Nat /\ v[k] = v[k - 1] + a /\ w[k] = w[k - 1] + b
    BY <1>5, <2>1, PlaceFacts
  <2>3. terms[k] * p = (x[k] + y[k]) * p
    OBVIOUS
  <2> HIDE DEF p
  <2>4. (x[k] + y[k]) * p = a + b /\ a \in Nat /\ b \in Nat
    BY <1>2, <2>2
  <2>5. s[k] = v[k] + w[k] /\ s[k - 1] = v[k - 1] + w[k - 1]
    BY <2>1
  <2> HIDE DEF a, b, s, terms
  <2>6. s[k] = s[k - 1] + terms[k] * p
    BY <2>2, <2>3, <2>4, <2>5
  <2>7. QED
    BY <2>6 DEF p
<1>7. terms \in [1..Width -> Nat] /\ s \in [0..Width -> Nat] /\ s[0] = 0 /\ s[Width] = v[Width] + w[Width]
  BY <1>1, <1>2, <1>5, SMTT(30)
<1>8. cardanoAdd256(x, y) = Carried(terms)
  BY Zenon DEF cardanoAdd256
<1> HIDE DEF terms, s
<1>9. Worth(s, terms, Width)
  BY <1>6, <1>7, Zenon DEF Worth
<1>10. Carried(terms) \in Digits /\ Value(Carried(terms), Width) = s[Width] % Size
  BY <1>7, <1>9, CarriedValue
<1>11. QED
  BY <1>3, <1>4, <1>7, <1>8, <1>10, Zenon

\* y has Trunc digits: those behind them are not looked at.
LEMMA TweakExact ==
  ASSUME NEW x \in Digits, NEW y \in Digits
  PROVE  /\ cardanoAdd28Mul8(x, y) \in Digits
         /\ Value(cardanoAdd28Mul8(x, y), Width) = (Value(x, Width) + Cofactor * Value(y, Trunc)) % Size
<1> DEFINE terms == [i \in 1..Width |-> x[i] + (IF i <= Trunc THEN Cofactor * y[i] ELSE 0)]
<1>1. /\ Width \in Nat /\ Digit \in Nat /\ Width \in 0..Width /\ Trunc \in Nat /\ Trunc \in 0..Width /\ Trunc > 0
      /\ Cofactor \in Nat
  BY KeyConstants
<1>2. \A k \in 1..Width : x[k] \in Nat /\ y[k] \in Nat
  BY <1>1 DEF Digits
<1>3. PICK v : Worth(v, x, Width) /\ Value(x, Width) = v[Width]
  BY <1>1, <1>2, ValueRuns
<1>4. PICK w : Worth(w, y, Trunc) /\ Value(y, Trunc) = w[Trunc]
  <2>1. \A k \in 1..Trunc : y[k] \in Nat
    BY <1>1, <1>2
  <2>2. QED
    BY <1>1, <2>1, ValueRuns
<1>5. /\ v \in [0..Width -> Nat] /\ v[0] = 0 /\ \A k \in 1..Width : v[k] = v[k - 1] + x[k] * Place[k - 1]
      /\ w \in [0..Trunc -> Nat] /\ w[0] = 0 /\ \A k \in 1..Trunc : w[k] = w[k - 1] + y[k] * Place[k - 1]
  BY <1>3, <1>4 DEF Worth
<1> DEFINE u == [k \in 0..Width |-> Cofactor * w[IF k <= Trunc THEN k ELSE Trunc]]
           s == [k \in 0..Width |-> v[k] + u[k]]
<1>6. u \in [0..Width -> Nat] /\ u[0] = 0 /\ u[Width] = Cofactor * w[Trunc]
  <2>1. \A k \in 0..Width : (IF k <= Trunc THEN k ELSE Trunc) \in 0..Trunc
    BY <1>1
  <2>2. \A a \in Nat : Cofactor * a \in Nat
    BY <1>1
  <2>3. \A k \in 0..Width : u[k] \in Nat
    BY <1>5, <2>1, <2>2
  <2>4. w[0] = 0 /\ Cofactor * 0 = 0 /\ 0 <= Trunc
    BY <1>1, <1>5
  <2>5. (IF Width <= Trunc THEN Width ELSE Trunc) = Trunc
    BY <1>1
  <2>6. QED
    BY <1>1, <2>3, <2>4, <2>5
<1>7. ASSUME NEW k \in 1..Width PROVE u[k] = u[k - 1] + (IF k <= Trunc THEN Cofactor * y[k] ELSE 0) * Place[k - 1]
  <2> DEFINE p == Place[k - 1]
  <2>1. k - 1 \in 0..Width /\ k \in 0..Width /\ p \in Nat
    BY <1>1, PlaceFacts
  <2>2. CASE k <= Trunc
    <3>1. k \in 1..Trunc /\ k - 1 \in 0..Trunc /\ k - 1 <= Trunc
      BY <1>1, <2>2
    <3>2. u[k] = Cofactor * w[k] /\ u[k - 1] = Cofactor * w[k - 1]
      BY <2>1, <2>2, <3>1
    <3>3. w[k] = w[k - 1] + y[k] * p /\ w[k - 1] \in Nat /\ y[k] \in Nat
      BY <1>2, <1>5, <3>1
    <3> HIDE DEF p, u
    <3>4. Cofactor * (w[k - 1] + y[k] * p) = Cofactor * w[k - 1] + (Cofactor * y[k]) * p
      BY <1>1, <2>1, <3>3
    <3>5. u[k] = u[k - 1] + (Cofactor * y[k]) * p
      BY <3>2, <3>3, <3>4, Zenon
    <3>6. QED
      BY <2>2, <3>5 DEF p
  <2>3. CASE ~ (k <= Trunc)
    <3>1. (IF k - 1 <= Trunc THEN k - 1 ELSE Trunc) = Trunc
      BY <1>1, <2>3
    <3>2. u[k] = Cofactor * w[Trunc] /\ u[k - 1] = Cofactor * w[Trunc]
      BY <2>1, <2>3, <3>1
    <3>3. 0 * p = 0 /\ u[k - 1] \in Nat
      BY <1>6, <2>1
    <3> HIDE DEF u, p
    <3>4. u[k] = u[k - 1] + 0 * p
      BY <3>2, <3>3
    <3>5. QED
      BY <2>3, <3>4 DEF p
  <2>4. QED
    BY <2>2, <2>3
<1> HIDE DEF u
<1>8. ASSUME NEW k \in 1..Width PROVE s[k] = s[k - 1] + terms[k] * Place[k - 1]
  <2> DEFINE p == Place[k - 1]
             z == IF k <= Trunc THEN Cofactor * y[k] ELSE 0
             a == x[k] * p
             b == z * p
  <2>1. k - 1 \in 0..Width /\ k \in 0..Width
    BY <1>1
  <2>2. /\ p \in Nat /\ v[k - 1] \in Nat /\ u[k - 1] \in Nat /\ v[k] = v[k - 1] + a /\ u[k] = u[k - 1] + b
        /\ x[k] \in Nat
    BY <1>2, <1>5, <1>6, <1>7, <2>1, PlaceFacts
  <2>3. terms[k] = x[k] + z /\ z \in Nat
    BY <1>1, <1>2
  <2> HIDE DEF p, z
  <2>4. (x[k] + z) * p = a + b /\ a \in Nat /\ b \in Nat
    BY <2>2, <2>3
  <2>5. s[k] = v[k] + u[k] /\ s[k - 1] = v[k - 1] + u[k - 1]
    BY <2>1
  <2> HIDE DEF a, b, s, terms
  <2>6. terms[k] * p = a + b
    BY <2>3, <2>4
  <2>7. s[k] = s[k - 1] + terms[k] * p
    BY <2>2, <2>4, <2>5, <2>6
  <2>8. QED
    BY <2>7 DEF p
<1>9. terms \in [1..Width -> Nat] /\ s \in [0..Width -> Nat] /\ s[0] = 0 /\ s[Width] = v[Width] + Cofactor * w[Trunc]
  <2>1. \A k \in 1..Width : x[k] + (IF k <= Trunc THEN Cofactor * y[k] ELSE 0) \in Nat
    <3> TAKE k \in 1..Width
    <3>1. Cofactor * y[k] \in Nat /\ x[k] \in Nat
      BY <1>1, <1>2
    <3>2. QED
      BY <3>1
  <2>2. terms \in [1..Width -> Nat]
    BY <2>1
  <2>3. s \in [0..Width -> Nat] /\ s[0] = 0 /\ s[Width] = v[Width] + u[Width]
    <3>1. \A k \in 0..Width : v[k] \in Nat /\ u[k] \in Nat
      BY <1>5, <1>6
    <3>2. v[0] = 0 /\ u[0] = 0 /\ Width \in 0..Width /\ 0 \in 0..Width
      BY <1>1, <1>5, <1>6
    <3> HIDE DEF u
    <3>3. QED
      BY <3>1, <3>2
  <2>4. QED
    BY <1>6, <2>2, <2>3
<1>10. cardanoAdd28Mul8(x, y) = Carried(terms)
  BY Zenon DEF cardanoAdd28Mul8
<1> HIDE DEF terms, s
<1>11. Worth(s, terms, Width)
  BY <1>8, <1>9, Zenon DEF Worth
<1>12. Carried(terms) \in Digits /\ Value(Carried(terms), Width) = s[Width] % Size
  BY <1>9, <1>11, CarriedValue
<1>13. QED
  BY <1>3, <1>4, <1>9, <1>10, <1>12, Zenon

LEMMA ZeroValue ==
  Zero \in Digits /\ Value(Zero, Width) = 0
<1>1. Width \in Nat /\ Digit \in Nat /\ Digit > 1 /\ Width \in 0..Width
  BY KeyConstants
<1>2. Zero \in Digits /\ \A k \in 1..Width : Zero[k] = 0
  BY <1>1 DEF Zero, Digits
<1>3. PICK v : Worth(v, Zero, Width) /\ Value(Zero, Width) = v[Width]
  BY <1>1, <1>2, ValueRuns
<1> DEFINE none == [k \in 0..Width |-> 0]
<1>4. Worth(none, Zero, Width)
  <2>1. \A k \in 1..Width : 0 * Place[k - 1] = 0
    <3> TAKE k \in 1..Width
    <3>1. k - 1 \in 0..Width
      BY <1>1
    <3>2. Place[k - 1] \in Nat
      BY <3>1, PlaceFacts
    <3>3. QED
      BY <3>2
  <2>2. \A k \in 1..Width : none[k] = none[k - 1] + Zero[k] * Place[k - 1]
    BY <1>1, <1>2, <2>1
  <2>3. QED
    BY <1>1, <2>2 DEF Worth
<1>5. none[Width] = 0
  BY <1>1
<1> HIDE DEF none
<1>6. v[Width] = none[Width]
  BY <1>1, <1>3, <1>4, SameWorth
<1>7. QED
  BY <1>2, <1>3, <1>5, <1>6

\* The keys that are derived from, and the public halves of them.
Keys == { k \in [scalar : Digits, nonce : Digits, pub : Points, chain : Chains] :
            k.pub = cardanoScalarBasePub(k.scalar) }
Halves == [pub : Points, chain : Chains]

Tweak == Cofactor * Place[Trunc]

LEMMA TweakFacts ==
  Tweak \in Nat /\ Size \in Nat \ {0}
<1>1. Cofactor \in Nat /\ Trunc \in 0..Width /\ Width \in 0..Width
  BY KeyConstants
<1>2. Place[Trunc] \in Nat /\ Place[Width] \in Nat /\ Place[Width] > 0
  BY <1>1, PlaceFacts
<1>3. QED
  BY <1>1, <1>2 DEF Tweak, Size

LEMMA PointType ==
  ASSUME NEW x \in Digits
  PROVE  cardanoScalarBasePub(x) \in Points
<1>1. Width \in 0..Width /\ Order \in Nat /\ Order > 0
  BY KeyConstants
<1>2. Value(x, Width) \in Nat
  BY <1>1, ValueType
<1> DEFINE m == Value(x, Width)
<1>3. m \in Nat /\ cardanoScalarBasePub(x) = m % Order
  BY <1>2 DEF cardanoScalarBasePub
<1> HIDE DEF m
<1>4. QED
  BY <1>1, <1>3 DEF Points

\* Neither a key nor half of one is an error.
LEMMA KeysAreKeys ==
  /\ NoKey \notin Chains /\ NoKey \notin Keys /\ NoKey \notin Halves
  /\ \A s, n \in Digits : NewCardanoExtendedKey(s, n, NoKey) # NoKey
<1>1. NoKey \notin Chains \cup [scalar : Digits, nonce : Digits, pub : Points, chain : Chains \cup {NoKey}]
                      \cup [pub : Points, chain : Chains]
  BY CardanoKeysAssumption
<1>2. NoKey \notin [scalar : Digits, nonce : Digits, pub : Points, chain : Chains \cup {NoKey}]
  BY <1>1
<1>3. NoKey \notin Keys
  BY <1>2 DEF Keys
<1>4. \A s, n \in Digits :
        NewCardanoExtendedKey(s, n, NoKey) \in [scalar : Digits, nonce : Digits, pub : Points, chain : Chains \cup {NoKey}]
  BY PointType DEF NewCardanoExtendedKey
<1>5. QED
  BY <1>1, <1>2, <1>3, <1>4, Zenon DEF Halves

\* The points of two scalars are added as the scalars are.
LEMMA PointsAdd ==
  ASSUME NEW a \in Nat, NEW b \in Nat
  PROVE  ((a % Order) + (b % Order)) % Order = (a + b) % Order
<1>1. Order \in Nat \ {0}
  BY KeyConstants
<1>2. (a % Order) \in Nat
  BY <1>1
<1>3. (b + a) % Order = (b + (a % Order)) % Order
  BY <1>1, ModMultiple
<1> DEFINE r == a % Order
<1>4. r \in Nat
  BY <1>2
<1> HIDE DEF r
<1>5. (r + b) % Order = (r + (b % Order)) % Order
  BY <1>1, <1>4, ModMultiple
<1>6. (b + r) % Order = (r + b) % Order /\ (b + a) % Order = (a + b) % Order
  BY <1>4
<1>7. QED
  BY <1>3, <1>5, <1>6 DEF r

LEMMA ChildIsKey ==
  ASSUME NEW ek \in Keys, NEW index \in Indices
  PROVE  /\ Hmac(ek.chain, Material(ek, index), index) \in [zl : Digits, zr : Digits, chain : Chains]
         /\ DeriveChild(ek, index) \in Keys
<1> DEFINE m == Material(ek, index)
           h == Hmac(ek.chain, m, index)
<1>1. ek.scalar \in Digits /\ ek.nonce \in Digits /\ ek.pub \in Points /\ ek.chain \in Chains
  BY DEF Keys
<1>2. m \in (Digits \X Digits) \cup { <<p>> : p \in Points }
  BY <1>1 DEF Material
<1> HIDE DEF m
<1>3. h \in [zl : Digits, zr : Digits, chain : Chains]
  BY <1>1, <1>2, CardanoKeysAssumption
<1> HIDE DEF h
<1>4. h.zl \in Digits /\ h.zr \in Digits /\ h.chain \in Chains
  BY <1>3
<1>5. cardanoAdd28Mul8(ek.scalar, h.zl) \in Digits /\ cardanoAdd256(ek.nonce, h.zr) \in Digits
  BY <1>1, <1>4, TweakExact, AddExact
<1>6. ek # NoKey /\ ek.chain # NoKey
  BY <1>1, KeysAreKeys
<1>7. DeriveChild(ek, index) = NewCardanoExtendedKey(cardanoAdd28Mul8(ek.scalar, h.zl), cardanoAdd256(ek.nonce, h.zr), h.chain)
  BY <1>6, Zenon DEF DeriveChild, h, m
<1>8. \A s, n \in Digits, c \in Chains : NewCardanoExtendedKey(s, n, c) \in Keys
  BY PointType DEF NewCardanoExtendedKey, Keys
<1>9. QED
  BY <1>3, <1>4, <1>5, <1>7, <1>8 DEF h, m

\* One step: with room the scalar does not wrap around, and the owner and the wallet
\* with the public half agree about a soft child.
LEMMA ChildAgrees ==
  ASSUME NEW ek \in Keys, NEW index \in Indices, Value(ek.scalar, Width) + Tweak <= Size
  PROVE  LET child == DeriveChild(ek, index)
         IN  /\ Value(child.scalar, Width) <= Value(ek.scalar, Width) + Tweak
             /\ index < Hardened =>
                  DerivePublicChild([pub |-> ek.pub, chain |-> ek.chain], index)
                      = [pub |-> child.pub, chain |-> child.chain]
<1> DEFINE m == Material(ek, index)
           h == Hmac(ek.chain, m, index)
           x == ek.scalar
           z == Cofactor * Value(h.zl, Trunc)
           v == Value(x, Width)
           sum == cardanoAdd28Mul8(x, h.zl)
           tweak == cardanoAdd28Mul8(Zero, h.zl)
           child == DeriveChild(ek, index)
<1>1. x \in Digits /\ ek.pub = cardanoScalarBasePub(x) /\ ek.chain \in Chains
  BY DEF Keys
<1>2. h \in [zl : Digits, zr : Digits, chain : Chains] /\ h.zl \in Digits
  BY ChildIsKey
<1>3. child = NewCardanoExtendedKey(sum, cardanoAdd256(ek.nonce, h.zr), h.chain)
  <2>1. ek # NoKey /\ ek.chain # NoKey
    BY <1>1, KeysAreKeys
  <2>2. QED
    BY <2>1, Zenon DEF DeriveChild
<1>4. child.scalar = sum /\ child.pub = cardanoScalarBasePub(sum) /\ child.chain = h.chain
  BY <1>3 DEF NewCardanoExtendedKey
<1>5. Width \in 0..Width /\ Trunc \in 0..Width /\ Cofactor \in Nat /\ Cofactor > 0
  BY KeyConstants
<1>6. v \in Nat /\ z \in Nat /\ z < Tweak /\ v + Tweak <= Size /\ Size \in Nat /\ Tweak \in Nat
  <2> DEFINE a == Value(h.zl, Trunc)
             b == Place[Trunc]
  <2>1. v \in Nat /\ a \in Nat /\ a < b
    BY <1>1, <1>2, <1>5, ValueType
  <2>2. b \in Nat
    BY <1>5, PlaceFacts
  <2> HIDE DEF a, b
  <2>3. Cofactor * a \in Nat /\ Cofactor * a < Cofactor * b
    BY <1>5, <2>1, <2>2
  <2>4. QED
    BY <2>1, <2>3, TweakFacts DEF Tweak, a, b
<1>7. Value(sum, Width) = (v + z) % Size /\ Value(tweak, Width) = (0 + z) % Size
  BY <1>1, <1>2, TweakExact, ZeroValue
<1> HIDE DEF h, z, v, sum, tweak, x, child
<1>8. (v + z) % Size = v + z /\ (0 + z) % Size = z
  BY <1>6
<1>9. Value(sum, Width) = v + z /\ Value(tweak, Width) = z
  BY <1>7, <1>8
<1>10. v + z <= v + Tweak
  BY <1>6
<1>11. ASSUME index < Hardened
       PROVE  DerivePublicChild([pub |-> ek.pub, chain |-> ek.chain], index)
                  = [pub |-> child.pub, chain |-> child.chain]
  <2> DEFINE xp == [pub |-> ek.pub, chain |-> ek.chain]
  <2>1. xp.pub = ek.pub /\ xp.chain = ek.chain
    OBVIOUS
  <2>2. xp # NoKey /\ ~ (index >= Hardened)
    <3>1. xp \in Halves
      BY <1>1 DEF Keys, Halves
    <3>2. index \in Nat
      BY KeyConstants DEF Indices
    <3>3. QED
      BY <1>11, <3>1, <3>2, KeysAreKeys, KeyConstants
  <2>3. m = <<ek.pub>>
    BY <2>2, Zenon DEF Material
  <2> HIDE DEF xp, m
  <2>4. h = Hmac(xp.chain, <<xp.pub>>, index)
    BY <2>1, <2>3, Zenon DEF h
  <2>5. DerivePublicChild(xp, index) = [pub |-> cardanoPointAddBase(xp.pub, tweak), chain |-> h.chain]
    BY <2>2, <2>4, Zenon DEF DerivePublicChild, tweak
  <2>6. cardanoPointAddBase(xp.pub, tweak) = ((v % Order) + (z % Order)) % Order
    BY <1>1, <1>9, <2>1 DEF cardanoPointAddBase, cardanoScalarBasePub, v
  <2>7. ((v % Order) + (z % Order)) % Order = (v + z) % Order
    BY <1>6, PointsAdd
  <2>8. child.pub = (v + z) % Order
    BY <1>4, <1>9 DEF cardanoScalarBasePub
  <2>9. QED
    BY <1>4, <2>5, <2>6, <2>7, <2>8 DEF xp
<1>12. QED
  BY <1>4, <1>9, <1>10, <1>11 DEF v, x, child

\* A path is derived step by step, and f holds the keys along it.
Runs(f, S, a, path) ==
    /\ f \in [0..Len(path) -> S] /\ f[0] = a
    /\ \A k \in 1..Len(path) : f[k] = DeriveChild(f[k - 1], path[k])
    /\ DerivePath(a, path) = f[Len(path)]

PublicRuns(f, S, a, path) ==
    /\ f \in [0..Len(path) -> S] /\ f[0] = a
    /\ \A k \in 1..Len(path) : f[k] = DerivePublicChild(f[k - 1], path[k])
    /\ DerivePublicPath(a, path) = f[Len(path)]

\* No step leads out of S.
Closed(S)       == \A k \in S, index \in Indices : DeriveChild(k, index) \in S
PublicClosed(S) == \A k \in S, index \in Indices : DerivePublicChild(k, index) \in S

LEMMA PathRuns ==
  ASSUME NEW S, NEW a \in S, NEW path \in Seq(Indices), Closed(S)
  PROVE  \E f : Runs(f, S, a, path)
<1> DEFINE L == Len(path)
           IsPath(f) == f = [k \in 0..L |-> IF k = 0 THEN a ELSE DeriveChild(f[k - 1], path[k])]
           step == [k \in 1..L |-> [x \in S |-> DeriveChild(x, path[k])]]
<1>1. L \in Nat /\ \A k \in 1..L : path[k] \in Indices
  OBVIOUS
<1>2. step \in [1..L -> [S -> S]]
  BY <1>1 DEF Closed
<1> HIDE DEF step
<1>3. PICK f : Iterates(f, S, a, step, L)
  BY <1>1, <1>2, Iterated
<1>4. f \in [0..L -> S] /\ f[0] = a /\ \A k \in 1..L : f[k] = DeriveChild(f[k - 1], path[k])
  <2>1. f \in [0..L -> S] /\ f[0] = a /\ \A k \in 1..L : f[k] = step[k][f[k - 1]]
    BY <1>3 DEF Iterates
  <2>2. ASSUME NEW k \in 1..L PROVE f[k] = DeriveChild(f[k - 1], path[k])
    <3>1. f[k - 1] \in S
      BY <1>1, <2>1
    <3>2. QED
      BY <2>1, <3>1 DEF step
  <2>3. QED
    BY <2>1, <2>2
<1>5. IsPath(f)
  BY <1>1, <1>4
<1> DEFINE r == CHOOSE r : IsPath(r)
<1>6. IsPath(r)
  <2> HIDE DEF IsPath
  <2>1. QED
    BY <1>5
<1>7. DerivePath(a, path) = r[L]
  BY Zenon DEF DerivePath
<1> HIDE DEF r, L
<1>8. r[0] = a /\ \A k \in 1..L : r[k] = DeriveChild(r[k - 1], path[k])
  BY <1>1, <1>6
<1> DEFINE Q == { k \in Nat : k \in 0..L => r[k] \in S }
<1>9. 0 \in Q
  BY <1>8
<1>10. ASSUME NEW k \in Nat, k \in Q PROVE k + 1 \in Q
  <2>1. CASE k + 1 \in 0..L
    <3>1. k \in 0..L /\ k + 1 \in 1..L /\ (k + 1) - 1 = k
      BY <1>1, <2>1
    <3>2. r[k] \in S /\ r[k + 1] = DeriveChild(r[k], path[k + 1]) /\ path[k + 1] \in Indices
      BY <1>1, <1>8, <1>10, <3>1
    <3>3. QED
      BY <3>2 DEF Closed
  <2>2. QED
    BY <2>1
<1>11. \A k \in Nat : k \in Q
  <2> HIDE DEF Q
  <2>1. QED
    BY <1>9, <1>10, Induct
<1>12. r \in [0..L -> S]
  <2>1. r = [k \in 0..L |-> r[k]]
    BY <1>6
  <2>2. \A k \in 0..L : r[k] \in S
    BY <1>1, <1>11
  <2>3. QED
    BY <2>1, <2>2
<1>13. QED
  BY <1>7, <1>8, <1>12, Zenon DEF L, Runs

LEMMA PublicPathRuns ==
  ASSUME NEW S, NEW a \in S, NEW path \in Seq(Indices), PublicClosed(S)
  PROVE  \E f : PublicRuns(f, S, a, path)
<1> DEFINE L == Len(path)
           IsPath(f) == f = [k \in 0..L |-> IF k = 0 THEN a ELSE DerivePublicChild(f[k - 1], path[k])]
           step == [k \in 1..L |-> [x \in S |-> DerivePublicChild(x, path[k])]]
<1>1. L \in Nat /\ \A k \in 1..L : path[k] \in Indices
  OBVIOUS
<1>2. step \in [1..L -> [S -> S]]
  BY <1>1 DEF PublicClosed
<1> HIDE DEF step
<1>3. PICK f : Iterates(f, S, a, step, L)
  BY <1>1, <1>2, Iterated
<1>4. f \in [0..L -> S] /\ f[0] = a /\ \A k \in 1..L : f[k] = DerivePublicChild(f[k - 1], path[k])
  <2>1. f \in [0..L -> S] /\ f[0] = a /\ \A k \in 1..L : f[k] = step[k][f[k - 1]]
    BY <1>3 DEF Iterates
  <2>2. ASSUME NEW k \in 1..L PROVE f[k] = DerivePublicChild(f[k - 1], path[k])
    <3>1. f[k - 1] \in S
      BY <1>1, <2>1
    <3>2. QED
      BY <2>1, <3>1 DEF step
  <2>3. QED
    BY <2>1, <2>2
<1>5. IsPath(f)
  BY <1>1, <1>4
<1> DEFINE r == CHOOSE r : IsPath(r)
<1>6. IsPath(r)
  <2> HIDE DEF IsPath
  <2>1. QED
    BY <1>5
<1>7. DerivePublicPath(a, path) = r[L]
  BY Zenon DEF DerivePublicPath
<1> HIDE DEF r, L
<1>8. r[0] = a /\ \A k \in 1..L : r[k] = DerivePublicChild(r[k - 1], path[k])
  BY <1>1, <1>6
<1> DEFINE Q == { k \in Nat : k \in 0..L => r[k] \in S }
<1>9. 0 \in Q
  BY <1>8
<1>10. ASSUME NEW k \in Nat, k \in Q PROVE k + 1 \in Q
  <2>1. CASE k + 1 \in 0..L
    <3>1. k \in 0..L /\ k + 1 \in 1..L /\ (k + 1) - 1 = k
      BY <1>1, <2>1
    <3>2. r[k] \in S /\ r[k + 1] = DerivePublicChild(r[k], path[k + 1]) /\ path[k + 1] \in Indices
      BY <1>1, <1>8, <1>10, <3>1
    <3>3. QED
      BY <3>2 DEF PublicClosed
  <2>2. QED
    BY <2>1
<1>11. \A k \in Nat : k \in Q
  <2> HIDE DEF Q
  <2>1. QED
    BY <1>9, <1>10, Induct
<1>12. r \in [0..L -> S]
  <2>1. r = [k \in 0..L |-> r[k]]
    BY <1>6
  <2>2. \A k \in 0..L : r[k] \in S
    BY <1>1, <1>11
  <2>3. QED
    BY <2>1, <2>2
<1>13. QED
  BY <1>7, <1>8, <1>12, Zenon DEF L, PublicRuns

\* No step leads out of the public halves and errors.
LEMMA HalfSteps ==
  ASSUME NEW xp \in Halves \cup {NoKey}, NEW index \in Indices
  PROVE  DerivePublicChild(xp, index) \in Halves \cup {NoKey}
<1>1. CASE xp = NoKey \/ index >= Hardened
  BY <1>1, Zenon DEF DerivePublicChild
<1>2. CASE ~ (xp = NoKey \/ index >= Hardened)
  <2> DEFINE h == Hmac(xp.chain, <<xp.pub>>, index)
             tweak == cardanoAdd28Mul8(Zero, h.zl)
  <2>1. xp.pub \in Points /\ xp.chain \in Chains
    BY <1>2 DEF Halves
  <2>2. <<xp.pub>> \in (Digits \X Digits) \cup { <<p>> : p \in Points }
    BY <2>1
  <2>3. h \in [zl : Digits, zr : Digits, chain : Chains]
    BY <2>1, <2>2, CardanoKeysAssumption
  <2>4. h.zl \in Digits /\ h.chain \in Chains
    BY <2>3
  <2> HIDE DEF h
  <2>5. tweak \in Digits
    BY <2>4, TweakExact, ZeroValue
  <2> HIDE DEF tweak
  <2>6. cardanoPointAddBase(xp.pub, tweak) \in Points
    <3> DEFINE a == xp.pub + cardanoScalarBasePub(tweak)
    <3>1. a \in Nat /\ cardanoPointAddBase(xp.pub, tweak) = a % Order
      BY <2>1, <2>5, PointType, KeyConstants DEF Points, cardanoPointAddBase
    <3> HIDE DEF a
    <3>2. QED
      BY <3>1, KeyConstants DEF Points
  <2>7. DerivePublicChild(xp, index) = [pub |-> cardanoPointAddBase(xp.pub, tweak), chain |-> h.chain]
    BY <1>2, Zenon DEF DerivePublicChild, h, tweak
  <2>8. QED
    BY <2>4, <2>6, <2>7 DEF Halves
<1>3. QED
  BY <1>1, <1>2

\* The owner and the wallet along a path.
LEMMA PathAgrees ==
  ASSUME NEW ek \in Keys, NEW path \in Seq(Indices), Room(ek, path)
  PROVE  /\ DerivePath(ek, path) \in Keys
         /\ DerivePublicPath(ExtendedPublicKey(ek), path) =
              IF \A k \in DOMAIN path : path[k] < Hardened
              THEN ExtendedPublicKey(DerivePath(ek, path)) ELSE NoKey
<1> DEFINE L == Len(path)
           half(k) == [pub |-> k.pub, chain |-> k.chain]
<1>1. L \in Nat /\ DOMAIN path = 1..L /\ (\A k \in 1..L : path[k] \in Indices) /\ Tweak \in Nat /\ Size \in Nat
  BY TweakFacts
<1>2. PICK f : /\ f \in [0..L -> Keys] /\ f[0] = ek
               /\ \A k \in 1..L : f[k] = DeriveChild(f[k - 1], path[k])
               /\ DerivePath(ek, path) = f[L]
  <2>1. Closed(Keys)
    BY ChildIsKey DEF Closed
  <2>2. \E f : Runs(f, Keys, ek, path)
    BY <2>1, PathRuns
  <2>3. QED
    BY <2>2, Zenon DEF Runs, L
<1>3. \A k \in Keys : ExtendedPublicKey(k) = half(k) /\ half(k) \in Halves
  <2> TAKE k \in Keys
  <2>1. k # NoKey /\ k.chain # NoKey /\ k.pub \in Points /\ k.chain \in Chains
    BY KeysAreKeys DEF Keys
  <2>2. ExtendedPublicKey(k) = half(k)
    BY <2>1, Zenon DEF ExtendedPublicKey
  <2>3. half(k) \in Halves
    BY <2>1 DEF Halves
  <2>4. QED
    BY <2>2, <2>3, Zenon
<1>4. PICK g : /\ g \in [0..L -> Halves \cup {NoKey}] /\ g[0] = half(ek)
               /\ \A k \in 1..L : g[k] = DerivePublicChild(g[k - 1], path[k])
               /\ DerivePublicPath(half(ek), path) = g[L]
  <2> DEFINE H == Halves \cup {NoKey}
             xp == half(ek)
  <2>1. xp \in H
    BY <1>3
  <2>2. PublicClosed(H)
    BY HalfSteps DEF PublicClosed
  <2> HIDE DEF H, xp, half
  <2>3. \E g : PublicRuns(g, H, xp, path)
    BY <2>1, <2>2, PublicPathRuns
  <2>4. QED
    BY <2>3, Zenon DEF PublicRuns, H, xp, L
<1> HIDE DEF half, L
<1> DEFINE Soft(k) == \A n \in 1..k : path[n] < Hardened
           Agree(k) == /\ Value(f[k].scalar, Width) + (L - k) * Tweak <= Size
                       /\ g[k] = IF Soft(k) THEN half(f[k]) ELSE NoKey
           S == { k \in Nat : k \in 0..L => Agree(k) }
<1>5. 0 \in S
  <2>1. Soft(0)
    OBVIOUS
  <2>2. Value(ek.scalar, Width) + L * Tweak <= Size
    <3> DEFINE a == Place[Trunc]
    <3>1. L * Cofactor * a = L * (Cofactor * a)
      <4>1. a \in Nat /\ Cofactor \in Nat
        BY KeyConstants, PlaceFacts
      <4> HIDE DEF a
      <4>2. QED
        BY <1>1, <4>1
    <3>2. Value(ek.scalar, Width) + L * Cofactor * a <= Size
      BY Zenon DEF Room, L
    <3> HIDE DEF a
    <3>3. QED
      BY <3>1, <3>2 DEF Tweak, a
  <2>3. L - 0 = L /\ 0 \in Nat
    BY <1>1
  <2>4. Agree(0)
    BY <1>2, <1>4, <2>1, <2>2, <2>3
  <2> HIDE DEF Agree
  <2>5. QED
    BY <2>4
<1>6. ASSUME NEW k \in Nat, k \in S PROVE k + 1 \in S
  <2>1. CASE k + 1 \in 0..L
    <3> DEFINE cur == f[k]
               index == path[k + 1]
               child == DeriveChild(cur, index)
               v == Value(cur.scalar, Width)
               w == Value(child.scalar, Width)
    <3>1. k \in 0..L /\ k + 1 \in 1..L /\ (k + 1) - 1 = k /\ L - k >= 1
      BY <1>1, <2>1
    <3>2. cur \in Keys /\ index \in Indices /\ f[k + 1] = child /\ g[k + 1] = DerivePublicChild(g[k], index)
      BY <1>1, <1>2, <1>4, <3>1
    <3>3. v + (L - k) * Tweak <= Size /\ g[k] = IF Soft(k) THEN half(cur) ELSE NoKey
      BY <1>6, <3>1
    <3>4. v \in Nat /\ w \in Nat
      <4>1. child \in Keys /\ Width \in 0..Width
        BY <3>2, ChildIsKey, KeyConstants
      <4>2. cur.scalar \in Digits /\ child.scalar \in Digits
        BY <3>2, <4>1 DEF Keys
      <4>3. QED
        BY <4>1, <4>2, ValueType
    <3>5. v + Tweak <= Size
      <4>1. (L - k) * Tweak >= Tweak
        BY <1>1, <3>1
      <4> DEFINE a == (L - k) * Tweak
      <4>2. a \in Int
        BY <1>1, <3>1
      <4> HIDE DEF a, v
      <4>3. v + a <= Size /\ a >= Tweak
        BY <3>3, <4>1 DEF a
      <4>4. QED
        BY <1>1, <3>4, <4>2, <4>3
    <3>6. w <= v + Tweak /\ (index < Hardened => DerivePublicChild(half(cur), index) = half(child))
      <4>1. /\ w <= v + Tweak
            /\ index < Hardened => DerivePublicChild([pub |-> cur.pub, chain |-> cur.chain], index)
                                     = [pub |-> child.pub, chain |-> child.chain]
        BY <3>2, <3>5, ChildAgrees
      <4>2. QED
        BY <4>1, Zenon DEF half
    <3> HIDE DEF cur, index, child, v, w
    <3>7. w + (L - (k + 1)) * Tweak <= Size
      <4>1. (L - k) * Tweak = (L - (k + 1)) * Tweak + Tweak
        BY <1>1, <3>1
      <4> DEFINE b == (L - (k + 1)) * Tweak
      <4>2. b \in Int
        BY <1>1, <3>1
      <4> HIDE DEF b
      <4>3. (L - k) * Tweak = b + Tweak
        BY <4>1 DEF b
      <4>4. v + (b + Tweak) <= Size
        BY <3>3, <4>3
      <4>5. w + b <= Size
        BY <1>1, <3>4, <3>6, <4>2, <4>4
      <4>6. QED
        BY <4>5 DEF b
    <3>8. g[k + 1] = IF Soft(k + 1) THEN half(child) ELSE NoKey
      <4>1. Soft(k + 1) <=> Soft(k) /\ index < Hardened
        BY <3>1 DEF index
      <4>2. index \in Nat /\ Hardened \in Nat
        BY <3>2, KeyConstants DEF Indices
      <4> HIDE DEF Soft
      <4>3. CASE Soft(k) /\ index < Hardened
        BY <3>2, <3>3, <3>6, <4>1, <4>3, Zenon
      <4>4. CASE ~ Soft(k)
        <5>1. g[k + 1] = DerivePublicChild(NoKey, index)
          BY <3>2, <3>3, <4>4, Zenon
        <5>2. g[k + 1] = NoKey
          BY <5>1, Zenon DEF DerivePublicChild
        <5>3. QED
          BY <4>1, <4>4, <5>2, Zenon
      <4>5. CASE ~ (index < Hardened)
        <5>1. index >= Hardened
          BY <4>2, <4>5
        <5>2. g[k + 1] = NoKey
          BY <3>2, <5>1, Zenon DEF DerivePublicChild
        <5>3. QED
          BY <4>1, <4>5, <5>2, Zenon
      <4>6. QED
        BY <4>3, <4>4, <4>5, Zenon
    <3>9. f[k + 1] = child
      BY <3>2
    <3>10. Agree(k + 1)
      BY <3>7, <3>8, <3>9, Zenon DEF w
    <3> HIDE DEF Agree
    <3>11. QED
      BY <3>10
  <2>2. QED
    BY <2>1
<1>7. Agree(L)
  <2> HIDE DEF Agree
  <2>1. L \in S
    <3> HIDE DEF S
    <3>1. QED
      BY <1>1, <1>5, <1>6, Induct
  <2>2. QED
    BY <1>1, <2>1
<1>8. f[L] \in Keys
  BY <1>1, <1>2
<1>9. g[L] = IF Soft(L) THEN half(f[L]) ELSE NoKey
  BY <1>7, Zenon
<1>10. ExtendedPublicKey(ek) = half(ek) /\ ExtendedPublicKey(f[L]) = half(f[L])
  BY <1>3, <1>8
<1>11. QED
  BY <1>1, <1>2, <1>4, <1>8, <1>9, <1>10, Zenon

\* From nothing a wallet derives nothing.
LEMMA NothingPublic ==
  ASSUME NEW path \in Seq(Indices)
  PROVE  DerivePublicPath(NoKey, path) = NoKey
<1> DEFINE H == {NoKey}
           xp == NoKey
<1>1. xp \in H
  OBVIOUS
<1>2. PublicClosed(H)
  BY Zenon DEF DerivePublicChild, PublicClosed
<1> HIDE DEF H, xp
<1>3. PICK g : PublicRuns(g, H, xp, path)
  BY <1>1, <1>2, PublicPathRuns
<1>4. g[Len(path)] \in H
  BY <1>3 DEF PublicRuns
<1>5. QED
  BY <1>3, <1>4 DEF H, xp, PublicRuns

\* Nothing is derived from a key without a chain code, and there is no public half.
LEMMA KeylessGivesNothing ==
  ASSUME NEW ek, ek # NoKey, ek.chain = NoKey, NEW path \in Seq(Indices)
  PROVE  /\ DerivePath(ek, path) \in {ek, NoKey}
         /\ DerivePath(ek, path) = NoKey <=> path # <<>>
         /\ ExtendedPublicKey(ek) = NoKey
<1> DEFINE L == Len(path)
           T == {ek, NoKey}
<1>1. L \in Nat /\ (path # <<>> <=> L # 0)
  BY EmptySeq
<1>2. ExtendedPublicKey(ek) = NoKey
  BY Zenon DEF ExtendedPublicKey
<1>3. \A k \in T, index \in Indices : DeriveChild(k, index) = NoKey
  BY Zenon DEF DeriveChild
<1>4. ek \in T /\ NoKey \in T
  OBVIOUS
<1>5. Closed(T)
  BY <1>3, <1>4, Zenon DEF Closed
<1> HIDE DEF T
<1>6. PICK f : /\ f \in [0..Len(path) -> T] /\ f[0] = ek
               /\ \A k \in 1..Len(path) : f[k] = DeriveChild(f[k - 1], path[k])
               /\ DerivePath(ek, path) = f[Len(path)]
  <2>1. \E f : Runs(f, T, ek, path)
    BY <1>4, <1>5, PathRuns
  <2>2. QED
    BY <2>1, Zenon DEF Runs
<1>7. f[L] \in T
  BY <1>1, <1>6
<1>8. f[L] = NoKey <=> path # <<>>
  <2>1. CASE L = 0
    BY <1>1, <1>6, <2>1
  <2>2. CASE L # 0
    <3>1. L \in 1..Len(path) /\ L - 1 \in 0..Len(path) /\ path[L] \in Indices
      BY <1>1, <2>2
    <3>2. f[L - 1] \in T
      BY <1>6, <3>1
    <3>3. QED
      BY <1>1, <1>3, <1>6, <2>2, <3>1, <3>2
  <2>3. QED
    BY <2>1, <2>2
<1>9. QED
  BY <1>2, <1>6, <1>7, <1>8, Zenon DEF T, L

\* Any two scalars to add, and any path from any key that can be made, with a chain code
\* or without.
DerivationCalls ==
    [f : {"cardanoAdd"}, x : Digits, y : Digits]
    \cup [f : {"DerivePath"}, path : Seq(Indices),
          key : { NewCardanoExtendedKey(s, n, c) : s \in Digits, n \in Digits, c \in Chains \cup {NoKey} }]

\* The scalars are added exactly, whatever the digits and the carries, and the owner of a
\* key and a wallet with its public half derive the same keys along every path that leaves
\* the scalar room, and neither derives what it must not (cardano_derive.go:91).
THEOREM KeysAreExact == call \in DerivationCalls /\ [][Answered]_call => []DerivationIsExact
<1>1. call \in DerivationCalls => DerivationIsExact
  <2> SUFFICES ASSUME call \in DerivationCalls PROVE DerivationIsExact
    OBVIOUS
  <2>1. AdditionsAreExact
    <3>1. Called("cardanoAdd") => call.x \in Digits /\ call.y \in Digits
      BY DEF Called, DerivationCalls
    <3>2. QED
      BY <3>1, AddExact, TweakExact, Zenon DEF AdditionsAreExact
  <2>2. WatchOnlyAgrees
    <3> SUFFICES ASSUME Called("DerivePath"), Room(call.key, call.path) PROVE WatchOnlyAgrees
      BY DEF WatchOnlyAgrees
    <3> DEFINE ek == call.key
               path == call.path
               full == DerivePath(ek, path)
               soft == \A i \in DOMAIN path : path[i] < Hardened
    <3>1. path \in Seq(Indices)
      BY DEF Called, DerivationCalls
    <3>2. PICK s \in Digits, n \in Digits, c \in Chains \cup {NoKey} : ek = NewCardanoExtendedKey(s, n, c)
      BY DEF Called, DerivationCalls
    <3>3. ek.chain = c
      BY <3>2 DEF NewCardanoExtendedKey
    <3>4. Room(ek, path)
      OBVIOUS
    <3> HIDE DEF ek, path
    <3>5. CASE c = NoKey
      <4>1. /\ full \in {ek, NoKey}
            /\ full = NoKey <=> path # <<>>
            /\ ExtendedPublicKey(ek) = NoKey
            /\ DerivePublicPath(NoKey, path) = NoKey
        <5>1. ek # NoKey
          BY <3>2, <3>5, KeysAreKeys
        <5>2. ek.chain = NoKey
          BY <3>3, <3>5
        <5> HIDE DEF full
        <5>3. DerivePublicPath(NoKey, path) = NoKey
          BY <3>1, NothingPublic
        <5>4. QED
          BY <3>1, <5>1, <5>2, <5>3, KeylessGivesNothing, Zenon DEF full
      <4> HIDE DEF full
      <4>2. ExtendedPublicKey(full) = NoKey
        BY <4>1, Zenon DEF ExtendedPublicKey
      <4>3. DerivePublicPath(ExtendedPublicKey(ek), path) = IF soft THEN ExtendedPublicKey(full) ELSE NoKey
        BY <4>1, <4>2, Zenon
      <4>4. full = NoKey <=> ek.chain = NoKey /\ path # <<>>
        BY <3>3, <3>5, <4>1, Zenon
      <4>5. QED
        BY <4>3, <4>4, Zenon DEF WatchOnlyAgrees, full, ek, path
    <3>6. CASE c # NoKey
      <4>1. ek \in Keys
        <5>1. cardanoScalarBasePub(s) \in Points /\ c \in Chains
          BY <3>6, PointType
        <5>2. QED
          BY <3>2, <5>1 DEF NewCardanoExtendedKey, Keys
      <4>2. /\ full \in Keys
            /\ DerivePublicPath(ExtendedPublicKey(ek), path) = IF soft THEN ExtendedPublicKey(full) ELSE NoKey
        BY <3>1, <3>4, <4>1, PathAgrees, Zenon
      <4>3. full # NoKey
        BY <4>2, KeysAreKeys, Zenon
      <4>4. full = NoKey <=> ek.chain = NoKey /\ path # <<>>
        BY <3>3, <3>6, <4>3, Zenon
      <4>5. QED
        BY <4>2, <4>4, Zenon DEF WatchOnlyAgrees, full, ek, path
    <3>7. QED
      BY <3>5, <3>6
  <2>3. QED
    BY <2>1, <2>2, Zenon DEF DerivationIsExact
<1>2. call \in DerivationCalls /\ [Answered]_call => (call \in DerivationCalls)'
  BY DEF Answered
<1>3. QED
  BY <1>1, <1>2, PTL

-----------------------------------------------------------------------------
(***************************************************************************)
(* Block rewards.                                                          *)
(***************************************************************************)
\* A shift by one more halves.
LEMMA Halved ==
  ASSUME NEW a \in Nat, NEW n \in Nat
  PROVE  (a \div Power(2, n)) \div 2 = a \div Power(2, n + 1)
<1> DEFINE p == Power(2, n)
           q == a \div p
           r == a % p
           s == q \div 2
           t == q % 2
<1>0. 2 \in Positive
  BY DEF Positive
<1>1. p \in Positive /\ Power(2, n + 1) = 2 * p
  BY <1>0, PowerFacts
<1> HIDE DEF p
<1>2. q \in Nat /\ r \in 0..p-1 /\ a = p * q + r
  BY <1>1, DivFacts
<1> HIDE DEF q, r
<1>3. s \in Nat /\ t \in 0..1 /\ q = 2 * s + t
  BY <1>2
<1> HIDE DEF s, t
<1> DEFINE x == p * s
<1>4. x \in Nat /\ p \in Nat /\ p > 0
  BY <1>1, <1>3 DEF Positive
<1>5. p * q = 2 * x + p * t /\ (2 * p) * s = 2 * x
  <2>1. p * (2 * s + t) = 2 * (p * s) + p * t
    BY <1>3, <1>4
  <2>2. (2 * p) * s = 2 * (p * s)
    BY <1>3, <1>4
  <2>3. QED
    BY <1>3, <2>1, <2>2
<1>6. p * t \in {0, p}
  <2>1. CASE t = 0
    BY <1>4, <2>1
  <2>2. CASE t = 1
    BY <1>4, <2>2
  <2>3. QED
    BY <1>3, <2>1, <2>2
<1> HIDE DEF x
<1>7. (2 * p) * s <= a /\ a < (2 * p) * s + 2 * p /\ 2 * p \in Positive
  <2> DEFINE y == p * t
  <2>1. y \in {0, p} /\ a = 2 * x + y + r
    BY <1>2, <1>4, <1>5, <1>6
  <2> HIDE DEF y
  <2>2. 2 * x <= a /\ a < 2 * x + 2 * p
    BY <1>2, <1>4, <2>1
  <2>3. QED
    BY <1>4, <1>5, <2>2 DEF Positive
<1>8. a \div (2 * p) = s
  <2> DEFINE d == 2 * p
  <2>1. d \in Positive /\ d * s <= a /\ a < d * s + d
    BY <1>7
  <2> HIDE DEF d
  <2>2. a \div d = s
    BY <1>3, <2>1, QuotientIs
  <2>3. QED
    BY <2>2 DEF d
<1>9. QED
  BY <1>1, <1>8 DEF p, q, s
\* What is no longer than a power of two stays so.
LEMMA StaysZero ==
  ASSUME NEW a \in Nat, NEW j \in Nat, a \div Power(2, j) = 0, NEW k \in Nat, j <= k
  PROVE  a \div Power(2, k) = 0
<1> DEFINE Q == { m \in Nat : a \div Power(2, j + m) = 0 }
<1>1. 0 \in Q
  BY j + 0 = j
<1>2. ASSUME NEW m \in Nat, m \in Q PROVE m + 1 \in Q
  <2> DEFINE n == j + m
  <2>1. n \in Nat /\ j + (m + 1) = n + 1
    OBVIOUS
  <2>2. a \div Power(2, n) = 0
    BY <1>2
  <2> HIDE DEF n
  <2>3. a \div Power(2, n + 1) = 0 \div 2
    BY <2>1, <2>2, Halved
  <2>4. a \div Power(2, j + (m + 1)) = 0
    BY <2>1, <2>3
  <2>5. QED
    BY <2>4
<1>3. \A m \in Nat : m \in Q
  <2> HIDE DEF Q
  <2>1. QED
    BY <1>1, <1>2, Induct
<1>4. k - j \in Nat /\ j + (k - j) = k
  OBVIOUS
<1>5. k - j \in Q
  BY <1>3, <1>4
<1>6. QED
  BY <1>4, <1>5

RewardModels == {"halving", "doge", "dash", "zero"}

LEMMA RewardType ==
  ASSUME NEW h \in Nat
  PROVE  /\ \A model \in RewardModels : BlockReward(model, h) \in Nat
         /\ dashYearlyBlockReward(h) \in Nat
<1>1. {2, 13, 14} \subseteq Positive
  BY DEF Positive
<1>2. h \div Interval \in Nat /\ h \div DogeInterval \in Nat /\ h \div DashYear \in Nat
  BY RewardsAssumption
<1>3. \A y \in Nat : dashYearlyBlockReward(y) \in Nat
  <2> TAKE y \in Nat
  <2> DEFINE a == DashBase * Power(13, y)
             d == Power(14, y)
  <2>1. d \in Positive /\ Power(13, y) \in Positive
    BY <1>1, PowerFacts
  <2>2. a \in Nat
    BY <2>1, RewardsAssumption DEF Positive
  <2>3. a \div d \in Nat
    <3> HIDE DEF a, d
    <3>1. QED
      BY <2>1, <2>2, DivFacts
  <2>4. QED
    BY <2>3 DEF dashYearlyBlockReward
<1>4. \A a, n \in Nat : a \div Power(2, n) \in Nat
  <2> TAKE a, n \in Nat
  <2>1. Power(2, n) \in Positive
    BY <1>1, PowerFacts
  <2>2. QED
    BY <2>1, DivFacts
<1>5. halvingBlockReward(h) \in Nat
  BY <1>2, <1>4, RewardsAssumption DEF halvingBlockReward
<1>6. dogeBlockReward(h) \in Nat
  BY <1>2, <1>4, RewardsAssumption DEF dogeBlockReward
<1>7. dashBlockReward(h) \in Nat
  BY <1>2, <1>3 DEF dashBlockReward
<1>8. BlockReward("halving", h) \in Nat /\ BlockReward("doge", h) \in Nat
      /\ BlockReward("dash", h) \in Nat /\ BlockReward("zero", h) \in Nat
  BY <1>5, <1>6, <1>7 DEF BlockReward
<1>9. QED
  BY <1>3, <1>8 DEF RewardModels

\* s[n] is the sum of the rewards of the first n blocks.
IsSum(s, model, top) ==
    /\ s[0] = 0
    /\ \A n \in 0..top : s[n] \in Nat
    /\ \A n \in 1..top : s[n] = s[n - 1] + BlockReward(model, n - 1)

LEMMA SumExists ==
  ASSUME NEW model \in RewardModels, NEW top \in Nat
  PROVE  \E s : Minted(model, top) = s[top] /\ IsSum(s, model, top)
<1> DEFINE Sums(s) == s = [n \in 0..top |-> IF n = 0 THEN 0 ELSE s[n - 1] + BlockReward(model, n - 1)]
           step == [n \in 1..top |-> [x \in Nat |-> x + BlockReward(model, n - 1)]]
<1>0. \A n \in 1..top : BlockReward(model, n - 1) \in Nat
  <2> TAKE n \in 1..top
  <2>1. n - 1 \in Nat
    OBVIOUS
  <2>2. QED
    BY <2>1, RewardType
<1>1. step \in [1..top -> [Nat -> Nat]]
  <2>1. ASSUME NEW n \in 1..top PROVE [x \in Nat |-> x + BlockReward(model, n - 1)] \in [Nat -> Nat]
    BY <1>0
  <2>2. QED
    BY <2>1
<1>2. PICK f : f \in [0..top -> Nat] /\ f[0] = 0 /\ \A n \in 1..top : f[n] = step[n][f[n - 1]]
  <2> HIDE DEF step
  <2>1. \E f : Iterates(f, Nat, 0, step, top)
    BY <1>1, Iterated
  <2>2. QED
    BY <2>1 DEF Iterates
<1>3. \A n \in 1..top : f[n] = f[n - 1] + BlockReward(model, n - 1)
  <2> TAKE n \in 1..top
  <2>1. f[n - 1] \in Nat
    BY <1>2
  <2>2. QED
    BY <1>2, <2>1
<1>4. Sums(f)
  BY <1>2, <1>3
<1> DEFINE s == CHOOSE s : Sums(s)
<1>5. Sums(s)
  <2> HIDE DEF Sums
  <2>1. QED
    BY <1>4
<1>6. Minted(model, top) = s[top]
  BY Zenon DEF Minted
<1> HIDE DEF s
<1>7. s[0] = 0 /\ \A n \in 1..top : s[n] = s[n - 1] + BlockReward(model, n - 1)
  BY <1>5
<1> DEFINE Q == { n \in Nat : n \in 0..top => s[n] \in Nat }
<1>8. 0 \in Q
  BY <1>7
<1>9. ASSUME NEW n \in Nat, n \in Q PROVE n + 1 \in Q
  <2>1. CASE n + 1 \in 0..top
    <3>1. n \in 0..top /\ n + 1 \in 1..top /\ (n + 1) - 1 = n
      BY <2>1
    <3>2. s[n] \in Nat /\ s[n + 1] = s[n] + BlockReward(model, n) /\ BlockReward(model, n) \in Nat
      BY <1>7, <1>9, <3>1, RewardType
    <3>3. QED
      BY <3>2
  <2>2. QED
    BY <2>1
<1>10. \A n \in Nat : n \in Q
  <2> HIDE DEF Q
  <2>1. QED
    BY <1>8, <1>9, Induct
<1>11. QED
  BY <1>6, <1>7, <1>10 DEF IsSum

\* Blocks of one reward.
LEMMA SameRewards ==
  ASSUME NEW model \in RewardModels, NEW top \in Nat, NEW s, IsSum(s, model, top),
         NEW from \in Nat, NEW to \in 0..top, from <= to, NEW c \in Nat,
         \A h \in Nat : from <= h /\ h < to => BlockReward(model, h) = c
  PROVE  s[to] = s[from] + (to - from) * c
<1> DEFINE Q == { n \in Nat : from + n <= to => s[from + n] = s[from] + n * c }
<1>1. /\ \A n \in 0..top : s[n] \in Nat
      /\ \A n \in 1..top : s[n] = s[n - 1] + BlockReward(model, n - 1)
  BY DEF IsSum
<1>2. s[from] \in Nat
  BY <1>1
<1>3. 0 \in Q
  BY <1>2
<1>4. ASSUME NEW n \in Nat, n \in Q PROVE n + 1 \in Q
  <2>1. CASE from + (n + 1) <= to
    <3> DEFINE k == from + n
    <3>1. k \in Nat /\ k + 1 \in 1..top /\ k < to /\ from <= k /\ (k + 1) - 1 = k /\ from + (n + 1) = k + 1
      BY <2>1
    <3>2. s[k] = s[from] + n * c
      BY <1>4, <2>1
    <3> HIDE DEF k
    <3>3. s[k + 1] = s[k] + c
      BY <1>1, <3>1
    <3>4. (n + 1) * c = n * c + c /\ n * c \in Nat
      OBVIOUS
    <3>5. s[k + 1] = s[from] + (n + 1) * c
      BY <1>2, <3>2, <3>3, <3>4
    <3>6. QED
      BY <3>1, <3>5
  <2>2. QED
    BY <2>1
<1>5. \A n \in Nat : n \in Q
  <2> HIDE DEF Q
  <2>1. QED
    BY <1>3, <1>4, Induct
<1>6. to - from \in Nat /\ from + (to - from) = to
  OBVIOUS
<1>7. to - from \in Q
  BY <1>5, <1>6
<1>8. QED
  BY <1>6, <1>7
LEMMA TimesGrows ==
  ASSUME NEW d \in Nat, NEW a \in Nat, NEW b \in Nat, a <= b
  PROVE  d * a \in Nat /\ d * b \in Nat /\ d * a <= d * b
<1>1. b - a \in Nat /\ d * (b - a) \in Nat /\ d * a \in Nat /\ d * b \in Nat
  OBVIOUS
<1>2. d * b = d * a + d * (b - a)
  BY <1>1
<1>3. QED
  BY <1>1, <1>2

LEMMA QuotientAtLeast ==
  ASSUME NEW h \in Nat, NEW d \in Positive, NEW k \in Nat, d * k <= h
  PROVE  h \div d \in Nat /\ k <= h \div d
<1> DEFINE q == h \div d
<1>1. q \in Nat /\ h < d * q + d /\ d \in Nat
  BY DivFacts DEF Positive
<1> HIDE DEF q
<1>2. SUFFICES ASSUME q + 1 <= k PROVE FALSE
  BY <1>1 DEF q
<1>3. d * (q + 1) <= d * k
  BY <1>1, <1>2, TimesGrows
<1>4. d * (q + 1) = d * q + d
  BY <1>1
<1>5. d * q \in Nat /\ d * k \in Nat
  BY <1>1
<1>6. QED
  BY <1>1, <1>3, <1>4, <1>5

-----------------------------------------------------------------------------
HalvingStates == [left : Nat, reward : Nat, total : Nat]

LEMMA HalvingStepType ==
  ASSUME NEW x \in HalvingStates
  PROVE  HalvingStep(x) \in HalvingStates
<1>1. Interval \in Nat
  BY RewardsAssumption
<1>2. x.left \in Nat /\ x.reward \in Nat /\ x.total \in Nat
  BY DEF HalvingStates
<1> DEFINE size == IF x.left < Interval THEN x.left ELSE Interval
<1>3. size \in Nat /\ x.left - size \in Nat
  BY <1>1, <1>2
<1>4. x.reward \div 2 \in Nat /\ size * x.reward \in Nat
  BY <1>2, <1>3
<1> HIDE DEF size
<1>5. [left |-> x.left - size, reward |-> x.reward \div 2, total |-> x.total + size * x.reward] \in HalvingStates
  BY <1>2, <1>3, <1>4 DEF HalvingStates
<1>6. QED
  BY <1>5 DEF HalvingStep, size

\* The states the loop goes through.
IsHalving(st, n) ==
    /\ st[0] = [left |-> n, reward |-> Base, total |-> 0]
    /\ \A i \in 1..HalvingLoops : st[i] = HalvingStep(st[i - 1])
    /\ \A i \in 0..HalvingLoops : st[i] \in HalvingStates

LEMMA HalvingRuns ==
  ASSUME NEW h \in Nat, U(h + 1) \in Nat
  PROVE  \E st : cumulativeHalvingRewards(h) = st[HalvingLoops].total /\ IsHalving(st, U(h + 1))
<1> DEFINE n == U(h + 1)
           first == [left |-> n, reward |-> Base, total |-> 0]
           L == HalvingLoops
           IsRun(f) == f = [i \in 0..L |-> IF i = 0 THEN first ELSE HalvingStep(f[i - 1])]
           step == [i \in 1..L |-> [x \in HalvingStates |-> HalvingStep(x)]]
<1>0. L \in Nat /\ first \in HalvingStates
  BY RewardsAssumption DEF HalvingLoops, HalvingStates
<1>1. step \in [1..L -> [HalvingStates -> HalvingStates]]
  BY HalvingStepType
<1> DEFINE r == CHOOSE r : IsRun(r)
<1>2. cumulativeHalvingRewards(h) = r[L].total
  BY Zenon DEF cumulativeHalvingRewards
<1> HIDE DEF first, L
<1>3. PICK f : f \in [0..L -> HalvingStates] /\ f[0] = first /\ \A i \in 1..L : f[i] = step[i][f[i - 1]]
  <2> HIDE DEF step
  <2>1. \E f : Iterates(f, HalvingStates, first, step, L)
    BY <1>0, <1>1, Iterated
  <2>2. QED
    BY <2>1 DEF Iterates
<1>4. \A i \in 1..L : f[i] = HalvingStep(f[i - 1])
  <2> TAKE i \in 1..L
  <2>1. f[i - 1] \in HalvingStates
    BY <1>0, <1>3
  <2>2. QED
    BY <1>3, <2>1
<1>5. IsRun(f)
  BY <1>0, <1>3, <1>4
<1>6. IsRun(r)
  <2> HIDE DEF IsRun
  <2>1. QED
    BY <1>5
<1> HIDE DEF r
<1>7. r[0] = first /\ \A i \in 1..L : r[i] = HalvingStep(r[i - 1])
  BY <1>0, <1>6
<1> DEFINE Q == { i \in Nat : i \in 0..L => r[i] \in HalvingStates }
<1>8. 0 \in Q
  BY <1>0, <1>7
<1>9. ASSUME NEW i \in Nat, i \in Q PROVE i + 1 \in Q
  <2>1. CASE i + 1 \in 0..L
    <3>1. i \in 0..L /\ i + 1 \in 1..L /\ (i + 1) - 1 = i
      BY <1>0, <2>1
    <3>2. r[i] \in HalvingStates /\ r[i + 1] = HalvingStep(r[i])
      BY <1>7, <1>9, <3>1
    <3>3. QED
      BY <3>2, HalvingStepType
  <2>2. QED
    BY <2>1
<1>10. \A i \in Nat : i \in Q
  <2> HIDE DEF Q
  <2>1. QED
    BY <1>8, <1>9, Induct
<1>11. \A i \in 0..L : r[i] \in HalvingStates
  BY <1>0, <1>10
<1>12. IsHalving(r, n)
  BY <1>7, <1>11, Zenon DEF IsHalving, first, L
<1>13. QED
  BY <1>2, <1>12, Zenon DEF L

\* What the loop has counted: all blocks, or whole intervals up to the first that gives nothing.
Counted(x, i, n, s) ==
    /\ x.left \in 0..n /\ x.total = s[n - x.left]
    /\ x.left = 0 \/ \E j \in 0..i : /\ n - x.left = Interval * j
                                     /\ x.reward = Base \div Power(2, j)
                                     /\ j = i \/ x.reward = 0

LEMMA HalvingCounts ==
  ASSUME NEW n \in Nat, NEW s, IsSum(s, "halving", n), NEW i \in 0..Clamp,
         NEW x \in HalvingStates, Counted(x, i, n, s)
  PROVE  Counted(HalvingStep(x), i + 1, n, s)
<1>0. /\ Interval \in Nat /\ Interval > 0 /\ Interval \in Positive /\ Clamp \in Nat /\ Base \in Nat /\ i \in Nat
      /\ "halving" \in RewardModels
  BY RewardsAssumption DEF Positive, RewardModels
<1>1. x.left \in 0..n /\ x.total = s[n - x.left] /\ x.reward \in Nat
  BY DEF Counted, HalvingStates
<1>2. CASE x.left = 0
  <2>1. HalvingStep(x) = x
    BY <1>2 DEF HalvingStep
  <2>2. QED
    BY <1>1, <1>2, <2>1 DEF Counted
<1>3. CASE x.left # 0 /\ x.reward = 0
  <2>1. HalvingStep(x) = x
    BY <1>3 DEF HalvingStep
  <2>2. PICK j \in 0..i : n - x.left = Interval * j /\ x.reward = Base \div Power(2, j)
    BY <1>3 DEF Counted
  <2>3. j \in 0..i + 1
    BY <1>0
  <2>4. QED
    BY <1>1, <1>3, <2>1, <2>2, <2>3 DEF Counted
<1>4. CASE x.left # 0 /\ x.reward # 0
  <2> DEFINE size == IF x.left < Interval THEN x.left ELSE Interval
             from == n - x.left
             to == from + size
             start == Interval * i
             y == HalvingStep(x)
  <2>1. from = start /\ x.reward = Base \div Power(2, i)
    BY <1>4 DEF Counted
  <2>2. y = [left |-> x.left - size, reward |-> x.reward \div 2, total |-> x.total + size * x.reward]
    BY <1>4 DEF HalvingStep
  <2>3. /\ size \in Nat /\ size <= x.left /\ size <= Interval /\ from \in Nat /\ to \in 0..n /\ from <= to
        /\ to - from = size /\ x.left - size \in 0..n /\ n - (x.left - size) = to
    <3>1. size \in Nat /\ size <= x.left /\ size <= Interval
      <4> DEFINE left == x.left
      <4>1. left \in 0..n
        BY <1>1
      <4> HIDE DEF left
      <4>2. QED
        BY <1>0, <4>1 DEF left
    <3> HIDE DEF size
    <3>2. from \in Nat /\ from + x.left = n
      BY <1>1
    <3>3. QED
      BY <1>1, <3>1, <3>2
  <2>4. size = x.left \/ size = Interval
    OBVIOUS
  <2>5. start \in Nat
    BY <1>0
  <2>6. ASSUME NEW h \in Nat, from <= h, h < to PROVE BlockReward("halving", h) = x.reward
    <3> HIDE DEF from, to, size, start
    <3>1. start <= h /\ h < start + Interval
      BY <1>0, <2>1, <2>3, <2>5, <2>6
    <3>2. h \div Interval = i
      BY <1>0, <3>1, QuotientIs DEF start
    <3>3. i <= Clamp
      BY <1>0
    <3>4. halvingBlockReward(h) = Base \div Power(2, i)
      BY <1>0, <3>2, <3>3 DEF halvingBlockReward
    <3>5. QED
      BY <2>1, <3>4 DEF BlockReward
  <2> HIDE DEF from, to, size, start, y
  <2>7. s[to] = s[from] + (to - from) * x.reward
    BY <1>0, <1>1, <2>3, <2>6, SameRewards
  <2>8. y.left = x.left - size /\ y.reward = x.reward \div 2 /\ y.total = x.total + size * x.reward
    BY <2>2
  <2>9. y.left \in 0..n /\ n - y.left = to /\ y.total = s[n - y.left]
    BY <1>1, <2>3, <2>7, <2>8 DEF from
  <2>10. CASE size = x.left
    <3>1. y.left = 0
      BY <1>1, <2>8, <2>10
    <3>2. QED
      BY <2>9, <3>1 DEF Counted, y
  <2>11. CASE size = Interval
    <3>1. i + 1 \in 0..i + 1
      BY <1>0
    <3>2. Interval * (i + 1) = start + Interval
      BY <1>0 DEF start
    <3>3. n - y.left = Interval * (i + 1)
      BY <2>1, <2>9, <2>11, <3>2 DEF to
    <3>4. y.reward = Base \div Power(2, i + 1)
      BY <1>0, <2>1, <2>8, Halved
    <3>5. QED
      BY <2>9, <3>1, <3>3, <3>4 DEF Counted, y
  <2>12. QED
    BY <2>4, <2>10, <2>11
<1>5. QED
  BY <1>2, <1>3, <1>4

LEMMA HalvingIsSum ==
  ASSUME NEW h \in Nat, h + 1 < HeightTop \div 2
  PROVE  cumulativeHalvingRewards(h) = Minted("halving", h + 1)
<1> DEFINE n == h + 1
<1>0. /\ Interval \in Nat /\ Interval > 0 /\ Interval \in Positive /\ Clamp \in Nat /\ Base \in Nat
      /\ "halving" \in RewardModels /\ 2 \in Positive
  BY RewardsAssumption DEF Positive, RewardModels
<1>1. U(n) = n /\ n \in Nat
  BY RewardsAssumption DEF U
<1>2. PICK st : cumulativeHalvingRewards(h) = st[HalvingLoops].total /\ IsHalving(st, n)
  BY <1>1, HalvingRuns
<1>3. PICK s : Minted("halving", n) = s[n] /\ IsSum(s, "halving", n)
  BY <1>0, <1>1, SumExists
<1> HIDE DEF n
<1> DEFINE Q == { i \in Nat : i \in 0..HalvingLoops => Counted(st[i], i, n, s) }
<1>4. 0 \in Q
  <2> DEFINE x == st[0]
  <2>1. x.left = n /\ x.reward = Base /\ x.total = 0
    BY <1>2 DEF IsHalving
  <2>2. s[0] = 0 /\ n - x.left = 0 /\ x.left \in 0..n
    BY <1>1, <1>3, <2>1 DEF IsSum
  <2>3. Interval * 0 = 0 /\ Base \div Power(2, 0) = Base
    <3>1. Power(2, 0) = 1
      BY <1>0, PowerFacts
    <3>2. QED
      BY <1>0, <3>1
  <2>4. 0 \in 0..0
    OBVIOUS
  <2>5. Counted(x, 0, n, s)
    <3> HIDE DEF x
    <3>1. QED
      BY <2>1, <2>2, <2>3, <2>4 DEF Counted
  <2>6. QED
    BY <2>5
<1>5. ASSUME NEW i \in Nat, i \in Q PROVE i + 1 \in Q
  <2>1. CASE i + 1 \in 0..HalvingLoops
    <3>1. i \in 0..HalvingLoops /\ i + 1 \in 1..HalvingLoops /\ (i + 1) - 1 = i /\ i \in 0..Clamp
      BY <1>0, <2>1 DEF HalvingLoops
    <3>2. st[i + 1] = HalvingStep(st[i]) /\ st[i] \in HalvingStates
      BY <1>2, <3>1 DEF IsHalving
    <3>3. Counted(st[i], i, n, s)
      BY <1>5, <3>1
    <3>4. Counted(st[i + 1], i + 1, n, s)
      BY <1>1, <1>3, <3>1, <3>2, <3>3, HalvingCounts
    <3>5. QED
      BY <3>4
  <2>2. QED
    BY <2>1
<1>6. \A i \in Nat : i \in Q
  <2> HIDE DEF Q
  <2>1. QED
    BY <1>4, <1>5, Induct
<1> DEFINE x == st[HalvingLoops]
<1>7. Counted(x, HalvingLoops, n, s)
  <2>1. HalvingLoops \in Nat /\ HalvingLoops \in 0..HalvingLoops
    BY <1>0 DEF HalvingLoops
  <2>2. HalvingLoops \in Q
    BY <1>6, <2>1
  <2>3. QED
    BY <2>1, <2>2
<1> HIDE DEF x, Q
<1>8. x.left \in 0..n /\ x.total = s[n - x.left]
  BY <1>7 DEF Counted
<1>9. CASE x.left = 0
  BY <1>1, <1>2, <1>3, <1>8, <1>9 DEF x, n
<1>10. CASE x.left # 0
  <2> DEFINE from == n - x.left
  <2>1. PICK j \in 0..HalvingLoops : /\ from = Interval * j /\ x.reward = Base \div Power(2, j)
                                     /\ j = HalvingLoops \/ x.reward = 0
    BY <1>7, <1>10 DEF Counted
  <2>2. j \in Nat
    BY <1>0 DEF HalvingLoops
  <2>3. Base \div Power(2, HalvingLoops) = 0
    <3>1. HalvingLoops \in Nat
      BY <1>0 DEF HalvingLoops
    <3>2. Power(2, HalvingLoops) \in Positive
      BY <1>0, <3>1, PowerFacts
    <3>3. Base < Power(2, HalvingLoops)
      BY RewardsAssumption DEF HalvingLoops
    <3>4. QED
      BY <1>0, <3>2, <3>3, DivFacts
  <2>4. Base \div Power(2, j) = 0
    BY <2>1, <2>3
  <2>5. from \in Nat /\ n \in 0..n /\ from <= n
    BY <1>1, <1>8
  <2> HIDE DEF from
  <2>6. ASSUME NEW b \in Nat, from <= b, b < n PROVE BlockReward("halving", b) = 0
    <3>1. b \div Interval \in Nat /\ j <= b \div Interval
      BY <1>0, <2>1, <2>2, <2>6, QuotientAtLeast
    <3>2. Base \div Power(2, b \div Interval) = 0
      BY <1>0, <2>2, <2>4, <3>1, StaysZero
    <3>3. QED
      BY <3>2 DEF BlockReward, halvingBlockReward
  <2>7. s[n] = s[from] + (n - from) * 0
    BY <1>0, <1>1, <1>3, <2>5, <2>6, SameRewards
  <2>8. s[from] \in Nat
    BY <1>3, <2>5 DEF IsSum
  <2>9. s[n] = s[from]
    BY <1>1, <2>5, <2>7, <2>8
  <2>10. QED
    BY <1>2, <1>3, <1>8, <2>9 DEF x, from, n
<1>11. QED
  BY <1>9, <1>10
-----------------------------------------------------------------------------
DogeStates == [total : Int, accounted : Nat, done : BOOLEAN]

LEMMA DogeStepType ==
  ASSUME NEW h \in Nat, NEW x \in DogeStates, NEW i \in Nat
  PROVE  DogeStep(h, x, i) \in DogeStates
<1> DEFINE start == DogeInterval * i
           end == IF U(h + 1) < start + DogeInterval THEN U(h + 1) ELSE start + DogeInterval
           size == U(end - start)
           reward == DogeBase \div Power(2, i)
<1>1. HeightTop \in Nat /\ HeightTop > 0 /\ DogeInterval \in Nat /\ DogeBase \in Nat /\ 2 \in Positive
  BY RewardsAssumption DEF Positive
<1>2. U(h + 1) \in Nat /\ start \in Nat
  BY <1>1 DEF U
<1>3. end \in Nat
  BY <1>1, <1>2
<1> HIDE DEF start, end
<1>4. Int64(size) \in Int
  <2>1. size \in Nat
    BY <1>1, <1>2, <1>3 DEF U
  <2> HIDE DEF size
  <2>2. QED
    BY <1>1, <2>1 DEF Int64
<1>5. reward \in Nat
  BY <1>1, PowerFacts, DivFacts
<1>6. x.total \in Int /\ x.accounted \in Nat
  BY DEF DogeStates
<1> HIDE DEF size, reward
<1>7. x.total + Int64(size) * reward \in Int
  <2> DEFINE z == Int64(size)
  <2>1. z \in Int
    BY <1>4
  <2> HIDE DEF z
  <2>2. z * reward \in Int
    BY <1>5, <2>1
  <2>3. QED
    BY <1>6, <2>2 DEF z
<1>8. [total |-> x.total + Int64(size) * reward, accounted |-> end, done |-> end > h] \in DogeStates
  BY <1>3, <1>7 DEF DogeStates
<1>9. [x EXCEPT !.done = TRUE] \in DogeStates
  BY DEF DogeStates
<1>10. QED
  BY <1>8, <1>9 DEF DogeStep, start, end, size, reward

IsDoge(st, h) ==
    /\ st[0] = [total |-> 0, accounted |-> 0, done |-> FALSE]
    /\ \A i \in 1..DogeHalvings : st[i] = DogeStep(h, st[i - 1], i - 1)
    /\ \A i \in 0..DogeHalvings : st[i] \in DogeStates

LEMMA DogeRuns ==
  ASSUME NEW h \in Nat
  PROVE  \E st : /\ cumulativeDogeRewards(h) = (IF st[DogeHalvings].accounted <= h
                                                THEN DogeRest(h, st[DogeHalvings]) ELSE st[DogeHalvings].total)
                 /\ IsDoge(st, h)
<1> DEFINE first == [total |-> 0, accounted |-> 0, done |-> FALSE]
           L == DogeHalvings
           IsRun(f) == f = [i \in 0..L |-> IF i = 0 THEN first ELSE DogeStep(h, f[i - 1], i - 1)]
           step == [i \in 1..L |-> [x \in DogeStates |-> DogeStep(h, x, i - 1)]]
<1>0. L \in Nat /\ first \in DogeStates
  BY RewardsAssumption DEF DogeStates
<1>1. step \in [1..L -> [DogeStates -> DogeStates]]
  <2>1. ASSUME NEW i \in 1..L PROVE [x \in DogeStates |-> DogeStep(h, x, i - 1)] \in [DogeStates -> DogeStates]
    <3>1. i - 1 \in Nat
      OBVIOUS
    <3>2. QED
      BY <3>1, DogeStepType
  <2>2. QED
    BY <2>1
<1> DEFINE r == CHOOSE r : IsRun(r)
<1>2. cumulativeDogeRewards(h) = IF r[L].accounted <= h THEN DogeRest(h, r[L]) ELSE r[L].total
  BY Zenon DEF cumulativeDogeRewards
<1> HIDE DEF first, L
<1>3. PICK f : f \in [0..L -> DogeStates] /\ f[0] = first /\ \A i \in 1..L : f[i] = step[i][f[i - 1]]
  <2> HIDE DEF step
  <2>1. \E f : Iterates(f, DogeStates, first, step, L)
    BY <1>0, <1>1, Iterated
  <2>2. QED
    BY <2>1 DEF Iterates
<1>4. \A i \in 1..L : f[i] = DogeStep(h, f[i - 1], i - 1)
  <2> TAKE i \in 1..L
  <2>1. f[i - 1] \in DogeStates
    BY <1>0, <1>3
  <2>2. QED
    BY <1>3, <2>1
<1>5. IsRun(f)
  BY <1>0, <1>3, <1>4
<1>6. IsRun(r)
  <2> HIDE DEF IsRun
  <2>1. QED
    BY <1>5
<1> HIDE DEF r
<1>7. r[0] = first /\ \A i \in 1..L : r[i] = DogeStep(h, r[i - 1], i - 1)
  BY <1>0, <1>6
<1> DEFINE Q == { i \in Nat : i \in 0..L => r[i] \in DogeStates }
<1>8. 0 \in Q
  BY <1>0, <1>7
<1>9. ASSUME NEW i \in Nat, i \in Q PROVE i + 1 \in Q
  <2>1. CASE i + 1 \in 0..L
    <3>1. i \in 0..L /\ i + 1 \in 1..L /\ (i + 1) - 1 = i
      BY <1>0, <2>1
    <3>2. r[i] \in DogeStates /\ r[i + 1] = DogeStep(h, r[i], i)
      BY <1>7, <1>9, <3>1
    <3>3. QED
      BY <3>2, DogeStepType
  <2>2. QED
    BY <2>1
<1>10. \A i \in Nat : i \in Q
  <2> HIDE DEF Q
  <2>1. QED
    BY <1>8, <1>9, Induct
<1>11. \A i \in 0..L : r[i] \in DogeStates
  BY <1>0, <1>10
<1>12. IsDoge(r, h)
  BY <1>7, <1>11, Zenon DEF IsDoge, first, L
<1>13. QED
  BY <1>2, <1>12, Zenon DEF L

\* Whole intervals are accounted for, or all blocks.
Accounted(x, i, n, s) ==
    /\ x.accounted \in 0..n /\ x.total = s[x.accounted]
    /\ IF x.done THEN x.accounted = n ELSE x.accounted = DogeInterval * i /\ x.accounted < n

LEMMA DogeCounts ==
  ASSUME NEW h \in Nat, h + 1 < HeightTop \div 2, NEW s, IsSum(s, "doge", h + 1),
         NEW i \in Nat, i < DogeHalvings, NEW x \in DogeStates, Accounted(x, i, h + 1, s)
  PROVE  Accounted(DogeStep(h, x, i), i + 1, h + 1, s)
<1> DEFINE n == h + 1
<1>0. /\ HeightTop \in Nat /\ HeightTop > 0 /\ DogeInterval \in Nat /\ DogeInterval > 0 /\ DogeInterval \in Positive
      /\ DogeBase \in Nat /\ DogeHalvings \in Nat /\ 2 \in Positive /\ "doge" \in RewardModels
  BY RewardsAssumption DEF Positive, RewardModels
<1>1. U(n) = n /\ n \in Nat /\ h < n
  BY <1>0 DEF U
<1>2. x.accounted \in 0..n /\ x.total = s[x.accounted] /\ x.done \in BOOLEAN
  BY DEF Accounted, DogeStates
<1>3. CASE x.done
  <2>1. DogeStep(h, x, i) = [x EXCEPT !.done = TRUE]
    BY <1>3, Zenon DEF DogeStep
  <2> DEFINE y == [x EXCEPT !.done = TRUE]
  <2>2. y.done = TRUE /\ y.accounted = x.accounted /\ y.total = x.total
    BY DEF DogeStates
  <2>3. x.accounted = n
    BY <1>3 DEF Accounted
  <2> HIDE DEF y
  <2>4. Accounted(y, i + 1, n, s)
    BY <1>2, <2>2, <2>3 DEF Accounted
  <2>5. QED
    BY <2>1, <2>4 DEF y
<1>4. CASE ~ x.done
  <2> DEFINE start == DogeInterval * i
             end == IF n < start + DogeInterval THEN n ELSE start + DogeInterval
             size == U(end - start)
             reward == DogeBase \div Power(2, i)
             y == [total |-> x.total + Int64(size) * reward, accounted |-> end, done |-> end > h]
  <2>1. start \in Nat /\ x.accounted = start /\ start < n
    BY <1>0, <1>4 DEF Accounted
  <2>2. ~ (h < start)
    <3> HIDE DEF start
    <3>1. QED
      BY <1>1, <2>1
  <2>3. end \in 0..n /\ start < end /\ end <= start + DogeInterval /\ (end = n \/ end = start + DogeInterval)
    <3> HIDE DEF start
    <3>1. QED
      BY <1>0, <1>1, <2>1
  <2>4. size = end - start /\ Int64(size) = end - start /\ end - start > 0
    <3> DEFINE z == end - start
    <3>1. z \in Nat /\ z > 0 /\ z < HeightTop \div 2
      <4> HIDE DEF start, end
      <4>1. QED
        BY <1>0, <1>1, <2>1, <2>3
    <3> HIDE DEF z
    <3>2. U(z) = z /\ Int64(z) = z
      BY <1>0, <3>1 DEF U, Int64
    <3>3. QED
      BY <3>1, <3>2 DEF z
  <2>5. DogeStep(h, x, i) = y
    <3>1. size # 0
      <4> HIDE DEF size, end, start
      <4>1. QED
        BY <2>1, <2>3, <2>4
    <3> DEFINE e == IF U(n) < start + DogeInterval THEN U(n) ELSE start + DogeInterval
    <3>2. e = end
      BY <1>1
    <3>3. DogeStep(h, x, i) = IF x.done \/ h < start THEN [x EXCEPT !.done = TRUE]
              ELSE IF U(e - start) = 0 THEN x
              ELSE [total |-> x.total + Int64(U(e - start)) * reward, accounted |-> e, done |-> e > h]
      BY Zenon DEF DogeStep
    <3> HIDE DEF e, end, start, reward
    <3>4. QED
      BY <1>4, <2>2, <3>1, <3>2, <3>3
  <2>6. ASSUME NEW b \in Nat, start <= b, b < end PROVE BlockReward("doge", b) = reward
    <3> HIDE DEF start, end, reward
    <3>1. b < start + DogeInterval
      BY <1>0, <1>1, <2>1, <2>3, <2>6
    <3>2. b \div DogeInterval = i
      BY <1>0, <2>6, <3>1, QuotientIs DEF start
    <3>3. DogeInterval * (i + 1) <= DogeInterval * DogeHalvings
      <4>1. i + 1 \in Nat /\ i + 1 <= DogeHalvings
        BY <1>0
      <4>2. QED
        BY <1>0, <4>1, TimesGrows
    <3>4. DogeInterval * (i + 1) = start + DogeInterval /\ DogeInterval * DogeHalvings = DogeHalvings * DogeInterval
      BY <1>0 DEF start
    <3>5. DogeInterval * DogeHalvings \in Nat
      BY <1>0
    <3>6. ~ (b >= DogeHalvings * DogeInterval)
      BY <1>0, <2>1, <3>1, <3>3, <3>4, <3>5
    <3>7. QED
      BY <3>2, <3>6 DEF BlockReward, dogeBlockReward, reward
  <2>7. reward \in Nat
    BY <1>0, PowerFacts, DivFacts
  <2> HIDE DEF start, end, size, reward
  <2>8. s[end] = s[start] + (end - start) * reward
    BY <1>0, <1>1, <2>1, <2>3, <2>6, <2>7, SameRewards
  <2>9. y.total = s[end] /\ y.accounted = end /\ y.done = (end > h)
    BY <1>2, <2>1, <2>4, <2>8
  <2>10. DogeInterval * (i + 1) = start + DogeInterval
    BY <1>0 DEF start
  <2> HIDE DEF y
  <2>11. CASE end = n
    <3>1. y.done = TRUE
      BY <1>1, <2>9, <2>11
    <3>2. QED
      BY <2>3, <2>5, <2>9, <2>11, <3>1 DEF Accounted
  <2>12. CASE end # n
    <3>1. end < n /\ ~ (end > h)
      BY <1>1, <2>3, <2>12
    <3>2. ~ y.done
      BY <2>9, <3>1, Zenon
    <3>3. y.accounted = DogeInterval * (i + 1)
      BY <2>3, <2>9, <2>10, <2>12
    <3>4. QED
      BY <2>3, <2>5, <2>9, <3>1, <3>2, <3>3 DEF Accounted
  <2>13. QED
    BY <2>11, <2>12
<1>5. QED
  BY <1>2, <1>3, <1>4

LEMMA DogeIsSum ==
  ASSUME NEW h \in Nat, h + 1 < HeightTop \div 2
  PROVE  cumulativeDogeRewards(h) = Minted("doge", h + 1)
<1> DEFINE n == h + 1
<1>0. /\ HeightTop \in Nat /\ HeightTop > 0 /\ DogeInterval \in Nat /\ DogeHalvings \in Nat
      /\ DogeTail \in Nat /\ "doge" \in RewardModels
  BY RewardsAssumption DEF RewardModels
<1>1. n \in Nat /\ h < n
  OBVIOUS
<1>2. PICK st : /\ cumulativeDogeRewards(h) = (IF st[DogeHalvings].accounted <= h
                                               THEN DogeRest(h, st[DogeHalvings]) ELSE st[DogeHalvings].total)
                /\ IsDoge(st, h)
  BY DogeRuns
<1>3. PICK s : Minted("doge", n) = s[n] /\ IsSum(s, "doge", n)
  BY <1>0, <1>1, SumExists
<1> DEFINE Q == { i \in Nat : i \in 0..DogeHalvings => Accounted(st[i], i, n, s) }
<1>4. 0 \in Q
  <2> DEFINE x == st[0]
  <2>1. x.total = 0 /\ x.accounted = 0 /\ x.done = FALSE
    BY <1>2 DEF IsDoge
  <2>2. s[0] = 0 /\ DogeInterval * 0 = 0 /\ 0 \in 0..n /\ 0 < n
    BY <1>0, <1>1, <1>3 DEF IsSum
  <2> HIDE DEF x, n
  <2>3. Accounted(x, 0, n, s)
    BY <2>1, <2>2 DEF Accounted
  <2>4. QED
    BY <2>3 DEF x
<1>5. ASSUME NEW i \in Nat, i \in Q PROVE i + 1 \in Q
  <2>1. CASE i + 1 \in 0..DogeHalvings
    <3>1. i \in 0..DogeHalvings /\ i + 1 \in 1..DogeHalvings /\ (i + 1) - 1 = i /\ i < DogeHalvings
      BY <1>0, <2>1
    <3>2. st[i + 1] = DogeStep(h, st[i], i) /\ st[i] \in DogeStates
      BY <1>2, <3>1 DEF IsDoge
    <3>3. Accounted(st[i], i, n, s)
      BY <1>5, <3>1
    <3>4. Accounted(st[i + 1], i + 1, n, s)
      BY <1>3, <3>1, <3>2, <3>3, DogeCounts
    <3>5. QED
      BY <3>4
  <2>2. QED
    BY <2>1
<1>6. \A i \in Nat : i \in Q
  <2> HIDE DEF Q
  <2>1. QED
    BY <1>4, <1>5, Induct
<1> DEFINE x == st[DogeHalvings]
<1>7. Accounted(x, DogeHalvings, n, s) /\ x.done \in BOOLEAN
  <2>1. DogeHalvings \in 0..DogeHalvings /\ DogeHalvings \in Q
    BY <1>0, <1>6
  <2>2. st[DogeHalvings] \in DogeStates
    BY <1>2, <2>1 DEF IsDoge
  <2>3. QED
    BY <2>1, <2>2 DEF DogeStates
<1> HIDE DEF Q
<1>8. cumulativeDogeRewards(h) = IF x.accounted <= h THEN DogeRest(h, x) ELSE x.total
  BY <1>2
<1> HIDE DEF x
<1>9. CASE x.done
  <2>1. x.accounted = n /\ x.total = s[n]
    BY <1>7, <1>9 DEF Accounted
  <2>2. ~ (x.accounted <= h)
    BY <1>1, <2>1
  <2>3. QED
    BY <1>3, <1>8, <2>1, <2>2
<1>10. CASE ~ x.done
  <2> DEFINE from == x.accounted
             rest == n - from
  <2>1. from = DogeInterval * DogeHalvings /\ from < n /\ x.total = s[from] /\ from \in 0..n
    BY <1>7, <1>10 DEF Accounted
  <2>2. from <= h /\ rest \in Nat /\ rest < HeightTop \div 2 /\ from \in Nat /\ n \in 0..n /\ from <= n
    <3> HIDE DEF from
    <3>1. QED
      BY <1>0, <1>1, <2>1
  <2>3. ASSUME NEW b \in Nat, from <= b, b < n PROVE BlockReward("doge", b) = DogeTail
    <3>1. DogeInterval * DogeHalvings = DogeHalvings * DogeInterval
      BY <1>0
    <3>2. b >= DogeHalvings * DogeInterval
      BY <2>1, <2>3, <3>1
    <3>3. QED
      BY <3>2 DEF BlockReward, dogeBlockReward
  <2>4. s[n] = s[from] + rest * DogeTail
    <3> HIDE DEF from, n
    <3>1. QED
      BY <1>0, <1>1, <1>3, <2>2, <2>3, SameRewards
  <2>5. Int64(U(rest)) = rest
    <3> HIDE DEF rest
    <3>1. QED
      BY <1>0, <2>2 DEF U, Int64
  <2>6. DogeRest(h, x) = x.total + Int64(U(rest)) * DogeTail
    <3>1. h + 1 - x.accounted = rest
      <4> DEFINE a == x.accounted
      <4>1. a \in Nat
        BY <2>2
      <4> HIDE DEF a
      <4>2. h + 1 - a = (h + 1) - a
        BY <4>1
      <4>3. QED
        BY <4>2 DEF a
    <3> HIDE DEF rest
    <3>2. QED
      BY <3>1 DEF DogeRest
  <2>7. QED
    BY <1>3, <1>8, <2>1, <2>2, <2>4, <2>5, <2>6
<1>11. QED
  BY <1>7, <1>9, <1>10
-----------------------------------------------------------------------------
\* Whole years, and the days of the last.
LEMMA DashIsSum ==
  ASSUME NEW h \in Nat
  PROVE  cumulativeDashRewards(h) = Minted("dash", h + 1)
<1> DEFINE n == h + 1
           years == h \div DashYear
           first == 0
           IsRun(f) == f = [i \in 0..years |-> IF i = 0 THEN first
                              ELSE f[i - 1] + dashYearlyBlockReward(i - 1) * DashYear]
           step == [i \in 1..years |-> [x \in Nat |-> x + dashYearlyBlockReward(i - 1) * DashYear]]
<1>0. DashYear \in Positive /\ DashYear \in Nat /\ n \in Nat /\ "dash" \in RewardModels
  BY RewardsAssumption DEF Positive, RewardModels
<1>1. /\ years \in Nat /\ h % DashYear \in 0..DashYear-1 /\ h = DashYear * years + (h % DashYear)
  BY <1>0, DivFacts
<1>2. PICK s : Minted("dash", n) = s[n] /\ IsSum(s, "dash", n)
  BY <1>0, SumExists
<1> DEFINE r == CHOOSE r : IsRun(r)
<1>3. cumulativeDashRewards(h) = r[years] + dashYearlyBlockReward(years) * DashLastYear(h)
  BY Zenon DEF cumulativeDashRewards
<1> HIDE DEF years, n
<1>4. \A i \in 0..years : DashYear * i \in 0..n /\ DashYear * i \in Nat /\ DashYear * i <= h
  <2> TAKE i \in 0..years
  <2>1. DashYear * i \in Nat /\ DashYear * years \in Nat /\ DashYear * i <= DashYear * years
    BY <1>0, <1>1, TimesGrows
  <2>2. DashYear * years <= h
    BY <1>1, <2>1
  <2>3. DashYear * i <= h
    BY <2>1, <2>2
  <2>4. QED
    BY <2>1, <2>3 DEF n
\* One year.
<1>5. ASSUME NEW i \in 0..years, NEW to \in 0..n, DashYear * i <= to, to <= DashYear * i + DashYear
      PROVE  s[to] = s[DashYear * i] + (to - DashYear * i) * dashYearlyBlockReward(i)
  <2> DEFINE from == DashYear * i
             c == dashYearlyBlockReward(i)
  <2>1. from \in Nat /\ from <= to /\ c \in Nat /\ to <= from + DashYear /\ i \in Nat
    BY <1>0, <1>1, <1>4, <1>5, RewardType
  <2>2. ASSUME NEW b \in Nat, from <= b, b < to PROVE BlockReward("dash", b) = c
    <3>1. b < from + DashYear
      <4> HIDE DEF from
      <4>1. QED
        BY <1>0, <2>1, <2>2
    <3>2. b \div DashYear = i
      BY <1>0, <2>1, <2>2, <3>1, QuotientIs
    <3>3. QED
      BY <3>2 DEF BlockReward, dashBlockReward
  <2> HIDE DEF from, c
  <2>3. s[to] = s[from] + (to - from) * c
    BY <1>0, <1>2, <2>1, <2>2, SameRewards
  <2>4. QED
    BY <2>3 DEF from, c
<1>6. \A i \in 1..years : s[DashYear * i] = s[DashYear * (i - 1)] + dashYearlyBlockReward(i - 1) * DashYear
  <2> TAKE i \in 1..years
  <2> DEFINE j == i - 1
             from == DashYear * j
             to == DashYear * i
             c == dashYearlyBlockReward(j)
  <2>1. j \in 0..years /\ i \in 0..years /\ j \in Nat /\ i = j + 1
    BY <1>1
  <2> HIDE DEF j
  <2>2. to = from + DashYear /\ from \in Nat /\ to \in 0..n
    BY <1>0, <1>4, <2>1
  <2>3. from <= to /\ to <= from + DashYear
    <3> HIDE DEF from, to
    <3>1. QED
      BY <1>0, <2>2
  <2>4. s[to] = s[from] + (to - from) * c
    BY <1>5, <2>1, <2>2, <2>3
  <2>5. c \in Nat
    BY <2>1, RewardType
  <2>6. (to - from) * c = c * DashYear
    <3> HIDE DEF from, to, c
    <3>1. to - from = DashYear
      BY <1>0, <2>2
    <3>2. QED
      BY <1>0, <2>5, <3>1
  <2>7. QED
    BY <2>4, <2>6 DEF j
\* The sum over the years.
<1> DEFINE f == [i \in 0..years |-> s[DashYear * i]]
<1>7. s[DashYear * 0] = 0
  <2>1. DashYear * 0 = 0
    BY <1>0
  <2>2. QED
    BY <1>2, <2>1 DEF IsSum
<1>8. IsRun(f)
  <2>1. f[0] = 0
    BY <1>1, <1>7
  <2>2. \A i \in 1..years : f[i] = f[i - 1] + dashYearlyBlockReward(i - 1) * DashYear
    <3> TAKE i \in 1..years
    <3>1. i \in 0..years /\ i - 1 \in 0..years
      BY <1>1
    <3>2. f[i] = s[DashYear * i] /\ f[i - 1] = s[DashYear * (i - 1)]
      BY <3>1
    <3>3. QED
      BY <1>6, <3>2, Zenon
  <2>3. f = [i \in 0..years |-> f[i]]
    OBVIOUS
  <2> HIDE DEF f
  <2>4. \A i \in 0..years : f[i] = IF i = 0 THEN first
                               ELSE f[i - 1] + dashYearlyBlockReward(i - 1) * DashYear
    <3> TAKE i \in 0..years
    <3>1. CASE i = 0
      BY <2>1, <3>1
    <3>2. CASE i # 0
      <4>1. i \in 1..years
        BY <1>1, <3>2
      <4>2. QED
        BY <2>2, <3>2, <4>1, Zenon
    <3>3. QED
      BY <3>1, <3>2
  <2>5. QED
    BY <2>3, <2>4, Zenon
<1>9. IsRun(r)
  <2> HIDE DEF IsRun, f
  <2>1. QED
    BY <1>8
<1> HIDE DEF r
<1>10. r[0] = 0 /\ \A i \in 1..years : r[i] = r[i - 1] + dashYearlyBlockReward(i - 1) * DashYear
  BY <1>1, <1>9
<1> HIDE DEF f
<1> DEFINE Q == { i \in Nat : i \in 0..years => r[i] = s[DashYear * i] }
<1>11. 0 \in Q
  BY <1>7, <1>10
<1>12. ASSUME NEW i \in Nat, i \in Q PROVE i + 1 \in Q
  <2>1. CASE i + 1 \in 0..years
    <3>1. i \in 0..years /\ i + 1 \in 1..years /\ (i + 1) - 1 = i
      BY <1>1, <2>1
    <3>2. r[i] = s[DashYear * i]
      BY <1>12, <3>1
    <3>3. r[i + 1] = r[i] + dashYearlyBlockReward(i) * DashYear
      BY <1>10, <3>1
    <3>4. s[DashYear * (i + 1)] = s[DashYear * i] + dashYearlyBlockReward(i) * DashYear
      BY <1>6, <3>1
    <3>5. r[i + 1] = s[DashYear * (i + 1)]
      BY <3>2, <3>3, <3>4
    <3>6. QED
      BY <3>5
  <2>2. QED
    BY <2>1
<1>13. \A i \in Nat : i \in Q
  <2> HIDE DEF Q
  <2>1. QED
    BY <1>11, <1>12, Induct
<1>14. r[years] = s[DashYear * years] /\ years \in 0..years
  BY <1>1, <1>13
\* The last year.
<1> DEFINE from == DashYear * years
           c == dashYearlyBlockReward(years)
<1>15. from \in Nat /\ from <= n /\ n <= from + DashYear /\ n \in 0..n /\ n - from = DashLastYear(h)
  <2>1. from \in Nat /\ h = from + (h % DashYear) /\ h % DashYear \in 0..DashYear-1
    BY <1>0, <1>1
  <2> DEFINE m == h % DashYear
  <2> HIDE DEF from, m
  <2>2. n = from + m + 1 /\ m \in 0..DashYear-1
    BY <2>1 DEF n, m
  <2>3. from <= n /\ n <= from + DashYear /\ n - from = m + 1
    BY <1>0, <2>1, <2>2
  <2>4. QED
    BY <1>0, <2>1, <2>3 DEF DashLastYear, m
<1>16. s[n] = s[from] + (n - from) * c
  BY <1>5, <1>14, <1>15
<1>17. c \in Nat /\ DashLastYear(h) \in Nat
  BY <1>0, <1>1, RewardType DEF DashLastYear
<1>18. c * DashLastYear(h) = (n - from) * c
  <2> DEFINE d == DashLastYear(h)
  <2> HIDE DEF c, d, from
  <2>1. n - from = d /\ d \in Nat /\ c \in Nat
    BY <1>15, <1>17 DEF d
  <2>2. c * d = d * c
    BY <2>1
  <2>3. QED
    BY <2>1, <2>2 DEF d
<1>19. QED
  BY <1>2, <1>3, <1>14, <1>16, <1>18 DEF n

LEMMA ZeroIsSum ==
  ASSUME NEW h \in Nat
  PROVE  CumulativeReward("zero", h) = Minted("zero", h + 1)
<1> DEFINE n == h + 1
<1>1. "zero" \in RewardModels /\ n \in Nat /\ 0 \in Nat /\ 0 <= n /\ n \in 0..n /\ n - 0 = n
  BY DEF RewardModels
<1>2. PICK s : Minted("zero", n) = s[n] /\ IsSum(s, "zero", n)
  BY <1>1, SumExists
<1>3. \A b \in Nat : BlockReward("zero", b) = 0
  BY DEF BlockReward
<1> HIDE DEF n
<1>4. s[n] = s[0] + (n - 0) * 0
  BY <1>1, <1>2, <1>3, SameRewards
<1>5. s[0] = 0
  BY <1>2 DEF IsSum
<1>6. s[n] = 0
  BY <1>1, <1>4, <1>5
<1>7. CumulativeReward("zero", h) = 0
  BY DEF CumulativeReward
<1>8. QED
  BY <1>2, <1>6, <1>7 DEF n

\* The coins that were minted up to a block are the rewards of all blocks up to it, of
\* every model, for every reward, interval, number of halvings and width of a height
\* (reward.go:165, 187, 217, 272): the clamp of one block is where the loop of the sum ends.
THEOREM RewardsAddUp ==
  call \in [f : {"CumulativeReward"}, model : RewardModels, height : 0..HeightTop-1]
    /\ [][Answered]_call => []CumulativeIsSum
<1> DEFINE Calls == [f : {"CumulativeReward"}, model : RewardModels, height : 0..HeightTop-1]
<1>1. call \in Calls => CumulativeIsSum
  <2> SUFFICES ASSUME call \in Calls, call.height + 1 < HeightTop \div 2
               PROVE  CumulativeReward(call.model, call.height) = Minted(call.model, call.height + 1)
    BY Zenon DEF CumulativeIsSum
  <2> DEFINE h == call.height
  <2>1. h \in Nat /\ h + 1 < HeightTop \div 2 /\ call.model \in RewardModels
    BY RewardsAssumption
  <2> HIDE DEF h
  <2>2. CASE call.model = "halving"
    BY <2>1, <2>2, HalvingIsSum DEF CumulativeReward, h
  <2>3. CASE call.model = "doge"
    BY <2>1, <2>3, DogeIsSum DEF CumulativeReward, h
  <2>4. CASE call.model = "dash"
    BY <2>1, <2>4, DashIsSum DEF CumulativeReward, h
  <2>5. CASE call.model = "zero"
    BY <2>1, <2>5, ZeroIsSum DEF h
  <2>6. QED
    BY <2>1, <2>2, <2>3, <2>4, <2>5 DEF RewardModels
<1>2. call \in Calls /\ [Answered]_call => (call \in Calls)'
  <2>1. CASE call' = call
    BY <2>1
  <2>2. QED
    BY <2>1 DEF Answered
<1>3. QED
  BY <1>1, <1>2, PTL
=============================================================================
