----------------------------- MODULE TronTxProofs -----------------------------
(***************************************************************************)
(* What an AbiBuffer lays out is read as the ABI says, after any calls; a  *)
(* TronTx, which sends such calldata, is read by a node as it was meant    *)
(* and keeps the promise of Approvals.  For all drafts, requests,          *)
(* contracts, signers and bounds.                                          *)
(***************************************************************************)
EXTENDS TronTx, Calldata, SharedLemmas, SequenceTheorems

(***************************************************************************)
(* Words.                                                                  *)
(***************************************************************************)
Octets == 0..AbiByte-1

LEMMA AbiConstants ==
  /\ AbiByte \in Positive /\ AbiByte > 1 /\ AbiWord \in Positive /\ Limit \in Positive
  /\ AbiAddress \in Nat /\ AbiAddress <= AbiWord
<1>1. AbiByte \in Positive /\ AbiByte > 1 /\ AbiWord \in Positive
      /\ AbiAddress \in Nat /\ AbiAddress <= AbiWord
  BY AbiAssumption DEF Positive
<1>2. AbiWord \in Nat
  BY <1>1 DEF Positive
<1>3. Limit \in Positive
  BY <1>1, <1>2, PowerFacts DEF Limit
<1>4. QED
  BY <1>1, <1>3

LEMMA PowerGrows ==
  ASSUME NEW b \in Positive, NEW m \in Nat, NEW n \in Nat, m <= n
  PROVE  Power(b, m) <= Power(b, n)
<1> DEFINE Q == { k \in Nat : Power(b, m) <= Power(b, m + k) }
<1>1. 0 \in Q
  <2>1. Power(b, m) \in Positive /\ m + 0 = m
    BY PowerFacts
  <2>2. QED
    BY <2>1 DEF Positive
<1>2. ASSUME NEW k \in Nat, k \in Q PROVE k + 1 \in Q
  <2> DEFINE p == Power(b, m + k)
  <2>1. m + k \in Nat /\ m + (k + 1) = (m + k) + 1
    OBVIOUS
  <2>2. p \in Positive /\ Power(b, m + (k + 1)) = b * p /\ Power(b, m) \in Positive
    BY <2>1, PowerFacts
  <2>3. Power(b, m) <= p
    BY <1>2
  <2> HIDE DEF p
  <2>4. p <= b * p
    <3>1. b \in Nat /\ b >= 1 /\ p \in Nat
      BY <2>2 DEF Positive
    <3>2. (b - 1) * p >= 0 /\ b * p = (b - 1) * p + p
      BY <3>1
    <3>3. QED
      BY <3>1, <3>2
  <2>5. Power(b, m) <= b * p
    BY <2>2, <2>3, <2>4 DEF Positive
  <2>6. QED
    BY <2>2, <2>5
<1>3. \A k \in Nat : k \in Q
  <2> HIDE DEF Q
  <2>1. QED
    BY <1>1, <1>2, Induct
<1>4. n - m \in Nat /\ m + (n - m) = n
  OBVIOUS
<1>5. n - m \in Q
  BY <1>3, <1>4
<1>6. QED
  BY <1>4, <1>5

\* n[k] is the number that the first k bytes make.
Partial(n, bytes) ==
    /\ n \in [0..Len(bytes) -> Nat] /\ n[0] = 0
    /\ \A k \in 1..Len(bytes) : n[k] = n[k - 1] * AbiByte + bytes[k]
    /\ ValueOf(bytes) = n[Len(bytes)]

LEMMA ValueRuns ==
  ASSUME NEW bytes \in Seq(Octets)
  PROVE  \E n : Partial(n, bytes)
<1> DEFINE L == Len(bytes)
           IsRun(f) == f = [k \in 0..L |-> IF k = 0 THEN 0 ELSE f[k - 1] * AbiByte + bytes[k]]
           step == [k \in 1..L |-> [x \in Nat |-> x * AbiByte + bytes[k]]]
<1>1. L \in Nat /\ (\A k \in 1..L : bytes[k] \in Nat) /\ AbiByte \in Nat
  BY AbiConstants DEF Octets, Positive
<1>2. step \in [1..L -> [Nat -> Nat]]
  <2> SUFFICES ASSUME NEW k \in 1..L, NEW x \in Nat PROVE x * AbiByte + bytes[k] \in Nat
    OBVIOUS
  <2>1. bytes[k] \in Nat /\ x * AbiByte \in Nat
    BY <1>1
  <2>2. QED
    BY <2>1
<1> HIDE DEF step
<1>3. PICK f : f \in [0..L -> Nat] /\ f[0] = 0 /\ \A k \in 1..L : f[k] = step[k][f[k - 1]]
  <2>1. \E f : Iterates(f, Nat, 0, step, L)
    BY <1>1, <1>2, Iterated
  <2>2. QED
    BY <2>1 DEF Iterates
<1>4. \A k \in 1..L : f[k] = f[k - 1] * AbiByte + bytes[k]
  <2> TAKE k \in 1..L
  <2>1. k - 1 \in 0..L
    BY <1>1
  <2> HIDE DEF L
  <2>2. f[k - 1] \in Nat
    BY <1>3, <2>1, Zenon
  <2>3. QED
    BY <1>3, <2>2 DEF step
<1>5. IsRun(f)
  BY <1>1, <1>3, <1>4
<1> DEFINE r == CHOOSE r : IsRun(r)
<1>6. IsRun(r)
  <2> HIDE DEF IsRun
  <2>1. QED
    BY <1>5
<1>7. ValueOf(bytes) = r[L]
  BY Zenon DEF ValueOf
<1> HIDE DEF r, L
<1>8. r[0] = 0 /\ \A k \in 1..L : r[k] = r[k - 1] * AbiByte + bytes[k]
  BY <1>1, <1>6
<1> DEFINE Q == { k \in Nat : k \in 0..L => r[k] \in Nat }
<1>9. 0 \in Q
  BY <1>8
<1>10. ASSUME NEW k \in Nat, k \in Q PROVE k + 1 \in Q
  <2>1. CASE k + 1 \in 0..L
    <3>1. k \in 0..L /\ k + 1 \in 1..L /\ (k + 1) - 1 = k
      BY <1>1, <2>1
    <3>2. r[k] \in Nat /\ r[k + 1] = r[k] * AbiByte + bytes[k + 1] /\ bytes[k + 1] \in Nat
      BY <1>1, <1>8, <1>10, <3>1
    <3>3. r[k] * AbiByte \in Nat
      BY <1>1, <3>2
    <3>4. QED
      BY <3>2, <3>3
  <2>2. QED
    BY <2>1
<1>11. \A k \in Nat : k \in Q
  <2> HIDE DEF Q
  <2>1. QED
    BY <1>9, <1>10, Induct
<1>12. r \in [0..L -> Nat]
  <2>1. r = [k \in 0..L |-> r[k]]
    BY <1>6
  <2>2. \A k \in 0..L : r[k] \in Nat
    BY <1>1, <1>11
  <2>3. QED
    BY <2>1, <2>2
<1>13. QED
  BY <1>7, <1>8, <1>12, Zenon DEF L, Partial

\* A word of k bytes is smaller than the power.
LEMMA PartialBound ==
  ASSUME NEW bytes \in Seq(Octets), NEW n, Partial(n, bytes), NEW k \in 0..Len(bytes)
  PROVE  n[k] \in Nat /\ n[k] < Power(AbiByte, k)
<1> DEFINE L == Len(bytes)
           Q == { j \in Nat : j \in 0..L => n[j] < Power(AbiByte, j) }
<1>1. L \in Nat /\ (\A j \in 1..L : bytes[j] \in 0..AbiByte-1) /\ AbiByte \in Positive
  <2>1. L \in Nat /\ \A j \in 1..L : bytes[j] \in Octets
    OBVIOUS
  <2>2. QED
    BY <2>1, AbiConstants, Zenon DEF Octets
<1>2. /\ \A j \in 0..L : n[j] \in Nat
      /\ n[0] = 0 /\ \A j \in 1..L : n[j] = n[j - 1] * AbiByte + bytes[j]
  BY DEF Partial
<1> HIDE DEF L
<1>3. 0 \in Q
  <2>1. Power(AbiByte, 0) = 1
    BY <1>1, PowerFacts
  <2>2. QED
    BY <1>2, <2>1
<1>4. ASSUME NEW j \in Nat, j \in Q PROVE j + 1 \in Q
  <2>1. CASE j + 1 \in 0..L
    <3> DEFINE p == Power(AbiByte, j)
               v == n[j]
               x == bytes[j + 1]
    <3>1. j \in 0..L /\ j + 1 \in 1..L /\ (j + 1) - 1 = j
      BY <1>1, <2>1
    <3>2. v \in Nat /\ n[j + 1] = v * AbiByte + x /\ x \in 0..AbiByte-1 /\ v < p
      BY <1>1, <1>2, <1>4, <3>1
    <3>3. p \in Positive /\ Power(AbiByte, j + 1) = AbiByte * p
      BY <1>1, PowerFacts
    <3> HIDE DEF p, v, x
    <3>4. v * AbiByte + AbiByte <= AbiByte * p
      <4>1. AbiByte \in Nat /\ p \in Nat /\ p - v - 1 \in Nat
        BY <1>1, <3>2, <3>3 DEF Positive
      <4>2. (p - v - 1) * AbiByte >= 0
        BY <4>1
      <4>3. (p - v - 1) * AbiByte = AbiByte * p - v * AbiByte - AbiByte
        BY <3>2, <4>1
      <4>4. AbiByte * p \in Nat /\ v * AbiByte \in Nat
        BY <3>2, <4>1
      <4>5. QED
        BY <4>1, <4>2, <4>3, <4>4
    <3>5. n[j + 1] < Power(AbiByte, j + 1)
      <4>1. AbiByte \in Nat /\ AbiByte * p \in Nat /\ v * AbiByte \in Nat
        BY <1>1, <3>2, <3>3 DEF Positive
      <4>2. QED
        BY <3>2, <3>3, <3>4, <4>1
    <3>6. QED
      BY <3>5
  <2>2. QED
    BY <2>1
<1>5. \A j \in Nat : j \in Q
  <2> HIDE DEF Q
  <2>1. QED
    BY <1>3, <1>4, Induct
<1>6. QED
  BY <1>1, <1>2, <1>5 DEF L

LEMMA ValueBound ==
  ASSUME NEW bytes \in Seq(Octets), Len(bytes) <= AbiWord
  PROVE  ValueOf(bytes) \in 0..Limit-1
<1>1. PICK n : Partial(n, bytes)
  BY ValueRuns
<1>2. Len(bytes) \in 0..Len(bytes) /\ Len(bytes) \in Nat /\ AbiWord \in Nat
  BY AbiConstants DEF Positive
<1>3. n[Len(bytes)] \in Nat /\ n[Len(bytes)] < Power(AbiByte, Len(bytes))
  BY <1>1, <1>2, PartialBound
<1>4. ValueOf(bytes) = n[Len(bytes)]
  BY <1>1 DEF Partial
<1>5. Power(AbiByte, Len(bytes)) <= Limit /\ Power(AbiByte, Len(bytes)) \in Positive /\ Limit \in Positive
  BY <1>2, AbiConstants, PowerGrows, PowerFacts DEF Limit
<1>6. QED
  BY <1>3, <1>4, <1>5 DEF Positive

\* Different bytes, as many, are different numbers.
LEMMA ValueInjective ==
  ASSUME NEW x \in Seq(Octets), NEW y \in Seq(Octets), Len(x) = Len(y), ValueOf(x) = ValueOf(y)
  PROVE  x = y
<1>1. PICK m : Partial(m, x)
  BY ValueRuns
<1>2. PICK n : Partial(n, y)
  BY ValueRuns
<1> DEFINE L == Len(x)
<1>3. /\ \A j \in 0..L : m[j] \in Nat /\ n[j] \in Nat
      /\ \A j \in 1..L : m[j] = m[j - 1] * AbiByte + x[j]
      /\ \A j \in 1..L : n[j] = n[j - 1] * AbiByte + y[j]
      /\ m[L] = n[L]
  BY <1>1, <1>2 DEF Partial
<1>4. /\ L \in Nat /\ AbiByte \in Nat /\ AbiByte > 1
      /\ \A j \in 1..L : x[j] \in 0..AbiByte-1 /\ y[j] \in 0..AbiByte-1
  BY AbiConstants DEF Octets, Positive
<1> HIDE DEF L
<1>5. ASSUME NEW j \in 1..L, m[j] = n[j] PROVE m[j - 1] = n[j - 1] /\ x[j] = y[j]
  <2> DEFINE a == m[j - 1]
             b == n[j - 1]
             c == x[j]
             d == y[j]
  <2>1. j - 1 \in 0..L
    BY <1>4
  <2>2. a \in Nat /\ b \in Nat /\ c \in 0..AbiByte-1 /\ d \in 0..AbiByte-1
    BY <1>3, <1>4, <2>1
  <2>3. a * AbiByte + c = b * AbiByte + d
    BY <1>3, <1>5
  <2> HIDE DEF a, b, c, d
  <2>4. (a * AbiByte + c) \div AbiByte = a /\ (b * AbiByte + d) \div AbiByte = b
    BY <1>4, <2>2
  <2>5. a = b
    BY <2>3, <2>4
  <2>6. c = d
    <3>1. a * AbiByte \in Nat
      BY <1>4, <2>2
    <3>2. QED
      BY <1>4, <2>2, <2>3, <2>5, <3>1
  <2>7. QED
    BY <2>5, <2>6 DEF a, b, c, d
<1> DEFINE Q == { k \in Nat : k \in 0..L => m[L - k] = n[L - k] }
<1>6. 0 \in Q
  BY <1>3, <1>4
<1>7. ASSUME NEW k \in Nat, k \in Q PROVE k + 1 \in Q
  <2>1. CASE k + 1 \in 0..L
    <3>1. k \in 0..L /\ L - k \in 1..L /\ (L - k) - 1 = L - (k + 1)
      BY <1>4, <2>1
    <3>2. m[L - k] = n[L - k]
      BY <1>7, <3>1
    <3>3. m[(L - k) - 1] = n[(L - k) - 1]
      BY <1>5, <3>1, <3>2
    <3>4. QED
      BY <3>1, <3>3
  <2>2. QED
    BY <2>1
<1>8. \A k \in Nat : k \in Q
  <2> HIDE DEF Q
  <2>1. QED
    BY <1>6, <1>7, Induct
<1>9. \A j \in 1..L : x[j] = y[j]
  <2> TAKE j \in 1..L
  <2>1. L - j \in Nat /\ L - j \in 0..L /\ L - (L - j) = j
    BY <1>4
  <2>2. m[j] = n[j]
    BY <1>8, <2>1
  <2>3. QED
    BY <1>5, <2>2
<1>10. QED
  BY <1>9 DEF L

\* Dividing twice divides by the product.
LEMMA DividedTwice ==
  ASSUME NEW a \in Nat, NEW p \in Positive, NEW b \in Positive
  PROVE  (a \div p) \div b = a \div (b * p)
<1> DEFINE q == a \div p
           r == a % p
           s == q \div b
           t == q % b
           d == b * p
<1>1. q \in Nat /\ r \in 0..p-1 /\ a = p * q + r
  BY DivFacts
<1> HIDE DEF q, r
<1>2. s \in Nat /\ t \in 0..b-1 /\ q = b * s + t
  BY <1>1, DivFacts
<1> HIDE DEF s, t
<1>3. b \in Nat /\ p \in Nat /\ b > 0 /\ p > 0
  BY DEF Positive
<1>4. d \in Nat /\ d > 0
  BY <1>3
<1>5. a = d * s + p * t + r
  <2>1. p * (b * s + t) = (b * p) * s + p * t
    BY <1>2, <1>3
  <2>2. QED
    BY <1>1, <1>2, <2>1
<1>6. p * t >= 0 /\ p * t + p <= d
  <2>1. b - 1 - t \in Nat /\ t \in Nat
    BY <1>2, <1>3
  <2>2. p * (b - 1 - t) >= 0 /\ p * t \in Nat
    BY <1>3, <2>1
  <2>3. p * (b - 1 - t) = b * p - p - p * t
    BY <1>3, <2>1
  <2>4. QED
    BY <1>3, <1>4, <2>2, <2>3
<1> HIDE DEF d
<1>7. d * s <= a /\ a < d * s + d
  <2> DEFINE x == d * s
             y == p * t
  <2>1. x \in Nat /\ y \in Int
    <3>1. t \in Int
      BY <1>2
    <3>2. QED
      BY <1>2, <1>3, <1>4, <3>1
  <2>2. a = x + y + r /\ y >= 0 /\ y + p <= d
    BY <1>5, <1>6
  <2> HIDE DEF x, y
  <2>3. x <= a /\ a < x + d
    BY <1>1, <1>3, <1>4, <2>1, <2>2
  <2>4. QED
    BY <2>3 DEF x
<1>8. a \div d = s
  BY <1>2, <1>4, <1>7, QuotientIs DEF Positive
<1>9. QED
  BY <1>8 DEF d, s, q

LEMMA WordType ==
  ASSUME NEW v \in Nat
  PROVE  /\ WordBytes(v) \in Seq(Octets) /\ Len(WordBytes(v)) = AbiWord
         /\ \A k \in 1..AbiWord : WordBytes(v)[k] = (v \div Power(AbiByte, AbiWord - k)) % AbiByte
<1>1. AbiWord \in Nat /\ AbiByte \in Positive /\ AbiByte \in Nat /\ AbiByte > 0
  BY AbiConstants DEF Positive
<1>2. ASSUME NEW k \in 1..AbiWord PROVE (v \div Power(AbiByte, AbiWord - k)) % AbiByte \in Octets
  <2>1. AbiWord - k \in Nat
    BY <1>1
  <2>2. Power(AbiByte, AbiWord - k) \in Positive
    BY <1>1, <2>1, PowerFacts
  <2>3. v \div Power(AbiByte, AbiWord - k) \in Nat
    BY <2>2, DivFacts
  <2>4. QED
    BY <1>1, <2>3 DEF Octets
<1>3. WordBytes(v) \in [1..AbiWord -> Octets]
  BY <1>2 DEF WordBytes
<1>4. QED
  BY <1>1, <1>3 DEF WordBytes

\* A word holds what was written into it.
LEMMA WordReadBack ==
  ASSUME NEW v \in 0..Limit-1
  PROVE  ValueOf(WordBytes(v)) = v
<1> DEFINE w == WordBytes(v)
<1>1. v \in Nat /\ AbiWord \in Nat /\ AbiByte \in Positive /\ AbiByte \in Nat /\ Limit \in Positive /\ v < Limit
  BY AbiConstants DEF Positive
<1>2. /\ w \in Seq(Octets) /\ Len(w) = AbiWord
      /\ \A k \in 1..AbiWord : w[k] = (v \div Power(AbiByte, AbiWord - k)) % AbiByte
  BY <1>1, WordType
<1> HIDE DEF w
<1>3. PICK n : Partial(n, w)
  BY <1>2, ValueRuns
<1>4. n[0] = 0 /\ (\A k \in 1..AbiWord : n[k] = n[k - 1] * AbiByte + w[k]) /\ ValueOf(w) = n[AbiWord]
  BY <1>2, <1>3 DEF Partial
<1> DEFINE Q == { k \in Nat : k \in 0..AbiWord => n[k] = v \div Power(AbiByte, AbiWord - k) }
<1>5. 0 \in Q
  <2>1. v \div Limit = 0
    BY <1>1, DivFacts
  <2>2. AbiWord - 0 = AbiWord
    BY <1>1
  <2>3. QED
    BY <1>4, <2>1, <2>2 DEF Limit
<1>6. ASSUME NEW k \in Nat, k \in Q PROVE k + 1 \in Q
  <2>1. CASE k + 1 \in 0..AbiWord
    <3> DEFINE e == AbiWord - (k + 1)
               p == Power(AbiByte, e)
               q == v \div p
    <3>1. k \in 0..AbiWord /\ k + 1 \in 1..AbiWord /\ (k + 1) - 1 = k /\ e \in Nat /\ AbiWord - k = e + 1
      BY <1>1, <2>1
    <3>2. n[k] = v \div Power(AbiByte, e + 1)
      BY <1>6, <3>1
    <3>3. n[k + 1] = n[k] * AbiByte + w[k + 1] /\ w[k + 1] = q % AbiByte
      <4>1. n[k + 1] = n[(k + 1) - 1] * AbiByte + w[k + 1]
        BY <1>4, <3>1
      <4>2. w[k + 1] = (v \div Power(AbiByte, AbiWord - (k + 1))) % AbiByte
        BY <1>2, <3>1
      <4>3. QED
        BY <3>1, <4>1, <4>2
    <3> HIDE DEF e
    <3>4. p \in Positive /\ Power(AbiByte, e + 1) = AbiByte * p
      BY <1>1, <3>1, PowerFacts
    <3> HIDE DEF p
    <3>5. n[k] = q \div AbiByte
      BY <1>1, <3>2, <3>4, DividedTwice
    <3>6. q \in Nat
      BY <1>1, <3>4, DivFacts
    <3> HIDE DEF q
    <3>7. q = AbiByte * (q \div AbiByte) + (q % AbiByte) /\ q \div AbiByte \in Nat /\ q % AbiByte \in 0..AbiByte-1
      BY <1>1, <3>6, DivFacts
    <3>8. n[k + 1] = q
      <4> DEFINE x == q \div AbiByte
      <4>1. x \in Nat /\ n[k] = x /\ q = AbiByte * x + (q % AbiByte)
        BY <3>5, <3>7
      <4> HIDE DEF x
      <4>2. x * AbiByte = AbiByte * x
        BY <1>1, <4>1
      <4>3. QED
        BY <3>3, <4>1, <4>2
    <3>9. QED
      BY <3>8 DEF q, p, e
  <2>2. QED
    BY <2>1
<1>7. \A k \in Nat : k \in Q
  <2> HIDE DEF Q
  <2>1. QED
    BY <1>5, <1>6, Induct
<1>8. n[AbiWord] = v \div Power(AbiByte, 0)
  <2>1. AbiWord \in 0..AbiWord /\ AbiWord - AbiWord = 0
    BY <1>1
  <2>2. QED
    BY <1>1, <1>7, <2>1
<1>9. Power(AbiByte, 0) = 1
  BY <1>1, PowerFacts
<1>10. v \div 1 = v
  BY <1>1
<1>11. QED
  BY <1>4, <1>8, <1>9, <1>10 DEF w

\* From the byte behind at on, the bytes are these.
Stands(bytes, at, part) ==
    /\ at + Len(part) <= Len(bytes)
    /\ \A i \in 1..Len(part) : bytes[at + i] = part[i]

LEMMA StandsRead ==
  ASSUME NEW bytes \in Seq(Octets), NEW part \in Seq(Octets), NEW at \in Nat, Stands(bytes, at, part)
  PROVE  SubSeq(bytes, at + 1, at + Len(part)) = part
<1> DEFINE L == Len(part)
           s == SubSeq(bytes, at + 1, at + L)
<1>1. L \in Nat /\ at + L <= Len(bytes) /\ (\A i \in 1..L : bytes[at + i] = part[i])
  BY DEF Stands
<1> HIDE DEF L
<1>2. \A i \in at + 1..at + L : bytes[i] \in Octets
  <2> TAKE i \in at + 1..at + L
  <2>1. i \in 1..Len(bytes)
    BY <1>1
  <2>2. QED
    BY <2>1
<1>3. /\ s \in Seq(Octets) /\ Len(s) = L
      /\ \A i \in 1..L : s[i] = part[i]
  <2> DEFINE m == at + 1
             n == at + L
  <2>1. m \in Int /\ n \in Int /\ n - m + 1 = L /\ (m <= n <=> L # 0)
    BY <1>1
  <2>2. \A i \in m..n : bytes[i] \in Octets
    BY <1>2
  <2>3. ASSUME NEW i \in 1..L PROVE bytes[m + i - 1] = part[i]
    <3>1. m + i - 1 = at + i
      BY <1>1
    <3>2. QED
      BY <1>1, <3>1
  <2> HIDE DEF m, n
  <2>4. /\ SubSeq(bytes, m, n) \in Seq(Octets)
        /\ Len(SubSeq(bytes, m, n)) = IF m <= n THEN n - m + 1 ELSE 0
        /\ \A i \in 1..n - m + 1 : SubSeq(bytes, m, n)[i] = bytes[m + i - 1]
    BY <2>1, <2>2, SubSeqProperties
  <2>5. s = SubSeq(bytes, m, n)
    BY DEF m, n
  <2> HIDE DEF s
  <2>6. QED
    BY <1>1, <2>1, <2>3, <2>4, <2>5
<1> HIDE DEF s
<1>4. s = part
  <2>1. Len(part) = L
    BY DEF L
  <2>2. QED
    BY <1>3, <2>1
<1>5. QED
  BY <1>4 DEF s, L

LEMMA WordStands ==
  ASSUME NEW bytes \in Seq(Octets), NEW at \in Nat, NEW v \in 0..Limit-1, Stands(bytes, at, WordBytes(v))
  PROVE  Word(bytes, at) = v
<1>1. WordBytes(v) \in Seq(Octets) /\ Len(WordBytes(v)) = AbiWord
  <2>1. v \in Nat
    BY AbiConstants DEF Positive
  <2>2. QED
    BY <2>1, WordType
<1>2. SubSeq(bytes, at + 1, at + AbiWord) = WordBytes(v)
  BY <1>1, StandsRead
<1>3. QED
  BY <1>2, WordReadBack DEF Word

-----------------------------------------------------------------------------
(***************************************************************************)
(* One argument.                                                           *)
(***************************************************************************)
Strings == [offset : Nat, data : Seq(Octets)]
Buffers == [buf : Seq(Octets), str : Seq(Strings), ok : BOOLEAN]

\* What a Go value of the kind has; an *Out for Ethereum is of an address.
IsParam(p) ==
    /\ p.kind = "int" => p.n \in Int
    /\ p.kind \in {"bytes", "text", "eth out"} => p.v \in Seq(Octets)
    /\ p.kind = "text" => p.hex \in Seq(Octets)
    /\ p.kind = "eth out" => Len(p.v) = AbiAddress

Packed(v) == WordBytes(Len(v)) \o v

\* What the code writes for an argument: the bytes of a string, or the number in a
\* word, to the right whatever the type.
Held(x) ==
    CASE x.type \in BytesTypes -> x.param.v
      [] x.type \in UintTypes  -> x.param.n % Limit
      [] OTHER -> ValueOf(IF x.param.kind = "text" THEN x.param.hex ELSE x.param.v)

\* r is b and argument x.
Took(b, r, x) ==
    /\ r = [buf |-> r.buf, str |-> r.str, ok |-> TRUE]
    /\ IF x.type \in BytesTypes
       THEN /\ x.param.v \in Seq(Octets)
            /\ r.buf = b.buf \o Zeros(AbiWord)
            /\ r.str = Append(b.str, [offset |-> Len(b.buf), data |-> Packed(x.param.v)])
       ELSE /\ Held(x) \in 0..Limit-1
            /\ r.buf = b.buf \o WordBytes(Held(x)) /\ r.str = b.str

LEMMA BigIntTaken ==
  ASSUME NEW b \in Buffers, b.ok, NEW v \in Int
  PROVE  IF v \in 1-Limit..Limit-1
         THEN AppendBigInt(b, v) = [b EXCEPT !.buf = @ \o WordBytes(v % Limit)] /\ v % Limit \in 0..Limit-1
              /\ (v >= 0 => v % Limit = v)
         ELSE AppendBigInt(b, v) = Failed(b)
<1>1. Limit \in Nat /\ Limit > 0
  BY AbiConstants DEF Positive
<1> DEFINE w == IF v < 0 THEN Limit + v ELSE v
<1>2. CASE v \in 1-Limit..Limit-1
  <2>1. v % Limit = w /\ w \in 0..Limit-1 /\ (v < 0 => w > 0)
    BY <1>1, <1>2
  <2>2. AppendBigInt(b, v) = [b EXCEPT !.buf = @ \o WordBytes(w)]
    <3>1. ~ ((v < 0 /\ w <= 0) \/ w >= Limit)
      BY <1>1, <2>1
    <3>2. QED
      BY <3>1, Zenon DEF AppendBigInt
  <2>3. v >= 0 => w = v
    OBVIOUS
  <2> HIDE DEF w
  <2>4. QED
    BY <1>2, <2>1, <2>2, <2>3
<1>3. CASE v \notin 1-Limit..Limit-1
  <2>1. (v < 0 /\ w <= 0) \/ w >= Limit
    BY <1>1, <1>3
  <2>2. AppendBigInt(b, v) = Failed(b)
    BY <2>1, Zenon DEF AppendBigInt
  <2>3. QED
    BY <1>3, <2>2
<1>4. QED
  BY <1>2, <1>3

LEMMA ValueTaken ==
  ASSUME NEW b \in Buffers, b.ok, NEW v \in Seq(Octets), Len(v) <= AbiWord
  PROVE  AppendBigInt(b, ValueOf(v)) = [b EXCEPT !.buf = @ \o WordBytes(ValueOf(v))] /\ ValueOf(v) \in 0..Limit-1
<1>1. ValueOf(v) \in 0..Limit-1 /\ Limit \in Nat /\ Limit > 0
  BY ValueBound, AbiConstants DEF Positive
<1>2. ValueOf(v) \in Int /\ ValueOf(v) \in 1-Limit..Limit-1 /\ ValueOf(v) >= 0
  BY <1>1
<1>3. QED
  BY <1>1, <1>2, BigIntTaken

\* A buffer with one field changed.
LEMMA BufferFields ==
  ASSUME NEW b \in Buffers, NEW x
  PROVE  /\ [b EXCEPT !.buf = x] = [buf |-> x, str |-> b.str, ok |-> b.ok]
         /\ [b EXCEPT !.ok = x] = [buf |-> b.buf, str |-> b.str, ok |-> x]
  BY DEF Buffers

LEMMA WordTook ==
  ASSUME NEW b \in Buffers, b.ok, NEW x, x.type \notin BytesTypes, Held(x) \in 0..Limit-1
  PROVE  Took(b, [b EXCEPT !.buf = @ \o WordBytes(Held(x))], x)
<1>1. b = [buf |-> b.buf, str |-> b.str, ok |-> b.ok] /\ b.ok = TRUE
  BY DEF Buffers
<1> DEFINE w == WordBytes(Held(x))
           c == b.buf \o w
           r == [b EXCEPT !.buf = c]
<1> HIDE DEF w, c
<1>2. r = [buf |-> c, str |-> b.str, ok |-> TRUE]
  <2>1. r = [buf |-> c, str |-> b.str, ok |-> b.ok]
    BY BufferFields, Zenon DEF r
  <2>2. QED
    BY <1>1, <2>1
<1> HIDE DEF r
<1>3. r.buf = c /\ r.str = b.str /\ r = [buf |-> r.buf, str |-> r.str, ok |-> TRUE]
  BY <1>2
<1>4. Took(b, r, x)
  BY <1>3, Zenon DEF w, c, Took
<1>5. QED
  BY <1>4, Zenon DEF w, c, r

LEMMA BytesTook ==
  ASSUME NEW b \in Buffers, b.ok, NEW x, x.type \in BytesTypes, x.param.v \in Seq(Octets)
  PROVE  Took(b, AppendBytes(b, x.param.v), x)
<1> DEFINE v == x.param.v
           s == [offset |-> Len(b.buf), data |-> Packed(v)]
<1>1. b = [buf |-> b.buf, str |-> b.str, ok |-> b.ok] /\ b.ok = TRUE
  BY DEF Buffers
<1>2. AppendBytes(b, v) = [b EXCEPT !.buf = @ \o Zeros(AbiWord), !.str = Append(@, s)]
  BY Zenon DEF AppendBytes, Packed, s
<1> HIDE DEF s
<1>3. AppendBytes(b, v) = [buf |-> b.buf \o Zeros(AbiWord), str |-> Append(b.str, s), ok |-> TRUE]
  BY <1>1, <1>2
<1> DEFINE r == AppendBytes(b, v)
<1>4. r = [buf |-> r.buf, str |-> r.str, ok |-> TRUE] /\ r.buf = b.buf \o Zeros(AbiWord) /\ r.str = Append(b.str, s)
  BY <1>3
<1> HIDE DEF r
<1>5. Took(b, r, x)
  BY <1>4, Zenon DEF Took, s, v
<1>6. QED
  BY <1>5, Zenon DEF r, v

\* The types of the ABI that take one word are those the code takes for numbers.
LEMMA WordTypes == UintTypes = NumberTypes \cup FixedBytes
  BY DEF UintTypes, NumberTypes, FixedBytes

LEMMA TypedTaken ==
  ASSUME NEW b \in Buffers, b.ok, NEW type, NEW p, IsParam(p)
  PROVE  LET x == [type |-> type, param |-> p]
             r == AppendTyped(b, type, p)
         IN  IF Suits(x) THEN Took(b, r, x) ELSE r = Failed(b)
<1> DEFINE x == [type |-> type, param |-> p]
           r == AppendTyped(b, type, p)
<1>0. x.type = type /\ x.param = p
  OBVIOUS
<1>1. CASE type \in UintTypes
  <2>1. type # "address" /\ type \notin BytesTypes
    BY <1>1 DEF UintTypes, BytesTypes
  <2>2. r = AppendUint256Any(b, p)
    BY <1>1, <2>1, Zenon DEF AppendTyped
  <2>3. Suits(x) <=> p.kind = "int" /\ p.n \in 1-Limit..Limit-1
    BY <1>0, <1>1, <2>1, WordTypes, Zenon DEF Suits
  <2> HIDE DEF x, r
  <2>4. CASE p.kind = "int"
    <3>1. r = AppendBigInt(b, p.n) /\ p.n \in Int
      BY <2>2, <2>4, Zenon DEF AppendUint256Any, IsParam
    <3>2. Held(x) = p.n % Limit
      BY <1>0, <1>1, <2>1, Zenon DEF Held
    <3>3. CASE Suits(x)
      <4>1. r = [b EXCEPT !.buf = @ \o WordBytes(p.n % Limit)] /\ p.n % Limit \in 0..Limit-1
        BY <2>3, <3>1, <3>3, BigIntTaken
      <4>2. Took(b, r, x)
        BY <1>0, <2>1, <3>2, <4>1, WordTook, Zenon
      <4>3. QED
        BY <3>3, <4>2 DEF x, r
    <3>4. CASE ~ Suits(x)
      <4>1. r = Failed(b)
        BY <2>3, <2>4, <3>1, <3>4, BigIntTaken
      <4>2. QED
        BY <3>4, <4>1 DEF x, r
    <3>5. QED
      BY <3>3, <3>4
  <2>5. CASE p.kind # "int"
    <3>1. r = Failed(b) /\ ~ Suits(x)
      BY <2>2, <2>3, <2>5, Zenon DEF AppendUint256Any
    <3>2. QED
      BY <3>1 DEF x, r
  <2>6. QED
    BY <2>4, <2>5
<1>2. CASE type = "address"
  <2>1. type \notin UintTypes /\ type \notin BytesTypes
    BY <1>2 DEF UintTypes, BytesTypes
  <2>2. r = AppendAddressAny(b, p)
    BY <1>2, <2>1, Zenon DEF AppendTyped
  <2>3. Suits(x) <=> \/ p.kind \in {"bytes", "eth out"} /\ Len(p.v) = AbiAddress
                     \/ p.kind = "text" /\ Len(p.hex) = AbiAddress
    BY <1>0, <1>2, <2>1, WordTypes, Zenon DEF Suits
  <2>4. Held(x) = ValueOf(IF p.kind = "text" THEN p.hex ELSE p.v)
    BY <1>0, <2>1, Zenon DEF Held
  <2> HIDE DEF x, r
  <2>5. ASSUME NEW v \in Seq(Octets), r = appendAddressBytes(b, v), Held(x) = ValueOf(v),
               Suits(x) <=> Len(v) = AbiAddress
        PROVE  IF Suits(x) THEN Took(b, r, x) ELSE r = Failed(b)
    <3>1. CASE Suits(x)
      <4>1. Len(v) = AbiAddress /\ r = AppendBigInt(b, ValueOf(v)) /\ Len(v) <= AbiWord
        BY <2>5, <3>1, AbiConstants, Zenon DEF appendAddressBytes
      <4>2. r = [b EXCEPT !.buf = @ \o WordBytes(ValueOf(v))] /\ ValueOf(v) \in 0..Limit-1
        BY <4>1, ValueTaken
      <4>3. Took(b, r, x)
        BY <1>0, <2>1, <2>5, <4>2, WordTook, Zenon DEF x
      <4>4. QED
        BY <3>1, <4>3
    <3>2. CASE ~ Suits(x)
      BY <2>5, <3>2, Zenon DEF appendAddressBytes
    <3>3. QED
      BY <3>1, <3>2
  <2>6. CASE p.kind \in {"bytes", "eth out"}
    <3>1. p.v \in Seq(Octets) /\ p.kind # "text"
      BY <2>6, Zenon DEF IsParam
    <3>2. r = appendAddressBytes(b, p.v)
      BY <2>2, <2>6, Zenon DEF AppendAddressAny
    <3>3. Held(x) = ValueOf(p.v)
      BY <2>4, <3>1, Zenon
    <3>4. Suits(x) <=> Len(p.v) = AbiAddress
      BY <2>3, <2>6, <3>1
    <3>5. QED
      BY <2>5, <3>1, <3>2, <3>3, <3>4, Zenon DEF x, r
  <2>7. CASE p.kind = "text"
    <3>1. p.hex \in Seq(Octets) /\ p.kind \notin {"bytes", "eth out"}
      BY <2>7, Zenon DEF IsParam
    <3>2. Held(x) = ValueOf(p.hex) /\ (Suits(x) <=> Len(p.hex) = AbiAddress)
      BY <2>3, <2>4, <2>7, <3>1, Zenon
    <3>3. CASE p.hex # <<>>
      <4>1. r = appendAddressBytes(b, p.hex)
        BY <2>2, <2>7, <3>1, <3>3, Zenon DEF AppendAddressAny
      <4>2. QED
        BY <2>5, <3>1, <3>2, <4>1, Zenon DEF x, r
    <3>4. CASE p.hex = <<>>
      <4>1. r = Failed(b)
        BY <2>2, <2>7, <3>1, <3>4, Zenon DEF AppendAddressAny
      <4>2. Len(p.hex) # AbiAddress
        BY <3>4, AbiAssumption
      <4>3. QED
        BY <3>2, <4>1, <4>2, Zenon DEF x, r
    <3>5. QED
      BY <3>3, <3>4
  <2>8. CASE p.kind \notin {"bytes", "eth out", "text"}
    <3>1. r = Failed(b)
      BY <2>2, <2>8, Zenon DEF AppendAddressAny
    <3>2. QED
      BY <2>3, <2>8, <3>1, Zenon DEF x, r
  <2>9. QED
    BY <2>6, <2>7, <2>8, Zenon
<1>3. CASE type \in BytesTypes
  <2>1. type \notin UintTypes /\ type # "address"
    BY <1>3 DEF UintTypes, BytesTypes
  <2>2. r = AppendBufferAny(b, p)
    BY <1>3, <2>1, Zenon DEF AppendTyped
  <2>3. Suits(x) <=> p.kind \in {"bytes", "text"}
    BY <1>0, <1>3, <2>1, WordTypes, Zenon DEF Suits
  <2> HIDE DEF x, r
  <2>4. CASE p.kind \in {"bytes", "text"}
    <3>1. p.v \in Seq(Octets) /\ r = AppendBytes(b, p.v)
      BY <2>2, <2>4, Zenon DEF IsParam, AppendBufferAny
    <3>2. Took(b, r, x)
      BY <1>0, <1>3, <3>1, BytesTook, Zenon DEF x
    <3>3. QED
      BY <2>3, <2>4, <3>2, Zenon DEF x, r
  <2>5. CASE p.kind \notin {"bytes", "text"}
    BY <2>2, <2>3, <2>5, Zenon DEF AppendBufferAny, x, r
  <2>6. QED
    BY <2>4, <2>5
<1>4. CASE type \notin UintTypes /\ type # "address" /\ type \notin BytesTypes
  <2>1. r = Failed(b)
    BY <1>4, Zenon DEF AppendTyped
  <2>2. ~ Suits(x)
    BY <1>0, <1>4, WordTypes, Zenon DEF Suits
  <2>3. QED
    BY <2>1, <2>2
<1>5. QED
  BY <1>1, <1>2, <1>3, <1>4, Zenon

LEMMA AutoTaken ==
  ASSUME NEW b \in Buffers, b.ok, NEW p, IsParam(p)
  PROVE  LET x == [type |-> AutoType(p), param |-> p]
             r == AppendAuto(b, p)
         IN  IF Suits(x) THEN Took(b, r, x) ELSE r = Failed(b)
<1> DEFINE type == AutoType(p)
           x == [type |-> type, param |-> p]
           r == AppendAuto(b, p)
<1>0. x.type = type /\ x.param = p
  OBVIOUS
<1>1. CASE p.kind = "int"
  <2>1. type = "uint256"
    BY <1>1, Zenon DEF AutoType
  <2>2. type \in UintTypes /\ type # "address" /\ type \notin BytesTypes
    BY <2>1 DEF UintTypes, BytesTypes
  <2>3. r = AppendTyped(b, type, p)
    <3>1. r = AppendBigInt(b, p.n)
      BY <1>1, Zenon DEF AppendAuto
    <3>2. AppendTyped(b, type, p) = AppendUint256Any(b, p)
      BY <2>2, Zenon DEF AppendTyped
    <3>3. QED
      BY <1>1, <3>1, <3>2, Zenon DEF AppendUint256Any
  <2>4. QED
    BY <2>3, TypedTaken, Zenon
<1>2. CASE p.kind \in {"bytes", "text"}
  <2>1. type = "bytes"
    <3>1. p.kind # "int"
      BY <1>2
    <3>2. QED
      BY <1>2, <3>1, Zenon DEF AutoType
  <2>2. type \in BytesTypes /\ type # "address" /\ type \notin UintTypes
    BY <2>1 DEF UintTypes, BytesTypes
  <2>3. r = AppendTyped(b, type, p)
    <3>1. p.kind # "int"
      BY <1>2
    <3>2. r = AppendBytes(b, p.v)
      BY <1>2, <3>1, Zenon DEF AppendAuto
    <3>3. AppendTyped(b, type, p) = AppendBufferAny(b, p)
      BY <2>2, Zenon DEF AppendTyped
    <3>4. QED
      BY <1>2, <3>2, <3>3, Zenon DEF AppendBufferAny
  <2>4. QED
    BY <2>3, TypedTaken, Zenon
<1>3. CASE p.kind = "eth out"
  <2>1. type = "address" /\ p.kind # "int" /\ p.kind \notin {"bytes", "text"}
    <3>1. p.kind # "int" /\ p.kind \notin {"bytes", "text"}
      BY <1>3
    <3>2. QED
      BY <1>3, <3>1, Zenon DEF AutoType
  <2>2. type \notin BytesTypes /\ type \notin UintTypes
    BY <2>1 DEF UintTypes, BytesTypes
  <2>3. r = AppendTyped(b, type, p)
    <3>1. r = AppendBigInt(b, ValueOf(p.v))
      BY <1>3, <2>1, Zenon DEF AppendAuto
    <3>2. AppendTyped(b, type, p) = AppendAddressAny(b, p)
      BY <2>1, <2>2, Zenon DEF AppendTyped
    <3>3. p.kind \in {"bytes", "eth out"} /\ p.kind # "text" /\ Len(p.v) = AbiAddress
      BY <1>3, Zenon DEF IsParam
    <3>4. AppendAddressAny(b, p) = appendAddressBytes(b, p.v)
      BY <3>3, Zenon DEF AppendAddressAny
    <3>5. QED
      BY <3>1, <3>2, <3>3, <3>4, Zenon DEF appendAddressBytes
  <2>4. QED
    BY <2>3, TypedTaken, Zenon
<1>4. CASE p.kind \notin {"int", "bytes", "text", "eth out"}
  <2>1. type = "none" /\ r = Failed(b)
    BY <1>4, Zenon DEF AutoType, AppendAuto
  <2>2. type \notin UintTypes /\ type # "address" /\ type \notin BytesTypes
    BY <2>1 DEF UintTypes, BytesTypes
  <2>3. ~ Suits(x)
    BY <1>0, <2>2, WordTypes, Zenon DEF Suits
  <2>4. QED
    BY <2>1, <2>3
<1>5. QED
  BY <1>1, <1>2, <1>3, <1>4, Zenon

-----------------------------------------------------------------------------
(***************************************************************************)
(* The buffer between two arguments.                                       *)
(***************************************************************************)
\* The Go values a caller passes.
GoParams ==
    [kind : {"int"}, n : Int] \cup [kind : {"bytes"}, v : Seq(Octets)]
    \cup [kind : {"text"}, v : Seq(Octets), hex : Seq(Octets)]
    \cup [kind : {"eth out"}, v : {v \in Seq(Octets) : Len(v) = AbiAddress}]
    \cup [kind : {"other out"}, v : Seq(Octets)]

\* The names of types: every string, and the literals of the code, which the
\* provers do not know to be strings.
TypeNames == STRING \cup {"", "uint256", "bytes", "address", "none"}

Args == [type : TypeNames, param : GoParams]

LEMMA GoParamsAre ==
  ASSUME NEW p \in GoParams
  PROVE  IsParam(p)
<1>1. CASE p \in [kind : {"int"}, n : Int]
  BY <1>1 DEF IsParam
<1>2. CASE p \in [kind : {"bytes"}, v : Seq(Octets)]
  BY <1>2 DEF IsParam
<1>3. CASE p \in [kind : {"text"}, v : Seq(Octets), hex : Seq(Octets)]
  BY <1>3 DEF IsParam
<1>4. CASE p \in [kind : {"eth out"}, v : {v \in Seq(Octets) : Len(v) = AbiAddress}]
  BY <1>4 DEF IsParam
<1>5. CASE p \in [kind : {"other out"}, v : Seq(Octets)]
  BY <1>5 DEF IsParam
<1>6. QED
  BY <1>1, <1>2, <1>3, <1>4, <1>5 DEF GoParams

\* Where the word of argument n begins.
Slot(n) == AbiWord * (n - 1)

IsString(s, x, n) ==
    /\ x.type \in BytesTypes /\ x.param.v \in Seq(Octets)
    /\ s = [offset |-> Slot(n), data |-> Packed(x.param.v)]

WordsHold(buf, a) ==
    \A n \in 1..Len(a) :
        a[n].type \notin BytesTypes => Held(a[n]) \in 0..Limit-1 /\ Stands(buf, Slot(n), WordBytes(Held(a[n])))

StringsHold(str, a) ==
    /\ \A k \in 1..Len(str) : \E n \in 1..Len(a) : IsString(str[k], a[n], n)
    /\ \A n \in 1..Len(a) : a[n].type \in BytesTypes => \E k \in 1..Len(str) : IsString(str[k], a[n], n)
    /\ \A j, k \in 1..Len(str) : j < k => str[j].offset < str[k].offset

\* The buffer b holds the arguments a.
Holds(b, a) ==
    /\ b \in Buffers /\ a \in Seq(Args)
    /\ Len(b.buf) = AbiWord * Len(a)
    /\ WordsHold(b.buf, a) /\ StringsHold(b.str, a)

\* What stands somewhere stands there when more is appended.
LEMMA StandsLonger ==
  ASSUME NEW bytes \in Seq(Octets), NEW more \in Seq(Octets), NEW part \in Seq(Octets), NEW at \in Nat,
         Stands(bytes, at, part)
  PROVE  Stands(bytes \o more, at, part)
<1> DEFINE s == bytes \o more
<1>1. s \in Seq(Octets) /\ Len(s) = Len(bytes) + Len(more) /\ Len(bytes) \in Nat /\ Len(more) \in Nat
      /\ Len(part) \in Nat /\ \A i \in 1..Len(bytes) : s[i] = bytes[i]
  OBVIOUS
<1>2. at + Len(part) <= Len(bytes) /\ \A i \in 1..Len(part) : bytes[at + i] = part[i]
  BY DEF Stands
<1> HIDE DEF s
<1>3. \A i \in 1..Len(part) : s[at + i] = part[i]
  <2> TAKE i \in 1..Len(part)
  <2>1. at + i \in 1..Len(bytes)
    BY <1>1, <1>2
  <2>2. QED
    BY <1>1, <1>2, <2>1
<1>4. at + Len(part) <= Len(s)
  BY <1>1, <1>2
<1>5. QED
  BY <1>3, <1>4 DEF Stands, s

LEMMA StandsBehind ==
  ASSUME NEW bytes \in Seq(Octets), NEW part \in Seq(Octets)
  PROVE  Stands(bytes \o part, Len(bytes), part)
  BY DEF Stands

LEMMA SlotFacts ==
  ASSUME NEW n \in Nat, n >= 1
  PROVE  Slot(n) \in Nat /\ Slot(n) + AbiWord = AbiWord * n /\ Slot(n + 1) = AbiWord * n
         /\ \A m \in Nat : m > n => Slot(n) + AbiWord <= Slot(m)
<1>1. AbiWord \in Nat /\ AbiWord > 0
  BY AbiConstants DEF Positive
<1>2. n - 1 \in Nat /\ Slot(n) = AbiWord * (n - 1) /\ AbiWord * (n - 1) \in Nat
  BY <1>1 DEF Slot
<1>3. AbiWord * n = AbiWord * (n - 1) + AbiWord
  BY <1>1
<1>4. (n + 1) - 1 = n
  OBVIOUS
<1>5. ASSUME NEW m \in Nat, m > n PROVE AbiWord * n <= Slot(m)
  <2>1. m - 1 - n \in Nat
    BY <1>5
  <2>2. AbiWord * (m - 1 - n) >= 0
    BY <1>1, <2>1
  <2>3. AbiWord * (m - 1 - n) = AbiWord * (m - 1) - AbiWord * n
    BY <1>1
  <2>4. AbiWord * n \in Nat /\ AbiWord * (m - 1) \in Int
    BY <1>1
  <2>5. QED
    BY <2>2, <2>3, <2>4 DEF Slot
<1>6. QED
  BY <1>2, <1>3, <1>4, <1>5 DEF Slot

LEMMA ZerosType ==
  ASSUME NEW n \in Nat
  PROVE  Zeros(n) \in Seq(Octets) /\ Len(Zeros(n)) = n
<1>1. 0 \in Octets
  BY AbiConstants DEF Octets, Positive
<1>2. QED
  BY <1>1 DEF Zeros

LEMMA PackedType ==
  ASSUME NEW v \in Seq(Octets)
  PROVE  Packed(v) \in Seq(Octets) /\ Len(Packed(v)) = AbiWord + Len(v)
<1>1. Len(v) \in Nat /\ AbiWord \in Nat
  BY AbiConstants DEF Positive
<1>2. WordBytes(Len(v)) \in Seq(Octets) /\ Len(WordBytes(Len(v))) = AbiWord
  BY <1>1, WordType
<1>3. QED
  BY <1>1, <1>2 DEF Packed

LEMMA WordsHoldMore ==
  ASSUME NEW b, NEW a, Holds(b, a), NEW x \in Args, NEW r, Took(b, r, x)
  PROVE  /\ r.buf \in Seq(Octets) /\ Len(r.buf) = AbiWord * Len(Append(a, x))
         /\ WordsHold(r.buf, Append(a, x)) /\ Slot(Len(a) + 1) = Len(b.buf)
<1> DEFINE L == Len(a)
           c == Append(a, x)
           more == IF x.type \in BytesTypes THEN Zeros(AbiWord) ELSE WordBytes(Held(x))
<1>1. AbiWord \in Nat /\ Limit \in Nat
  BY AbiConstants DEF Positive
<1>2. b.buf \in Seq(Octets) /\ Len(b.buf) = AbiWord * L /\ WordsHold(b.buf, a) /\ a \in Seq(Args)
  BY DEF Holds, Buffers
<1>3. L \in Nat /\ Len(c) = L + 1 /\ c[L + 1] = x /\ (\A n \in 1..L : c[n] = a[n]) /\ c \in Seq(Args)
  BY <1>2
<1> HIDE DEF L, c
<1>4. more \in Seq(Octets) /\ Len(more) = AbiWord /\ r.buf = b.buf \o more
  <2>1. CASE x.type \in BytesTypes
    BY <1>1, <2>1, ZerosType DEF Took
  <2>2. CASE x.type \notin BytesTypes
    <3>1. Held(x) \in Nat /\ r.buf = b.buf \o WordBytes(Held(x))
      BY <1>1, <2>2 DEF Took
    <3>2. QED
      BY <2>2, <3>1, WordType
  <2>3. QED
    BY <2>1, <2>2
<1>5. Slot(L + 1) = AbiWord * L
  <2>1. (L + 1) - 1 = L
    BY <1>3
  <2>2. QED
    BY <2>1 DEF Slot
<1>6. r.buf \in Seq(Octets) /\ Len(r.buf) = AbiWord * (L + 1)
  <2>1. AbiWord * (L + 1) = AbiWord * L + AbiWord
    BY <1>1, <1>3
  <2> HIDE DEF more
  <2>2. b.buf \o more \in Seq(Octets) /\ Len(b.buf \o more) = Len(b.buf) + Len(more)
    BY <1>2, <1>4, ConcatProperties, Zenon
  <2>3. QED
    BY <1>2, <1>4, <2>1, <2>2
<1>7. ASSUME NEW n \in 1..L + 1, c[n].type \notin BytesTypes
      PROVE  Held(c[n]) \in 0..Limit-1 /\ Stands(r.buf, Slot(n), WordBytes(Held(c[n])))
  <2>1. CASE n = L + 1
    <3>1. c[n] = x /\ Held(x) \in 0..Limit-1 /\ more = WordBytes(Held(x))
      <4>1. c[n] = x
        BY <1>3, <2>1
      <4>2. QED
        BY <1>7, <4>1 DEF Took
    <3> HIDE DEF more
    <3>2. Stands(r.buf, Len(b.buf), more)
      BY <1>2, <1>4, StandsBehind
    <3>3. QED
      BY <1>2, <1>5, <2>1, <3>1, <3>2
  <2>2. CASE n # L + 1
    <3>1. n \in 1..L /\ c[n] = a[n]
      BY <1>3, <2>2
    <3>2. Held(a[n]) \in 0..Limit-1 /\ Stands(b.buf, Slot(n), WordBytes(Held(a[n])))
      BY <1>2, <1>7, <3>1, Zenon DEF WordsHold, L
    <3>3. WordBytes(Held(a[n])) \in Seq(Octets)
      <4>1. Held(a[n]) \in Nat
        BY <1>1, <3>2
      <4>2. QED
        BY <4>1, WordType
    <3>4. Slot(n) \in Nat
      <4>1. n \in Nat /\ n >= 1
        BY <1>3, <3>1
      <4>2. QED
        BY <4>1, SlotFacts
    <3> HIDE DEF more
    <3>5. Stands(r.buf, Slot(n), WordBytes(Held(a[n])))
      BY <1>2, <1>4, <3>2, <3>3, <3>4, StandsLonger
    <3>6. QED
      BY <3>1, <3>2, <3>5
  <2>3. QED
    BY <2>1, <2>2
<1>8. WordsHold(r.buf, c)
  BY <1>3, <1>7 DEF WordsHold
<1>9. QED
  BY <1>2, <1>3, <1>5, <1>6, <1>8 DEF c, L

LEMMA StringsHoldMore ==
  ASSUME NEW b, NEW a, Holds(b, a), NEW x \in Args, NEW r, Took(b, r, x)
  PROVE  r.str \in Seq(Strings) /\ StringsHold(r.str, Append(a, x))
<1> DEFINE L == Len(a)
           c == Append(a, x)
           K == Len(b.str)
           s == [offset |-> Len(b.buf), data |-> Packed(x.param.v)]
<1>1. b.buf \in Seq(Octets) /\ b.str \in Seq(Strings) /\ StringsHold(b.str, a) /\ a \in Seq(Args)
  BY DEF Holds, Buffers
<1>2. L \in Nat /\ Len(c) = L + 1 /\ c[L + 1] = x /\ \A n \in 1..L : c[n] = a[n]
  BY <1>1
<1>3. Slot(L + 1) = Len(b.buf)
  BY WordsHoldMore
<1>4. /\ \A k \in 1..K : \E n \in 1..L : IsString(b.str[k], a[n], n)
      /\ \A n \in 1..L : a[n].type \in BytesTypes => \E k \in 1..K : IsString(b.str[k], a[n], n)
      /\ \A j, k \in 1..K : j < k => b.str[j].offset < b.str[k].offset
  BY <1>1, Zenon DEF StringsHold
<1>5. K \in Nat
  BY <1>1
<1> HIDE DEF L, c, s, K
<1>6. CASE x.type \notin BytesTypes
  <2>1. r.str = b.str
    BY <1>6 DEF Took
  <2>2. ASSUME NEW k \in 1..K PROVE \E n \in 1..L + 1 : IsString(b.str[k], c[n], n)
    <3>1. PICK n \in 1..L : IsString(b.str[k], a[n], n)
      BY <1>4
    <3>2. n \in 1..L + 1 /\ c[n] = a[n]
      BY <1>2
    <3>3. QED
      BY <3>1, <3>2
  <2>3. ASSUME NEW n \in 1..L + 1, c[n].type \in BytesTypes PROVE \E k \in 1..K : IsString(b.str[k], c[n], n)
    <3>1. n # L + 1
      BY <1>2, <1>6, <2>3
    <3>2. n \in 1..L /\ c[n] = a[n]
      BY <1>2, <3>1
    <3>3. QED
      BY <1>4, <2>3, <3>2
  <2>4. StringsHold(b.str, c)
    BY <1>2, <1>4, <2>2, <2>3, Zenon DEF StringsHold, K
  <2>5. QED
    BY <1>1, <2>1, <2>4 DEF c
<1>7. CASE x.type \in BytesTypes
  <2> DEFINE t == r.str
  <2>1. x.param.v \in Seq(Octets) /\ t = Append(b.str, s)
    BY <1>7, Zenon DEF Took, s
  <2>2. s \in Strings
    <3>1. Packed(x.param.v) \in Seq(Octets) /\ Len(b.buf) \in Nat
      <4>1. Packed(x.param.v) \in Seq(Octets)
        BY <2>1, PackedType, Zenon
      <4>2. Len(b.buf) \in Nat
        BY <1>1
      <4>3. QED
        BY <4>1, <4>2, Zenon
    <3>2. QED
      BY <3>1 DEF s, Strings
  <2> HIDE DEF t
  <2>3. t \in Seq(Strings) /\ Len(t) = K + 1 /\ t[K + 1] = s /\ \A k \in 1..K : t[k] = b.str[k]
    BY <1>1, <2>1, <2>2 DEF K
  <2>4. IsString(s, x, L + 1) /\ s.offset = Slot(L + 1)
    BY <1>3, <1>7, <2>1 DEF IsString, s
  <2>5. ASSUME NEW k \in 1..K + 1 PROVE \E n \in 1..L + 1 : IsString(t[k], c[n], n)
    <3>1. CASE k = K + 1
      <4>1. L + 1 \in 1..L + 1
        BY <1>2
      <4>2. QED
        BY <1>2, <2>3, <2>4, <3>1, <4>1
    <3>2. CASE k # K + 1
      <4>1. k \in 1..K
        BY <1>5, <3>2
      <4>2. PICK n \in 1..L : IsString(b.str[k], a[n], n)
        BY <1>4, <4>1
      <4>3. n \in 1..L + 1 /\ c[n] = a[n]
        BY <1>2
      <4>4. QED
        BY <2>3, <4>1, <4>2, <4>3
    <3>3. QED
      BY <3>1, <3>2
  <2>6. ASSUME NEW n \in 1..L + 1, c[n].type \in BytesTypes PROVE \E k \in 1..K + 1 : IsString(t[k], c[n], n)
    <3>1. CASE n = L + 1
      <4>1. K + 1 \in 1..K + 1
        BY <1>5
      <4>2. QED
        BY <1>2, <2>3, <2>4, <3>1, <4>1
    <3>2. CASE n # L + 1
      <4>1. n \in 1..L /\ c[n] = a[n]
        BY <1>2, <3>2
      <4>2. PICK k \in 1..K : IsString(b.str[k], a[n], n)
        BY <1>4, <2>6, <4>1
      <4>3. k \in 1..K + 1 /\ t[k] = b.str[k]
        BY <1>5, <2>3
      <4>4. QED
        BY <4>1, <4>2, <4>3
    <3>3. QED
      BY <3>1, <3>2
  <2>7. ASSUME NEW j \in 1..K + 1, NEW k \in 1..K + 1, j < k PROVE t[j].offset < t[k].offset
    <3>1. j \in 1..K /\ t[j] = b.str[j]
      BY <1>5, <2>3, <2>7
    <3>2. CASE k = K + 1
      <4>1. PICK n \in 1..L : IsString(b.str[j], a[n], n)
        BY <1>4, <3>1
      <4>2. t[j].offset = Slot(n)
        BY <3>1, <4>1 DEF IsString
      <4>3. Slot(n) + AbiWord <= Slot(L + 1) /\ Slot(n) \in Nat
        <5>1. n \in Nat /\ n >= 1 /\ L + 1 \in Nat /\ L + 1 > n
          BY <1>2
        <5>2. QED
          BY <5>1, SlotFacts
      <4>4. t[k].offset = Slot(L + 1) /\ Slot(L + 1) \in Nat
        BY <1>1, <1>3, <2>3, <2>4, <3>2
      <4>5. AbiWord \in Nat /\ AbiWord > 0
        BY AbiConstants DEF Positive
      <4>6. QED
        BY <4>2, <4>3, <4>4, <4>5
    <3>3. CASE k # K + 1
      <4>1. k \in 1..K /\ t[k] = b.str[k]
        BY <1>5, <2>3, <3>3
      <4>2. QED
        BY <1>4, <2>7, <3>1, <4>1
    <3>4. QED
      BY <3>2, <3>3
  <2>8. StringsHold(t, c)
    BY <1>2, <2>3, <2>5, <2>6, <2>7, Zenon DEF StringsHold
  <2>9. QED
    BY <2>3, <2>8 DEF t, c
<1>8. QED
  BY <1>6, <1>7

LEMMA HoldsMore ==
  ASSUME NEW b, NEW a, Holds(b, a), NEW x \in Args, NEW r, Took(b, r, x)
  PROVE  Holds(r, Append(a, x))
<1>1. r.buf \in Seq(Octets) /\ Len(r.buf) = AbiWord * Len(Append(a, x)) /\ WordsHold(r.buf, Append(a, x))
  BY WordsHoldMore
<1>2. r.str \in Seq(Strings) /\ StringsHold(r.str, Append(a, x))
  BY StringsHoldMore
<1>3. r = [buf |-> r.buf, str |-> r.str, ok |-> TRUE]
  BY DEF Took
<1>4. r \in Buffers
  <2>1. [buf |-> r.buf, str |-> r.str, ok |-> TRUE] \in Buffers
    BY <1>1, <1>2 DEF Buffers
  <2>2. QED
    BY <1>3, <2>1, Zenon
<1>5. Append(a, x) \in Seq(Args)
  <2>1. a \in Seq(Args)
    BY DEF Holds
  <2>2. QED
    BY <2>1
<1>6. QED
  BY <1>1, <1>2, <1>4, <1>5, Zenon DEF Holds

\* An error and a new call change nothing of what is held.
LEMMA HoldsStill ==
  ASSUME NEW b, NEW a, Holds(b, a), NEW ok \in BOOLEAN
  PROVE  Holds([b EXCEPT !.ok = ok], a)
<1> DEFINE r == [b EXCEPT !.ok = ok]
<1>1. b \in Buffers
  BY DEF Holds
<1>2. r = [buf |-> b.buf, str |-> b.str, ok |-> ok]
  BY <1>1, BufferFields, Zenon
<1> HIDE DEF r
<1>3. r \in Buffers /\ r.buf = b.buf /\ r.str = b.str
  BY <1>1, <1>2 DEF Buffers
<1>4. Holds(r, a)
  BY <1>3, Zenon DEF Holds
<1>5. QED
  BY <1>4 DEF r

LEMMA TookType ==
  ASSUME NEW b \in Buffers, NEW x, NEW r, Took(b, r, x)
  PROVE  r \in Buffers
<1>1. AbiWord \in Nat /\ Limit \in Nat
  BY AbiConstants DEF Positive
<1>2. b.buf \in Seq(Octets) /\ b.str \in Seq(Strings) /\ Len(b.buf) \in Nat
  BY DEF Buffers
<1>3. r.buf \in Seq(Octets) /\ r.str \in Seq(Strings)
  <2>1. CASE x.type \in BytesTypes
    <3> DEFINE s == [offset |-> Len(b.buf), data |-> Packed(x.param.v)]
    <3>1. x.param.v \in Seq(Octets) /\ r.buf = b.buf \o Zeros(AbiWord) /\ r.str = Append(b.str, s)
      BY <2>1, Zenon DEF Took
    <3>2. s \in Strings
      <4>1. Packed(x.param.v) \in Seq(Octets)
        BY <3>1, PackedType
      <4>2. QED
        BY <1>2, <4>1 DEF Strings
    <3> HIDE DEF s
    <3>3. Zeros(AbiWord) \in Seq(Octets)
      BY <1>1, ZerosType
    <3>4. b.buf \o Zeros(AbiWord) \in Seq(Octets)
      BY <1>2, <3>3, ConcatProperties, Zenon
    <3>5. Append(b.str, s) \in Seq(Strings)
      BY <1>2, <3>2
    <3>6. QED
      BY <3>1, <3>4, <3>5, Zenon
  <2>2. CASE x.type \notin BytesTypes
    <3>1. Held(x) \in Nat /\ r.buf = b.buf \o WordBytes(Held(x)) /\ r.str = b.str
      BY <1>1, <2>2 DEF Took
    <3>2. WordBytes(Held(x)) \in Seq(Octets)
      BY <3>1, WordType
    <3>3. b.buf \o WordBytes(Held(x)) \in Seq(Octets)
      BY <1>2, <3>2, ConcatProperties, Zenon
    <3>4. QED
      BY <1>2, <3>1, <3>3, Zenon
  <2>3. QED
    BY <2>1, <2>2
<1>4. [buf |-> r.buf, str |-> r.str, ok |-> TRUE] \in Buffers
  BY <1>3 DEF Buffers
<1>5. QED
  BY <1>4, Zenon DEF Took

LEMMA OkType ==
  ASSUME NEW b \in Buffers, NEW ok \in BOOLEAN
  PROVE  [b EXCEPT !.ok = ok] \in Buffers /\ [b EXCEPT !.ok = ok].ok = ok
<1>1. [b EXCEPT !.ok = ok] = [buf |-> b.buf, str |-> b.str, ok |-> ok]
  BY BufferFields, Zenon
<1>2. [buf |-> b.buf, str |-> b.str, ok |-> ok] \in Buffers
  BY DEF Buffers
<1>3. QED
  BY <1>1, <1>2, Zenon

-----------------------------------------------------------------------------
(***************************************************************************)
(* The arguments of one call.                                              *)
(***************************************************************************)
\* f[k] is the buffer b after the first k arguments of a call, or after its first error.
Encodes(f, b, args) ==
    /\ f \in [0..Len(args) -> Buffers] /\ f[0] = [b EXCEPT !.ok = TRUE]
    /\ \A k \in 1..Len(args) :
          IF f[k - 1].ok
          THEN IF Suits(args[k]) THEN Took(f[k - 1], f[k], args[k]) ELSE f[k] = Failed(f[k - 1])
          ELSE f[k] = f[k - 1]

TypedArgs(types, params) == [n \in DOMAIN params |-> [type |-> types[n], param |-> params[n]]]
AutoArgs(params) == [n \in DOMAIN params |-> [type |-> AutoType(params[n]), param |-> params[n]]]

LEMMA TypedRuns ==
  ASSUME NEW b \in Buffers, NEW types \in Seq(TypeNames), NEW params \in Seq(GoParams), Len(types) = Len(params)
  PROVE  \E f : EncodeTypes(b, types, params) = f[Len(params)] /\ Encodes(f, b, TypedArgs(types, params))
<1> DEFINE L == Len(types)
           args == TypedArgs(types, params)
           b0 == [b EXCEPT !.ok = TRUE]
           IsRun(f) == f = [n \in 0..L |-> IF n = 0 THEN b0
                                           ELSE IF f[n - 1].ok THEN AppendTyped(f[n - 1], types[n], params[n])
                                                ELSE f[n - 1]]
           step == [k \in 1..L |-> [c \in Buffers |-> IF c.ok THEN AppendTyped(c, types[k], params[k]) ELSE c]]
<1>1. L \in Nat /\ L = Len(params) /\ Len(args) = L
      /\ \A k \in 1..L : params[k] \in GoParams /\ args[k] = [type |-> types[k], param |-> params[k]]
  BY DEF TypedArgs
<1>2. b0 \in Buffers
  BY OkType
<1> HIDE DEF args, L, b0
<1>3. ASSUME NEW k \in 1..L, NEW c \in Buffers, c.ok
      PROVE  /\ AppendTyped(c, types[k], params[k]) \in Buffers
             /\ IF Suits(args[k]) THEN Took(c, AppendTyped(c, types[k], params[k]), args[k])
                ELSE AppendTyped(c, types[k], params[k]) = Failed(c)
  <2>1. IsParam(params[k])
    BY <1>1, GoParamsAre
  <2>2. IF Suits(args[k]) THEN Took(c, AppendTyped(c, types[k], params[k]), args[k])
        ELSE AppendTyped(c, types[k], params[k]) = Failed(c)
    BY <1>1, <1>3, <2>1, TypedTaken, Zenon
  <2>3. Failed(c) \in Buffers
    BY OkType DEF Failed
  <2>4. QED
    BY <2>2, <2>3, TookType, Zenon
<1>4. step \in [1..L -> [Buffers -> Buffers]]
  BY <1>3
<1> HIDE DEF step
<1>5. PICK f : f \in [0..L -> Buffers] /\ f[0] = b0 /\ \A k \in 1..L : f[k] = step[k][f[k - 1]]
  <2>1. \E f : Iterates(f, Buffers, b0, step, L)
    BY <1>1, <1>2, <1>4, Iterated
  <2>2. QED
    BY <2>1 DEF Iterates
<1>6. \A k \in 1..L : f[k - 1] \in Buffers
                    /\ f[k] = IF f[k - 1].ok THEN AppendTyped(f[k - 1], types[k], params[k]) ELSE f[k - 1]
  <2> TAKE k \in 1..L
  <2>1. k - 1 \in 0..L
    BY <1>1
  <2>2. f[k - 1] \in Buffers
    BY <1>5, <2>1, Zenon
  <2>3. QED
    BY <1>5, <2>2, Zenon DEF step
<1>7. IsRun(f)
  BY <1>1, <1>5, <1>6
<1> DEFINE g == CHOOSE g : IsRun(g)
<1>8. IsRun(g)
  <2> HIDE DEF IsRun
  <2>1. QED
    BY <1>7
<1>9. EncodeTypes(b, types, params) = g[L]
  BY Zenon DEF EncodeTypes, L, b0
<1> HIDE DEF g
<1>10. g[0] = b0 /\ g = [n \in 0..L |-> g[n]]
      /\ \A k \in 1..L : g[k] = IF g[k - 1].ok THEN AppendTyped(g[k - 1], types[k], params[k]) ELSE g[k - 1]
  BY <1>1, <1>8
<1> DEFINE Q == { k \in Nat : k \in 0..L => g[k] = f[k] }
<1>11. 0 \in Q
  BY <1>5, <1>10
<1>12. ASSUME NEW k \in Nat, k \in Q PROVE k + 1 \in Q
  <2>1. CASE k + 1 \in 0..L
    <3>1. k \in 0..L /\ k + 1 \in 1..L /\ (k + 1) - 1 = k
      BY <1>1, <2>1
    <3>2. g[k] = f[k]
      BY <1>12, <3>1
    <3>3. g[k + 1] = f[k + 1]
      BY <1>6, <1>10, <3>1, <3>2, Zenon
    <3>4. QED
      BY <3>3
  <2>2. QED
    BY <2>1
<1>13. \A k \in Nat : k \in Q
  <2> HIDE DEF Q
  <2>1. QED
    BY <1>11, <1>12, Induct
<1>14. g[L] = f[L]
  BY <1>1, <1>13
<1>15. Encodes(f, b, args)
  <2>1. ASSUME NEW k \in 1..L
        PROVE  IF f[k - 1].ok
               THEN IF Suits(args[k]) THEN Took(f[k - 1], f[k], args[k]) ELSE f[k] = Failed(f[k - 1])
               ELSE f[k] = f[k - 1]
    BY <1>3, <1>6, Zenon
  <2>2. QED
    BY <1>1, <1>5, <2>1, Zenon DEF Encodes, b0
<1>16. QED
  BY <1>1, <1>9, <1>14, <1>15 DEF args

LEMMA AutoRuns ==
  ASSUME NEW b \in Buffers, NEW params \in Seq(GoParams)
  PROVE  \E f : EncodeAuto(b, params) = f[Len(params)] /\ Encodes(f, b, AutoArgs(params))
<1> DEFINE L == Len(params)
           args == AutoArgs(params)
           b0 == [b EXCEPT !.ok = TRUE]
           IsRun(f) == f = [n \in 0..L |-> IF n = 0 THEN b0
                                           ELSE IF f[n - 1].ok THEN AppendAuto(f[n - 1], params[n])
                                                ELSE f[n - 1]]
           step == [k \in 1..L |-> [c \in Buffers |-> IF c.ok THEN AppendAuto(c, params[k]) ELSE c]]
<1>1. L \in Nat /\ L = Len(params) /\ Len(args) = L
      /\ \A k \in 1..L : params[k] \in GoParams /\ args[k] = [type |-> AutoType(params[k]), param |-> params[k]]
  BY DEF AutoArgs
<1>2. b0 \in Buffers
  BY OkType
<1> HIDE DEF args, L, b0
<1>3. ASSUME NEW k \in 1..L, NEW c \in Buffers, c.ok
      PROVE  /\ AppendAuto(c, params[k]) \in Buffers
             /\ IF Suits(args[k]) THEN Took(c, AppendAuto(c, params[k]), args[k])
                ELSE AppendAuto(c, params[k]) = Failed(c)
  <2>1. IsParam(params[k])
    BY <1>1, GoParamsAre
  <2>2. IF Suits(args[k]) THEN Took(c, AppendAuto(c, params[k]), args[k])
        ELSE AppendAuto(c, params[k]) = Failed(c)
    BY <1>1, <1>3, <2>1, AutoTaken, Zenon
  <2>3. Failed(c) \in Buffers
    BY OkType DEF Failed
  <2>4. QED
    BY <2>2, <2>3, TookType, Zenon
<1>4. step \in [1..L -> [Buffers -> Buffers]]
  BY <1>3
<1> HIDE DEF step
<1>5. PICK f : f \in [0..L -> Buffers] /\ f[0] = b0 /\ \A k \in 1..L : f[k] = step[k][f[k - 1]]
  <2>1. \E f : Iterates(f, Buffers, b0, step, L)
    BY <1>1, <1>2, <1>4, Iterated
  <2>2. QED
    BY <2>1 DEF Iterates
<1>6. \A k \in 1..L : f[k - 1] \in Buffers
                    /\ f[k] = IF f[k - 1].ok THEN AppendAuto(f[k - 1], params[k]) ELSE f[k - 1]
  <2> TAKE k \in 1..L
  <2>1. k - 1 \in 0..L
    BY <1>1
  <2>2. f[k - 1] \in Buffers
    BY <1>5, <2>1, Zenon
  <2>3. QED
    BY <1>5, <2>2, Zenon DEF step
<1>7. IsRun(f)
  BY <1>1, <1>5, <1>6
<1> DEFINE g == CHOOSE g : IsRun(g)
<1>8. IsRun(g)
  <2> HIDE DEF IsRun
  <2>1. QED
    BY <1>7
<1>9. EncodeAuto(b, params) = g[L]
  BY Zenon DEF EncodeAuto, L, b0
<1> HIDE DEF g
<1>10. g[0] = b0 /\ g = [n \in 0..L |-> g[n]]
      /\ \A k \in 1..L : g[k] = IF g[k - 1].ok THEN AppendAuto(g[k - 1], params[k]) ELSE g[k - 1]
  BY <1>1, <1>8
<1> DEFINE Q == { k \in Nat : k \in 0..L => g[k] = f[k] }
<1>11. 0 \in Q
  BY <1>5, <1>10
<1>12. ASSUME NEW k \in Nat, k \in Q PROVE k + 1 \in Q
  <2>1. CASE k + 1 \in 0..L
    <3>1. k \in 0..L /\ k + 1 \in 1..L /\ (k + 1) - 1 = k
      BY <1>1, <2>1
    <3>2. g[k] = f[k]
      BY <1>12, <3>1
    <3>3. g[k + 1] = f[k + 1]
      BY <1>6, <1>10, <3>1, <3>2, Zenon
    <3>4. QED
      BY <3>3
  <2>2. QED
    BY <2>1
<1>13. \A k \in Nat : k \in Q
  <2> HIDE DEF Q
  <2>1. QED
    BY <1>11, <1>12, Induct
<1>14. g[L] = f[L]
  BY <1>1, <1>13
<1>15. Encodes(f, b, args)
  <2>1. ASSUME NEW k \in 1..L
        PROVE  IF f[k - 1].ok
               THEN IF Suits(args[k]) THEN Took(f[k - 1], f[k], args[k]) ELSE f[k] = Failed(f[k - 1])
               ELSE f[k] = f[k - 1]
    BY <1>3, <1>6, Zenon
  <2>2. QED
    BY <1>1, <1>5, <2>1, Zenon DEF Encodes, b0
<1>16. QED
  BY <1>1, <1>9, <1>14, <1>15 DEF args

LEMMA PrefixMore ==
  ASSUME NEW S, NEW a \in Seq(S), NEW args \in Seq(S), NEW m \in Nat, m < Len(args)
  PROVE  a \o SubSeq(args, 1, m + 1) = Append(a \o SubSeq(args, 1, m), args[m + 1])
<1> DEFINE s == SubSeq(args, 1, m)
           x == args[m + 1]
<1>1. SubSeq(args, 1, m + 1) = s \o <<x>>
  <2>1. 1 \in 1..Len(args) /\ m + 1 \in 1..Len(args) /\ (m + 1) - 1 = m
    OBVIOUS
  <2>2. QED
    BY <2>1, SubSeqRecursiveSecond
<1>2. s \in Seq(S) /\ x \in S
  <2>1. x \in S /\ \A i \in 1..m : args[i] \in S
    OBVIOUS
  <2>2. QED
    BY <2>1, SubSeqProperties
<1> HIDE DEF s, x
<1>3. a \o (s \o <<x>>) = Append(a \o s, x)
  BY <1>2
<1>4. QED
  BY <1>1, <1>3 DEF s, x

LEMMA EncodedHolds ==
  ASSUME NEW b, NEW a, Holds(b, a), NEW args \in Seq(Args), NEW f, Encodes(f, b, args)
  PROVE  LET good == { n \in 0..Len(args) : \A i \in 1..n : Suits(args[i]) }
         IN  Holds(f[Len(args)], a \o SubSeq(args, 1, Max(good)))
<1> DEFINE L == Len(args)
           Prefix(m) == a \o SubSeq(args, 1, m)
           good == { n \in 0..L : \A i \in 1..n : Suits(args[i]) }
           Upto(k, m) == /\ \A i \in 1..m : Suits(args[i])
                         /\ Holds(f[k], Prefix(m))
                         /\ IF f[k].ok THEN m = k ELSE m < k /\ ~ Suits(args[m + 1])
           Q == { k \in Nat : k \in 0..L => \E m \in 0..k : Upto(k, m) }
<1>1. L \in Nat /\ a \in Seq(Args) /\ b \in Buffers
  BY DEF Holds
<1>2. f \in [0..L -> Buffers] /\ f[0] = [b EXCEPT !.ok = TRUE]
  BY DEF Encodes
<1>3. \A k \in 1..L : IF f[k - 1].ok
                     THEN IF Suits(args[k]) THEN Took(f[k - 1], f[k], args[k]) ELSE f[k] = Failed(f[k - 1])
                     ELSE f[k] = f[k - 1]
  BY DEF Encodes
<1>4. 0 \in Q
  <2>1. SubSeq(args, 1, 0) = <<>>
    BY SubSeqEmpty
  <2>2. a \o <<>> = a
    BY <1>1
  <2>3. Prefix(0) = a
    BY <2>1, <2>2
  <2>4. Holds(f[0], a) /\ f[0].ok
    <3> DEFINE c == [b EXCEPT !.ok = TRUE]
    <3>1. Holds(c, a)
      BY HoldsStill
    <3>2. c.ok = TRUE
      BY <1>1, OkType
    <3>3. f[0] = c
      BY <1>2
    <3> HIDE DEF c
    <3>4. QED
      BY <3>1, <3>2, <3>3
  <2> HIDE DEF Prefix
  <2>5. Upto(0, 0)
    BY <2>3, <2>4
  <2> HIDE DEF Upto
  <2>6. QED
    BY <2>5
<1>5. ASSUME NEW k \in Nat, k \in Q, k + 1 \in 0..L PROVE \E m \in 0..k + 1 : Upto(k + 1, m)
  <2>1. k \in 0..L /\ k + 1 \in 1..L /\ (k + 1) - 1 = k
    BY <1>1, <1>5
  <2>2. PICK m \in 0..k : Upto(k, m)
    <3> HIDE DEF Upto
    <3>1. QED
      BY <1>5, <2>1
  <2>3. m \in Nat /\ m \in 0..k + 1 /\ f[k] \in Buffers
    BY <1>2, <2>1
  <2> HIDE DEF L
  <2>4. CASE ~ f[k].ok
    <3>1. f[k + 1] = f[k] /\ m < k + 1
      BY <1>3, <2>1, <2>2, <2>3, <2>4
    <3>2. Upto(k + 1, m)
      BY <2>2, <2>4, <3>1
    <3>3. QED
      BY <2>3, <3>2
  <2>5. CASE f[k].ok /\ ~ Suits(args[k + 1])
    <3>1. f[k + 1] = Failed(f[k]) /\ m = k
      BY <1>3, <2>1, <2>2, <2>5
    <3>2. Holds(f[k + 1], Prefix(m)) /\ ~ f[k + 1].ok
      <4> DEFINE c == f[k]
                 d == [c EXCEPT !.ok = FALSE]
                 p == Prefix(m)
      <4>1. Holds(c, p) /\ c \in Buffers
        BY <2>2, <2>3
      <4>2. f[k + 1] = d
        BY <3>1 DEF Failed
      <4> HIDE DEF c, p
      <4>3. Holds(d, p)
        BY <4>1, HoldsStill
      <4>4. d.ok = FALSE
        BY <4>1, OkType
      <4> HIDE DEF d
      <4>5. QED
        BY <4>2, <4>3, <4>4 DEF p
    <3> HIDE DEF Prefix
    <3>3. Upto(k + 1, m)
      BY <2>2, <2>3, <2>5, <3>1, <3>2
    <3>4. QED
      BY <2>3, <3>3
  <2>6. CASE f[k].ok /\ Suits(args[k + 1])
    <3>1. Took(f[k], f[k + 1], args[k + 1]) /\ m = k
      BY <1>3, <2>1, <2>2, <2>6
    <3>2. args[k + 1] \in Args
      BY <2>1 DEF L
    <3>3. Holds(f[k + 1], Append(Prefix(m), args[k + 1]))
      BY <2>2, <3>1, <3>2, HoldsMore
    <3>4. Prefix(k + 1) = Append(Prefix(k), args[k + 1])
      <4>1. k < Len(args)
        BY <2>1 DEF L
      <4>2. QED
        BY <1>1, <4>1, PrefixMore
    <3>5. f[k + 1].ok = TRUE
      BY <3>1 DEF Took
    <3>6. ASSUME NEW i \in 1..k + 1 PROVE Suits(args[i])
      <4>1. i \in 1..k \/ i = k + 1
        OBVIOUS
      <4>2. QED
        BY <2>2, <2>6, <3>1, <4>1
    <3> HIDE DEF Prefix
    <3>7. Upto(k + 1, k + 1)
      BY <3>1, <3>3, <3>4, <3>5, <3>6
    <3> HIDE DEF Upto
    <3>8. QED
      BY <3>7
  <2>7. QED
    BY <2>4, <2>5, <2>6
<1>6. \A k \in Nat : k \in Q => k + 1 \in Q
  <2> HIDE DEF Upto
  <2>1. QED
    BY <1>5
<1>7. \A k \in Nat : k \in Q
  <2> HIDE DEF Q
  <2>1. QED
    BY <1>4, <1>6, Induct
<1>8. PICK m \in 0..L : Upto(L, m)
  <2> HIDE DEF Upto
  <2>1. QED
    BY <1>1, <1>7
<1>9. m \in good /\ \A n \in good : n <= m
  <2>1. ASSUME NEW n \in good PROVE n <= m
    <3>1. CASE f[L].ok
      BY <1>1, <1>8, <3>1
    <3>2. CASE ~ f[L].ok
      <4>1. m < L /\ ~ Suits(args[m + 1]) /\ m \in Nat /\ n \in Nat
        BY <1>1, <1>8, <3>2
      <4>2. n > m => m + 1 \in 1..n
        BY <4>1
      <4>3. QED
        BY <4>1, <4>2
    <3>3. QED
      BY <3>1, <3>2
  <2>2. m \in good
    BY <1>8
  <2>3. QED
    BY <2>1, <2>2
<1>10. Max(good) = m
  <2>1. good \subseteq Nat
    BY <1>1
  <2> HIDE DEF good
  <2>2. m \in Nat /\ m \in good /\ \A n \in good : m >= n
    BY <1>9, <2>1
  <2>3. Max(good) \in good /\ \A n \in good : Max(good) >= n
    BY <2>2, Zenon DEF Max
  <2>4. Max(good) \in Nat /\ m >= Max(good) /\ Max(good) >= m
    BY <2>1, <2>2, <2>3
  <2>5. QED
    BY <2>2, <2>4
<1>11. QED
  BY <1>8, <1>10

\* The longest prefix of arguments that suit.
Suiting(args) ==
    LET good == { n \in 0..Len(args) : \A i \in 1..n : Suits(args[i]) }
    IN  SubSeq(args, 1, Max(good))

LEMMA ArgsAre ==
  ASSUME NEW types \in Seq(TypeNames), NEW params \in Seq(GoParams)
  PROVE  /\ Len(types) = Len(params) => TypedArgs(types, params) \in Seq(Args) /\ Len(TypedArgs(types, params)) = Len(params)
         /\ AutoArgs(params) \in Seq(Args) /\ Len(AutoArgs(params)) = Len(params)
<1>1. Len(params) \in Nat /\ DOMAIN params = 1..Len(params) /\ \A k \in 1..Len(params) : params[k] \in GoParams
  OBVIOUS
<1>2. ASSUME NEW p PROVE AutoType(p) \in TypeNames
  <2>0. "uint256" \in TypeNames /\ "bytes" \in TypeNames /\ "address" \in TypeNames /\ "none" \in TypeNames
    BY DEF TypeNames
  <2>1. CASE p.kind = "int"
    <3>1. AutoType(p) = "uint256"
      BY <2>1, Zenon DEF AutoType
    <3>2. QED
      BY <2>0, <3>1, Zenon
  <2>2. CASE p.kind \in {"bytes", "text"}
    <3>1. p.kind # "int"
      BY <2>2
    <3>2. AutoType(p) = "bytes"
      BY <2>2, <3>1, Zenon DEF AutoType
    <3>3. QED
      BY <2>0, <3>2, Zenon
  <2>3. CASE p.kind = "eth out"
    <3>1. p.kind # "int" /\ p.kind \notin {"bytes", "text"}
      BY <2>3
    <3>2. AutoType(p) = "address"
      BY <2>3, <3>1, Zenon DEF AutoType
    <3>3. QED
      BY <2>0, <3>2, Zenon
  <2>4. CASE p.kind \notin {"int", "bytes", "text", "eth out"}
    <3>1. AutoType(p) = "none"
      BY <2>4, Zenon DEF AutoType
    <3>2. QED
      BY <2>0, <3>1, Zenon
  <2>5. QED
    BY <2>1, <2>2, <2>3, <2>4
<1>3. ASSUME NEW t \in TypeNames, NEW p \in GoParams PROVE [type |-> t, param |-> p] \in Args
  BY DEF Args
<1>4. ASSUME Len(types) = Len(params)
      PROVE  TypedArgs(types, params) \in Seq(Args) /\ Len(TypedArgs(types, params)) = Len(params)
  <2>1. \A k \in 1..Len(params) : types[k] \in TypeNames
    BY <1>4
  <2>2. \A k \in 1..Len(params) : [type |-> types[k], param |-> params[k]] \in Args
    BY <1>1, <1>3, <2>1
  <2>3. TypedArgs(types, params) \in [1..Len(params) -> Args]
    BY <1>1, <2>2 DEF TypedArgs
  <2>4. QED
    BY <1>1, <2>3
<1>5. AutoArgs(params) \in Seq(Args) /\ Len(AutoArgs(params)) = Len(params)
  <2>1. \A k \in 1..Len(params) : [type |-> AutoType(params[k]), param |-> params[k]] \in Args
    BY <1>1, <1>2, <1>3
  <2>2. AutoArgs(params) \in [1..Len(params) -> Args]
    BY <1>1, <2>1 DEF AutoArgs
  <2>3. QED
    BY <1>1, <2>2
<1>6. QED
  BY <1>4, <1>5, Zenon

\* EncodeTypes and EncodeAuto leave the arguments before the first that does not suit.
LEMMA EncodeLeaves ==
  ASSUME NEW b \in Buffers, NEW types \in Seq(TypeNames), NEW params \in Seq(GoParams)
  PROVE  /\ EncodeTypes(b, types, params) \in Buffers /\ EncodeAuto(b, params) \in Buffers
         /\ \A a : Holds(b, a) =>
               /\ Holds(EncodeAuto(b, params), a \o Suiting(AutoArgs(params)))
               /\ IF Len(types) = Len(params)
                  THEN Holds(EncodeTypes(b, types, params), a \o Suiting(TypedArgs(types, params)))
                  ELSE Holds(EncodeTypes(b, types, params), a)
<1>1. AutoArgs(params) \in Seq(Args) /\ Len(AutoArgs(params)) = Len(params) /\ Len(params) \in Nat
  BY ArgsAre
<1>2. /\ EncodeAuto(b, params) \in Buffers
      /\ \A a : Holds(b, a) => Holds(EncodeAuto(b, params), a \o Suiting(AutoArgs(params)))
  <2> DEFINE args == AutoArgs(params)
  <2>1. PICK f : EncodeAuto(b, params) = f[Len(params)] /\ Encodes(f, b, args)
    BY AutoRuns
  <2> HIDE DEF args
  <2>2. args \in Seq(Args) /\ Len(args) = Len(params)
    BY <1>1 DEF args
  <2>3. f \in [0..Len(params) -> Buffers] /\ Len(params) \in 0..Len(params)
    BY <1>1, <2>1, <2>2 DEF Encodes
  <2>4. \A a : Holds(b, a) => Holds(f[Len(args)], a \o Suiting(args))
    BY <2>1, <2>2, EncodedHolds, Zenon DEF Suiting
  <2>5. QED
    BY <2>1, <2>2, <2>3, <2>4 DEF args
<1>3. CASE Len(types) = Len(params)
  <2> DEFINE args == TypedArgs(types, params)
  <2>1. PICK f : EncodeTypes(b, types, params) = f[Len(params)] /\ Encodes(f, b, args)
    BY <1>3, TypedRuns
  <2>2. args \in Seq(Args) /\ Len(args) = Len(params)
    BY <1>3, ArgsAre
  <2> HIDE DEF args
  <2>3. f \in [0..Len(params) -> Buffers] /\ Len(params) \in 0..Len(params)
    BY <1>1, <2>1, <2>2 DEF Encodes
  <2>4. \A a : Holds(b, a) => Holds(f[Len(args)], a \o Suiting(args))
    BY <2>1, <2>2, EncodedHolds, Zenon DEF Suiting
  <2>5. f[Len(params)] \in Buffers
    BY <2>3
  <2>6. \A a : Holds(b, a) => Holds(EncodeTypes(b, types, params), a \o Suiting(args))
    BY <2>1, <2>2, <2>4
  <2>7. EncodeTypes(b, types, params) \in Buffers
    BY <2>1, <2>5
  <2>8. QED
    BY <1>2, <1>3, <2>6, <2>7, Zenon DEF args
<1>4. CASE Len(types) # Len(params)
  <2>1. EncodeTypes(b, types, params) = Failed(b)
    BY <1>4, Zenon DEF EncodeTypes
  <2> DEFINE c == [b EXCEPT !.ok = FALSE]
  <2>2. c \in Buffers
    BY OkType
  <2>3. \A a : Holds(b, a) => Holds(c, a)
    BY HoldsStill
  <2>4. EncodeTypes(b, types, params) = c
    BY <2>1 DEF Failed
  <2> HIDE DEF c
  <2>5. QED
    BY <1>2, <1>4, <2>2, <2>3, <2>4, Zenon
<1>5. QED
  BY <1>3, <1>4

BufferCalls == [how : {"types", "abi", "auto"}, types : Seq(TypeNames), params : Seq(GoParams)]

LEMMA OneLong ==
  ASSUME NEW S, NEW x \in S
  PROVE  <<x>> \in Seq(S) /\ Len(<<x>>) = 1 /\ <<x>>[1] = x
  OBVIOUS

LEMMA AppliedHolds ==
  ASSUME NEW b \in Buffers, NEW c \in BufferCalls
  PROVE  /\ Applied(b, c) \in Buffers
         /\ \A a : Holds(b, a) => Holds(Applied(b, c), a \o Taken(c))
<1> DEFINE types == c.types
           params == c.params
<1>1. types \in Seq(TypeNames) /\ params \in Seq(GoParams) /\ c.how \in {"types", "abi", "auto"}
  BY DEF BufferCalls
<1>2. /\ c.how = "auto" => Typed(c) = AutoArgs(params)
      /\ c.how # "auto" => Typed(c) = TypedArgs(types, params)
  BY DEF Typed, AutoArgs, TypedArgs
<1>3. /\ AutoArgs(params) \in Seq(Args) /\ Len(AutoArgs(params)) = Len(params)
      /\ Len(types) = Len(params) => Len(TypedArgs(types, params)) = Len(params)
  BY <1>1, ArgsAre
<1>4. \A a : Holds(b, a) => a \o <<>> = a
  BY DEF Holds
<1> HIDE DEF types, params
<1>5. CASE c.how = "auto"
  <2>1. Applied(b, c) = EncodeAuto(b, params)
    BY <1>5, Zenon DEF Applied, params
  <2>2. Len(Typed(c)) = Len(params)
    BY <1>2, <1>3, <1>5
  <2>3. Taken(c) = Suiting(Typed(c))
    BY <1>5, <2>2, Zenon DEF Taken, Suiting, params
  <2>4. Taken(c) = Suiting(AutoArgs(params))
    BY <1>2, <1>5, <2>3
  <2>5. QED
    BY <1>1, <2>1, <2>4, EncodeLeaves, Zenon
<1>6. ASSUME c.how # "auto", Applied(b, c) = EncodeTypes(b, types, params)
      PROVE  /\ Applied(b, c) \in Buffers
             /\ \A a : Holds(b, a) => Holds(Applied(b, c), a \o Taken(c))
  <2>1. CASE Len(types) = Len(params)
    <3>1. Len(Typed(c)) = Len(params)
      BY <1>2, <1>3, <1>6, <2>1
    <3>2. Taken(c) = Suiting(Typed(c))
      BY <2>1, <3>1, Zenon DEF Taken, Suiting, params, types
    <3>3. Taken(c) = Suiting(TypedArgs(types, params))
      BY <1>2, <1>6, <3>2
    <3>4. QED
      BY <1>1, <1>6, <2>1, <3>3, EncodeLeaves, Zenon
  <2>2. CASE Len(types) # Len(params)
    <3>1. Taken(c) = <<>>
      BY <1>6, <2>2, Zenon DEF Taken, params, types
    <3>2. EncodeTypes(b, types, params) \in Buffers
          /\ \A a : Holds(b, a) => Holds(EncodeTypes(b, types, params), a)
      BY <1>1, <2>2, EncodeLeaves, Zenon
    <3>3. \A a : Holds(b, a) => Holds(Applied(b, c), a \o Taken(c))
      <4> TAKE a
      <4> HAVE Holds(b, a)
      <4>1. a \o Taken(c) = a
        BY <1>4, <3>1
      <4>2. QED
        BY <1>6, <3>2, <4>1, Zenon
    <3>4. QED
      BY <1>6, <3>2, <3>3
  <2>3. QED
    BY <2>1, <2>2
<1>7. CASE c.how = "types"
  <2>1. Applied(b, c) = EncodeTypes(b, types, params) /\ c.how # "auto"
    BY <1>7, Zenon DEF Applied, types, params
  <2>2. QED
    BY <1>6, <2>1
<1>8. CASE c.how = "abi" /\ types # <<>>
  <2>1. Applied(b, c) = EncodeAbi(b, types, params) /\ c.how # "auto"
    BY <1>8, Zenon DEF Applied, types, params
  <2>2. EncodeAbi(b, types, params) = EncodeTypes(b, types, params)
    BY <1>8, Zenon DEF EncodeAbi
  <2>3. QED
    BY <1>6, <2>1, <2>2
<1>9. CASE c.how = "abi" /\ types = <<>>
  <2> DEFINE none == <<"">>
  <2>1. Applied(b, c) = EncodeTypes(b, none, params)
    BY <1>9, Zenon DEF Applied, EncodeAbi, types, params
  <2>2. none \in Seq(TypeNames) /\ Len(none) = 1 /\ none[1] = ""
    <3>1. "" \in TypeNames
      BY DEF TypeNames
    <3>2. QED
      BY <3>1, OneLong, Zenon
  <2> HIDE DEF none
  <2>3. Taken(c) = <<>>
    <3>1. CASE Len(types) # Len(params)
      BY <1>9, <3>1, Zenon DEF Taken, types, params
    <3>2. CASE Len(types) = Len(params)
      <4>1. Len(params) = 0 /\ Len(Typed(c)) = 0
        BY <1>2, <1>3, <1>9, <3>2
      <4>2. Taken(c) = Suiting(Typed(c))
        BY <1>9, <3>2, <4>1, Zenon DEF Taken, Suiting, params, types
      <4>3. Suiting(Typed(c)) = <<>>
        <5> DEFINE good == { n \in 0..Len(Typed(c)) : \A i \in 1..n : Suits(Typed(c)[i]) }
        <5>1. good = {0}
          BY <4>1
        <5> HIDE DEF good
        <5>2. Max(good) = 0
          BY <5>1 DEF Max
        <5>3. Suiting(Typed(c)) = SubSeq(Typed(c), 1, 0)
          BY <5>2, Zenon DEF Suiting, good
        <5>4. SubSeq(Typed(c), 1, 0) = <<>>
          BY SubSeqEmpty
        <5>5. QED
          BY <5>3, <5>4
      <4>4. QED
        BY <4>2, <4>3
    <3>3. QED
      BY <3>1, <3>2
  <2>4. CASE Len(params) # 1
    <3>1. EncodeTypes(b, none, params) \in Buffers
          /\ \A a : Holds(b, a) => Holds(EncodeTypes(b, none, params), a)
      BY <1>1, <2>2, <2>4, EncodeLeaves
    <3>2. QED
      BY <1>4, <2>1, <2>3, <3>1
  <2>5. CASE Len(params) = 1
    <3> DEFINE args == TypedArgs(none, params)
    <3>1. EncodeTypes(b, none, params) \in Buffers
          /\ \A a : Holds(b, a) => Holds(EncodeTypes(b, none, params), a \o Suiting(args))
      BY <1>1, <2>2, <2>5, EncodeLeaves
    <3>2. args[1].type = ""
      <4>1. DOMAIN params = {1}
        BY <1>1, <2>5
      <4>2. args[1] = [type |-> none[1], param |-> params[1]]
        BY <4>1 DEF TypedArgs
      <4>3. args[1].type = none[1]
        BY <4>2
      <4>4. QED
        BY <2>2, <4>3, Zenon
    <3>3. Len(args) = 1
      BY <1>1, <2>2, <2>5, ArgsAre
    <3> HIDE DEF args
    <3>4. ~ Suits(args[1])
      BY <3>2 DEF Suits, NumberTypes, FixedBytes, BytesTypes
    <3>5. Suiting(args) = <<>>
      <4> DEFINE good == { n \in 0..Len(args) : \A i \in 1..n : Suits(args[i]) }
      <4>1. good = {0}
        <5>1. 0 \in good
          BY <3>3
        <5>2. ASSUME NEW n \in good PROVE n = 0
          <6>1. n \in 0..1 /\ (n = 1 => 1 \in 1..n)
            BY <3>3
          <6>2. QED
            BY <3>4, <6>1
        <5>3. QED
          BY <5>1, <5>2
      <4> HIDE DEF good
      <4>2. Max(good) = 0
        BY <4>1 DEF Max
      <4>3. Suiting(args) = SubSeq(args, 1, 0)
        BY <4>2, Zenon DEF Suiting, good
      <4>4. SubSeq(args, 1, 0) = <<>>
        BY SubSeqEmpty
      <4>5. QED
        BY <4>3, <4>4
    <3>6. QED
      BY <2>1, <2>3, <3>1, <3>5
  <2>6. QED
    BY <2>4, <2>5
<1>10. QED
  BY <1>1, <1>5, <1>7, <1>8, <1>9

-----------------------------------------------------------------------------
(***************************************************************************)
(* A buffer after its calls.                                               *)
(***************************************************************************)
\* Two runs of the same steps end in the same.
LEMMA SameEnd ==
  ASSUME NEW L \in Nat, NEW f, NEW g, f[0] = g[0],
         \A k \in 1..L : f[k - 1] = g[k - 1] => f[k] = g[k]
  PROVE  f[L] = g[L]
<1> DEFINE Q == { k \in Nat : k \in 0..L => f[k] = g[k] }
<1>1. 0 \in Q
  OBVIOUS
<1>2. ASSUME NEW k \in Nat, k \in Q PROVE k + 1 \in Q
  <2>1. CASE k + 1 \in 0..L
    <3>1. k \in 0..L /\ k + 1 \in 1..L /\ (k + 1) - 1 = k
      BY <2>1
    <3>2. f[k] = g[k]
      BY <1>2, <3>1
    <3>3. f[k + 1] = g[k + 1]
      BY <3>1, <3>2
    <3>4. QED
      BY <3>3
  <2>2. QED
    BY <2>1
<1>3. \A k \in Nat : k \in Q
  <2> HIDE DEF Q
  <2>1. QED
    BY <1>1, <1>2, Induct
<1>4. QED
  BY <1>3

LEMMA MaxIn ==
  ASSUME NEW L \in Nat, NEW T \in SUBSET (0..L), T # {}
  PROVE  Max(T) \in T /\ \A t \in T : t <= Max(T)
<1> DEFINE U == { L - t : t \in T }
<1>1. U \subseteq Nat /\ U # {}
  <2>1. PICK t \in T : TRUE
    OBVIOUS
  <2>2. L - t \in U
    BY <2>1
  <2>3. \A x \in T : x \in 0..L /\ L - x \in Nat
    OBVIOUS
  <2>4. QED
    BY <2>2, <2>3
<1>2. PICK u \in U : \A w \in U : u <= w
  <2> HIDE DEF U
  <2>1. QED
    BY <1>1, LeastNat
<1>3. PICK m \in T : u = L - m
  BY <1>2
<1>4. \A t \in T : t <= m
  <2> TAKE t \in T
  <2>1. L - t \in U /\ t \in 0..L /\ m \in 0..L
    OBVIOUS
  <2>2. L - m <= L - t
    BY <1>2, <1>3, <2>1
  <2>3. QED
    BY <2>1, <2>2
<1>5. Max(T) = CHOOSE x \in T : \A y \in T : x >= y
  BY Zenon DEF Max
<1>6. m >= m /\ \A y \in T : m >= y
  BY <1>4
<1>7. Max(T) \in T /\ \A y \in T : Max(T) >= y
  BY <1>5, <1>6, Zenon
<1>8. QED
  BY <1>7

LEMMA SuitingType ==
  ASSUME NEW args \in Seq(Args)
  PROVE  Suiting(args) \in Seq(Args)
<1> DEFINE L == Len(args)
           good == { n \in 0..L : \A i \in 1..n : Suits(args[i]) }
<1>1. L \in Nat /\ 0 \in good /\ good \in SUBSET (0..L)
  OBVIOUS
<1> HIDE DEF good
<1>2. Max(good) \in 0..L
  BY <1>1, MaxIn
<1>3. SubSeq(args, 1, Max(good)) \in Seq(Args)
  <2>1. \A i \in 1..Max(good) : args[i] \in Args
    BY <1>1, <1>2
  <2>2. 1 \in Int /\ Max(good) \in Int
    BY <1>1, <1>2
  <2>3. QED
    BY <2>1, <2>2, SubSeqProperties
<1>4. QED
  BY <1>3, Zenon DEF Suiting, good

LEMMA TakenType ==
  ASSUME NEW c \in BufferCalls
  PROVE  Taken(c) \in Seq(Args)
<1> DEFINE types == c.types
           params == c.params
<1>1. types \in Seq(TypeNames) /\ params \in Seq(GoParams)
  BY DEF BufferCalls
<1>2. /\ c.how = "auto" => Typed(c) = AutoArgs(params)
      /\ c.how # "auto" => Typed(c) = TypedArgs(types, params)
  BY DEF Typed, AutoArgs, TypedArgs
<1> HIDE DEF types, params
<1>3. /\ AutoArgs(params) \in Seq(Args) /\ Len(AutoArgs(params)) = Len(params)
      /\ Len(types) = Len(params) => TypedArgs(types, params) \in Seq(Args)
                                    /\ Len(TypedArgs(types, params)) = Len(params)
  BY <1>1, ArgsAre
<1>4. CASE c.how # "auto" /\ Len(types) # Len(params)
  <2>1. Taken(c) = <<>>
    BY <1>4, Zenon DEF Taken, params, types
  <2>2. QED
    BY <2>1
<1>5. CASE ~ (c.how # "auto" /\ Len(types) # Len(params))
  <2>1. Typed(c) \in Seq(Args) /\ Len(Typed(c)) = Len(params)
    BY <1>2, <1>3, <1>5
  <2>2. Taken(c) = Suiting(Typed(c))
    BY <1>5, <2>1, Zenon DEF Taken, Suiting, params, types
  <2>3. QED
    BY <2>1, <2>2, SuitingType
<1>6. QED
  BY <1>4, <1>5

LEMMA ResultRuns ==
  ASSUME NEW calls \in Seq(BufferCalls)
  PROVE  \E b : /\ b[0] = NewAbiBuffer(<<>>) /\ Result(calls) = b[Len(calls)]
               /\ \A k \in 1..Len(calls) : b[k] = Applied(b[k - 1], calls[k])
<1> DEFINE L == Len(calls)
           b0 == NewAbiBuffer(<<>>)
           IsRun(f) == f = [k \in 0..L |-> IF k = 0 THEN b0 ELSE Applied(f[k - 1], calls[k])]
           step == [k \in 1..L |-> [c \in Buffers |-> Applied(c, calls[k])]]
<1>1. L \in Nat /\ \A k \in 1..L : calls[k] \in BufferCalls
  OBVIOUS
<1>2. b0 \in Buffers
  BY DEF NewAbiBuffer, Buffers
<1> HIDE DEF b0, L
<1>3. step \in [1..L -> [Buffers -> Buffers]]
  BY <1>1, AppliedHolds
<1> HIDE DEF step
<1>4. PICK f : f \in [0..L -> Buffers] /\ f[0] = b0 /\ \A k \in 1..L : f[k] = step[k][f[k - 1]]
  <2>1. \E f : Iterates(f, Buffers, b0, step, L)
    BY <1>1, <1>2, <1>3, Iterated
  <2>2. QED
    BY <2>1 DEF Iterates
<1>5. \A k \in 1..L : f[k] = Applied(f[k - 1], calls[k])
  <2> TAKE k \in 1..L
  <2>1. k - 1 \in 0..L
    BY <1>1
  <2>2. f[k - 1] \in Buffers
    BY <1>4, <2>1, Zenon
  <2>3. QED
    BY <1>4, <2>2, Zenon DEF step
<1>6. IsRun(f)
  BY <1>1, <1>4, <1>5
<1> DEFINE g == CHOOSE g : IsRun(g)
<1>7. IsRun(g)
  <2> HIDE DEF IsRun
  <2>1. QED
    BY <1>6
<1>8. Result(calls) = g[L]
  BY Zenon DEF Result, L, b0
<1> HIDE DEF g
<1>9. g[0] = b0 /\ \A k \in 1..L : g[k] = Applied(g[k - 1], calls[k])
  BY <1>1, <1>7
<1>10. QED
  BY <1>8, <1>9, Zenon DEF L, b0

LEMMA ArgumentsRuns ==
  ASSUME NEW calls \in Seq(BufferCalls)
  PROVE  \E a : /\ a[0] = <<>> /\ Arguments(calls) = a[Len(calls)]
               /\ \A k \in 1..Len(calls) : a[k] = a[k - 1] \o Taken(calls[k])
<1> DEFINE L == Len(calls)
           S == Seq(Args)
           more(x, k) == x \o Taken(calls[k])
           IsRun(f) == f = [k \in 0..L |-> IF k = 0 THEN <<>> ELSE more(f[k - 1], k)]
           step == [k \in 1..L |-> [c \in S |-> more(c, k)]]
<1>1. L \in Nat /\ (\A k \in 1..L : calls[k] \in BufferCalls) /\ <<>> \in S
  OBVIOUS
<1> HIDE DEF L
<1>2. step \in [1..L -> [S -> S]]
  <2>1. ASSUME NEW k \in 1..L, NEW c \in S PROVE more(c, k) \in S
    <3>1. Taken(calls[k]) \in Seq(Args)
      BY <1>1, TakenType
    <3>2. QED
      BY <3>1
  <2> HIDE DEF S, more
  <2>2. QED
    BY <2>1
<1> HIDE DEF S, step, more
<1>3. PICK f : f \in [0..L -> S] /\ f[0] = <<>> /\ \A k \in 1..L : f[k] = step[k][f[k - 1]]
  <2>1. \E f : Iterates(f, S, <<>>, step, L)
    BY <1>1, <1>2, Iterated
  <2>2. QED
    BY <2>1 DEF Iterates
<1>4. \A k \in 1..L : f[k] = more(f[k - 1], k)
  <2> TAKE k \in 1..L
  <2>1. k - 1 \in 0..L
    BY <1>1
  <2>2. f[k - 1] \in S
    BY <1>3, <2>1, Zenon
  <2>3. QED
    BY <1>3, <2>2, Zenon DEF step
<1>5. IsRun(f)
  BY <1>1, <1>3, <1>4
<1> DEFINE g == CHOOSE g : IsRun(g)
<1>6. IsRun(g)
  <2> HIDE DEF IsRun
  <2>1. QED
    BY <1>5
<1>7. Arguments(calls) = g[L]
  BY Zenon DEF Arguments, L, more
<1> HIDE DEF g
<1>8. g[0] = <<>> /\ \A k \in 1..L : g[k] = more(g[k - 1], k)
  BY <1>1, <1>6
<1>9. QED
  BY <1>7, <1>8, Zenon DEF L, more

LEMMA ResultHolds ==
  ASSUME NEW calls \in Seq(BufferCalls)
  PROVE  Holds(Result(calls), Arguments(calls))
<1>1. PICK b : /\ b[0] = NewAbiBuffer(<<>>) /\ Result(calls) = b[Len(calls)]
               /\ \A k \in 1..Len(calls) : b[k] = Applied(b[k - 1], calls[k])
  BY ResultRuns
<1>2. PICK a : /\ a[0] = <<>> /\ Arguments(calls) = a[Len(calls)]
               /\ \A k \in 1..Len(calls) : a[k] = a[k - 1] \o Taken(calls[k])
  BY ArgumentsRuns
<1> DEFINE L == Len(calls)
           Q == { k \in Nat : k \in 0..L => Holds(b[k], a[k]) }
<1>3. L \in Nat /\ \A k \in 1..L : calls[k] \in BufferCalls
  OBVIOUS
<1>4. 0 \in Q
  <2>1. NewAbiBuffer(<<>>) \in Buffers
    BY DEF NewAbiBuffer, Buffers
  <2>2. AbiWord * 0 = 0
    BY AbiConstants DEF Positive
  <2>3. Holds(NewAbiBuffer(<<>>), <<>>)
    <3>1. NewAbiBuffer(<<>>).buf = <<>> /\ NewAbiBuffer(<<>>).str = <<>>
      BY DEF NewAbiBuffer
    <3>2. WordsHold(<<>>, <<>>) /\ StringsHold(<<>>, <<>>)
      BY DEF WordsHold, StringsHold
    <3>3. <<>> \in Seq(Args) /\ Len(<<>>) = AbiWord * Len(<<>>)
      BY <2>2
    <3>4. QED
      BY <2>1, <3>1, <3>2, <3>3, Zenon DEF Holds
  <2>4. QED
    BY <1>1, <1>2, <2>3
<1>5. ASSUME NEW k \in Nat, k \in Q PROVE k + 1 \in Q
  <2>1. CASE k + 1 \in 0..L
    <3>1. k \in 0..L /\ k + 1 \in 1..L /\ (k + 1) - 1 = k
      BY <1>3, <2>1
    <3>2. Holds(b[k], a[k]) /\ b[k] \in Buffers /\ calls[k + 1] \in BufferCalls
      BY <1>3, <1>5, <3>1 DEF Holds
    <3>3. Holds(Applied(b[k], calls[k + 1]), a[k] \o Taken(calls[k + 1]))
      BY <3>2, AppliedHolds, Zenon
    <3>4. b[k + 1] = Applied(b[k], calls[k + 1]) /\ a[k + 1] = a[k] \o Taken(calls[k + 1])
      <4>1. b[k + 1] = Applied(b[(k + 1) - 1], calls[k + 1])
        BY <1>1, <3>1, Zenon
      <4>2. a[k + 1] = a[(k + 1) - 1] \o Taken(calls[k + 1])
        BY <1>2, <3>1, Zenon
      <4>3. QED
        BY <3>1, <4>1, <4>2, Zenon
    <3>5. Holds(b[k + 1], a[k + 1])
      BY <3>3, <3>4, Zenon
    <3>6. QED
      BY <3>5
  <2>2. QED
    BY <2>1
<1>6. \A k \in Nat : k \in Q
  <2> HIDE DEF Q
  <2>1. QED
    BY <1>4, <1>5, Induct
<1>7. Holds(b[L], a[L])
  BY <1>3, <1>6
<1>8. QED
  BY <1>1, <1>2, <1>7

-----------------------------------------------------------------------------
(***************************************************************************)
(* The layout.                                                             *)
(***************************************************************************)
Whole(n) == \E q \in Nat : n = AbiWord * q

LEMMA WholeSum ==
  ASSUME NEW m, NEW n, Whole(m), Whole(n)
  PROVE  Whole(m + n)
<1>1. PICK p \in Nat : m = AbiWord * p
  BY DEF Whole
<1>2. PICK q \in Nat : n = AbiWord * q
  BY DEF Whole
<1>3. AbiWord \in Nat
  BY AbiConstants DEF Positive
<1>4. m + n = AbiWord * (p + q) /\ p + q \in Nat
  BY <1>1, <1>2, <1>3
<1>5. QED
  BY <1>4 DEF Whole

LEMMA PaddingFacts ==
  ASSUME NEW n \in Nat
  PROVE  Padding(n) \in Seq(Octets) /\ Len(Padding(n)) \in Nat /\ Whole(n + Len(Padding(n)))
<1> DEFINE r == n % AbiWord
           q == n \div AbiWord
           pad == (AbiWord - r) % AbiWord
<1>1. AbiWord \in Positive /\ AbiWord \in Nat /\ AbiWord > 0
  BY AbiConstants DEF Positive
<1>2. q \in Nat /\ r \in 0..AbiWord-1 /\ n = AbiWord * q + r
  BY <1>1, DivFacts
<1> HIDE DEF q, r
<1>3. pad = IF r = 0 THEN 0 ELSE AbiWord - r
  BY <1>1, <1>2
<1>4. pad \in Nat
  BY <1>1, <1>2, <1>3
<1> HIDE DEF pad
<1>5. Whole(n + pad)
  <2>1. CASE r = 0
    <3>1. n + pad = AbiWord * q
      BY <1>1, <1>2, <1>3, <2>1
    <3>2. QED
      BY <1>2, <3>1 DEF Whole
  <2>2. CASE r # 0
    <3>1. n + pad = AbiWord * q + AbiWord
      <4>1. AbiWord * q \in Nat
        BY <1>1, <1>2
      <4>2. QED
        BY <1>1, <1>2, <1>3, <2>2, <4>1
    <3>2. AbiWord * q + AbiWord = AbiWord * (q + 1) /\ q + 1 \in Nat
      BY <1>1, <1>2
    <3>3. QED
      BY <3>1, <3>2 DEF Whole
  <2>3. QED
    BY <2>1, <2>2
<1>6. Padding(n) = Zeros(pad)
  BY DEF Padding, pad, r
<1>7. Padding(n) \in Seq(Octets) /\ Len(Padding(n)) = pad
  BY <1>4, <1>6, ZerosType
<1>8. QED
  BY <1>4, <1>5, <1>7

\* What one string changes: its word, and what is behind the end.
LEMMA PlacedFacts ==
  ASSUME NEW res \in Seq(Octets), NEW s \in Strings
  PROVE  LET r == Placed(res, s)
             out == res \o s.data \o Padding(Len(s.data))
         IN  /\ out \in Seq(Octets) /\ Len(out) = Len(res) + (Len(s.data) + Len(Padding(Len(s.data))))
             /\ r \in Seq(Octets) /\ Len(r) = Len(out)
             /\ \A i \in 1..Len(res) : out[i] = res[i]
             /\ \A i \in 1..Len(s.data) : out[Len(res) + i] = s.data[i]
             /\ \A i \in 1..Len(out) :
                   IF i \in (s.offset + 1)..(s.offset + AbiWord)
                   THEN r[i] = WordBytes(Len(res))[i - s.offset] ELSE r[i] = out[i]
<1> DEFINE d == s.data
           z == Padding(Len(d))
           w == WordBytes(Len(res))
           at == s.offset
           out == res \o d \o z
           r == Placed(res, s)
<1>1. d \in Seq(Octets) /\ at \in Nat /\ Len(d) \in Nat /\ Len(res) \in Nat /\ AbiWord \in Nat
  BY AbiConstants DEF Strings, Positive
<1>2. z \in Seq(Octets) /\ Len(z) \in Nat
  BY <1>1, PaddingFacts
<1>3. w \in Seq(Octets) /\ Len(w) = AbiWord
  BY <1>1, WordType
<1>4. r = [i \in DOMAIN out |-> IF i \in (at + 1)..(at + AbiWord) THEN w[i - at] ELSE out[i]]
  BY Zenon DEF Placed
<1> HIDE DEF d, z, w, at, r
<1>5. /\ out \in Seq(Octets) /\ Len(out) = Len(res) + (Len(d) + Len(z))
      /\ \A i \in 1..Len(res) : out[i] = res[i]
      /\ \A i \in 1..Len(d) : out[Len(res) + i] = d[i]
  BY <1>1, <1>2
<1> HIDE DEF out
<1>6. \A i \in 1..Len(out) : (IF i \in (at + 1)..(at + AbiWord) THEN w[i - at] ELSE out[i]) \in Octets
  <2> TAKE i \in 1..Len(out)
  <2>1. CASE i \in (at + 1)..(at + AbiWord)
    <3>1. i - at \in 1..Len(w)
      BY <1>1, <1>3, <2>1
    <3>2. w[i - at] \in Octets
      BY <1>3, <3>1
    <3>3. QED
      BY <2>1, <3>2
  <2>2. CASE i \notin (at + 1)..(at + AbiWord)
    BY <1>5, <2>2
  <2>3. QED
    BY <2>1, <2>2
<1>7. DOMAIN out = 1..Len(out) /\ Len(out) \in Nat
  BY <1>5
<1>8. r \in [1..Len(out) -> Octets]
  BY <1>4, <1>6, <1>7
<1>9. r \in Seq(Octets) /\ Len(r) = Len(out)
  BY <1>7, <1>8
<1>10. \A i \in 1..Len(out) :
          IF i \in (at + 1)..(at + AbiWord) THEN r[i] = w[i - at] ELSE r[i] = out[i]
  BY <1>4, <1>7
<1>11. QED
  BY <1>5, <1>9, <1>10 DEF d, z, w, at, r, out

LEMMA PlacedStands ==
  ASSUME NEW res \in Seq(Octets), NEW s \in Strings, s.offset + AbiWord <= Len(res)
  PROVE  LET r == Placed(res, s)
         IN  /\ r \in Seq(Octets) /\ Len(res) + Len(s.data) <= Len(r)
             /\ Whole(Len(res)) => Whole(Len(r))
             /\ Stands(r, s.offset, WordBytes(Len(res)))
             /\ Stands(r, Len(res), s.data)
             /\ \A part \in Seq(Octets), at \in Nat :
                   /\ Stands(res, at, part)
                   /\ at + Len(part) <= s.offset \/ s.offset + AbiWord <= at
                   => Stands(r, at, part)
<1> DEFINE d == s.data
           z == Padding(Len(d))
           w == WordBytes(Len(res))
           off == s.offset
           out == res \o d \o z
           r == Placed(res, s)
<1>1. d \in Seq(Octets) /\ off \in Nat /\ Len(d) \in Nat /\ Len(res) \in Nat /\ AbiWord \in Nat
  BY AbiConstants DEF Strings, Positive
<1>2. w \in Seq(Octets) /\ Len(w) = AbiWord
  BY <1>1, WordType
<1>3. Len(z) \in Nat /\ Whole(Len(d) + Len(z))
  BY <1>1, PaddingFacts
<1>4. /\ out \in Seq(Octets) /\ Len(out) = Len(res) + (Len(d) + Len(z))
      /\ r \in Seq(Octets) /\ Len(r) = Len(out)
      /\ \A i \in 1..Len(res) : out[i] = res[i]
      /\ \A i \in 1..Len(d) : out[Len(res) + i] = d[i]
      /\ \A i \in 1..Len(out) :
             IF i \in (off + 1)..(off + AbiWord) THEN r[i] = w[i - off] ELSE r[i] = out[i]
  BY PlacedFacts, Zenon
<1>5. off + AbiWord <= Len(res)
  OBVIOUS
<1> HIDE DEF d, z, w, off, out, r
<1>6. Len(res) + Len(d) <= Len(r)
  BY <1>1, <1>3, <1>4
<1>7. Whole(Len(res)) => Whole(Len(r))
  BY <1>3, <1>4, WholeSum
<1>8. Stands(r, off, w)
  <2>1. off + Len(w) <= Len(r)
    BY <1>1, <1>2, <1>5, <1>6
  <2>2. \A i \in 1..Len(w) : r[off + i] = w[i]
    <3> TAKE i \in 1..Len(w)
    <3>1. off + i \in 1..Len(out) /\ off + i \in (off + 1)..(off + AbiWord) /\ (off + i) - off = i
      BY <1>1, <1>2, <1>3, <1>4, <1>5
    <3>2. r[off + i] = w[(off + i) - off]
      BY <1>4, <3>1, Zenon
    <3>3. QED
      BY <3>1, <3>2
  <2>3. QED
    BY <2>1, <2>2 DEF Stands
<1>9. Stands(r, Len(res), d)
  <2>1. \A i \in 1..Len(d) : r[Len(res) + i] = d[i]
    <3> TAKE i \in 1..Len(d)
    <3>1. Len(res) + i \in 1..Len(out) /\ Len(res) + i \notin (off + 1)..(off + AbiWord)
      BY <1>1, <1>3, <1>4, <1>5
    <3>2. r[Len(res) + i] = out[Len(res) + i]
      BY <1>4, <3>1, Zenon
    <3>3. QED
      BY <1>4, <3>2
  <2>2. QED
    BY <1>6, <2>1 DEF Stands
<1>10. ASSUME NEW part \in Seq(Octets), NEW at \in Nat, Stands(res, at, part),
              at + Len(part) <= off \/ off + AbiWord <= at
       PROVE  Stands(r, at, part)
  <2>1. at + Len(part) <= Len(res) /\ (\A i \in 1..Len(part) : res[at + i] = part[i]) /\ Len(part) \in Nat
    BY <1>10 DEF Stands
  <2>2. \A i \in 1..Len(part) : r[at + i] = part[i]
    <3> TAKE i \in 1..Len(part)
    <3>1. at + i \in 1..Len(out) /\ at + i \in 1..Len(res) /\ at + i \notin (off + 1)..(off + AbiWord)
      <4>1. /\ i \in Nat /\ 1 <= i /\ i <= Len(part)
            /\ at \in Nat /\ off \in Nat /\ AbiWord \in Nat /\ Len(part) \in Nat
            /\ Len(res) \in Nat /\ Len(res) <= Len(out)
        BY <1>1, <1>3, <1>4, <2>1
      <4>2. at + Len(part) <= Len(res)
        BY <2>1
      <4>3. at + Len(part) <= off \/ off + AbiWord <= at
        BY <1>10
      <4>4. QED
        BY <4>1, <4>2, <4>3
    <3>2. r[at + i] = out[at + i] /\ out[at + i] = res[at + i]
      BY <1>4, <3>1, Zenon
    <3>3. QED
      BY <2>1, <3>2
  <2>3. at + Len(part) <= Len(r)
    BY <1>1, <1>6, <1>10, <2>1
  <2>4. QED
    BY <2>2, <2>3 DEF Stands
<1>11. QED
  BY <1>4, <1>6, <1>7, <1>8, <1>9, <1>10, Zenon DEF d, z, w, off, out, r

LEMMA PlacedType ==
  ASSUME NEW res \in Seq(Octets), NEW s \in Strings
  PROVE  Placed(res, s) \in Seq(Octets)
  BY PlacedFacts

\* res[k] is what Bytes() has after the first k strings.
Lays(res, b) ==
    /\ res \in [0..Len(b.str) -> Seq(Octets)] /\ res[0] = b.buf
    /\ \A k \in 1..Len(b.str) : res[k] = Placed(res[k - 1], b.str[k])

LEMMA BytesRuns ==
  ASSUME NEW b \in Buffers
  PROVE  \E res : Lays(res, b) /\ Bytes(b) = res[Len(b.str)]
<1> DEFINE L == Len(b.str)
           S == Seq(Octets)
           IsRun(f) == f = [k \in 0..L |-> IF k = 0 THEN b.buf ELSE Placed(f[k - 1], b.str[k])]
           step == [k \in 1..L |-> [x \in S |-> Placed(x, b.str[k])]]
<1>1. L \in Nat /\ (\A k \in 1..L : b.str[k] \in Strings) /\ b.buf \in S
  BY DEF Buffers
<1> HIDE DEF L
<1>2. step \in [1..L -> [S -> S]]
  <2>1. \A k \in 1..L : \A x \in S : Placed(x, b.str[k]) \in S
    BY <1>1, PlacedType
  <2> HIDE DEF S
  <2>2. QED
    BY <2>1
<1> HIDE DEF S, step
<1>3. PICK f : f \in [0..L -> S] /\ f[0] = b.buf /\ \A k \in 1..L : f[k] = step[k][f[k - 1]]
  <2>1. \E f : Iterates(f, S, b.buf, step, L)
    BY <1>1, <1>2, Iterated
  <2>2. QED
    BY <2>1 DEF Iterates
<1>4. \A k \in 1..L : f[k] = Placed(f[k - 1], b.str[k])
  <2> TAKE k \in 1..L
  <2>1. k - 1 \in 0..L
    BY <1>1
  <2>2. f[k - 1] \in S
    BY <1>3, <2>1, Zenon
  <2>3. QED
    BY <1>3, <2>2, Zenon DEF step
<1>5. IsRun(f)
  BY <1>1, <1>3, <1>4
<1> DEFINE g == CHOOSE g : IsRun(g)
<1>6. IsRun(g)
  <2> HIDE DEF IsRun
  <2>1. QED
    BY <1>5
<1>7. Bytes(b) = g[L]
  BY Zenon DEF Bytes, L
<1> HIDE DEF g
<1>8. g[0] = b.buf /\ \A k \in 1..L : g[k] = Placed(g[k - 1], b.str[k])
  BY <1>1, <1>6
<1>9. ASSUME NEW k \in 1..L, f[k - 1] = g[k - 1] PROVE f[k] = g[k]
  BY <1>4, <1>8, <1>9, Zenon
<1>10. f[0] = g[0]
  BY <1>3, <1>8
<1>11. f[L] = g[L]
  BY <1>1, <1>9, <1>10, SameEnd
<1>12. Lays(f, b)
  BY <1>3, <1>4, Zenon DEF Lays, L, S
<1>13. QED
  BY <1>7, <1>11, <1>12, Zenon DEF L

\* What is laid out when the first k strings are.
LaidOut(res, b, a, k) ==
    /\ Len(b.buf) <= Len(res[k]) /\ Whole(Len(res[k]))
    /\ \A j \in 0..k : Len(b.buf) <= Len(res[j]) /\ Len(res[j]) <= Len(res[k])
    /\ \A n \in 1..Len(a) : a[n].type \notin BytesTypes => Stands(res[k], Slot(n), WordBytes(Held(a[n])))
    /\ \A j \in 1..k : /\ Stands(res[k], b.str[j].offset, WordBytes(Len(res[j - 1])))
                      /\ Stands(res[k], Len(res[j - 1]), b.str[j].data)

\* Where a string has its word.
LEMMA StringSlot ==
  ASSUME NEW b, NEW a, Holds(b, a), NEW k \in 1..Len(b.str)
  PROVE  /\ b.str[k] \in Strings /\ b.str[k].offset + AbiWord <= Len(b.buf)
         /\ \E n \in 1..Len(a) : IsString(b.str[k], a[n], n)
         /\ \A n \in 1..Len(a) : a[n].type \notin BytesTypes =>
               Slot(n) \in Nat /\ (Slot(n) + AbiWord <= b.str[k].offset \/ b.str[k].offset + AbiWord <= Slot(n))
         /\ \A j \in 1..Len(b.str) : j < k => b.str[j].offset + AbiWord <= b.str[k].offset
<1>1. /\ b \in Buffers /\ a \in Seq(Args) /\ Len(b.buf) = AbiWord * Len(a)
      /\ \A j \in 1..Len(b.str) : \E n \in 1..Len(a) : IsString(b.str[j], a[n], n)
      /\ \A i, j \in 1..Len(b.str) : i < j => b.str[i].offset < b.str[j].offset
  BY DEF Holds, StringsHold
<1>2. AbiWord \in Nat /\ AbiWord > 0 /\ Len(a) \in Nat
  BY <1>1, AbiConstants DEF Positive
<1>3. PICK m \in 1..Len(a) : IsString(b.str[k], a[m], m)
  BY <1>1
<1>4. b.str[k].offset = Slot(m) /\ a[m].type \in BytesTypes
  <2>1. b.str[k] = [offset |-> Slot(m), data |-> Packed(a[m].param.v)] /\ a[m].type \in BytesTypes
    BY <1>3, Zenon DEF IsString
  <2>2. QED
    BY <2>1
<1>5. \A n \in 1..Len(a) : Slot(n) \in Nat /\ Slot(n) + AbiWord = AbiWord * n
                          /\ \A i \in Nat : i > n => Slot(n) + AbiWord <= Slot(i)
  BY <1>2, SlotFacts
<1>6. Slot(m) + AbiWord <= Len(b.buf)
  <2>1. Len(a) - m \in Nat /\ AbiWord * (Len(a) - m) \in Nat
    BY <1>2
  <2>2. AbiWord * Len(a) = AbiWord * m + AbiWord * (Len(a) - m)
    BY <1>2
  <2>3. AbiWord * m \in Nat
    BY <1>2
  <2>4. QED
    BY <1>1, <1>5, <2>1, <2>2, <2>3
<1>7. ASSUME NEW n \in 1..Len(a), n # m
      PROVE  Slot(n) + AbiWord <= Slot(m) \/ Slot(m) + AbiWord <= Slot(n)
  <2>1. n \in Nat /\ m \in Nat /\ (m > n \/ n > m)
    BY <1>2, <1>7
  <2>2. QED
    BY <1>5, <2>1
<1>8. ASSUME NEW j \in 1..Len(b.str), j < k PROVE b.str[j].offset + AbiWord <= b.str[k].offset
  <2>1. PICK i \in 1..Len(a) : IsString(b.str[j], a[i], i)
    BY <1>1
  <2>2. b.str[j].offset = Slot(i)
    <3>1. b.str[j] = [offset |-> Slot(i), data |-> Packed(a[i].param.v)]
      BY <2>1, Zenon DEF IsString
    <3>2. QED
      BY <3>1
  <2>3. Slot(i) < Slot(m)
    BY <1>1, <1>4, <1>8, <2>2
  <2>4. i # m /\ Slot(i) \in Nat /\ Slot(m) \in Nat
    BY <1>5, <2>3
  <2>5. Slot(i) + AbiWord <= Slot(m)
    BY <1>2, <1>7, <2>3, <2>4
  <2>6. QED
    BY <1>4, <2>2, <2>5
<1>9. b.str[k] \in Strings
  BY <1>1 DEF Buffers
<1>10. ASSUME NEW n \in 1..Len(a), a[n].type \notin BytesTypes
       PROVE  Slot(n) \in Nat /\ (Slot(n) + AbiWord <= Slot(m) \/ Slot(m) + AbiWord <= Slot(n))
  <2>1. n # m
    BY <1>4, <1>10
  <2>2. QED
    BY <1>5, <1>7, <2>1
<1>11. QED
  BY <1>3, <1>4, <1>6, <1>8, <1>9, <1>10

LEMMA LaidOutMore ==
  ASSUME NEW b, NEW a, Holds(b, a), NEW res, Lays(res, b),
         NEW k \in Nat, k + 1 \in 1..Len(b.str), LaidOut(res, b, a, k)
  PROVE  LaidOut(res, b, a, k + 1)
<1> DEFINE s == b.str[k + 1]
           x == res[k]
           y == res[k + 1]
           w == WordBytes(Len(x))
<1>1. b.buf \in Seq(Octets) /\ Len(b.str) \in Nat /\ AbiWord \in Nat /\ Len(b.buf) \in Nat /\ Limit \in Nat
  BY AbiConstants DEF Holds, Buffers, Positive
<1>2. k \in 0..Len(b.str) /\ (k + 1) - 1 = k
  BY <1>1
<1>3. x \in Seq(Octets) /\ y = Placed(x, s) /\ Len(x) \in Nat
  <2>1. x \in Seq(Octets)
    BY <1>2, Zenon DEF Lays
  <2>2. y = Placed(res[(k + 1) - 1], s)
    BY Zenon DEF Lays
  <2>3. QED
    BY <1>2, <2>1, <2>2
<1>4. /\ Len(b.buf) <= Len(x) /\ Whole(Len(x))
      /\ \A j \in 0..k : Len(b.buf) <= Len(res[j]) /\ Len(res[j]) <= Len(x)
      /\ \A n \in 1..Len(a) : a[n].type \notin BytesTypes => Stands(x, Slot(n), WordBytes(Held(a[n])))
      /\ \A j \in 1..k : /\ Stands(x, b.str[j].offset, WordBytes(Len(res[j - 1])))
                        /\ Stands(x, Len(res[j - 1]), b.str[j].data)
  BY Zenon DEF LaidOut
<1>5. /\ s \in Strings /\ s.offset + AbiWord <= Len(b.buf)
      /\ \A n \in 1..Len(a) : a[n].type \notin BytesTypes =>
            Slot(n) \in Nat /\ (Slot(n) + AbiWord <= s.offset \/ s.offset + AbiWord <= Slot(n))
      /\ \A j \in 1..Len(b.str) : j < k + 1 => b.str[j].offset + AbiWord <= s.offset
  BY StringSlot, Zenon
<1>6. s.offset \in Nat /\ s.data \in Seq(Octets) /\ s.offset + AbiWord <= Len(x)
  BY <1>1, <1>3, <1>4, <1>5 DEF Strings
<1> HIDE DEF s, x, y, w
<1>7. /\ y \in Seq(Octets) /\ Len(x) + Len(s.data) <= Len(y)
      /\ Whole(Len(x)) => Whole(Len(y))
      /\ Stands(y, s.offset, WordBytes(Len(x)))
      /\ Stands(y, Len(x), s.data)
      /\ \A part \in Seq(Octets), at \in Nat :
            /\ Stands(x, at, part)
            /\ at + Len(part) <= s.offset \/ s.offset + AbiWord <= at
            => Stands(y, at, part)
  BY <1>3, <1>5, <1>6, PlacedStands, Zenon
<1>8. Len(s.data) \in Nat /\ Len(y) \in Nat /\ Len(x) <= Len(y)
  BY <1>3, <1>6, <1>7
<1>9. Len(b.buf) <= Len(y) /\ Whole(Len(y))
  BY <1>1, <1>3, <1>4, <1>7, <1>8
<1>10. \A j \in 0..k + 1 : Len(b.buf) <= Len(res[j]) /\ Len(res[j]) <= Len(y)
  <2> TAKE j \in 0..k + 1
  <2>1. CASE j = k + 1
    BY <1>8, <1>9, <2>1 DEF y
  <2>2. CASE j # k + 1
    <3>1. j \in 0..k /\ j \in 0..Len(b.str)
      BY <1>1, <2>2
    <3>2. res[j] \in Seq(Octets) /\ Len(b.buf) <= Len(res[j]) /\ Len(res[j]) <= Len(x)
      BY <1>4, <3>1, Zenon DEF Lays
    <3>3. Len(res[j]) \in Nat
      BY <3>2
    <3>4. QED
      BY <1>3, <1>8, <3>2, <3>3
  <2>3. QED
    BY <2>1, <2>2
<1>11. ASSUME NEW n \in 1..Len(a), a[n].type \notin BytesTypes
       PROVE  Stands(y, Slot(n), WordBytes(Held(a[n])))
  <2>1. Held(a[n]) \in 0..Limit-1
    BY <1>11 DEF Holds, WordsHold
  <2>2. WordBytes(Held(a[n])) \in Seq(Octets) /\ Len(WordBytes(Held(a[n]))) = AbiWord
    <3>1. Held(a[n]) \in Nat
      BY <1>1, <2>1
    <3>2. QED
      BY <3>1, WordType
  <2>3. Stands(x, Slot(n), WordBytes(Held(a[n]))) /\ Slot(n) \in Nat
        /\ (Slot(n) + AbiWord <= s.offset \/ s.offset + AbiWord <= Slot(n))
    BY <1>4, <1>5, <1>11, Zenon
  <2>4. Slot(n) + Len(WordBytes(Held(a[n]))) <= s.offset \/ s.offset + AbiWord <= Slot(n)
    BY <2>2, <2>3
  <2>5. QED
    BY <1>7, <2>2, <2>3, <2>4, Zenon
<1>12. ASSUME NEW j \in 1..k + 1
       PROVE  /\ Stands(y, b.str[j].offset, WordBytes(Len(res[j - 1])))
              /\ Stands(y, Len(res[j - 1]), b.str[j].data)
  <2>1. CASE j = k + 1
    <3>1. res[j - 1] = x /\ b.str[j] = s
      BY <1>2, <2>1 DEF x, s
    <3>2. QED
      BY <1>7, <3>1, Zenon
  <2>2. CASE j # k + 1
    <3>1. j \in 1..k /\ j \in 1..Len(b.str) /\ j < k + 1 /\ j - 1 \in 0..Len(b.str)
      BY <1>1, <2>2
    <3>2. b.str[j] \in Strings /\ b.str[j].offset + AbiWord <= s.offset
      BY <1>5, <3>1, StringSlot, Zenon
    <3>3. res[j - 1] \in Seq(Octets)
      BY <3>1, Zenon DEF Lays
    <3>4. Len(res[j - 1]) \in Nat /\ b.str[j].offset \in Nat /\ b.str[j].data \in Seq(Octets)
      BY <3>2, <3>3 DEF Strings
    <3>5. WordBytes(Len(res[j - 1])) \in Seq(Octets) /\ Len(WordBytes(Len(res[j - 1]))) = AbiWord
      BY <3>4, WordType
    <3>6. Stands(x, b.str[j].offset, WordBytes(Len(res[j - 1]))) /\ Stands(x, Len(res[j - 1]), b.str[j].data)
      BY <1>4, <3>1, Zenon
    <3>7. b.str[j].offset + Len(WordBytes(Len(res[j - 1]))) <= s.offset
      BY <3>2, <3>5
    <3>8. Stands(y, b.str[j].offset, WordBytes(Len(res[j - 1])))
      BY <1>7, <3>4, <3>5, <3>6, <3>7, Zenon
    <3>9. s.offset + AbiWord <= Len(res[j - 1])
      <4>1. Len(b.buf) <= Len(res[j - 1])
        <5>1. j - 1 \in 0..k
          BY <3>1
        <5>2. QED
          BY <1>4, <5>1, Zenon
      <4>2. s.offset + AbiWord <= Len(b.buf)
        BY <1>5, Zenon
      <4>3. Len(b.buf) \in Nat /\ AbiWord \in Nat /\ s.offset \in Nat
        BY <1>1, <1>6, Zenon
      <4>4. QED
        BY <3>4, <4>1, <4>2, <4>3
    <3>10. Stands(y, Len(res[j - 1]), b.str[j].data)
      BY <1>7, <3>4, <3>6, <3>9, Zenon
    <3>11. QED
      BY <3>8, <3>10
  <2>3. QED
    BY <2>1, <2>2
<1>13. QED
  BY <1>9, <1>10, <1>11, <1>12, Zenon DEF LaidOut, y

LEMMA LaidOutAll ==
  ASSUME NEW b, NEW a, Holds(b, a), NEW res, Lays(res, b)
  PROVE  LaidOut(res, b, a, Len(b.str))
<1> DEFINE L == Len(b.str)
           Q == { k \in Nat : k \in 0..L => LaidOut(res, b, a, k) }
<1>1. /\ b.buf \in Seq(Octets) /\ L \in Nat /\ Len(b.buf) \in Nat /\ res[0] = b.buf
      /\ Len(b.buf) = AbiWord * Len(a) /\ Len(a) \in Nat /\ WordsHold(b.buf, a)
  BY DEF Holds, Buffers, Lays
<1>2. 0 \in Q
  <2>1. Whole(Len(b.buf))
    BY <1>1 DEF Whole
  <2>2. \A j \in 0..0 : Len(b.buf) <= Len(res[j]) /\ Len(res[j]) <= Len(res[0])
    BY <1>1
  <2>3. \A n \in 1..Len(a) : a[n].type \notin BytesTypes => Stands(res[0], Slot(n), WordBytes(Held(a[n])))
    BY <1>1, Zenon DEF WordsHold
  <2>4. 1..0 = {} /\ Len(b.buf) <= Len(res[0])
    BY <1>1
  <2>5. Whole(Len(res[0]))
    BY <1>1, <2>1
  <2>6. LaidOut(res, b, a, 0)
    BY <2>2, <2>3, <2>4, <2>5, Zenon DEF LaidOut
  <2>7. QED
    BY <2>6
<1>3. ASSUME NEW k \in Nat, k \in Q PROVE k + 1 \in Q
  <2>1. CASE k + 1 \in 0..L
    <3>1. k \in 0..L /\ k + 1 \in 1..Len(b.str)
      BY <1>1, <2>1
    <3>2. LaidOut(res, b, a, k)
      BY <1>3, <3>1
    <3>3. LaidOut(res, b, a, k + 1)
      BY <3>1, <3>2, LaidOutMore, Zenon
    <3>4. QED
      BY <3>3
  <2>2. QED
    BY <2>1
<1>4. \A k \in Nat : k \in Q
  <2> HIDE DEF Q
  <2>1. QED
    BY <1>2, <1>3, Induct
<1>5. QED
  BY <1>1, <1>4

LEMMA WholeDivides ==
  ASSUME NEW n, Whole(n)
  PROVE  n % AbiWord = 0
<1>1. PICK q \in Nat : n = AbiWord * q
  BY DEF Whole
<1>2. AbiWord \in Positive /\ AbiWord \in Nat /\ AbiWord > 0
  BY AbiConstants DEF Positive
<1>3. n \in Nat
  BY <1>1, <1>2
<1>4. n \div AbiWord = q
  BY <1>1, <1>2, <1>3, QuotientIs
<1>5. n = AbiWord * (n \div AbiWord) + (n % AbiWord) /\ n % AbiWord \in 0..AbiWord-1
  BY <1>2, <1>3, DivFacts
<1> DEFINE r == n % AbiWord
<1>6. n = n + r /\ r \in Int
  BY <1>1, <1>2, <1>4, <1>5
<1> HIDE DEF r
<1>7. r = 0
  BY <1>3, <1>6
<1>8. QED
  BY <1>7 DEF r

\* Bytes behind their length are read back.
LEMMA PackedRead ==
  ASSUME NEW bytes \in Seq(Octets), NEW v \in Seq(Octets), NEW at \in Nat,
         Len(bytes) < Limit, Stands(bytes, at, Packed(v))
  PROVE  SubSeq(bytes, at + AbiWord + 1, at + AbiWord + Word(bytes, at)) = v
<1> DEFINE w == WordBytes(Len(v))
<1>1. Len(v) \in Nat /\ AbiWord \in Nat /\ Limit \in Nat /\ Len(bytes) \in Nat
  BY AbiConstants DEF Positive
<1>2. w \in Seq(Octets) /\ Len(w) = AbiWord
  BY <1>1, WordType
<1>3. Packed(v) = w \o v
  BY DEF Packed
<1> HIDE DEF w
<1>4. /\ Len(w \o v) = AbiWord + Len(v)
      /\ \A i \in 1..AbiWord : (w \o v)[i] = w[i]
      /\ \A i \in 1..Len(v) : (w \o v)[AbiWord + i] = v[i]
  BY <1>1, <1>2
<1> DEFINE all == w \o v
<1>5. at + Len(all) <= Len(bytes) /\ \A i \in 1..Len(all) : bytes[at + i] = all[i]
  BY <1>3 DEF Stands
<1> HIDE DEF all
<1>6. /\ Len(all) = AbiWord + Len(v)
      /\ \A i \in 1..AbiWord : all[i] = w[i]
      /\ \A i \in 1..Len(v) : all[AbiWord + i] = v[i]
  BY <1>4 DEF all
<1>7. Stands(bytes, at, w)
  <2>1. at + Len(w) <= Len(bytes)
    BY <1>1, <1>2, <1>5, <1>6
  <2>2. \A i \in 1..Len(w) : bytes[at + i] = w[i]
    <3> TAKE i \in 1..Len(w)
    <3>1. i \in 1..AbiWord /\ i \in 1..Len(all)
      BY <1>1, <1>2, <1>6
    <3>2. QED
      BY <1>5, <1>6, <3>1, Zenon
  <2>3. QED
    BY <2>1, <2>2 DEF Stands
<1>8. Stands(bytes, at + AbiWord, v)
  <2>1. (at + AbiWord) + Len(v) <= Len(bytes)
    BY <1>1, <1>5, <1>6
  <2>2. \A i \in 1..Len(v) : bytes[(at + AbiWord) + i] = v[i]
    <3> TAKE i \in 1..Len(v)
    <3>1. AbiWord + i \in 1..Len(all) /\ (at + AbiWord) + i = at + (AbiWord + i)
      BY <1>1, <1>6
    <3>2. bytes[at + (AbiWord + i)] = all[AbiWord + i] /\ all[AbiWord + i] = v[i]
      BY <1>5, <1>6, <3>1, Zenon
    <3>3. QED
      BY <3>1, <3>2
  <2>3. QED
    BY <2>1, <2>2 DEF Stands
<1>9. Len(v) \in 0..Limit-1
  BY <1>1, <1>5, <1>6
<1>10. Word(bytes, at) = Len(v)
  BY <1>7, <1>9, WordStands, Zenon DEF w
<1>11. at + AbiWord \in Nat
  BY <1>1
<1>12. SubSeq(bytes, (at + AbiWord) + 1, (at + AbiWord) + Len(v)) = v
  BY <1>8, <1>11, StandsRead
<1>13. QED
  BY <1>10, <1>12

\* What Bytes() gives out is read as it was written.
LEMMA BytesRead ==
  ASSUME NEW b, NEW a, Holds(b, a), Len(Bytes(b)) < Limit
  PROVE  /\ \A n \in DOMAIN a : Read(Bytes(b), n, a[n].type) = Held(a[n])
         /\ Len(Bytes(b)) % AbiWord = 0
<1>1. b \in Buffers /\ a \in Seq(Args)
  BY DEF Holds
<1>2. PICK res : Lays(res, b) /\ Bytes(b) = res[Len(b.str)]
  BY <1>1, BytesRuns
<1> DEFINE L == Len(b.str)
           out == Bytes(b)
<1>3. LaidOut(res, b, a, L)
  BY <1>2, LaidOutAll
<1>4. L \in Nat /\ AbiWord \in Nat /\ Limit \in Nat /\ DOMAIN a = 1..Len(a)
  BY <1>1, AbiConstants DEF Buffers, Positive
<1>5. out \in Seq(Octets) /\ out = res[L]
  BY <1>2, <1>4 DEF Lays
<1>6. /\ Whole(Len(out))
      /\ \A j \in 0..L : Len(res[j]) <= Len(out)
      /\ \A n \in 1..Len(a) : a[n].type \notin BytesTypes => Stands(out, Slot(n), WordBytes(Held(a[n])))
      /\ \A j \in 1..L : /\ Stands(out, b.str[j].offset, WordBytes(Len(res[j - 1])))
                        /\ Stands(out, Len(res[j - 1]), b.str[j].data)
  BY <1>2, <1>3, Zenon DEF LaidOut
<1>7. Len(out) < Limit
  OBVIOUS
<1> HIDE DEF out, L
<1>8. Len(out) % AbiWord = 0
  BY <1>6, WholeDivides
<1>9. ASSUME NEW n \in 1..Len(a) PROVE Read(out, n, a[n].type) = Held(a[n])
  <2>1. (n - 1) * AbiWord = Slot(n) /\ Slot(n) \in Nat
    BY <1>4 DEF Slot
  <2> DEFINE type == a[n].type
             head == Word(out, (n - 1) * AbiWord)
  <2>2. head = Word(out, Slot(n))
    BY <2>1
  <2>3. Read(out, n, type) = IF type \in BytesTypes
                             THEN SubSeq(out, head + AbiWord + 1, head + AbiWord + Word(out, head))
                             ELSE head
    BY Zenon DEF Read
  <2> HIDE DEF head
  <2>4. CASE type \notin BytesTypes
    <3>1. Held(a[n]) \in 0..Limit-1
      BY <2>4, Zenon DEF Holds, WordsHold
    <3>2. Stands(out, Slot(n), WordBytes(Held(a[n])))
      BY <1>6, <2>4, Zenon
    <3>3. head = Held(a[n])
      BY <1>5, <2>1, <2>2, <3>1, <3>2, WordStands
    <3>4. QED
      BY <2>3, <2>4, <3>3
  <2>5. CASE type \in BytesTypes
    <3>1. PICK j \in 1..L : IsString(b.str[j], a[n], n)
      BY <2>5, Zenon DEF Holds, StringsHold, L
    <3> DEFINE v == a[n].param.v
               h == Len(res[j - 1])
    <3>2. v \in Seq(Octets) /\ b.str[j] = [offset |-> Slot(n), data |-> Packed(v)]
      BY <3>1, Zenon DEF IsString
    <3>3. b.str[j].offset = Slot(n) /\ b.str[j].data = Packed(v)
      BY <3>2
    <3>4. j - 1 \in 0..L
      BY <1>4
    <3>5. res[j - 1] \in Seq(Octets) /\ Len(res[j - 1]) <= Len(out)
      BY <1>2, <1>6, <3>4, Zenon DEF Lays, L
    <3>6. h \in 0..Limit-1 /\ h \in Nat
      BY <1>4, <1>5, <1>7, <3>5
    <3>7. Stands(out, Slot(n), WordBytes(h)) /\ Stands(out, h, Packed(v))
      BY <1>6, <3>3, Zenon
    <3> HIDE DEF v, h
    <3>8. head = h
      BY <1>5, <2>1, <2>2, <3>6, <3>7, WordStands
    <3>9. SubSeq(out, h + AbiWord + 1, h + AbiWord + Word(out, h)) = v
      BY <1>5, <1>7, <3>2, <3>6, <3>7, PackedRead
    <3>10. Read(out, n, type) = v
      BY <2>3, <2>5, <3>8, <3>9
    <3>11. Held(a[n]) = v
      <4>1. type \notin UintTypes
        BY <2>5 DEF UintTypes, BytesTypes
      <4>2. QED
        BY <2>5, <4>1, Zenon DEF Held, v
    <3>12. QED
      BY <3>10, <3>11
  <2>6. QED
    BY <2>4, <2>5
<1>10. QED
  BY <1>4, <1>8, <1>9, Zenon DEF out

\* What was written for a number is what the ABI puts there, and for bytes when they
\* fill the word.
LEMMA HeldIsMeant ==
  ASSUME NEW x, x.type \notin BytesTypes => Held(x) \in 0..Limit-1,
         ~ (Narrow(x.type) /\ x.type \in FixedBytes)
  PROVE  Held(x) = Meant(x)
<1>1. CASE x.type \in BytesTypes
  <2>1. x.type \notin UintTypes /\ x.type \notin NumberTypes /\ x.type \notin FixedBytes
    BY <1>1 DEF UintTypes, BytesTypes, NumberTypes, FixedBytes
  <2>2. QED
    BY <1>1, <2>1, Zenon DEF Held, Meant
<1>2. CASE x.type \in NumberTypes
  <2>1. x.type \in UintTypes /\ x.type \notin BytesTypes /\ x.type \notin FixedBytes
    BY <1>2 DEF UintTypes, BytesTypes, NumberTypes, FixedBytes
  <2>2. QED
    BY <1>2, <2>1, Zenon DEF Held, Meant
<1>3. CASE x.type \in FixedBytes
  <2>1. x.type \in UintTypes /\ x.type \notin BytesTypes /\ x.type \notin NumberTypes
    BY <1>3 DEF UintTypes, BytesTypes, NumberTypes, FixedBytes
  <2>2. Held(x) = x.param.n % Limit
    BY <2>1, Zenon DEF Held
  <2>3. Meant(x) = (x.param.n % Limit) * Power(AbiByte, AbiWord - AbiWidths[x.type])
    BY <1>3, <2>1, Zenon DEF Meant
  <2>4. AbiWidths[x.type] = AbiWord
    <3>1. AbiWidths[x.type] \in 1..AbiWord
      BY <1>3, CalldataAssumption, Zenon
    <3>2. ~ (AbiWidths[x.type] < AbiWord)
      BY <1>3, Zenon DEF Narrow
    <3>3. AbiWord \in Nat
      BY AbiConstants DEF Positive
    <3>4. QED
      BY <3>1, <3>2, <3>3
  <2>5. Power(AbiByte, AbiWord - AbiWidths[x.type]) = 1
    <3>1. AbiWord - AbiWidths[x.type] = 0
      BY <2>4, AbiConstants DEF Positive
    <3>2. 0 \in Nat /\ AbiByte \in Positive
      BY AbiConstants
    <3>3. Power(AbiByte, 0) = 1
      BY <3>2, PowerFacts
    <3>4. QED
      BY <3>1, <3>3, Zenon
  <2>6. Held(x) \in Nat
    BY <2>1, AbiConstants DEF Positive
  <2>7. QED
    BY <2>2, <2>3, <2>5, <2>6
<1>4. CASE x.type \notin BytesTypes /\ x.type \notin NumberTypes /\ x.type \notin FixedBytes
  <2>1. x.type \notin UintTypes
    BY <1>4, WordTypes
  <2>2. QED
    BY <1>4, <2>1, Zenon DEF Held, Meant
<1>5. QED
  BY <1>1, <1>2, <1>3, <1>4, Zenon

\* The calls of a caller, on a buffer of fewer bytes than a word can count.
CalldataCalls == { c \in [f : {"AbiBuffer"}, calls : Seq(BufferCalls)] : Len(Bytes(Result(c.calls))) < Limit }

\* CalldataIsRead, for every list of calls on a buffer: whatever types, values and
\* strings they have, those that fail included, each argument taken has its word in its
\* place, and a contract reads from it the value, if it is one of the type and of no
\* bytes that leave a part of the word free (evmabi.go:110, 154, 232).
THEOREM CalldataReadBack == call \in CalldataCalls /\ [][Answered]_call => []CalldataIsRead
<1>1. call \in CalldataCalls => CalldataIsRead
  <2> SUFFICES ASSUME call \in CalldataCalls PROVE CalldataIsRead
    OBVIOUS
  <2> DEFINE b == Result(call.calls)
             a == Arguments(call.calls)
  <2>1. call.calls \in Seq(BufferCalls) /\ Len(Bytes(b)) < Limit
    BY DEF CalldataCalls
  <2>2. Holds(b, a)
    BY <2>1, ResultHolds
  <2> HIDE DEF b, a
  <2>3. Len(b.buf) = AbiWord * Len(a)
    BY <2>2 DEF Holds
  <2>4. /\ \A n \in DOMAIN a : Read(Bytes(b), n, a[n].type) = Held(a[n])
        /\ Len(Bytes(b)) % AbiWord = 0
    BY <2>1, <2>2, BytesRead
  <2>5. ASSUME NEW n \in DOMAIN a, ~ (Narrow(a[n].type) /\ a[n].type \in FixedBytes)
        PROVE  Read(Bytes(b), n, a[n].type) = Meant(a[n])
    <3>1. n \in 1..Len(a)
      BY <2>2 DEF Holds
    <3>2. a[n].type \notin BytesTypes => Held(a[n]) \in 0..Limit-1
      BY <2>2, <3>1, Zenon DEF Holds, WordsHold
    <3>3. Held(a[n]) = Meant(a[n])
      BY <2>5, <3>2, HeldIsMeant, Zenon
    <3>4. QED
      BY <2>4, <3>3, Zenon
  <2>6. QED
    BY <2>3, <2>4, <2>5, Zenon DEF CalldataIsRead, a, b
<1>2. CalldataIsRead /\ [Answered]_call => CalldataIsRead'
  BY Zenon DEF Answered, CalldataIsRead, Called
<1>3. QED
  BY <1>1, <1>2, PTL

-----------------------------------------------------------------------------
(***************************************************************************)
(* A TronTx.                                                               *)
(***************************************************************************)
\* A transaction has its fields, and its signatures are a list.
Shape == tx = Transaction(tx) /\ IsSequence(tx.signatures)

-----------------------------------------------------------------------------
\* Setting a field of a transaction leaves the others.
LEMMA SetField ==
  ASSUME tx = Transaction(tx), NEW v
  PROVE  /\ LET t == [tx EXCEPT !.contracts = v]
            IN  t = Transaction(t) /\ t.signatures = tx.signatures /\ t.contracts = v
         /\ LET t == [tx EXCEPT !.feeLimit = v]
            IN  t = Transaction(t) /\ t.signatures = tx.signatures
         /\ LET t == [tx EXCEPT !.signatures = v]
            IN  /\ t = Transaction(t) /\ t.signatures = v /\ RawData(t) = RawData(tx)
  BY DEF Transaction, RawData, Laid

-----------------------------------------------------------------------------
(***************************************************************************)
(* The refinement.                                                         *)
(***************************************************************************)
LEMMA ShapeStep == ASSUME Shape, [Next]_vars PROVE Shape'
<1> USE DEF Shape
<1>1. ASSUME NEW t, t = Transaction(t), t.signatures = tx.signatures, tx' = t PROVE Shape'
  BY <1>1 DEF Transaction
<1>2. ASSUME NEW a \in Requests, Add(a) PROVE Shape'
  <2> DEFINE t == [tx EXCEPT !.contracts = Appended(tx.contracts, Built(a))]
  <2>1. t = Transaction(t) /\ t.signatures = tx.signatures
    BY SetField
  <2>2. tx' = t
    BY <1>2, Zenon DEF Add
  <2> HIDE DEF t
  <2>3. QED
    BY <1>1, <2>1, <2>2
<1>3. ASSUME NEW c \in Contracts, AppendContract(c) PROVE Shape'
  <2> DEFINE t == [tx EXCEPT !.contracts = Append(tx.contracts, c)]
  <2>1. t = Transaction(t) /\ t.signatures = tx.signatures
    BY SetField
  <2>2. tx' = t
    BY <1>3, Zenon DEF AppendContract, Edited
  <2> HIDE DEF t
  <2>3. QED
    BY <1>1, <2>1, <2>2
<1>4. ASSUME NEW f \in FeeLimits, SetFeeLimit(f) PROVE Shape'
  <2> DEFINE t == [tx EXCEPT !.feeLimit = f]
  <2>1. t = Transaction(t) /\ t.signatures = tx.signatures
    BY SetField
  <2>2. tx' = t
    BY <1>4, Zenon DEF SetFeeLimit, Edited
  <2> HIDE DEF t
  <2>3. QED
    BY <1>1, <2>1, <2>2
<1>5. ASSUME NEW s \in Signers, Sign(s) PROVE Shape'
  <2> DEFINE sigs == Append(tx.signatures, [by |-> s, over |-> RawData(tx)])
             t == [tx EXCEPT !.signatures = sigs]
  <2>1. IsSequence(sigs)
    BY AppendedSequence, Zenon
  <2>2. t = Transaction(t) /\ t.signatures = sigs
    BY SetField
  <2>3. tx' = t
    BY <1>5, Zenon DEF Sign
  <2> HIDE DEF t, sigs
  <2>4. QED
    BY <2>1, <2>2, <2>3
<1>6. CASE Refuse \/ MarshalBinary \/ SignerAddresses \/ UNCHANGED vars
  BY <1>6 DEF Refuse, MarshalBinary, SignerAddresses, vars
<1>7. QED
  BY <1>2, <1>3, <1>4, <1>5, <1>6 DEF Next

\* The copy that bytes stand for.
Copied(w) == [content |-> w.raw, approvals |-> Approved(w.signatures)]

LEMMA PromiseInit == Init => Promise!Init
<1> SUFFICES ASSUME Init PROVE Promise!Init
  OBVIOUS
<1>1. /\ tx.signatures = <<>> /\ op = "init"
      /\ wire.raw = Nil /\ wire.signatures = <<>>
  BY TronAssumption DEF Init
<1>2. Approved(<<>>) = <<>>
  BY DEF Approved
<1>3. QED
  BY <1>1, <1>2 DEF Promise!Init, Approved

LEMMA PromiseStep == ASSUME Shape, [Next]_vars PROVE [Promise!Next]_(Promise!vars)
<1>1. ASSUME op' = "edit", tx'.signatures = tx.signatures, UNCHANGED wire PROVE Promise!Next
  BY <1>1 DEF Promise!Next, Promise!Edit
<1>2. ASSUME op' = "refused", tx' = tx, UNCHANGED wire PROVE Promise!Next
  BY <1>2 DEF Promise!Next, Promise!Refuse, RawData, Laid
<1>3. ASSUME NEW a \in Requests, Add(a) PROVE Promise!Next
  <2> DEFINE t == [tx EXCEPT !.contracts = Appended(tx.contracts, Built(a))]
  <2>1. tx' = t /\ UNCHANGED wire /\ op' = IF Built(a) = Nil THEN "refused" ELSE "edit"
    BY <1>3, Zenon DEF Add
  <2>2. t.signatures = tx.signatures
    BY SetField DEF Shape
  <2>3. Built(a) = Nil => t = tx
    BY DEF Appended, Shape, Transaction
  <2> HIDE DEF t
  <2>4. QED
    BY <1>1, <1>2, <2>1, <2>2, <2>3
<1>4. ASSUME NEW c \in Contracts, AppendContract(c) PROVE Promise!Next
  <2> DEFINE t == [tx EXCEPT !.contracts = Append(tx.contracts, c)]
  <2>1. tx' = t /\ UNCHANGED wire /\ op' = "edit"
    BY <1>4, Zenon DEF AppendContract, Edited
  <2>2. t.signatures = tx.signatures
    BY SetField DEF Shape
  <2> HIDE DEF t
  <2>3. QED
    BY <1>1, <2>1, <2>2
<1>5. ASSUME NEW f \in FeeLimits, SetFeeLimit(f) PROVE Promise!Next
  <2> DEFINE t == [tx EXCEPT !.feeLimit = f]
  <2>1. tx' = t /\ UNCHANGED wire /\ op' = "edit"
    BY <1>5, Zenon DEF SetFeeLimit, Edited
  <2>2. t.signatures = tx.signatures
    BY SetField DEF Shape
  <2> HIDE DEF t
  <2>3. QED
    BY <1>1, <2>1, <2>2
<1>6. ASSUME NEW s \in Signers, Sign(s) PROVE Promise!Next
  <2> DEFINE raw == RawData(tx)
             sigs == Append(tx.signatures, [by |-> s, over |-> raw])
             t == [tx EXCEPT !.signatures = sigs]
  <2>1. tx' = t /\ UNCHANGED wire /\ op' = "approve" /\ raw # Nil
    BY <1>6, Zenon DEF Sign
  <2>2. t.signatures = sigs /\ RawData(t) = raw
    BY SetField DEF Shape
  <2>3. Approved(sigs) = Append(Approved(tx.signatures), [by |-> s, of |-> raw])
    BY ApprovedAppend DEF Shape
  <2> HIDE DEF t, sigs, raw
  <2>4. RawData(tx') = raw /\ Approved(tx'.signatures) = Append(Approved(tx.signatures), [by |-> s, of |-> raw])
    BY <2>1, <2>2, <2>3
  <2>5. Promise!Approve(s)
    BY <2>1, <2>4 DEF Promise!Approve, Approved, RawData, Laid, raw
  <2>6. QED
    BY <2>5 DEF Promise!Next
<1>7. CASE Refuse
  BY <1>2, <1>7 DEF Refuse
<1>8. CASE MarshalBinary
  <2>1. /\ RawData(tx) # Nil /\ wire' = [raw |-> RawData(tx), signatures |-> tx.signatures]
        /\ op' = "write" /\ UNCHANGED tx
    BY <1>8 DEF MarshalBinary
  <2>2. Copied(wire') = [content |-> RawData(tx), approvals |-> Approved(tx.signatures)]
    BY <2>1 DEF Copied
  <2>3. Promise!GiveCopy
    BY <2>1, <2>2 DEF Promise!GiveCopy, Copied, Approved, RawData, Laid
  <2>4. QED
    BY <2>3 DEF Promise!Next
<1>9. CASE SignerAddresses
  BY <1>9 DEF SignerAddresses, Promise!vars, RawData, Laid
<1>10. CASE UNCHANGED vars
  BY <1>10 DEF vars, Promise!vars, RawData, Laid
<1>11. QED
  BY <1>3, <1>4, <1>5, <1>6, <1>7, <1>8, <1>9, <1>10 DEF Next

\* KeepsPromise: every operation of a TronTx is a step of Approvals or leaves the
\* document, its approvals and the last copy alone; a refused AddTransfer or
\* AddTRC20Transfer adds no contract (trontx.go:189, 225, 275).
THEOREM TronKeepsPromise == Spec => KeepsPromise
<1>1. Init => Shape
  <2> SUFFICES ASSUME Init PROVE Shape
    OBVIOUS
  <2>1. tx = Transaction(tx) /\ tx.signatures = <<>>
    BY TronAssumption DEF Init
  <2>2. IsSequence(<<>>)
    BY DEF IsSequence
  <2>3. QED
    BY <2>1, <2>2 DEF Shape
<1>2. Spec => []Shape
  BY <1>1, ShapeStep, PTL DEF Spec
<1>3. QED
  BY <1>2, PromiseInit, PromiseStep, PTL DEF Spec, KeepsPromise, Promise!Spec

-----------------------------------------------------------------------------
(***************************************************************************)
(* Reading a message.                                                      *)
(***************************************************************************)
LEMMA Concatenated ==
  ASSUME NEW x, NEW y, IsSequence(x), IsSequence(y)
  PROVE  /\ IsSequence(x \o y) /\ Len(x) \in Nat /\ Len(y) \in Nat
         /\ DOMAIN x = 1..Len(x) /\ DOMAIN y = 1..Len(y)
         /\ Len(x \o y) = Len(x) + Len(y) /\ DOMAIN (x \o y) = 1..Len(x) + Len(y)
         /\ \A i \in 1..Len(x) : (x \o y)[i] = x[i]
         /\ \A i \in 1..Len(y) : (x \o y)[Len(x) + i] = y[i]
<1> DEFINE A == { x[i] : i \in DOMAIN x }
           B == { y[i] : i \in DOMAIN y }
           S == A \cup B
           z == x \o y
<1>1. x \in Seq(S) /\ y \in Seq(S)
  <2>1. x \in Seq(A) /\ y \in Seq(B)
    BY DEF IsSequence
  <2> HIDE DEF A, B
  <2>2. QED
    BY <2>1
<1> HIDE DEF S
<1>2. /\ z \in Seq(S) /\ Len(x) \in Nat /\ Len(y) \in Nat
      /\ DOMAIN x = 1..Len(x) /\ DOMAIN y = 1..Len(y)
      /\ Len(z) = Len(x) + Len(y) /\ DOMAIN z = 1..Len(x) + Len(y)
      /\ \A i \in 1..Len(x) : z[i] = x[i]
      /\ \A i \in 1..Len(y) : z[Len(x) + i] = y[i]
  BY <1>1
<1> HIDE DEF z
<1>3. \A i \in 1..Len(z) : z[i] \in { z[j] : j \in DOMAIN z }
  BY <1>2
<1>4. z \in Seq({ z[j] : j \in DOMAIN z })
  <2> DEFINE T == { z[j] : j \in DOMAIN z }
  <2> HIDE DEF T
  <2>1. \A i \in 1..Len(z) : z[i] \in T
    BY <1>3 DEF T
  <2>2. z = [i \in 1..Len(z) |-> z[i]] /\ Len(z) \in Nat
    BY <1>2
  <2>3. [i \in 1..Len(z) |-> z[i]] \in Seq(T)
    BY <2>1, <2>2
  <2>4. QED
    BY <2>2, <2>3 DEF T
<1>5. QED
  BY <1>2, <1>4 DEF IsSequence, z

\* The fields of m with number n are those of part, in their order.
Has(m, n, part) ==
    /\ IsSequence(m) /\ IsSequence(part)
    /\ \E at \in Nat :
          /\ Places(m, n) = (at + 1)..(at + Len(part))
          /\ \A i \in 1..Len(part) : m[at + i] = part[i]

\* All fields of part have number n.
Only(part, n) == IsSequence(part) /\ \A i \in 1..Len(part) : part[i].n = n

\* All fields of m have numbers up to k, and stand in their order.
FieldsTo(m, k) ==
    /\ IsSequence(m) /\ Ascending(m)
    /\ \A i \in 1..Len(m) : m[i].n \in Nat /\ m[i].n <= k

\* A further field, with a higher number, hides none before it.
LEMMA FieldAdded ==
  ASSUME NEW x, NEW k \in Nat, FieldsTo(x, k), NEW n \in Nat, k < n, NEW y, Only(y, n)
  PROVE  /\ FieldsTo(x \o y, n) /\ Has(x \o y, n, y)
         /\ \A j, part : j \in 0..k /\ Has(x, j, part) => Has(x \o y, j, part)
<1> DEFINE z == x \o y
           X == Len(x)
           Y == Len(y)
<1>0. IsSequence(x) /\ IsSequence(y)
  BY DEF FieldsTo, Only
<1>1. /\ IsSequence(z) /\ X \in Nat /\ Y \in Nat
      /\ DOMAIN x = 1..X /\ DOMAIN y = 1..Y
      /\ Len(z) = X + Y /\ DOMAIN z = 1..X + Y
      /\ \A i \in 1..X : z[i] = x[i]
      /\ \A i \in 1..Y : z[X + i] = y[i]
  BY <1>0, Concatenated
<1>2. /\ IsSequence(x) /\ \A i \in 1..X : x[i].n \in Nat /\ x[i].n <= k
      /\ \A i \in 1..X-1 : x[i].n <= x[i + 1].n
  BY Zenon DEF FieldsTo, Ascending
<1>3. IsSequence(y) /\ \A i \in 1..Y : y[i].n = n
  BY Zenon DEF Only
<1> HIDE DEF z, X, Y
<1>4. \A i \in 1..X : z[i].n \in Nat /\ z[i].n <= k
  BY <1>1, <1>2
<1>5. \A i \in X + 1..X + Y : z[i].n = n /\ i - X \in 1..Y /\ z[i] = y[i - X]
  <2> TAKE i \in X + 1..X + Y
  <2>1. i - X \in 1..Y /\ X + (i - X) = i
    BY <1>1
  <2>2. z[i] = y[i - X]
    BY <1>1, <2>1
  <2>3. QED
    BY <1>3, <2>1, <2>2
<1>6. FieldsTo(z, n)
  <2>1. \A i \in 1..Len(z) : z[i].n \in Nat /\ z[i].n <= n
    BY <1>1, <1>4, <1>5
  <2>2. ASSUME NEW i \in 1..Len(z)-1 PROVE z[i].n <= z[i + 1].n
    <3>1. CASE i + 1 <= X
      <4>1. i \in 1..X-1 /\ i \in 1..X /\ i + 1 \in 1..X
        BY <1>1, <3>1
      <4>2. QED
        BY <1>1, <1>2, <4>1
    <3>2. CASE i + 1 > X
      <4>1. i + 1 \in X + 1..X + Y /\ i \in 1..Len(z)
        BY <1>1, <3>2
      <4>2. z[i + 1].n = n
        BY <1>5, <4>1
      <4>3. QED
        BY <2>1, <4>1, <4>2
    <3>3. QED
      BY <1>1, <3>1, <3>2
  <2>3. QED
    BY <1>1, <2>1, <2>2, Zenon DEF FieldsTo, Ascending
<1>7. Has(z, n, y)
  <2>1. Places(z, n) = (X + 1)..(X + Y)
    <3>1. \A i \in DOMAIN z : z[i].n = n <=> i \in (X + 1)..(X + Y)
      BY <1>1, <1>4, <1>5
    <3>2. (X + 1)..(X + Y) \subseteq DOMAIN z
      BY <1>1
    <3>3. QED
      BY <3>1, <3>2 DEF Places
  <2>2. QED
    BY <1>1, <1>3, <2>1, Zenon DEF Has, Y
<1>8. ASSUME NEW j \in 0..k, NEW part, Has(x, j, part) PROVE Has(z, j, part)
  <2>1. PICK at \in Nat : /\ Places(x, j) = (at + 1)..(at + Len(part))
                          /\ \A i \in 1..Len(part) : x[at + i] = part[i]
    BY <1>8 DEF Has
  <2>2. IsSequence(part) /\ Len(part) \in Nat
    <3>1. IsSequence(part)
      BY <1>8 DEF Has
    <3>2. Len(part) \in Nat
      BY <3>1, Concatenated
    <3>3. QED
      BY <3>1, <3>2
  <2>3. Places(z, j) = Places(x, j)
    <3>1. \A i \in DOMAIN z : z[i].n = j <=> i \in 1..X /\ x[i].n = j
      BY <1>1, <1>5
    <3>2. QED
      BY <1>1, <3>1 DEF Places
  <2>4. \A i \in 1..Len(part) : z[at + i] = part[i]
    <3> TAKE i \in 1..Len(part)
    <3>1. at + i \in (at + 1)..(at + Len(part))
      BY <2>2
    <3>2. at + i \in 1..X
      BY <1>1, <2>1, <3>1 DEF Places
    <3>3. QED
      BY <1>1, <2>1, <3>2
  <2>5. QED
    BY <1>1, <2>1, <2>2, <2>3, <2>4, Zenon DEF Has
<1>9. QED
  BY <1>6, <1>7, <1>8, Zenon DEF z

LEMMA OnlyField ==
  ASSUME NEW n \in Nat, NEW y, Only(y, n)
  PROVE  FieldsTo(y, n) /\ Has(y, n, y)
<1>1. IsSequence(y) /\ \A i \in 1..Len(y) : y[i].n = n
  BY DEF Only
<1>2. Len(y) \in Nat /\ DOMAIN y = 1..Len(y)
  BY <1>1, Concatenated
<1>3. FieldsTo(y, n)
  BY <1>1, <1>2 DEF FieldsTo, Ascending
<1>4. Places(y, n) = 1..Len(y)
  BY <1>1, <1>2 DEF Places
<1>5. /\ 0 \in Nat /\ Places(y, n) = (0 + 1)..(0 + Len(y))
      /\ \A i \in 1..Len(y) : y[0 + i] = y[i]
  BY <1>2, <1>4
<1>6. QED
  BY <1>1, <1>3, <1>5 DEF Has

\* One field, or none, with number n.
LEMMA FieldIs ==
  ASSUME NEW n, NEW v
  PROVE  /\ Only(Field(n, v), n) /\ Len(Field(n, v)) = 1 /\ Field(n, v)[1].v = v
         /\ Only(<<>>, n) /\ Len(<<>>) = 0
         /\ Only(BytesField(n, v), n) /\ Only(NumberField(n, v), n)
<1>1. ASSUME NEW w PROVE Only(Field(n, w), n) /\ Len(Field(n, w)) = 1 /\ Field(n, w)[1].v = w
  <2> DEFINE e == [n |-> n, v |-> w]
             f == Field(n, w)
             S == { f[i] : i \in DOMAIN f }
  <2>1. f = <<e>> /\ e.n = n /\ e.v = w
    BY DEF Field
  <2> HIDE DEF e, f
  <2>2. Len(f) = 1 /\ f[1] = e /\ DOMAIN f = {1}
    BY <2>1
  <2>3. e \in S
    BY <2>2
  <2> HIDE DEF S
  <2>4. f \in Seq(S)
    BY <2>1, <2>3, OneLong, Zenon
  <2>5. \A i \in 1..Len(f) : f[i].n = n
    BY <2>1, <2>2
  <2>6. QED
    BY <2>1, <2>2, <2>4, <2>5 DEF Only, IsSequence, f, S
<1>2. Only(<<>>, n) /\ Len(<<>>) = 0
  BY DEF Only, IsSequence
<1>3. Only(BytesField(n, v), n)
  BY <1>1, <1>2, Zenon DEF BytesField
<1>4. Only(NumberField(n, v), n)
  BY <1>1, <1>2, Zenon DEF NumberField
<1>5. QED
  BY <1>1, <1>2, <1>3, <1>4

LEMMA OneMax ==
  ASSUME NEW k \in Nat
  PROVE  Max({k}) = k /\ Min({k}) = k
  BY DEF Max, Min

\* What is read from the fields of a number.
LEMMA FieldRead ==
  ASSUME NEW m, NEW n, NEW v
  PROVE  /\ Has(m, n, Field(n, v)) =>
               Places(m, n) # {} /\ m[Max(Places(m, n))].v = v /\ ReadBytes(m, n) = v
         /\ Has(m, n, <<>>) => Places(m, n) = {} /\ ReadBytes(m, n) = <<>> /\ ReadNumber(m, n) = 0
         /\ Has(m, n, BytesField(n, v)) => ReadBytes(m, n) = v
<1>1. ASSUME Has(m, n, Field(n, v))
      PROVE  Places(m, n) # {} /\ m[Max(Places(m, n))].v = v /\ ReadBytes(m, n) = v
  <2> DEFINE f == Field(n, v)
  <2>1. Len(f) = 1 /\ f[1].v = v
    BY FieldIs
  <2> HIDE DEF f
  <2>2. PICK at \in Nat : /\ Places(m, n) = (at + 1)..(at + Len(f))
                          /\ \A i \in 1..Len(f) : m[at + i] = f[i]
    BY <1>1 DEF Has, f
  <2>3. at + 1 \in Nat /\ Places(m, n) = {at + 1} /\ m[at + 1] = f[1]
    BY <2>1, <2>2
  <2>4. Max(Places(m, n)) = at + 1
    BY <2>3, OneMax
  <2>5. Places(m, n) # {} /\ m[Max(Places(m, n))].v = v
    BY <2>1, <2>3, <2>4
  <2>6. QED
    BY <2>5, Zenon DEF ReadBytes
<1>2. ASSUME Has(m, n, <<>>)
      PROVE  Places(m, n) = {} /\ ReadBytes(m, n) = <<>> /\ ReadNumber(m, n) = 0
  <2>1. PICK at \in Nat : Places(m, n) = (at + 1)..(at + Len(<<>>))
    BY <1>2 DEF Has
  <2>2. Places(m, n) = {}
    BY <2>1
  <2>3. QED
    BY <2>2, Zenon DEF ReadBytes, ReadNumber
<1>3. ASSUME Has(m, n, BytesField(n, v)) PROVE ReadBytes(m, n) = v
  <2>1. CASE v = <<>>
    <3>1. BytesField(n, v) = <<>>
      BY <2>1, Zenon DEF BytesField
    <3>2. QED
      BY <1>2, <1>3, <2>1, <3>1
  <2>2. CASE v # <<>>
    <3>1. BytesField(n, v) = Field(n, v)
      BY <2>2, Zenon DEF BytesField
    <3>2. QED
      BY <1>1, <1>3, <3>1
  <2>3. QED
    BY <2>1, <2>2
<1>4. QED
  BY <1>1, <1>2, <1>3

\* An int64 goes through the uint64 of a varint and comes back.
LEMMA NumberRead ==
  ASSUME NEW m, NEW n, NEW v \in Int64, Has(m, n, NumberField(n, v))
  PROVE  ReadNumber(m, n) = v
<1>1. Int64Top \in Nat /\ Int64Top > 0 /\ v \in -Int64Top..Int64Top-1
  BY TronAssumption DEF Int64
<1>2. CASE v = 0
  <2>1. NumberField(n, v) = <<>>
    BY <1>2, Zenon DEF NumberField
  <2>2. QED
    BY <1>2, <2>1, FieldRead
<1>3. CASE v # 0
  <2> DEFINE T == 2 * Int64Top
             w == v % T
  <2>1. NumberField(n, v) = Field(n, w)
    BY <1>3, Zenon DEF NumberField
  <2>2. w = IF v > 0 THEN v ELSE v + T
    <3>1. T \in Nat /\ T > 0 /\ v \in Int /\ -T < v /\ v < T
      BY <1>1
    <3> HIDE DEF T
    <3>2. CASE v > 0
      BY <1>3, <3>1, <3>2
    <3>3. CASE ~ (v > 0)
      <4>1. v < 0 /\ (v + T) % T = v % T /\ v + T \in 0..T-1
        BY <1>3, <3>1, <3>3
      <4>2. (v + T) % T = v + T
        BY <3>1, <4>1
      <4>3. QED
        BY <3>3, <4>1, <4>2
    <3>4. QED
      BY <3>2, <3>3
  <2> HIDE DEF w
  <2>3. Places(m, n) # {} /\ m[Max(Places(m, n))].v = w
    BY <2>1, FieldRead
  <2>4. ReadNumber(m, n) = IF w >= Int64Top THEN w - 2 * Int64Top ELSE w
    BY <2>3, Zenon DEF ReadNumber
  <2>5. QED
    BY <1>1, <1>3, <2>2, <2>4
<1>4. QED
  BY <1>2, <1>3

LEMMA ValuesRead ==
  ASSUME NEW m, NEW n, NEW part, Has(m, n, part)
  PROVE  Len(Values(m, n)) = Len(part) /\ \A i \in 1..Len(part) : Values(m, n)[i] = part[i].v
<1>1. PICK at \in Nat : /\ Places(m, n) = (at + 1)..(at + Len(part))
                        /\ \A i \in 1..Len(part) : m[at + i] = part[i]
  BY DEF Has
<1>2. Len(part) \in Nat
  <2>1. IsSequence(part)
    BY DEF Has
  <2>2. QED
    BY <2>1, Concatenated
<1> DEFINE L == Len(part)
           P == Places(m, n)
<1>3. Cardinality(P) = L
  <2>1. at + 1 \in Int /\ at + L \in Int
    BY <1>2
  <2>2. Cardinality((at + 1)..(at + L)) = IF at + 1 > at + L THEN 0 ELSE (at + L) - (at + 1) + 1
    BY <2>1, FS_Interval
  <2>3. QED
    BY <1>1, <1>2, <2>2
<1> HIDE DEF L, P
<1>4. Values(m, n) = [i \in 1..L |-> m[Min(P) + i - 1].v]
  BY <1>3, Zenon DEF Values, P
<1>5. Len(Values(m, n)) = L
  BY <1>2, <1>4 DEF L
<1>6. ASSUME NEW i \in 1..L PROVE Values(m, n)[i] = part[i].v
  <2>1. at + 1 \in P /\ \A y \in P : at + 1 <= y
    BY <1>1, <1>2, <1>6 DEF P, L
  <2>2. Min(P) = at + 1
    <3>1. P \subseteq Nat
      BY <1>1, <1>2 DEF P
    <3> DEFINE q == Min(P)
    <3>2. q \in P /\ \A y \in P : q <= y
      BY <2>1, <3>1, LeastNat
    <3> HIDE DEF q
    <3>3. q \in Nat /\ at + 1 <= q /\ q <= at + 1
      BY <2>1, <3>1, <3>2
    <3>4. q = at + 1
      BY <3>3
    <3>5. QED
      BY <3>4 DEF q
  <2>3. Min(P) + i - 1 = at + i
    BY <1>2, <2>2 DEF L
  <2>4. m[at + i] = part[i]
    BY <1>1 DEF L
  <2>5. QED
    BY <1>4, <2>3, <2>4
<1>7. QED
  BY <1>5, <1>6 DEF L

LEMMA FourFields ==
  ASSUME NEW a, Only(a, 1), NEW b, Only(b, 2)
  PROVE  /\ Has(a \o b, 1, a) /\ Has(a \o b, 2, b)
         /\ \A c : Only(c, 3) =>
               /\ Has(a \o b \o c, 1, a) /\ Has(a \o b \o c, 2, b) /\ Has(a \o b \o c, 3, c)
               /\ \A d : Only(d, 4) =>
                     LET m == a \o b \o c \o d
                     IN  Has(m, 1, a) /\ Has(m, 2, b) /\ Has(m, 3, c) /\ Has(m, 4, d)
<1>1. FieldsTo(a, 1) /\ Has(a, 1, a)
  BY OnlyField
<1> DEFINE m2 == a \o b
<1>2. FieldsTo(m2, 2) /\ Has(m2, 2, b) /\ Has(m2, 1, a)
  BY <1>1, FieldAdded
<1> HIDE DEF m2
<1>3. ASSUME NEW c, Only(c, 3)
      PROVE  /\ Has(m2 \o c, 1, a) /\ Has(m2 \o c, 2, b) /\ Has(m2 \o c, 3, c)
             /\ \A d : Only(d, 4) => LET m == m2 \o c \o d
                                    IN  Has(m, 1, a) /\ Has(m, 2, b) /\ Has(m, 3, c) /\ Has(m, 4, d)
  <2> DEFINE m3 == m2 \o c
  <2>1. FieldsTo(m3, 3) /\ Has(m3, 3, c) /\ \A j, part : j \in 0..2 /\ Has(m2, j, part) => Has(m3, j, part)
    <3>1. 2 \in Nat /\ 3 \in Nat /\ 2 < 3
      OBVIOUS
    <3>2. QED
      BY <1>2, <1>3, <3>1, FieldAdded, Zenon
  <2> HIDE DEF m3
  <2>2. Has(m3, 1, a) /\ Has(m3, 2, b)
    BY <1>2, <2>1
  <2>3. ASSUME NEW d, Only(d, 4)
        PROVE  Has(m3 \o d, 1, a) /\ Has(m3 \o d, 2, b) /\ Has(m3 \o d, 3, c) /\ Has(m3 \o d, 4, d)
    <3>1. 3 \in Nat /\ 4 \in Nat /\ 3 < 4 /\ 1 \in 0..3 /\ 2 \in 0..3 /\ 3 \in 0..3
      OBVIOUS
    <3>2. /\ Has(m3 \o d, 4, d)
          /\ \A j, part : j \in 0..3 /\ Has(m3, j, part) => Has(m3 \o d, j, part)
      BY <2>1, <2>3, <3>1, FieldAdded, Zenon
    <3>3. QED
      BY <2>1, <2>2, <3>1, <3>2, Zenon
  <2>4. QED
    BY <2>1, <2>2, <2>3, Zenon DEF m3
<1>4. QED
  BY <1>2, <1>3, Zenon DEF m2

LEMMA SixFields ==
  ASSUME NEW a, Only(a, 1), NEW b, Only(b, 4), NEW c, Only(c, 8),
         NEW d, Only(d, 11), NEW e, Only(e, 14), NEW f, Only(f, 18)
  PROVE  LET m == a \o b \o c \o d \o e \o f
         IN  /\ Ascending(m)
             /\ Has(m, 1, a) /\ Has(m, 4, b) /\ Has(m, 8, c)
             /\ Has(m, 11, d) /\ Has(m, 14, e) /\ Has(m, 18, f)
<1>1. FieldsTo(a, 1) /\ Has(a, 1, a)
  BY OnlyField
<1> DEFINE m2 == a \o b
           m3 == m2 \o c
           m4 == m3 \o d
           m5 == m4 \o e
           m6 == m5 \o f
<1>2. FieldsTo(m2, 4) /\ Has(m2, 4, b) /\ Has(m2, 1, a)
  BY <1>1, FieldAdded
<1> HIDE DEF m2
<1>3. FieldsTo(m3, 8) /\ Has(m3, 8, c) /\ Has(m3, 4, b) /\ Has(m3, 1, a)
  BY <1>2, FieldAdded
<1> HIDE DEF m3
<1>4. FieldsTo(m4, 11) /\ Has(m4, 11, d) /\ Has(m4, 8, c) /\ Has(m4, 4, b) /\ Has(m4, 1, a)
  BY <1>3, FieldAdded
<1> HIDE DEF m4
<1>5. FieldsTo(m5, 14) /\ Has(m5, 14, e) /\ Has(m5, 11, d) /\ Has(m5, 8, c) /\ Has(m5, 4, b) /\ Has(m5, 1, a)
  BY <1>4, FieldAdded
<1> HIDE DEF m5
<1>6. /\ FieldsTo(m6, 18) /\ Has(m6, 18, f) /\ Has(m6, 14, e) /\ Has(m6, 11, d)
      /\ Has(m6, 8, c) /\ Has(m6, 4, b) /\ Has(m6, 1, a)
  BY <1>5, FieldAdded
<1>7. Ascending(m6)
  BY <1>6, Zenon DEF FieldsTo
<1>8. QED
  BY <1>6, <1>7, Zenon DEF m5, m4, m3, m2

-----------------------------------------------------------------------------
(***************************************************************************)
(* The contracts.                                                          *)
(***************************************************************************)
\* The one word after the other of a token call; the amount is not cut.
LEMMA TokenRead ==
  ASSUME NEW to \in Seq(Octets), NEW amount \in Int, TokenCall(to, amount) # <<>>
  PROVE  /\ amount >= 0 /\ Valid(to)
         /\ TokenCall(to, amount).selector = "transfer(address,uint256)"
         /\ ReadToken(TokenCall(to, amount).args) = [to |-> ValueOf(to), amount |-> amount]
         /\ Len(to) = AbiAddress
<1> DEFINE types == <<"address", "uint256">>
           x1 == [kind |-> "bytes", v |-> to]
           x2 == [kind |-> "int", n |-> amount]
           params == <<x1, x2>>
           b0 == NewAbiBuffer(<<>>)
           b == EncodeTypes(b0, types, params)
           method == "transfer(address,uint256)"
<1>1. ~ (amount < 0 \/ ~ Valid(to)) /\ TokenCall(to, amount) = EvmCall(method, types, params)
  BY Zenon DEF TokenCall
<1>2. types \in Seq(TypeNames) /\ Len(types) = 2 /\ types[1] = "address" /\ types[2] = "uint256" /\ types # <<>>
      /\ types[1] \in TypeNames /\ types[2] \in TypeNames
  <2> DEFINE t1 == "address"
             t2 == "uint256"
  <2>1. t1 \in TypeNames /\ t2 \in TypeNames
    BY DEF TypeNames
  <2>2. ASSUME NEW S, NEW t \in S, NEW u \in S
        PROVE  <<t, u>> \in Seq(S) /\ Len(<<t, u>>) = 2 /\ <<t, u>>[1] = t /\ <<t, u>>[2] = u /\ <<t, u>> # <<>>
    OBVIOUS
  <2>3. QED
    BY <2>1, <2>2, Zenon
<1>3. x1 \in GoParams /\ x2 \in GoParams
  BY DEF GoParams
<1>4. params \in Seq(GoParams) /\ Len(params) = 2 /\ params[1] = x1 /\ params[2] = x2
  <2> HIDE DEF x1, x2
  <2>1. QED
    BY <1>3
<1>5. b.ok /\ TokenCall(to, amount) = [selector |-> method, args |-> Bytes(b)]
  <2>1. EncodeAbi(b0, types, params) = b
    BY <1>2, Zenon DEF EncodeAbi
  <2> HIDE DEF b, b0, params, types
  <2>2. TokenCall(to, amount) = IF b.ok THEN [selector |-> method, args |-> Bytes(b)] ELSE <<>>
    BY <1>1, <2>1, Zenon DEF EvmCall, b0
  <2>3. QED
    BY <2>2
<1> HIDE DEF b
<1>6. b0 \in Buffers /\ Holds(b0, <<>>) /\ b0 = [b0 EXCEPT !.ok = TRUE] /\ b0.ok
  <2>1. b0 \in Buffers /\ b0.buf = <<>> /\ b0.str = <<>> /\ b0.ok
    BY DEF NewAbiBuffer, Buffers
  <2>2. b0 = [b0 EXCEPT !.ok = TRUE]
    <3>1. b0 = [buf |-> b0.buf, str |-> b0.str, ok |-> TRUE]
      BY DEF NewAbiBuffer
    <3>2. [b0 EXCEPT !.ok = TRUE] = [buf |-> b0.buf, str |-> b0.str, ok |-> TRUE]
      BY <2>1, BufferFields, Zenon
    <3>3. QED
      BY <3>1, <3>2, Zenon
  <2>3. AbiWord * 0 = 0
    BY AbiConstants DEF Positive
  <2>4. WordsHold(<<>>, <<>>) /\ StringsHold(<<>>, <<>>)
    BY DEF WordsHold, StringsHold
  <2>5. <<>> \in Seq(Args) /\ Len(<<>>) = AbiWord * Len(<<>>)
    BY <2>3
  <2>6. QED
    BY <2>1, <2>2, <2>4, <2>5, Zenon DEF Holds
<1> DEFINE args == TypedArgs(types, params)
           a1 == [type |-> types[1], param |-> params[1]]
           a2 == [type |-> types[2], param |-> params[2]]
<1>7. Len(args) = 2 /\ args[1] = a1 /\ args[2] = a2
  BY <1>4 DEF TypedArgs
<1>8. PICK f : b = f[2] /\ Encodes(f, b0, args)
  <2>1. \E f : EncodeTypes(b0, types, params) = f[Len(params)] /\ Encodes(f, b0, args)
    BY <1>2, <1>4, <1>6, TypedRuns
  <2>2. QED
    BY <1>4, <2>1 DEF b
<1> HIDE DEF b0, args, types, params
<1>9. a1 \in Args /\ a2 \in Args
  <2>1. ASSUME NEW t \in TypeNames, NEW p \in GoParams PROVE [type |-> t, param |-> p] \in Args
    BY DEF Args
  <2>2. types[1] \in TypeNames /\ types[2] \in TypeNames
    BY <1>2, Zenon
  <2>3. params[1] \in GoParams /\ params[2] \in GoParams
    BY <1>4
  <2>4. QED
    BY <2>1, <2>2, <2>3, Zenon
<1>10. /\ a1.type = "address" /\ a1.param = x1 /\ a2.type = "uint256" /\ a2.param = x2
  <2>1. a1.type = types[1] /\ a1.param = params[1] /\ a2.type = types[2] /\ a2.param = params[2]
    OBVIOUS
  <2> HIDE DEF x1, x2, a1, a2
  <2>2. QED
    BY <1>2, <1>4, <2>1, Zenon
<1>11. x1.kind = "bytes" /\ x1.v = to /\ x2.kind = "int" /\ x2.n = amount
  OBVIOUS
<1> HIDE DEF a1, a2, x1, x2
<1>12. Took(f[0], f[1], a1) /\ Suits(a1) /\ Took(f[1], f[2], a2) /\ Suits(a2) /\ f[0] = b0
  <2>1. /\ f[0] = b0 /\ f[0].ok
        /\ IF f[0].ok THEN IF Suits(a1) THEN Took(f[0], f[1], a1) ELSE f[1] = Failed(f[0]) ELSE f[1] = f[0]
        /\ IF f[1].ok THEN IF Suits(a2) THEN Took(f[1], f[2], a2) ELSE f[2] = Failed(f[1]) ELSE f[2] = f[1]
        /\ f[0] \in Buffers /\ f[1] \in Buffers
    <3>1. f \in [0..2 -> Buffers] /\ f[0] = [b0 EXCEPT !.ok = TRUE]
      BY <1>7, <1>8 DEF Encodes
    <3>2. \A k \in 1..2 : IF f[k - 1].ok
                         THEN IF Suits(args[k]) THEN Took(f[k - 1], f[k], args[k]) ELSE f[k] = Failed(f[k - 1])
                         ELSE f[k] = f[k - 1]
      BY <1>7, <1>8 DEF Encodes
    <3>3. 1 \in 1..2 /\ 2 \in 1..2 /\ 1 - 1 = 0 /\ 2 - 1 = 1 /\ 0 \in 0..2 /\ 1 \in 0..2
      OBVIOUS
    <3>4. f[0] \in Buffers /\ f[1] \in Buffers /\ f[0] = b0
      BY <1>6, <3>1, <3>3, Zenon
    <3>5. /\ IF f[0].ok THEN IF Suits(a1) THEN Took(f[0], f[1], a1) ELSE f[1] = Failed(f[0]) ELSE f[1] = f[0]
          /\ IF f[1].ok THEN IF Suits(a2) THEN Took(f[1], f[2], a2) ELSE f[2] = Failed(f[1]) ELSE f[2] = f[1]
      BY <1>7, <3>2, <3>3
    <3>6. QED
      BY <1>6, <3>4, <3>5
  <2>2. ASSUME NEW c \in Buffers PROVE Failed(c).ok = FALSE
    BY DEF Failed, Buffers
  <2>3. f[2].ok
    BY <1>5, <1>8
  <2>4. Took(f[0], f[1], a1) /\ Suits(a1)
    <3>1. CASE ~ Suits(a1)
      <4>1. f[1] = Failed(f[0])
        BY <2>1, <3>1, Zenon
      <4>2. ~ f[1].ok
        BY <2>1, <2>2, <4>1
      <4>3. QED
        BY <2>1, <2>3, <4>2
    <3>2. QED
      BY <2>1, <3>1, Zenon
  <2>5. f[1].ok
    <3>1. f[1] = [buf |-> f[1].buf, str |-> f[1].str, ok |-> TRUE]
      BY <2>4, Zenon DEF Took
    <3>2. QED
      BY <3>1
  <2>6. Took(f[1], f[2], a2) /\ Suits(a2)
    <3>1. CASE ~ Suits(a2)
      <4>1. f[2] = Failed(f[1])
        BY <2>1, <2>5, <3>1, Zenon
      <4>2. ~ f[2].ok
        BY <2>1, <2>2, <4>1
      <4>3. QED
        BY <2>3, <4>2
    <3>2. QED
      BY <2>1, <2>5, <3>1, Zenon
  <2>7. QED
    BY <2>1, <2>4, <2>6
<1> DEFINE c1 == Append(<<>>, a1)
           c == Append(c1, a2)
<1>13. Holds(b, c)
  <2>1. Holds(f[1], c1)
    BY <1>6, <1>9, <1>12, HoldsMore, Zenon
  <2> HIDE DEF c1
  <2>2. Holds(f[2], c)
    BY <1>9, <1>12, <2>1, HoldsMore, Zenon
  <2>3. QED
    BY <1>8, <2>2
<1>14. Len(c) = 2 /\ c[1] = a1 /\ c[2] = a2
  BY <1>9
<1> HIDE DEF c
<1>15. a1.type \notin BytesTypes /\ a2.type \notin BytesTypes /\ a1.type \notin UintTypes /\ a2.type \in UintTypes
  BY <1>10 DEF BytesTypes, UintTypes
<1>16. Len(to) = AbiAddress /\ amount \in 1-Limit..Limit-1
  <2>1. Len(a1.param.v) = AbiAddress
    <3>1. a1.param.kind # "text"
      BY <1>10, <1>11
    <3>2. QED
      BY <1>12, <1>15, <3>1, WordTypes, Zenon DEF Suits
  <2>2. a2.param.n \in 1-Limit..Limit-1
    <3>1. a2.type # "address"
      BY <1>10
    <3>2. QED
      BY <1>12, <1>15, <3>1, WordTypes, Zenon DEF Suits
  <2>3. QED
    BY <1>10, <1>11, <2>1, <2>2
<1>17. amount >= 0 /\ amount % Limit = amount
  <2>1. amount >= 0
    <3>1. ~ (amount < 0)
      BY <1>1, Zenon
    <3>2. QED
      BY <3>1
  <2>2. Limit \in Nat /\ Limit > 0
    BY AbiConstants DEF Positive
  <2>3. QED
    BY <1>16, <2>1, <2>2
<1>18. Held(a1) = ValueOf(to) /\ Held(a2) = amount
  <2>1. Held(a1) = ValueOf(a1.param.v)
    <3>1. a1.param.kind # "text"
      BY <1>10, <1>11
    <3>2. QED
      BY <1>15, <3>1, Zenon DEF Held
  <2>2. Held(a2) = a2.param.n % Limit
    BY <1>15, Zenon DEF Held
  <2>3. QED
    BY <1>10, <1>11, <1>17, <2>1, <2>2
<1>19. b \in Buffers /\ WordsHold(b.buf, c) /\ StringsHold(b.str, c)
  BY <1>13, Zenon DEF Holds
<1>20. Bytes(b) = b.buf
  <2>1. Len(b.str) = 0
    <3>1. Len(b.str) \in Nat
      BY <1>19 DEF Buffers
    <3>2. ASSUME 1 \in 1..Len(b.str) PROVE FALSE
      <4>1. PICK n \in 1..Len(c) : IsString(b.str[1], c[n], n)
        BY <1>19, <3>2, Zenon DEF StringsHold
      <4>2. c[n].type \in BytesTypes
        BY <4>1, Zenon DEF IsString
      <4>3. n = 1 \/ n = 2
        BY <1>14
      <4>4. QED
        BY <1>14, <1>15, <4>2, <4>3
    <3>3. QED
      BY <3>1, <3>2
  <2>2. PICK res : Lays(res, b) /\ Bytes(b) = res[Len(b.str)]
    BY <1>19, BytesRuns
  <2>3. QED
    BY <2>1, <2>2 DEF Lays
<1>21. b.buf \in Seq(Octets) /\ AbiWord \in Nat
  BY <1>19, AbiConstants DEF Buffers, Positive
<1>22. Slot(1) = 0 /\ Slot(2) = AbiWord
  BY <1>21 DEF Slot
<1>23. /\ Held(a1) \in 0..Limit-1 /\ Stands(b.buf, 0, WordBytes(Held(a1)))
       /\ Held(a2) \in 0..Limit-1 /\ Stands(b.buf, AbiWord, WordBytes(Held(a2)))
  <2>1. 1 \in 1..Len(c) /\ 2 \in 1..Len(c) /\ c[1].type \notin BytesTypes /\ c[2].type \notin BytesTypes
    BY <1>14, <1>15
  <2>2. /\ Held(c[1]) \in 0..Limit-1 /\ Stands(b.buf, Slot(1), WordBytes(Held(c[1])))
        /\ Held(c[2]) \in 0..Limit-1 /\ Stands(b.buf, Slot(2), WordBytes(Held(c[2])))
    BY <1>19, <2>1, Zenon DEF WordsHold
  <2>3. QED
    BY <1>14, <1>22, <2>2
<1>24. Word(b.buf, 0) = Held(a1) /\ Word(b.buf, AbiWord) = Held(a2)
  BY <1>21, <1>23, WordStands
<1>25. /\ TokenCall(to, amount).selector = method /\ TokenCall(to, amount).args = b.buf
  <2>1. TokenCall(to, amount) = [selector |-> method, args |-> b.buf]
    BY <1>5, <1>20, Zenon
  <2> HIDE DEF method
  <2>2. QED
    BY <2>1
<1>26. ReadToken(TokenCall(to, amount).args) = [to |-> ValueOf(to), amount |-> amount]
  BY <1>18, <1>24, <1>25, Zenon DEF ReadToken
<1>27. Valid(to)
  BY <1>1
<1>28. QED
  BY <1>16, <1>17, <1>25, <1>26, <1>27

\* What the caller asked for by appending contract c itself.
Own(c) == [kind |-> "own", contract |-> c]

\* Something that was asked for and not refused, and the contract for it.
Askable(a) == \/ a \in Requests /\ Built(a) # Nil
              \/ \E c \in Contracts : a = Own(c)
Wrote(a) == IF a.kind = "own" THEN a.contract ELSE Built(a)

LEMMA MarshalRead ==
  ASSUME NEW c
  PROVE  ReadBytes(marshal(c), 1) = c.type /\ ReadBytes(marshal(c), 2) = c.parameter
<1>1. Only(Field(1, c.type), 1) /\ Only(Field(2, c.parameter), 2)
  BY FieldIs
<1>2. Has(marshal(c), 1, Field(1, c.type)) /\ Has(marshal(c), 2, Field(2, c.parameter))
  BY <1>1, FourFields, Zenon DEF marshal
<1>3. QED
  BY <1>2, FieldRead

LEMMA RequestIs ==
  ASSUME NEW a \in Requests
  PROVE  /\ a = Request(a) /\ a.kind \in {"transfer", "trc20"} /\ a.kind # "own"
         /\ a.amount \in Int /\ (a.kind = "transfer" => a.amount < Int64Top)
         /\ (Valid(a.to) => a.to \in Seq(Octets))
<1>1. /\ a = Request(a) /\ a.kind \in {"transfer", "trc20"}
      /\ a.amount \in Int /\ (a.kind = "transfer" => a.amount < Int64Top)
      /\ a.to # BadAddress => a.to \in Seq(0..AbiByte-1)
  BY TronAssumption, Zenon
<1>2. a.kind # "own"
  BY <1>1
<1>3. QED
  BY <1>1, <1>2, Zenon DEF Valid, Octets

LEMMA TransferRead ==
  ASSUME NEW a \in Requests, a.kind = "transfer", Built(a) # Nil
  PROVE  Built(a).type = Transfer /\ Does(marshal(Built(a)), a)
<1> DEFINE c == Built(a)
           x == Field(1, a.from)
           y == Field(2, a.to)
           z == NumberField(3, a.amount)
           p == x \o y \o z
<1>1. c = NewTronTransferContract(a.from, a.to, a.amount)
  BY Zenon DEF Built
<1>2. ~ (a.amount < 0) /\ c = [type |-> Transfer, parameter |-> p]
  BY <1>1, Zenon DEF NewTronTransferContract
<1>3. c.type = Transfer /\ c.parameter = p
  <2> HIDE DEF c, p
  <2>1. QED
    BY <1>2 DEF Transfer
<1>4. Only(x, 1) /\ Only(y, 2) /\ Only(z, 3)
  BY FieldIs
<1>5. Has(p, 1, x) /\ Has(p, 2, y) /\ Has(p, 3, z)
  BY <1>4, FourFields, Zenon
<1> HIDE DEF c, p
<1>6. ReadBytes(p, 1) = a.from /\ ReadBytes(p, 2) = a.to
  BY <1>5, FieldRead
<1>7. a.amount \in Int64
  <2>1. a.amount \in Int /\ a.amount < Int64Top /\ Int64Top \in Nat
    BY RequestIs, TronAssumption
  <2>2. ~ (a.amount < 0)
    BY <1>2, Zenon
  <2>3. QED
    BY <2>1, <2>2 DEF Int64
<1>8. ReadNumber(p, 3) = a.amount
  BY <1>5, <1>7, NumberRead
<1>9. ReadBytes(marshal(c), 1) = Transfer /\ ReadBytes(marshal(c), 2) = p
  BY <1>3, MarshalRead
<1>10. Does(marshal(c), a)
  BY <1>6, <1>8, <1>9, Zenon DEF Does
<1>11. QED
  BY <1>3, <1>10, Zenon DEF c

LEMMA TokenTransferRead ==
  ASSUME NEW a \in Requests, a.kind = "trc20", Built(a) # Nil
  PROVE  /\ Built(a).type = Trigger /\ Does(marshal(Built(a)), a)
         /\ a.to \in Seq(Octets) /\ Len(a.to) = AbiAddress
<1> DEFINE c == Built(a)
           data == TokenCall(a.to, a.amount)
           w == Field(1, a.from)
           x == Field(2, Token)
           y == NumberField(3, 0)
           z == BytesField(4, data)
           p == w \o x \o y \o z
<1>0. a.kind # "transfer"
  OBVIOUS
<1>1. c = NewTRC20Transfer(a.from, Token, a.to, a.amount)
  BY <1>0, Zenon DEF Built
<1>2. data # <<>> /\ c = NewTronTriggerSmartContract(a.from, Token, 0, data)
  BY <1>1, Zenon DEF NewTRC20Transfer
<1>3. c = [type |-> Trigger, parameter |-> p]
  BY <1>2, Zenon DEF NewTronTriggerSmartContract
<1>4. Valid(a.to)
  BY <1>2, Zenon DEF TokenCall
<1>5. a.to \in Seq(Octets) /\ a.amount \in Int
  BY <1>4, RequestIs
<1>6. /\ data.selector = "transfer(address,uint256)"
      /\ ReadToken(data.args) = [to |-> ValueOf(a.to), amount |-> a.amount]
      /\ Len(a.to) = AbiAddress
  BY <1>2, <1>5, TokenRead, Zenon
<1>7. c.type = Trigger /\ c.parameter = p
  <2> HIDE DEF c, p
  <2>1. QED
    BY <1>3 DEF Trigger
<1> HIDE DEF data
<1>8. Only(w, 1) /\ Only(x, 2) /\ Only(y, 3) /\ Only(z, 4)
  BY FieldIs
<1>9. Has(p, 1, w) /\ Has(p, 2, x) /\ Has(p, 3, y) /\ Has(p, 4, z)
  BY <1>8, FourFields, Zenon
<1> HIDE DEF c, p
<1>10. ReadBytes(p, 1) = a.from /\ ReadBytes(p, 2) = Token /\ ReadBytes(p, 4) = data
  BY <1>9, FieldRead
<1>11. ReadNumber(p, 3) = 0
  <2>1. 0 \in Int64
    BY TronAssumption DEF Int64
  <2>2. QED
    BY <1>9, <2>1, NumberRead
<1>12. ReadBytes(marshal(c), 1) = Trigger /\ ReadBytes(marshal(c), 2) = p
  BY <1>7, MarshalRead
<1>13. Does(marshal(c), a)
  BY <1>0, <1>6, <1>10, <1>11, <1>12, Zenon DEF Does
<1>14. QED
  BY <1>5, <1>6, <1>7, <1>13, Zenon DEF c

\* A contract does what was asked for.
LEMMA WroteDoes ==
  ASSUME NEW a, Askable(a)
  PROVE  Does(marshal(Wrote(a)), a)
<1>1. CASE a \in Requests /\ Built(a) # Nil
  <2>1. a.kind # "own" /\ (a.kind = "transfer" \/ a.kind = "trc20")
    BY <1>1, RequestIs
  <2>2. Wrote(a) = Built(a)
    BY <2>1, Zenon DEF Wrote
  <2>3. QED
    BY <1>1, <2>1, <2>2, TransferRead, TokenTransferRead, Zenon
<1>2. CASE \E c \in Contracts : a = Own(c)
  <2>1. PICK c \in Contracts : a = Own(c)
    BY <1>2
  <2>2. a.kind = "own" /\ a.contract = c
    BY <2>1 DEF Own
  <2>3. a.kind # "transfer" /\ a.kind # "trc20"
    BY <2>2
  <2>4. Wrote(a) = c
    BY <2>2, Zenon DEF Wrote
  <2>5. ReadBytes(marshal(c), 1) = c.type /\ ReadBytes(marshal(c), 2) = c.parameter
    BY MarshalRead
  <2>6. QED
    BY <2>2, <2>3, <2>4, <2>5, Zenon DEF Does
<1>3. QED
  BY <1>1, <1>2, Zenon DEF Askable

\* What Does says, kind by kind.
LEMMA DoesFacts ==
  ASSUME NEW m, NEW a, Askable(a), Does(m, a)
  PROVE  LET type == ReadBytes(m, 1)
             p == ReadBytes(m, 2)
         IN  \/ /\ type = Transfer /\ a = Request(a) /\ a.kind = "transfer"
                /\ a.from = ReadBytes(p, 1) /\ a.to = ReadBytes(p, 2) /\ a.amount = ReadNumber(p, 3)
             \/ /\ type = Trigger /\ a = Request(a) /\ a.kind = "trc20" /\ a.from = ReadBytes(p, 1)
                /\ a.to \in Seq(Octets) /\ Len(a.to) = AbiAddress
                /\ [to |-> ValueOf(a.to), amount |-> a.amount] = ReadToken(ReadBytes(p, 4).args)
             \/ /\ type \notin {Transfer, Trigger}
                /\ a = Own([type |-> type, parameter |-> p])
<1> DEFINE type == ReadBytes(m, 1)
           p == ReadBytes(m, 2)
<1>1. CASE a \in Requests /\ Built(a) # Nil
  <2>1. a = Request(a) /\ (a.kind = "transfer" \/ a.kind = "trc20")
    BY <1>1, RequestIs
  <2>2. CASE a.kind = "transfer"
    <3>1. /\ type = Transfer
          /\ ReadBytes(p, 1) = a.from /\ ReadBytes(p, 2) = a.to /\ ReadNumber(p, 3) = a.amount
      BY <2>2, Zenon DEF Does
    <3>2. QED
      BY <2>1, <2>2, <3>1, Zenon
  <2>3. CASE a.kind = "trc20"
    <3>1. a.kind # "transfer"
      BY <2>3
    <3>2. /\ type = Trigger /\ ReadBytes(p, 1) = a.from
          /\ ReadToken(ReadBytes(p, 4).args) = [to |-> ValueOf(a.to), amount |-> a.amount]
      BY <2>3, <3>1, Zenon DEF Does
    <3>3. a.to \in Seq(Octets) /\ Len(a.to) = AbiAddress
      BY <1>1, <2>3, TokenTransferRead
    <3>4. QED
      BY <2>1, <2>3, <3>2, <3>3, Zenon
  <2>4. QED
    BY <2>1, <2>2, <2>3
<1>2. CASE \E c \in Contracts : a = Own(c)
  <2>1. PICK c \in Contracts : a = Own(c)
    BY <1>2
  <2>2. a.kind = "own" /\ a.contract = c
    BY <2>1 DEF Own
  <2>3. a.kind # "transfer" /\ a.kind # "trc20"
    BY <2>2
  <2>4. type = c.type /\ p = c.parameter
    BY <2>2, <2>3, Zenon DEF Does
  <2>5. c = Contract(c) /\ c.type \notin {Transfer, Trigger}
    BY TronAssumption, Zenon
  <2>6. c = [type |-> type, parameter |-> p]
    BY <2>4, <2>5, Zenon DEF Contract
  <2>7. type \notin {Transfer, Trigger} /\ a = Own([type |-> type, parameter |-> p])
    BY <2>1, <2>4, <2>5, <2>6, Zenon
  <2>8. QED
    BY <2>7, Zenon
<1>3. QED
  BY <1>1, <1>2, Zenon DEF Askable

LEMMA SameAsked ==
  ASSUME NEW m, NEW a, NEW b, Askable(a), Askable(b), Does(m, a), Does(m, b)
  PROVE  a = b
<1> DEFINE type == ReadBytes(m, 1)
           p == ReadBytes(m, 2)
           IsTransfer(x) == /\ x = Request(x) /\ x.kind = "transfer"
                            /\ x.from = ReadBytes(p, 1) /\ x.to = ReadBytes(p, 2) /\ x.amount = ReadNumber(p, 3)
           IsToken(x) == /\ x = Request(x) /\ x.kind = "trc20" /\ x.from = ReadBytes(p, 1)
                         /\ x.to \in Seq(Octets) /\ Len(x.to) = AbiAddress
                         /\ [to |-> ValueOf(x.to), amount |-> x.amount] = ReadToken(ReadBytes(p, 4).args)
           IsOwn(x) == x = Own([type |-> type, parameter |-> p])
<1>1. ASSUME NEW x, Askable(x), Does(m, x)
      PROVE  (type = Transfer /\ IsTransfer(x)) \/ (type = Trigger /\ IsToken(x))
             \/ (type \notin {Transfer, Trigger} /\ IsOwn(x))
  BY <1>1, DoesFacts, Zenon
<1>2. Transfer # Trigger
  BY DEF Transfer, Trigger
<1> HIDE DEF type, p
<1>3. ASSUME IsTransfer(a), IsTransfer(b) PROVE a = b
  BY <1>3, Zenon DEF Request
<1>4. ASSUME IsToken(a), IsToken(b) PROVE a = b
  <2> DEFINE r(x) == [to |-> ValueOf(x.to), amount |-> x.amount]
  <2>1. r(a) = r(b)
    BY <1>4, Zenon
  <2>2. ValueOf(a.to) = ValueOf(b.to) /\ a.amount = b.amount
    <3>1. r(a).to = ValueOf(a.to) /\ r(b).to = ValueOf(b.to) /\ r(a).amount = a.amount /\ r(b).amount = b.amount
      OBVIOUS
    <3> HIDE DEF r
    <3>2. QED
      BY <2>1, <3>1, Zenon
  <2>3. a.to \in Seq(Octets) /\ b.to \in Seq(Octets) /\ Len(a.to) = Len(b.to)
    BY <1>4, Zenon
  <2>4. a.to = b.to
    BY <2>2, <2>3, ValueInjective, Zenon
  <2>5. QED
    BY <1>4, <2>2, <2>4, Zenon DEF Request
<1> HIDE DEF IsTransfer, IsToken, IsOwn
<1>5. CASE type = Transfer
  <2>1. IsTransfer(a) /\ IsTransfer(b)
    BY <1>1, <1>2, <1>5
  <2>2. QED
    BY <1>3, <2>1
<1>6. CASE type = Trigger
  <2>1. IsToken(a) /\ IsToken(b)
    BY <1>1, <1>2, <1>6
  <2>2. QED
    BY <1>4, <2>1
<1>7. CASE type \notin {Transfer, Trigger}
  <2>1. IsOwn(a) /\ IsOwn(b)
    BY <1>1, <1>7
  <2>2. QED
    BY <2>1, Zenon DEF IsOwn
<1>8. QED
  BY <1>5, <1>6, <1>7

-----------------------------------------------------------------------------
(***************************************************************************)
(* The raw data.                                                           *)
(***************************************************************************)
Means(c) == [asked |-> c.asked, refBlockBytes |-> c.refBlockBytes, refBlockHash |-> c.refBlockHash,
             expiration |-> c.expiration, timestamp |-> c.timestamp, feeLimit |-> c.feeLimit]

\* What a transaction may be to do.
IsContent(c) ==
    /\ c = Means(c) /\ IsSequence(c.asked) /\ \A i \in DOMAIN c.asked : Askable(c.asked[i])
    /\ c.expiration \in Int64 /\ c.timestamp \in Int64 /\ c.feeLimit \in Int64

ContractFields(as) == [i \in DOMAIN as |-> [n |-> 11, v |-> marshal(Wrote(as[i]))]]

\* The raw data of a transaction that is to do this.
LaidFor(c) ==
    BytesField(1, c.refBlockBytes) \o BytesField(4, c.refBlockHash)
    \o NumberField(8, c.expiration) \o ContractFields(c.asked)
    \o NumberField(14, c.timestamp) \o NumberField(18, c.feeLimit)

\* A node reads c from the raw data.
ReadsAs(raw, c) ==
    /\ Ascending(raw)
    /\ ReadBytes(raw, 1) = c.refBlockBytes /\ ReadBytes(raw, 4) = c.refBlockHash
    /\ ReadNumber(raw, 8) = c.expiration /\ ReadNumber(raw, 14) = c.timestamp
    /\ ReadNumber(raw, 18) = c.feeLimit
    /\ Len(Values(raw, 11)) = Len(c.asked)
    /\ \A i \in DOMAIN c.asked : Does(Values(raw, 11)[i], c.asked[i])

LEMMA ContractFieldsAre ==
  ASSUME NEW as, IsSequence(as)
  PROVE  /\ Only(ContractFields(as), 11) /\ Len(ContractFields(as)) = Len(as)
         /\ DOMAIN as = 1..Len(as) /\ Len(as) \in Nat
         /\ \A i \in 1..Len(as) : ContractFields(as)[i].v = marshal(Wrote(as[i]))
<1> DEFINE e(i) == [n |-> 11, v |-> marshal(Wrote(as[i]))]
           f == ContractFields(as)
           S == { f[i] : i \in DOMAIN f }
<1>1. DOMAIN as = 1..Len(as) /\ Len(as) \in Nat
  BY Concatenated
<1>2. f = [i \in 1..Len(as) |-> e(i)]
  BY <1>1, Zenon DEF ContractFields
<1>3. \A i \in 1..Len(as) : e(i).n = 11 /\ e(i).v = marshal(Wrote(as[i]))
  OBVIOUS
<1> HIDE DEF e, f
<1>4. DOMAIN f = 1..Len(as) /\ \A i \in 1..Len(as) : f[i] = e(i) /\ f[i] \in S
  BY <1>2
<1> HIDE DEF S
<1>5. f \in Seq(S) /\ Len(f) = Len(as)
  <2>1. f \in [1..Len(as) -> S]
    BY <1>2, <1>4
  <2>2. ASSUME NEW n \in Nat, NEW g \in [1..n -> S] PROVE g \in Seq(S) /\ Len(g) = n
    OBVIOUS
  <2>3. QED
    BY <1>1, <2>1, <2>2, Zenon
<1>6. \A i \in 1..Len(f) : f[i].n = 11
  BY <1>3, <1>4, <1>5
<1>7. \A i \in 1..Len(as) : f[i].v = marshal(Wrote(as[i]))
  BY <1>3, <1>4
<1>8. QED
  BY <1>1, <1>5, <1>6, <1>7, Zenon DEF Only, IsSequence, S, f

LEMMA ContentRead ==
  ASSUME NEW c, IsContent(c)
  PROVE  ReadsAs(LaidFor(c), c)
<1> DEFINE f1 == BytesField(1, c.refBlockBytes)
           f4 == BytesField(4, c.refBlockHash)
           f8 == NumberField(8, c.expiration)
           f11 == ContractFields(c.asked)
           f14 == NumberField(14, c.timestamp)
           f18 == NumberField(18, c.feeLimit)
           m == LaidFor(c)
<1>1. /\ IsSequence(c.asked) /\ \A i \in DOMAIN c.asked : Askable(c.asked[i])
      /\ c.expiration \in Int64 /\ c.timestamp \in Int64 /\ c.feeLimit \in Int64
  BY Zenon DEF IsContent
<1>2. Only(f1, 1) /\ Only(f4, 4) /\ Only(f8, 8) /\ Only(f14, 14) /\ Only(f18, 18)
  BY FieldIs
<1>3. /\ Only(f11, 11) /\ Len(f11) = Len(c.asked) /\ DOMAIN c.asked = 1..Len(c.asked)
      /\ \A i \in 1..Len(c.asked) : f11[i].v = marshal(Wrote(c.asked[i]))
  BY <1>1, ContractFieldsAre
<1>4. m = f1 \o f4 \o f8 \o f11 \o f14 \o f18
  BY Zenon DEF LaidFor
<1> HIDE DEF m, f11
<1>5. /\ Ascending(m) /\ Has(m, 1, f1) /\ Has(m, 4, f4) /\ Has(m, 8, f8)
      /\ Has(m, 11, f11) /\ Has(m, 14, f14) /\ Has(m, 18, f18)
  BY <1>2, <1>3, <1>4, SixFields, SMTT(30)
<1>6. ReadBytes(m, 1) = c.refBlockBytes /\ ReadBytes(m, 4) = c.refBlockHash
  BY <1>5, FieldRead
<1>7. /\ ReadNumber(m, 8) = c.expiration /\ ReadNumber(m, 14) = c.timestamp
      /\ ReadNumber(m, 18) = c.feeLimit
  BY <1>1, <1>5, NumberRead
<1>8. /\ Len(Values(m, 11)) = Len(c.asked)
      /\ \A i \in 1..Len(c.asked) : Values(m, 11)[i] = marshal(Wrote(c.asked[i]))
  <2>1. Len(Values(m, 11)) = Len(f11) /\ \A i \in 1..Len(f11) : Values(m, 11)[i] = f11[i].v
    BY <1>5, ValuesRead
  <2>2. QED
    BY <1>3, <2>1
<1>9. \A i \in DOMAIN c.asked : Does(Values(m, 11)[i], c.asked[i])
  BY <1>1, <1>3, <1>8, WroteDoes, Zenon
<1>10. ReadsAs(m, c)
  BY <1>5, <1>6, <1>7, <1>8, <1>9, Zenon DEF ReadsAs
<1>11. QED
  BY <1>10 DEF m

\* Transactions that are to do something else have other ids.
LEMMA SameContent ==
  ASSUME NEW c, NEW d, IsContent(c), IsContent(d), LaidFor(c) = LaidFor(d)
  PROVE  c = d
<1> DEFINE raw == LaidFor(c)
<1>1. ReadsAs(raw, c) /\ ReadsAs(raw, d)
  <2>1. ReadsAs(LaidFor(c), c) /\ ReadsAs(LaidFor(d), d)
    BY ContentRead
  <2>2. QED
    BY <2>1, Zenon
<1> HIDE DEF raw
<1>2. /\ c.refBlockBytes = d.refBlockBytes /\ c.refBlockHash = d.refBlockHash
      /\ c.expiration = d.expiration /\ c.timestamp = d.timestamp /\ c.feeLimit = d.feeLimit
      /\ Len(c.asked) = Len(d.asked)
  BY <1>1, Zenon DEF ReadsAs
<1>3. /\ IsSequence(c.asked) /\ IsSequence(d.asked) /\ c = Means(c) /\ d = Means(d)
      /\ \A i \in DOMAIN c.asked : Askable(c.asked[i])
      /\ \A i \in DOMAIN d.asked : Askable(d.asked[i])
  BY Zenon DEF IsContent
<1>4. DOMAIN c.asked = DOMAIN d.asked
  BY <1>2, <1>3, Concatenated
<1>5. \A i \in DOMAIN c.asked : c.asked[i] = d.asked[i]
  <2> TAKE i \in DOMAIN c.asked
  <2>1. Askable(c.asked[i]) /\ Askable(d.asked[i])
    BY <1>3, <1>4
  <2>2. Does(Values(raw, 11)[i], c.asked[i]) /\ Does(Values(raw, 11)[i], d.asked[i])
    BY <1>1, <1>4, Zenon DEF ReadsAs
  <2>3. QED
    BY <2>1, <2>2, SameAsked
<1>6. c.asked = d.asked
  <2> DEFINE x == c.asked
             y == d.asked
  <2>1. x \in Seq({x[i] : i \in DOMAIN x}) /\ y \in Seq({y[i] : i \in DOMAIN y})
    BY <1>3 DEF IsSequence
  <2> HIDE DEF x, y
  <2>2. x = [i \in DOMAIN x |-> x[i]] /\ y = [i \in DOMAIN y |-> y[i]]
    BY <2>1
  <2>3. QED
    BY <1>4, <1>5, <2>2 DEF x, y
<1>7. Means(c) = Means(d)
  BY <1>2, <1>6, Zenon DEF Means
<1>8. QED
  BY <1>3, <1>7, Zenon

-----------------------------------------------------------------------------
(***************************************************************************)
(* The invariant: the contracts are those that were asked for, and each    *)
(* signature is over the raw data of what the transaction was to do then.  *)
(***************************************************************************)
ContentInv ==
    /\ Shape /\ IsContent(Content)
    /\ tx.contracts = [i \in DOMAIN asked |-> Wrote(asked[i])]

SealInv ==
    /\ IsSequence(seals) /\ Len(seals) = Len(tx.signatures)
    /\ \A i \in DOMAIN seals :
          /\ seals[i].by \in Signers /\ IsContent(seals[i].means)
          /\ tx.signatures[i] = [by |-> seals[i].by, over |-> LaidFor(seals[i].means)]

Answer == [i \in DOMAIN tx.signatures |-> Recovered(tx.signatures[i], RawData(tx))]

ReportInv == reported # Nil => RawData(tx) # Nil /\ reported = Answer

TronInv == ContentInv /\ SealInv /\ ReportInv

\* The raw data says what the transaction is to do.
LEMMA RawIs ==
  ASSUME ContentInv, RawData(tx) # Nil
  PROVE  RawData(tx) = LaidFor(Content)
<1>1. RawData(tx) = Laid(tx)
  BY Zenon DEF RawData
<1>2. tx.contracts = [i \in DOMAIN asked |-> Wrote(asked[i])]
  BY Zenon DEF ContentInv
<1> DEFINE cs == tx.contracts
<1>3. DOMAIN cs = DOMAIN asked /\ \A i \in DOMAIN asked : cs[i] = Wrote(asked[i])
  BY <1>2
<1> HIDE DEF cs
<1>4. [i \in DOMAIN cs |-> [n |-> 11, v |-> marshal(cs[i])]] = ContractFields(asked)
  <2> DEFINE f(c) == [n |-> 11, v |-> marshal(c)]
  <2>1. ContractFields(asked) = [i \in DOMAIN asked |-> f(Wrote(asked[i]))]
    BY Zenon DEF ContractFields
  <2> HIDE DEF f
  <2>2. [i \in DOMAIN cs |-> f(cs[i])] = [i \in DOMAIN asked |-> f(Wrote(asked[i]))]
    BY <1>3
  <2>3. QED
    BY <2>1, <2>2, Zenon DEF f
<1>5. /\ Content.asked = asked /\ Content.refBlockBytes = tx.refBlockBytes
      /\ Content.refBlockHash = tx.refBlockHash /\ Content.expiration = tx.expiration
      /\ Content.timestamp = tx.timestamp /\ Content.feeLimit = tx.feeLimit
  BY DEF Content
<1>6. Laid(tx) = LaidFor(Content)
  BY <1>4, <1>5, Zenon DEF Laid, LaidFor, cs
<1>7. QED
  BY <1>1, <1>6

\* The fields of a transaction with one of them set.
LEMMA FieldsAfter ==
  ASSUME tx = Transaction(tx), NEW v, NEW t,
         t \in {[tx EXCEPT !.contracts = v], [tx EXCEPT !.feeLimit = v], [tx EXCEPT !.signatures = v]}
  PROVE  /\ t = Transaction(t)
         /\ t.refBlockBytes = tx.refBlockBytes /\ t.refBlockHash = tx.refBlockHash
         /\ t.expiration = tx.expiration /\ t.timestamp = tx.timestamp
         /\ t = [tx EXCEPT !.contracts = v] =>
               t.feeLimit = tx.feeLimit /\ t.contracts = v /\ t.signatures = tx.signatures
         /\ t = [tx EXCEPT !.feeLimit = v] =>
               t.feeLimit = v /\ t.contracts = tx.contracts /\ t.signatures = tx.signatures
         /\ t = [tx EXCEPT !.signatures = v] =>
               t.feeLimit = tx.feeLimit /\ t.contracts = tx.contracts /\ t.signatures = v
  BY DEF Transaction

LEMMA NewContent ==
  ASSUME IsContent(Content),
         tx'.refBlockBytes = tx.refBlockBytes, tx'.refBlockHash = tx.refBlockHash,
         tx'.expiration = tx.expiration, tx'.timestamp = tx.timestamp, tx'.feeLimit \in Int64,
         IsSequence(asked'), \A i \in DOMAIN asked' : Askable(asked'[i])
  PROVE  IsContent(Content)'
<1> DEFINE c == Content'
<1>1. /\ c.asked = asked' /\ c.refBlockBytes = tx'.refBlockBytes /\ c.refBlockHash = tx'.refBlockHash
      /\ c.expiration = tx'.expiration /\ c.timestamp = tx'.timestamp /\ c.feeLimit = tx'.feeLimit
      /\ c = Means(c)
  BY DEF Content, Means
<1>2. Content.expiration = tx.expiration /\ Content.timestamp = tx.timestamp
  BY DEF Content
<1>3. Content.expiration \in Int64 /\ Content.timestamp \in Int64
  BY Zenon DEF IsContent
<1> HIDE DEF c
<1>4. IsContent(c)
  BY <1>1, <1>2, <1>3, Zenon DEF IsContent
<1>5. IsContent(Content)' <=> IsContent(c)
  BY DEF c, IsContent, Means, Askable, Built, Own
<1>6. QED
  BY <1>4, <1>5

\* One thing more is asked for, and its contract appended.
LEMMA AskedMore ==
  ASSUME NEW as, IsSequence(as), \A i \in DOMAIN as : Askable(as[i]), NEW a, Askable(a)
  PROVE  /\ IsSequence(Append(as, a)) /\ \A i \in DOMAIN Append(as, a) : Askable(Append(as, a)[i])
         /\ Append([i \in DOMAIN as |-> Wrote(as[i])], Wrote(a))
              = [i \in DOMAIN Append(as, a) |-> Wrote(Append(as, a)[i])]
<1> DEFINE u == Append(as, a)
           n == Len(as)
           w == [i \in DOMAIN as |-> Wrote(as[i])]
           x == Wrote(a)
           v == Append(w, x)
<1>1. /\ IsSequence(u) /\ DOMAIN u = DOMAIN as \cup {n + 1}
      /\ u[n + 1] = a /\ \A i \in DOMAIN as : u[i] = as[i]
      /\ n \in Nat /\ DOMAIN as = 1..n
  BY AppendedSequence, ZenonT(40)
<1> HIDE DEF u
<1>2. \A i \in DOMAIN u : Askable(u[i])
  BY <1>1
<1>3. IsSequence(w) /\ Len(w) = n /\ DOMAIN w = 1..n /\ \A i \in 1..n : w[i] = Wrote(as[i])
  <2> DEFINE W == { w[i] : i \in DOMAIN w }
  <2>1. DOMAIN w = 1..n /\ \A i \in 1..n : w[i] = Wrote(as[i])
    BY <1>1
  <2>2. w = [i \in DOMAIN w |-> w[i]]
    OBVIOUS
  <2> HIDE DEF w
  <2>3. \A i \in DOMAIN w : w[i] \in W
    OBVIOUS
  <2> HIDE DEF W
  <2>4. w \in [1..n -> W]
    BY <2>1, <2>2, <2>3
  <2>5. ASSUME NEW k \in Nat, NEW S, NEW g \in [1..k -> S] PROVE g \in Seq(S) /\ Len(g) = k
    OBVIOUS
  <2>6. w \in Seq(W) /\ Len(w) = n
    BY <1>1, <2>4, <2>5, Zenon
  <2>7. QED
    BY <2>1, <2>6, Zenon DEF IsSequence, W
<1> HIDE DEF w, x, n
<1>4. /\ IsSequence(v) /\ DOMAIN v = DOMAIN w \cup {n + 1}
      /\ v[n + 1] = x /\ \A i \in DOMAIN w : v[i] = w[i]
  BY <1>3, AppendedSequence
<1> HIDE DEF v
<1>5. v = [i \in DOMAIN v |-> v[i]]
  BY <1>4 DEF IsSequence
<1>6. DOMAIN v = DOMAIN u
  BY <1>1, <1>3, <1>4
<1>7. ASSUME NEW i \in DOMAIN u PROVE v[i] = Wrote(u[i])
  <2>1. CASE i = n + 1
    BY <1>1, <1>4, <2>1 DEF x
  <2>2. CASE i \in 1..n
    BY <1>1, <1>3, <1>4, <2>2
  <2>3. QED
    BY <1>1, <2>1, <2>2
<1>8. v = [i \in DOMAIN u |-> Wrote(u[i])]
  BY <1>5, <1>6, <1>7
<1>9. QED
  BY <1>1, <1>2, <1>8, Zenon DEF u, v, w, x

LEMMA ContentStep ==
  ASSUME ContentInv, [Next]_vars
  PROVE  ContentInv'
<1> DEFINE cs == [i \in DOMAIN asked |-> Wrote(asked[i])]
<1>1. /\ Shape /\ tx = Transaction(tx) /\ IsContent(Content) /\ tx.contracts = cs
  BY Zenon DEF ContentInv, Shape
<1>2. Shape'
  BY <1>1, ShapeStep
<1>3. /\ IsSequence(asked) /\ (\A i \in DOMAIN asked : Askable(asked[i])) /\ tx.feeLimit \in Int64
  <2>1. Content.asked = asked /\ Content.feeLimit = tx.feeLimit
    BY DEF Content
  <2>2. QED
    BY <1>1, <2>1, Zenon DEF IsContent
<1>4. ASSUME NEW a, Askable(a), NEW t, t = [tx EXCEPT !.contracts = Append(tx.contracts, Wrote(a))],
             tx' = t, asked' = Append(asked, a)
      PROVE  ContentInv'
  <2> DEFINE u == Append(asked, a)
  <2>1. /\ IsSequence(u) /\ (\A i \in DOMAIN u : Askable(u[i]))
        /\ Append(cs, Wrote(a)) = [i \in DOMAIN u |-> Wrote(u[i])]
    <3>1. IsSequence(asked) /\ (\A i \in DOMAIN asked : Askable(asked[i])) /\ Askable(a)
      BY <1>3, <1>4, Zenon
    <3>2. QED
      BY <3>1, AskedMore
  <2>2. /\ t.refBlockBytes = tx.refBlockBytes /\ t.refBlockHash = tx.refBlockHash
        /\ t.expiration = tx.expiration /\ t.timestamp = tx.timestamp
        /\ t.feeLimit = tx.feeLimit /\ t.contracts = Append(tx.contracts, Wrote(a))
    BY <1>1, <1>4, FieldsAfter
  <2> HIDE DEF u, cs
  <2>3. asked' = u
    BY <1>4 DEF u
  <2>4. IsContent(Content)'
    <3>1. IsSequence(asked') /\ \A i \in DOMAIN asked' : Askable(asked'[i])
      BY <2>1, <2>3
    <3>2. /\ tx'.refBlockBytes = tx.refBlockBytes /\ tx'.refBlockHash = tx.refBlockHash
          /\ tx'.expiration = tx.expiration /\ tx'.timestamp = tx.timestamp /\ tx'.feeLimit \in Int64
      BY <1>3, <1>4, <2>2
    <3>3. QED
      BY <1>1, <3>1, <3>2, NewContent
  <2>5. tx'.contracts = [i \in DOMAIN asked' |-> Wrote(asked'[i])]
    BY <1>1, <1>4, <2>1, <2>2, <2>3
  <2>6. QED
    BY <1>2, <2>4, <2>5 DEF ContentInv, Wrote, Built
<1>5. ASSUME UNCHANGED asked, tx'.contracts = tx.contracts,
             tx'.refBlockBytes = tx.refBlockBytes, tx'.refBlockHash = tx.refBlockHash,
             tx'.expiration = tx.expiration, tx'.timestamp = tx.timestamp, tx'.feeLimit \in Int64
      PROVE  ContentInv'
  <2>1. IsContent(Content)'
    BY <1>1, <1>3, <1>5, NewContent
  <2>2. tx'.contracts = [i \in DOMAIN asked' |-> Wrote(asked'[i])]
    BY <1>1, <1>5
  <2>3. QED
    BY <1>2, <2>1, <2>2 DEF ContentInv, Wrote, Built
<1>6. ASSUME tx' = tx, UNCHANGED asked PROVE ContentInv'
  BY <1>3, <1>5, <1>6
<1>7. ASSUME NEW a \in Requests, Add(a) PROVE ContentInv'
  <2> DEFINE t == [tx EXCEPT !.contracts = Appended(tx.contracts, Built(a))]
  <2>1. tx' = t /\ asked' = IF Built(a) = Nil THEN asked ELSE Append(asked, a)
    BY <1>7, Zenon DEF Add
  <2>2. CASE Built(a) = Nil
    <3>1. t = tx
      BY <1>1, <2>2 DEF Appended, Transaction
    <3> HIDE DEF t
    <3>2. QED
      BY <1>6, <2>1, <2>2, <3>1
  <2>3. CASE Built(a) # Nil
    <3>1. Askable(a)
      BY <2>3, Zenon DEF Askable
    <3>2. Wrote(a) = Built(a)
      BY RequestIs, Zenon DEF Wrote
    <3>3. t = [tx EXCEPT !.contracts = Append(tx.contracts, Wrote(a))]
      BY <2>3, <3>2, Zenon DEF Appended
    <3> HIDE DEF t
    <3>4. QED
      BY <1>4, <2>1, <2>3, <3>1, <3>3, Zenon
  <2>4. QED
    BY <2>2, <2>3
<1>8. ASSUME NEW c \in Contracts, AppendContract(c) PROVE ContentInv'
  <2> DEFINE a == Own(c)
             t == [tx EXCEPT !.contracts = Append(tx.contracts, Wrote(a))]
  <2>1. Askable(a)
    BY Zenon DEF Askable
  <2>2. Wrote(a) = c
    <3>1. a.kind = "own" /\ a.contract = c
      BY DEF Own
    <3>2. QED
      BY <3>1, Zenon DEF Wrote
  <2>3. tx' = [tx EXCEPT !.contracts = Append(tx.contracts, c)] /\ asked' = Append(asked, a)
    BY <1>8, Zenon DEF AppendContract, Edited, Own
  <2>4. tx' = t
    BY <2>2, <2>3, Zenon
  <2> HIDE DEF t, a
  <2>5. QED
    BY <1>4, <2>1, <2>3, <2>4, Zenon DEF t
<1>9. ASSUME NEW f \in FeeLimits, SetFeeLimit(f) PROVE ContentInv'
  <2> DEFINE t == [tx EXCEPT !.feeLimit = f]
  <2>1. tx' = t /\ UNCHANGED asked
    BY <1>9, Zenon DEF SetFeeLimit, Edited
  <2>2. /\ t.refBlockBytes = tx.refBlockBytes /\ t.refBlockHash = tx.refBlockHash
        /\ t.expiration = tx.expiration /\ t.timestamp = tx.timestamp
        /\ t.feeLimit = f /\ t.contracts = tx.contracts
    BY <1>1, FieldsAfter
  <2> HIDE DEF t
  <2>3. f \in Int64
    BY TronAssumption
  <2>4. QED
    BY <1>5, <2>1, <2>2, <2>3
<1>10. ASSUME NEW s \in Signers, Sign(s) PROVE ContentInv'
  <2> DEFINE sigs == Append(tx.signatures, [by |-> s, over |-> RawData(tx)])
             t == [tx EXCEPT !.signatures = sigs]
  <2>1. tx' = t /\ UNCHANGED asked
    BY <1>10, Zenon DEF Sign
  <2> HIDE DEF sigs
  <2>2. /\ t.refBlockBytes = tx.refBlockBytes /\ t.refBlockHash = tx.refBlockHash
        /\ t.expiration = tx.expiration /\ t.timestamp = tx.timestamp
        /\ t.feeLimit = tx.feeLimit /\ t.contracts = tx.contracts
    BY <1>1, FieldsAfter
  <2> HIDE DEF t
  <2>3. QED
    BY <1>3, <1>5, <2>1, <2>2
<1>11. CASE Refuse \/ MarshalBinary \/ SignerAddresses \/ UNCHANGED vars
  <2>1. tx' = tx /\ UNCHANGED asked
    BY <1>11, Zenon DEF Refuse, MarshalBinary, SignerAddresses, vars
  <2>2. QED
    BY <1>6, <2>1
<1>12. QED
  BY <1>7, <1>8, <1>9, <1>10, <1>11, Zenon DEF Next

\* The signatures stay with what was meant by them.
LEMMA SealStep ==
  ASSUME ContentInv, SealInv, [Next]_vars
  PROVE  SealInv'
<1> DEFINE Sealed(l, sigs) ==
             /\ IsSequence(l) /\ Len(l) = Len(sigs)
             /\ \A i \in DOMAIN l :
                   /\ l[i].by \in Signers /\ IsContent(l[i].means)
                   /\ sigs[i] = [by |-> l[i].by, over |-> LaidFor(l[i].means)]
<1>1. /\ tx = Transaction(tx) /\ IsSequence(tx.signatures) /\ IsContent(Content)
  BY Zenon DEF ContentInv, Shape
<1>2. Sealed(seals, tx.signatures)
  BY Zenon DEF SealInv
<1>3. Sealed(seals', tx'.signatures) <=> SealInv'
  BY DEF SealInv, IsContent, Means, Askable, Built, Own, LaidFor, ContractFields, Wrote
<1>4. ASSUME UNCHANGED seals, tx'.signatures = tx.signatures PROVE SealInv'
  <2>1. Sealed(seals', tx'.signatures)
    BY <1>2, <1>4
  <2>2. QED
    BY <1>3, <2>1, Zenon
<1>5. ASSUME NEW a \in Requests, Add(a) PROVE SealInv'
  <2> DEFINE t == [tx EXCEPT !.contracts = Appended(tx.contracts, Built(a))]
  <2>1. tx' = t /\ UNCHANGED seals
    BY <1>5, Zenon DEF Add
  <2>2. t.signatures = tx.signatures
    BY <1>1, SetField
  <2> HIDE DEF t
  <2>3. QED
    BY <1>4, <2>1, <2>2
<1>6. ASSUME NEW c \in Contracts, AppendContract(c) PROVE SealInv'
  <2> DEFINE t == [tx EXCEPT !.contracts = Append(tx.contracts, c)]
  <2>1. tx' = t /\ UNCHANGED seals
    BY <1>6, Zenon DEF AppendContract, Edited
  <2>2. t.signatures = tx.signatures
    BY <1>1, SetField
  <2> HIDE DEF t
  <2>3. QED
    BY <1>4, <2>1, <2>2
<1>7. ASSUME NEW f \in FeeLimits, SetFeeLimit(f) PROVE SealInv'
  <2> DEFINE t == [tx EXCEPT !.feeLimit = f]
  <2>1. tx' = t /\ UNCHANGED seals
    BY <1>7, Zenon DEF SetFeeLimit, Edited
  <2>2. t.signatures = tx.signatures
    BY <1>1, SetField
  <2> HIDE DEF t
  <2>3. QED
    BY <1>4, <2>1, <2>2
<1>8. ASSUME NEW s \in Signers, Sign(s) PROVE SealInv'
  <2> DEFINE sig  == [by |-> s, over |-> RawData(tx)]
             seal == [by |-> s, means |-> Content]
             sigs == Append(tx.signatures, sig)
             l    == Append(seals, seal)
             t    == [tx EXCEPT !.signatures = sigs]
  <2>1. tx' = t /\ seals' = l /\ RawData(tx) # Nil
    BY <1>8, Zenon DEF Sign
  <2>2. t.signatures = sigs
    BY <1>1, SetField
  <2>3. sig = [by |-> s, over |-> LaidFor(Content)] /\ seal.by = s /\ seal.means = Content
    BY <2>1, RawIs, Zenon
  <2> HIDE DEF t, sig, seal
  <2>4. /\ IsSequence(l) /\ DOMAIN l = DOMAIN seals \cup {Len(seals) + 1}
        /\ l[Len(seals) + 1] = seal /\ \A i \in DOMAIN seals : l[i] = seals[i]
        /\ DOMAIN seals = 1..Len(seals) /\ Len(seals) \in Nat
    BY <1>2, AppendedSequence
  <2>5. /\ IsSequence(sigs) /\ DOMAIN sigs = DOMAIN tx.signatures \cup {Len(tx.signatures) + 1}
        /\ sigs[Len(tx.signatures) + 1] = sig
        /\ \A i \in DOMAIN tx.signatures : sigs[i] = tx.signatures[i]
        /\ DOMAIN tx.signatures = 1..Len(tx.signatures)
    BY <1>1, AppendedSequence
  <2> DEFINE k == Len(seals) + 1
  <2> HIDE DEF l, sigs
  <2>6. Len(tx.signatures) = Len(seals) /\ DOMAIN tx.signatures = DOMAIN seals
    BY <1>2, <2>4, <2>5
  <2>7. Len(l) = k /\ Len(sigs) = k
    <3>1. ASSUME NEW z, IsSequence(z), DOMAIN z = 1..Len(seals) \cup {Len(seals) + 1}
          PROVE  Len(z) = Len(seals) + 1
      <4>1. Len(z) \in Nat /\ DOMAIN z = 1..Len(z)
        BY <3>1, Concatenated
      <4>2. QED
        BY <2>4, <3>1, <4>1
    <3>2. QED
      BY <2>4, <2>5, <2>6, <3>1
  <2>8. ASSUME NEW i \in DOMAIN l
        PROVE  /\ l[i].by \in Signers /\ IsContent(l[i].means)
               /\ sigs[i] = [by |-> l[i].by, over |-> LaidFor(l[i].means)]
    <3>1. CASE i \in DOMAIN seals
      <4>1. l[i] = seals[i] /\ sigs[i] = tx.signatures[i]
        BY <2>4, <2>5, <2>6, <3>1
      <4>2. QED
        BY <1>2, <3>1, <4>1, Zenon
    <3>2. CASE i = k
      <4>1. l[i] = seal /\ sigs[i] = sig
        BY <2>4, <2>5, <2>6, <3>2
      <4>2. QED
        BY <1>1, <2>3, <4>1, Zenon
    <3>3. QED
      BY <2>4, <3>1, <3>2
  <2>9. Sealed(l, sigs)
    BY <2>4, <2>7, <2>8, Zenon
  <2>10. seals' = l /\ tx'.signatures = sigs
    BY <2>1, <2>2
  <2>11. QED
    BY <1>3, <2>9, <2>10, Zenon
<1>9. CASE Refuse \/ MarshalBinary \/ SignerAddresses \/ UNCHANGED vars
  <2>1. tx' = tx /\ UNCHANGED seals
    BY <1>9, Zenon DEF Refuse, MarshalBinary, SignerAddresses, vars
  <2>2. QED
    BY <1>4, <2>1
<1>10. QED
  BY <1>5, <1>6, <1>7, <1>8, <1>9, Zenon DEF Next

\* An answer is given up with the next operation.
LEMMA ReportStep ==
  ASSUME ReportInv, [Next]_vars
  PROVE  ReportInv'
<1>1. ASSUME reported' = Nil PROVE ReportInv'
  BY <1>1 DEF ReportInv
<1>2. CASE SignerAddresses
  <2>1. tx' = tx /\ RawData(tx) # Nil /\ reported' = Answer
    BY <1>2, Zenon DEF SignerAddresses, Answer
  <2>2. Answer' = Answer /\ RawData(tx)' = RawData(tx)
    BY <2>1 DEF Answer, RawData, Laid, Recovered
  <2>3. QED
    BY <2>1, <2>2, Zenon DEF ReportInv
<1>3. CASE UNCHANGED vars
  <2>1. tx' = tx /\ reported' = reported
    BY <1>3 DEF vars
  <2>2. Answer' = Answer /\ RawData(tx)' = RawData(tx)
    BY <2>1 DEF Answer, RawData, Laid, Recovered
  <2>3. QED
    BY <2>1, <2>2, Zenon DEF ReportInv
<1>4. ASSUME Next, ~ SignerAddresses PROVE reported' = Nil
  BY <1>4, Zenon DEF Next, Add, AppendContract, SetFeeLimit, Edited, Sign, Refuse, MarshalBinary
<1>5. QED
  BY <1>1, <1>2, <1>3, <1>4

LEMMA TronInit == Init => TronInv
<1> SUFFICES ASSUME Init PROVE TronInv
  OBVIOUS
<1>1. /\ tx = Transaction(tx) /\ tx.contracts = <<>> /\ tx.signatures = <<>>
      /\ tx.expiration \in Int64 /\ tx.timestamp \in Int64 /\ tx.feeLimit \in Int64
  <2>1. tx \in Drafts
    BY DEF Init
  <2>2. /\ tx = Transaction(tx) /\ tx.contracts = <<>> /\ tx.signatures = <<>>
        /\ {tx.expiration, tx.timestamp, tx.feeLimit} \subseteq Int64
    BY <2>1, TronAssumption, Zenon
  <2>3. QED
    BY <2>2, Zenon
<1>2. asked = <<>> /\ seals = <<>> /\ reported = Nil
  BY DEF Init
<1>3. IsSequence(<<>>) /\ Len(<<>>) = 0 /\ DOMAIN <<>> = {}
  BY DEF IsSequence
<1>5. Shape
  BY <1>1, <1>3 DEF Shape
<1>6. IsContent(Content)
  <2>1. /\ Content.asked = asked /\ Content.refBlockBytes = tx.refBlockBytes
        /\ Content.refBlockHash = tx.refBlockHash /\ Content.expiration = tx.expiration
        /\ Content.timestamp = tx.timestamp /\ Content.feeLimit = tx.feeLimit
        /\ Content = Means(Content)
    BY DEF Content, Means
  <2>2. IsSequence(asked) /\ \A i \in DOMAIN asked : Askable(asked[i])
    BY <1>2, <1>3
  <2>3. QED
    BY <1>1, <2>1, <2>2, Zenon DEF IsContent
<1>7. tx.contracts = [i \in DOMAIN asked |-> Wrote(asked[i])]
  BY <1>1, <1>2
<1>8. ContentInv
  BY <1>5, <1>6, <1>7, Zenon DEF ContentInv
<1>9. SealInv
  <2>1. \A i \in DOMAIN seals : FALSE
    BY <1>2, <1>3
  <2>2. IsSequence(seals) /\ Len(seals) = Len(tx.signatures)
    BY <1>1, <1>2, <1>3
  <2>3. QED
    BY <2>1, <2>2, Zenon DEF SealInv
<1>10. ReportInv
  BY <1>2 DEF ReportInv
<1>11. QED
  BY <1>8, <1>9, <1>10 DEF TronInv

LEMMA TronStep == TronInv /\ [Next]_vars => TronInv'
  BY ContentStep, SealStep, ReportStep DEF TronInv

-----------------------------------------------------------------------------
\* NodeReadsWhatWasAsked: whatever was asked for, refused, set and signed in between,
\* raw data that is written reads as the fields and the contracts of the transaction
\* and as nothing else (trontx.go:189, 225).
THEOREM NodeReads == Spec => []NodeReadsWhatWasAsked
<1>1. TronInv => NodeReadsWhatWasAsked
  <2> DEFINE raw == RawData(tx)
  <2> SUFFICES ASSUME TronInv, raw # Nil
               PROVE  /\ Ascending(raw)
                      /\ ReadBytes(raw, 1) = tx.refBlockBytes /\ ReadBytes(raw, 4) = tx.refBlockHash
                      /\ ReadNumber(raw, 8) = tx.expiration /\ ReadNumber(raw, 14) = tx.timestamp
                      /\ ReadNumber(raw, 18) = tx.feeLimit
                      /\ Len(Values(raw, 11)) = Len(asked)
                      /\ \A i \in DOMAIN asked : Does(Values(raw, 11)[i], asked[i])
    BY Zenon DEF NodeReadsWhatWasAsked
  <2>1. ContentInv /\ IsContent(Content)
    BY Zenon DEF TronInv, ContentInv
  <2>2. raw = LaidFor(Content)
    BY <2>1, RawIs, Zenon
  <2>3. ReadsAs(LaidFor(Content), Content)
    BY <2>1, ContentRead
  <2>4. ReadsAs(raw, Content)
    BY <2>2, <2>3, Zenon
  <2>5. /\ Content.asked = asked /\ Content.refBlockBytes = tx.refBlockBytes
        /\ Content.refBlockHash = tx.refBlockHash /\ Content.expiration = tx.expiration
        /\ Content.timestamp = tx.timestamp /\ Content.feeLimit = tx.feeLimit
    BY DEF Content
  <2> HIDE DEF raw
  <2>6. QED
    BY <2>4, <2>5, Zenon DEF ReadsAs
<1>2. QED
  BY <1>1, TronInit, TronStep, PTL DEF Spec

\* SignersMeantThis: an answer names the signer of a signature exactly while the
\* transaction is to do what it was to do when that signer signed, since what a
\* transaction is to do is read back from its raw data (trontx.go:301, 343).
THEOREM SignersMeant == Spec => []SignersMeantThis
<1>1. TronInv => SignersMeantThis
  <2> SUFFICES ASSUME TronInv, reported # Nil
               PROVE  /\ Len(reported) = Len(seals)
                      /\ \A i \in DOMAIN seals : reported[i] = seals[i].by <=> seals[i].means = Content
    BY Zenon DEF SignersMeantThis
  <2>1. /\ ContentInv /\ SealInv /\ RawData(tx) # Nil /\ reported = Answer
        /\ IsContent(Content) /\ IsSequence(tx.signatures)
    BY Zenon DEF TronInv, ContentInv, ReportInv, Shape
  <2> DEFINE raw  == RawData(tx)
             sigs == tx.signatures
             c    == Content
  <2>2. raw = LaidFor(c)
    BY <2>1, RawIs, Zenon
  <2>3. IsSequence(sigs) /\ reported = [i \in DOMAIN sigs |-> Recovered(sigs[i], raw)]
    BY <2>1, Zenon DEF Answer
  <2>4. /\ IsSequence(seals) /\ Len(seals) = Len(sigs)
        /\ \A i \in DOMAIN seals :
              /\ seals[i].by \in Signers /\ IsContent(seals[i].means)
              /\ sigs[i] = [by |-> seals[i].by, over |-> LaidFor(seals[i].means)]
    BY <2>1, Zenon DEF SealInv
  <2>5. IsContent(c)
    BY <2>1
  <2> HIDE DEF raw, sigs, c
  <2>6. /\ DOMAIN sigs = 1..Len(sigs) /\ Len(sigs) \in Nat /\ DOMAIN seals = DOMAIN sigs
    BY <2>3, <2>4, Concatenated
  <2>7. Len(reported) = Len(sigs)
    <3> DEFINE r(i) == Recovered(sigs[i], raw)
    <3>1. reported = [i \in 1..Len(sigs) |-> r(i)]
      BY <2>3, <2>6, Zenon
    <3> HIDE DEF r
    <3>2. QED
      BY <2>6, <3>1
  <2>8. ASSUME NEW i \in DOMAIN seals
        PROVE  reported[i] = seals[i].by <=> seals[i].means = c
    <3> DEFINE s == sigs[i]
               d == seals[i].means
               b == seals[i].by
    <3>1. reported[i] = Recovered(s, raw)
      BY <2>3, <2>6
    <3>2. s.by = b /\ s.over = LaidFor(d) /\ b \in Signers /\ IsContent(d)
      <4>1. s = [by |-> b, over |-> LaidFor(d)] /\ b \in Signers /\ IsContent(d)
        BY <2>4, <2>8, Zenon
      <4> DEFINE over == LaidFor(d)
      <4> HIDE DEF s, d, b, over
      <4>2. s = [by |-> b, over |-> over]
        BY <4>1 DEF over
      <4>3. s.by = b /\ s.over = over
        BY <4>2
      <4>4. QED
        BY <4>1, <4>3 DEF over
    <3> HIDE DEF s, d, b
    <3>3. Stranger # b
      BY <3>2, TronAssumption, Zenon
    <3>4. reported[i] = b <=> LaidFor(d) = raw
      BY <3>1, <3>2, <3>3, Zenon DEF Recovered
    <3>5. LaidFor(d) = raw <=> d = c
      BY <2>2, <2>5, <3>2, SameContent, Zenon
    <3>6. QED
      BY <3>4, <3>5, Zenon DEF b, d
  <2>9. QED
    BY <2>4, <2>7, <2>8 DEF c
<1>2. QED
  BY <1>1, TronInit, TronStep, PTL DEF Spec
===============================================================================
