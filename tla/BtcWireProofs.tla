---------------------------- MODULE BtcWireProofs ----------------------------
(***************************************************************************)
(* The reader of a BtcTx, for every stream, every place where the io.Reader *)
(* fails and every limit: nothing longer than the limits is allocated,     *)
(* nothing behind the place where the reader failed is taken for data,     *)
(* what was written for a transaction is read as that transaction, and     *)
(* what is read as a transaction was in the bytes.                         *)
(***************************************************************************)
EXTENDS BtcWire, SharedLemmas, SequenceTheorems

\* The widths of the fields, and the limits within them.
LEMMA Radix ==
  /\ Byte \in Nat /\ Byte > 4 /\ TxidLen \in Nat
  /\ V!U16 \in Nat /\ V!U32 \in Nat /\ V!U64 \in Nat
  /\ V!U16 = Byte * Byte /\ V!U32 = V!U16 * V!U16 /\ V!U64 = V!U32 * V!U32
  /\ V!U16 > 4 /\ V!U32 > 4 /\ V!U64 > 4
<1>1. Byte \in Nat /\ Byte > 4 /\ TxidLen \in Word64
  BY WireAssumption
<1>2. \A m, n \in Nat : m > 4 /\ n > 4 => m * n \in Nat /\ m * n > 4
  <2> TAKE m, n \in Nat
  <2>1. m > 4 /\ n > 4 => m * n >= m * 5
    OBVIOUS
  <2>2. m * n \in Nat
    OBVIOUS
  <2>3. QED
    BY <2>1, <2>2
<1>3. V!U16 = Byte * Byte /\ V!U32 = V!U16 * V!U16 /\ V!U64 = V!U32 * V!U32
  BY Zenon DEF V!U16, V!U32, V!U64
<1>4. V!U16 \in Nat /\ V!U16 > 4
  BY <1>1, <1>2, <1>3
<1>5. V!U32 \in Nat /\ V!U32 > 4
  BY <1>2, <1>3, <1>4
<1>6. V!U64 \in Nat /\ V!U64 > 4
  BY <1>2, <1>3, <1>5
<1>7. TxidLen \in Nat
  BY <1>1, <1>6 DEF Word64
<1>8. QED
  BY <1>1, <1>3, <1>4, <1>5, <1>6, <1>7

LEMMA WordTypes ==
  /\ Word32 \subseteq Nat /\ Word64 \subseteq Nat /\ 0 \in Word32 /\ 0 \in Word64
  /\ Word32 = 0..V!U32-1 /\ Word64 = 0..V!U64-1
  BY Radix DEF Word32, Word64

LEMMA Limits ==
  /\ MaxIns \in Nat /\ MaxIns > 0 /\ MaxOuts \in Nat /\ MaxOuts > 0
  /\ MaxItems \in Nat /\ MaxItems > 0 /\ MaxBuf \in Nat
  BY WireAssumption, WordTypes

\* A number up to a limit is of the width of a length.
LEMMA LimitsAreWords ==
  ASSUME NEW n \in Nat, n <= MaxIns \/ n <= MaxOuts \/ n <= MaxItems \/ n <= MaxBuf
  PROVE  n \in Word64
<1>1. MaxIns \in Word64 /\ MaxOuts \in Word64 /\ MaxItems \in Word64 /\ MaxBuf \in Word64
  BY WireAssumption
<1>2. ASSUME NEW m \in Word64, n <= m PROVE n \in Word64
  BY <1>2, Radix DEF Word64
<1>3. QED
  BY <1>1, <1>2

-----------------------------------------------------------------------------
(***************************************************************************)
(* Sequences of bytes.                                                     *)
(***************************************************************************)
\* f[n] is the concatenation of the first n sequences.
RunsFlat(f, seqs, top) ==
    f = [n \in 1..top |-> IF n = 1 THEN seqs[n] ELSE f[n - 1] \o seqs[n]]

Flattens(f, seqs, S) ==
    /\ f \in [0..Len(seqs) -> Seq(S)] /\ f[0] = <<>>
    /\ \A n \in 1..Len(seqs) : f[n] = f[n - 1] \o seqs[n]

LEMMA FlattenRuns ==
  ASSUME NEW S, NEW seqs \in Seq(Seq(S))
  PROVE  \E f : Flattens(f, seqs, S) /\ FlattenSeq(seqs) = f[Len(seqs)]
<1> DEFINE L == Len(seqs)
           T == Seq(S)
           step == [n \in 1..L |-> [x \in T |-> x \o seqs[n]]]
           g0 == << >>
<1>1. L \in Nat /\ \A n \in 1..L : seqs[n] \in T
  OBVIOUS
<1>2. step \in [1..L -> [T -> T]] /\ g0 \in T
  BY <1>1
<1> HIDE DEF step, T
<1>3. PICK f : Iterates(f, T, g0, step, L)
  BY <1>1, <1>2, Iterated
<1>4. f \in [0..L -> T] /\ f[0] = <<>> /\ \A n \in 1..L : f[n] = f[n - 1] \o seqs[n]
  <2>1. f \in [0..L -> T] /\ f[0] = <<>> /\ \A n \in 1..L : f[n] = step[n][f[n - 1]]
    BY <1>3 DEF Iterates
  <2>2. ASSUME NEW n \in 1..L PROVE f[n] = f[n - 1] \o seqs[n]
    <3>1. n - 1 \in 0..L
      BY <1>1
    <3>2. f[n - 1] \in T
      BY <2>1, <3>1
    <3>3. QED
      BY <2>1, <3>2 DEF step
  <2>3. QED
    BY <2>1, <2>2
<1>5. Flattens(f, seqs, S)
  BY <1>4, Zenon DEF Flattens, T
<1>6. CASE L = 0
  <2>1. FlattenSeq(seqs) = seqs /\ seqs = <<>>
    BY <1>6 DEF FlattenSeq
  <2>2. QED
    BY <1>4, <1>5, <1>6, <2>1
<1>7. CASE L # 0
  <2> DEFINE g == [n \in 1..L |-> f[n]]
             h1 == [n \in 1..L |-> IF n = 1 THEN seqs[n] ELSE g[n - 1] \o seqs[n]]
  <2>1. ASSUME NEW n \in 1..L PROVE g[n] = h1[n]
    <3>1. CASE n = 1
      <4> HIDE DEF L
      <4>1. 1 \in 1..L /\ 1 - 1 = 0
        BY <1>1, <1>7
      <4>2. f[1] = <<>> \o seqs[1] /\ seqs[1] \in Seq(S)
        BY <1>1, <1>4, <4>1 DEF T
      <4>3. QED
        BY <3>1, <4>2
    <3>2. CASE n # 1
      <4>1. n - 1 \in 1..L
        BY <1>1, <3>2
      <4>2. QED
        BY <1>4, <3>2, <4>1
    <3>3. QED
      BY <3>1, <3>2
  <2>2. RunsFlat(g, seqs, L)
    <3>1. g = h1
      BY <2>1, Zenon
    <3> HIDE DEF g
    <3>2. QED
      BY <3>1, Zenon DEF RunsFlat
  <2> DEFINE r == CHOOSE r : RunsFlat(r, seqs, L)
  <2>3. RunsFlat(r, seqs, L)
    BY <2>2, Zenon
  <2>4. FlattenSeq(seqs) = r[L]
    BY <1>7, Zenon DEF FlattenSeq, RunsFlat
  <2> HIDE DEF r, g
  <2>5. \A n \in 1..L : r[n] = IF n = 1 THEN seqs[n] ELSE r[n - 1] \o seqs[n]
    BY <2>3, Zenon DEF RunsFlat
  <2> DEFINE Q == { n \in Nat : n + 1 \in 1..L => r[n + 1] = f[n + 1] }
  <2>6. 0 \in Q
    <3>1. 1 \in 1..L /\ 1 - 1 = 0 /\ 0 + 1 = 1
      BY <1>1, <1>7
    <3>2. f[1] = <<>> \o seqs[1] /\ seqs[1] \in Seq(S) /\ r[1] = seqs[1]
      BY <1>1, <1>4, <2>5, <3>1 DEF T
    <3>3. r[1] = f[1]
      BY <3>2
    <3>4. QED
      BY <3>1, <3>3
  <2>7. ASSUME NEW n \in Nat, n \in Q PROVE n + 1 \in Q
    <3>1. CASE (n + 1) + 1 \in 1..L
      <4>1. n + 1 \in 1..L /\ (n + 1) + 1 # 1 /\ ((n + 1) + 1) - 1 = n + 1
        BY <1>1, <3>1
      <4>2. r[n + 1] = f[n + 1]
        BY <2>7, <4>1
      <4>3. r[(n + 1) + 1] = r[n + 1] \o seqs[(n + 1) + 1]
        BY <2>5, <3>1, <4>1
      <4>4. f[(n + 1) + 1] = f[n + 1] \o seqs[(n + 1) + 1]
        BY <1>4, <3>1, <4>1
      <4>5. r[(n + 1) + 1] = f[(n + 1) + 1]
        BY <4>2, <4>3, <4>4, Zenon
      <4>6. QED
        BY <4>5
    <3>2. QED
      BY <3>1
  <2>8. L - 1 \in Q
    <3> HIDE DEF Q
    <3>1. L - 1 \in Nat
      BY <1>1, <1>7
    <3>2. QED
      BY <2>6, <2>7, <3>1, Induct
  <2>9. r[L] = f[L]
    <3>1. L - 1 \in Nat /\ (L - 1) + 1 = L /\ L \in 1..L
      BY <1>1, <1>7
    <3>2. QED
      BY <2>8, <3>1
  <2>10. QED
    BY <1>5, <2>4, <2>9, Zenon
<1>8. QED
  BY <1>6, <1>7

LEMMA FlattenType ==
  ASSUME NEW S, NEW seqs \in Seq(Seq(S))
  PROVE  FlattenSeq(seqs) \in Seq(S)
<1>1. PICK f : Flattens(f, seqs, S) /\ FlattenSeq(seqs) = f[Len(seqs)]
  BY FlattenRuns
<1>2. Len(seqs) \in 0..Len(seqs)
  OBVIOUS
<1>3. QED
  BY <1>1, <1>2 DEF Flattens

\* The first sequence comes first.
LEMMA FlattenHead ==
  ASSUME NEW S, NEW seqs \in Seq(Seq(S)), seqs # <<>>
  PROVE  FlattenSeq(seqs) = seqs[1] \o FlattenSeq(Tail(seqs))
<1> DEFINE L == Len(seqs)
           rest == Tail(seqs)
           T == Seq(S)
<1>1. L \in Nat /\ L > 0 /\ \A n \in 1..L : seqs[n] \in T
  OBVIOUS
<1>2. rest \in Seq(T) /\ Len(rest) = L - 1 /\ \A n \in 1..L-1 : rest[n] = seqs[n + 1]
  OBVIOUS
<1> HIDE DEF rest, T, L
<1>3. PICK f : Flattens(f, seqs, S) /\ FlattenSeq(seqs) = f[L]
  BY FlattenRuns DEF L
<1>4. PICK g : Flattens(g, rest, S) /\ FlattenSeq(rest) = g[L - 1]
  BY <1>2, FlattenRuns DEF T
<1>5. f[0] = <<>> /\ \A n \in 1..L : f[n] = f[n - 1] \o seqs[n]
  BY <1>3 DEF Flattens, L
<1>6. g \in [0..L-1 -> T] /\ g[0] = <<>> /\ \A n \in 1..L-1 : g[n] = g[n - 1] \o seqs[n + 1]
  BY <1>2, <1>4 DEF Flattens, T
<1> DEFINE Q == { n \in Nat : n \in 0..L-1 => f[n + 1] = seqs[1] \o g[n] }
<1>7. 0 \in Q
  <2>1. 1 \in 1..L /\ 1 - 1 = 0 /\ 0 + 1 = 1
    BY <1>1
  <2>2. f[1] = <<>> \o seqs[1] /\ seqs[1] \in T /\ g[0] = <<>>
    BY <1>1, <1>5, <1>6, <2>1
  <2>3. f[1] = seqs[1] \o g[0]
    BY <2>2 DEF T
  <2>4. QED
    BY <2>1, <2>3
<1>8. ASSUME NEW n \in Nat, n \in Q PROVE n + 1 \in Q
  <2>1. CASE n + 1 \in 0..L-1
    <3>1. /\ n \in 0..L-1 /\ n + 1 \in 1..L-1 /\ (n + 1) + 1 \in 1..L /\ 1 \in 1..L
          /\ ((n + 1) + 1) - 1 = n + 1 /\ (n + 1) - 1 = n
      BY <1>1, <2>1
    <3>2. f[n + 1] = seqs[1] \o g[n]
      BY <1>8, <3>1
    <3>3. f[(n + 1) + 1] = f[n + 1] \o seqs[(n + 1) + 1] /\ g[n + 1] = g[n] \o seqs[(n + 1) + 1]
      BY <1>5, <1>6, <3>1
    <3>4. seqs[1] \in T /\ g[n] \in T /\ seqs[(n + 1) + 1] \in T
      BY <1>1, <1>6, <3>1
    <3>5. (seqs[1] \o g[n]) \o seqs[(n + 1) + 1] = seqs[1] \o (g[n] \o seqs[(n + 1) + 1])
      <4> DEFINE a == seqs[1]
                 b == g[n]
                 c == seqs[(n + 1) + 1]
      <4>1. a \in Seq(S) /\ b \in Seq(S) /\ c \in Seq(S)
        BY <3>4 DEF T
      <4> HIDE DEF a, b, c
      <4>2. (a \o b) \o c = a \o (b \o c)
        BY <4>1, ConcatAssociative, SMTT(30)
      <4>3. QED
        BY <4>2 DEF a, b, c
    <3>6. f[(n + 1) + 1] = seqs[1] \o g[n + 1]
      BY <3>2, <3>3, <3>5, Zenon
    <3>7. n + 1 \in Nat
      OBVIOUS
    <3>8. QED
      BY <3>6, <3>7, Zenon
  <2>2. n + 1 \in Nat
    OBVIOUS
  <2>3. QED
    BY <2>1, <2>2, Zenon
<1>9. L - 1 \in Q
  <2> HIDE DEF Q
  <2>1. L - 1 \in Nat
    BY <1>1
  <2>2. QED
    BY <1>7, <1>8, <2>1, Induct
<1>10. L - 1 \in 0..L-1 /\ (L - 1) + 1 = L
  BY <1>1
<1>11. f[L] = seqs[1] \o g[L - 1]
  BY <1>9, <1>10
<1>12. QED
  BY <1>3, <1>4, <1>11 DEF rest

\* What the sequences from the k-th on make.
Suffix(seqs, k) == FlattenSeq(SubSeq(seqs, k, Len(seqs)))

LEMMA SuffixSplits ==
  ASSUME NEW S, NEW seqs \in Seq(Seq(S))
  PROVE  /\ FlattenSeq(seqs) = Suffix(seqs, 1)
         /\ Suffix(seqs, Len(seqs) + 1) = <<>>
         /\ \A k \in 1..Len(seqs) + 1 : Suffix(seqs, k) \in Seq(S)
         /\ \A k \in 1..Len(seqs) : Suffix(seqs, k) = seqs[k] \o Suffix(seqs, k + 1)
<1> DEFINE L == Len(seqs)
           T == Seq(S)
<1>1. L \in Nat /\ seqs \in Seq(T) /\ \A n \in 1..L : seqs[n] \in T
  OBVIOUS
<1>2. FlattenSeq(seqs) = Suffix(seqs, 1)
  BY SubSeqFull, Zenon DEF Suffix
<1>3. Suffix(seqs, L + 1) = <<>>
  <2>1. SubSeq(seqs, L + 1, L) = <<>>
    BY <1>1, SubSeqEmpty
  <2>2. FlattenSeq(<<>>) = <<>>
    BY DEF FlattenSeq
  <2>3. QED
    BY <2>1, <2>2 DEF Suffix
<1> HIDE DEF T
<1>4. ASSUME NEW k \in 1..L+1 PROVE SubSeq(seqs, k, L) \in Seq(T)
  <2>1. k \in Int /\ L \in Int /\ \A n \in k..L : seqs[n] \in T
    BY <1>1
  <2>2. QED
    BY <2>1, SubSeqProperties
<1>5. \A k \in 1..L+1 : Suffix(seqs, k) \in T
  BY <1>4, FlattenType DEF Suffix, T
<1>6. ASSUME NEW k \in 1..L PROVE Suffix(seqs, k) = seqs[k] \o Suffix(seqs, k + 1)
  <2> DEFINE s == SubSeq(seqs, k, L)
  <2>1. k \in 1..L+1 /\ k \in 1..L /\ L \in k..L
    BY <1>1
  <2>2. s \in Seq(T) /\ Head(s) = seqs[k] /\ Tail(s) = SubSeq(seqs, k + 1, L)
    BY <1>1, <1>4, <2>1, HeadTailOfSubSeq
  <2>3. Len(s) = L - k + 1
    <3>1. k \in Int /\ L \in Int /\ k <= L /\ \A n \in k..L : seqs[n] \in T
      BY <1>1
    <3>2. QED
      BY <3>1, SubSeqProperties
  <2>4. s # <<>> /\ s[1] = Head(s)
    <3>1. L - k + 1 > 0
      BY <1>1
    <3> HIDE DEF s
    <3>2. QED
      BY <2>2, <2>3, <3>1
  <2> HIDE DEF s
  <2>5. FlattenSeq(s) = s[1] \o FlattenSeq(Tail(s))
    BY <2>2, <2>4, FlattenHead DEF T
  <2>6. QED
    BY <2>2, <2>4, <2>5, Zenon DEF Suffix, s
<1>7. QED
  BY <1>2, <1>3, <1>5, <1>6, Zenon DEF T

\* How a number is taken apart.
Unfolds(r, w, v) ==
    /\ r \in [0..w -> Nat] /\ r[0] = v
    /\ \A k \in 1..w : r[k] = r[k - 1] \div Byte

LEMMA LittleEndianUnfolds ==
  ASSUME NEW w \in Nat, NEW v \in Nat
  PROVE  /\ LittleEndian(w, v) \in Seq(Octets) /\ Len(LittleEndian(w, v)) = w
         /\ \E r : Unfolds(r, w, v) /\ \A k \in 1..w : LittleEndian(w, v)[k] = r[k - 1] % Byte
<1> DEFINE Runs(f) == f = [k \in 0..w |-> IF k = 0 THEN v ELSE f[k - 1] \div Byte]
           step == [k \in 1..w |-> [x \in Nat |-> x \div Byte]]
<1>1. step \in [1..w -> [Nat -> Nat]]
  BY Radix
<1> HIDE DEF step
<1>2. PICK f : Iterates(f, Nat, v, step, w)
  BY <1>1, Iterated
<1>3. f \in [0..w -> Nat] /\ f[0] = v /\ \A k \in 1..w : f[k] = f[k - 1] \div Byte
  <2>1. f \in [0..w -> Nat] /\ f[0] = v /\ \A k \in 1..w : f[k] = step[k][f[k - 1]]
    BY <1>2 DEF Iterates
  <2>2. ASSUME NEW k \in 1..w PROVE f[k] = f[k - 1] \div Byte
    <3>1. f[k - 1] \in Nat
      BY <2>1
    <3>2. QED
      BY <2>1, <3>1 DEF step
  <2>3. QED
    BY <2>1, <2>2
<1>4. Runs(f)
  BY <1>3
<1> DEFINE r == CHOOSE r : Runs(r)
<1>5. Runs(r)
  <2> HIDE DEF Runs
  <2>1. QED
    BY <1>4
<1>6. LittleEndian(w, v) = [k \in 1..w |-> r[k - 1] % Byte]
  BY Zenon DEF LittleEndian
<1> HIDE DEF r
<1> DEFINE Q == { n \in Nat : n \in 0..w => r[n] \in Nat }
<1>7. 0 \in Q
  BY <1>5
<1>8. ASSUME NEW n \in Nat, n \in Q PROVE n + 1 \in Q
  <2>1. CASE n + 1 \in 0..w
    <3>1. n \in 0..w /\ n + 1 # 0 /\ (n + 1) - 1 = n
      BY <2>1
    <3>2. r[n + 1] = r[n] \div Byte /\ r[n] \in Nat
      BY <1>5, <1>8, <2>1, <3>1
    <3>3. r[n + 1] \in Nat
      BY <3>2, Radix
    <3>4. QED
      BY <3>3
  <2>2. QED
    BY <2>1
<1>9. \A n \in Nat : n \in Q
  <2> HIDE DEF Q
  <2>1. QED
    BY <1>7, <1>8, Induct
<1>10. \A k \in 1..w : r[k - 1] % Byte \in Octets
  <2> TAKE k \in 1..w
  <2>1. k - 1 \in Nat /\ k - 1 \in 0..w
    OBVIOUS
  <2>2. r[k - 1] \in Nat
    BY <1>9, <2>1
  <2>3. QED
    BY <2>2, Radix DEF Octets
<1>11. r \in [0..w -> Nat]
  <2>1. r = [k \in 0..w |-> r[k]]
    BY <1>5
  <2>2. \A k \in 0..w : r[k] \in Nat
    BY <1>9
  <2>3. QED
    BY <2>1, <2>2
<1>12. r[0] = v /\ \A k \in 1..w : r[k] = r[k - 1] \div Byte
  BY <1>5
<1>13. Unfolds(r, w, v)
  BY <1>11, <1>12 DEF Unfolds
<1>14. \A k \in 1..w : LittleEndian(w, v)[k] = r[k - 1] % Byte
  BY <1>6
<1>15. LittleEndian(w, v) \in Seq(Octets) /\ Len(LittleEndian(w, v)) = w
  BY <1>6, <1>10
<1>16. QED
  BY <1>13, <1>14, <1>15

LEMMA LittleEndianType ==
  ASSUME NEW w \in Nat, NEW v \in Nat
  PROVE  LittleEndian(w, v) \in Seq(Octets) /\ Len(LittleEndian(w, v)) = w
  BY LittleEndianUnfolds

LEMMA Division ==
  ASSUME NEW v \in Nat
  PROVE  /\ v \div Byte \in Nat /\ v % Byte \in Octets
         /\ v = (v \div Byte) * Byte + (v % Byte)
  BY Radix DEF Octets

\* A number that w digits suffice for.
Fits(w, v) == \A r : Unfolds(r, w, v) => r[w] = 0

LEMMA Shrinks ==
  ASSUME NEW m \in Nat, NEW v \in Nat, v < Byte * m
  PROVE  v \div Byte < m
<1> DEFINE q == v \div Byte
<1>1. q \in Nat /\ v >= q * Byte
  BY Division, Radix DEF Octets
<1> HIDE DEF q
<1>2. ASSUME q >= m PROVE FALSE
  <2>1. q * Byte >= m * Byte
    BY <1>1, <1>2, Radix
  <2>2. m * Byte = Byte * m /\ Byte * m \in Nat /\ q * Byte \in Nat
    BY <1>1, Radix
  <2>3. QED
    BY <1>1, <2>1, <2>2
<1>3. QED
  BY <1>1, <1>2 DEF q

LEMMA WordsFit ==
  ASSUME NEW v \in Nat
  PROVE  /\ v < Byte => Fits(1, v)
         /\ v < V!U16 => Fits(2, v)
         /\ v < V!U32 => Fits(4, v)
         /\ v < V!U64 => Fits(8, v)
<1>1. ASSUME NEW m \in Nat, NEW x \in Nat, x < Byte * m
      PROVE  x \div Byte \in Nat /\ x \div Byte < m
  BY <1>1, Shrinks, Division
<1>2. Byte = Byte * 1 /\ V!U16 = Byte * Byte
  BY Radix
<1>3. V!U32 = Byte * (Byte * V!U16) /\ Byte * V!U16 \in Nat
  BY Radix
<1>4. /\ V!U64 = Byte * (Byte * (Byte * (Byte * V!U32)))
      /\ Byte * (Byte * (Byte * V!U32)) \in Nat /\ Byte * (Byte * V!U32) \in Nat /\ Byte * V!U32 \in Nat
  <2>1. \A a, b, c \in Nat : a = b * b => a * c = b * (b * c)
    OBVIOUS
  <2>2. Byte * V!U32 \in Nat /\ Byte * (Byte * V!U32) \in Nat
    BY Radix
  <2>3. V!U32 = V!U16 * V!U16 /\ V!U16 = Byte * Byte
    BY Radix
  <2>4. V!U64 = V!U16 * (V!U16 * V!U32)
    BY <2>1, <2>3, Radix
  <2>5. V!U16 * V!U32 = Byte * (Byte * V!U32)
    BY <2>1, <2>3, Radix
  <2>6. V!U16 * (Byte * (Byte * V!U32)) = Byte * (Byte * (Byte * (Byte * V!U32)))
    BY <2>1, <2>2, <2>3, Radix
  <2>7. Byte * (Byte * (Byte * V!U32)) \in Nat
    BY <2>2, Radix
  <2>8. QED
    BY <2>2, <2>4, <2>5, <2>6, <2>7
<1>5. ASSUME NEW x \in Nat, x < 1 PROVE x = 0
  BY <1>5
<1>6. ASSUME v < Byte PROVE Fits(1, v)
  <2> SUFFICES ASSUME NEW r, Unfolds(r, 1, v) PROVE r[1] = 0
    BY DEF Fits
  <2>1. r[0] = v /\ r[1] = r[0] \div Byte
    BY DEF Unfolds
  <2>2. r[1] \in Nat /\ r[1] < 1
    BY <1>1, <1>2, <1>6, <2>1
  <2>3. QED
    BY <1>5, <2>2
<1>7. ASSUME v < V!U16 PROVE Fits(2, v)
  <2> SUFFICES ASSUME NEW r, Unfolds(r, 2, v) PROVE r[2] = 0
    BY DEF Fits
  <2>1. r[0] = v /\ r[1] = r[0] \div Byte /\ r[2] = r[1] \div Byte
    BY DEF Unfolds
  <2>2. r[1] \in Nat /\ r[1] < Byte
    BY <1>1, <1>2, <1>7, <2>1, Radix
  <2>3. r[2] \in Nat /\ r[2] < 1
    BY <1>1, <1>2, <2>1, <2>2
  <2>4. QED
    BY <1>5, <2>3
<1>8. ASSUME NEW x \in Nat, x < V!U32, NEW r, r[0] = x, \A k \in 1..4 : r[k] = r[k - 1] \div Byte
      PROVE  r[4] = 0
  <2>1. r[1] = r[0] \div Byte /\ r[2] = r[1] \div Byte /\ r[3] = r[2] \div Byte /\ r[4] = r[3] \div Byte
    BY <1>8
  <2>2. r[1] \in Nat /\ r[1] < Byte * V!U16
    BY <1>1, <1>3, <1>8, <2>1
  <2>3. r[2] \in Nat /\ r[2] < V!U16
    BY <1>1, <2>1, <2>2, Radix
  <2>4. r[3] \in Nat /\ r[3] < Byte
    BY <1>1, <1>2, <2>1, <2>3, Radix
  <2>5. r[4] \in Nat /\ r[4] < 1
    BY <1>1, <1>2, <2>1, <2>4
  <2>6. QED
    BY <1>5, <2>5
<1>9. ASSUME v < V!U32 PROVE Fits(4, v)
  BY <1>8, <1>9 DEF Fits, Unfolds
<1>10. ASSUME v < V!U64 PROVE Fits(8, v)
  <2> SUFFICES ASSUME NEW r, Unfolds(r, 8, v) PROVE r[8] = 0
    BY DEF Fits
  <2>1. /\ r[0] = v /\ r[1] = r[0] \div Byte /\ r[2] = r[1] \div Byte /\ r[3] = r[2] \div Byte
        /\ r[4] = r[3] \div Byte /\ r[5] = r[4] \div Byte /\ r[6] = r[5] \div Byte
        /\ r[7] = r[6] \div Byte /\ r[8] = r[7] \div Byte
    BY DEF Unfolds
  <2>2. r[1] \in Nat /\ r[1] < Byte * (Byte * (Byte * V!U32))
    BY <1>1, <1>4, <1>10, <2>1
  <2>3. r[2] \in Nat /\ r[2] < Byte * (Byte * V!U32)
    BY <1>1, <1>4, <2>1, <2>2
  <2>4. r[3] \in Nat /\ r[3] < Byte * V!U32
    BY <1>1, <1>4, <2>1, <2>3
  <2>5. r[4] \in Nat /\ r[4] < V!U32
    BY <1>1, <1>4, <2>1, <2>4, Radix
  <2> DEFINE u == [k \in 0..4 |-> r[k + 4]]
  <2>6. u[0] = r[4] /\ u[4] = r[8] /\ \A k \in 1..4 : u[k] = u[k - 1] \div Byte
    <3>1. u[0] = r[4] /\ u[1] = r[5] /\ u[2] = r[6] /\ u[3] = r[7] /\ u[4] = r[8]
      OBVIOUS
    <3> HIDE DEF u
    <3>2. u[1] = u[0] \div Byte /\ u[2] = u[1] \div Byte /\ u[3] = u[2] \div Byte /\ u[4] = u[3] \div Byte
      BY <2>1, <3>1, Zenon
    <3>3. \A k \in 1..4 : (k = 1 /\ k - 1 = 0) \/ (k = 2 /\ k - 1 = 1) \/ (k = 3 /\ k - 1 = 2) \/ (k = 4 /\ k - 1 = 3)
      OBVIOUS
    <3>4. \A k \in 1..4 : u[k] = u[k - 1] \div Byte
      BY <3>2, <3>3, Zenon
    <3>5. QED
      BY <3>1, <3>4
  <2> HIDE DEF u
  <2>7. u[4] = 0
    BY <1>8, <2>5, <2>6
  <2>8. QED
    BY <2>6, <2>7
<1>11. QED
  BY <1>6, <1>7, <1>9, <1>10

\* How a number is put together.
Folds(n, s) ==
    /\ n \in [0..Len(s) -> Nat] /\ n[0] = 0
    /\ \A k \in 1..Len(s) : n[k] = n[k - 1] * Byte + s[Len(s) - k + 1]

LEMMA NumberFolds ==
  ASSUME NEW s \in Seq(Octets)
  PROVE  \E n : Folds(n, s) /\ Number(s) = n[Len(s)]
<1> DEFINE L == Len(s)
           Runs(f) == f = [k \in 0..L |-> IF k = 0 THEN 0 ELSE f[k - 1] * Byte + s[L - k + 1]]
           step == [k \in 1..L |-> [x \in Nat |-> x * Byte + s[L - k + 1]]]
<1>1. L \in Nat /\ \A k \in 1..L : s[L - k + 1] \in Nat
  <2>1. L \in Nat /\ \A k \in 1..L : L - k + 1 \in 1..L
    OBVIOUS
  <2>2. \A k \in 1..L : s[k] \in Octets
    OBVIOUS
  <2>3. Octets \subseteq Nat
    BY Radix DEF Octets
  <2> HIDE DEF L
  <2>4. QED
    BY <2>1, <2>2, <2>3
<1>2. step \in [1..L -> [Nat -> Nat]]
  BY <1>1, Radix
<1> HIDE DEF step, L
<1>3. PICK f : Iterates(f, Nat, 0, step, L)
  BY <1>1, <1>2, Iterated
<1>4. f \in [0..L -> Nat] /\ f[0] = 0 /\ \A k \in 1..L : f[k] = f[k - 1] * Byte + s[L - k + 1]
  <2>1. f \in [0..L -> Nat] /\ f[0] = 0 /\ \A k \in 1..L : f[k] = step[k][f[k - 1]]
    BY <1>3 DEF Iterates
  <2>2. ASSUME NEW k \in 1..L PROVE f[k] = f[k - 1] * Byte + s[L - k + 1]
    <3>1. k - 1 \in 0..L
      BY <1>1
    <3>2. f[k - 1] \in Nat
      BY <2>1, <3>1
    <3>3. QED
      BY <2>1, <3>2 DEF step
  <2>3. QED
    BY <2>1, <2>2
<1>5. Runs(f)
  BY <1>1, <1>4
<1> DEFINE r == CHOOSE r : Runs(r)
<1>6. Runs(r)
  <2> HIDE DEF Runs
  <2>1. QED
    BY <1>5
<1>7. Number(s) = r[L]
  BY Zenon DEF Number, L
<1> HIDE DEF r
<1> DEFINE Q == { n \in Nat : n \in 0..L => r[n] \in Nat }
<1>8. 0 \in Q
  BY <1>1, <1>6
<1>9. ASSUME NEW n \in Nat, n \in Q PROVE n + 1 \in Q
  <2>1. CASE n + 1 \in 0..L
    <3>1. n \in 0..L /\ n + 1 # 0 /\ (n + 1) - 1 = n /\ n + 1 \in 1..L
      BY <1>1, <2>1
    <3>2. r[n + 1] = r[n] * Byte + s[L - (n + 1) + 1] /\ r[n] \in Nat
      BY <1>6, <1>9, <2>1, <3>1
    <3>3. s[L - (n + 1) + 1] \in Nat
      BY <1>1, <3>1
    <3>4. r[n + 1] \in Nat
      BY <3>2, <3>3, Radix
    <3>5. QED
      BY <3>4
  <2>2. QED
    BY <2>1
<1>10. \A k \in Nat : k \in Q
  <2> HIDE DEF Q
  <2>1. QED
    BY <1>8, <1>9, Induct
<1>11. r \in [0..L -> Nat]
  <2>1. r = [k \in 0..L |-> r[k]]
    BY <1>6
  <2>2. \A k \in 0..L : r[k] \in Nat
    BY <1>1, <1>10
  <2>3. QED
    BY <2>1, <2>2
<1>12. r[0] = 0 /\ \A k \in 1..L : r[k] = r[k - 1] * Byte + s[L - k + 1]
  BY <1>1, <1>6
<1>13. Folds(r, s)
  BY <1>11, <1>12 DEF Folds, L
<1>14. QED
  BY <1>7, <1>13 DEF L

LEMMA NumberType ==
  ASSUME NEW s \in Seq(Octets)
  PROVE  Number(s) \in Nat
<1>1. PICK n : Folds(n, s) /\ Number(s) = n[Len(s)]
  BY NumberFolds
<1>2. Len(s) \in 0..Len(s)
  OBVIOUS
<1>3. QED
  BY <1>1, <1>2 DEF Folds

\* A number comes back from its own bytes.
LEMMA NumberReadBack ==
  ASSUME NEW w \in Nat, NEW v \in Nat, Fits(w, v)
  PROVE  Number(LittleEndian(w, v)) = v
<1> DEFINE s == LittleEndian(w, v)
<1>1. PICK r : Unfolds(r, w, v) /\ \A k \in 1..w : s[k] = r[k - 1] % Byte
  BY LittleEndianUnfolds
<1>2. s \in Seq(Octets) /\ Len(s) = w
  BY LittleEndianUnfolds
<1> HIDE DEF s
<1>3. PICK n : Folds(n, s) /\ Number(s) = n[Len(s)]
  BY <1>2, NumberFolds
<1>4. /\ n[0] = 0 /\ \A k \in 1..w : n[k] = n[k - 1] * Byte + s[w - k + 1]
  BY <1>2, <1>3 DEF Folds
<1>5. r[w] = 0 /\ r[0] = v /\ (\A k \in 0..w : r[k] \in Nat) /\ \A k \in 1..w : r[k] = r[k - 1] \div Byte
  BY <1>1 DEF Fits, Unfolds
<1> DEFINE Q == { k \in Nat : k \in 0..w => n[k] = r[w - k] }
<1>6. 0 \in Q
  <2>1. w - 0 = w
    OBVIOUS
  <2>2. n[0] = r[w - 0]
    BY <1>4, <1>5, <2>1
  <2>3. QED
    BY <2>2
<1>7. ASSUME NEW k \in Nat, k \in Q PROVE k + 1 \in Q
  <2>1. CASE k + 1 \in 0..w
    <3>1. /\ k \in 0..w /\ k + 1 \in 1..w /\ (k + 1) - 1 = k
          /\ w - k \in 1..w /\ (w - k) - 1 = w - (k + 1) /\ w - (k + 1) + 1 = w - k /\ w - (k + 1) \in 0..w
      BY <2>1
    <3>2. n[k] = r[w - k]
      BY <1>7, <3>1
    <3>3. n[k + 1] = n[k] * Byte + s[w - k]
      BY <1>4, <3>1
    <3>4. s[w - k] = r[w - (k + 1)] % Byte
      BY <1>1, <3>1
    <3>5. r[w - k] = r[w - (k + 1)] \div Byte /\ r[w - (k + 1)] \in Nat
      BY <1>5, <3>1
    <3>6. r[w - (k + 1)] = (r[w - (k + 1)] \div Byte) * Byte + (r[w - (k + 1)] % Byte)
      BY <3>5, Division
    <3>7. n[k + 1] = r[w - (k + 1)]
      BY <3>2, <3>3, <3>4, <3>5, <3>6, Zenon
    <3>8. QED
      BY <3>7
  <2>2. QED
    BY <2>1
<1>8. w \in Q
  <2> HIDE DEF Q
  <2>1. QED
    BY <1>6, <1>7, Induct
<1>9. w - w = 0 /\ w \in 0..w
  OBVIOUS
<1>10. n[w] = r[w - w]
  BY <1>8, <1>9
<1>11. QED
  BY <1>2, <1>3, <1>5, <1>9, <1>10 DEF s

\* Four and eight bytes make a number of that width.
LEMMA NumberRange ==
  ASSUME NEW s \in Seq(Octets)
  PROVE  /\ Len(s) = 4 => Number(s) \in Word32
         /\ Len(s) = 8 => Number(s) \in Word64
<1>1. ASSUME NEW m \in Nat, NEW x \in Nat, x < m, NEW d \in Octets
      PROVE  x * Byte + d \in Nat /\ x * Byte + d < m * Byte
  <2>1. d \in Nat /\ d < Byte
    BY Radix DEF Octets
  <2>2. x + 1 <= m
    BY <1>1
  <2>3. (x + 1) * Byte <= m * Byte
    BY <2>2, Radix
  <2>4. (x + 1) * Byte = x * Byte + Byte /\ x * Byte \in Nat /\ m * Byte \in Nat
    BY Radix
  <2>5. QED
    BY <2>1, <2>3, <2>4, Radix
<1>2. PICK n : Folds(n, s) /\ Number(s) = n[Len(s)]
  BY NumberFolds
<1>3. /\ n[0] = 0 /\ \A k \in 1..Len(s) : n[k - 1] \in Nat /\ n[k] = n[k - 1] * Byte + s[Len(s) - k + 1]
  <2>1. \A k \in 1..Len(s) : k - 1 \in 0..Len(s)
    OBVIOUS
  <2>2. QED
    BY <1>2, <2>1 DEF Folds
<1>4. \A k \in 1..Len(s) : s[Len(s) - k + 1] \in Octets
  <2>1. \A k \in 1..Len(s) : Len(s) - k + 1 \in 1..Len(s)
    OBVIOUS
  <2>2. QED
    BY <2>1
<1>5. ASSUME NEW k \in 1..Len(s), NEW m \in Nat, n[k - 1] < m
      PROVE  n[k] \in Nat /\ n[k] < m * Byte
  BY <1>1, <1>3, <1>4, <1>5
<1>6. ASSUME Len(s) >= 4 PROVE n[4] \in Nat /\ n[4] < V!U32
  <2>1. n[1] \in Nat /\ n[1] < 1 * Byte
    <3>1. 1 \in 1..Len(s) /\ 1 - 1 = 0 /\ n[0] < 1
      BY <1>3, <1>6
    <3>2. QED
      BY <1>5, <3>1
  <2>2. n[2] \in Nat /\ n[2] < V!U16
    <3>1. 2 \in 1..Len(s) /\ 2 - 1 = 1 /\ 1 * Byte = Byte
      BY <1>6, Radix
    <3>2. QED
      BY <1>5, <2>1, <3>1, Radix
  <2>3. n[3] \in Nat /\ n[3] < V!U16 * Byte
    <3>1. 3 \in 1..Len(s) /\ 3 - 1 = 2
      BY <1>6
    <3>2. QED
      BY <1>5, <2>2, <3>1, Radix
  <2>4. n[4] \in Nat /\ n[4] < (V!U16 * Byte) * Byte
    <3>1. 4 \in 1..Len(s) /\ 4 - 1 = 3 /\ V!U16 * Byte \in Nat
      BY <1>6, Radix
    <3>2. QED
      BY <1>5, <2>3, <3>1
  <2>5. (V!U16 * Byte) * Byte = V!U32
    BY Radix
  <2>6. QED
    BY <2>4, <2>5
<1>7. ASSUME Len(s) = 8 PROVE n[8] \in Nat /\ n[8] < V!U64
  <2>1. n[4] \in Nat /\ n[4] < V!U32
    BY <1>6, <1>7
  <2>2. n[5] \in Nat /\ n[5] < V!U32 * Byte
    <3>1. 5 \in 1..Len(s) /\ 5 - 1 = 4
      BY <1>7
    <3>2. QED
      BY <1>5, <2>1, <3>1, Radix
  <2>3. n[6] \in Nat /\ n[6] < (V!U32 * Byte) * Byte
    <3>1. 6 \in 1..Len(s) /\ 6 - 1 = 5 /\ V!U32 * Byte \in Nat
      BY <1>7, Radix
    <3>2. QED
      BY <1>5, <2>2, <3>1
  <2>4. (V!U32 * Byte) * Byte = V!U32 * V!U16 /\ V!U32 * V!U16 \in Nat
    BY Radix
  <2>5. n[7] \in Nat /\ n[7] < (V!U32 * V!U16) * Byte
    <3>1. 7 \in 1..Len(s) /\ 7 - 1 = 6
      BY <1>7
    <3>2. QED
      BY <1>5, <2>3, <2>4, <3>1
  <2>6. n[8] \in Nat /\ n[8] < ((V!U32 * V!U16) * Byte) * Byte
    <3>1. 8 \in 1..Len(s) /\ 8 - 1 = 7 /\ (V!U32 * V!U16) * Byte \in Nat
      BY <1>7, <2>4, Radix
    <3>2. QED
      BY <1>5, <2>5, <3>1
  <2>7. ((V!U32 * V!U16) * Byte) * Byte = V!U64
    <3>1. ((V!U32 * V!U16) * Byte) * Byte = V!U32 * (V!U16 * (Byte * Byte))
      BY Radix
    <3>2. QED
      BY <3>1, Radix
  <2>8. QED
    BY <2>6, <2>7
<1>8. ASSUME Len(s) = 4 PROVE Number(s) \in Word32
  <2>1. Number(s) \in Nat /\ Number(s) < V!U32
    BY <1>2, <1>6, <1>8
  <2>2. QED
    BY <2>1, Radix DEF Word32
<1>9. ASSUME Len(s) = 8 PROVE Number(s) \in Word64
  <2>1. Number(s) \in Nat /\ Number(s) < V!U64
    BY <1>2, <1>7, <1>9
  <2>2. QED
    BY <2>1, Radix DEF Word64
<1>10. QED
  BY <1>8, <1>9

-----------------------------------------------------------------------------
(***************************************************************************)
(* What is written.                                                        *)
(***************************************************************************)
Octet == Seq(Octets)
ShortBuffers == { b \in Octet : Len(b) <= MaxBuf }
ShortItems == { w \in Seq(ShortBuffers) : Len(w) <= MaxItems }
Txids == { b \in Octet : Len(b) = TxidLen }
ShortInputs  == [txid : Txids, vout : Word32, script : ShortBuffers, sequence : Word32, wit : ShortItems]
ShortOutputs == [amount : Word64, script : ShortBuffers]
ShortTxs ==
    [version : Word32, ins : { s \in Seq(ShortInputs) : Len(s) <= MaxIns },
     outs : { s \in Seq(ShortOutputs) : Len(s) <= MaxOuts }, locktime : Word32]

LEMMA MappedType ==
  ASSUME NEW n \in Nat, NEW e, e = [k \in 1..n |-> e[k]], \A k \in 1..n : e[k] \in Octet
  PROVE  FlattenSeq(e) \in Octet
<1>1. e \in Seq(Octet)
  <2> HIDE DEF Octet
  <2>1. [k \in 1..n |-> e[k]] \in Seq(Octet)
    OBVIOUS
  <2>2. QED
    BY <2>1
<1>2. QED
  BY <1>1, FlattenType DEF Octet

LEMMA Joined ==
  ASSUME NEW s \in Octet, NEW t \in Octet
  PROVE  s \o t \in Octet
  BY DEF Octet

LEMMA VarIntType ==
  ASSUME NEW v \in Nat
  PROVE  VarInt(v) \in Octet
<1> DEFINE s == V!VarIntBytes(v)
           T == [width : Nat, value : Nat]
           e == [k \in DOMAIN s |-> LittleEndian(s[k].width, s[k].value)]
<1>1. s \in Seq(T)
  <2>1. \A w, x \in Nat : V!Fixed(w, x) \in T
    BY DEF V!Fixed
  <2>2. Byte - 1 \in Nat /\ Byte - 2 \in Nat /\ Byte - 3 \in Nat
    BY Radix
  <2> HIDE DEF T
  <2>3. \A x, y \in T : <<x>> \in Seq(T) /\ <<x, y>> \in Seq(T)
    OBVIOUS
  <2>4. /\ V!Fixed(1, v) \in T /\ V!Fixed(2, v) \in T /\ V!Fixed(4, v) \in T /\ V!Fixed(8, v) \in T
        /\ V!Fixed(1, Byte - 1) \in T /\ V!Fixed(1, Byte - 2) \in T /\ V!Fixed(1, Byte - 3) \in T
    BY <2>1, <2>2
  <2>5. /\ <<V!Fixed(1, v)>> \in Seq(T)
        /\ <<V!Fixed(1, Byte - 3), V!Fixed(2, v)>> \in Seq(T)
        /\ <<V!Fixed(1, Byte - 2), V!Fixed(4, v)>> \in Seq(T)
        /\ <<V!Fixed(1, Byte - 1), V!Fixed(8, v)>> \in Seq(T)
    BY <2>3, <2>4, Zenon
  <2>6. \/ s = <<V!Fixed(1, v)>>
        \/ s = <<V!Fixed(1, Byte - 3), V!Fixed(2, v)>>
        \/ s = <<V!Fixed(1, Byte - 2), V!Fixed(4, v)>>
        \/ s = <<V!Fixed(1, Byte - 1), V!Fixed(8, v)>>
    BY Radix DEF V!VarIntBytes
  <2>7. QED
    BY <2>5, <2>6, Zenon
<1>2. VarInt(v) = FlattenSeq(e)
  BY Zenon DEF VarInt, Concat
<1> HIDE DEF s
<1>3. DOMAIN s = 1..Len(s) /\ Len(s) \in Nat /\ \A k \in 1..Len(s) : s[k] \in T
  <2> HIDE DEF T
  <2>1. QED
    BY <1>1
<1>4. \A k \in 1..Len(s) : e[k] \in Octet
  <2> TAKE k \in 1..Len(s)
  <2>1. s[k].width \in Nat /\ s[k].value \in Nat
    BY <1>3
  <2>2. LittleEndian(s[k].width, s[k].value) \in Octet
    BY <2>1, LittleEndianType DEF Octet
  <2>3. QED
    BY <1>3, <2>2
<1>5. e = [k \in 1..Len(s) |-> e[k]]
  BY <1>3
<1> HIDE DEF e
<1>6. QED
  BY <1>2, <1>3, <1>4, <1>5, MappedType

\* One sequence, and two.
LEMMA FlattenFew ==
  ASSUME NEW a \in Octet, NEW b \in Octet
  PROVE  FlattenSeq(<<a>>) = a /\ FlattenSeq(<<a, b>>) = a \o b
<1>1. ASSUME NEW x \in Octet PROVE FlattenSeq(<<x>>) = x
  <2>1. <<x>> \in Seq(Octet) /\ <<x>> # <<>> /\ Tail(<<x>>) = <<>> /\ <<x>>[1] = x
    OBVIOUS
  <2>2. FlattenSeq(<<x>>) = x \o FlattenSeq(<<>>)
    BY <2>1, FlattenHead DEF Octet
  <2>3. FlattenSeq(<<>>) = <<>>
    BY DEF FlattenSeq
  <2>4. x \o <<>> = x
    BY ConcatEmptySeq DEF Octet
  <2>5. QED
    BY <2>2, <2>3, <2>4
<1>2. FlattenSeq(<<a, b>>) = a \o b
  <2>1. <<a, b>> \in Seq(Octet) /\ <<a, b>> # <<>> /\ Tail(<<a, b>>) = <<b>> /\ <<a, b>>[1] = a
    OBVIOUS
  <2>2. FlattenSeq(<<a, b>>) = a \o FlattenSeq(<<b>>)
    BY <2>1, FlattenHead DEF Octet
  <2>3. QED
    BY <1>1, <2>2
<1>3. QED
  BY <1>1, <1>2

LEMMA OneByte ==
  ASSUME NEW v \in Octets
  PROVE  LittleEndian(1, v) = <<v>>
<1>1. v \in Nat /\ v < Byte
  BY Radix DEF Octets
<1>2. PICK r : Unfolds(r, 1, v) /\ \A k \in 1..1 : LittleEndian(1, v)[k] = r[k - 1] % Byte
  BY <1>1, LittleEndianUnfolds
<1>3. LittleEndian(1, v) \in Seq(Octets) /\ Len(LittleEndian(1, v)) = 1
  BY <1>1, LittleEndianUnfolds
<1>4. LittleEndian(1, v)[1] = v % Byte
  BY <1>2 DEF Unfolds
<1>5. v % Byte = v
  BY <1>1, Radix
<1>6. QED
  BY <1>3, <1>4, <1>5

LEMMA VarIntForms ==
  ASSUME NEW v \in Nat
  PROVE  /\ v <= Byte - 4 => VarInt(v) = LittleEndian(1, v)
         /\ v > Byte - 4 /\ v < V!U16 => VarInt(v) = LittleEndian(1, Byte - 3) \o LittleEndian(2, v)
         /\ v >= V!U16 /\ v < V!U32 => VarInt(v) = LittleEndian(1, Byte - 2) \o LittleEndian(4, v)
         /\ v >= V!U32 => VarInt(v) = LittleEndian(1, Byte - 1) \o LittleEndian(8, v)
<1> DEFINE s == V!VarIntBytes(v)
           e == [k \in DOMAIN s |-> LittleEndian(s[k].width, s[k].value)]
<1>1. VarInt(v) = FlattenSeq(e)
  BY Zenon DEF VarInt, Concat
<1>2. /\ v <= Byte - 4 => s = <<V!Fixed(1, v)>>
      /\ v > Byte - 4 /\ v < V!U16 => s = <<V!Fixed(1, Byte - 3), V!Fixed(2, v)>>
      /\ v >= V!U16 /\ v < V!U32 => s = <<V!Fixed(1, Byte - 2), V!Fixed(4, v)>>
      /\ v >= V!U32 => s = <<V!Fixed(1, Byte - 1), V!Fixed(8, v)>>
  <2>1. V!U16 > Byte - 4 /\ V!U32 > V!U16 /\ V!U16 \in Nat /\ V!U32 \in Nat /\ Byte \in Nat
    <3>1. \A m \in Nat : m > 4 => m * m > m
      <4> TAKE m \in Nat
      <4>1. m > 4 => m * m >= m * 2
        OBVIOUS
      <4>2. QED
        BY <4>1
    <3>2. QED
      BY <3>1, Radix
  <2>2. QED
    BY <2>1 DEF V!VarIntBytes
<1> HIDE DEF s
<1>3. ASSUME NEW w \in Nat, NEW x \in Nat, s = <<V!Fixed(w, x)>>
      PROVE  FlattenSeq(e) = LittleEndian(w, x)
  <2>1. e = <<LittleEndian(w, x)>>
    BY <1>3 DEF V!Fixed
  <2>2. LittleEndian(w, x) \in Octet
    BY LittleEndianType DEF Octet
  <2>3. QED
    BY <2>1, <2>2, FlattenFew
<1> DEFINE Two(w, x, u, y) == s = <<V!Fixed(w, x), V!Fixed(u, y)>>
<1>4. ASSUME NEW w \in Nat, NEW x \in Nat, NEW u \in Nat, NEW y \in Nat, Two(w, x, u, y)
      PROVE  FlattenSeq(e) = LittleEndian(w, x) \o LittleEndian(u, y)
  <2>1. e = <<LittleEndian(w, x), LittleEndian(u, y)>>
    BY <1>4 DEF V!Fixed
  <2>2. LittleEndian(w, x) \in Octet /\ LittleEndian(u, y) \in Octet
    BY LittleEndianType DEF Octet
  <2>3. QED
    BY <2>1, <2>2, FlattenFew
<1> HIDE DEF e, Two
<1>5. Byte - 3 \in Nat /\ Byte - 2 \in Nat /\ Byte - 1 \in Nat
  BY Radix
<1>6. 1 \in Nat /\ 2 \in Nat /\ 4 \in Nat /\ 8 \in Nat
  OBVIOUS
<1>7. v <= Byte - 4 => VarInt(v) = LittleEndian(1, v)
  BY <1>1, <1>2, <1>3, <1>6, Zenon
<1>8. ASSUME v > Byte - 4 /\ v < V!U16 PROVE VarInt(v) = LittleEndian(1, Byte - 3) \o LittleEndian(2, v)
  <2> DEFINE tag == Byte - 3
  <2>1. Two(1, tag, 2, v) /\ tag \in Nat
    BY <1>2, <1>5, <1>8 DEF Two
  <2> HIDE DEF tag
  <2>2. FlattenSeq(e) = LittleEndian(1, tag) \o LittleEndian(2, v)
    <3>1. 1 \in Nat /\ tag \in Nat /\ 2 \in Nat /\ v \in Nat /\ Two(1, tag, 2, v)
      BY <2>1
    <3>2. QED
      BY <1>4, <3>1, Zenon
  <2>3. QED
    BY <1>1, <2>2 DEF tag
<1>9. ASSUME v >= V!U16 /\ v < V!U32 PROVE VarInt(v) = LittleEndian(1, Byte - 2) \o LittleEndian(4, v)
  <2> DEFINE tag == Byte - 2
  <2>1. Two(1, tag, 4, v) /\ tag \in Nat
    BY <1>2, <1>5, <1>9 DEF Two
  <2> HIDE DEF tag
  <2>2. FlattenSeq(e) = LittleEndian(1, tag) \o LittleEndian(4, v)
    <3>1. 1 \in Nat /\ tag \in Nat /\ 4 \in Nat /\ v \in Nat /\ Two(1, tag, 4, v)
      BY <2>1
    <3>2. QED
      BY <1>4, <3>1, Zenon
  <2>3. QED
    BY <1>1, <2>2 DEF tag
<1>10. ASSUME v >= V!U32 PROVE VarInt(v) = LittleEndian(1, Byte - 1) \o LittleEndian(8, v)
  <2> DEFINE tag == Byte - 1
  <2>1. Two(1, tag, 8, v) /\ tag \in Nat
    BY <1>2, <1>5, <1>10 DEF Two
  <2> HIDE DEF tag
  <2>2. FlattenSeq(e) = LittleEndian(1, tag) \o LittleEndian(8, v)
    <3>1. 1 \in Nat /\ tag \in Nat /\ 8 \in Nat /\ v \in Nat /\ Two(1, tag, 8, v)
      BY <2>1
    <3>2. QED
      BY <1>4, <3>1, Zenon
  <2>3. QED
    BY <1>1, <2>2 DEF tag
<1>11. QED
  BY <1>7, <1>8, <1>9, <1>10

\* The first byte says how many follow, and they are the number.
LEMMA VarIntShape ==
  ASSUME NEW v \in Word64
  PROVE  LET s == VarInt(v)
             w == V!Announced(s[1])
         IN  /\ s \in Octet /\ w \in Nat /\ Len(s) = 1 + w
             /\ Number(IF w = 0 THEN s ELSE Tail(s)) = v
<1> DEFINE s == VarInt(v)
           w == V!Announced(s[1])
<1>1. v \in Nat /\ v < V!U64 /\ Byte \in Nat /\ Byte > 4 /\ V!U16 \in Nat /\ V!U32 \in Nat
  BY Radix, WordTypes
<1>2. s \in Octet
  BY <1>1, VarIntType
<1>3. ASSUME v <= Byte - 4
      PROVE  w = 0 /\ Len(s) = 1 /\ Number(s) = v
  <2>1. v \in Octets /\ v < Byte
    BY <1>1, <1>3 DEF Octets
  <2>2. s = LittleEndian(1, v) /\ s = <<v>>
    BY <1>1, <1>3, <2>1, VarIntForms, OneByte
  <2>3. Number(s) = v
    BY <1>1, <2>1, <2>2, WordsFit, NumberReadBack
  <2>4. V!Announced(v) = 0
    BY <1>1, <1>3 DEF V!Announced
  <2>5. QED
    BY <2>2, <2>3, <2>4
<1>4. ASSUME NEW tag \in Octets, NEW u \in {2, 4, 8}, V!Announced(tag) = u, Fits(u, v),
             s = LittleEndian(1, tag) \o LittleEndian(u, v)
      PROVE  w = u /\ Len(s) = 1 + u /\ Number(Tail(s)) = v
  <2> DEFINE b == LittleEndian(u, v)
  <2>1. u \in Nat /\ b \in Seq(Octets) /\ Len(b) = u
    BY <1>1, LittleEndianType
  <2>2. Number(b) = v
    BY <1>1, <1>4, <2>1, NumberReadBack
  <2> HIDE DEF b
  <2>3. s = <<tag>> \o b
    BY <1>4, OneByte DEF b
  <2>4. (<<tag>> \o b)[1] = tag /\ Len(<<tag>> \o b) = 1 + u /\ Tail(<<tag>> \o b) = b
    BY <2>1
  <2>5. QED
    BY <1>4, <2>2, <2>3, <2>4
<1>5. /\ Byte - 3 \in Octets /\ Byte - 2 \in Octets /\ Byte - 1 \in Octets
      /\ V!Announced(Byte - 3) = 2 /\ V!Announced(Byte - 2) = 4 /\ V!Announced(Byte - 1) = 8
  BY <1>1 DEF Octets, V!Announced
<1> HIDE DEF s, w
<1>6. CASE v <= Byte - 4
  BY <1>2, <1>3, <1>6 DEF s, w
<1>7. CASE v > Byte - 4 /\ v < V!U16
  <2>1. w = 2 /\ Len(s) = 1 + 2 /\ Number(Tail(s)) = v
    BY <1>1, <1>4, <1>5, <1>7, VarIntForms, WordsFit DEF s
  <2>2. QED
    BY <1>2, <2>1 DEF s, w
<1>8. CASE v >= V!U16 /\ v < V!U32
  <2>1. w = 4 /\ Len(s) = 1 + 4 /\ Number(Tail(s)) = v
    BY <1>1, <1>4, <1>5, <1>8, VarIntForms, WordsFit DEF s
  <2>2. QED
    BY <1>2, <2>1 DEF s, w
<1>9. CASE v >= V!U32
  <2>1. w = 8 /\ Len(s) = 1 + 8 /\ Number(Tail(s)) = v
    BY <1>1, <1>4, <1>5, <1>9, VarIntForms, WordsFit DEF s
  <2>2. QED
    BY <1>2, <2>1 DEF s, w
<1>10. QED
  BY <1>1, <1>6, <1>7, <1>8, <1>9

LEMMA VarBufType ==
  ASSUME NEW b \in Octet
  PROVE  VarBuf(b) \in Octet
<1>1. Len(b) \in Nat
  BY DEF Octet
<1>2. QED
  BY <1>1, VarIntType, Joined DEF VarBuf

LEMMA InputBytesType ==
  ASSUME NEW in \in TxInputs
  PROVE  InputBytes(in) \in Octet
<1>1. in.txid \in Octet /\ in.vout \in Nat /\ in.script \in Octet /\ in.sequence \in Nat
  BY WordTypes DEF TxInputs, Buffers, Slices, Octet
<1>2. Reverse(in.txid) \in Octet
  BY <1>1 DEF Reverse, Octet
<1>3. LittleEndian(4, in.vout) \in Octet /\ LittleEndian(4, in.sequence) \in Octet
  BY <1>1, LittleEndianType DEF Octet
<1>4. VarBuf(in.script) \in Octet
  BY <1>1, VarBufType
<1>5. QED
  BY <1>2, <1>3, <1>4, Joined, Zenon DEF InputBytes

LEMMA OutputBytesType ==
  ASSUME NEW out \in TxOutputs
  PROVE  OutputBytes(out) \in Octet
<1>1. out.amount \in Nat /\ out.script \in Octet
  BY WordTypes DEF TxOutputs, Buffers, Slices, Octet
<1>2. LittleEndian(8, out.amount) \in Octet
  BY <1>1, LittleEndianType DEF Octet
<1>3. QED
  BY <1>1, <1>2, VarBufType, Joined DEF OutputBytes

LEMMA WitnessBytesType ==
  ASSUME NEW in \in TxInputs
  PROVE  WitnessBytes(in) \in Octet
<1> DEFINE s == in.wit
           e == [k \in DOMAIN s |-> VarBuf(s[k])]
<1>1. DOMAIN s = 1..Len(s) /\ Len(s) \in Nat /\ \A k \in 1..Len(s) : s[k] \in Octet
  <2>1. s \in Seq(Buffers)
    BY DEF TxInputs, Slices
  <2>2. \A b \in Buffers : b \in Octet
    BY DEF Buffers, Slices, Octet
  <2> HIDE DEF s
  <2>3. QED
    BY <2>1, <2>2
<1>2. WitnessBytes(in) = VarInt(Len(s)) \o FlattenSeq(e)
  BY Zenon DEF WitnessBytes, Concat
<1> HIDE DEF s
<1>3. e = [k \in 1..Len(s) |-> e[k]] /\ \A k \in 1..Len(s) : e[k] \in Octet
  BY <1>1, VarBufType
<1> HIDE DEF e
<1>4. FlattenSeq(e) \in Octet
  BY <1>1, <1>3, MappedType
<1>5. QED
  BY <1>1, <1>2, <1>4, VarIntType, Joined

\* Whatever a transaction is, its bytes are bytes.
LEMMA BytesType ==
  ASSUME NEW t \in BtcTxs, NEW wit \in BOOLEAN
  PROVE  exportBytes(t, wit) \in Octet
<1> DEFINE i0 == [k \in DOMAIN t.ins |-> InputBytes(t.ins[k])]
           o0 == [k \in DOMAIN t.outs |-> OutputBytes(t.outs[k])]
           w0 == [k \in DOMAIN t.ins |-> WitnessBytes(t.ins[k])]
           mark == IF wit THEN <<0, 1>> ELSE <<>>
           end  == IF wit THEN FlattenSeq(w0) ELSE <<>>
<1>1. exportBytes(t, wit) =
        LittleEndian(4, t.version) \o mark \o VarInt(Len(t.ins)) \o FlattenSeq(i0)
        \o VarInt(Len(t.outs)) \o FlattenSeq(o0) \o end \o LittleEndian(4, t.locktime)
  BY Zenon DEF exportBytes, Concat
<1>2. t.version \in Nat /\ t.locktime \in Nat /\ t.ins \in Seq(TxInputs) /\ t.outs \in Seq(TxOutputs)
  BY WordTypes DEF BtcTxs, Slices
<1>3. /\ DOMAIN t.ins = 1..Len(t.ins) /\ Len(t.ins) \in Nat /\ \A k \in 1..Len(t.ins) : t.ins[k] \in TxInputs
      /\ DOMAIN t.outs = 1..Len(t.outs) /\ Len(t.outs) \in Nat /\ \A k \in 1..Len(t.outs) : t.outs[k] \in TxOutputs
  BY <1>2
<1>4. /\ i0 = [k \in 1..Len(t.ins) |-> i0[k]] /\ \A k \in 1..Len(t.ins) : i0[k] \in Octet
      /\ w0 = [k \in 1..Len(t.ins) |-> w0[k]] /\ \A k \in 1..Len(t.ins) : w0[k] \in Octet
      /\ o0 = [k \in 1..Len(t.outs) |-> o0[k]] /\ \A k \in 1..Len(t.outs) : o0[k] \in Octet
  BY <1>3, InputBytesType, OutputBytesType, WitnessBytesType
<1> HIDE DEF i0, o0, w0
<1>5. FlattenSeq(i0) \in Octet /\ FlattenSeq(w0) \in Octet /\ FlattenSeq(o0) \in Octet
  BY <1>3, <1>4, MappedType
<1>6. mark \in Octet /\ end \in Octet
  <2>1. <<>> \in Octet /\ <<0, 1>> \in Octet
    BY Radix DEF Octet, Octets
  <2>2. QED
    BY <1>5, <2>1
<1>7. LittleEndian(4, t.version) \in Octet /\ LittleEndian(4, t.locktime) \in Octet
  BY <1>2, LittleEndianType DEF Octet
<1>8. VarInt(Len(t.ins)) \in Octet /\ VarInt(Len(t.outs)) \in Octet
  BY <1>3, VarIntType
<1> HIDE DEF mark, end
<1> DEFINE a == LittleEndian(4, t.version) \o mark \o VarInt(Len(t.ins)) \o FlattenSeq(i0)
           b == a \o VarInt(Len(t.outs)) \o FlattenSeq(o0)
<1>9. a \in Octet
  BY <1>5, <1>6, <1>7, <1>8, Joined
<1> HIDE DEF a
<1>10. b \in Octet
  BY <1>5, <1>8, <1>9, Joined
<1>11. exportBytes(t, wit) = b \o end \o LittleEndian(4, t.locktime)
  BY <1>1, Zenon DEF a
<1> HIDE DEF b
<1>12. QED
  BY <1>6, <1>7, <1>10, <1>11, Joined

-----------------------------------------------------------------------------
(***************************************************************************)
(* What is left of the bytes of a transaction at each place where ReadFrom *)
(* may be, when everything before that has been read.                      *)
(***************************************************************************)
InputParts(t)   == [k \in DOMAIN t.ins |-> InputBytes(t.ins[k])]
OutputParts(t)  == [k \in DOMAIN t.outs |-> OutputBytes(t.outs[k])]
WitnessParts(t) == [k \in DOMAIN t.ins |-> WitnessBytes(t.ins[k])]
ItemParts(in)   == [k \in DOMAIN in.wit |-> VarBuf(in.wit[k])]

LocktimeOn(t)    == LittleEndian(4, t.locktime)
WitnessOn(t, k)  == Suffix(WitnessParts(t), k) \o LocktimeOn(t)
ItemsOn(t, k, m) == Suffix(ItemParts(t.ins[k]), m) \o WitnessOn(t, k + 1)
OutputsDone(t)   == IF HasWitness(t) THEN WitnessOn(t, 1) ELSE LocktimeOn(t)
OutputsOn(t, k)  == Suffix(OutputParts(t), k) \o OutputsDone(t)
OutScriptOn(t, k) == VarBuf(t.outs[k].script) \o OutputsOn(t, k + 1)
OutputCountOn(t) == VarInt(Len(t.outs)) \o OutputsOn(t, 1)
InputsOn(t, k)   == Suffix(InputParts(t), k) \o OutputCountOn(t)
SequenceOn(t, k) == LittleEndian(4, t.ins[k].sequence) \o InputsOn(t, k + 1)
ScriptOn(t, k)   == VarBuf(t.ins[k].script) \o SequenceOn(t, k)
VoutOn(t, k)     == LittleEndian(4, t.ins[k].vout) \o ScriptOn(t, k)
InputCountOn(t)  == VarInt(Len(t.ins)) \o InputsOn(t, 1)
FlagOn(t)        == <<1>> \o InputCountOn(t)
MarkerOn(t)      == IF HasWitness(t) THEN VarInt(0) \o FlagOn(t) ELSE InputCountOn(t)
VersionOn(t)     == LittleEndian(4, t.version) \o MarkerOn(t)

LEMMA Assoc ==
  ASSUME NEW a \in Octet, NEW b \in Octet, NEW c \in Octet
  PROVE  (a \o b) \o c = a \o (b \o c) /\ b \o c \in Octet
<1>1. a \in Seq(Octets) /\ b \in Seq(Octets) /\ c \in Seq(Octets)
  BY DEF Octet
<1>2. (a \o b) \o c = a \o (b \o c)
  BY <1>1, ConcatAssociative
<1>3. QED
  BY <1>2, Joined

LEMMA NoBytes ==
  ASSUME NEW a \in Octet
  PROVE  <<>> \o a = a /\ a \o <<>> = a
<1>1. a \in Seq(Octets)
  BY DEF Octet
<1>2. QED
  BY <1>1, ConcatEmptySeq

LEMMA PartsType ==
  ASSUME NEW t \in BtcTxs
  PROVE  /\ t.ins \in Seq(TxInputs) /\ Len(t.ins) \in Word64 /\ \A k \in 1..Len(t.ins) : t.ins[k] \in TxInputs
         /\ t.outs \in Seq(TxOutputs) /\ Len(t.outs) \in Word64 /\ \A k \in 1..Len(t.outs) : t.outs[k] \in TxOutputs
         /\ InputParts(t) \in Seq(Octet) /\ Len(InputParts(t)) = Len(t.ins)
         /\ WitnessParts(t) \in Seq(Octet) /\ Len(WitnessParts(t)) = Len(t.ins)
         /\ OutputParts(t) \in Seq(Octet) /\ Len(OutputParts(t)) = Len(t.outs)
<1>1. t.ins \in Seq(TxInputs) /\ t.outs \in Seq(TxOutputs) /\ Len(t.ins) \in Word64 /\ Len(t.outs) \in Word64
  BY DEF BtcTxs, Slices
<1>2. /\ DOMAIN t.ins = 1..Len(t.ins) /\ Len(t.ins) \in Nat /\ \A k \in 1..Len(t.ins) : t.ins[k] \in TxInputs
      /\ DOMAIN t.outs = 1..Len(t.outs) /\ Len(t.outs) \in Nat /\ \A k \in 1..Len(t.outs) : t.outs[k] \in TxOutputs
  BY <1>1
<1>3. /\ \A k \in 1..Len(t.ins) : InputBytes(t.ins[k]) \in Octet /\ WitnessBytes(t.ins[k]) \in Octet
      /\ \A k \in 1..Len(t.outs) : OutputBytes(t.outs[k]) \in Octet
  BY <1>2, InputBytesType, OutputBytesType, WitnessBytesType
<1>4. InputParts(t) \in Seq(Octet) /\ Len(InputParts(t)) = Len(t.ins)
  BY <1>2, <1>3 DEF InputParts
<1>5. WitnessParts(t) \in Seq(Octet) /\ Len(WitnessParts(t)) = Len(t.ins)
  BY <1>2, <1>3 DEF WitnessParts
<1>6. OutputParts(t) \in Seq(Octet) /\ Len(OutputParts(t)) = Len(t.outs)
  BY <1>2, <1>3 DEF OutputParts
<1>7. QED
  BY <1>1, <1>2, <1>4, <1>5, <1>6

LEMMA ItemPartsType ==
  ASSUME NEW in \in TxInputs
  PROVE  /\ in.wit \in Seq(Buffers) /\ Len(in.wit) \in Word64
         /\ \A m \in 1..Len(in.wit) : in.wit[m] \in Buffers /\ in.wit[m] \in Octet
         /\ ItemParts(in) \in Seq(Octet) /\ Len(ItemParts(in)) = Len(in.wit)
         /\ \A m \in 1..Len(in.wit) : ItemParts(in)[m] = VarBuf(in.wit[m])
<1> DEFINE s == in.wit
<1>1. s \in Seq(Buffers) /\ Len(s) \in Word64
  BY DEF TxInputs, Slices
<1>2. \A b \in Buffers : b \in Octet
  BY DEF Buffers, Slices, Octet
<1>3. ItemParts(in) = [k \in DOMAIN s |-> VarBuf(s[k])]
  BY Zenon DEF ItemParts
<1> HIDE DEF s
<1>4. DOMAIN s = 1..Len(s) /\ Len(s) \in Nat /\ \A k \in 1..Len(s) : s[k] \in Buffers /\ s[k] \in Octet
  BY <1>1, <1>2
<1>5. \A k \in 1..Len(s) : VarBuf(s[k]) \in Octet
  BY <1>4, VarBufType
<1>6. ItemParts(in) \in Seq(Octet) /\ Len(ItemParts(in)) = Len(s) /\ \A m \in 1..Len(s) : ItemParts(in)[m] = VarBuf(s[m])
  BY <1>3, <1>4, <1>5
<1>7. QED
  BY <1>1, <1>4, <1>6 DEF s

\* A suffix of a list of parts, with what follows it.
LEMMA SuffixOn ==
  ASSUME NEW e \in Seq(Octet), NEW rest \in Octet
  PROVE  /\ \A k \in 1..Len(e) + 1 : Suffix(e, k) \in Octet /\ Suffix(e, k) \o rest \in Octet
         /\ Suffix(e, Len(e) + 1) \o rest = rest
         /\ \A k \in 1..Len(e) : Suffix(e, k) \o rest = e[k] \o (Suffix(e, k + 1) \o rest)
<1>1. e \in Seq(Seq(Octets)) /\ Len(e) \in Nat /\ \A k \in 1..Len(e) : e[k] \in Octet
  BY DEF Octet
<1>2. /\ Suffix(e, Len(e) + 1) = <<>>
      /\ \A k \in 1..Len(e) + 1 : Suffix(e, k) \in Seq(Octets)
      /\ \A k \in 1..Len(e) : Suffix(e, k) = e[k] \o Suffix(e, k + 1)
  BY <1>1, SuffixSplits
<1>3. \A k \in 1..Len(e) + 1 : Suffix(e, k) \in Octet
  BY <1>2 DEF Octet
<1>4. ASSUME NEW k \in 1..Len(e) PROVE Suffix(e, k) \o rest = e[k] \o (Suffix(e, k + 1) \o rest)
  <2>1. k + 1 \in 1..Len(e) + 1
    BY <1>1
  <2>2. Suffix(e, k + 1) \in Octet /\ e[k] \in Octet
    BY <1>1, <1>3, <2>1
  <2>3. (e[k] \o Suffix(e, k + 1)) \o rest = e[k] \o (Suffix(e, k + 1) \o rest)
    BY <2>2, Assoc
  <2>4. QED
    BY <1>2, <2>3
<1>5. QED
  BY <1>2, <1>3, <1>4, NoBytes, Joined

LEMMA WitnessUnread ==
  ASSUME NEW t \in BtcTxs
  PROVE  /\ LocktimeOn(t) \in Octet /\ OutputsDone(t) \in Octet
         /\ WitnessOn(t, Len(t.ins) + 1) = LocktimeOn(t)
         /\ \A k \in 1..Len(t.ins) + 1 : WitnessOn(t, k) \in Octet
         /\ \A k \in 1..Len(t.ins) :
               /\ WitnessOn(t, k) = VarInt(Len(t.ins[k].wit)) \o ItemsOn(t, k, 1)
               /\ ItemsOn(t, k, Len(t.ins[k].wit) + 1) = WitnessOn(t, k + 1)
               /\ \A m \in 1..Len(t.ins[k].wit) + 1 : ItemsOn(t, k, m) \in Octet
               /\ \A m \in 1..Len(t.ins[k].wit) :
                     ItemsOn(t, k, m) = VarBuf(t.ins[k].wit[m]) \o ItemsOn(t, k, m + 1)
<1> DEFINE e == WitnessParts(t)
           L == Len(t.ins)
<1>1. e \in Seq(Octet) /\ Len(e) = L /\ L \in Nat /\ \A k \in 1..L : t.ins[k] \in TxInputs
  BY PartsType
<1>2. LocktimeOn(t) \in Octet
  <2>1. t.locktime \in Nat
    BY WordTypes DEF BtcTxs
  <2>2. QED
    BY <2>1, LittleEndianType DEF LocktimeOn, Octet
<1>3. \A k \in 1..L : e[k] = WitnessBytes(t.ins[k])
  <2>1. DOMAIN t.ins = 1..L
    BY PartsType
  <2>2. QED
    BY <2>1 DEF WitnessParts
<1> HIDE DEF e, L
<1>4. /\ \A k \in 1..L + 1 : WitnessOn(t, k) \in Octet
      /\ WitnessOn(t, L + 1) = LocktimeOn(t)
      /\ \A k \in 1..L : WitnessOn(t, k) = e[k] \o WitnessOn(t, k + 1)
  BY <1>1, <1>2, SuffixOn DEF WitnessOn, e
<1>5. OutputsDone(t) \in Octet
  BY <1>1, <1>2, <1>4 DEF OutputsDone
<1>6. ASSUME NEW k \in 1..L
      PROVE  /\ WitnessOn(t, k) = VarInt(Len(t.ins[k].wit)) \o ItemsOn(t, k, 1)
             /\ ItemsOn(t, k, Len(t.ins[k].wit) + 1) = WitnessOn(t, k + 1)
             /\ \A m \in 1..Len(t.ins[k].wit) + 1 : ItemsOn(t, k, m) \in Octet
             /\ \A m \in 1..Len(t.ins[k].wit) :
                   ItemsOn(t, k, m) = VarBuf(t.ins[k].wit[m]) \o ItemsOn(t, k, m + 1)
  <2> DEFINE in == t.ins[k]
             p == ItemParts(in)
             M == Len(in.wit)
             rest == WitnessOn(t, k + 1)
  <2>1. in \in TxInputs
    BY <1>1
  <2> HIDE DEF in
  <2>2. p \in Seq(Octet) /\ Len(p) = M /\ M \in Nat /\ \A m \in 1..M : p[m] = VarBuf(in.wit[m])
    BY <2>1, ItemPartsType, WordTypes
  <2>3. rest \in Octet
    <3>1. k + 1 \in 1..L + 1
      BY <1>1
    <3>2. QED
      BY <1>4, <3>1
  <2>4. WitnessBytes(in) = VarInt(M) \o FlattenSeq(p)
    BY Zenon DEF WitnessBytes, Concat, ItemParts
  <2>5. \A m : ItemsOn(t, k, m) = Suffix(p, m) \o rest
    BY Zenon DEF ItemsOn, in
  <2> HIDE DEF p, M, rest
  <2>6. /\ \A m \in 1..M + 1 : ItemsOn(t, k, m) \in Octet
        /\ ItemsOn(t, k, M + 1) = rest
        /\ \A m \in 1..M : ItemsOn(t, k, m) = p[m] \o ItemsOn(t, k, m + 1)
    <3>1. /\ \A m \in 1..Len(p) + 1 : Suffix(p, m) \o rest \in Octet
          /\ Suffix(p, Len(p) + 1) \o rest = rest
          /\ \A m \in 1..Len(p) : Suffix(p, m) \o rest = p[m] \o (Suffix(p, m + 1) \o rest)
      BY <2>2, <2>3, SuffixOn
    <3>2. Len(p) = M
      BY <2>2
    <3>3. QED
      BY <2>5, <3>1, <3>2, Zenon
  <2>7. FlattenSeq(p) = Suffix(p, 1)
    <3>1. p \in Seq(Seq(Octets))
      BY <2>2 DEF Octet
    <3>2. QED
      BY <3>1, SuffixSplits
  <2>8. WitnessOn(t, k) = VarInt(M) \o ItemsOn(t, k, 1)
    <3>1. WitnessOn(t, k) = (VarInt(M) \o Suffix(p, 1)) \o rest
      BY <1>3, <1>4, <2>4, <2>7 DEF in, rest
    <3>2. VarInt(M) \in Octet /\ Suffix(p, 1) \in Octet
      <4>1. 1 \in 1..Len(p) + 1
        BY <2>2
      <4>2. QED
        BY <2>2, <2>3, <4>1, VarIntType, SuffixOn
    <3>3. (VarInt(M) \o Suffix(p, 1)) \o rest = VarInt(M) \o (Suffix(p, 1) \o rest)
      BY <2>3, <3>2, Assoc
    <3>4. QED
      BY <2>5, <3>1, <3>3
  <2>9. QED
    BY <2>2, <2>6, <2>8 DEF in, M, rest
<1>7. QED
  BY <1>2, <1>4, <1>5, <1>6 DEF L

LEMMA OutputsUnread ==
  ASSUME NEW t \in BtcTxs
  PROVE  /\ OutputCountOn(t) \in Octet
         /\ OutputsOn(t, Len(t.outs) + 1) = OutputsDone(t)
         /\ \A k \in 1..Len(t.outs) + 1 : OutputsOn(t, k) \in Octet
         /\ \A k \in 1..Len(t.outs) :
               OutputsOn(t, k) = LittleEndian(8, t.outs[k].amount) \o OutScriptOn(t, k) /\ OutScriptOn(t, k) \in Octet
<1> DEFINE e == OutputParts(t)
           L == Len(t.outs)
<1>1. e \in Seq(Octet) /\ Len(e) = L /\ L \in Nat /\ \A k \in 1..L : t.outs[k] \in TxOutputs
  BY PartsType
<1>2. OutputsDone(t) \in Octet
  BY WitnessUnread
<1>3. \A k \in 1..L : e[k] = OutputBytes(t.outs[k])
  <2>1. DOMAIN t.outs = 1..L
    BY PartsType
  <2>2. QED
    BY <2>1 DEF OutputParts
<1> HIDE DEF e, L
<1>4. /\ \A k \in 1..L + 1 : OutputsOn(t, k) \in Octet
      /\ OutputsOn(t, L + 1) = OutputsDone(t)
      /\ \A k \in 1..L : OutputsOn(t, k) = e[k] \o OutputsOn(t, k + 1)
  BY <1>1, <1>2, SuffixOn DEF OutputsOn, e
<1>5. OutputCountOn(t) \in Octet
  <2>1. 1 \in 1..L + 1
    BY <1>1
  <2>2. QED
    BY <1>1, <1>4, <2>1, VarIntType, Joined DEF OutputCountOn, L
<1>6. ASSUME NEW k \in 1..L
      PROVE  OutputsOn(t, k) = LittleEndian(8, t.outs[k].amount) \o OutScriptOn(t, k) /\ OutScriptOn(t, k) \in Octet
  <2> DEFINE a == LittleEndian(8, t.outs[k].amount)
             b == VarBuf(t.outs[k].script)
             c == OutputsOn(t, k + 1)
  <2>1. t.outs[k].amount \in Nat /\ t.outs[k].script \in Octet
    BY <1>1, WordTypes DEF TxOutputs, Buffers, Slices, Octet
  <2>2. a \in Octet /\ b \in Octet
    BY <2>1, LittleEndianType, VarBufType DEF Octet
  <2>3. c \in Octet
    <3>1. k + 1 \in 1..L + 1
      BY <1>1
    <3>2. QED
      BY <1>4, <3>1
  <2>4. OutputsOn(t, k) = (a \o b) \o c
    BY <1>3, <1>4 DEF OutputBytes
  <2>5. OutScriptOn(t, k) = b \o c
    BY DEF OutScriptOn
  <2> HIDE DEF a, b, c
  <2>6. (a \o b) \o c = a \o (b \o c) /\ b \o c \in Octet
    BY <2>2, <2>3, Assoc
  <2>7. QED
    BY <2>4, <2>5, <2>6 DEF a
<1>7. QED
  BY <1>4, <1>5, <1>6 DEF L

LEMMA InputsUnread ==
  ASSUME NEW t \in BtcTxs
  PROVE  /\ InputsOn(t, Len(t.ins) + 1) = OutputCountOn(t)
         /\ \A k \in 1..Len(t.ins) + 1 : InputsOn(t, k) \in Octet
         /\ \A k \in 1..Len(t.ins) :
               /\ InputsOn(t, k) = Reverse(t.ins[k].txid) \o VoutOn(t, k)
               /\ VoutOn(t, k) \in Octet /\ ScriptOn(t, k) \in Octet /\ SequenceOn(t, k) \in Octet
<1> DEFINE e == InputParts(t)
           L == Len(t.ins)
<1>1. e \in Seq(Octet) /\ Len(e) = L /\ L \in Nat /\ \A k \in 1..L : t.ins[k] \in TxInputs
  BY PartsType
<1>2. OutputCountOn(t) \in Octet
  BY OutputsUnread
<1>3. \A k \in 1..L : e[k] = InputBytes(t.ins[k])
  <2>1. DOMAIN t.ins = 1..L
    BY PartsType
  <2>2. QED
    BY <2>1 DEF InputParts
<1> HIDE DEF e, L
<1>4. /\ \A k \in 1..L + 1 : InputsOn(t, k) \in Octet
      /\ InputsOn(t, L + 1) = OutputCountOn(t)
      /\ \A k \in 1..L : InputsOn(t, k) = e[k] \o InputsOn(t, k + 1)
  BY <1>1, <1>2, SuffixOn DEF InputsOn, e
<1>5. ASSUME NEW k \in 1..L
      PROVE  /\ InputsOn(t, k) = Reverse(t.ins[k].txid) \o VoutOn(t, k)
             /\ VoutOn(t, k) \in Octet /\ ScriptOn(t, k) \in Octet /\ SequenceOn(t, k) \in Octet
  <2> DEFINE in == t.ins[k]
             a == Reverse(in.txid)
             b == LittleEndian(4, in.vout)
             c == VarBuf(in.script)
             d == LittleEndian(4, in.sequence)
             f == InputsOn(t, k + 1)
  <2>1. in \in TxInputs
    BY <1>1
  <2>2. in.txid \in Octet /\ in.vout \in Nat /\ in.script \in Octet /\ in.sequence \in Nat
    BY <2>1, WordTypes DEF TxInputs, Buffers, Slices, Octet
  <2> HIDE DEF in
  <2>3. a \in Octet
    BY <2>2 DEF Reverse, Octet
  <2>4. b \in Octet /\ d \in Octet
    BY <2>2, LittleEndianType DEF Octet
  <2>5. c \in Octet
    BY <2>2, VarBufType
  <2>6. f \in Octet
    <3>1. k + 1 \in 1..L + 1
      BY <1>1
    <3>2. QED
      BY <1>4, <3>1
  <2>7. InputsOn(t, k) = (((a \o b) \o c) \o d) \o f
    BY <1>3, <1>4, Zenon DEF InputBytes, in
  <2>8. SequenceOn(t, k) = d \o f /\ ScriptOn(t, k) = c \o SequenceOn(t, k) /\ VoutOn(t, k) = b \o ScriptOn(t, k)
    BY Zenon DEF SequenceOn, ScriptOn, VoutOn, in
  <2> HIDE DEF a, b, c, d, f
  <2>9. SequenceOn(t, k) \in Octet /\ ScriptOn(t, k) \in Octet /\ VoutOn(t, k) \in Octet
    BY <2>4, <2>5, <2>6, <2>8, Joined
  <2> DEFINE x == a \o b
             y == x \o c
  <2>10. x \in Octet
    BY <2>3, <2>4, Joined
  <2> HIDE DEF x
  <2>11. y \in Octet
    BY <2>5, <2>10, Joined
  <2>12. InputsOn(t, k) = (y \o d) \o f
    BY <2>7, Zenon DEF x
  <2>13. x \o ScriptOn(t, k) = a \o VoutOn(t, k)
    <3>1. (a \o b) \o ScriptOn(t, k) = a \o (b \o ScriptOn(t, k))
      <4>1. a \in Octet /\ b \in Octet /\ ScriptOn(t, k) \in Octet
        BY <2>3, <2>4, <2>9
      <4>2. QED
        BY <4>1, Assoc, Zenon
    <3>2. QED
      BY <2>8, <3>1, Zenon DEF x
  <2>14. y \o SequenceOn(t, k) = x \o ScriptOn(t, k)
    <3>1. (x \o c) \o SequenceOn(t, k) = x \o (c \o SequenceOn(t, k))
      <4>1. x \in Octet /\ c \in Octet /\ SequenceOn(t, k) \in Octet
        BY <2>5, <2>9, <2>10
      <4>2. QED
        BY <4>1, Assoc, Zenon
    <3>2. QED
      BY <2>8, <3>1, Zenon
  <2> HIDE DEF y
  <2>15. (y \o d) \o f = y \o SequenceOn(t, k)
    <3>1. (y \o d) \o f = y \o (d \o f)
      BY <2>4, <2>6, <2>11, Assoc, Zenon
    <3>2. QED
      BY <2>8, <3>1, Zenon
  <2>16. QED
    BY <2>9, <2>12, <2>13, <2>14, <2>15, Zenon DEF a, in
<1>6. QED
  BY <1>4, <1>5 DEF L

LEMMA NoCount == VarInt(0) = <<0>>
<1>1. 0 \in Octets /\ 0 \in Nat /\ 0 <= Byte - 4
  BY Radix DEF Octets
<1>2. QED
  BY <1>1, VarIntForms, OneByte

\* At the start everything is left.
LEMMA BytesUnread ==
  ASSUME NEW t \in BtcTxs
  PROVE  /\ Bytes(t) = VersionOn(t)
         /\ VersionOn(t) \in Octet /\ MarkerOn(t) \in Octet /\ FlagOn(t) \in Octet /\ InputCountOn(t) \in Octet
<1> DEFINE mark == IF HasWitness(t) THEN <<0, 1>> ELSE <<>>
           end  == IF HasWitness(t) THEN FlattenSeq(WitnessParts(t)) ELSE <<>>
           lv == LittleEndian(4, t.version)
           vi == VarInt(Len(t.ins))
           fi == FlattenSeq(InputParts(t))
           vo == VarInt(Len(t.outs))
           fo == FlattenSeq(OutputParts(t))
           lt == LocktimeOn(t)
<1>1. Bytes(t) = ((((((lv \o mark) \o vi) \o fi) \o vo) \o fo) \o end) \o lt
  BY Zenon DEF Bytes, exportBytes, Concat, InputParts, OutputParts, WitnessParts, LocktimeOn
<1>2. /\ fi = Suffix(InputParts(t), 1) /\ fo = Suffix(OutputParts(t), 1)
      /\ FlattenSeq(WitnessParts(t)) = Suffix(WitnessParts(t), 1)
      /\ fi \in Octet /\ fo \in Octet /\ FlattenSeq(WitnessParts(t)) \in Octet
  <2>1. \A e \in Seq(Octet) : FlattenSeq(e) = Suffix(e, 1) /\ FlattenSeq(e) \in Octet
    BY SuffixSplits, FlattenType DEF Octet
  <2>2. QED
    BY <2>1, PartsType
<1>3. t.version \in Nat /\ t.locktime \in Nat /\ Len(t.ins) \in Nat /\ Len(t.outs) \in Nat
  BY PartsType, WordTypes DEF BtcTxs
<1>4. lv \in Octet /\ vi \in Octet /\ vo \in Octet /\ lt \in Octet
  BY <1>3, LittleEndianType, VarIntType, WitnessUnread DEF Octet
<1>5. mark \in Octet /\ end \in Octet
  <2>1. <<>> \in Octet /\ <<0, 1>> \in Octet
    BY Radix DEF Octet, Octets
  <2>2. QED
    BY <1>2, <2>1
<1>6. OutputsDone(t) \in Octet /\ OutputsOn(t, 1) \in Octet /\ OutputCountOn(t) \in Octet /\ InputsOn(t, 1) \in Octet
  <2>1. 1 \in 1..Len(t.ins) + 1 /\ 1 \in 1..Len(t.outs) + 1
    BY <1>3
  <2>2. QED
    BY <2>1, WitnessUnread, OutputsUnread, InputsUnread
<1>7. end \o lt = OutputsDone(t)
  <2>1. CASE HasWitness(t)
    <3>1. OutputsDone(t) = Suffix(WitnessParts(t), 1) \o LocktimeOn(t)
      BY <2>1, Zenon DEF OutputsDone, WitnessOn
    <3>2. QED
      BY <1>2, <2>1, <3>1, Zenon
  <2>2. CASE ~ HasWitness(t)
    <3>1. <<>> \o lt = lt
      BY <1>4, NoBytes, Zenon
    <3>2. QED
      BY <2>2, <3>1, Zenon DEF OutputsDone
  <2>3. QED
    BY <2>1, <2>2, Zenon
<1>8. InputCountOn(t) = vi \o InputsOn(t, 1) /\ InputCountOn(t) \in Octet
  BY <1>4, <1>6, Joined DEF InputCountOn
<1>9. FlagOn(t) = <<1>> \o InputCountOn(t) /\ FlagOn(t) \in Octet
  <2>1. <<1>> \in Octet
    BY Radix DEF Octet, Octets
  <2>2. QED
    BY <1>8, <2>1, Joined DEF FlagOn
<1>10. mark \o InputCountOn(t) = MarkerOn(t) /\ MarkerOn(t) \in Octet
  <2>1. CASE HasWitness(t)
    <3>1. <<0>> \in Octet /\ <<1>> \in Octet /\ <<0, 1>> = <<0>> \o <<1>>
      BY Radix DEF Octet, Octets
    <3>2. (<<0>> \o <<1>>) \o InputCountOn(t) = <<0>> \o (<<1>> \o InputCountOn(t))
      BY <1>8, <3>1, Assoc, Zenon
    <3>3. MarkerOn(t) = <<0>> \o FlagOn(t)
      BY <2>1, NoCount, Zenon DEF MarkerOn
    <3>4. MarkerOn(t) \in Octet
      BY <1>9, <3>1, <3>3, Joined
    <3>5. QED
      BY <1>9, <2>1, <3>1, <3>2, <3>3, <3>4, Zenon
  <2>2. CASE ~ HasWitness(t)
    <3>1. <<>> \o InputCountOn(t) = InputCountOn(t)
      BY <1>8, NoBytes, Zenon
    <3>2. QED
      BY <1>8, <2>2, <3>1, Zenon DEF MarkerOn
  <2>3. QED
    BY <2>1, <2>2, Zenon
<1>11. VersionOn(t) = lv \o MarkerOn(t) /\ VersionOn(t) \in Octet
  BY <1>4, <1>10, Joined DEF VersionOn
<1>12. /\ OutputsOn(t, 1) = fo \o OutputsDone(t) /\ OutputCountOn(t) = vo \o OutputsOn(t, 1)
       /\ InputsOn(t, 1) = fi \o OutputCountOn(t)
  BY <1>2, Zenon DEF OutputsOn, OutputCountOn, InputsOn
<1> DEFINE ic == InputCountOn(t)
           io == InputsOn(t, 1)
           oc == OutputCountOn(t)
           oo == OutputsOn(t, 1)
           od == OutputsDone(t)
<1>0. /\ ic \in Octet /\ io \in Octet /\ oc \in Octet /\ oo \in Octet /\ od \in Octet
      /\ end \o lt = od /\ mark \o ic = MarkerOn(t) /\ fi \in Octet /\ fo \in Octet
      /\ ic = vi \o io /\ oo = fo \o od /\ oc = vo \o oo /\ io = fi \o oc
  BY <1>2, <1>6, <1>7, <1>8, <1>10, <1>12, Zenon
<1> HIDE DEF ic, io, oc, oo, od, mark, end, lv, vi, fi, vo, fo, lt
<1> DEFINE p1 == lv \o mark
           p2 == p1 \o vi
           p3 == p2 \o fi
           p4 == p3 \o vo
           p5 == p4 \o fo
<1>13. p1 \in Octet
  BY <1>4, <1>5, Joined
<1>14. p1 \o ic = VersionOn(t)
  <2>1. lv \in Octet /\ mark \in Octet /\ ic \in Octet
    BY <1>4, <1>5, <1>0
  <2>2. (lv \o mark) \o ic = lv \o (mark \o ic)
    BY <2>1, Assoc, Zenon
  <2>3. QED
    BY <1>0, <1>11, <2>2, Zenon
<1> HIDE DEF p1
<1>15. p2 \in Octet
  BY <1>4, <1>13, Joined
<1>16. p2 \o io = p1 \o ic
  <2>1. p1 \in Octet /\ vi \in Octet /\ io \in Octet
    BY <1>4, <1>0, <1>13
  <2>2. (p1 \o vi) \o io = p1 \o (vi \o io)
    BY <2>1, Assoc, Zenon
  <2>3. QED
    BY <1>0, <2>2, Zenon
<1> HIDE DEF p2
<1>17. p3 \in Octet
  BY <1>0, <1>15, Joined 
<1>18. p3 \o oc = p2 \o io
  <2>1. p2 \in Octet /\ fi \in Octet /\ oc \in Octet
    BY <1>0, <1>15
  <2>2. (p2 \o fi) \o oc = p2 \o (fi \o oc)
    BY <2>1, Assoc, Zenon
  <2>3. QED
    BY <1>0, <2>2, Zenon
<1> HIDE DEF p3
<1>19. p4 \in Octet
  BY <1>4, <1>17, Joined
<1>20. p4 \o oo = p3 \o oc
  <2>1. p3 \in Octet /\ vo \in Octet /\ oo \in Octet
    BY <1>4, <1>0, <1>17
  <2>2. (p3 \o vo) \o oo = p3 \o (vo \o oo)
    BY <2>1, Assoc, Zenon
  <2>3. QED
    BY <1>0, <2>2, Zenon
<1> HIDE DEF p4
<1>21. p5 \in Octet
  BY <1>0, <1>19, Joined 
<1>22. p5 \o od = p4 \o oo
  <2>1. p4 \in Octet /\ fo \in Octet /\ od \in Octet
    BY <1>0, <1>19
  <2>2. (p4 \o fo) \o od = p4 \o (fo \o od)
    BY <2>1, Assoc, Zenon
  <2>3. QED
    BY <1>0, <2>2, Zenon
<1>23. Bytes(t) = (p5 \o end) \o lt
  BY <1>1, Zenon DEF p1, p2, p3, p4
<1> HIDE DEF p5
<1>24. (p5 \o end) \o lt = p5 \o od
  <2>1. (p5 \o end) \o lt = p5 \o (end \o lt)
    <3>1. p5 \in Octet /\ end \in Octet /\ lt \in Octet
      BY <1>4, <1>5, <1>21
    <3>2. QED
      BY <3>1, Assoc, Zenon
  <2>2. QED
    BY <1>0, <2>1, Zenon
<1>25. QED
  BY <1>8, <1>9, <1>10, <1>11, <1>14, <1>16, <1>18, <1>20, <1>22, <1>23, <1>24, Zenon

-----------------------------------------------------------------------------
(***************************************************************************)
(* What is read.                                                           *)
(***************************************************************************)
Errors  == {"none", "reader", "limit"}
Helpers == [n : 0..cut, err : Errors]

StreamOK == stream \in Octet /\ cut \in 0..Len(stream)

\* Whatever a read gives, the helper has not gone past the place where the reader failed.
LEMMA ReadFullType ==
  ASSUME StreamOK, NEW r \in Helpers, NEW w \in Nat
  PROVE  /\ readFull(r, w).bytes \in Octet /\ Len(readFull(r, w).bytes) = w
         /\ readFull(r, w).h \in Helpers
<1>1. r.n \in Nat /\ r.n <= cut /\ cut \in Nat /\ cut <= Len(stream) /\ stream \in Seq(Octets) /\ Len(stream) \in Nat
  BY DEF StreamOK, Helpers, Octet
<1>2. \A m \in Nat : Zeros(m) \in Seq(Octets) /\ Len(Zeros(m)) = m
  <2> TAKE m \in Nat
  <2>1. 0 \in Octets
    BY Radix DEF Octets
  <2>2. QED
    BY <2>1 DEF Zeros
<1>3. CASE r.err # "none"
  <2>1. readFull(r, w) = [bytes |-> Zeros(w), h |-> r]
    BY <1>3 DEF readFull
  <2>2. QED
    BY <1>2, <2>1 DEF Octet
<1>4. CASE r.err = "none"
  <2> DEFINE n == IF r.n + w <= cut THEN w ELSE cut - r.n
             part == SubSeq(stream, r.n + 1, r.n + n)
  <2>1. n \in Nat /\ n <= w /\ r.n + n <= cut
    BY <1>1
  <2>2. readFull(r, w) = [bytes |-> part \o Zeros(w - n),
                          h |-> [n |-> r.n + n, err |-> IF n < w THEN "reader" ELSE "none"]]
    BY <1>4, Zenon DEF readFull, Take, Reach
  <2> HIDE DEF n
  <2>3. part \in Seq(Octets) /\ Len(part) = n
    <3>1. \A k \in r.n + 1 .. r.n + n : stream[k] \in Octets
      BY <1>1, <2>1
    <3>2. QED
      BY <1>1, <2>1, <3>1, SubSeqProperties
  <2> HIDE DEF part
  <2>4. w - n \in Nat
    BY <2>1
  <2>5. part \o Zeros(w - n) \in Seq(Octets) /\ Len(part \o Zeros(w - n)) = w
    <3> DEFINE z == Zeros(w - n)
    <3>1. z \in Seq(Octets) /\ Len(z) = w - n
      BY <1>2, <2>4
    <3> HIDE DEF z
    <3>2. part \o z \in Seq(Octets) /\ Len(part \o z) = n + (w - n)
      BY <2>3, <3>1, ConcatProperties
    <3>3. n + (w - n) = w
      BY <2>1
    <3>4. QED
      BY <3>2, <3>3 DEF z
  <2>6. [n |-> r.n + n, err |-> IF n < w THEN "reader" ELSE "none"] \in Helpers
    BY <1>1, <2>1 DEF Helpers, Errors
  <2>7. QED
    BY <2>2, <2>5, <2>6 DEF Octet
<1>5. QED
  BY <1>3, <1>4

LEMMA ReadNumberType ==
  ASSUME StreamOK, NEW r \in Helpers, NEW w \in Nat
  PROVE  /\ w = 4 => readNumber(r, w).value \in Word32
         /\ w = 8 => readNumber(r, w).value \in Word64
         /\ readNumber(r, w).h \in Helpers
<1>1. readFull(r, w).bytes \in Octet /\ Len(readFull(r, w).bytes) = w /\ readFull(r, w).h \in Helpers
  BY ReadFullType
<1>2. readNumber(r, w) = [value |-> Number(readFull(r, w).bytes), h |-> readFull(r, w).h]
  BY Zenon DEF readNumber
<1> DEFINE got == readFull(r, w)
<1>3. got.bytes \in Seq(Octets)
  BY <1>1 DEF Octet
<1> HIDE DEF got
<1>4. /\ Len(got.bytes) = 4 => Number(got.bytes) \in Word32
      /\ Len(got.bytes) = 8 => Number(got.bytes) \in Word64
  BY <1>3, NumberRange
<1>5. readNumber(r, w).value = Number(got.bytes) /\ readNumber(r, w).h = got.h
  BY <1>2 DEF got
<1>6. Len(got.bytes) = w /\ got.h \in Helpers
  BY <1>1 DEF got
<1>7. QED
  BY <1>4, <1>5, <1>6, Zenon

LEMMA ReadVarIntType ==
  ASSUME StreamOK, NEW r \in Helpers
  PROVE  readVarInt(r).value \in Nat /\ readVarInt(r).h \in Helpers
<1> DEFINE w == Behind(r)
           got == readFull(r, 1 + w)
           rest == IF w = 0 THEN got.bytes ELSE Tail(got.bytes)
<1>1. w \in Nat /\ 1 + w \in Nat
  <2>1. \A t : V!Announced(t) \in Nat
    BY DEF V!Announced
  <2>2. w \in Nat
    BY <2>1 DEF Behind
  <2> HIDE DEF w
  <2>3. QED
    BY <2>2
<1>2. got.bytes \in Octet /\ Len(got.bytes) = 1 + w /\ got.h \in Helpers
  <2> HIDE DEF w
  <2>1. QED
    BY <1>1, ReadFullType
<1>3. readVarInt(r) = [value |-> Number(rest), h |-> got.h]
  BY Zenon DEF readVarInt
<1> HIDE DEF got, w
<1>4. rest \in Seq(Octets)
  BY <1>1, <1>2 DEF Octet
<1> HIDE DEF rest
<1>5. QED
  BY <1>2, <1>3, <1>4, NumberType

\* A buffer is allocated for what its length says only if that is within the limit.
LEMMA ReadVarBufType ==
  ASSUME StreamOK, NEW r \in Helpers
  PROVE  readVarBuf(r).bytes \in ShortBuffers /\ readVarBuf(r).h \in Helpers
<1> DEFINE ln == readVarInt(r)
<1>1. ln.value \in Nat /\ ln.h \in Helpers
  BY ReadVarIntType
<1> HIDE DEF ln
<1>2. readVarBuf(r) = IF ln.value = 0 THEN [bytes |-> <<>>, h |-> ln.h]
                      ELSE IF ln.value > MaxBuf THEN [bytes |-> <<>>, h |-> [ln.h EXCEPT !.err = "limit"]]
                      ELSE readFull(ln.h, ln.value)
  BY Zenon DEF readVarBuf, ln
<1>3. MaxBuf \in Nat /\ <<>> \in ShortBuffers
  BY Limits DEF ShortBuffers, Octet
<1>4. [ln.h EXCEPT !.err = "limit"] \in Helpers
  BY <1>1 DEF Helpers, Errors
<1>5. CASE ln.value = 0
  BY <1>1, <1>2, <1>3, <1>5
<1>6. CASE ln.value > MaxBuf
  BY <1>1, <1>2, <1>3, <1>4, <1>6
<1>7. CASE ln.value # 0 /\ ~ (ln.value > MaxBuf)
  <2>1. readVarBuf(r) = readFull(ln.h, ln.value)
    BY <1>2, <1>7, Zenon
  <2>2. Len(readFull(ln.h, ln.value).bytes) <= MaxBuf
    BY <1>1, <1>3, <1>7, ReadFullType
  <2>3. QED
    BY <1>1, <2>1, <2>2, ReadFullType DEF ShortBuffers
<1>8. QED
  BY <1>5, <1>6, <1>7, Zenon

-----------------------------------------------------------------------------
(***************************************************************************)
(* What was written is what is read, or the reader failed before its end.  *)
(***************************************************************************)
\* x is what comes behind the first n bytes.
Comes(n, x) == n + Len(x) <= Len(stream) /\ \A k \in 1..Len(x) : stream[n + k] = x[k]

Got(r, g, x)  == g = [n |-> r.n + Len(x), err |-> "none"]
Fell(r, g, x) == g.err # "none" /\ cut < r.n + Len(x)

LEMMA ComesParts ==
  ASSUME NEW n \in Nat, NEW x \in Octet, NEW y \in Octet, Comes(n, x \o y)
  PROVE  Comes(n, x) /\ Comes(n + Len(x), y) /\ Len(x \o y) = Len(x) + Len(y) /\ Len(x) \in Nat /\ Len(y) \in Nat
<1> DEFINE z == x \o y
<1>1. x \in Seq(Octets) /\ y \in Seq(Octets) /\ Len(x) \in Nat /\ Len(y) \in Nat
  BY DEF Octet
<1>2. /\ Len(z) = Len(x) + Len(y)
      /\ \A k \in 1..Len(x) : z[k] = x[k]
      /\ \A k \in 1..Len(y) : z[Len(x) + k] = y[k]
  BY <1>1
<1>3. n + Len(z) <= Len(stream) /\ \A k \in 1..Len(z) : stream[n + k] = z[k]
  BY DEF Comes
<1> HIDE DEF z
<1>4. n + (Len(x) + Len(y)) <= Len(stream)
  BY <1>2, <1>3
<1>5. Len(stream) \in Int => n + Len(x) <= Len(stream)
  BY <1>1, <1>4
<1>6. \A k \in 1..Len(x) : k \in 1..Len(z)
  BY <1>1, <1>2
<1>7. \A k \in 1..Len(y) : Len(x) + k \in 1..Len(z) /\ n + (Len(x) + k) = (n + Len(x)) + k
  BY <1>1, <1>2
<1>8. \A k \in 1..Len(x) : stream[n + k] = x[k]
  BY <1>2, <1>3, <1>6
<1>9. \A k \in 1..Len(y) : stream[(n + Len(x)) + k] = y[k]
  <2> TAKE k \in 1..Len(y)
  <2>1. stream[n + (Len(x) + k)] = z[Len(x) + k]
    BY <1>3, <1>7
  <2>2. QED
    BY <1>2, <1>7, <2>1
<1>10. QED
  BY <1>1, <1>2, <1>4, <1>5, <1>8, <1>9 DEF Comes, z

LEMMA FullRead ==
  ASSUME StreamOK, NEW r \in Helpers, r.err = "none", NEW x \in Octet, Comes(r.n, x)
  PROVE  LET got == readFull(r, Len(x))
         IN  (got.bytes = x /\ Got(r, got.h, x)) \/ Fell(r, got.h, x)
<1> DEFINE w == Len(x)
           n == IF r.n + w <= cut THEN w ELSE cut - r.n
           part == SubSeq(stream, r.n + 1, r.n + n)
<1>1. r.n \in Nat /\ r.n <= cut /\ cut \in Nat /\ cut <= Len(stream) /\ stream \in Seq(Octets) /\ Len(stream) \in Nat
  BY DEF StreamOK, Helpers, Octet
<1>2. x \in Seq(Octets) /\ w \in Nat /\ r.n + w <= Len(stream) /\ \A k \in 1..w : stream[r.n + k] = x[k]
  BY DEF Comes, Octet
<1>3. readFull(r, w) = [bytes |-> part \o Zeros(w - n),
                        h |-> [n |-> r.n + n, err |-> IF n < w THEN "reader" ELSE "none"]]
  BY Zenon DEF readFull, Take, Reach
<1> HIDE DEF w
<1>4. CASE r.n + w <= cut
  <2>1. n = w /\ ~ (n < w) /\ w - n = 0
    BY <1>2, <1>4
  <2> HIDE DEF n
  <2>2. part = x
    <3>1. part = [k \in 1..w |-> stream[r.n + k]]
      BY <1>1, <1>2, <2>1, SMTT(30)
    <3>2. x = [k \in 1..w |-> x[k]]
      BY <1>2 DEF w
    <3>3. QED
      BY <1>2, <3>1, <3>2
  <2> HIDE DEF part
  <2>3. Zeros(0) = <<>>
    BY DEF Zeros
  <2>4. part \o Zeros(w - n) = x
    BY <2>1, <2>2, <2>3, NoBytes
  <2>5. readFull(r, w).bytes = x /\ readFull(r, w).h = [n |-> r.n + w, err |-> "none"]
    BY <1>3, <2>1, <2>4
  <2>6. QED
    BY <2>5 DEF Got, w
<1>5. CASE ~ (r.n + w <= cut)
  <2>1. n < w /\ cut < r.n + w
    BY <1>1, <1>2, <1>5
  <2> HIDE DEF n, part
  <2>2. readFull(r, w).h.err = "reader"
    BY <1>3, <2>1
  <2>3. QED
    BY <2>1, <2>2 DEF Fell, w
<1>6. QED
  BY <1>4, <1>5, Zenon

LEMMA NumberRead ==
  ASSUME StreamOK, NEW r \in Helpers, r.err = "none",
         NEW w \in Nat, NEW v \in Nat, Fits(w, v), Comes(r.n, LittleEndian(w, v))
  PROVE  LET got == readNumber(r, w)
         IN  (got.value = v /\ Got(r, got.h, LittleEndian(w, v))) \/ Fell(r, got.h, LittleEndian(w, v))
<1> DEFINE x == LittleEndian(w, v)
           got == readFull(r, w)
<1>1. x \in Octet /\ Len(x) = w
  BY LittleEndianType DEF Octet
<1>2. Number(x) = v
  BY NumberReadBack
<1>3. Comes(r.n, x)
  OBVIOUS
<1>4. readNumber(r, w).value = Number(got.bytes) /\ readNumber(r, w).h = got.h
  BY DEF readNumber
<1> HIDE DEF x, got
<1>5. (got.bytes = x /\ Got(r, got.h, x)) \/ Fell(r, got.h, x)
  BY <1>1, <1>3, FullRead DEF got
<1>6. QED
  BY <1>2, <1>4, <1>5 DEF x

LEMMA CountRead ==
  ASSUME StreamOK, NEW r \in Helpers, r.err = "none", NEW v \in Word64, Comes(r.n, VarInt(v))
  PROVE  LET got == readVarInt(r)
         IN  (got.value = v /\ Got(r, got.h, VarInt(v))) \/ Fell(r, got.h, VarInt(v))
<1> DEFINE x == VarInt(v)
           w == V!Announced(x[1])
           b == Behind(r)
           got == readFull(r, 1 + b)
<1>1. /\ x \in Octet /\ w \in Nat /\ Len(x) = 1 + w
      /\ Number(IF w = 0 THEN x ELSE Tail(x)) = v
  BY VarIntShape
<1>2. Comes(r.n, x)
  OBVIOUS
<1> HIDE DEF x
<1>3. r.n \in Nat /\ r.n <= cut /\ cut \in Nat
  BY DEF StreamOK, Helpers
<1>4. stream[r.n + 1] = x[1]
  BY <1>1, <1>2 DEF Comes
<1>5. b = IF r.n < cut THEN w ELSE 0
  BY <1>4, Zenon DEF Behind, Reach
<1>6. readVarInt(r).value = Number(IF b = 0 THEN got.bytes ELSE Tail(got.bytes)) /\ readVarInt(r).h = got.h
  BY DEF readVarInt
<1> HIDE DEF w, b, got
<1>7. CASE r.n < cut
  <2>1. b = w /\ 1 + b = Len(x)
    BY <1>1, <1>5, <1>7
  <2>2. (got.bytes = x /\ Got(r, got.h, x)) \/ Fell(r, got.h, x)
    BY <1>1, <1>2, <2>1, FullRead DEF got
  <2>3. QED
    BY <1>1, <1>6, <2>1, <2>2, Zenon DEF x
<1>8. CASE ~ (r.n < cut)
  <2>1. b = 0 /\ 1 + b = 1
    BY <1>5, <1>8
  <2>2. r.n = cut
    BY <1>3, <1>8
  <2>3. got = Take(r, 1)
    BY <2>1, Zenon DEF got, readFull
  <2>4. ~ (r.n + 1 <= cut) /\ cut - r.n = 0
    BY <1>3, <2>2
  <2>5. Take(r, 1).h = [n |-> r.n + (cut - r.n), err |-> IF cut - r.n < 1 THEN "reader" ELSE "none"]
    BY <2>4 DEF Take, Reach
  <2>6. got.h.err = "reader"
    BY <2>3, <2>4, <2>5
  <2>7. cut < r.n + Len(x)
    BY <1>1, <1>3, <2>2
  <2>8. QED
    BY <1>6, <2>6, <2>7 DEF Fell, x
<1>9. QED
  BY <1>7, <1>8, Zenon

LEMMA BufferRead ==
  ASSUME StreamOK, NEW r \in Helpers, r.err = "none", NEW b \in Buffers, Comes(r.n, VarBuf(b))
  PROVE  LET got == readVarBuf(r)
         IN  \/ got.bytes = b /\ Got(r, got.h, VarBuf(b))
             \/ Fell(r, got.h, VarBuf(b))
             \/ got.h.err # "none" /\ Len(b) > MaxBuf
<1> DEFINE x == VarInt(Len(b))
           ln == readVarInt(r)
<1>1. b \in Octet /\ Len(b) \in Word64 /\ Len(b) \in Nat
  BY WordTypes DEF Buffers, Slices, Octet
<1>2. x \in Octet /\ VarBuf(b) = x \o b
  BY <1>1, VarIntType DEF VarBuf
<1>3. r.n \in Nat /\ MaxBuf \in Nat /\ cut \in Nat
  BY Limits DEF StreamOK, Helpers
<1> HIDE DEF x
<1>4. Comes(r.n, x) /\ Comes(r.n + Len(x), b) /\ Len(VarBuf(b)) = Len(x) + Len(b) /\ Len(x) \in Nat
  BY <1>1, <1>2, <1>3, ComesParts
<1>5. (ln.value = Len(b) /\ Got(r, ln.h, x)) \/ Fell(r, ln.h, x)
  BY <1>1, <1>4, CountRead DEF x
<1>6. ln.h \in Helpers
  BY ReadVarIntType
<1>7. readVarBuf(r) = IF ln.value = 0 THEN [bytes |-> <<>>, h |-> ln.h]
                      ELSE IF ln.value > MaxBuf THEN [bytes |-> <<>>, h |-> [ln.h EXCEPT !.err = "limit"]]
                      ELSE readFull(ln.h, ln.value)
  BY Zenon DEF readVarBuf
<1> HIDE DEF ln
<1>8. CASE Fell(r, ln.h, x)
  <2>1. ln.h.err # "none" /\ cut < r.n + Len(x)
    BY <1>8 DEF Fell
  <2>2. cut < r.n + Len(VarBuf(b))
    BY <1>1, <1>3, <1>4, <2>1
  <2>3. [ln.h EXCEPT !.err = "limit"].err = "limit"
    BY <1>6 DEF Helpers
  <2>4. readFull(ln.h, ln.value).h = ln.h
    BY <2>1 DEF readFull
  <2>5. readVarBuf(r).h.err # "none"
    BY <1>7, <2>1, <2>3, <2>4
  <2>6. QED
    BY <2>2, <2>5 DEF Fell
<1>9. CASE ln.value = Len(b) /\ Got(r, ln.h, x)
  <2>1. ln.h = [n |-> r.n + Len(x), err |-> "none"]
    BY <1>9 DEF Got
  <2>2. CASE Len(b) = 0
    <3>1. readVarBuf(r) = [bytes |-> <<>>, h |-> ln.h] /\ b = <<>>
      <4>1. b \in Seq(Octets)
        BY <1>1 DEF Octet
      <4>2. QED
        BY <1>7, <1>9, <2>2, <4>1
    <3>2. r.n + Len(x) = r.n + Len(VarBuf(b))
      BY <1>4, <2>2
    <3>3. QED
      BY <2>1, <3>1, <3>2 DEF Got
  <2>3. CASE Len(b) > MaxBuf
    <3>1. readVarBuf(r) = [bytes |-> <<>>, h |-> [ln.h EXCEPT !.err = "limit"]]
      BY <1>1, <1>3, <1>7, <1>9, <2>3
    <3>2. readVarBuf(r).h.err # "none"
      BY <1>6, <3>1 DEF Helpers
    <3>3. QED
      BY <2>3, <3>2
  <2>4. CASE Len(b) # 0 /\ ~ (Len(b) > MaxBuf)
    <3>1. readVarBuf(r) = readFull(ln.h, Len(b))
      BY <1>7, <1>9, <2>4, Zenon
    <3>2. ln.h.err = "none" /\ ln.h.n = r.n + Len(x)
      BY <2>1
    <3> DEFINE got == readFull(ln.h, Len(b))
    <3>3. (got.bytes = b /\ Got(ln.h, got.h, b)) \/ Fell(ln.h, got.h, b)
      BY <1>1, <1>4, <1>6, <3>2, FullRead
    <3>4. (r.n + Len(x)) + Len(b) = r.n + Len(VarBuf(b))
      BY <1>1, <1>3, <1>4
    <3> HIDE DEF got
    <3>5. Got(ln.h, got.h, b) => Got(r, got.h, VarBuf(b))
      BY <3>2, <3>4 DEF Got
    <3>6. Fell(ln.h, got.h, b) => Fell(r, got.h, VarBuf(b))
      BY <3>2, <3>4 DEF Fell
    <3>7. QED
      BY <3>1, <3>3, <3>5, <3>6 DEF got
  <2>5. QED
    BY <2>2, <2>3, <2>4, Zenon
<1>10. QED
  BY <1>5, <1>8, <1>9, Zenon

\* An error sticks.
LEMMA ErrorStays ==
  ASSUME StreamOK, NEW r \in Helpers, r.err # "none"
  PROVE  /\ \A w : readFull(r, w).h = r /\ readNumber(r, w).h = r
         /\ readVarInt(r).h = r /\ readVarBuf(r).h.err # "none"
<1>1. \A w : readFull(r, w).h = r
  BY DEF readFull
<1>2. \A w : readNumber(r, w).h = r
  BY <1>1 DEF readNumber
<1>3. readVarInt(r).h = r
  BY <1>1 DEF readVarInt
<1>4. [r EXCEPT !.err = "limit"].err = "limit"
  BY DEF Helpers
<1>5. readVarBuf(r).h.err # "none"
  <2> DEFINE ln == readVarInt(r)
  <2>1. readVarBuf(r) = IF ln.value = 0 THEN [bytes |-> <<>>, h |-> ln.h]
                        ELSE IF ln.value > MaxBuf THEN [bytes |-> <<>>, h |-> [ln.h EXCEPT !.err = "limit"]]
                        ELSE readFull(ln.h, ln.value)
    BY Zenon DEF readVarBuf
  <2> HIDE DEF ln
  <2>2. ln.h = r
    BY <1>3 DEF ln
  <2>3. QED
    BY <1>1, <1>4, <2>1, <2>2
<1>6. QED
  BY <1>1, <1>2, <1>3, <1>5

-----------------------------------------------------------------------------
(***************************************************************************)
(* The inductive invariant: beside the types, the place in the list that   *)
(* is read next is a place of the list that was made for it.               *)
(***************************************************************************)
InputPlaces  == {"input", "vout", "script", "sequence", "witness", "item"}
OutputPlaces == {"output", "outscript"}
OtherPlaces  == {"version", "inputs", "flag", "segwit inputs", "outputs", "locktime", "done"}

Place(t, where, k, m) ==
    /\ where \in InputPlaces \cup OutputPlaces \cup OtherPlaces
    /\ k \in 1..(IF where \in InputPlaces THEN Len(t.ins)
                 ELSE IF where \in OutputPlaces THEN Len(t.outs) ELSE 1)
    /\ m \in 1..(IF where = "item" THEN Len(t.ins[k].wit) ELSE 1)

WireInv ==
    /\ StreamOK /\ h \in Helpers
    /\ tx \in ShortTxs /\ segwit \in BOOLEAN
    /\ Place(tx, pc, i, j)

LEMMA TransactionFacts ==
  ASSUME NEW t \in ShortTxs
  PROVE  /\ t.ins \in Seq(ShortInputs) /\ Len(t.ins) \in Nat /\ Len(t.ins) <= MaxIns
         /\ t.outs \in Seq(ShortOutputs) /\ Len(t.outs) \in Nat /\ Len(t.outs) <= MaxOuts
         /\ \A k \in 1..Len(t.ins) : t.ins[k] \in ShortInputs
         /\ \A k \in 1..Len(t.outs) : t.outs[k] \in ShortOutputs
<1>1. t.ins \in Seq(ShortInputs) /\ Len(t.ins) <= MaxIns /\ t.outs \in Seq(ShortOutputs) /\ Len(t.outs) <= MaxOuts
  BY DEF ShortTxs
<1>2. QED
  BY <1>1

LEMMA ShortWithin ==
  ASSUME NEW t \in ShortTxs
  PROVE  WithinLimits(t)
<1>1. \A k \in DOMAIN t.outs : Len(t.outs[k].script) <= MaxBuf
  <2> TAKE k \in DOMAIN t.outs
  <2>1. t.outs[k] \in ShortOutputs
    BY TransactionFacts
  <2>2. QED
    BY <2>1 DEF ShortOutputs, ShortBuffers
<1>2. \A k \in DOMAIN t.ins : t.ins[k] \in ShortInputs
  BY TransactionFacts
<1>3. ASSUME NEW k \in DOMAIN t.ins
      PROVE  /\ Len(t.ins[k].script) <= MaxBuf /\ Len(t.ins[k].wit) <= MaxItems
             /\ \A w \in DOMAIN t.ins[k].wit : Len(t.ins[k].wit[w]) <= MaxBuf
  <2> DEFINE in == t.ins[k]
  <2>1. in.script \in ShortBuffers /\ in.wit \in Seq(ShortBuffers) /\ Len(in.wit) <= MaxItems
    BY <1>2 DEF ShortInputs, ShortItems
  <2>2. \A w \in DOMAIN in.wit : in.wit[w] \in ShortBuffers
    BY <2>1
  <2> HIDE DEF in
  <2>3. Len(in.script) <= MaxBuf /\ Len(in.wit) <= MaxItems /\ \A w \in DOMAIN in.wit : Len(in.wit[w]) <= MaxBuf
    BY <2>1, <2>2 DEF ShortBuffers
  <2>4. QED
    BY <2>3 DEF in
<1>4. Len(t.ins) <= MaxIns /\ Len(t.outs) <= MaxOuts
  BY TransactionFacts
<1>5. QED
  BY <1>1, <1>3, <1>4, Zenon DEF WithinLimits

LEMMA InvMeansTypes ==
  ASSUME WireInv
  PROVE  TypeOK
<1>1. tx \in ShortTxs /\ h \in Helpers /\ segwit \in BOOLEAN /\ Place(tx, pc, i, j)
  BY DEF WireInv
<1>2. WithinLimits(tx)
  BY <1>1, ShortWithin
<1>3. h.n \in 0..cut /\ h.err \in {"none", "reader", "limit"}
  BY <1>1 DEF Helpers, Errors
<1>4. /\ pc \in {"version", "inputs", "flag", "segwit inputs", "input", "vout", "script",
                 "sequence", "outputs", "output", "outscript", "witness", "item", "locktime", "done"}
      /\ i \in 1..MaxIns + MaxOuts
  <2>1. Len(tx.ins) \in Nat /\ Len(tx.ins) <= MaxIns /\ Len(tx.outs) \in Nat /\ Len(tx.outs) <= MaxOuts
    BY <1>1, TransactionFacts
  <2> DEFINE top == IF pc \in InputPlaces THEN Len(tx.ins)
                    ELSE IF pc \in OutputPlaces THEN Len(tx.outs) ELSE 1
  <2>2. pc \in InputPlaces \cup OutputPlaces \cup OtherPlaces /\ i \in 1..top
    BY <1>1, Zenon DEF Place
  <2>3. top \in Nat /\ top <= MaxIns + MaxOuts
    BY <2>1, Limits
  <2> HIDE DEF top
  <2>4. i \in 1..MaxIns + MaxOuts
    BY <2>2, <2>3, Limits
  <2>5. QED
    BY <2>2, <2>4 DEF InputPlaces, OutputPlaces, OtherPlaces
<1>5. j \in 1..MaxItems
  <2>1. CASE pc = "item"
    <3>1. i \in 1..Len(tx.ins) /\ j \in 1..Len(tx.ins[i].wit)
      BY <1>1, <2>1 DEF Place, InputPlaces
    <3>2. tx.ins[i].wit \in ShortItems
      <4>1. tx.ins[i] \in ShortInputs
        BY <1>1, <3>1, TransactionFacts
      <4>2. QED
        BY <4>1 DEF ShortInputs
    <3>3. QED
      BY <3>1, <3>2, Limits DEF ShortItems
  <2>2. CASE pc # "item"
    BY <1>1, <2>2, Limits DEF Place
  <2>3. QED
    BY <2>1, <2>2
<1>6. QED
  BY <1>1, <1>2, <1>3, <1>4, <1>5 DEF TypeOK

LEMMA EmptyTransaction ==
  /\ NoTx \in ShortTxs /\ NoInput \in ShortInputs /\ NoOutput \in ShortOutputs
  /\ Place(NoTx, "version", 1, 1)
<1>1. Zeros(TxidLen) \in Txids
  BY Radix DEF Zeros, Txids, Octet, Octets
<1>2. <<>> \in ShortBuffers /\ <<>> \in ShortItems
  BY Limits DEF ShortBuffers, ShortItems, Octet
<1>3. NoInput \in ShortInputs /\ NoOutput \in ShortOutputs
  BY <1>1, <1>2, WordTypes DEF NoInput, NoOutput, ShortInputs, ShortOutputs
<1>4. NoTx \in ShortTxs
  BY Limits, WordTypes DEF NoTx, ShortTxs
<1>5. Place(NoTx, "version", 1, 1)
  BY DEF Place, InputPlaces, OutputPlaces, OtherPlaces
<1>6. QED
  BY <1>3, <1>4, <1>5

LEMMA InitInv ==
  ASSUME Init
  PROVE  WireInv
<1>1. PICK s \in Sources : stream = s.bytes /\ cut \in 0..Len(s.bytes)
  BY DEF Init
<1>2. StreamOK
  BY <1>1, WireAssumption DEF StreamOK, Octet, Octets
<1>3. h \in Helpers
  BY <1>1, WireAssumption DEF Init, Helpers, Errors
<1>4. QED
  BY <1>2, <1>3, EmptyTransaction DEF Init, WireInv

-----------------------------------------------------------------------------
(***************************************************************************)
(* Steps.                                                                  *)
(***************************************************************************)
LEMMA InputChanged ==
  ASSUME NEW t \in ShortTxs, NEW k \in 1..Len(t.ins), NEW in \in ShortInputs
  PROVE  LET u == [t EXCEPT !.ins[k] = in]
         IN  u \in ShortTxs /\ Len(u.ins) = Len(t.ins) /\ u.ins[k] = in
<1> DEFINE s == [t.ins EXCEPT ![k] = in]
<1>1. s \in Seq(ShortInputs) /\ Len(s) = Len(t.ins) /\ s[k] = in
  BY TransactionFacts, ExceptSeq
<1>2. Len(s) <= MaxIns
  BY <1>1, TransactionFacts
<1> HIDE DEF s
<1>3. [t EXCEPT !.ins = s] \in ShortTxs /\ [t EXCEPT !.ins = s].ins = s
  BY <1>1, <1>2 DEF ShortTxs
<1>4. [t EXCEPT !.ins[k] = in] = [t EXCEPT !.ins = s]
  BY DEF s, ShortTxs
<1>5. QED
  BY <1>1, <1>3, <1>4

LEMMA OutputChanged ==
  ASSUME NEW t \in ShortTxs, NEW k \in 1..Len(t.outs), NEW out \in ShortOutputs
  PROVE  LET u == [t EXCEPT !.outs[k] = out]
         IN  u \in ShortTxs /\ Len(u.outs) = Len(t.outs) /\ Len(u.ins) = Len(t.ins) /\ u.ins = t.ins
<1> DEFINE s == [t.outs EXCEPT ![k] = out]
<1>1. s \in Seq(ShortOutputs) /\ Len(s) = Len(t.outs) /\ s[k] = out
  BY TransactionFacts, ExceptSeq
<1>2. Len(s) <= MaxOuts
  BY <1>1, TransactionFacts
<1> HIDE DEF s
<1>3. [t EXCEPT !.outs = s] \in ShortTxs /\ [t EXCEPT !.outs = s].outs = s /\ [t EXCEPT !.outs = s].ins = t.ins
  BY <1>1, <1>2 DEF ShortTxs
<1>4. [t EXCEPT !.outs[k] = out] = [t EXCEPT !.outs = s]
  BY DEF s, ShortTxs
<1>5. QED
  BY <1>1, <1>3, <1>4

\* A list of as many zero values as a count within the limit says.
LEMMA MadeLists ==
  ASSUME NEW n \in Nat
  PROVE  /\ Repeat(NoInput, n) \in Seq(ShortInputs) /\ Len(Repeat(NoInput, n)) = n
         /\ Repeat(NoOutput, n) \in Seq(ShortOutputs) /\ Len(Repeat(NoOutput, n)) = n
         /\ Repeat(<<>>, n) \in Seq(ShortBuffers) /\ Len(Repeat(<<>>, n)) = n
<1>1. ASSUME NEW S, NEW x \in S
      PROVE  Repeat(x, n) \in Seq(S) /\ Len(Repeat(x, n)) = n
  BY DEF Repeat
<1>2. <<>> \in ShortBuffers
  BY Limits DEF ShortBuffers, Octet
<1>3. QED
  BY <1>1, <1>2, EmptyTransaction

\* Where the loops go on from, whatever was read.
LEMMA LoopPlaces ==
  ASSUME NEW t \in ShortTxs
  PROVE  /\ \A p \in OtherPlaces : Place(t, p, 1, 1)
         /\ \A k \in 1..Len(t.ins) : \A p \in InputPlaces \ {"item"} : Place(t, p, k, 1)
         /\ \A k \in 1..Len(t.outs) : \A p \in OutputPlaces : Place(t, p, k, 1)
         /\ \A k \in 1..Len(t.ins) : \A m \in 1..Len(t.ins[k].wit) : Place(t, "item", k, m)
<1>1. \A p \in OtherPlaces : p \notin InputPlaces /\ p \notin OutputPlaces /\ p # "item"
  BY DEF InputPlaces, OutputPlaces, OtherPlaces
<1>2. \A p \in OutputPlaces : p \notin InputPlaces /\ p # "item"
  BY DEF InputPlaces, OutputPlaces
<1>3. "item" \in InputPlaces
  BY DEF InputPlaces
<1>4. 1 \in 1..1
  OBVIOUS
<1>5. QED
  BY <1>1, <1>2, <1>3, <1>4 DEF Place

LEMMA LoopsEntered ==
  ASSUME tx' \in ShortTxs
  PROVE  /\ EnterInputs => Place(tx', pc', i', j')
         /\ AfterOutputs => Place(tx', pc', i', j')
         /\ EnterOutputs => Place(tx', pc', i', j')
<1>1. /\ Len(tx'.ins) \in Nat /\ Len(tx'.outs) \in Nat /\ (tx'.ins # <<>> => Len(tx'.ins) # 0)
  BY TransactionFacts
<1>2. /\ {"outputs", "locktime"} \subseteq OtherPlaces /\ {"input", "witness"} \subseteq InputPlaces \ {"item"}
      /\ "output" \in OutputPlaces
  BY DEF InputPlaces, OutputPlaces, OtherPlaces
<1>3. /\ Place(tx', "outputs", 1, 1) /\ Place(tx', "locktime", 1, 1)
      /\ (Len(tx'.ins) # 0 => Place(tx', "input", 1, 1) /\ Place(tx', "witness", 1, 1))
      /\ (Len(tx'.outs) # 0 => Place(tx', "output", 1, 1))
  BY <1>1, <1>2, LoopPlaces
<1>4. EnterInputs => Place(tx', pc', i', j')
  BY <1>3, Zenon DEF EnterInputs, GoTo
<1>5. AfterOutputs => Place(tx', pc', i', j')
  BY <1>1, <1>3, Zenon DEF AfterOutputs, GoTo
<1>6. EnterOutputs => Place(tx', pc', i', j')
  BY <1>3, <1>5, Zenon DEF EnterOutputs, GoTo
<1>7. QED
  BY <1>4, <1>5, <1>6

\* What the invariant of a step of ReadFrom comes to.
LEMMA StepKeeps ==
  ASSUME WireInv, Same, h' \in Helpers, tx' \in ShortTxs, segwit' \in BOOLEAN,
         Place(tx', pc', i', j')
  PROVE  WireInv'
<1>1. StreamOK' /\ h' \in Helpers'
  BY DEF WireInv, Same, StreamOK, Helpers
<1>2. QED
  BY <1>1 DEF WireInv

LEMMA TypesOf ==
  ASSUME WireInv
  PROVE  StreamOK /\ h \in Helpers /\ tx \in ShortTxs /\ segwit \in BOOLEAN /\ Place(tx, pc, i, j)
  BY DEF WireInv

LEMMA GoesOn ==
  ASSUME NEW p, NEW k, GoTo(p, k), Place(tx', p, k, 1)
  PROVE  Place(tx', pc', i', j')
  BY Zenon DEF GoTo

LEMMA RefusedIsTyped ==
  ASSUME WireInv, NEW r \in Helpers, TooMany(r)
  PROVE  h' \in Helpers /\ tx' \in ShortTxs /\ Place(tx', pc', i', j')
<1>1. [r EXCEPT !.err = "limit"] \in Helpers
  BY DEF Helpers, Errors
<1>2. "done" \in OtherPlaces
  BY DEF OtherPlaces
<1>3. GoTo("done", 1) /\ tx' = tx /\ h' = [r EXCEPT !.err = "limit"]
  BY DEF TooMany
<1>4. Place(tx', "done", 1, 1)
  BY <1>2, <1>3, TypesOf, LoopPlaces
<1>5. QED
  BY <1>1, <1>3, <1>4, TypesOf, GoesOn

LEMMA MadeInputs ==
  ASSUME WireInv, NEW cnt, cnt.value \in Nat, cnt.h \in Helpers, MakeInputs(cnt)
  PROVE  h' \in Helpers /\ tx' \in ShortTxs /\ Place(tx', pc', i', j')
<1>1. CASE cnt.value > MaxIns
  BY <1>1, RefusedIsTyped DEF MakeInputs
<1>2. CASE ~ (cnt.value > MaxIns)
  <2>1. tx' = [tx EXCEPT !.ins = Repeat(NoInput, cnt.value)] /\ h' = cnt.h /\ EnterInputs
    BY <1>2, Zenon DEF MakeInputs
  <2>2. Repeat(NoInput, cnt.value) \in { s \in Seq(ShortInputs) : Len(s) <= MaxIns }
    <3>1. Repeat(NoInput, cnt.value) \in Seq(ShortInputs) /\ Len(Repeat(NoInput, cnt.value)) = cnt.value
      BY MadeLists, Zenon
    <3>2. cnt.value <= MaxIns
      BY <1>2, Limits
    <3>3. QED
      BY <3>1, <3>2
  <2>3. tx' \in ShortTxs
    BY <2>1, <2>2, TypesOf DEF ShortTxs
  <2>4. QED
    BY <2>1, <2>3, LoopsEntered
<1>3. QED
  BY <1>1, <1>2, Zenon

LEMMA VersionStep ==
  ASSUME WireInv, ReadVersion
  PROVE  WireInv'
<1> DEFINE v == readNumber(h, 4)
<1>1. v.value \in Word32 /\ v.h \in Helpers
  BY TypesOf, ReadNumberType
<1> HIDE DEF v
<1>2. tx' = [tx EXCEPT !.version = v.value] /\ h' = v.h /\ GoTo("inputs", 1) /\ segwit' = segwit /\ Same
  BY Zenon DEF ReadVersion, v
<1>3. tx' \in ShortTxs
  BY <1>1, <1>2, TypesOf DEF ShortTxs
<1>4. Place(tx', "inputs", 1, 1)
  BY <1>3, LoopPlaces DEF OtherPlaces
<1>5. QED
  BY <1>1, <1>2, <1>3, <1>4, TypesOf, GoesOn, StepKeeps

LEMMA InputCountStep ==
  ASSUME WireInv, ReadInputCount
  PROVE  WireInv'
<1> DEFINE cnt == readVarInt(h)
<1>1. cnt.value \in Nat /\ cnt.h \in Helpers
  BY TypesOf, ReadVarIntType
<1> HIDE DEF cnt
<1>2. /\ IF cnt.value = 0 THEN h' = cnt.h /\ GoTo("flag", 1) /\ tx' = tx ELSE MakeInputs(cnt)
      /\ segwit' = (pc' = "flag") /\ Same
  BY Zenon DEF ReadInputCount, cnt
<1>3. h' \in Helpers /\ tx' \in ShortTxs /\ Place(tx', pc', i', j')
  <2>1. CASE cnt.value = 0
    <3>1. h' = cnt.h /\ GoTo("flag", 1) /\ tx' = tx
      BY <1>2, <2>1, Zenon
    <3>2. Place(tx', "flag", 1, 1)
      BY <3>1, TypesOf, LoopPlaces DEF OtherPlaces
    <3>3. QED
      BY <1>1, <3>1, <3>2, TypesOf, GoesOn
  <2>2. CASE cnt.value # 0
    <3>1. MakeInputs(cnt)
      BY <1>2, <2>2, Zenon
    <3>2. QED
      BY <1>1, <3>1, MadeInputs, Zenon
  <2>3. QED
    BY <2>1, <2>2, Zenon
<1>4. segwit' \in BOOLEAN
  BY <1>2, Zenon
<1>5. QED
  BY <1>2, <1>3, <1>4, StepKeeps

LEMMA FlagStep ==
  ASSUME WireInv, ReadFlag
  PROVE  WireInv'
<1>1. h' \in Helpers
  BY TypesOf, ReadFullType DEF ReadFlag
<1>2. tx' = tx /\ segwit' = segwit /\ GoTo("segwit inputs", 1) /\ Same
  BY Zenon DEF ReadFlag
<1>3. Place(tx', "segwit inputs", 1, 1)
  BY <1>2, TypesOf, LoopPlaces DEF OtherPlaces
<1>4. QED
  BY <1>1, <1>2, <1>3, TypesOf, GoesOn, StepKeeps

LEMMA InputCountAgainStep ==
  ASSUME WireInv, ReadInputCountAgain
  PROVE  WireInv'
<1> DEFINE cnt == readVarInt(h)
<1>1. cnt.value \in Nat /\ cnt.h \in Helpers
  BY TypesOf, ReadVarIntType
<1> HIDE DEF cnt
<1>2. MakeInputs(cnt) /\ segwit' = segwit /\ Same
  BY Zenon DEF ReadInputCountAgain, cnt
<1>3. h' \in Helpers /\ tx' \in ShortTxs /\ Place(tx', pc', i', j')
  BY <1>1, <1>2, MadeInputs, Zenon
<1>4. QED
  BY <1>2, <1>3, TypesOf, StepKeeps

\* The input and the output that is read next are there.
LEMMA AtPlace ==
  ASSUME WireInv
  PROVE  /\ pc \in InputPlaces => /\ i \in 1..Len(tx.ins) /\ tx.ins[i] \in ShortInputs
                                  /\ (pc = "item" => j \in 1..Len(tx.ins[i].wit))
         /\ pc \in OutputPlaces => i \in 1..Len(tx.outs) /\ tx.outs[i] \in ShortOutputs
<1>1. Place(tx, pc, i, j) /\ tx \in ShortTxs
  BY TypesOf
<1>2. pc \in InputPlaces => i \in 1..Len(tx.ins)
  BY <1>1, Zenon DEF Place
<1>3. pc \in OutputPlaces => i \in 1..Len(tx.outs)
  <2>1. pc \in OutputPlaces => pc \notin InputPlaces
    BY DEF InputPlaces, OutputPlaces
  <2>2. QED
    BY <1>1, <2>1, Zenon DEF Place
<1>4. pc = "item" => j \in 1..Len(tx.ins[i].wit)
  BY <1>1, Zenon DEF Place
<1>5. QED
  BY <1>1, <1>2, <1>3, <1>4, TransactionFacts

\* A field of the input at hand is replaced.
LEMMA FieldChanged ==
  ASSUME NEW t \in ShortTxs, NEW k \in 1..Len(t.ins), NEW x \in Txids, NEW n \in Word32,
         NEW b \in ShortBuffers, NEW items \in ShortItems
  PROVE  /\ [t EXCEPT !.ins[k].txid = x] = [t EXCEPT !.ins[k] = [t.ins[k] EXCEPT !.txid = x]]
         /\ [t EXCEPT !.ins[k].vout = n] = [t EXCEPT !.ins[k] = [t.ins[k] EXCEPT !.vout = n]]
         /\ [t EXCEPT !.ins[k].script = b] = [t EXCEPT !.ins[k] = [t.ins[k] EXCEPT !.script = b]]
         /\ [t EXCEPT !.ins[k].sequence = n] = [t EXCEPT !.ins[k] = [t.ins[k] EXCEPT !.sequence = n]]
         /\ [t EXCEPT !.ins[k].wit = items] = [t EXCEPT !.ins[k] = [t.ins[k] EXCEPT !.wit = items]]
         /\ [t.ins[k] EXCEPT !.txid = x] \in ShortInputs /\ [t.ins[k] EXCEPT !.vout = n] \in ShortInputs
         /\ [t.ins[k] EXCEPT !.script = b] \in ShortInputs /\ [t.ins[k] EXCEPT !.sequence = n] \in ShortInputs
         /\ [t.ins[k] EXCEPT !.wit = items] \in ShortInputs /\ [t.ins[k] EXCEPT !.wit = items].wit = items
<1>1. t.ins[k] \in ShortInputs
  BY TransactionFacts
<1>2. QED
  BY <1>1 DEF ShortTxs, ShortInputs

LEMMA NextInputPlace ==
  ASSUME WireInv, pc \in InputPlaces, tx' \in ShortTxs, Len(tx'.ins) = Len(tx.ins)
  PROVE  /\ AfterInput => Place(tx', pc', i', j')
         /\ AfterWitness => Place(tx', pc', i', j')
<1>1. i \in 1..Len(tx.ins) /\ Len(tx.ins) \in Nat
  BY AtPlace, TypesOf, TransactionFacts
<1>2. i < Len(tx.ins) => i + 1 \in 1..Len(tx'.ins)
  BY <1>1
<1>3. /\ i < Len(tx.ins) => Place(tx', "input", i + 1, 1) /\ Place(tx', "witness", i + 1, 1)
      /\ Place(tx', "outputs", 1, 1) /\ Place(tx', "locktime", 1, 1)
  BY <1>2, LoopPlaces DEF InputPlaces, OtherPlaces
<1>4. AfterInput => Place(tx', pc', i', j')
  BY <1>3, Zenon DEF AfterInput, GoTo
<1>5. AfterWitness => Place(tx', pc', i', j')
  BY <1>3, Zenon DEF AfterWitness, GoTo
<1>6. QED
  BY <1>4, <1>5

LEMMA TxidStep ==
  ASSUME WireInv, ReadTxid
  PROVE  WireInv'
<1> DEFINE r == readFull(h, TxidLen)
           in == [tx.ins[i] EXCEPT !.txid = Reverse(r.bytes)]
<1>1. r.bytes \in Octet /\ Len(r.bytes) = TxidLen /\ r.h \in Helpers
  BY TypesOf, ReadFullType, Radix
<1> HIDE DEF r
<1>2. pc = "input" /\ tx' = [tx EXCEPT !.ins[i].txid = Reverse(r.bytes)] /\ h' = r.h
      /\ GoTo("vout", i) /\ segwit' = segwit /\ Same
  BY Zenon DEF ReadTxid, r
<1>3. Reverse(r.bytes) \in Txids
  BY <1>1, Radix DEF Reverse, Txids, Octet
<1>4. i \in 1..Len(tx.ins)
  BY <1>2, AtPlace DEF InputPlaces
<1>5. in \in ShortInputs /\ tx' = [tx EXCEPT !.ins[i] = in]
  BY <1>2, <1>3, <1>4, TypesOf, FieldChanged, EmptyTransaction DEF ShortInputs
<1> HIDE DEF in
<1>6. tx' \in ShortTxs /\ Len(tx'.ins) = Len(tx.ins)
  BY <1>4, <1>5, TypesOf, InputChanged
<1>7. Place(tx', "vout", i, 1)
  BY <1>4, <1>6, LoopPlaces DEF InputPlaces
<1>8. QED
  BY <1>1, <1>2, <1>6, <1>7, TypesOf, GoesOn, StepKeeps

LEMMA VoutStep ==
  ASSUME WireInv, ReadVout
  PROVE  WireInv'
<1> DEFINE r == readNumber(h, 4)
           in == [tx.ins[i] EXCEPT !.vout = r.value]
<1>1. r.value \in Word32 /\ r.h \in Helpers
  BY TypesOf, ReadNumberType
<1> HIDE DEF r
<1>2. pc = "vout" /\ tx' = [tx EXCEPT !.ins[i].vout = r.value] /\ h' = r.h
      /\ GoTo("script", i) /\ segwit' = segwit /\ Same
  BY Zenon DEF ReadVout, r
<1>3. i \in 1..Len(tx.ins)
  BY <1>2, AtPlace DEF InputPlaces
<1>4. in \in ShortInputs /\ tx' = [tx EXCEPT !.ins[i] = in]
  BY <1>1, <1>2, <1>3, TypesOf, FieldChanged, EmptyTransaction DEF ShortInputs
<1> HIDE DEF in
<1>5. tx' \in ShortTxs /\ Len(tx'.ins) = Len(tx.ins)
  BY <1>3, <1>4, TypesOf, InputChanged
<1>6. Place(tx', "script", i, 1)
  BY <1>3, <1>5, LoopPlaces DEF InputPlaces
<1>7. QED
  BY <1>1, <1>2, <1>5, <1>6, TypesOf, GoesOn, StepKeeps

LEMMA ScriptStep ==
  ASSUME WireInv, ReadScript
  PROVE  WireInv'
<1> DEFINE r == readVarBuf(h)
           in == [tx.ins[i] EXCEPT !.script = r.bytes]
<1>1. r.bytes \in ShortBuffers /\ r.h \in Helpers
  BY TypesOf, ReadVarBufType
<1> HIDE DEF r
<1>2. pc = "script" /\ tx' = [tx EXCEPT !.ins[i].script = r.bytes] /\ h' = r.h
      /\ GoTo("sequence", i) /\ segwit' = segwit /\ Same
  BY Zenon DEF ReadScript, r
<1>3. i \in 1..Len(tx.ins)
  BY <1>2, AtPlace DEF InputPlaces
<1>4. in \in ShortInputs /\ tx' = [tx EXCEPT !.ins[i] = in]
  BY <1>1, <1>2, <1>3, TypesOf, FieldChanged, EmptyTransaction DEF ShortInputs
<1> HIDE DEF in
<1>5. tx' \in ShortTxs /\ Len(tx'.ins) = Len(tx.ins)
  BY <1>3, <1>4, TypesOf, InputChanged
<1>6. Place(tx', "sequence", i, 1)
  BY <1>3, <1>5, LoopPlaces DEF InputPlaces
<1>7. QED
  BY <1>1, <1>2, <1>5, <1>6, TypesOf, GoesOn, StepKeeps

LEMMA SequenceStep ==
  ASSUME WireInv, ReadSequence
  PROVE  WireInv'
<1> DEFINE r == readNumber(h, 4)
           in == [tx.ins[i] EXCEPT !.sequence = r.value]
<1>1. r.value \in Word32 /\ r.h \in Helpers
  BY TypesOf, ReadNumberType
<1> HIDE DEF r
<1>2. pc = "sequence" /\ tx' = [tx EXCEPT !.ins[i].sequence = r.value] /\ h' = r.h
      /\ AfterInput /\ segwit' = segwit /\ Same
  BY Zenon DEF ReadSequence, r
<1>3. i \in 1..Len(tx.ins) /\ pc \in InputPlaces
  BY <1>2, AtPlace DEF InputPlaces
<1>4. in \in ShortInputs /\ tx' = [tx EXCEPT !.ins[i] = in]
  BY <1>1, <1>2, <1>3, TypesOf, FieldChanged, EmptyTransaction DEF ShortInputs
<1> HIDE DEF in
<1>5. tx' \in ShortTxs /\ Len(tx'.ins) = Len(tx.ins)
  BY <1>3, <1>4, TypesOf, InputChanged
<1>6. Place(tx', pc', i', j')
  BY <1>2, <1>3, <1>5, NextInputPlace
<1>7. QED
  BY <1>1, <1>2, <1>5, <1>6, TypesOf, StepKeeps

LEMMA OutputCountStep ==
  ASSUME WireInv, ReadOutputCount
  PROVE  WireInv'
<1> DEFINE cnt == readVarInt(h)
<1>1. cnt.value \in Nat /\ cnt.h \in Helpers
  BY TypesOf, ReadVarIntType
<1> HIDE DEF cnt
<1>2. /\ IF cnt.value > MaxOuts THEN TooMany(cnt.h)
         ELSE tx' = [tx EXCEPT !.outs = Repeat(NoOutput, cnt.value)] /\ h' = cnt.h /\ EnterOutputs
      /\ segwit' = segwit /\ Same
  BY Zenon DEF ReadOutputCount, cnt
<1>3. h' \in Helpers /\ tx' \in ShortTxs /\ Place(tx', pc', i', j')
  <2>1. CASE cnt.value > MaxOuts
    <3>1. TooMany(cnt.h)
      BY <1>2, <2>1, Zenon
    <3>2. QED
      BY <1>1, <3>1, RefusedIsTyped
  <2>2. CASE ~ (cnt.value > MaxOuts)
    <3>1. tx' = [tx EXCEPT !.outs = Repeat(NoOutput, cnt.value)] /\ h' = cnt.h /\ EnterOutputs
      BY <1>2, <2>2, Zenon
    <3>2. Repeat(NoOutput, cnt.value) \in { s \in Seq(ShortOutputs) : Len(s) <= MaxOuts }
      <4>1. Repeat(NoOutput, cnt.value) \in Seq(ShortOutputs) /\ Len(Repeat(NoOutput, cnt.value)) = cnt.value
        BY <1>1, MadeLists, Zenon
      <4>2. cnt.value <= MaxOuts
        BY <1>1, <2>2, Limits
      <4>3. QED
        BY <4>1, <4>2
    <3>3. tx' \in ShortTxs
      BY <3>1, <3>2, TypesOf DEF ShortTxs
    <3>4. QED
      BY <1>1, <3>1, <3>3, LoopsEntered
  <2>3. QED
    BY <2>1, <2>2, Zenon
<1>4. QED
  BY <1>2, <1>3, TypesOf, StepKeeps

LEMMA AmountStep ==
  ASSUME WireInv, ReadAmount
  PROVE  WireInv'
<1> DEFINE r == readNumber(h, 8)
           out == [tx.outs[i] EXCEPT !.amount = r.value]
<1>1. r.value \in Word64 /\ r.h \in Helpers
  BY TypesOf, ReadNumberType
<1> HIDE DEF r
<1>2. pc = "output" /\ tx' = [tx EXCEPT !.outs[i].amount = r.value] /\ h' = r.h
      /\ GoTo("outscript", i) /\ segwit' = segwit /\ Same
  BY Zenon DEF ReadAmount, r
<1>3. i \in 1..Len(tx.outs) /\ tx.outs[i] \in ShortOutputs
  BY <1>2, AtPlace DEF OutputPlaces
<1>4. out \in ShortOutputs /\ tx' = [tx EXCEPT !.outs[i] = out]
  BY <1>1, <1>2, <1>3, TypesOf DEF ShortOutputs, ShortTxs
<1> HIDE DEF out
<1>5. tx' \in ShortTxs /\ Len(tx'.outs) = Len(tx.outs)
  BY <1>3, <1>4, TypesOf, OutputChanged
<1>6. Place(tx', "outscript", i, 1)
  BY <1>3, <1>5, LoopPlaces DEF OutputPlaces
<1>7. QED
  BY <1>1, <1>2, <1>5, <1>6, TypesOf, GoesOn, StepKeeps

LEMMA OutScriptStep ==
  ASSUME WireInv, ReadOutScript
  PROVE  WireInv'
<1> DEFINE r == readVarBuf(h)
           out == [tx.outs[i] EXCEPT !.script = r.bytes]
<1>1. r.bytes \in ShortBuffers /\ r.h \in Helpers
  BY TypesOf, ReadVarBufType
<1> HIDE DEF r
<1>2. /\ pc = "outscript" /\ tx' = [tx EXCEPT !.outs[i].script = r.bytes] /\ h' = r.h
      /\ IF i < Len(tx.outs) THEN GoTo("output", i + 1) ELSE AfterOutputs
      /\ segwit' = segwit /\ Same
  BY Zenon DEF ReadOutScript, r
<1>3. i \in 1..Len(tx.outs) /\ tx.outs[i] \in ShortOutputs
  BY <1>2, AtPlace DEF OutputPlaces
<1>4. out \in ShortOutputs /\ tx' = [tx EXCEPT !.outs[i] = out]
  BY <1>1, <1>2, <1>3, TypesOf DEF ShortOutputs, ShortTxs
<1> HIDE DEF out
<1>5. tx' \in ShortTxs /\ Len(tx'.outs) = Len(tx.outs)
  BY <1>3, <1>4, TypesOf, OutputChanged
<1>6. Place(tx', pc', i', j')
  <2>1. CASE i < Len(tx.outs)
    <3>1. GoTo("output", i + 1)
      BY <1>2, <2>1, Zenon
    <3>2. i + 1 \in 1..Len(tx'.outs)
      BY <1>3, <1>5, <2>1, TypesOf, TransactionFacts
    <3>3. Place(tx', "output", i + 1, 1)
      BY <1>5, <3>2, LoopPlaces DEF OutputPlaces
    <3>4. QED
      BY <3>1, <3>3, GoesOn
  <2>2. CASE ~ (i < Len(tx.outs))
    BY <1>2, <1>5, <2>2, LoopsEntered, Zenon
  <2>3. QED
    BY <2>1, <2>2, Zenon
<1>7. QED
  BY <1>1, <1>2, <1>5, <1>6, TypesOf, StepKeeps

LEMMA WitnessCountStep ==
  ASSUME WireInv, ReadWitnessCount
  PROVE  WireInv'
<1> DEFINE cnt == readVarInt(h)
           items == Repeat(<<>>, cnt.value)
           in == [tx.ins[i] EXCEPT !.wit = items]
<1>1. cnt.value \in Nat /\ cnt.h \in Helpers
  BY TypesOf, ReadVarIntType
<1> HIDE DEF cnt
<1>2. /\ pc = "witness"
      /\ IF cnt.value > MaxItems THEN TooMany(cnt.h)
         ELSE /\ tx' = [tx EXCEPT !.ins[i].wit = items] /\ h' = cnt.h
              /\ IF cnt.value = 0 THEN AfterWitness ELSE GoTo("item", i)
      /\ segwit' = segwit /\ Same
  BY Zenon DEF ReadWitnessCount, cnt
<1>3. pc \in InputPlaces /\ i \in 1..Len(tx.ins)
  BY <1>2, AtPlace DEF InputPlaces
<1>4. h' \in Helpers /\ tx' \in ShortTxs /\ Place(tx', pc', i', j')
  <2>1. CASE cnt.value > MaxItems
    <3>1. TooMany(cnt.h)
      BY <1>2, <2>1, Zenon
    <3>2. QED
      BY <1>1, <3>1, RefusedIsTyped
  <2>2. CASE ~ (cnt.value > MaxItems)
    <3>1. /\ tx' = [tx EXCEPT !.ins[i].wit = items] /\ h' = cnt.h
          /\ IF cnt.value = 0 THEN AfterWitness ELSE GoTo("item", i)
      BY <1>2, <2>2, Zenon
    <3>2. items \in ShortItems /\ Len(items) = cnt.value
      <4>1. items \in Seq(ShortBuffers) /\ Len(items) = cnt.value
        BY <1>1, MadeLists, Zenon
      <4> HIDE DEF items
      <4>2. QED
        BY <1>1, <2>2, <4>1, Limits DEF ShortItems
    <3> HIDE DEF items
    <3>3. in \in ShortInputs /\ in.wit = items /\ tx' = [tx EXCEPT !.ins[i] = in]
      BY <1>3, <3>1, <3>2, TypesOf, FieldChanged, EmptyTransaction DEF ShortInputs
    <3> HIDE DEF in
    <3>4. tx' \in ShortTxs /\ Len(tx'.ins) = Len(tx.ins) /\ tx'.ins[i] = in
      BY <1>3, <3>3, TypesOf, InputChanged
    <3>5. Place(tx', pc', i', j')
      <4>1. CASE cnt.value = 0
        <5>1. AfterWitness
          BY <3>1, <4>1, Zenon
        <5>2. QED
          BY <1>3, <3>4, <5>1, NextInputPlace, Zenon
      <4>2. CASE cnt.value # 0
        <5>1. GoTo("item", i)
          BY <3>1, <4>2, Zenon
        <5>2. 1 \in 1..Len(tx'.ins[i].wit)
          BY <1>1, <3>2, <3>3, <3>4, <4>2
        <5>3. Place(tx', "item", i, 1)
          BY <1>3, <3>4, <5>2, LoopPlaces
        <5>4. QED
          BY <5>1, <5>3, GoesOn
      <4>3. QED
        BY <4>1, <4>2, Zenon
    <3>6. QED
      BY <1>1, <3>1, <3>4, <3>5, Zenon
  <2>3. QED
    BY <2>1, <2>2, Zenon
<1>5. QED
  BY <1>2, <1>4, TypesOf, StepKeeps

LEMMA ItemStep ==
  ASSUME WireInv, ReadItem
  PROVE  WireInv'
<1> DEFINE r == readVarBuf(h)
           items == [tx.ins[i].wit EXCEPT ![j] = r.bytes]
           in == [tx.ins[i] EXCEPT !.wit = items]
<1>1. r.bytes \in ShortBuffers /\ r.h \in Helpers
  BY TypesOf, ReadVarBufType
<1> HIDE DEF r
<1>2. /\ pc = "item" /\ tx' = [tx EXCEPT !.ins[i].wit[j] = r.bytes] /\ h' = r.h
      /\ IF j < Len(tx.ins[i].wit) THEN pc' = "item" /\ i' = i /\ j' = j + 1 ELSE AfterWitness
      /\ segwit' = segwit /\ Same
  BY Zenon DEF ReadItem, r
<1>3. pc \in InputPlaces /\ i \in 1..Len(tx.ins) /\ tx.ins[i] \in ShortInputs /\ j \in 1..Len(tx.ins[i].wit)
  BY <1>2, AtPlace DEF InputPlaces
<1>4. items \in ShortItems /\ Len(items) = Len(tx.ins[i].wit) /\ Len(items) \in Nat
  <2>1. tx.ins[i].wit \in Seq(ShortBuffers) /\ Len(tx.ins[i].wit) <= MaxItems
    BY <1>3 DEF ShortInputs, ShortItems
  <2>2. items \in Seq(ShortBuffers) /\ Len(items) = Len(tx.ins[i].wit)
    BY <1>1, <1>3, <2>1, ExceptSeq
  <2>3. QED
    BY <2>1, <2>2 DEF ShortItems
<1>5. tx' = [tx EXCEPT !.ins[i].wit = items]
  BY <1>2, <1>3, TypesOf DEF ShortTxs, ShortInputs
<1> HIDE DEF items
<1>6. in \in ShortInputs /\ in.wit = items /\ tx' = [tx EXCEPT !.ins[i] = in]
  BY <1>3, <1>4, <1>5, TypesOf, FieldChanged, EmptyTransaction DEF ShortInputs
<1> HIDE DEF in
<1>7. tx' \in ShortTxs /\ Len(tx'.ins) = Len(tx.ins) /\ tx'.ins[i] = in
  BY <1>3, <1>6, TypesOf, InputChanged
<1>8. Place(tx', pc', i', j')
  <2>1. CASE j < Len(tx.ins[i].wit)
    <3>1. pc' = "item" /\ i' = i /\ j' = j + 1
      BY <1>2, <2>1, Zenon
    <3>2. j + 1 \in 1..Len(tx'.ins[i].wit)
      BY <1>3, <1>4, <1>6, <1>7, <2>1
    <3>3. Place(tx', "item", i, j + 1)
      BY <1>3, <1>7, <3>2, LoopPlaces
    <3>4. QED
      BY <3>1, <3>3, Zenon
  <2>2. CASE ~ (j < Len(tx.ins[i].wit))
    <3>1. AfterWitness
      BY <1>2, <2>2, Zenon
    <3>2. QED
      BY <1>3, <1>7, <3>1, NextInputPlace, Zenon
  <2>3. QED
    BY <2>1, <2>2, Zenon
<1>9. QED
  BY <1>1, <1>2, <1>7, <1>8, TypesOf, StepKeeps

LEMMA LocktimeStep ==
  ASSUME WireInv, ReadLocktime
  PROVE  WireInv'
<1> DEFINE v == readNumber(h, 4)
<1>1. v.value \in Word32 /\ v.h \in Helpers
  BY TypesOf, ReadNumberType
<1> HIDE DEF v
<1>2. tx' = [tx EXCEPT !.locktime = v.value] /\ h' = v.h /\ GoTo("done", 1) /\ segwit' = segwit /\ Same
  BY Zenon DEF ReadLocktime, v
<1>3. tx' \in ShortTxs
  BY <1>1, <1>2, TypesOf DEF ShortTxs
<1>4. Place(tx', "done", 1, 1)
  BY <1>3, LoopPlaces DEF OtherPlaces
<1>5. QED
  BY <1>1, <1>2, <1>3, <1>4, TypesOf, GoesOn, StepKeeps

\* A transaction within the limits is one.
LEMMA ShortIsBtcTx ==
  ASSUME NEW t \in ShortTxs
  PROVE  t \in BtcTxs
<1>1. ShortBuffers \subseteq Buffers
  BY LimitsAreWords DEF ShortBuffers, Buffers, Slices, Octet
<1>2. ShortItems \subseteq Slices(Buffers)
  <2>1. Seq(ShortBuffers) \subseteq Seq(Buffers)
    BY <1>1
  <2>2. \A s \in ShortItems : s \in Seq(Buffers) /\ Len(s) \in Nat /\ Len(s) <= MaxItems
    BY <2>1 DEF ShortItems
  <2>3. QED
    BY <2>2, LimitsAreWords DEF Slices
<1>3. Txids \subseteq { b \in Buffers : Len(b) = TxidLen }
  BY WireAssumption DEF Txids, Octet, Buffers, Slices
<1>4. ShortInputs \subseteq TxInputs /\ ShortOutputs \subseteq TxOutputs
  BY <1>1, <1>2, <1>3 DEF ShortInputs, ShortOutputs, TxInputs, TxOutputs
<1>5. t.ins \in Slices(TxInputs) /\ t.outs \in Slices(TxOutputs)
  <2>1. Seq(ShortInputs) \subseteq Seq(TxInputs) /\ Seq(ShortOutputs) \subseteq Seq(TxOutputs)
    BY <1>4
  <2>2. t.ins \in Seq(TxInputs) /\ t.outs \in Seq(TxOutputs)
    BY <2>1, TransactionFacts
  <2>3. Len(t.ins) \in Word64 /\ Len(t.outs) \in Word64
    BY TransactionFacts, LimitsAreWords
  <2>4. QED
    BY <2>2, <2>3 DEF Slices
<1>6. QED
  BY <1>5 DEF ShortTxs, BtcTxs

LEMMA RewriteStep ==
  ASSUME WireInv, Rewrite
  PROVE  WireInv'
<1>1. stream' = Bytes(tx) /\ cut' = Len(Bytes(tx)) /\ h' = [n |-> 0, err |-> "none"]
      /\ tx' = NoTx /\ segwit' = FALSE /\ GoTo("version", 1)
  BY Zenon DEF Rewrite
<1>2. Bytes(tx) \in Octet
  <2>1. HasWitness(tx) \in BOOLEAN
    BY DEF HasWitness
  <2>2. QED
    BY <2>1, TypesOf, ShortIsBtcTx, BytesType DEF Bytes
<1>3. StreamOK'
  BY <1>1, <1>2 DEF StreamOK, Octet
<1>4. h' \in Helpers'
  BY <1>1, <1>3 DEF Helpers, Errors, StreamOK
<1>5. Place(tx', pc', i', j')
  BY <1>1, EmptyTransaction, GoesOn
<1>6. QED
  BY <1>1, <1>3, <1>4, <1>5, EmptyTransaction DEF WireInv

LEMMA WireStep ==
  ASSUME WireInv, [Next]_vars
  PROVE  WireInv'
<1>1. CASE ReadFrom
  <2>1. CASE ReadVersion
    BY <2>1, VersionStep
  <2>2. CASE ReadInputCount
    BY <2>2, InputCountStep
  <2>3. CASE ReadFlag
    BY <2>3, FlagStep
  <2>4. CASE ReadInputCountAgain
    BY <2>4, InputCountAgainStep
  <2>5. CASE ReadInput
    BY <2>5, TxidStep, VoutStep, ScriptStep, SequenceStep, Zenon DEF ReadInput
  <2>6. CASE ReadOutputCount
    BY <2>6, OutputCountStep
  <2>7. CASE ReadOutput
    BY <2>7, AmountStep, OutScriptStep, Zenon DEF ReadOutput
  <2>8. CASE ReadWitnessCount
    BY <2>8, WitnessCountStep
  <2>9. CASE ReadItem
    BY <2>9, ItemStep
  <2>10. CASE ReadLocktime
    BY <2>10, LocktimeStep
  <2>11. QED
    BY <1>1, <2>1, <2>2, <2>3, <2>4, <2>5, <2>6, <2>7, <2>8, <2>9, <2>10, Zenon DEF ReadFrom
<1>2. CASE Rewrite
  BY <1>2, RewriteStep
<1>3. CASE UNCHANGED vars
  BY <1>3 DEF vars, WireInv, StreamOK, Helpers
<1>4. QED
  BY <1>1, <1>2, <1>3, Zenon DEF Next

\* Whatever bytes are read, wherever the reader fails and whatever the limits are:
\* no list and no buffer is longer than they allow, every list is indexed within
\* its length, and no byte is taken for data behind the place where the reader
\* failed (btctx.go:531, 541, 553; util.go:58, 89).
THEOREM WireTypes == Spec => []TypeOK
<1>1. Init => WireInv
  BY InitInv
<1>2. WireInv /\ [Next]_vars => WireInv'
  BY WireStep
<1>3. WireInv => TypeOK
  BY InvMeansTypes
<1>4. QED
  BY <1>1, <1>2, <1>3, PTL DEF Spec

-----------------------------------------------------------------------------
(***************************************************************************)
(* What was written is read.  The invariant beside WireInv: as long as     *)
(* there is no error, the bytes that come are those that are left of the   *)
(* transaction at this place, and tx is what of it was read so far; an     *)
(* error means that it cannot be read.                                     *)
(***************************************************************************)
Own(t) == (wrote # Nil /\ t = wrote) \/ (prev # Nil /\ t = prev)

Unread(t, where, k, m) ==
    CASE where = "version" -> VersionOn(t)
      [] where = "inputs" -> MarkerOn(t)
      [] where = "flag" -> FlagOn(t)
      [] where = "segwit inputs" -> InputCountOn(t)
      [] where = "input" -> InputsOn(t, k)
      [] where = "vout" -> VoutOn(t, k)
      [] where = "script" -> ScriptOn(t, k)
      [] where = "sequence" -> SequenceOn(t, k)
      [] where = "outputs" -> OutputCountOn(t)
      [] where = "output" -> OutputsOn(t, k)
      [] where = "outscript" -> OutScriptOn(t, k)
      [] where = "witness" -> WitnessOn(t, k)
      [] where = "item" -> ItemsOn(t, k, m)
      [] where = "locktime" -> LocktimeOn(t)
      [] OTHER -> <<>>

\* An input of which s fields were read; 5: m - 1 items of its witness, 6: all.
InputSoFar(in, s, m) ==
    [txid |-> IF s >= 1 THEN in.txid ELSE Zeros(TxidLen),
     vout |-> IF s >= 2 THEN in.vout ELSE 0,
     script |-> IF s >= 3 THEN in.script ELSE <<>>,
     sequence |-> IF s >= 4 THEN in.sequence ELSE 0,
     wit |-> IF s >= 6 THEN in.wit
             ELSE IF s = 5 THEN [q \in 1..Len(in.wit) |-> IF q < m THEN in.wit[q] ELSE <<>>] ELSE <<>>]

OutputSoFar(out, s) ==
    [amount |-> IF s >= 1 THEN out.amount ELSE 0, script |-> IF s >= 2 THEN out.script ELSE <<>>]

\* How much of the n-th input was read when the k-th is at hand.
Stage(where, n, k) ==
    CASE where = "input" -> IF n < k THEN 4 ELSE 0
      [] where = "vout" -> IF n < k THEN 4 ELSE IF n = k THEN 1 ELSE 0
      [] where = "script" -> IF n < k THEN 4 ELSE IF n = k THEN 2 ELSE 0
      [] where = "sequence" -> IF n < k THEN 4 ELSE IF n = k THEN 3 ELSE 0
      [] where = "witness" -> IF n < k THEN 6 ELSE 4
      [] where = "item" -> IF n < k THEN 6 ELSE IF n = k THEN 5 ELSE 4
      [] where \in {"locktime", "done"} -> 6
      [] OTHER -> 4

InputsSoFar(t, where, k, m) == [n \in 1..Len(t.ins) |-> InputSoFar(t.ins[n], Stage(where, n, k), m)]

OutputsSoFar(t, where, k) ==
    [n \in 1..Len(t.outs) |->
        OutputSoFar(t.outs[n], IF n < k THEN 2 ELSE IF n = k /\ where = "outscript" THEN 1 ELSE 0)]

Early == {"version", "inputs", "flag", "segwit inputs"}
Late  == {"witness", "item", "locktime", "done"}

Holds(t, u, where, k, m) ==
    /\ where # "version" => u.version = t.version
    /\ where \notin Early => u.ins = InputsSoFar(t, where, k, m)
    /\ where \in OutputPlaces => u.outs = OutputsSoFar(t, where, k)
    /\ where \in Late => u.outs = t.outs
    /\ where = "done" => u.locktime = t.locktime

Marked(t, where, mark) ==
    /\ where \in {"flag", "segwit inputs"} => HasWitness(t)
    /\ where \notin {"version", "inputs"} => mark = HasWitness(t)

Unreadable(t) == ~ WithinLimits(t) \/ cut < Len(Bytes(t))

Goes(t) ==
    /\ Comes(h.n, Unread(t, pc, i, j)) /\ h.n + Len(Unread(t, pc, i, j)) = Len(Bytes(t))
    /\ Holds(t, tx, pc, i, j) /\ Marked(t, pc, segwit)

Reading(t) == IF h.err = "none" THEN Goes(t) ELSE Unreadable(t)

ReadInv ==
    /\ WireInv
    /\ \A t : Own(t) => t \in BtcTxs /\ (t.ins # <<>> => Reading(t))
    /\ prev # Nil => prev \in ShortTxs /\ cut = Len(stream) /\ Len(stream) = Len(Bytes(prev))

LEMMA UnreadAt ==
  ASSUME NEW t, NEW k, NEW m
  PROVE  /\ Unread(t, "version", k, m) = VersionOn(t) /\ Unread(t, "inputs", k, m) = MarkerOn(t)
         /\ Unread(t, "flag", k, m) = FlagOn(t) /\ Unread(t, "segwit inputs", k, m) = InputCountOn(t)
         /\ Unread(t, "input", k, m) = InputsOn(t, k) /\ Unread(t, "vout", k, m) = VoutOn(t, k)
         /\ Unread(t, "script", k, m) = ScriptOn(t, k) /\ Unread(t, "sequence", k, m) = SequenceOn(t, k)
         /\ Unread(t, "outputs", k, m) = OutputCountOn(t) /\ Unread(t, "output", k, m) = OutputsOn(t, k)
         /\ Unread(t, "outscript", k, m) = OutScriptOn(t, k) /\ Unread(t, "witness", k, m) = WitnessOn(t, k)
         /\ Unread(t, "item", k, m) = ItemsOn(t, k, m) /\ Unread(t, "locktime", k, m) = LocktimeOn(t)
         /\ Unread(t, "done", k, m) = <<>>
  BY DEF Unread

\* A read that got the next bytes goes on with those behind them.
LEMMA GoesFurther ==
  ASSUME WireInv, Same, NEW t, NEW x \in Octet, NEW y \in Octet, h.err = "none", Reading(t),
         Unread(t, pc, i, j) = x \o y, Got(h, h', x), Unread(t, pc', i', j') = y,
         Holds(t, tx', pc', i', j'), Marked(t, pc', segwit')
  PROVE  Reading(t)'
<1>1. h.n \in Nat /\ Comes(h.n, x \o y) /\ h.n + Len(x \o y) = Len(Bytes(t))
  BY TypesOf DEF Reading, Goes, Helpers
<1>2. Comes(h.n + Len(x), y) /\ Len(x \o y) = Len(x) + Len(y) /\ Len(x) \in Nat /\ Len(y) \in Nat
  BY <1>1, ComesParts
<1>3. h'.n = h.n + Len(x) /\ h'.err = "none"
  BY DEF Got
<1>4. Comes(h'.n, y) /\ h'.n + Len(y) = Len(Bytes(t))
  BY <1>1, <1>2, <1>3
<1>5. Comes(h.n, y)'
  BY <1>4 DEF Comes, Same
<1>6. QED
  BY <1>3, <1>4, <1>5, Zenon DEF Reading, Goes

LEMMA Falls ==
  ASSUME WireInv, Same, NEW t, NEW x \in Octet, NEW y \in Octet, h.err = "none", Reading(t),
         Unread(t, pc, i, j) = x \o y, NEW g, Fell(h, g, x), h'.err # "none"
  PROVE  Reading(t)'
<1>1. h.n \in Nat /\ cut \in Nat /\ Comes(h.n, x \o y) /\ h.n + Len(x \o y) = Len(Bytes(t))
  BY TypesOf DEF Reading, Goes, Helpers, StreamOK
<1>2. Len(x \o y) = Len(x) + Len(y) /\ Len(x) \in Nat /\ Len(y) \in Nat
  BY <1>1, ComesParts
<1>3. cut < Len(Bytes(t))
  BY <1>1, <1>2 DEF Fell
<1>4. cut' = cut
  BY DEF Same
<1>5. QED
  BY <1>3, <1>4, Zenon DEF Reading, Unreadable

LEMMA Refuses ==
  ASSUME Same, NEW t, ~ WithinLimits(t), h'.err # "none"
  PROVE  Reading(t)'
  BY Zenon DEF Reading, Unreadable

LEMMA NextComes ==
  ASSUME WireInv, NEW t, NEW x \in Octet, NEW y \in Octet, h.err = "none", Reading(t),
         Unread(t, pc, i, j) = x \o y
  PROVE  Comes(h.n, x)
<1>1. h.n \in Nat /\ Comes(h.n, x \o y)
  BY TypesOf DEF Reading, Goes, Helpers
<1>2. QED
  BY <1>1, ComesParts

LEMMA ErrorStep ==
  ASSUME WireInv, ReadFrom, h.err # "none"
  PROVE  h'.err # "none" /\ Same
<1>1. h \in Helpers /\ StreamOK
  BY TypesOf
<1>2. /\ \A w : readFull(h, w).h = h /\ readNumber(h, w).h = h
      /\ readVarInt(h).h = h /\ readVarBuf(h).h.err # "none"
  BY <1>1, ErrorStays
<1>3. [h EXCEPT !.err = "limit"].err # "none"
  BY <1>1 DEF Helpers
<1>4. ASSUME NEW r, TooMany(r), r = h PROVE h'.err # "none"
  BY <1>3, <1>4 DEF TooMany
<1>5. ASSUME NEW r, MakeInputs(r), r.h = h PROVE h'.err # "none"
  <2>1. CASE r.value > MaxIns
    BY <1>4, <1>5, <2>1 DEF MakeInputs
  <2>2. CASE ~ (r.value > MaxIns)
    BY <1>5, <2>2 DEF MakeInputs
  <2>3. QED
    BY <2>1, <2>2
<1>6. CASE ReadVersion
  BY <1>2, <1>6, Zenon DEF ReadVersion
<1>7. CASE ReadInputCount
  <2> DEFINE cnt == readVarInt(h)
  <2>1. /\ IF cnt.value = 0 THEN h' = cnt.h /\ GoTo("flag", 1) /\ UNCHANGED tx ELSE MakeInputs(cnt)
        /\ Same
    BY <1>7, Zenon DEF ReadInputCount
  <2>2. cnt.h = h
    BY <1>2
  <2> HIDE DEF cnt
  <2>3. QED
    BY <1>5, <2>1, <2>2, Zenon
<1>8. CASE ReadFlag
  BY <1>2, <1>8, Zenon DEF ReadFlag
<1>9. CASE ReadInputCountAgain
  BY <1>2, <1>5, <1>9, Zenon DEF ReadInputCountAgain
<1>10. CASE ReadInput
  BY <1>2, <1>10, Zenon DEF ReadInput, ReadTxid, ReadVout, ReadScript, ReadSequence
<1>11. CASE ReadOutputCount
  BY <1>2, <1>4, <1>11, Zenon DEF ReadOutputCount
<1>12. CASE ReadOutput
  BY <1>2, <1>12, Zenon DEF ReadOutput, ReadAmount, ReadOutScript
<1>13. CASE ReadWitnessCount
  BY <1>2, <1>4, <1>13, Zenon DEF ReadWitnessCount
<1>14. CASE ReadItem
  BY <1>2, <1>14, Zenon DEF ReadItem
<1>15. CASE ReadLocktime
  BY <1>2, <1>15, Zenon DEF ReadLocktime
<1>16. QED
  BY <1>6, <1>7, <1>8, <1>9, <1>10, <1>11, <1>12, <1>13, <1>14, <1>15, Zenon DEF ReadFrom

LEMMA ErrorKeepsReading ==
  ASSUME WireInv, ReadFrom, h.err # "none", NEW t, Reading(t)
  PROVE  Reading(t)'
<1>1. h'.err # "none" /\ cut' = cut
  BY ErrorStep DEF Same
<1>2. QED
  BY <1>1, Zenon DEF Reading, Unreadable

\* Where an input is in the reading of it, and how that moves.
LEMMA StageMoves ==
  ASSUME NEW n \in Nat, NEW k \in Nat, n # k
  PROVE  /\ Stage("vout", n, k) = Stage("input", n, k) /\ Stage("input", n, k) # 5
         /\ Stage("script", n, k) = Stage("vout", n, k) /\ Stage("vout", n, k) # 5
         /\ Stage("sequence", n, k) = Stage("script", n, k) /\ Stage("script", n, k) # 5
         /\ Stage("input", n, k + 1) = Stage("sequence", n, k) /\ Stage("sequence", n, k) # 5
         /\ Stage("item", n, k) = Stage("witness", n, k) /\ Stage("witness", n, k) # 5
         /\ Stage("witness", n, k + 1) = Stage("witness", n, k)
         /\ Stage("witness", n, k + 1) = Stage("item", n, k)
  BY DEF Stage

LEMMA StageHere ==
  ASSUME NEW k \in Nat
  PROVE  /\ Stage("input", k, k) = 0 /\ Stage("vout", k, k) = 1 /\ Stage("script", k, k) = 2
         /\ Stage("sequence", k, k) = 3 /\ Stage("input", k, k + 1) = 4 /\ Stage("witness", k, k) = 4
         /\ Stage("item", k, k) = 5 /\ Stage("witness", k, k + 1) = 6
         /\ \A n : Stage("outputs", n, k) = 4 /\ Stage("output", n, k) = 4 /\ Stage("outscript", n, k) = 4
         /\ \A n : Stage("locktime", n, k) = 6 /\ Stage("done", n, k) = 6
  BY DEF Stage

\* From p to q, the inputs other than the k-th stay where they are.
OthersStay(t, p, q, k, k2) ==
    \A n \in 1..Len(t.ins) : n # k => Stage(q, n, k2) = Stage(p, n, k) /\ Stage(p, n, k) # 5

\* The one at hand moves to its next stage and is then in.
Moves(t, p, q, k, k2, m2, in) ==
    in = InputSoFar(t.ins[k], Stage(q, k, k2), m2) /\ OthersStay(t, p, q, k, k2)

Placed(f, k, x) == [f EXCEPT ![k] = x]
Becomes(f, k, x, g) == Placed(f, k, x) = g

LEMMA InputsMove ==
  ASSUME NEW t \in BtcTxs, NEW p, NEW q, NEW k \in 1..Len(t.ins), NEW k2, NEW m, NEW m2, NEW in,
         Moves(t, p, q, k, k2, m2, in)
  PROVE  Becomes(InputsSoFar(t, p, k, m), k, in, InputsSoFar(t, q, k2, m2))
<1>1. \A x, a, b, c : c # 5 => InputSoFar(x, c, a) = InputSoFar(x, c, b)
  BY DEF InputSoFar
<1>2. \A n \in 1..Len(t.ins) : n # k => InputSoFar(t.ins[n], Stage(q, n, k2), m2) = InputSoFar(t.ins[n], Stage(p, n, k), m)
  <2> TAKE n \in 1..Len(t.ins)
  <2>1. ASSUME n # k
        PROVE  InputSoFar(t.ins[n], Stage(q, n, k2), m2) = InputSoFar(t.ins[n], Stage(p, n, k), m)
    <3> DEFINE c == Stage(p, n, k)
    <3>1. Stage(q, n, k2) = c /\ c # 5
      BY <2>1 DEF Moves, OthersStay
    <3> HIDE DEF c
    <3>2. InputSoFar(t.ins[n], c, m2) = InputSoFar(t.ins[n], c, m)
      BY <1>1, <3>1, SMTT(30)
    <3>3. QED
      BY <3>1, <3>2 DEF c
  <2>2. QED
    BY <2>1
<1> DEFINE f == InputsSoFar(t, p, k, m)
           g == InputsSoFar(t, q, k2, m2)
<1>3. DOMAIN f = 1..Len(t.ins) /\ DOMAIN g = 1..Len(t.ins) /\ f = [n \in DOMAIN f |-> f[n]] /\ g = [n \in DOMAIN g |-> g[n]]
  BY DEF InputsSoFar
<1>4. \A n \in 1..Len(t.ins) : n # k => g[n] = f[n]
  BY <1>2 DEF InputsSoFar
<1>5. g[k] = in
  BY DEF InputsSoFar, Moves
<1> HIDE DEF f, g
<1>6. [f EXCEPT ![k] = in] = g
  BY <1>3, <1>4, <1>5
<1>7. QED
  BY <1>6 DEF f, g, Placed, Becomes

LEMMA InputFields ==
  ASSUME NEW in \in TxInputs, NEW m, NEW m2
  PROVE  /\ InputSoFar(in, 0, m) = NoInput
         /\ [InputSoFar(in, 0, m) EXCEPT !.txid = in.txid] = InputSoFar(in, 1, m2)
         /\ [InputSoFar(in, 1, m) EXCEPT !.vout = in.vout] = InputSoFar(in, 2, m2)
         /\ [InputSoFar(in, 2, m) EXCEPT !.script = in.script] = InputSoFar(in, 3, m2)
         /\ [InputSoFar(in, 3, m) EXCEPT !.sequence = in.sequence] = InputSoFar(in, 4, m2)
<1>1. InputSoFar(in, 0, m) = NoInput
  BY DEF InputSoFar, NoInput
<1>2. [InputSoFar(in, 0, m) EXCEPT !.txid = in.txid] = InputSoFar(in, 1, m2)
  BY DEF InputSoFar
<1>3. [InputSoFar(in, 1, m) EXCEPT !.vout = in.vout] = InputSoFar(in, 2, m2)
  BY DEF InputSoFar
<1>4. [InputSoFar(in, 2, m) EXCEPT !.script = in.script] = InputSoFar(in, 3, m2)
  BY DEF InputSoFar
<1>5. [InputSoFar(in, 3, m) EXCEPT !.sequence = in.sequence] = InputSoFar(in, 4, m2)
  BY DEF InputSoFar
<1>6. QED
  BY <1>1, <1>2, <1>3, <1>4, <1>5

LEMMA InputItems ==
  ASSUME NEW in \in TxInputs, NEW m
  PROVE  /\ [InputSoFar(in, 4, m) EXCEPT !.wit = Repeat(<<>>, Len(in.wit))] = InputSoFar(in, 5, 1)
         /\ \A q \in 1..Len(in.wit) :
               /\ Len(InputSoFar(in, 5, q).wit) = Len(in.wit)
               /\ [InputSoFar(in, 5, q) EXCEPT !.wit = [InputSoFar(in, 5, q).wit EXCEPT ![q] = in.wit[q]]]
                    = InputSoFar(in, 5, q + 1)
         /\ InputSoFar(in, 5, Len(in.wit) + 1) = InputSoFar(in, 6, m)
         /\ InputSoFar(in, 6, m) = in
         /\ in.wit = <<>> => InputSoFar(in, 4, m) = in
<1> DEFINE L == Len(in.wit)
           w(q) == [x \in 1..L |-> IF x < q THEN in.wit[x] ELSE <<>>]
           full(v) == [txid |-> in.txid, vout |-> in.vout, script |-> in.script, sequence |-> in.sequence, wit |-> v]
<1>1. L \in Nat /\ in.wit \in Seq(Buffers) /\ in.wit = [x \in 1..L |-> in.wit[x]]
  BY ItemPartsType, WordTypes
<1>2. /\ InputSoFar(in, 4, m) = full(<<>>) /\ InputSoFar(in, 6, m) = full(in.wit)
      /\ \A q : InputSoFar(in, 5, q) = full(w(q))
  BY DEF InputSoFar
<1>3. full(in.wit) = in
  BY DEF TxInputs
<1>4. Repeat(<<>>, L) = w(1)
  BY <1>1 DEF Repeat
<1>5. w(L + 1) = in.wit
  BY <1>1
<1>6. ASSUME NEW q \in 1..L
      PROVE  Len(w(q)) = L /\ [w(q) EXCEPT ![q] = in.wit[q]] = w(q + 1)
  <2> HIDE DEF L
  <2>1. Len(w(q)) = L
    BY <1>1
  <2>2. \A x \in 1..L : (x < q + 1) <=> (x < q \/ x = q)
    BY <1>1
  <2>3. \A x \in 1..L : [w(q) EXCEPT ![q] = in.wit[q]][x] = IF x < q + 1 THEN in.wit[x] ELSE <<>>
    BY <1>1, <2>2
  <2>4. [w(q) EXCEPT ![q] = in.wit[q]] = [x \in 1..L |-> [w(q) EXCEPT ![q] = in.wit[q]][x]]
    OBVIOUS
  <2>5. QED
    BY <2>1, <2>3, <2>4
<1> HIDE DEF w, L
<1>7. \A u, v : [full(u) EXCEPT !.wit = v] = full(v) /\ full(u).wit = u
  OBVIOUS
<1> HIDE DEF full
<1>8. [InputSoFar(in, 4, m) EXCEPT !.wit = Repeat(<<>>, L)] = InputSoFar(in, 5, 1)
  <2>1. [full(<<>>) EXCEPT !.wit = w(1)] = full(w(1))
    BY <1>7, Zenon
  <2>2. InputSoFar(in, 5, 1) = full(w(1)) /\ InputSoFar(in, 4, m) = full(<<>>)
    BY <1>2, Zenon
  <2>3. QED
    BY <1>4, <2>1, <2>2, Zenon
<1>9. ASSUME NEW q \in 1..L
      PROVE  /\ Len(InputSoFar(in, 5, q).wit) = L
             /\ [InputSoFar(in, 5, q) EXCEPT !.wit = [InputSoFar(in, 5, q).wit EXCEPT ![q] = in.wit[q]]]
                  = InputSoFar(in, 5, q + 1)
  <2>1. InputSoFar(in, 5, q) = full(w(q)) /\ InputSoFar(in, 5, q).wit = w(q)
    BY <1>2, <1>7, Zenon
  <2>2. [full(w(q)) EXCEPT !.wit = w(q + 1)] = full(w(q + 1))
    BY <1>7, Zenon
  <2>3. QED
    BY <1>2, <1>6, <2>1, <2>2, Zenon
<1>10. QED
  BY <1>2, <1>3, <1>5, <1>8, <1>9, Zenon DEF L

\* Before the first input, and behind the last one.
LEMMA InputLists ==
  ASSUME NEW t \in BtcTxs, NEW m, NEW k
  PROVE  /\ InputsSoFar(t, "input", 1, m) = Repeat(NoInput, Len(t.ins))
         /\ InputsSoFar(t, "input", Len(t.ins) + 1, m) = InputsSoFar(t, "outputs", 1, 1)
         /\ InputsSoFar(t, "output", k, m) = InputsSoFar(t, "outputs", 1, 1)
         /\ InputsSoFar(t, "outscript", k, m) = InputsSoFar(t, "outputs", 1, 1)
         /\ InputsSoFar(t, "witness", 1, m) = InputsSoFar(t, "outputs", 1, 1)
         /\ ~ HasWitness(t) => InputsSoFar(t, "locktime", 1, 1) = InputsSoFar(t, "outputs", 1, 1)
         /\ InputsSoFar(t, "witness", Len(t.ins) + 1, m) = InputsSoFar(t, "locktime", 1, 1)
         /\ InputsSoFar(t, "done", 1, 1) = t.ins /\ InputsSoFar(t, "locktime", 1, 1) = t.ins
<1> DEFINE L == Len(t.ins)
<1>1. L \in Nat /\ t.ins = [n \in 1..L |-> t.ins[n]] /\ DOMAIN t.ins = 1..L /\ \A n \in 1..L : t.ins[n] \in TxInputs
  <2>1. t.ins \in Seq(TxInputs)
    BY PartsType
  <2>2. QED
    BY <2>1
<1>2. \A x, c, a, b : c # 5 => InputSoFar(x, c, a) = InputSoFar(x, c, b)
  BY DEF InputSoFar
<1> HIDE DEF L
<1>3. ASSUME NEW p, NEW q, NEW a, NEW b, NEW c, NEW d,
             \A n \in 1..L : Stage(p, n, a) = Stage(q, n, b) /\ Stage(p, n, a) # 5
      PROVE  InputsSoFar(t, p, a, c) = InputsSoFar(t, q, b, d)
  <2>1. \A n \in 1..L : InputSoFar(t.ins[n], Stage(p, n, a), c) = InputSoFar(t.ins[n], Stage(q, n, b), d)
    BY <1>2, <1>3, Zenon
  <2>2. QED
    BY <2>1 DEF InputsSoFar, L
<1>4. \A n \in 1..L : Stage("input", n, L + 1) = 4 /\ Stage("outputs", n, 1) = 4 /\ Stage("output", n, k) = 4
                      /\ Stage("outscript", n, k) = 4 /\ Stage("witness", n, 1) = 4
                      /\ Stage("witness", n, L + 1) = 6 /\ Stage("locktime", n, 1) = 6 /\ Stage("done", n, 1) = 6
                      /\ Stage("input", n, 1) = 0
  BY <1>1 DEF Stage
<1>5. /\ InputsSoFar(t, "input", L + 1, m) = InputsSoFar(t, "outputs", 1, 1)
      /\ InputsSoFar(t, "output", k, m) = InputsSoFar(t, "outputs", 1, 1)
      /\ InputsSoFar(t, "outscript", k, m) = InputsSoFar(t, "outputs", 1, 1)
      /\ InputsSoFar(t, "witness", 1, m) = InputsSoFar(t, "outputs", 1, 1)
      /\ InputsSoFar(t, "witness", L + 1, m) = InputsSoFar(t, "locktime", 1, 1)
  BY <1>3, <1>4
<1>6. InputsSoFar(t, "input", 1, m) = Repeat(NoInput, L)
  <2>1. ASSUME NEW n \in 1..L PROVE InputSoFar(t.ins[n], Stage("input", n, 1), m) = NoInput
    <3>1. t.ins[n] \in TxInputs /\ Stage("input", n, 1) = 0
      BY <1>1, <1>4
    <3>2. InputSoFar(t.ins[n], 0, m) = NoInput
      BY <3>1, InputFields
    <3>3. QED
      BY <3>1, <3>2
  <2>2. QED
    BY <2>1 DEF InputsSoFar, Repeat, L
<1>7. InputsSoFar(t, "done", 1, 1) = t.ins /\ InputsSoFar(t, "locktime", 1, 1) = t.ins
  <2>1. \A n \in 1..L : /\ InputSoFar(t.ins[n], Stage("done", n, 1), 1) = t.ins[n]
                        /\ InputSoFar(t.ins[n], Stage("locktime", n, 1), 1) = t.ins[n]
    BY <1>1, <1>4, InputItems
  <2>2. QED
    BY <1>1, <2>1 DEF InputsSoFar, L
<1>8. ASSUME ~ HasWitness(t)
      PROVE  InputsSoFar(t, "locktime", 1, 1) = InputsSoFar(t, "outputs", 1, 1)
  <2>1. \A n \in 1..L : t.ins[n].wit = <<>>
    BY <1>1, <1>8 DEF HasWitness
  <2>2. \A n \in 1..L : InputSoFar(t.ins[n], Stage("outputs", n, 1), 1) = t.ins[n]
    BY <1>1, <1>4, <2>1, InputItems
  <2>3. InputsSoFar(t, "outputs", 1, 1) = t.ins
    BY <1>1, <2>2 DEF InputsSoFar, L
  <2>4. QED
    BY <1>7, <2>3
<1>9. QED
  BY <1>5, <1>6, <1>7, <1>8 DEF L

LEMMA OutputLists ==
  ASSUME NEW t \in BtcTxs
  PROVE  /\ OutputsSoFar(t, "output", 1) = Repeat(NoOutput, Len(t.outs))
         /\ OutputsSoFar(t, "output", Len(t.outs) + 1) = t.outs
         /\ \A k \in 1..Len(t.outs) :
               LET n == [OutputsSoFar(t, "output", k)[k] EXCEPT !.amount = t.outs[k].amount]
                   b == [OutputsSoFar(t, "outscript", k)[k] EXCEPT !.script = t.outs[k].script]
               IN  /\ [OutputsSoFar(t, "output", k) EXCEPT ![k] = n] = OutputsSoFar(t, "outscript", k)
                   /\ [OutputsSoFar(t, "outscript", k) EXCEPT ![k] = b] = OutputsSoFar(t, "output", k + 1)
                   /\ Len(OutputsSoFar(t, "output", k)) = Len(t.outs)
                   /\ Len(OutputsSoFar(t, "outscript", k)) = Len(t.outs)
<1> DEFINE L == Len(t.outs)
<1>1. L \in Nat /\ t.outs = [n \in 1..L |-> t.outs[n]] /\ \A n \in 1..L : t.outs[n] \in TxOutputs
  BY PartsType, WordTypes
<1>2. \A out \in TxOutputs : OutputSoFar(out, 0) = NoOutput /\ OutputSoFar(out, 2) = out
  BY DEF OutputSoFar, NoOutput, TxOutputs
<1>3. \A out : /\ [OutputSoFar(out, 0) EXCEPT !.amount = out.amount] = OutputSoFar(out, 1)
               /\ [OutputSoFar(out, 1) EXCEPT !.script = out.script] = OutputSoFar(out, 2)
  BY DEF OutputSoFar
<1> HIDE DEF L
<1>4. ASSUME NEW k \in Nat, NEW n \in 1..L
      PROVE  /\ n < k => /\ OutputsSoFar(t, "output", k)[n] = OutputSoFar(t.outs[n], 2)
                         /\ OutputsSoFar(t, "outscript", k)[n] = OutputSoFar(t.outs[n], 2)
             /\ n = k => /\ OutputsSoFar(t, "output", k)[n] = OutputSoFar(t.outs[n], 0)
                         /\ OutputsSoFar(t, "outscript", k)[n] = OutputSoFar(t.outs[n], 1)
             /\ n > k => /\ OutputsSoFar(t, "output", k)[n] = OutputSoFar(t.outs[n], 0)
                         /\ OutputsSoFar(t, "outscript", k)[n] = OutputSoFar(t.outs[n], 0)
  <2>1. n \in Nat
    BY <1>1
  <2>2. QED
    BY <2>1 DEF OutputsSoFar, L
<1>5. \A k, p : OutputsSoFar(t, p, k) = [n \in 1..L |-> OutputsSoFar(t, p, k)[n]]
  BY DEF OutputsSoFar, L
<1>6. OutputsSoFar(t, "output", 1) = Repeat(NoOutput, L)
  <2>1. ASSUME NEW n \in 1..L PROVE OutputsSoFar(t, "output", 1)[n] = NoOutput
    <3>1. n = 1 \/ n > 1
      BY <1>1
    <3>2. OutputsSoFar(t, "output", 1)[n] = OutputSoFar(t.outs[n], 0)
      BY <1>4, <3>1
    <3>3. QED
      BY <1>1, <1>2, <3>2
  <2>2. QED
    BY <1>5, <2>1 DEF Repeat
<1>7. OutputsSoFar(t, "output", L + 1) = t.outs
  <2>1. ASSUME NEW n \in 1..L PROVE OutputsSoFar(t, "output", L + 1)[n] = t.outs[n]
    <3>1. n < L + 1 /\ L + 1 \in Nat
      BY <1>1
    <3>2. OutputsSoFar(t, "output", L + 1)[n] = OutputSoFar(t.outs[n], 2)
      BY <1>4, <3>1
    <3>3. QED
      BY <1>1, <1>2, <3>2
  <2>2. QED
    BY <1>1, <1>5, <2>1
<1>8. ASSUME NEW k \in 1..L
      PROVE  /\ [OutputsSoFar(t, "output", k) EXCEPT ![k] = [@ EXCEPT !.amount = t.outs[k].amount]] = OutputsSoFar(t, "outscript", k)
             /\ [OutputsSoFar(t, "outscript", k) EXCEPT ![k] = [@ EXCEPT !.script = t.outs[k].script]] = OutputsSoFar(t, "output", k + 1)
             /\ Len(OutputsSoFar(t, "output", k)) = L /\ Len(OutputsSoFar(t, "outscript", k)) = L
  <2> DEFINE f == OutputsSoFar(t, "output", k)
             g == OutputsSoFar(t, "outscript", k)
             e == OutputsSoFar(t, "output", k + 1)
             n0 == [f[k] EXCEPT !.amount = t.outs[k].amount]
             b0 == [g[k] EXCEPT !.script = t.outs[k].script]
  <2>1. n0 = g[k] /\ b0 = e[k]
    <3>1. f[k] = OutputSoFar(t.outs[k], 0) /\ g[k] = OutputSoFar(t.outs[k], 1) /\ e[k] = OutputSoFar(t.outs[k], 2)
      <4>1. k \in Nat /\ k + 1 \in Nat /\ k < k + 1
        BY <1>1
      <4>2. f[k] = OutputSoFar(t.outs[k], 0) /\ g[k] = OutputSoFar(t.outs[k], 1)
        BY <1>4, <4>1
      <4>3. e[k] = OutputSoFar(t.outs[k], 2)
        BY <1>4, <4>1
      <4>4. QED
        BY <4>2, <4>3
    <3> HIDE DEF f, g, e
    <3>2. QED
      BY <1>3, <3>1
  <2>2. ASSUME NEW n \in 1..L, n # k PROVE f[n] = g[n] /\ g[n] = e[n]
    <3>1. k \in Nat /\ k + 1 \in Nat /\ ((n < k /\ n < k + 1) \/ (n > k /\ (n = k + 1 \/ n > k + 1)))
      BY <1>1, <2>2
    <3>2. CASE n < k /\ n < k + 1
      BY <1>4, <3>1, <3>2
    <3>3. CASE n > k /\ (n = k + 1 \/ n > k + 1)
      BY <1>4, <3>1, <3>3
    <3>4. QED
      BY <3>1, <3>2, <3>3
  <2>3. f = [n \in 1..L |-> f[n]] /\ g = [n \in 1..L |-> g[n]] /\ e = [n \in 1..L |-> e[n]]
    BY <1>5
  <2> HIDE DEF f, g, e, n0, b0
  <2>4. [f EXCEPT ![k] = n0] = g /\ [g EXCEPT ![k] = b0] = e /\ Len(f) = L /\ Len(g) = L
    <3>1. Len(f) = L /\ Len(g) = L
      BY <1>1, <2>3
    <3>2. [f EXCEPT ![k] = n0] = g
      BY <2>1, <2>2, <2>3
    <3>3. [g EXCEPT ![k] = b0] = e
      BY <2>1, <2>2, <2>3
    <3>4. QED
      BY <3>1, <3>2, <3>3
  <2>5. QED
    BY <2>4 DEF f, g, e, n0, b0
<1>9. QED
  BY <1>6, <1>7, <1>8 DEF L

LEMMA ReadingFacts ==
  ASSUME WireInv, NEW t, Reading(t), h.err = "none"
  PROVE  /\ StreamOK /\ h \in Helpers /\ tx \in ShortTxs
         /\ Holds(t, tx, pc, i, j) /\ Marked(t, pc, segwit)
  BY TypesOf DEF Reading, Goes

LEMMA VersionRead ==
  ASSUME WireInv, ReadVersion, NEW t \in BtcTxs, h.err = "none", Reading(t)
  PROVE  Reading(t)'
<1> DEFINE v == readNumber(h, 4)
           x == LittleEndian(4, t.version)
           y == MarkerOn(t)
<1>1. pc = "version" /\ tx' = [tx EXCEPT !.version = v.value] /\ h' = v.h /\ GoTo("inputs", 1) /\ Same
  BY Zenon DEF ReadVersion
<1>2. Unread(t, pc, i, j) = x \o y
  BY <1>1, UnreadAt DEF VersionOn
<1>3. t.version \in Nat /\ t.version < V!U32
  BY WordTypes, Radix DEF BtcTxs
<1>4. x \in Octet /\ y \in Octet
  BY <1>3, LittleEndianType, BytesUnread DEF Octet
<1>5. Comes(h.n, x)
  BY <1>2, <1>4, NextComes, Zenon
<1>6. (v.value = t.version /\ Got(h, v.h, x)) \/ Fell(h, v.h, x)
  BY <1>3, <1>5, ReadingFacts, WordsFit, NumberRead
<1> HIDE DEF v, x, y
<1>7. CASE Fell(h, v.h, x)
  <2>1. h'.err # "none"
    BY <1>1, <1>7 DEF Fell
  <2>2. QED
    BY <1>1, <1>2, <1>4, <1>7, <2>1, Falls, Zenon
<1>8. CASE v.value = t.version /\ Got(h, v.h, x)
  <2>1. pc' = "inputs" /\ i' = 1 /\ j' = 1
    BY <1>1 DEF GoTo
  <2>2. Unread(t, pc', i', j') = y
    BY <2>1, UnreadAt DEF y
  <2>3. Holds(t, tx', pc', i', j')
    <3>1. tx'.version = t.version
      BY <1>1, <1>8, ReadingFacts DEF ShortTxs
    <3>2. QED
      BY <2>1, <3>1 DEF Holds, Early, OutputPlaces, Late
  <2>4. Marked(t, pc', segwit')
    BY <2>1 DEF Marked
  <2>5. Got(h, h', x)
    BY <1>1, <1>8
  <2>6. QED
    BY <1>1, <1>2, <1>4, <2>2, <2>3, <2>4, <2>5, GoesFurther, Zenon
<1>9. QED
  BY <1>6, <1>7, <1>8, Zenon

\* Of what is written there is a count of inputs, and as many inputs.
LEMMA InputsMade ==
  ASSUME WireInv, NEW t \in BtcTxs, t.ins # <<>>, h.err = "none", Reading(t),
         Unread(t, pc, i, j) = InputCountOn(t), pc # "version",
         MakeInputs(readVarInt(h)), Same, pc' = "input" => segwit' = HasWitness(t)
  PROVE  Reading(t)'
<1> DEFINE cnt == readVarInt(h)
           x == VarInt(Len(t.ins))
           y == InputsOn(t, 1)
<1>1. Len(t.ins) \in Word64 /\ Len(t.ins) \in Nat /\ Len(t.ins) # 0
  BY PartsType, WordTypes
<1>2. Unread(t, pc, i, j) = x \o y
  BY DEF InputCountOn
<1>3. x \in Octet /\ y \in Octet
  <2>1. 1 \in 1..Len(t.ins) + 1
    BY <1>1
  <2>2. QED
    BY <1>1, <2>1, VarIntType, InputsUnread
<1>4. (cnt.value = Len(t.ins) /\ Got(h, cnt.h, x)) \/ Fell(h, cnt.h, x)
  <2>1. Comes(h.n, x)
    BY <1>2, <1>3, NextComes, Zenon
  <2>2. QED
    BY <1>1, <2>1, ReadingFacts, CountRead
<1>5. cnt.h \in Helpers
  BY ReadingFacts, ReadVarIntType
<1>6. [cnt.h EXCEPT !.err = "limit"].err # "none"
  BY <1>5 DEF Helpers
<1>7. IF cnt.value > MaxIns THEN TooMany(cnt.h)
      ELSE tx' = [tx EXCEPT !.ins = Repeat(NoInput, cnt.value)] /\ h' = cnt.h /\ EnterInputs
  BY Zenon DEF MakeInputs
<1> HIDE DEF cnt, x, y
<1>8. CASE Fell(h, cnt.h, x)
  <2>1. h'.err # "none"
    BY <1>6, <1>7, <1>8 DEF TooMany, Fell
  <2>2. QED
    BY <1>2, <1>3, <1>8, <2>1, Falls, Zenon
<1>9. CASE cnt.value = Len(t.ins) /\ Got(h, cnt.h, x)
  <2>1. CASE cnt.value > MaxIns
    <3>1. h'.err # "none"
      BY <1>6, <1>7, <2>1 DEF TooMany
    <3>2. ~ WithinLimits(t)
      BY <1>1, <1>9, <2>1, Limits DEF WithinLimits
    <3>3. QED
      BY <3>1, <3>2, Refuses, Zenon
  <2>2. CASE ~ (cnt.value > MaxIns)
    <3>1. tx' = [tx EXCEPT !.ins = Repeat(NoInput, Len(t.ins))] /\ h' = cnt.h /\ EnterInputs
      BY <1>7, <1>9, <2>2
    <3>2. tx'.ins = Repeat(NoInput, Len(t.ins)) /\ tx'.version = tx.version
      BY <3>1, ReadingFacts DEF ShortTxs
    <3>3. Len(tx'.ins) = Len(t.ins)
      BY <1>1, <3>2 DEF Repeat
    <3>4. pc' = "input" /\ i' = 1 /\ j' = 1
      BY <1>1, <3>1, <3>3 DEF EnterInputs, GoTo
    <3>5. Unread(t, pc', i', j') = y
      BY <3>4, UnreadAt DEF y
    <3>6. Holds(t, tx', pc', i', j')
      <4>1. tx.version = t.version
        BY ReadingFacts DEF Holds
      <4>2. tx'.ins = InputsSoFar(t, "input", 1, 1)
        BY <3>2, InputLists
      <4>3. QED
        BY <3>2, <3>4, <4>1, <4>2 DEF Holds, Early, OutputPlaces, Late
    <3>7. Marked(t, pc', segwit')
      BY <3>4 DEF Marked
    <3>8. Got(h, h', x)
      BY <1>9, <3>1
    <3>9. QED
      BY <1>2, <1>3, <3>5, <3>6, <3>7, <3>8, GoesFurther, Zenon
  <2>3. QED
    BY <2>1, <2>2, Zenon
<1>10. QED
  BY <1>4, <1>8, <1>9, Zenon

LEMMA InputCountRead ==
  ASSUME WireInv, ReadInputCount, NEW t \in BtcTxs, t.ins # <<>>, h.err = "none", Reading(t)
  PROVE  Reading(t)'
<1> DEFINE cnt == readVarInt(h)
<1>1. /\ pc = "inputs" /\ segwit' = (pc' = "flag") /\ Same
      /\ IF cnt.value = 0 THEN h' = cnt.h /\ GoTo("flag", 1) /\ tx' = tx ELSE MakeInputs(cnt)
  BY Zenon DEF ReadInputCount
<1>2. cnt.h \in Helpers /\ tx.version = t.version
  BY <1>1, ReadingFacts, ReadVarIntType DEF Holds
<1>3. Unread(t, pc, i, j) = MarkerOn(t)
  BY <1>1, UnreadAt
<1>4. CASE HasWitness(t)
  <2> DEFINE x == VarInt(0)
             y == FlagOn(t)
  <2>1. Unread(t, pc, i, j) = x \o y
    BY <1>3, <1>4 DEF MarkerOn
  <2>2. x \in Octet /\ y \in Octet
    BY VarIntType, BytesUnread
  <2>3. (cnt.value = 0 /\ Got(h, cnt.h, x)) \/ Fell(h, cnt.h, x)
    <3>1. Comes(h.n, x)
      BY <2>1, <2>2, NextComes, Zenon
    <3>2. QED
      BY <3>1, ReadingFacts, CountRead, WordTypes
  <2>4. [cnt.h EXCEPT !.err = "limit"].err # "none"
    BY <1>2 DEF Helpers
  <2> HIDE DEF cnt, x, y
  <2>5. CASE Fell(h, cnt.h, x)
    <3>1. h'.err # "none"
      BY <1>1, <2>4, <2>5 DEF MakeInputs, TooMany, Fell
    <3>2. QED
      BY <1>1, <2>1, <2>2, <2>5, <3>1, Falls, Zenon
  <2>6. CASE cnt.value = 0 /\ Got(h, cnt.h, x)
    <3>1. h' = cnt.h /\ pc' = "flag" /\ i' = 1 /\ j' = 1 /\ tx' = tx /\ segwit' = TRUE
      BY <1>1, <2>6 DEF GoTo
    <3>2. Unread(t, pc', i', j') = y
      BY <3>1, UnreadAt DEF y
    <3>3. Holds(t, tx', pc', i', j')
      BY <1>2, <3>1 DEF Holds, Early, OutputPlaces, Late
    <3>4. HasWitness(t) = TRUE
      BY <1>4 DEF HasWitness
    <3>5. Marked(t, pc', segwit')
      BY <3>1, <3>4 DEF Marked
    <3>6. Got(h, h', x)
      BY <2>6, <3>1
    <3>7. QED
      BY <1>1, <2>1, <2>2, <3>2, <3>3, <3>5, <3>6, GoesFurther, Zenon
  <2>7. QED
    BY <2>3, <2>5, <2>6, Zenon
<1>5. CASE ~ HasWitness(t)
  <2> DEFINE x == VarInt(Len(t.ins))
             y == InputsOn(t, 1)
  <2>1. Unread(t, pc, i, j) = InputCountOn(t) /\ InputCountOn(t) = x \o y
    BY <1>3, <1>5 DEF MarkerOn, InputCountOn
  <2>2. CASE cnt.value = 0
    <3>1. Len(t.ins) \in Word64 /\ Len(t.ins) \in Nat /\ Len(t.ins) # 0
      BY PartsType, WordTypes
    <3>2. x \in Octet /\ y \in Octet
      <4>1. 1 \in 1..Len(t.ins) + 1
        BY <3>1
      <4>2. QED
        BY <3>1, <4>1, VarIntType, InputsUnread
    <3>3. Comes(h.n, x)
      BY <2>1, <3>2, NextComes, Zenon
    <3>4. Fell(h, cnt.h, x)
      BY <2>2, <3>1, <3>3, ReadingFacts, CountRead
    <3> HIDE DEF cnt, x, y
    <3>5. h'.err # "none"
      BY <1>1, <2>2, <3>4 DEF Fell
    <3>6. QED
      BY <1>1, <2>1, <3>2, <3>4, <3>5, Falls, Zenon
  <2>3. CASE cnt.value # 0
    <3>1. MakeInputs(cnt)
      BY <1>1, <2>3, Zenon
    <3>2. pc' = "input" => segwit' = HasWitness(t)
      <4>1. HasWitness(t) = FALSE
        BY <1>5 DEF HasWitness
      <4>2. QED
        BY <1>1, <4>1
    <3>3. QED
      BY <1>1, <2>1, <3>1, <3>2, InputsMade
  <2>4. QED
    BY <2>2, <2>3, Zenon
<1>6. QED
  BY <1>4, <1>5, Zenon

LEMMA FlagRead ==
  ASSUME WireInv, ReadFlag, NEW t \in BtcTxs, h.err = "none", Reading(t)
  PROVE  Reading(t)'
<1> DEFINE got == readFull(h, 1)
           x == <<1>>
           y == InputCountOn(t)
<1>1. pc = "flag" /\ h' = got.h /\ GoTo("segwit inputs", 1) /\ tx' = tx /\ segwit' = segwit /\ Same
  BY Zenon DEF ReadFlag
<1>2. Unread(t, pc, i, j) = x \o y
  BY <1>1, UnreadAt DEF FlagOn
<1>3. x \in Octet /\ Len(x) = 1 /\ y \in Octet
  BY BytesUnread, Radix DEF Octet, Octets
<1> HIDE DEF x, y
<1>4. Got(h, got.h, x) \/ Fell(h, got.h, x)
  <2>1. Comes(h.n, x)
    BY <1>2, <1>3, NextComes, Zenon
  <2>2. QED
    BY <1>3, <2>1, ReadingFacts, FullRead
<1> HIDE DEF got
<1>5. CASE Fell(h, got.h, x)
  <2>1. h'.err # "none"
    BY <1>1, <1>5 DEF Fell
  <2>2. QED
    BY <1>1, <1>2, <1>3, <1>5, <2>1, Falls, Zenon
<1>6. CASE Got(h, got.h, x)
  <2>1. pc' = "segwit inputs" /\ i' = 1 /\ j' = 1
    BY <1>1 DEF GoTo
  <2>2. Unread(t, pc', i', j') = y
    BY <2>1, UnreadAt DEF y
  <2>3. Holds(t, tx', pc', i', j')
    BY <1>1, <2>1, ReadingFacts DEF Holds, Early, OutputPlaces, Late
  <2>4. Marked(t, pc', segwit')
    BY <1>1, <2>1, ReadingFacts DEF Marked
  <2>5. Got(h, h', x)
    BY <1>1, <1>6
  <2>6. QED
    BY <1>1, <1>2, <1>3, <2>2, <2>3, <2>4, <2>5, GoesFurther, Zenon
<1>7. QED
  BY <1>4, <1>5, <1>6, Zenon

LEMMA InputCountAgainRead ==
  ASSUME WireInv, ReadInputCountAgain, NEW t \in BtcTxs, t.ins # <<>>, h.err = "none", Reading(t)
  PROVE  Reading(t)'
<1>1. pc = "segwit inputs" /\ MakeInputs(readVarInt(h)) /\ segwit' = segwit /\ Same
  BY Zenon DEF ReadInputCountAgain
<1>2. Unread(t, pc, i, j) = InputCountOn(t)
  BY <1>1, UnreadAt
<1>3. segwit' = HasWitness(t)
  BY <1>1, ReadingFacts DEF Marked
<1>4. QED
  BY <1>1, <1>2, <1>3, InputsMade

LEMMA AtInput ==
  ASSUME WireInv, NEW t \in BtcTxs, Holds(t, tx, pc, i, j), pc \in InputPlaces
  PROVE  /\ pc \notin Early /\ Len(tx.ins) = Len(t.ins) /\ Len(t.ins) \in Nat /\ i \in Nat
         /\ i \in 1..Len(t.ins) /\ i \in 1..Len(tx.ins) /\ t.ins[i] \in TxInputs
         /\ tx.ins[i] = InputSoFar(t.ins[i], Stage(pc, i, i), j)
<1>1. pc \notin Early
  BY DEF InputPlaces, Early
<1>2. tx.ins = InputsSoFar(t, pc, i, j)
  BY <1>1 DEF Holds
<1>3. Len(t.ins) \in Nat /\ \A k \in 1..Len(t.ins) : t.ins[k] \in TxInputs
  BY PartsType, WordTypes
<1>4. Len(tx.ins) = Len(t.ins)
  BY <1>2, <1>3 DEF InputsSoFar
<1>5. i \in 1..Len(t.ins) /\ i \in 1..Len(tx.ins)
  BY <1>4, AtPlace
<1>6. tx.ins[i] = InputSoFar(t.ins[i], Stage(pc, i, i), j)
  BY <1>2, <1>5 DEF InputsSoFar
<1>7. i \in Nat
  BY <1>3, <1>5
<1>8. QED
  BY <1>1, <1>3, <1>4, <1>5, <1>6, <1>7

LEMMA InputSet ==
  ASSUME NEW u \in ShortTxs, NEW k \in 1..Len(u.ins), NEW in
  PROVE  LET v == [u EXCEPT !.ins[k] = in]
         IN  v.version = u.version /\ v.outs = u.outs /\ v.ins = Placed(u.ins, k, in)
  BY DEF ShortTxs, Placed

LEMMA InputHolds ==
  ASSUME NEW t \in BtcTxs, NEW u, NEW v, NEW k \in 1..Len(t.ins), NEW in, NEW p, NEW q, NEW k2, NEW m, NEW m2,
         Holds(t, u, p, k, m), p \in InputPlaces, q \in InputPlaces, q \in Late => p \in Late,
         v.version = u.version, v.outs = u.outs, v.ins = Placed(u.ins, k, in),
         Moves(t, p, q, k, k2, m2, in)
  PROVE  Holds(t, v, q, k2, m2)
<1>1. /\ p # "version" /\ p \notin Early /\ q \notin OutputPlaces /\ q # "done"
  BY DEF InputPlaces, OutputPlaces, Early
<1>2. u.version = t.version /\ u.ins = InputsSoFar(t, p, k, m) /\ (p \in Late => u.outs = t.outs)
  BY <1>1 DEF Holds
<1>3. Placed(InputsSoFar(t, p, k, m), k, in) = InputsSoFar(t, q, k2, m2)
  <2>1. Becomes(InputsSoFar(t, p, k, m), k, in, InputsSoFar(t, q, k2, m2))
    BY InputsMove, Zenon
  <2>2. QED
    BY <2>1 DEF Becomes
<1>4. v.ins = InputsSoFar(t, q, k2, m2)
  BY <1>2, <1>3
<1>5. QED
  BY <1>1, <1>2, <1>4, Zenon DEF Holds

LEMMA InputsGoOn ==
  ASSUME WireInv, NEW t \in BtcTxs, i \in 1..Len(t.ins), Len(tx.ins) = Len(t.ins), AfterInput,
         Holds(t, tx', "input", i + 1, 1)
  PROVE  /\ Unread(t, pc', i', j') = InputsOn(t, i + 1) /\ Holds(t, tx', pc', i', j')
         /\ pc' \in {"input", "outputs"}
<1>1. Len(t.ins) \in Nat
  BY PartsType, WordTypes
<1>2. CASE i < Len(tx.ins)
  <2>1. pc' = "input" /\ i' = i + 1 /\ j' = 1
    BY <1>2 DEF AfterInput, GoTo
  <2>2. QED
    BY <2>1, UnreadAt
<1>3. CASE ~ (i < Len(tx.ins))
  <2>1. pc' = "outputs" /\ i' = 1 /\ j' = 1
    BY <1>3 DEF AfterInput, GoTo
  <2>2. i + 1 = Len(t.ins) + 1
    BY <1>1, <1>3
  <2>3. Unread(t, pc', i', j') = InputsOn(t, i + 1)
    <3>1. Unread(t, "outputs", 1, 1) = OutputCountOn(t)
      BY UnreadAt, Zenon
    <3>2. InputsOn(t, Len(t.ins) + 1) = OutputCountOn(t)
      BY InputsUnread
    <3>3. QED
      BY <2>1, <2>2, <3>1, <3>2, Zenon
  <2>4. tx'.version = t.version /\ tx'.ins = InputsSoFar(t, "input", i + 1, 1)
    BY DEF Holds, Early
  <2>5. tx'.ins = InputsSoFar(t, "outputs", 1, 1)
    BY <2>2, <2>4, InputLists
  <2>6. Holds(t, tx', "outputs", 1, 1)
    BY <2>4, <2>5 DEF Holds, Early, OutputPlaces, Late
  <2>7. QED
    BY <2>1, <2>3, <2>6
<1>4. QED
  BY <1>2, <1>3

LEMMA TxidRead ==
  ASSUME WireInv, ReadTxid, NEW t \in BtcTxs, h.err = "none", Reading(t)
  PROVE  Reading(t)'
<1> DEFINE got == readFull(h, TxidLen)
           in == t.ins[i]
           x == Reverse(in.txid)
           y == VoutOn(t, i)
           id == Reverse(got.bytes)
<1>1. /\ pc = "input" /\ tx' = [tx EXCEPT !.ins[i].txid = id] /\ h' = got.h
      /\ GoTo("vout", i) /\ segwit' = segwit /\ Same
  BY Zenon DEF ReadTxid
<1>2. /\ StreamOK /\ h \in Helpers /\ tx \in ShortTxs /\ Holds(t, tx, pc, i, j) /\ Marked(t, pc, segwit)
  BY ReadingFacts
<1>3. pc \in InputPlaces /\ "vout" \in InputPlaces /\ "vout" \notin Late
  BY <1>1 DEF InputPlaces, Late
<1>4. /\ i \in 1..Len(t.ins) /\ i \in 1..Len(tx.ins) /\ i \in Nat /\ in \in TxInputs
      /\ tx.ins[i] = InputSoFar(in, 0, j)
  BY <1>1, <1>2, <1>3, AtInput, StageHere
<1>5. Unread(t, pc, i, j) = x \o y
  BY <1>1, <1>4, UnreadAt, InputsUnread
<1>6. in.txid \in Octet /\ Len(in.txid) = TxidLen /\ TxidLen \in Nat
  BY <1>4, Radix DEF TxInputs, Buffers, Slices, Octet
<1>7. x \in Octet /\ Len(x) = TxidLen /\ Reverse(x) = in.txid
  <2> DEFINE b == in.txid
  <2>1. b \in Seq(Octets) /\ Len(b) = TxidLen
    BY <1>6 DEF Octet
  <2> HIDE DEF b
  <2>2. Reverse(b) \in Seq(Octets) /\ Len(Reverse(b)) = TxidLen
    BY <1>6, <2>1 DEF Reverse
  <2>3. Reverse(Reverse(b)) = b
    BY <1>6, <2>1 DEF Reverse
  <2>4. QED
    BY <2>2, <2>3 DEF b, Octet
<1>8. y \in Octet
  BY <1>4, InputsUnread
<1>9. (got.bytes = x /\ Got(h, got.h, x)) \/ Fell(h, got.h, x)
  <2> HIDE DEF x, y
  <2>1. Comes(h.n, x)
    BY <1>5, <1>7, <1>8, NextComes, Zenon
  <2>2. QED
    BY <1>2, <1>7, <2>1, FullRead
<1>10. got.bytes \in Octet /\ Len(got.bytes) = TxidLen
  BY <1>2, <1>6, ReadFullType
<1> HIDE DEF got, x, y, in
<1>11. CASE Fell(h, got.h, x)
  <2>1. h'.err # "none"
    BY <1>1, <1>11 DEF Fell
  <2>2. QED
    BY <1>1, <1>5, <1>7, <1>8, <1>11, <2>1, Falls, Zenon
<1>12. CASE got.bytes = x /\ Got(h, got.h, x)
  <2>1. pc' = "vout" /\ i' = i /\ j' = 1 /\ id = in.txid
    BY <1>1, <1>7, <1>12 DEF GoTo
  <2>2. id \in Txids
    BY <1>6, <2>1 DEF Txids
  <2> HIDE DEF id
  <2>3. Unread(t, pc', i', j') = y
    BY <2>1, UnreadAt DEF y
  <2>4. Holds(t, tx', "vout", i, 1)
    <3> DEFINE f == [tx.ins[i] EXCEPT !.txid = id]
    <3>1. tx' = [tx EXCEPT !.ins[i] = f]
      BY <1>1, <1>2, <1>4, <2>2, FieldChanged, EmptyTransaction DEF ShortInputs
    <3>2. f = InputSoFar(in, Stage("vout", i, i), 1)
      <4>1. Stage("vout", i, i) = 1
        BY <1>4, StageHere
      <4>2. [InputSoFar(in, 0, j) EXCEPT !.txid = in.txid] = InputSoFar(in, 1, 1)
        BY <1>4, InputFields
      <4>3. QED
        BY <1>4, <2>1, <4>1, <4>2
    <3> HIDE DEF f
    <3>3. tx'.version = tx.version /\ tx'.outs = tx.outs /\ tx'.ins = Placed(tx.ins, i, f)
      BY <1>2, <1>4, <3>1, InputSet
    <3>4. OthersStay(t, pc, "vout", i, i)
      BY <1>1, <1>4, StageMoves DEF OthersStay
    <3>5. Moves(t, pc, "vout", i, i, 1, f)
      BY <3>2, <3>4 DEF in, Moves
    <3>6. Holds(t, tx, pc, i, j) /\ i \in 1..Len(t.ins) /\ ("vout" \in Late => pc \in Late)
      BY <1>2, <1>3, <1>4
    <3>7. QED
      BY <1>3, <3>3, <3>5, <3>6, InputHolds, Zenon
  <2>5. Marked(t, pc', segwit')
    BY <1>1, <1>2, <2>1 DEF Marked
  <2>6. Got(h, h', x)
    BY <1>1, <1>12
  <2>7. Holds(t, tx', pc', i', j')
    BY <2>1, <2>4
  <2>8. QED
    BY <1>1, <1>5, <1>7, <1>8, <2>3, <2>5, <2>6, <2>7, GoesFurther, Zenon
<1>13. QED
  BY <1>9, <1>11, <1>12, Zenon

LEMMA VoutRead ==
  ASSUME WireInv, ReadVout, NEW t \in BtcTxs, h.err = "none", Reading(t)
  PROVE  Reading(t)'
<1> DEFINE got == readNumber(h, 4)
           in == t.ins[i]
           x == LittleEndian(4, in.vout)
           y == ScriptOn(t, i)
<1>1. /\ pc = "vout" /\ tx' = [tx EXCEPT !.ins[i].vout = got.value] /\ h' = got.h
      /\ GoTo("script", i) /\ segwit' = segwit /\ Same
  BY Zenon DEF ReadVout
<1>2. /\ StreamOK /\ h \in Helpers /\ tx \in ShortTxs /\ Holds(t, tx, pc, i, j) /\ Marked(t, pc, segwit)
  BY ReadingFacts
<1>3. pc \in InputPlaces /\ "script" \in InputPlaces /\ "script" \notin Late
  BY <1>1 DEF InputPlaces, Late
<1>4. /\ i \in 1..Len(t.ins) /\ i \in 1..Len(tx.ins) /\ i \in Nat /\ in \in TxInputs
      /\ tx.ins[i] = InputSoFar(in, 1, j)
  BY <1>1, <1>2, <1>3, AtInput, StageHere
<1>5. Unread(t, pc, i, j) = x \o y
  BY <1>1, <1>4, UnreadAt DEF VoutOn
<1>6. in.vout \in Word32 /\ in.vout \in Nat /\ in.vout < V!U32
  <2>1. in.vout \in Word32
    BY <1>4 DEF TxInputs
  <2>2. QED
    BY <2>1, WordTypes, Radix
<1>7. x \in Octet /\ y \in Octet
  BY <1>4, <1>6, LittleEndianType, InputsUnread DEF Octet
<1>8. (got.value = in.vout /\ Got(h, got.h, x)) \/ Fell(h, got.h, x)
  <2>1. Comes(h.n, x)
    BY <1>5, <1>7, NextComes, Zenon
  <2>2. Fits(4, in.vout)
    BY <1>6, WordsFit
  <2>3. QED
    BY <1>2, <1>6, <2>1, <2>2, NumberRead
<1> HIDE DEF got, x, y, in
<1>9. CASE Fell(h, got.h, x)
  <2>1. h'.err # "none"
    BY <1>1, <1>9 DEF Fell
  <2>2. QED
    BY <1>1, <1>5, <1>7, <1>9, <2>1, Falls, Zenon
<1>10. CASE got.value = in.vout /\ Got(h, got.h, x)
  <2>1. pc' = "script" /\ i' = i /\ j' = 1 /\ tx' = [tx EXCEPT !.ins[i].vout = in.vout]
    BY <1>1, <1>10 DEF GoTo
  <2>2. Unread(t, pc', i', j') = y
    BY <2>1, UnreadAt DEF y
  <2>3. Holds(t, tx', "script", i, 1)
    <3> DEFINE f == [tx.ins[i] EXCEPT !.vout = in.vout]
    <3>1. tx' = [tx EXCEPT !.ins[i] = f]
      BY <1>2, <1>4, <1>6, <2>1, FieldChanged, EmptyTransaction DEF ShortInputs
    <3>2. f = InputSoFar(in, Stage("script", i, i), 1)
      <4>1. Stage("script", i, i) = 2
        BY <1>4, StageHere
      <4>2. [InputSoFar(in, 1, j) EXCEPT !.vout = in.vout] = InputSoFar(in, 2, 1)
        BY DEF InputSoFar
      <4>3. QED
        BY <1>4, <4>1, <4>2
    <3> HIDE DEF f
    <3>3. tx'.version = tx.version /\ tx'.outs = tx.outs /\ tx'.ins = Placed(tx.ins, i, f)
      BY <1>2, <1>4, <3>1, InputSet
    <3>4. OthersStay(t, pc, "script", i, i)
      BY <1>1, <1>4, StageMoves DEF OthersStay
    <3>5. Moves(t, pc, "script", i, i, 1, f)
      BY <3>2, <3>4 DEF in, Moves
    <3>6. Holds(t, tx, pc, i, j) /\ i \in 1..Len(t.ins) /\ ("script" \in Late => pc \in Late)
      BY <1>2, <1>3, <1>4
    <3>7. QED
      BY <1>3, <3>3, <3>5, <3>6, InputHolds, Zenon
  <2>4. Marked(t, pc', segwit')
    BY <1>1, <1>2, <2>1 DEF Marked
  <2>5. Got(h, h', x)
    BY <1>1, <1>10
  <2>6. Holds(t, tx', pc', i', j')
    BY <2>1, <2>3
  <2>7. QED
    BY <1>1, <1>5, <1>7, <2>2, <2>4, <2>5, <2>6, GoesFurther, Zenon
<1>11. QED
  BY <1>8, <1>9, <1>10, Zenon

LEMMA ScriptRead ==
  ASSUME WireInv, ReadScript, NEW t \in BtcTxs, h.err = "none", Reading(t)
  PROVE  Reading(t)'
<1> DEFINE got == readVarBuf(h)
           in == t.ins[i]
           x == VarBuf(in.script)
           y == SequenceOn(t, i)
<1>1. /\ pc = "script" /\ tx' = [tx EXCEPT !.ins[i].script = got.bytes] /\ h' = got.h
      /\ GoTo("sequence", i) /\ segwit' = segwit /\ Same
  BY Zenon DEF ReadScript
<1>2. /\ StreamOK /\ h \in Helpers /\ tx \in ShortTxs /\ Holds(t, tx, pc, i, j) /\ Marked(t, pc, segwit)
  BY ReadingFacts
<1>3. pc \in InputPlaces /\ "sequence" \in InputPlaces /\ "sequence" \notin Late
  BY <1>1 DEF InputPlaces, Late
<1>4. /\ i \in 1..Len(t.ins) /\ i \in 1..Len(tx.ins) /\ i \in Nat /\ in \in TxInputs
      /\ tx.ins[i] = InputSoFar(in, 2, j)
  BY <1>1, <1>2, <1>3, AtInput, StageHere
<1>5. Unread(t, pc, i, j) = x \o y
  BY <1>1, <1>4, UnreadAt DEF ScriptOn
<1>6. in.script \in Buffers /\ in.script \in Octet
  BY <1>4 DEF TxInputs, Buffers, Slices, Octet
<1>7. x \in Octet /\ y \in Octet
  BY <1>4, <1>6, VarBufType, InputsUnread
<1>8. \/ got.bytes = in.script /\ Got(h, got.h, x)
      \/ Fell(h, got.h, x)
      \/ got.h.err # "none" /\ Len(in.script) > MaxBuf
  <2>1. Comes(h.n, x)
    BY <1>5, <1>7, NextComes, Zenon
  <2>2. QED
    <3> DEFINE b == in.script
    <3>1. b \in Buffers /\ Comes(h.n, VarBuf(b)) /\ h.err = "none" /\ h \in Helpers /\ StreamOK
      BY <1>2, <1>6, <2>1
    <3> HIDE DEF b
    <3>2. \/ got.bytes = b /\ Got(h, got.h, VarBuf(b))
          \/ Fell(h, got.h, VarBuf(b))
          \/ got.h.err # "none" /\ Len(b) > MaxBuf
      BY <3>1, BufferRead
    <3>3. QED
      BY <3>2, Zenon DEF b
<1>9. got.bytes \in ShortBuffers
  BY <1>2, ReadVarBufType
<1> HIDE DEF got, x, y, in
<1>10. CASE Fell(h, got.h, x)
  <2>1. h'.err # "none"
    BY <1>1, <1>10 DEF Fell
  <2>2. QED
    BY <1>1, <1>5, <1>7, <1>10, <2>1, Falls, Zenon
<1>11. CASE got.h.err # "none" /\ Len(in.script) > MaxBuf
  <2>1. ~ WithinLimits(t)
    BY <1>4, <1>6, <1>11, Limits DEF WithinLimits, Octet, in
  <2>2. QED
    BY <1>1, <1>11, <2>1, Refuses, Zenon
<1>12. CASE got.bytes = in.script /\ Got(h, got.h, x)
  <2>1. pc' = "sequence" /\ i' = i /\ j' = 1 /\ tx' = [tx EXCEPT !.ins[i].script = in.script]
    BY <1>1, <1>12 DEF GoTo
  <2>2. Unread(t, pc', i', j') = y
    BY <2>1, UnreadAt DEF y
  <2>3. Holds(t, tx', "sequence", i, 1)
    <3> DEFINE f == [tx.ins[i] EXCEPT !.script = in.script]
    <3>1. tx' = [tx EXCEPT !.ins[i] = f]
      BY <1>2, <1>4, <1>12, <1>9, <2>1, FieldChanged, EmptyTransaction DEF ShortInputs
    <3>2. f = InputSoFar(in, Stage("sequence", i, i), 1)
      <4>1. Stage("sequence", i, i) = 3
        BY <1>4, StageHere
      <4>2. [InputSoFar(in, 2, j) EXCEPT !.script = in.script] = InputSoFar(in, 3, 1)
        BY DEF InputSoFar
      <4>3. QED
        BY <1>4, <4>1, <4>2
    <3> HIDE DEF f
    <3>3. tx'.version = tx.version /\ tx'.outs = tx.outs /\ tx'.ins = Placed(tx.ins, i, f)
      BY <1>2, <1>4, <3>1, InputSet
    <3>4. OthersStay(t, pc, "sequence", i, i)
      BY <1>1, <1>4, StageMoves DEF OthersStay
    <3>5. Moves(t, pc, "sequence", i, i, 1, f)
      BY <3>2, <3>4 DEF in, Moves
    <3>6. Holds(t, tx, pc, i, j) /\ i \in 1..Len(t.ins) /\ ("sequence" \in Late => pc \in Late)
      BY <1>2, <1>3, <1>4
    <3>7. QED
      BY <1>3, <3>3, <3>5, <3>6, InputHolds, Zenon
  <2>4. Marked(t, pc', segwit')
    BY <1>1, <1>2, <2>1 DEF Marked
  <2>5. Got(h, h', x)
    BY <1>1, <1>12
  <2>6. Holds(t, tx', pc', i', j')
    BY <2>1, <2>3
  <2>7. QED
    BY <1>1, <1>5, <1>7, <2>2, <2>4, <2>5, <2>6, GoesFurther, Zenon
<1>13. QED
  BY <1>8, <1>10, <1>12, <1>11, Zenon

LEMMA SequenceRead ==
  ASSUME WireInv, ReadSequence, NEW t \in BtcTxs, h.err = "none", Reading(t)
  PROVE  Reading(t)'
<1> DEFINE got == readNumber(h, 4)
           in == t.ins[i]
           x == LittleEndian(4, in.sequence)
           y == InputsOn(t, i + 1)
<1>1. /\ pc = "sequence" /\ tx' = [tx EXCEPT !.ins[i].sequence = got.value] /\ h' = got.h
      /\ AfterInput /\ segwit' = segwit /\ Same
  BY Zenon DEF ReadSequence
<1>2. /\ StreamOK /\ h \in Helpers /\ tx \in ShortTxs /\ Holds(t, tx, pc, i, j) /\ Marked(t, pc, segwit)
  BY ReadingFacts
<1>3. pc \in InputPlaces /\ "input" \in InputPlaces /\ "input" \notin Late
  BY <1>1 DEF InputPlaces, Late
<1>4. /\ i \in 1..Len(t.ins) /\ i \in 1..Len(tx.ins) /\ i \in Nat /\ in \in TxInputs
      /\ tx.ins[i] = InputSoFar(in, 3, j)
  BY <1>1, <1>2, <1>3, AtInput, StageHere
<1>5. Unread(t, pc, i, j) = x \o y
  BY <1>1, <1>4, UnreadAt DEF SequenceOn
<1>6. in.sequence \in Word32 /\ in.sequence \in Nat /\ in.sequence < V!U32
  <2>1. in.sequence \in Word32
    BY <1>4 DEF TxInputs
  <2>2. QED
    BY <2>1, WordTypes, Radix
<1>7. x \in Octet /\ y \in Octet
  <2>1. Len(t.ins) \in Nat
    BY PartsType, WordTypes
  <2>2. i + 1 \in 1..Len(t.ins) + 1
    BY <1>4, <2>1
  <2>3. QED
    BY <1>6, <2>2, LittleEndianType, InputsUnread DEF Octet
<1>8. (got.value = in.sequence /\ Got(h, got.h, x)) \/ Fell(h, got.h, x)
  <2>1. Comes(h.n, x)
    BY <1>5, <1>7, NextComes, Zenon
  <2>2. Fits(4, in.sequence)
    BY <1>6, WordsFit
  <2>3. QED
    BY <1>2, <1>6, <2>1, <2>2, NumberRead
<1> HIDE DEF got, x, y, in
<1>9. CASE Fell(h, got.h, x)
  <2>1. h'.err # "none"
    BY <1>1, <1>9 DEF Fell
  <2>2. QED
    BY <1>1, <1>5, <1>7, <1>9, <2>1, Falls, Zenon
<1>10. CASE got.value = in.sequence /\ Got(h, got.h, x)
  <2>1. tx' = [tx EXCEPT !.ins[i].sequence = in.sequence]
    BY <1>1, <1>10
  <2>3. Holds(t, tx', "input", i + 1, 1)
    <3> DEFINE f == [tx.ins[i] EXCEPT !.sequence = in.sequence]
    <3>1. tx' = [tx EXCEPT !.ins[i] = f]
      BY <1>2, <1>4, <1>6, <2>1, FieldChanged, EmptyTransaction DEF ShortInputs
    <3>2. f = InputSoFar(in, Stage("input", i, i + 1), 1)
      <4>1. Stage("input", i, i + 1) = 4
        BY <1>4, StageHere
      <4>2. [InputSoFar(in, 3, j) EXCEPT !.sequence = in.sequence] = InputSoFar(in, 4, 1)
        BY <1>4, InputFields
      <4>3. QED
        BY <1>4, <4>1, <4>2
    <3> HIDE DEF f
    <3>3. tx'.version = tx.version /\ tx'.outs = tx.outs /\ tx'.ins = Placed(tx.ins, i, f)
      BY <1>2, <1>4, <3>1, InputSet
    <3>4. OthersStay(t, pc, "input", i, i + 1)
      BY <1>1, <1>4, StageMoves DEF OthersStay
    <3>5. Moves(t, pc, "input", i, i + 1, 1, f)
      BY <3>2, <3>4 DEF in, Moves
    <3>6. Holds(t, tx, pc, i, j) /\ i \in 1..Len(t.ins) /\ ("input" \in Late => pc \in Late)
      BY <1>2, <1>3, <1>4
    <3>7. QED
      BY <1>3, <3>3, <3>5, <3>6, InputHolds, Zenon
  <2>4. Unread(t, pc', i', j') = y /\ Holds(t, tx', pc', i', j') /\ pc' \in {"input", "outputs"}
    <3>1. Len(tx.ins) = Len(t.ins)
      BY <1>2, <1>3, AtInput
    <3>2. QED
      BY <1>1, <1>4, <2>3, <3>1, InputsGoOn, Zenon DEF y
  <2>5. Marked(t, pc', segwit')
    BY <1>1, <1>2, <2>4 DEF Marked
  <2>6. Got(h, h', x)
    BY <1>1, <1>10
  <2>7. QED
    BY <1>1, <1>5, <1>7, <2>4, <2>5, <2>6, GoesFurther, Zenon
<1>11. QED
  BY <1>8, <1>9, <1>10, Zenon

\* Behind the outputs come the witnesses, or the locktime.
LEMMA OutputsGoOn ==
  ASSUME NEW t \in BtcTxs, t.ins # <<>>, segwit = HasWitness(t), AfterOutputs,
         tx'.version = t.version, tx'.ins = InputsSoFar(t, "outputs", 1, 1), tx'.outs = t.outs
  PROVE  /\ Unread(t, pc', i', j') = OutputsDone(t) /\ Holds(t, tx', pc', i', j')
         /\ pc' \in {"witness", "locktime"}
<1>1. tx'.ins # <<>>
  <2>1. t.ins \in Seq(TxInputs) /\ Len(t.ins) # 0 /\ Len(t.ins) \in Nat
    BY PartsType, WordTypes
  <2>2. Len(tx'.ins) = Len(t.ins)
    BY <2>1 DEF InputsSoFar
  <2>3. QED
    BY <2>1, <2>2
<1>2. CASE HasWitness(t)
  <2>1. pc' = "witness" /\ i' = 1 /\ j' = 1
    BY <1>1, <1>2 DEF AfterOutputs, GoTo
  <2>2. Unread(t, pc', i', j') = OutputsDone(t)
    BY <1>2, <2>1, UnreadAt DEF OutputsDone
  <2>3. tx'.ins = InputsSoFar(t, "witness", 1, 1)
    BY InputLists
  <2>4. Holds(t, tx', pc', i', j')
    BY <2>1, <2>3 DEF Holds, Early, OutputPlaces, Late
  <2>5. QED
    BY <2>1, <2>2, <2>4
<1>3. CASE ~ HasWitness(t)
  <2>1. pc' = "locktime" /\ i' = 1 /\ j' = 1
    BY <1>1, <1>3 DEF AfterOutputs, GoTo
  <2>2. Unread(t, pc', i', j') = OutputsDone(t)
    BY <1>3, <2>1, UnreadAt DEF OutputsDone
  <2>3. tx'.ins = InputsSoFar(t, "locktime", 1, 1)
    BY <1>3, InputLists
  <2>4. Holds(t, tx', pc', i', j')
    BY <2>1, <2>3 DEF Holds, Early, OutputPlaces, Late
  <2>5. QED
    BY <2>1, <2>2, <2>4
<1>4. QED
  BY <1>2, <1>3, Zenon

LEMMA OutputCountRead ==
  ASSUME WireInv, ReadOutputCount, NEW t \in BtcTxs, t.ins # <<>>, h.err = "none", Reading(t)
  PROVE  Reading(t)'
<1> DEFINE cnt == readVarInt(h)
           x == VarInt(Len(t.outs))
           y == OutputsOn(t, 1)
<1>1. /\ pc = "outputs" /\ segwit' = segwit /\ Same
      /\ IF cnt.value > MaxOuts THEN TooMany(cnt.h)
         ELSE tx' = [tx EXCEPT !.outs = Repeat(NoOutput, cnt.value)] /\ h' = cnt.h /\ EnterOutputs
  BY Zenon DEF ReadOutputCount
<1>2. /\ StreamOK /\ h \in Helpers /\ tx \in ShortTxs /\ Holds(t, tx, pc, i, j) /\ segwit = HasWitness(t)
  BY <1>1, ReadingFacts DEF Marked
<1>3. Len(t.outs) \in Word64 /\ Len(t.outs) \in Nat
  BY PartsType, WordTypes
<1>4. Unread(t, pc, i, j) = x \o y
  <2>1. Unread(t, pc, i, j) = OutputCountOn(t)
    BY <1>1, UnreadAt
  <2>2. QED
    BY <2>1 DEF OutputCountOn
<1>5. x \in Octet /\ y \in Octet
  <2>1. 1 \in 1..Len(t.outs) + 1
    BY <1>3
  <2>2. QED
    BY <1>3, <2>1, VarIntType, OutputsUnread
<1>6. (cnt.value = Len(t.outs) /\ Got(h, cnt.h, x)) \/ Fell(h, cnt.h, x)
  <2>1. Comes(h.n, x)
    BY <1>4, <1>5, NextComes, Zenon
  <2>2. QED
    BY <1>2, <1>3, <2>1, CountRead
<1>7. cnt.h \in Helpers
  BY <1>2, ReadVarIntType
<1>8. [cnt.h EXCEPT !.err = "limit"].err # "none"
  BY <1>7 DEF Helpers
<1>9. tx.version = t.version /\ tx.ins = InputsSoFar(t, "outputs", 1, 1)
  <2>1. i = 1 /\ j = 1
    BY <1>1, TypesOf DEF Place, InputPlaces, OutputPlaces
  <2>2. QED
    BY <1>1, <1>2, <2>1 DEF Holds, Early
<1> HIDE DEF cnt, x, y
<1>10. CASE Fell(h, cnt.h, x)
  <2>1. h'.err # "none"
    BY <1>1, <1>8, <1>10 DEF TooMany, Fell
  <2>2. QED
    BY <1>1, <1>4, <1>5, <1>10, <2>1, Falls, Zenon
<1>11. CASE cnt.value = Len(t.outs) /\ Got(h, cnt.h, x)
  <2>1. CASE cnt.value > MaxOuts
    <3>1. h'.err # "none"
      BY <1>1, <1>8, <2>1 DEF TooMany
    <3>2. ~ WithinLimits(t)
      BY <1>3, <1>11, <2>1, Limits DEF WithinLimits
    <3>3. QED
      BY <1>1, <3>1, <3>2, Refuses, Zenon
  <2>2. CASE ~ (cnt.value > MaxOuts)
    <3>1. tx' = [tx EXCEPT !.outs = Repeat(NoOutput, Len(t.outs))] /\ h' = cnt.h /\ EnterOutputs
      BY <1>1, <1>11, <2>2, Zenon
    <3>2. tx'.outs = Repeat(NoOutput, Len(t.outs)) /\ tx'.version = t.version /\ tx'.ins = InputsSoFar(t, "outputs", 1, 1)
      BY <1>2, <1>9, <3>1 DEF ShortTxs
    <3>3. Len(tx'.outs) = Len(t.outs)
      BY <1>3, <3>2, MadeLists
    <3>4. tx'.outs = OutputsSoFar(t, "output", 1)
      BY <3>2, OutputLists
    <3>5. Got(h, h', x)
      BY <1>11, <3>1
    <3>6. /\ Unread(t, pc', i', j') = y /\ Holds(t, tx', pc', i', j')
          /\ pc' \in {"output", "witness", "locktime"}
      <4>1. CASE Len(t.outs) = 0
        <5>1. AfterOutputs
          BY <3>1, <3>3, <4>1, Zenon DEF EnterOutputs
        <5>2. 1 = Len(t.outs) + 1
          BY <4>1
        <5>3. tx'.outs = t.outs
          BY <3>4, <5>2, OutputLists
        <5>4. y = OutputsDone(t)
          BY <5>2, OutputsUnread DEF y
        <5>5. QED
          BY <1>2, <3>2, <5>1, <5>3, <5>4, OutputsGoOn
      <4>2. CASE Len(t.outs) # 0
        <5>1. pc' = "output" /\ i' = 1 /\ j' = 1
          BY <3>1, <3>3, <4>2 DEF EnterOutputs, GoTo
        <5>2. tx'.ins = InputsSoFar(t, "output", 1, 1)
          BY <3>2, InputLists
        <5>3. Holds(t, tx', pc', i', j')
          BY <3>2, <3>4, <5>1, <5>2 DEF Holds, Early, OutputPlaces, Late
        <5>4. Unread(t, pc', i', j') = y
          BY <5>1, UnreadAt DEF y
        <5>5. QED
          BY <5>1, <5>3, <5>4
      <4>3. QED
        BY <4>1, <4>2, Zenon
    <3>7. Marked(t, pc', segwit')
      BY <1>1, <1>2, <3>6 DEF Marked
    <3>8. QED
      BY <1>1, <1>4, <1>5, <3>5, <3>6, <3>7, GoesFurther, Zenon
  <2>3. QED
    BY <2>1, <2>2, Zenon
<1>12. QED
  BY <1>6, <1>10, <1>11, Zenon

LEMMA AtOutput ==
  ASSUME WireInv, NEW t \in BtcTxs, Holds(t, tx, pc, i, j), pc \in OutputPlaces
  PROVE  /\ tx.version = t.version /\ tx.ins = InputsSoFar(t, "outputs", 1, 1)
         /\ tx.outs = OutputsSoFar(t, pc, i) /\ Len(tx.outs) = Len(t.outs) /\ Len(t.outs) \in Nat
         /\ i \in 1..Len(t.outs) /\ i \in 1..Len(tx.outs) /\ i \in Nat /\ t.outs[i] \in TxOutputs
         /\ tx.outs[i] \in ShortOutputs
<1>1. pc \notin Early /\ pc # "version" /\ (pc = "output" \/ pc = "outscript")
  BY DEF OutputPlaces, Early
<1>2. tx.version = t.version /\ tx.ins = InputsSoFar(t, pc, i, j) /\ tx.outs = OutputsSoFar(t, pc, i)
  BY <1>1 DEF Holds
<1>3. Len(t.outs) \in Nat /\ \A k \in 1..Len(t.outs) : t.outs[k] \in TxOutputs
  BY PartsType, WordTypes
<1>4. Len(tx.outs) = Len(t.outs)
  BY <1>2, <1>3 DEF OutputsSoFar
<1>5. i \in 1..Len(tx.outs) /\ tx.outs[i] \in ShortOutputs
  BY AtPlace
<1>6. InputsSoFar(t, pc, i, j) = InputsSoFar(t, "outputs", 1, 1)
  <2>1. /\ InputsSoFar(t, "output", i, j) = InputsSoFar(t, "outputs", 1, 1)
        /\ InputsSoFar(t, "outscript", i, j) = InputsSoFar(t, "outputs", 1, 1)
    BY InputLists
  <2>2. QED
    BY <1>1, <2>1
<1>7. i \in Nat /\ i \in 1..Len(t.outs)
  BY <1>3, <1>4, <1>5
<1>8. QED
  BY <1>2, <1>3, <1>4, <1>5, <1>6, <1>7

SetsAmount(v, u, k, a) == v = [u EXCEPT !.outs[k].amount = a]
SetsScript(v, u, k, b) == v = [u EXCEPT !.outs[k].script = b]

LEMMA AmountSet ==
  ASSUME NEW u \in ShortTxs, NEW k \in 1..Len(u.outs), NEW a, NEW v, SetsAmount(v, u, k, a)
  PROVE  /\ v.version = u.version /\ v.ins = u.ins
         /\ v.outs = Placed(u.outs, k, [u.outs[k] EXCEPT !.amount = a])
  BY DEF ShortTxs, Placed, SetsAmount

LEMMA ScriptSet ==
  ASSUME NEW u \in ShortTxs, NEW k \in 1..Len(u.outs), NEW b, NEW v, SetsScript(v, u, k, b)
  PROVE  /\ v.version = u.version /\ v.ins = u.ins
         /\ v.outs = Placed(u.outs, k, [u.outs[k] EXCEPT !.script = b])
  BY DEF ShortTxs, Placed, SetsScript

LEMMA OutputsMove ==
  ASSUME NEW t \in BtcTxs, NEW k \in 1..Len(t.outs), NEW f, NEW g,
         f = OutputsSoFar(t, "output", k), g = OutputsSoFar(t, "outscript", k)
  PROVE  /\ Placed(f, k, [f[k] EXCEPT !.amount = t.outs[k].amount]) = g
         /\ Placed(g, k, [g[k] EXCEPT !.script = t.outs[k].script]) = OutputsSoFar(t, "output", k + 1)
  BY OutputLists, Zenon DEF Placed

LEMMA AmountRead ==
  ASSUME WireInv, ReadAmount, NEW t \in BtcTxs, h.err = "none", Reading(t)
  PROVE  Reading(t)'
<1> DEFINE got == readNumber(h, 8)
           out == t.outs[i]
           x == LittleEndian(8, out.amount)
           y == OutScriptOn(t, i)
<1>1. /\ pc = "output" /\ tx' = [tx EXCEPT !.outs[i].amount = got.value] /\ h' = got.h
      /\ GoTo("outscript", i) /\ segwit' = segwit /\ Same
  BY Zenon DEF ReadAmount
<1>2. /\ StreamOK /\ h \in Helpers /\ tx \in ShortTxs /\ Holds(t, tx, pc, i, j) /\ Marked(t, pc, segwit)
  BY ReadingFacts
<1>3. pc \in OutputPlaces
  BY <1>1 DEF OutputPlaces
<1>4. /\ tx.version = t.version /\ tx.ins = InputsSoFar(t, "outputs", 1, 1)
      /\ tx.outs = OutputsSoFar(t, "output", i)
      /\ i \in 1..Len(t.outs) /\ i \in 1..Len(tx.outs) /\ i \in Nat /\ out \in TxOutputs
  BY <1>1, <1>2, <1>3, AtOutput
<1>5. Unread(t, pc, i, j) = x \o y
  BY <1>1, <1>4, UnreadAt, OutputsUnread
<1>6. out.amount \in Nat /\ out.amount < V!U64
  <2>1. out.amount \in Word64
    BY <1>4 DEF TxOutputs
  <2>2. QED
    BY <2>1, WordTypes, Radix
<1>7. x \in Octet /\ y \in Octet
  BY <1>4, <1>6, LittleEndianType, OutputsUnread DEF Octet
<1>8. (got.value = out.amount /\ Got(h, got.h, x)) \/ Fell(h, got.h, x)
  <2>1. Comes(h.n, x)
    BY <1>5, <1>7, NextComes, Zenon
  <2>2. Fits(8, out.amount)
    BY <1>6, WordsFit
  <2>3. QED
    BY <1>2, <1>6, <2>1, <2>2, NumberRead
<1> HIDE DEF got, x, y, out
<1>9. CASE Fell(h, got.h, x)
  <2>1. h'.err # "none"
    BY <1>1, <1>9 DEF Fell
  <2>2. QED
    BY <1>1, <1>5, <1>7, <1>9, <2>1, Falls, Zenon
<1>10. CASE got.value = out.amount /\ Got(h, got.h, x)
  <2>1. pc' = "outscript" /\ i' = i /\ j' = 1 /\ tx' = [tx EXCEPT !.outs[i].amount = t.outs[i].amount]
    BY <1>1, <1>10 DEF GoTo, out
  <2>2. Unread(t, pc', i', j') = y
    BY <2>1, UnreadAt DEF y
  <2>3. Holds(t, tx', pc', i', j')
    <3> DEFINE a == t.outs[i].amount
    <3>1. tx'.version = tx.version /\ tx'.ins = tx.ins /\ tx'.outs = Placed(tx.outs, i, [tx.outs[i] EXCEPT !.amount = a])
      <4>1. tx' = [tx EXCEPT !.outs[i].amount = a]
        BY <2>1
      <4> HIDE DEF a
      <4>2. QED
        <5>1. tx \in ShortTxs /\ i \in 1..Len(tx.outs) /\ SetsAmount(tx', tx, i, a)
          BY <1>2, <1>4, <4>1, Zenon DEF SetsAmount
        <5>2. QED
          BY <5>1, AmountSet
    <3>2. Placed(tx.outs, i, [tx.outs[i] EXCEPT !.amount = a]) = OutputsSoFar(t, "outscript", i)
      BY <1>4, OutputsMove, Zenon
    <3>3. tx'.ins = InputsSoFar(t, "outscript", i, 1)
      BY <1>4, <3>1, InputLists
    <3>4. QED
      BY <1>4, <2>1, <3>1, <3>2, <3>3 DEF Holds, Early, OutputPlaces, Late
  <2>4. Marked(t, pc', segwit')
    BY <1>1, <1>2, <2>1 DEF Marked
  <2>5. Got(h, h', x)
    BY <1>1, <1>10
  <2>6. QED
    BY <1>1, <1>5, <1>7, <2>2, <2>3, <2>4, <2>5, GoesFurther, Zenon
<1>11. QED
  BY <1>8, <1>9, <1>10, Zenon

LEMMA OutScriptRead ==
  ASSUME WireInv, ReadOutScript, NEW t \in BtcTxs, t.ins # <<>>, h.err = "none", Reading(t)
  PROVE  Reading(t)'
<1> DEFINE got == readVarBuf(h)
           out == t.outs[i]
           x == VarBuf(out.script)
           y == OutputsOn(t, i + 1)
<1>1. /\ pc = "outscript" /\ tx' = [tx EXCEPT !.outs[i].script = got.bytes] /\ h' = got.h
      /\ IF i < Len(tx.outs) THEN GoTo("output", i + 1) ELSE AfterOutputs
      /\ segwit' = segwit /\ Same
  BY Zenon DEF ReadOutScript
<1>2. /\ StreamOK /\ h \in Helpers /\ tx \in ShortTxs /\ Holds(t, tx, pc, i, j)
      /\ segwit = HasWitness(t)
  BY <1>1, ReadingFacts DEF Marked
<1>3. pc \in OutputPlaces
  BY <1>1 DEF OutputPlaces
<1>4. /\ tx.version = t.version /\ tx.ins = InputsSoFar(t, "outputs", 1, 1)
      /\ tx.outs = OutputsSoFar(t, "outscript", i) /\ Len(tx.outs) = Len(t.outs) /\ Len(t.outs) \in Nat
      /\ i \in 1..Len(t.outs) /\ i \in 1..Len(tx.outs) /\ i \in Nat /\ out \in TxOutputs
  BY <1>1, <1>2, <1>3, AtOutput
<1>5. Unread(t, pc, i, j) = x \o y
  BY <1>1, UnreadAt DEF OutScriptOn
<1>6. out.script \in Buffers /\ out.script \in Octet
  BY <1>4 DEF TxOutputs, Buffers, Slices, Octet
<1>7. x \in Octet /\ y \in Octet
  <2>1. i + 1 \in 1..Len(t.outs) + 1
    BY <1>4
  <2>2. QED
    BY <1>6, <2>1, VarBufType, OutputsUnread
<1>8. \/ got.bytes = out.script /\ Got(h, got.h, x)
      \/ Fell(h, got.h, x)
      \/ got.h.err # "none" /\ Len(out.script) > MaxBuf
  <2>1. Comes(h.n, x)
    BY <1>5, <1>7, NextComes, Zenon
  <2>2. QED
    BY <1>2, <1>6, <2>1, BufferRead, Zenon
<1> HIDE DEF got, x, y, out
<1>9. CASE Fell(h, got.h, x)
  <2>1. h'.err # "none"
    BY <1>1, <1>9 DEF Fell
  <2>2. QED
    BY <1>1, <1>5, <1>7, <1>9, <2>1, Falls, Zenon
<1>10. CASE got.h.err # "none" /\ Len(out.script) > MaxBuf
  <2>1. ~ WithinLimits(t)
    BY <1>4, <1>6, <1>10, Limits DEF WithinLimits, Octet, out
  <2>2. QED
    BY <1>1, <1>10, <2>1, Refuses, Zenon
<1>11. CASE got.bytes = out.script /\ Got(h, got.h, x)
  <2> DEFINE b == t.outs[i].script
  <2>1. tx' = [tx EXCEPT !.outs[i].script = b]
    BY <1>1, <1>11 DEF out
  <2>2. tx'.version = tx.version /\ tx'.ins = tx.ins /\ tx'.outs = Placed(tx.outs, i, [tx.outs[i] EXCEPT !.script = b])
    <3> HIDE DEF b
    <3>1. QED
      <4>1. tx \in ShortTxs /\ i \in 1..Len(tx.outs) /\ SetsScript(tx', tx, i, b)
        BY <1>2, <1>4, <2>1, Zenon DEF SetsScript
      <4>2. QED
        BY <4>1, ScriptSet
  <2>3. Placed(tx.outs, i, [tx.outs[i] EXCEPT !.script = b]) = OutputsSoFar(t, "output", i + 1)
    BY <1>4, OutputsMove, Zenon
  <2> HIDE DEF b
  <2>4. Got(h, h', x)
    BY <1>1, <1>11
  <2>5. CASE i < Len(tx.outs)
    <3>1. pc' = "output" /\ i' = i + 1 /\ j' = 1
      BY <1>1, <2>5 DEF GoTo
    <3>2. Unread(t, pc', i', j') = y
      BY <3>1, UnreadAt DEF y
    <3>3. tx'.ins = InputsSoFar(t, "output", i + 1, 1)
      BY <1>4, <2>2, InputLists
    <3>4. Holds(t, tx', pc', i', j')
      BY <1>4, <2>2, <2>3, <3>1, <3>3 DEF Holds, Early, OutputPlaces, Late
    <3>5. Marked(t, pc', segwit')
      BY <1>1, <1>2, <3>1 DEF Marked
    <3>6. QED
      BY <1>1, <1>5, <1>7, <2>4, <3>2, <3>4, <3>5, GoesFurther, Zenon
  <2>6. CASE ~ (i < Len(tx.outs))
    <3>1. i + 1 = Len(t.outs) + 1 /\ AfterOutputs
      BY <1>1, <1>4, <2>6
    <3>2. tx'.outs = t.outs
      BY <2>2, <2>3, <3>1, OutputLists
    <3>3. y = OutputsDone(t)
      BY <3>1, OutputsUnread DEF y
    <3>4. /\ Unread(t, pc', i', j') = y /\ Holds(t, tx', pc', i', j')
          /\ pc' \in {"witness", "locktime"}
      BY <1>2, <1>4, <2>2, <3>1, <3>2, <3>3, OutputsGoOn
    <3>5. Marked(t, pc', segwit')
      BY <1>1, <1>2, <3>4 DEF Marked
    <3>6. QED
      BY <1>1, <1>5, <1>7, <2>4, <3>4, <3>5, GoesFurther, Zenon
  <2>7. QED
    BY <2>5, <2>6, Zenon
<1>12. QED
  BY <1>8, <1>9, <1>10, <1>11, Zenon

\* Behind the witness of an input comes the next one, or the locktime.
LEMMA WitnessGoOn ==
  ASSUME WireInv, NEW t \in BtcTxs, i \in 1..Len(t.ins), Len(tx.ins) = Len(t.ins), AfterWitness,
         Holds(t, tx', "witness", i + 1, 1)
  PROVE  /\ Unread(t, pc', i', j') = WitnessOn(t, i + 1) /\ Holds(t, tx', pc', i', j')
         /\ pc' \in {"witness", "locktime"}
<1>1. Len(t.ins) \in Nat
  BY PartsType, WordTypes
<1>2. CASE i < Len(tx.ins)
  <2>1. pc' = "witness" /\ i' = i + 1 /\ j' = 1
    BY <1>2 DEF AfterWitness, GoTo
  <2>2. QED
    BY <2>1, UnreadAt
<1>3. CASE ~ (i < Len(tx.ins))
  <2>1. pc' = "locktime" /\ i' = 1 /\ j' = 1
    BY <1>3 DEF AfterWitness, GoTo
  <2>2. i + 1 = Len(t.ins) + 1
    BY <1>1, <1>3
  <2>3. Unread(t, pc', i', j') = WitnessOn(t, i + 1)
    <3>1. Unread(t, "locktime", 1, 1) = LocktimeOn(t)
      BY UnreadAt, Zenon
    <3>2. WitnessOn(t, Len(t.ins) + 1) = LocktimeOn(t)
      BY WitnessUnread
    <3>3. QED
      BY <2>1, <2>2, <3>1, <3>2, Zenon
  <2>4. tx'.version = t.version /\ tx'.ins = InputsSoFar(t, "witness", i + 1, 1) /\ tx'.outs = t.outs
    BY DEF Holds, Early, Late
  <2>5. tx'.ins = InputsSoFar(t, "locktime", 1, 1)
    BY <2>2, <2>4, InputLists
  <2>6. Holds(t, tx', "locktime", 1, 1)
    BY <2>4, <2>5 DEF Holds, Early, OutputPlaces, Late
  <2>7. QED
    BY <2>1, <2>3, <2>6
<1>4. QED
  BY <1>2, <1>3

LEMMA WitnessCountRead ==
  ASSUME WireInv, ReadWitnessCount, NEW t \in BtcTxs, h.err = "none", Reading(t)
  PROVE  Reading(t)'
<1> DEFINE cnt == readVarInt(h)
           in == t.ins[i]
           L == Len(in.wit)
           x == VarInt(L)
           y == ItemsOn(t, i, 1)
<1>1. /\ pc = "witness" /\ segwit' = segwit /\ Same
      /\ IF cnt.value > MaxItems THEN TooMany(cnt.h)
         ELSE /\ tx' = [tx EXCEPT !.ins[i].wit = Repeat(<<>>, cnt.value)] /\ h' = cnt.h
              /\ IF cnt.value = 0 THEN AfterWitness ELSE GoTo("item", i)
  BY Zenon DEF ReadWitnessCount
<1>2. /\ StreamOK /\ h \in Helpers /\ tx \in ShortTxs /\ Holds(t, tx, pc, i, j)
      /\ segwit = HasWitness(t)
  BY <1>1, ReadingFacts DEF Marked
<1>3. pc \in InputPlaces /\ pc \in Late /\ "witness" \in InputPlaces /\ "item" \in InputPlaces
  BY <1>1 DEF InputPlaces, Late
<1>4. /\ i \in 1..Len(t.ins) /\ i \in 1..Len(tx.ins) /\ i \in Nat /\ in \in TxInputs
      /\ Len(tx.ins) = Len(t.ins) /\ tx.ins[i] = InputSoFar(in, 4, j)
  BY <1>1, <1>2, <1>3, AtInput, StageHere
<1>5. L \in Word64 /\ L \in Nat
  BY <1>4, ItemPartsType, WordTypes
<1>6. Unread(t, pc, i, j) = x \o y
  <2>1. Unread(t, pc, i, j) = WitnessOn(t, i)
    BY <1>1, UnreadAt
  <2>2. WitnessOn(t, i) = x \o y
    BY <1>4, WitnessUnread
  <2>3. QED
    BY <2>1, <2>2, Zenon
<1>7. x \in Octet /\ y \in Octet
  <2>1. 1 \in 1..L + 1
    BY <1>5
  <2>2. QED
    BY <1>4, <1>5, <2>1, VarIntType, WitnessUnread
<1> HIDE DEF L
<1>8. (cnt.value = L /\ Got(h, cnt.h, x)) \/ Fell(h, cnt.h, x)
  <2>1. Comes(h.n, x)
    BY <1>6, <1>7, NextComes, Zenon
  <2>2. QED
    BY <1>2, <1>5, <2>1, CountRead
<1>9. cnt.h \in Helpers
  BY <1>2, ReadVarIntType
<1>10. [cnt.h EXCEPT !.err = "limit"].err # "none"
  BY <1>9 DEF Helpers
<1> HIDE DEF cnt, x, y, in
<1>11. CASE Fell(h, cnt.h, x)
  <2>1. h'.err # "none"
    BY <1>1, <1>10, <1>11 DEF TooMany, Fell
  <2>2. QED
    BY <1>1, <1>6, <1>7, <1>11, <2>1, Falls, Zenon
<1>12. CASE cnt.value = L /\ Got(h, cnt.h, x)
  <2>1. CASE cnt.value > MaxItems
    <3>1. h'.err # "none"
      BY <1>1, <1>10, <2>1 DEF TooMany
    <3>2. ~ WithinLimits(t)
      BY <1>4, <1>5, <1>12, <2>1, Limits DEF WithinLimits, in, L
    <3>3. QED
      BY <1>1, <3>1, <3>2, Refuses, Zenon
  <2>2. CASE ~ (cnt.value > MaxItems)
    <3> DEFINE items == Repeat(<<>>, L)
               f == [tx.ins[i] EXCEPT !.wit = items]
    <3>1. /\ tx' = [tx EXCEPT !.ins[i].wit = items] /\ h' = cnt.h
          /\ IF L = 0 THEN AfterWitness ELSE GoTo("item", i)
      BY <1>1, <1>12, <2>2, Zenon
    <3>2. items \in ShortItems
      <4>1. items \in Seq(ShortBuffers) /\ Len(items) = L
        BY <1>5, MadeLists, Zenon
      <4> HIDE DEF items
      <4>2. QED
        BY <1>5, <1>12, <2>2, <4>1, Limits DEF ShortItems
    <3>3. f = InputSoFar(in, 5, 1)
      BY <1>4, InputItems DEF L
    <3> HIDE DEF items
    <3>4. tx' = [tx EXCEPT !.ins[i] = f]
      BY <1>2, <1>4, <3>1, <3>2, FieldChanged, EmptyTransaction DEF ShortInputs
    <3> HIDE DEF f
    <3>5. tx'.version = tx.version /\ tx'.outs = tx.outs /\ tx'.ins = Placed(tx.ins, i, f)
      BY <1>2, <1>4, <3>4, InputSet
    <3>6. Got(h, h', x)
      BY <1>12, <3>1
    <3>7. CASE L = 0
      <4>1. f = InputSoFar(in, 6, 1)
        BY <1>4, <3>3, <3>7, InputItems DEF L
      <4>2. OthersStay(t, pc, "witness", i, i + 1)
        BY <1>1, <1>4, StageMoves DEF OthersStay
      <4>3. Moves(t, pc, "witness", i, i + 1, 1, f)
        <5>1. Stage("witness", i, i + 1) = 6
          BY <1>4, StageHere
        <5>2. QED
          BY <4>1, <4>2, <5>1 DEF Moves, in
      <4>4. Holds(t, tx', "witness", i + 1, 1)
        <5>1. Holds(t, tx, pc, i, j) /\ i \in 1..Len(t.ins) /\ ("witness" \in Late => pc \in Late)
          BY <1>2, <1>3, <1>4
        <5>2. QED
          BY <1>3, <3>5, <4>3, <5>1, InputHolds, Zenon
      <4>5. y = WitnessOn(t, i + 1)
        <5>1. ItemsOn(t, i, L + 1) = WitnessOn(t, i + 1)
          BY <1>4, WitnessUnread DEF in, L
        <5>2. L + 1 = 1
          BY <3>7
        <5>3. QED
          BY <5>1, <5>2, Zenon DEF y
      <4>6. /\ Unread(t, pc', i', j') = y /\ Holds(t, tx', pc', i', j')
            /\ pc' \in {"witness", "locktime"}
        BY <1>4, <3>1, <3>7, <4>4, <4>5, WitnessGoOn
      <4>7. Marked(t, pc', segwit')
        BY <1>1, <1>2, <4>6 DEF Marked
      <4>8. QED
        BY <1>1, <1>6, <1>7, <3>6, <4>6, <4>7, GoesFurther, Zenon
    <3>8. CASE L # 0
      <4>1. pc' = "item" /\ i' = i /\ j' = 1
        BY <3>1, <3>8 DEF GoTo
      <4>2. OthersStay(t, pc, "item", i, i)
        BY <1>1, <1>4, StageMoves DEF OthersStay
      <4>3. Moves(t, pc, "item", i, i, 1, f)
        <5>1. Stage("item", i, i) = 5
          BY <1>4, StageHere
        <5>2. QED
          BY <3>3, <4>2, <5>1 DEF Moves, in
      <4>4. Holds(t, tx', "item", i, 1)
        <5>1. Holds(t, tx, pc, i, j) /\ i \in 1..Len(t.ins) /\ ("item" \in Late => pc \in Late)
          BY <1>2, <1>3, <1>4
        <5>2. QED
          BY <1>3, <3>5, <4>3, <5>1, InputHolds, Zenon
      <4>5. Unread(t, pc', i', j') = y
        BY <4>1, UnreadAt DEF y
      <4>6. Marked(t, pc', segwit') /\ Holds(t, tx', pc', i', j')
        BY <1>1, <1>2, <4>1, <4>4 DEF Marked
      <4>7. QED
        BY <1>1, <1>6, <1>7, <3>6, <4>5, <4>6, GoesFurther, Zenon
    <3>9. QED
      BY <3>7, <3>8, Zenon
  <2>3. QED
    BY <2>1, <2>2, Zenon
<1>13. QED
  BY <1>8, <1>11, <1>12, Zenon

LEMMA ItemRead ==
  ASSUME WireInv, ReadItem, NEW t \in BtcTxs, h.err = "none", Reading(t)
  PROVE  Reading(t)'
<1> DEFINE got == readVarBuf(h)
           in == t.ins[i]
           L == Len(in.wit)
           b == in.wit[j]
           x == VarBuf(b)
           y == ItemsOn(t, i, j + 1)
<1>1. /\ pc = "item" /\ tx' = [tx EXCEPT !.ins[i].wit[j] = got.bytes] /\ h' = got.h
      /\ IF j < Len(tx.ins[i].wit) THEN pc' = "item" /\ i' = i /\ j' = j + 1 ELSE AfterWitness
      /\ segwit' = segwit /\ Same
  BY Zenon DEF ReadItem
<1>2. /\ StreamOK /\ h \in Helpers /\ tx \in ShortTxs /\ Holds(t, tx, pc, i, j)
      /\ segwit = HasWitness(t)
  BY <1>1, ReadingFacts DEF Marked
<1>3. pc \in InputPlaces /\ pc \in Late /\ "witness" \in InputPlaces /\ "item" \in InputPlaces
  BY <1>1 DEF InputPlaces, Late
<1>4. /\ i \in 1..Len(t.ins) /\ i \in 1..Len(tx.ins) /\ i \in Nat /\ in \in TxInputs
      /\ Len(tx.ins) = Len(t.ins) /\ tx.ins[i] = InputSoFar(in, 5, j)
  BY <1>1, <1>2, <1>3, AtInput, StageHere
<1>5. L \in Nat /\ \A m \in 1..L : in.wit[m] \in Buffers /\ in.wit[m] \in Octet
  BY <1>4, ItemPartsType, WordTypes
<1>6. Len(tx.ins[i].wit) = L /\ j \in 1..L /\ j \in Nat
  <2>1. Len(InputSoFar(in, 5, j).wit) = L
    BY <1>5 DEF InputSoFar
  <2>2. j \in 1..Len(tx.ins[i].wit)
    BY <1>1, <1>3, AtPlace
  <2>3. QED
    BY <1>4, <1>5, <2>1, <2>2
<1>7. Unread(t, pc, i, j) = x \o y
  <2>1. Unread(t, pc, i, j) = ItemsOn(t, i, j)
    BY <1>1, UnreadAt
  <2>2. ItemsOn(t, i, j) = x \o y
    BY <1>4, <1>6, WitnessUnread
  <2>3. QED
    BY <2>1, <2>2, Zenon
<1>8. b \in Buffers /\ b \in Octet
  BY <1>5, <1>6
<1>9. x \in Octet /\ y \in Octet
  <2>1. j + 1 \in 1..L + 1
    BY <1>5, <1>6
  <2>2. QED
    BY <1>4, <1>8, <2>1, VarBufType, WitnessUnread
<1> HIDE DEF L, b
<1>10. \/ got.bytes = b /\ Got(h, got.h, x)
       \/ Fell(h, got.h, x)
       \/ got.h.err # "none" /\ Len(b) > MaxBuf
  <2>1. Comes(h.n, x)
    BY <1>7, <1>9, NextComes, Zenon
  <2>2. QED
    BY <1>2, <1>8, <2>1, BufferRead, Zenon
<1>11. got.bytes \in ShortBuffers
  BY <1>2, ReadVarBufType
<1> HIDE DEF got, x, y, in
<1>12. CASE Fell(h, got.h, x)
  <2>1. h'.err # "none"
    BY <1>1, <1>12 DEF Fell
  <2>2. QED
    BY <1>1, <1>7, <1>9, <1>12, <2>1, Falls, Zenon
<1>13. CASE got.h.err # "none" /\ Len(b) > MaxBuf
  <2>1. ~ WithinLimits(t)
    BY <1>4, <1>6, <1>8, <1>13, Limits, SMTT(30) DEF WithinLimits, Octet, in, L, b
  <2>2. QED
    BY <1>1, <1>13, <2>1, Refuses, Zenon
<1>14. CASE got.bytes = b /\ Got(h, got.h, x)
  <2> DEFINE items == [tx.ins[i].wit EXCEPT ![j] = b]
             f == [tx.ins[i] EXCEPT !.wit = items]
  <2>1. tx.ins[i] \in ShortInputs /\ tx.ins[i].wit \in Seq(ShortBuffers) /\ Len(tx.ins[i].wit) <= MaxItems
    <3>1. tx.ins[i] \in ShortInputs
      BY <1>2, <1>4, TransactionFacts
    <3>2. QED
      BY <3>1 DEF ShortInputs, ShortItems
  <2>2. items \in ShortItems
    <3>1. items \in Seq(ShortBuffers) /\ Len(items) = Len(tx.ins[i].wit)
      BY <1>6, <1>11, <1>14, <2>1, ExceptSeq
    <3>2. QED
      BY <2>1, <3>1 DEF ShortItems
  <2>3. tx' = [tx EXCEPT !.ins[i].wit = items]
    <3>1. tx' = [tx EXCEPT !.ins[i].wit[j] = b]
      BY <1>1, <1>14
    <3>2. QED
      BY <1>2, <1>4, <1>6, <2>1, <3>1 DEF ShortTxs, ShortInputs
  <2>4. f = InputSoFar(in, 5, j + 1)
    <3> DEFINE s == InputSoFar(in, 5, j)
    <3>1. [s EXCEPT !.wit = [s.wit EXCEPT ![j] = b]] = InputSoFar(in, 5, j + 1)
      BY <1>4, <1>6, InputItems, Zenon DEF L, b
    <3> HIDE DEF s
    <3>2. tx.ins[i] = s
      BY <1>4 DEF s
    <3>3. QED
      BY <3>1, <3>2
  <2> HIDE DEF items
  <2>5. tx' = [tx EXCEPT !.ins[i] = f]
    BY <1>2, <1>4, <2>2, <2>3, FieldChanged, EmptyTransaction DEF ShortInputs
  <2> HIDE DEF f
  <2>6. tx'.version = tx.version /\ tx'.outs = tx.outs /\ tx'.ins = Placed(tx.ins, i, f)
    BY <1>2, <1>4, <2>5, InputSet
  <2>7. Got(h, h', x)
    BY <1>1, <1>14
  <2>8. CASE j < L
    <3>1. pc' = "item" /\ i' = i /\ j' = j + 1
      BY <1>1, <1>6, <2>8
    <3>2. OthersStay(t, pc, "item", i, i)
      BY <1>1, <1>4, StageMoves DEF OthersStay
    <3>3. Moves(t, pc, "item", i, i, j + 1, f)
      <4>1. Stage("item", i, i) = 5
        BY <1>4, StageHere
      <4>2. QED
        BY <2>4, <3>2, <4>1 DEF Moves, in
    <3>4. Holds(t, tx', "item", i, j + 1)
      <4>1. Holds(t, tx, pc, i, j) /\ i \in 1..Len(t.ins) /\ ("item" \in Late => pc \in Late)
        BY <1>2, <1>3, <1>4
      <4>2. QED
        BY <1>3, <2>6, <3>3, <4>1, InputHolds, Zenon
    <3>5. Unread(t, pc', i', j') = y
      BY <3>1, UnreadAt DEF y
    <3>6. Marked(t, pc', segwit') /\ Holds(t, tx', pc', i', j')
      BY <1>1, <1>2, <3>1, <3>4 DEF Marked
    <3>7. QED
      BY <1>1, <1>7, <1>9, <2>7, <3>5, <3>6, GoesFurther, Zenon
  <2>9. CASE ~ (j < L)
    <3>1. j + 1 = L + 1 /\ AfterWitness
      BY <1>1, <1>5, <1>6, <2>9
    <3>2. f = InputSoFar(in, 6, 1)
      BY <1>4, <2>4, <3>1, InputItems DEF L
    <3>3. OthersStay(t, pc, "witness", i, i + 1)
      BY <1>1, <1>4, StageMoves DEF OthersStay
    <3>4. Moves(t, pc, "witness", i, i + 1, 1, f)
      <4>1. Stage("witness", i, i + 1) = 6
        BY <1>4, StageHere
      <4>2. QED
        BY <3>2, <3>3, <4>1 DEF Moves, in
    <3>5. Holds(t, tx', "witness", i + 1, 1)
      <4>1. Holds(t, tx, pc, i, j) /\ i \in 1..Len(t.ins) /\ ("witness" \in Late => pc \in Late)
        BY <1>2, <1>3, <1>4
      <4>2. QED
        BY <1>3, <2>6, <3>4, <4>1, InputHolds, Zenon
    <3>6. y = WitnessOn(t, i + 1)
      BY <1>4, <3>1, WitnessUnread DEF y, in, L
    <3>7. /\ Unread(t, pc', i', j') = y /\ Holds(t, tx', pc', i', j')
          /\ pc' \in {"witness", "locktime"}
      BY <1>4, <3>1, <3>5, <3>6, WitnessGoOn
    <3>8. Marked(t, pc', segwit')
      BY <1>1, <1>2, <3>7 DEF Marked
    <3>9. QED
      BY <1>1, <1>7, <1>9, <2>7, <3>7, <3>8, GoesFurther, Zenon
  <2>10. QED
    BY <2>8, <2>9, Zenon
<1>15. QED
  BY <1>10, <1>12, <1>13, <1>14, Zenon

LEMMA LocktimeRead ==
  ASSUME WireInv, ReadLocktime, NEW t \in BtcTxs, h.err = "none", Reading(t)
  PROVE  Reading(t)'
<1> DEFINE v == readNumber(h, 4)
           x == LittleEndian(4, t.locktime)
           y == <<>>
<1>1. /\ pc = "locktime" /\ tx' = [tx EXCEPT !.locktime = v.value] /\ h' = v.h
      /\ GoTo("done", 1) /\ segwit' = segwit /\ Same
  BY Zenon DEF ReadLocktime
<1>2. /\ StreamOK /\ h \in Helpers /\ tx \in ShortTxs /\ Holds(t, tx, pc, i, j) /\ Marked(t, pc, segwit)
  BY ReadingFacts
<1>3. t.locktime \in Nat /\ t.locktime < V!U32
  BY WordTypes, Radix DEF BtcTxs
<1>4. x \in Octet /\ y \in Octet
  BY <1>3, LittleEndianType DEF Octet
<1>5. Unread(t, pc, i, j) = x \o y
  <2>1. Unread(t, pc, i, j) = x
    BY <1>1, UnreadAt DEF LocktimeOn
  <2> HIDE DEF x
  <2>2. x \o y = x
    BY <1>4 DEF Octet
  <2>3. QED
    BY <2>1, <2>2
<1>6. (v.value = t.locktime /\ Got(h, v.h, x)) \/ Fell(h, v.h, x)
  <2>1. Comes(h.n, x)
    BY <1>4, <1>5, NextComes, Zenon
  <2>2. Fits(4, t.locktime)
    BY <1>3, WordsFit
  <2>3. QED
    BY <1>2, <1>3, <2>1, <2>2, NumberRead
<1> HIDE DEF v, x, y
<1>7. CASE Fell(h, v.h, x)
  <2>1. h'.err # "none"
    BY <1>1, <1>7 DEF Fell
  <2>2. QED
    BY <1>1, <1>4, <1>5, <1>7, <2>1, Falls, Zenon
<1>8. CASE v.value = t.locktime /\ Got(h, v.h, x)
  <2>1. pc' = "done" /\ i' = 1 /\ j' = 1
    BY <1>1 DEF GoTo
  <2>2. Unread(t, pc', i', j') = y
    <3>1. Unread(t, "done", 1, 1) = <<>>
      BY DEF Unread
    <3>2. QED
      BY <2>1, <3>1, Zenon DEF y
  <2>3. Holds(t, tx', pc', i', j')
    <3>1. i = 1 /\ j = 1
      BY <1>1, TypesOf DEF Place, InputPlaces, OutputPlaces
    <3>2. tx.version = t.version /\ tx.ins = InputsSoFar(t, "locktime", 1, 1) /\ tx.outs = t.outs
      BY <1>1, <1>2, <3>1 DEF Holds, Early, Late
    <3>3. InputsSoFar(t, "locktime", 1, 1) = InputsSoFar(t, "done", 1, 1)
      BY InputLists
    <3>4. tx'.version = tx.version /\ tx'.ins = tx.ins /\ tx'.outs = tx.outs /\ tx'.locktime = t.locktime
      BY <1>1, <1>2, <1>8 DEF ShortTxs
    <3>5. QED
      BY <2>1, <3>2, <3>3, <3>4 DEF Holds, OutputPlaces
  <2>4. Marked(t, pc', segwit')
    BY <1>1, <1>2, <2>1 DEF Marked
  <2>5. Got(h, h', x)
    BY <1>1, <1>8
  <2>6. QED
    BY <1>1, <1>4, <1>5, <2>2, <2>3, <2>4, <2>5, GoesFurther, Zenon
<1>9. QED
  BY <1>6, <1>7, <1>8, Zenon

LEMMA ReadingStep ==
  ASSUME WireInv, ReadFrom, NEW t \in BtcTxs, t.ins # <<>>, Reading(t)
  PROVE  Reading(t)'
<1>1. CASE h.err # "none"
  BY <1>1, ErrorKeepsReading
<1>2. CASE h.err = "none"
  <2>1. CASE ReadVersion
    BY <1>2, <2>1, VersionRead
  <2>2. CASE ReadInputCount
    BY <1>2, <2>2, InputCountRead
  <2>3. CASE ReadFlag
    BY <1>2, <2>3, FlagRead
  <2>4. CASE ReadInputCountAgain
    BY <1>2, <2>4, InputCountAgainRead
  <2>5. CASE ReadInput
    BY <1>2, <2>5, TxidRead, VoutRead, ScriptRead, SequenceRead, Zenon DEF ReadInput
  <2>6. CASE ReadOutputCount
    BY <1>2, <2>6, OutputCountRead
  <2>7. CASE ReadOutput
    BY <1>2, <2>7, AmountRead, OutScriptRead, Zenon DEF ReadOutput
  <2>8. CASE ReadWitnessCount
    BY <1>2, <2>8, WitnessCountRead
  <2>9. CASE ReadItem
    BY <1>2, <2>9, ItemRead
  <2>10. CASE ReadLocktime
    BY <1>2, <2>10, LocktimeRead
  <2>11. QED
    BY <2>1, <2>2, <2>3, <2>4, <2>5, <2>6, <2>7, <2>8, <2>9, <2>10, Zenon DEF ReadFrom
<1>3. QED
  BY <1>1, <1>2

\* At the first byte of what was written, all of it is still to come.
LEMMA Begins ==
  ASSUME NEW t \in BtcTxs, NEW bytes, NEW u, NEW mark,
         Len(Bytes(t)) <= Len(bytes), \A k \in 1..Len(Bytes(t)) : bytes[k] = Bytes(t)[k],
         stream = bytes, h = [n |-> 0, err |-> "none"], tx = u, segwit = mark, pc = "version"
  PROVE  Reading(t)
<1>1. Unread(t, pc, i, j) = Bytes(t) /\ Bytes(t) \in Octet
  BY UnreadAt, BytesUnread
<1>2. Len(Bytes(t)) \in Nat
  BY <1>1 DEF Octet
<1>3. h.n = 0 /\ h.err = "none"
  OBVIOUS
<1>4. Comes(0, Bytes(t))
  BY <1>2 DEF Comes
<1>5. Holds(t, tx, pc, i, j) /\ Marked(t, pc, segwit)
  BY DEF Holds, Marked, Early, OutputPlaces, Late
<1>6. QED
  BY <1>1, <1>2, <1>3, <1>4, <1>5 DEF Reading, Goes

LEMMA InitReading ==
  ASSUME Init
  PROVE  ReadInv
<1>1. PICK s \in Sources : stream = s.bytes /\ wrote = s.wrote /\ cut \in 0..Len(s.bytes)
  BY DEF Init
<1>2. s.bytes \in Seq(Octets) /\ (s.wrote # Nil => s.wrote \in BtcTxs /\ IsPrefix(Bytes(s.wrote), s.bytes))
  BY WireAssumption
<1>3. ASSUME NEW t, Own(t)
      PROVE  t \in BtcTxs /\ Reading(t)
  <2>1. t = s.wrote /\ t \in BtcTxs /\ IsPrefix(Bytes(t), s.bytes)
    BY <1>1, <1>2, <1>3 DEF Own, Init
  <2>2. Bytes(t) \in Octet
    BY <2>1, BytesUnread
  <2> DEFINE b == Bytes(t)
  <2>3. Len(b) <= Len(s.bytes) /\ SubSeq(b, 1, Len(b)) = SubSeq(s.bytes, 1, Len(b))
    BY <2>1 DEF IsPrefix
  <2> HIDE DEF b
  <2>4. \A k \in 1..Len(b) : s.bytes[k] = b[k]
    <3>1. b \in Seq(Octets)
      BY <2>2 DEF b, Octet
    <3>2. ASSUME NEW k \in 1..Len(b) PROVE s.bytes[k] = b[k]
      <4>1. SubSeq(b, 1, Len(b))[k] = b[k] /\ SubSeq(s.bytes, 1, Len(b))[k] = s.bytes[k]
        BY <1>2, <2>3, <3>1
      <4>2. QED
        BY <2>3, <4>1
    <3>3. QED
      BY <3>2
  <2>5. QED
    BY <1>1, <2>1, <2>3, <2>4, Begins DEF b, Init
<1>4. QED
  BY <1>3, InitInv, Zenon DEF ReadInv, Init

LEMMA ReadFromReading ==
  ASSUME ReadInv, ReadFrom
  PROVE  /\ \A t : Own(t)' => t \in BtcTxs /\ (t.ins # <<>> => Reading(t)')
         /\ prev' # Nil => prev' \in ShortTxs /\ cut' = Len(stream') /\ Len(stream') = Len(Bytes(prev'))
<1>1. Same
  BY Zenon DEF ReadFrom, ReadVersion, ReadInputCount, ReadFlag, ReadInputCountAgain, ReadInput,
               ReadTxid, ReadVout, ReadScript, ReadSequence, ReadOutputCount, ReadOutput, ReadAmount,
               ReadOutScript, ReadWitnessCount, ReadItem, ReadLocktime
<1>2. prev' = prev /\ wrote' = wrote /\ cut' = cut /\ stream' = stream
  BY <1>1 DEF Same
<1>3. ASSUME NEW t, Own(t)'
      PROVE  t \in BtcTxs /\ (t.ins # <<>> => Reading(t)')
  <2>1. Own(t)
    BY <1>2, <1>3 DEF Own
  <2>2. QED
    BY <2>1, ReadingStep, Zenon DEF ReadInv
<1>4. prev' # Nil => prev' \in ShortTxs /\ cut' = Len(stream') /\ Len(stream') = Len(Bytes(prev'))
  BY <1>2 DEF ReadInv
<1>5. QED
  BY <1>3, <1>4

LEMMA RewriteReading ==
  ASSUME ReadInv, Rewrite
  PROVE  /\ \A t : Own(t)' => t \in BtcTxs /\ (t.ins # <<>> => Reading(t)')
         /\ prev' # Nil => prev' \in ShortTxs /\ cut' = Len(stream') /\ Len(stream') = Len(Bytes(prev'))
<1>1. /\ prev' = tx /\ stream' = Bytes(tx) /\ cut' = Len(Bytes(tx)) /\ wrote' = Nil
      /\ h' = [n |-> 0, err |-> "none"] /\ tx' = NoTx /\ segwit' = FALSE /\ pc' = "version"
  BY DEF Rewrite, GoTo
<1>2. tx \in ShortTxs
  BY TypesOf DEF ReadInv
<1>3. tx \in BtcTxs
  BY <1>2, ShortIsBtcTx
<1>4. ASSUME NEW t, Own(t)'
      PROVE  t \in BtcTxs /\ Reading(t)'
  <2>1. t = tx /\ t \in BtcTxs
    BY <1>1, <1>3, <1>4 DEF Own
  <2>2. Unread(t, pc', i', j') = Bytes(t) /\ Bytes(t) \in Octet
    BY <1>1, <2>1, UnreadAt, BytesUnread
  <2>3. Len(Bytes(t)) \in Nat
    BY <2>2 DEF Octet
  <2>4. h'.n = 0 /\ h'.err = "none" /\ stream' = Bytes(t)
    BY <1>1, <2>1
  <2>5. PICK y \in Octet : y = Bytes(t)
    BY <2>2
  <2>6. Comes(h.n, y)' /\ h'.n + Len(y) = Len(y)
    BY <2>3, <2>4, <2>5 DEF Comes
  <2>7. Holds(t, tx', pc', i', j') /\ Marked(t, pc', segwit')
    BY <1>1 DEF Holds, Marked, Early, OutputPlaces, Late
  <2>8. QED
    <3>1. Unread(t, pc', i', j') = y /\ h'.n + Len(Unread(t, pc', i', j')) = Len(Bytes(t))
      BY <2>2, <2>5, <2>6
    <3>2. QED
      BY <2>1, <2>4, <2>6, <2>7, <3>1, Zenon DEF Reading, Goes
<1>5. prev' # Nil => prev' \in ShortTxs /\ cut' = Len(stream') /\ Len(stream') = Len(Bytes(prev'))
  BY <1>1, <1>2
<1>6. QED
  BY <1>4, <1>5

LEMMA ReadInvHolds == Spec => []ReadInv
<1>1. Init => ReadInv
  BY InitReading
<1>2. ReadInv /\ [Next]_vars => ReadInv'
  <2> SUFFICES ASSUME ReadInv, [Next]_vars PROVE ReadInv'
    OBVIOUS
  <2>1. WireInv'
    BY WireStep DEF ReadInv
  <2>2. CASE ReadFrom
    BY <2>1, <2>2, ReadFromReading, Zenon DEF ReadInv
  <2>3. CASE Rewrite
    BY <2>1, <2>3, RewriteReading, Zenon DEF ReadInv
  <2>4. CASE UNCHANGED vars
    BY <2>4, Zenon DEF vars, ReadInv, WireInv, StreamOK, Helpers, Own, Reading, Goes, Comes, Unreadable
  <2>5. QED
    BY <2>2, <2>3, <2>4, Zenon DEF Next
<1>3. QED
  BY <1>1, <1>2, PTL DEF Spec

\* At the end without an error everything was read and nothing more.
LEMMA ReadToTheEnd ==
  ASSUME ReadInv, NEW t, Own(t), t.ins # <<>>, pc = "done"
  PROVE  IF h.err = "none" THEN tx = t /\ h.n = Len(Bytes(t)) /\ WithinLimits(t) /\ cut >= Len(Bytes(t))
         ELSE ~ (WithinLimits(t) /\ cut >= Len(Bytes(t)))
<1>1. WireInv /\ t \in BtcTxs /\ Reading(t)
  BY DEF ReadInv
<1>2. StreamOK /\ h \in Helpers /\ tx \in ShortTxs /\ Place(tx, pc, i, j)
  BY <1>1, TypesOf
<1>3. Len(Bytes(t)) \in Nat /\ cut \in Nat
  <2>1. Bytes(t) \in Octet
    BY <1>1, BytesUnread
  <2>2. QED
    BY <1>2, <2>1 DEF Octet, StreamOK
<1>4. CASE h.err = "none"
  <2>1. h.n = Len(Bytes(t)) /\ h.n <= cut
    <3>1. Unread(t, pc, i, j) = <<>>
      BY UnreadAt, ZenonT(40)
    <3>2. h.n + Len(Unread(t, pc, i, j)) = Len(Bytes(t))
      BY <1>1, <1>4 DEF Reading, Goes
    <3>3. h.n \in 0..cut
      BY <1>2 DEF Helpers
    <3>4. QED
      BY <1>3, <3>1, <3>2, <3>3
  <2>2. tx = t
    <3>1. i = 1 /\ j = 1
      BY <1>2 DEF Place, InputPlaces, OutputPlaces
    <3>2. Holds(t, tx, pc, i, j)
      BY <1>1, <1>4 DEF Reading, Goes
    <3>3. /\ tx.version = t.version /\ tx.ins = InputsSoFar(t, "done", 1, 1)
          /\ tx.outs = t.outs /\ tx.locktime = t.locktime
      BY <3>1, <3>2 DEF Holds, Early, Late
    <3>4. tx.ins = t.ins
      BY <1>1, <3>3, InputLists
    <3>5. /\ tx = [version |-> tx.version, ins |-> tx.ins, outs |-> tx.outs, locktime |-> tx.locktime]
          /\ t = [version |-> t.version, ins |-> t.ins, outs |-> t.outs, locktime |-> t.locktime]
      BY <1>1, <1>2 DEF ShortTxs, BtcTxs
    <3>6. QED
      BY <3>3, <3>4, <3>5
  <2>3. WithinLimits(t)
    BY <1>2, <2>2, ShortWithin
  <2>4. QED
    BY <1>3, <1>4, <2>1, <2>2, <2>3
<1>5. CASE h.err # "none"
  BY <1>1, <1>3, <1>5 DEF Reading, Unreadable
<1>6. QED
  BY <1>4, <1>5

\* What was written for a transaction with inputs is read as that transaction,
\* whatever follows it in the stream; and when it is over a limit, or the reader
\* fails before its last byte, ReadFrom returns an error and no shorter
\* transaction (btctx.go:476, 511; util.go:58, 70, 89).
THEOREM OwnBytes == Spec => []OwnBytesRead
<1>1. ReadInv => OwnBytesRead
  <2> SUFFICES ASSUME ReadInv, pc = "done", wrote # Nil, wrote.ins # <<>>
      PROVE  IF WithinLimits(wrote) /\ cut >= Len(Bytes(wrote))
             THEN h.err = "none" /\ tx = wrote /\ h.n = Len(Bytes(wrote))
             ELSE h.err # "none"
    BY DEF OwnBytesRead
  <2>1. Own(wrote)
    BY DEF Own
  <2>2. IF h.err = "none" THEN tx = wrote /\ h.n = Len(Bytes(wrote)) /\ WithinLimits(wrote) /\ cut >= Len(Bytes(wrote))
        ELSE ~ (WithinLimits(wrote) /\ cut >= Len(Bytes(wrote)))
    BY <2>1, ReadToTheEnd
  <2>3. QED
    BY <2>2, Zenon
<1>2. QED
  BY <1>1, ReadInvHolds, PTL

\* Whatever bytes were accepted, the transaction they gave, if it has an input, is
\* the one that its own bytes give: written again and read again it is the same
\* (btctx.go:476, 511).
THEOREM Reread == Spec => []RereadIsSame
<1>1. ReadInv => RereadIsSame
  <2> SUFFICES ASSUME ReadInv, pc = "done", prev # Nil, prev.ins # <<>>
      PROVE  h.err = "none" /\ tx = prev /\ h.n = Len(stream)
    BY DEF RereadIsSame
  <2>1. Own(prev)
    BY DEF Own
  <2>2. prev \in ShortTxs /\ cut = Len(stream) /\ Len(stream) = Len(Bytes(prev))
    BY DEF ReadInv
  <2>3. WithinLimits(prev)
    BY <2>2, ShortWithin
  <2>4. Len(stream) \in Nat
    BY TypesOf DEF ReadInv, StreamOK, Octet
  <2>5. IF h.err = "none" THEN tx = prev /\ h.n = Len(Bytes(prev)) /\ WithinLimits(prev) /\ cut >= Len(Bytes(prev))
        ELSE ~ (WithinLimits(prev) /\ cut >= Len(Bytes(prev)))
    BY <2>1, ReadToTheEnd
  <2>6. QED
    BY <2>2, <2>3, <2>4, <2>5
<1>2. QED
  BY <1>1, ReadInvHolds, PTL

-----------------------------------------------------------------------------
(***************************************************************************)
(* Sizes.  What ComputeSize counts is what exportBytes writes.             *)
(***************************************************************************)
Sums(n, ns) ==
    /\ n \in [0..Len(ns) -> Nat] /\ n[0] = 0
    /\ \A k \in 1..Len(ns) : n[k] = n[k - 1] + ns[k]

LEMMA AddedSums ==
  ASSUME NEW ns \in Seq(Nat)
  PROVE  \E n : Sums(n, ns) /\ Added(ns) = n[Len(ns)]
<1> DEFINE L == Len(ns)
           Runs(f) == f = [k \in 0..L |-> IF k = 0 THEN 0 ELSE f[k - 1] + ns[k]]
           step == [k \in 1..L |-> [x \in Nat |-> x + ns[k]]]
<1>1. L \in Nat /\ \A k \in 1..L : ns[k] \in Nat
  OBVIOUS
<1>2. step \in [1..L -> [Nat -> Nat]]
  BY <1>1
<1> HIDE DEF step, L
<1>3. PICK f : Iterates(f, Nat, 0, step, L)
  BY <1>1, <1>2, Iterated
<1>4. f \in [0..L -> Nat] /\ f[0] = 0 /\ \A k \in 1..L : f[k] = f[k - 1] + ns[k]
  <2>1. f \in [0..L -> Nat] /\ f[0] = 0 /\ \A k \in 1..L : f[k] = step[k][f[k - 1]]
    BY <1>3 DEF Iterates
  <2>2. ASSUME NEW k \in 1..L PROVE f[k] = f[k - 1] + ns[k]
    <3>1. k - 1 \in 0..L
      BY <1>1
    <3>2. f[k - 1] \in Nat
      BY <2>1, <3>1
    <3>3. QED
      BY <2>1, <3>2 DEF step
  <2>3. QED
    BY <2>1, <2>2
<1>5. Runs(f)
  BY <1>1, <1>4
<1> DEFINE r == CHOOSE r : Runs(r)
<1>6. Runs(r)
  <2> HIDE DEF Runs
  <2>1. QED
    BY <1>5
<1>7. Added(ns) = r[L]
  BY Zenon DEF Added, L
<1> HIDE DEF r
<1>8. r[0] = 0 /\ \A k \in 1..L : r[k] = r[k - 1] + ns[k]
  BY <1>1, <1>6
<1> DEFINE Q == { n \in Nat : n \in 0..L => r[n] \in Nat }
<1>9. 0 \in Q
  BY <1>8
<1>10. ASSUME NEW n \in Nat, n \in Q PROVE n + 1 \in Q
  <2>1. CASE n + 1 \in 0..L
    <3>1. n \in 0..L /\ (n + 1) - 1 = n /\ n + 1 \in 1..L
      BY <1>1, <2>1
    <3>2. r[n + 1] = r[n] + ns[n + 1] /\ r[n] \in Nat /\ ns[n + 1] \in Nat
      BY <1>1, <1>8, <1>10, <3>1
    <3>3. QED
      BY <3>2
  <2>2. QED
    BY <2>1
<1>11. \A k \in Nat : k \in Q
  <2> HIDE DEF Q
  <2>1. QED
    BY <1>9, <1>10, Induct
<1>12. r \in [0..L -> Nat]
  <2>1. r = [k \in 0..L |-> r[k]]
    BY <1>6
  <2>2. \A k \in 0..L : r[k] \in Nat
    BY <1>1, <1>11
  <2>3. QED
    BY <2>1, <2>2
<1>13. Sums(r, ns)
  BY <1>8, <1>12 DEF Sums, L
<1>14. QED
  BY <1>7, <1>13 DEF L

LEMMA JoinedLength ==
  ASSUME NEW a \in Octet, NEW b \in Octet
  PROVE  a \o b \in Octet /\ Len(a \o b) = Len(a) + Len(b) /\ Len(a) \in Nat /\ Len(b) \in Nat
  BY DEF Octet

\* The concatenation is as long as its parts together.
LEMMA LengthsAdd ==
  ASSUME NEW e \in Seq(Octet), NEW ns \in Seq(Nat), Len(ns) = Len(e), \A k \in 1..Len(e) : Len(e[k]) = ns[k]
  PROVE  Len(FlattenSeq(e)) = Added(ns) /\ Added(ns) \in Nat
<1> DEFINE L == Len(e)
<1>1. L \in Nat /\ Len(ns) = L /\ \A k \in 1..L : e[k] \in Octet /\ ns[k] \in Nat /\ Len(e[k]) = ns[k]
  OBVIOUS
<1>2. PICK f : Flattens(f, e, Octets) /\ FlattenSeq(e) = f[L]
  BY FlattenRuns DEF Octet
<1>3. PICK n : Sums(n, ns) /\ Added(ns) = n[L]
  BY <1>1, AddedSums
<1> HIDE DEF L
<1>4. f \in [0..L -> Octet] /\ f[0] = <<>> /\ \A k \in 1..L : f[k] = f[k - 1] \o e[k]
  BY <1>2, Zenon DEF Flattens, Octet, L
<1>5. n \in [0..L -> Nat] /\ n[0] = 0 /\ \A k \in 1..L : n[k] = n[k - 1] + ns[k]
  BY <1>1, <1>3 DEF Sums
<1> DEFINE Q == { k \in Nat : k \in 0..L => Len(f[k]) = n[k] }
<1>6. 0 \in Q
  BY <1>4, <1>5
<1>7. ASSUME NEW k \in Nat, k \in Q PROVE k + 1 \in Q
  <2>1. CASE k + 1 \in 0..L
    <3>1. k \in 0..L /\ k + 1 \in 1..L /\ (k + 1) - 1 = k
      BY <1>1, <2>1
    <3>2. f[k + 1] = f[k] \o e[k + 1] /\ n[k + 1] = n[k] + ns[k + 1] /\ Len(f[k]) = n[k] /\ Len(e[k + 1]) = ns[k + 1]
      BY <1>1, <1>4, <1>5, <1>7, <3>1
    <3>3. f[k] \in Octet /\ e[k + 1] \in Octet
      BY <1>1, <1>4, <3>1
    <3>4. Len(f[k] \o e[k + 1]) = Len(f[k]) + Len(e[k + 1])
      BY <3>3, JoinedLength
    <3>5. Len(f[k + 1]) = n[k + 1]
      BY <3>2, <3>4, Zenon
    <3>6. QED
      BY <3>5
  <2>2. QED
    BY <2>1
<1>8. L \in Q
  <2> HIDE DEF Q
  <2>1. QED
    BY <1>1, <1>6, <1>7, Induct
<1>9. QED
  BY <1>1, <1>2, <1>3, <1>5, <1>8

LEMMA VarIntLength ==
  ASSUME NEW v \in Nat
  PROVE  Len(VarInt(v)) = V!VarIntLen(v) /\ V!VarIntLen(v) \in Nat
<1>1. Byte \in Nat /\ V!U16 \in Nat /\ V!U32 \in Nat /\ Byte > 4 /\ V!U16 > Byte - 4 /\ V!U32 > V!U16
  <2>1. \A m \in Nat : m > 4 => m * m > m
    <3> TAKE m \in Nat
    <3>1. m > 4 => m * m >= m * 2
      OBVIOUS
    <3>2. QED
      BY <3>1
  <2>2. QED
    BY <2>1, Radix
<1>2. \A w, x \in Nat : LittleEndian(w, x) \in Octet /\ Len(LittleEndian(w, x)) = w
  BY LittleEndianType DEF Octet
<1>3. ASSUME NEW tag \in Nat, NEW w \in Nat
      PROVE  Len(LittleEndian(1, tag) \o LittleEndian(w, v)) = 1 + w
  <2>1. LittleEndian(1, tag) \in Octet /\ LittleEndian(w, v) \in Octet
    BY <1>2
  <2>2. Len(LittleEndian(1, tag)) = 1 /\ Len(LittleEndian(w, v)) = w
    BY <1>2
  <2>3. QED
    BY <2>1, <2>2, JoinedLength
<1>4. Byte - 3 \in Nat /\ Byte - 2 \in Nat /\ Byte - 1 \in Nat
  BY <1>1
<1>5. CASE v <= Byte - 4
  <2>1. Len(VarInt(v)) = 1
    BY <1>2, <1>5, VarIntForms
  <2>2. V!VarIntLen(v) = 1
    BY <1>1, <1>5 DEF V!VarIntLen
  <2>3. QED
    BY <2>1, <2>2
<1>6. CASE v > Byte - 4 /\ v < V!U16
  <2> DEFINE tag == Byte - 3
  <2>1. Len(LittleEndian(1, tag) \o LittleEndian(2, v)) = 3
    <3>1. tag \in Nat
      BY <1>4
    <3> HIDE DEF tag
    <3>2. Len(LittleEndian(1, tag) \o LittleEndian(2, v)) = 1 + 2
      BY <1>3, <3>1
    <3>3. QED
      BY <3>2
  <2>2. V!VarIntLen(v) = 3
    BY <1>1, <1>6 DEF V!VarIntLen
  <2>3. VarInt(v) = LittleEndian(1, Byte - 3) \o LittleEndian(2, v)
    BY <1>6, VarIntForms
  <2>4. QED
    BY <2>1, <2>2, <2>3
<1>7. CASE v >= V!U16 /\ v < V!U32
  <2> DEFINE tag == Byte - 2
  <2>1. Len(LittleEndian(1, tag) \o LittleEndian(4, v)) = 5
    <3>1. tag \in Nat
      BY <1>4
    <3> HIDE DEF tag
    <3>2. Len(LittleEndian(1, tag) \o LittleEndian(4, v)) = 1 + 4
      BY <1>3, <3>1
    <3>3. QED
      BY <3>2
  <2>2. V!VarIntLen(v) = 5
    BY <1>1, <1>7 DEF V!VarIntLen
  <2>3. VarInt(v) = LittleEndian(1, Byte - 2) \o LittleEndian(4, v)
    BY <1>7, VarIntForms
  <2>4. QED
    BY <2>1, <2>2, <2>3
<1>8. CASE v >= V!U32
  <2> DEFINE tag == Byte - 1
  <2>1. Len(LittleEndian(1, tag) \o LittleEndian(8, v)) = 9
    <3>1. tag \in Nat
      BY <1>4
    <3> HIDE DEF tag
    <3>2. Len(LittleEndian(1, tag) \o LittleEndian(8, v)) = 1 + 8
      BY <1>3, <3>1
    <3>3. QED
      BY <3>2
  <2>2. V!VarIntLen(v) = 9
    BY <1>1, <1>8 DEF V!VarIntLen
  <2>3. VarInt(v) = LittleEndian(1, Byte - 1) \o LittleEndian(8, v)
    BY <1>8, VarIntForms
  <2>4. QED
    BY <2>1, <2>2, <2>3
<1>9. QED
  BY <1>1, <1>5, <1>6, <1>7, <1>8

LEMMA BufLength ==
  ASSUME NEW b \in Octet
  PROVE  VarBuf(b) \in Octet /\ Len(VarBuf(b)) = bufSize(b) /\ bufSize(b) \in Nat
<1>1. Len(b) \in Nat
  BY DEF Octet
<1>2. VarInt(Len(b)) \in Octet /\ Len(VarInt(Len(b))) = V!VarIntLen(Len(b)) /\ V!VarIntLen(Len(b)) \in Nat
  BY <1>1, VarIntType, VarIntLength
<1>3. Len(VarInt(Len(b)) \o b) = Len(VarInt(Len(b))) + Len(b)
  BY <1>2, JoinedLength
<1>4. QED
  BY <1>1, <1>2, <1>3, VarBufType DEF VarBuf, bufSize

\* The same for two lists of parts and counts that are written as functions.
LEMMA CountsAdd ==
  ASSUME NEW e \in Seq(Octet), NEW ns, ns = [k \in 1..Len(e) |-> ns[k]],
         \A k \in 1..Len(e) : ns[k] \in Nat /\ Len(e[k]) = ns[k]
  PROVE  Len(FlattenSeq(e)) = Added(ns) /\ Added(ns) \in Nat /\ FlattenSeq(e) \in Octet
<1>1. Len(e) \in Nat
  OBVIOUS
<1>2. ns \in Seq(Nat) /\ Len(ns) = Len(e)
  <2> DEFINE c == [k \in 1..Len(e) |-> ns[k]]
  <2>1. c \in Seq(Nat) /\ Len(c) = Len(e)
    BY <1>1
  <2>2. c = ns
    OBVIOUS
  <2> HIDE DEF c
  <2>3. QED
    BY <2>1, <2>2, Zenon
<1>3. FlattenSeq(e) \in Octet
  BY FlattenType DEF Octet
<1>4. QED
  BY <1>2, <1>3, LengthsAdd

LEMMA InputLength ==
  ASSUME NEW in \in TxInputs
  PROVE  Len(InputBytes(in)) = computeSize(in) /\ computeSize(in) \in Nat
<1>1. /\ in.txid \in Octet /\ Len(in.txid) = TxidLen /\ in.script \in Octet
      /\ in.vout \in Nat /\ in.sequence \in Nat
  BY WordTypes DEF TxInputs, Buffers, Slices, Octet
<1> DEFINE x == in.txid
           a == Reverse(in.txid)
           b == LittleEndian(4, in.vout)
           c == VarBuf(in.script)
           d == LittleEndian(4, in.sequence)
<1>2. a \in Octet /\ Len(a) = TxidLen
  <2>1. x \in Seq(Octets) /\ Len(x) = TxidLen /\ TxidLen \in Nat /\ a = Reverse(x)
    BY <1>1, Radix DEF Octet
  <2> HIDE DEF x, a
  <2>2. Reverse(x) \in Seq(Octets) /\ Len(Reverse(x)) = TxidLen
    BY <2>1 DEF Reverse
  <2>3. QED
    BY <2>1, <2>2 DEF Octet
<1>3. b \in Octet /\ Len(b) = 4 /\ d \in Octet /\ Len(d) = 4
  BY <1>1, LittleEndianType DEF Octet
<1>4. c \in Octet /\ Len(c) = bufSize(in.script) /\ bufSize(in.script) \in Nat
  BY <1>1, BufLength
<1>5. InputBytes(in) = ((a \o b) \o c) \o d
  BY Zenon DEF InputBytes
<1> HIDE DEF a, b, c, d
<1>6. (a \o b) \in Octet /\ Len(a \o b) = TxidLen + 4
  BY <1>2, <1>3, JoinedLength
<1>7. ((a \o b) \o c) \in Octet /\ Len((a \o b) \o c) = TxidLen + 4 + bufSize(in.script)
  BY <1>4, <1>6, JoinedLength
<1>8. Len(((a \o b) \o c) \o d) = TxidLen + 4 + bufSize(in.script) + 4
  BY <1>3, <1>7, JoinedLength
<1>9. V!VarIntLen(Len(in.script)) \in Nat /\ Len(in.script) \in Nat
  <2>1. Len(in.script) \in Nat
    BY <1>1 DEF Octet
  <2>2. QED
    BY <2>1, VarIntLength
<1>10. QED
  BY <1>4, <1>5, <1>8, <1>9, Radix DEF computeSize, bufSize

LEMMA OutputLength ==
  ASSUME NEW out \in TxOutputs
  PROVE  Len(OutputBytes(out)) = computeOutputSize(out) /\ computeOutputSize(out) \in Nat
<1>1. out.amount \in Nat /\ out.script \in Octet
  BY WordTypes DEF TxOutputs, Buffers, Slices, Octet
<1> DEFINE a == LittleEndian(8, out.amount)
           b == VarBuf(out.script)
<1>2. a \in Octet /\ Len(a) = 8
  BY <1>1, LittleEndianType DEF Octet
<1>3. b \in Octet /\ Len(b) = bufSize(out.script) /\ bufSize(out.script) \in Nat
  BY <1>1, BufLength
<1>4. OutputBytes(out) = a \o b
  BY Zenon DEF OutputBytes
<1> HIDE DEF a, b
<1>5. Len(a \o b) = 8 + bufSize(out.script)
  BY <1>2, <1>3, JoinedLength
<1>6. V!VarIntLen(Len(out.script)) \in Nat /\ Len(out.script) \in Nat
  <2>1. Len(out.script) \in Nat
    BY <1>1 DEF Octet
  <2>2. QED
    BY <2>1, VarIntLength
<1>7. QED
  BY <1>3, <1>4, <1>5, <1>6 DEF computeOutputSize, bufSize

LEMMA WitnessLength ==
  ASSUME NEW in \in TxInputs
  PROVE  Len(WitnessBytes(in)) = computeWitnessSize(in) /\ computeWitnessSize(in) \in Nat
<1> DEFINE s == in.wit
           e == ItemParts(in)
           ns == [k \in DOMAIN s |-> bufSize(s[k])]
           a == VarInt(Len(s))
<1>1. /\ s \in Seq(Buffers) /\ e \in Seq(Octet) /\ Len(e) = Len(s)
      /\ \A k \in 1..Len(s) : s[k] \in Octet /\ e[k] = VarBuf(s[k])
  BY ItemPartsType
<1>2. WitnessBytes(in) = a \o FlattenSeq(e)
  BY Zenon DEF WitnessBytes, Concat, ItemParts
<1>3. computeWitnessSize(in) = V!VarIntLen(Len(s)) + Added(ns)
  BY Zenon DEF computeWitnessSize, Total
<1> HIDE DEF s, e
<1>4. DOMAIN s = 1..Len(s) /\ Len(s) \in Nat
  BY <1>1
<1>5. \A k \in 1..Len(s) : Len(VarBuf(s[k])) = bufSize(s[k]) /\ bufSize(s[k]) \in Nat
  BY <1>1, BufLength
<1>6. ns = [k \in 1..Len(e) |-> ns[k]] /\ \A k \in 1..Len(e) : ns[k] \in Nat /\ Len(e[k]) = ns[k]
  BY <1>1, <1>4, <1>5
<1> HIDE DEF ns
<1>7. Len(FlattenSeq(e)) = Added(ns) /\ Added(ns) \in Nat /\ FlattenSeq(e) \in Octet
  BY <1>1, <1>6, CountsAdd
<1>8. a \in Octet /\ Len(a) = V!VarIntLen(Len(s)) /\ V!VarIntLen(Len(s)) \in Nat
  BY <1>4, VarIntType, VarIntLength
<1> HIDE DEF a
<1>9. Len(a \o FlattenSeq(e)) = V!VarIntLen(Len(s)) + Added(ns)
  BY <1>7, <1>8, JoinedLength
<1>10. QED
  BY <1>2, <1>3, <1>7, <1>8, <1>9

\* What the lists of a transaction come to.
LEMMA ListLengths ==
  ASSUME NEW t \in BtcTxs
  PROVE  /\ Len(FlattenSeq(InputParts(t))) = Total(computeSize, t.ins)
         /\ Len(FlattenSeq(WitnessParts(t))) = Total(computeWitnessSize, t.ins)
         /\ Len(FlattenSeq(OutputParts(t))) = Total(computeOutputSize, t.outs)
         /\ FlattenSeq(InputParts(t)) \in Octet /\ FlattenSeq(WitnessParts(t)) \in Octet
         /\ FlattenSeq(OutputParts(t)) \in Octet
<1>1. /\ DOMAIN t.ins = 1..Len(t.ins) /\ \A k \in 1..Len(t.ins) : t.ins[k] \in TxInputs
      /\ DOMAIN t.outs = 1..Len(t.outs) /\ \A k \in 1..Len(t.outs) : t.outs[k] \in TxOutputs
  BY PartsType
<1>2. /\ InputParts(t) \in Seq(Octet) /\ Len(InputParts(t)) = Len(t.ins)
      /\ WitnessParts(t) \in Seq(Octet) /\ Len(WitnessParts(t)) = Len(t.ins)
      /\ OutputParts(t) \in Seq(Octet) /\ Len(OutputParts(t)) = Len(t.outs)
  BY PartsType
<1> DEFINE ni == [k \in DOMAIN t.ins |-> computeSize(t.ins[k])]
           nw == [k \in DOMAIN t.ins |-> computeWitnessSize(t.ins[k])]
           no == [k \in DOMAIN t.outs |-> computeOutputSize(t.outs[k])]
<1>3. /\ Total(computeSize, t.ins) = Added(ni) /\ Total(computeWitnessSize, t.ins) = Added(nw)
      /\ Total(computeOutputSize, t.outs) = Added(no)
  BY Zenon DEF Total
<1>4. /\ \A k \in 1..Len(t.ins) : /\ Len(InputBytes(t.ins[k])) = computeSize(t.ins[k]) /\ computeSize(t.ins[k]) \in Nat
                                  /\ Len(WitnessBytes(t.ins[k])) = computeWitnessSize(t.ins[k])
                                  /\ computeWitnessSize(t.ins[k]) \in Nat
      /\ \A k \in 1..Len(t.outs) : /\ Len(OutputBytes(t.outs[k])) = computeOutputSize(t.outs[k])
                                   /\ computeOutputSize(t.outs[k]) \in Nat
  BY <1>1, InputLength, WitnessLength, OutputLength
<1>5. /\ ni = [k \in 1..Len(InputParts(t)) |-> ni[k]]
      /\ \A k \in 1..Len(InputParts(t)) : ni[k] \in Nat /\ Len(InputParts(t)[k]) = ni[k]
  BY <1>1, <1>2, <1>4 DEF InputParts
<1>6. /\ nw = [k \in 1..Len(WitnessParts(t)) |-> nw[k]]
      /\ \A k \in 1..Len(WitnessParts(t)) : nw[k] \in Nat /\ Len(WitnessParts(t)[k]) = nw[k]
  BY <1>1, <1>2, <1>4 DEF WitnessParts
<1>7. /\ no = [k \in 1..Len(OutputParts(t)) |-> no[k]]
      /\ \A k \in 1..Len(OutputParts(t)) : no[k] \in Nat /\ Len(OutputParts(t)[k]) = no[k]
  BY <1>1, <1>2, <1>4 DEF OutputParts
<1> HIDE DEF ni, nw, no
<1>8. Len(FlattenSeq(InputParts(t))) = Added(ni) /\ FlattenSeq(InputParts(t)) \in Octet
  BY <1>2, <1>5, CountsAdd
<1>9. Len(FlattenSeq(WitnessParts(t))) = Added(nw) /\ FlattenSeq(WitnessParts(t)) \in Octet
  BY <1>2, <1>6, CountsAdd
<1>10. Len(FlattenSeq(OutputParts(t))) = Added(no) /\ FlattenSeq(OutputParts(t)) \in Octet
  BY <1>2, <1>7, CountsAdd
<1>11. QED
  BY <1>3, <1>8, <1>9, <1>10, Zenon

LEMMA ExportLength ==
  ASSUME NEW t \in BtcTxs
  PROVE  /\ Len(exportBytes(t, FALSE)) = BaseSize(t) /\ BaseSize(t) \in Nat
         /\ Len(exportBytes(t, TRUE)) = BaseSize(t) + WitnessSize(t) /\ WitnessSize(t) \in Nat
<1> DEFINE fi == FlattenSeq(InputParts(t))
           fo == FlattenSeq(OutputParts(t))
           fw == FlattenSeq(WitnessParts(t))
           lv == LittleEndian(4, t.version)
           vi == VarInt(Len(t.ins))
           vo == VarInt(Len(t.outs))
           lt == LittleEndian(4, t.locktime)
           Written(mark, end) == ((((((lv \o mark) \o vi) \o fi) \o vo) \o fo) \o end) \o lt
<1>1. exportBytes(t, FALSE) = Written(<<>>, <<>>) /\ exportBytes(t, TRUE) = Written(<<0, 1>>, fw)
  BY Zenon DEF exportBytes, Concat, InputParts, OutputParts, WitnessParts
<1>2. t.version \in Nat /\ t.locktime \in Nat /\ Len(t.ins) \in Nat /\ Len(t.outs) \in Nat
  BY PartsType, WordTypes DEF BtcTxs
<1>3. lv \in Octet /\ Len(lv) = 4 /\ lt \in Octet /\ Len(lt) = 4
  BY <1>2, LittleEndianType DEF Octet
<1>4. /\ vi \in Octet /\ Len(vi) = V!VarIntLen(Len(t.ins)) /\ V!VarIntLen(Len(t.ins)) \in Nat
      /\ vo \in Octet /\ Len(vo) = V!VarIntLen(Len(t.outs)) /\ V!VarIntLen(Len(t.outs)) \in Nat
  BY <1>2, VarIntType, VarIntLength
<1> DEFINE ti == Total(computeSize, t.ins)
           tw == Total(computeWitnessSize, t.ins)
           to == Total(computeOutputSize, t.outs)
<1>5. fi \in Octet /\ fo \in Octet /\ fw \in Octet /\ Len(fi) = ti /\ Len(fo) = to /\ Len(fw) = tw
  BY ListLengths, Zenon
<1>6. /\ BaseSize(t) = 4 + V!VarIntLen(Len(t.ins)) + V!VarIntLen(Len(t.outs)) + 4 + ti + to
      /\ WitnessSize(t) = tw + 2
  BY Zenon DEF BaseSize, WitnessSize
<1> HIDE DEF fi, fo, fw, lv, vi, vo, lt, ti, tw, to
<1>7. ti \in Nat /\ tw \in Nat /\ to \in Nat
  BY <1>5 DEF Octet
<1>8. ASSUME NEW mark \in Octet, NEW end \in Octet
      PROVE  Len(Written(mark, end)) = BaseSize(t) + Len(mark) + Len(end)
  <2> DEFINE p1 == lv \o mark
             p2 == p1 \o vi
             p3 == p2 \o fi
             p4 == p3 \o vo
             p5 == p4 \o fo
             p6 == p5 \o end
             p7 == p6 \o lt
  <2>1. Written(mark, end) = p7
    BY Zenon
  <2>2. p1 \in Octet /\ Len(p1) = 4 + Len(mark) /\ Len(mark) \in Nat
    BY <1>3, JoinedLength
  <2> HIDE DEF p1
  <2>3. p2 \in Octet /\ Len(p2) = Len(p1) + Len(vi)
    BY <1>4, <2>2, JoinedLength
  <2> HIDE DEF p2
  <2>4. p3 \in Octet /\ Len(p3) = Len(p2) + ti
    BY <1>5, <2>3, JoinedLength
  <2> HIDE DEF p3
  <2>5. p4 \in Octet /\ Len(p4) = Len(p3) + Len(vo)
    BY <1>4, <2>4, JoinedLength
  <2> HIDE DEF p4
  <2>6. p5 \in Octet /\ Len(p5) = Len(p4) + to
    BY <1>5, <2>5, JoinedLength
  <2> HIDE DEF p5
  <2>7. p6 \in Octet /\ Len(p6) = Len(p5) + Len(end) /\ Len(end) \in Nat
    BY <2>6, JoinedLength
  <2> HIDE DEF p6
  <2>8. Len(p7) = Len(p6) + 4 /\ Len(p6) \in Nat
    <3>1. Len(p7) = Len(p6) + Len(lt) /\ Len(p6) \in Nat
      BY <1>3, <2>7, JoinedLength
    <3>2. QED
      BY <1>3, <3>1
  <2> HIDE DEF p7
  <2>9. Len(p7) = BaseSize(t) + Len(mark) + Len(end)
    <3> DEFINE vin == V!VarIntLen(Len(t.ins))
               von == V!VarIntLen(Len(t.outs))
    <3>1. /\ BaseSize(t) = 4 + vin + von + 4 + ti + to /\ vin \in Nat /\ von \in Nat
          /\ Len(vi) = vin /\ Len(vo) = von
      BY <1>4, <1>6, Zenon
    <3> HIDE DEF vin, von
    <3>2. QED
      BY <1>7, <3>1, <2>2, <2>3, <2>4, <2>5, <2>6, <2>7, <2>8
  <2>10. QED
    BY <2>1, <2>9, Zenon
<1>9. <<>> \in Octet /\ <<0, 1>> \in Octet /\ Len(<<>>) = 0 /\ Len(<<0, 1>>) = 2
  BY Radix DEF Octet, Octets
<1>10. BaseSize(t) \in Nat /\ WitnessSize(t) \in Nat
  BY <1>4, <1>6, <1>7
<1> HIDE DEF Written
<1>11. Len(Written(<<>>, <<>>)) = BaseSize(t)
  <2>1. Len(Written(<<>>, <<>>)) = BaseSize(t) + Len(<<>>) + Len(<<>>)
    BY <1>8, <1>9
  <2>2. QED
    BY <1>9, <1>10, <2>1
<1>12. Len(Written(<<0, 1>>, fw)) = BaseSize(t) + WitnessSize(t)
  <2>1. Len(Written(<<0, 1>>, fw)) = BaseSize(t) + Len(<<0, 1>>) + Len(fw)
    BY <1>5, <1>8, <1>9
  <2>2. QED
    BY <1>5, <1>6, <1>7, <1>9, <1>10, <2>1
<1>13. QED
  BY <1>1, <1>10, <1>11, <1>12, Zenon

\* A quarter of what weighs four times as much without witnesses, rounded up.
LEMMA Quarter ==
  ASSUME NEW b \in Nat, NEW w \in Nat
  PROVE  /\ b = ((3 * b + b) + 3) \div 4
         /\ b + w \div 4 + (IF w % 4 = 0 THEN 0 ELSE 1) = ((3 * b + (b + w)) + 3) \div 4
<1>1. b = ((3 * b + b) + 3) \div 4
  OBVIOUS
<1>2. PICK q \in Nat, r \in 0..3 : w = 4 * q + r /\ w \div 4 = q /\ w % 4 = r
  <2>1. w \div 4 \in Nat /\ (w % 4) \in 0..3 /\ w = 4 * (w \div 4) + (w % 4)
    OBVIOUS
  <2>2. QED
    BY <2>1
<1>3. (3 * b + (b + w)) + 3 = 4 * (b + q) + (r + 3)
  BY <1>2
<1>4. ((3 * b + (b + w)) + 3) \div 4 = b + q + (IF r = 0 THEN 0 ELSE 1)
  BY <1>2, <1>3
<1>5. QED
  BY <1>1, <1>2, <1>4

LEMMA SizeIsExact ==
  ASSUME NEW t \in BtcTxs
  PROVE  ComputeSize(t) = ((3 * Len(exportBytes(t, FALSE)) + Len(Bytes(t))) + 3) \div 4
<1>1. /\ Len(exportBytes(t, FALSE)) = BaseSize(t) /\ BaseSize(t) \in Nat
      /\ Len(exportBytes(t, TRUE)) = BaseSize(t) + WitnessSize(t) /\ WitnessSize(t) \in Nat
  BY ExportLength
<1>2. CASE HasWitness(t)
  <2>1. Len(Bytes(t)) = BaseSize(t) + WitnessSize(t)
    <3>1. Bytes(t) = exportBytes(t, TRUE)
      <4>1. HasWitness(t) = TRUE
        BY <1>2 DEF HasWitness
      <4>2. QED
        BY <4>1, Zenon DEF Bytes
    <3>2. QED
      BY <1>1, <3>1
  <2>2. ComputeSize(t) = BaseSize(t) + WitnessSize(t) \div 4 + (IF WitnessSize(t) % 4 = 0 THEN 0 ELSE 1)
    BY <1>2, Zenon DEF ComputeSize
  <2> DEFINE b == BaseSize(t)
             w == WitnessSize(t)
  <2>3. /\ b \in Nat /\ w \in Nat /\ Len(exportBytes(t, FALSE)) = b /\ Len(Bytes(t)) = b + w
        /\ ComputeSize(t) = b + w \div 4 + (IF w % 4 = 0 THEN 0 ELSE 1)
    BY <1>1, <2>1, <2>2, Zenon
  <2> HIDE DEF b, w
  <2>4. b + w \div 4 + (IF w % 4 = 0 THEN 0 ELSE 1) = ((3 * b + (b + w)) + 3) \div 4
    BY <2>3, Quarter
  <2>5. QED
    BY <2>3, <2>4, Zenon
<1>3. CASE ~ HasWitness(t)
  <2>1. Len(Bytes(t)) = BaseSize(t)
    <3>1. Bytes(t) = exportBytes(t, FALSE)
      <4>1. HasWitness(t) = FALSE
        BY <1>3 DEF HasWitness
      <4>2. QED
        BY <4>1, Zenon DEF Bytes
    <3>2. QED
      BY <1>1, <3>1
  <2>2. ComputeSize(t) = BaseSize(t)
    BY <1>3, Zenon DEF ComputeSize
  <2>3. QED
    BY <1>1, <2>1, <2>2, Quarter
<1>4. QED
  BY <1>2, <1>3

\* The estimate that fees are computed from is the virtual size of BIP 141 for
\* every transaction that is read, whatever its lists and buffers are: a quarter
\* of three times the bytes without witnesses and once all, rounded up
\* (btctx.go:446).
THEOREM Sizes == Spec => []SizeIsVirtualSize
<1>1. WireInv => SizeIsVirtualSize
  <2> SUFFICES ASSUME WireInv
      PROVE  ComputeSize(tx) = ((3 * Len(exportBytes(tx, FALSE)) + Len(Bytes(tx))) + 3) \div 4
    BY Zenon DEF SizeIsVirtualSize
  <2>1. tx \in BtcTxs
    BY ShortIsBtcTx DEF WireInv
  <2>2. QED
    BY <2>1, SizeIsExact
<1>2. Init => WireInv
  BY InitInv
<1>3. WireInv /\ [Next]_vars => WireInv'
  BY WireStep
<1>4. QED
  BY <1>1, <1>2, <1>3, PTL DEF Spec

-----------------------------------------------------------------------------
(***************************************************************************)
(* What is accepted is in the bytes.  x lies between two places of the     *)
(* stream if there is room for it, and it is there if there is no more.    *)
(***************************************************************************)
Follows(a, b, x) ==
    /\ b >= a + Len(x)
    /\ b = a + Len(x) => \A k \in 1..Len(x) : stream[a + k] = x[k]

LEMMA FollowsOn ==
  ASSUME NEW a \in Nat, NEW b \in Nat, NEW c \in Nat, NEW x \in Octet, NEW y \in Octet,
         Follows(a, b, x), Follows(b, c, y)
  PROVE  Follows(a, c, x \o y)
<1> DEFINE z == x \o y
<1>1. /\ Len(x) \in Nat /\ Len(y) \in Nat /\ Len(z) = Len(x) + Len(y)
      /\ \A k \in 1..Len(x) : z[k] = x[k]
      /\ \A k \in 1..Len(y) : z[Len(x) + k] = y[k]
  <2>1. x \in Seq(Octets) /\ y \in Seq(Octets)
    BY DEF Octet
  <2>2. QED
    BY <2>1
<1> HIDE DEF z
<1>2. b >= a + Len(x) /\ c >= b + Len(y)
  BY DEF Follows
<1>3. c >= a + Len(z)
  BY <1>1, <1>2
<1>4. ASSUME c = a + Len(z), NEW k \in 1..Len(z) PROVE stream[a + k] = z[k]
  <2>1. b = a + Len(x) /\ c = b + Len(y)
    <3> DEFINE lx == Len(x)
               ly == Len(y)
    <3>1. lx \in Nat /\ ly \in Nat /\ b >= a + lx /\ c >= b + ly /\ c = a + (lx + ly)
      BY <1>1, <1>2, <1>4
    <3> HIDE DEF lx, ly
    <3>2. b = a + lx /\ c = b + ly
      BY <3>1
    <3>3. QED
      BY <3>2 DEF lx, ly
  <2>2. /\ \A n \in 1..Len(x) : stream[a + n] = x[n]
        /\ \A n \in 1..Len(y) : stream[b + n] = y[n]
    BY <2>1 DEF Follows
  <2>3. CASE k \in 1..Len(x)
    BY <1>1, <2>2, <2>3
  <2>4. CASE k \notin 1..Len(x)
    <3> DEFINE n == k - Len(x)
    <3>1. n \in 1..Len(y) /\ k = Len(x) + n /\ a + k = b + n
      BY <1>1, <1>4, <2>1, <2>4
    <3> HIDE DEF n
    <3>2. stream[b + n] = y[n] /\ z[Len(x) + n] = y[n]
      BY <1>1, <2>2, <3>1
    <3>3. QED
      BY <3>1, <3>2
  <2>5. QED
    BY <2>3, <2>4
<1>5. Follows(a, c, z)
  BY <1>3, <1>4 DEF Follows
<1>6. QED
  BY <1>5 DEF z

\* Without an error, what was read is what comes next.
LEMMA FullFollows ==
  ASSUME StreamOK, NEW r \in Helpers, NEW w \in Nat, readFull(r, w).h.err = "none"
  PROVE  LET got == readFull(r, w)
         IN  /\ r.err = "none" /\ got.h.n \in Nat /\ got.h.n = r.n + w /\ got.h.n <= cut
             /\ got.bytes \in Octet /\ Len(got.bytes) = w
             /\ \A k \in 1..w : got.bytes[k] = stream[r.n + k]
             /\ Follows(r.n, got.h.n, got.bytes)
<1> DEFINE got == readFull(r, w)
<1>1. r.n \in Nat /\ r.n <= cut /\ cut \in Nat /\ cut <= Len(stream) /\ stream \in Seq(Octets) /\ Len(stream) \in Nat
  BY DEF StreamOK, Helpers, Octet
<1>2. r.err = "none"
  BY ErrorStays
<1>3. got.bytes \in Octet /\ Len(got.bytes) = w
  BY ReadFullType
<1> DEFINE n == IF r.n + w <= cut THEN w ELSE cut - r.n
           part == SubSeq(stream, r.n + 1, r.n + n)
<1>4. got = [bytes |-> part \o Zeros(w - n),
             h |-> [n |-> r.n + n, err |-> IF n < w THEN "reader" ELSE "none"]]
  BY <1>2, Zenon DEF readFull, Take, Reach
<1>5. got.h.err = "none"
  OBVIOUS
<1> HIDE DEF got
<1>6. ~ (n < w)
  <2> HIDE DEF n
  <2>1. QED
    BY <1>4, <1>5
<1>7. r.n + w <= cut /\ n = w /\ w - n = 0
  BY <1>1, <1>6
<1> HIDE DEF n
<1>8. got.h.n = r.n + w /\ got.bytes = part \o Zeros(0)
  BY <1>4, <1>7
<1>9. part \in Seq(Octets) /\ Len(part) = w /\ \A k \in 1..w : part[k] = stream[r.n + k]
  <2>1. \A k \in r.n + 1 .. r.n + w : stream[k] \in Octets
    BY <1>1, <1>7
  <2>2. part \in Seq(Octets) /\ Len(part) = w
    BY <1>1, <1>7, <2>1, SubSeqProperties
  <2>3. part = [k \in 1..w |-> stream[r.n + k]]
    BY <1>1, <1>7, SMTT(30)
  <2> HIDE DEF part
  <2>4. QED
    BY <2>2, <2>3
<1> HIDE DEF part
<1>10. got.bytes = part
  <2>1. Zeros(0) = <<>>
    BY DEF Zeros
  <2>2. QED
    BY <1>8, <1>9, <2>1, NoBytes DEF Octet
<1>11. Follows(r.n, got.h.n, got.bytes)
  BY <1>1, <1>3, <1>8, <1>9, <1>10 DEF Follows
<1>12. QED
  BY <1>1, <1>2, <1>3, <1>7, <1>8, <1>9, <1>10, <1>11 DEF got

\* A digit behind a number, and the number again.
LEMMA Regained ==
  ASSUME NEW x \in Nat, NEW d \in Octets
  PROVE  (x * Byte + d) \div Byte = x /\ (x * Byte + d) % Byte = d /\ x * Byte + d \in Nat
<1>1. d \in Nat /\ d < Byte /\ Byte \in Nat /\ Byte > 0
  BY Radix DEF Octets
<1> DEFINE v == x * Byte + d
<1>2. x * Byte \in Nat /\ v \in Nat
  BY <1>1
<1>3. v = (v \div Byte) * Byte + (v % Byte) /\ v \div Byte \in Nat /\ v % Byte \in Nat /\ v % Byte < Byte
  <2> HIDE DEF v
  <2>1. v % Byte \in Octets
    BY <1>2, Division
  <2>2. QED
    BY <1>2, <2>1, Division, Radix DEF Octets
<1> DEFINE q == v \div Byte
           m == v % Byte
<1>4. ASSUME NEW a \in Nat, NEW b \in Nat, a < b, NEW e \in Nat, NEW f \in Nat, e < Byte
      PROVE  a * Byte + e # b * Byte + f
  <2>1. (a + 1) * Byte <= b * Byte
    BY <1>1, <1>4
  <2>2. (a + 1) * Byte = a * Byte + Byte /\ a * Byte \in Nat /\ b * Byte \in Nat
    BY <1>1
  <2>3. QED
    BY <1>1, <1>4, <2>1, <2>2
<1>5. x * Byte + d = q * Byte + m /\ q \in Nat /\ m \in Nat /\ m < Byte
  BY <1>3
<1> HIDE DEF q, m, v
<1>6. q = x
  <2>1. CASE q < x
    BY <1>1, <1>4, <1>5, <2>1
  <2>2. CASE x < q
    BY <1>1, <1>4, <1>5, <2>2
  <2>3. QED
    BY <1>5, <2>1, <2>2
<1>7. m = d
  BY <1>1, <1>2, <1>5, <1>6
<1>8. QED
  BY <1>2, <1>6, <1>7 DEF v, q, m

\* The bytes come back from their number.
LEMMA BytesReadBack ==
  ASSUME NEW s \in Octet
  PROVE  LittleEndian(Len(s), Number(s)) = s
<1> DEFINE w == Len(s)
           v == Number(s)
           t == LittleEndian(w, v)
<1>0. s \in Seq(Octets) /\ w \in Nat
  BY DEF Octet
<1>1. PICK n : Folds(n, s) /\ v = n[w]
  BY <1>0, NumberFolds
<1>2. /\ \A k \in 0..w : n[k] \in Nat
      /\ \A k \in 1..w : n[k] = n[k - 1] * Byte + s[w - k + 1] /\ s[w - k + 1] \in Octets
  <2>1. \A k \in 1..w : w - k + 1 \in 1..w
    BY <1>0
  <2>2. \A k \in 1..w : s[k] \in Octets
    BY <1>0
  <2> HIDE DEF v
  <2>3. QED
    BY <1>1, <2>1, <2>2 DEF Folds
<1>3. v \in Nat
  BY <1>0, NumberType
<1> HIDE DEF v
<1>4. PICK r : Unfolds(r, w, v) /\ \A k \in 1..w : t[k] = r[k - 1] % Byte
  BY <1>0, <1>3, LittleEndianUnfolds
<1>5. t \in Seq(Octets) /\ Len(t) = w
  BY <1>0, <1>3, LittleEndianUnfolds
<1> HIDE DEF t
<1>6. r[0] = v /\ \A k \in 1..w : r[k] = r[k - 1] \div Byte
  BY <1>4 DEF Unfolds
<1> HIDE DEF w
<1> DEFINE Q == { k \in Nat : k \in 0..w => r[k] = n[w - k] }
<1>7. 0 \in Q
  <2>1. w - 0 = w
    BY <1>0 DEF w
  <2>2. QED
    BY <1>1, <1>6, <2>1
<1>8. ASSUME NEW k \in Nat, k \in 0..w, k + 1 \in 0..w, r[k] = n[w - k]
      PROVE  r[k + 1] = n[w - (k + 1)] /\ r[k] % Byte = s[k + 1]
  <2> DEFINE p == w - k
  <2>1. p \in 1..w /\ p - 1 = w - (k + 1) /\ p - 1 \in 0..w /\ w - p + 1 = k + 1 /\ k + 1 \in 1..w /\ (k + 1) - 1 = k
    BY <1>0, <1>8 DEF w
  <2> HIDE DEF p
  <2>2. n[p] = n[p - 1] * Byte + s[k + 1] /\ s[k + 1] \in Octets /\ n[p - 1] \in Nat
    <3>1. n[p] = n[p - 1] * Byte + s[w - p + 1] /\ s[w - p + 1] \in Octets /\ n[p - 1] \in Nat
      BY <1>2, <2>1
    <3>2. QED
      BY <2>1, <3>1
  <2>3. r[k] = n[p]
    BY <1>8 DEF p
  <2>4. r[k + 1] = r[k] \div Byte
    BY <1>6, <2>1
  <2>5. r[k] \div Byte = n[p - 1] /\ r[k] % Byte = s[k + 1]
    BY <2>2, <2>3, Regained
  <2>6. QED
    BY <2>1, <2>4, <2>5
<1>9. ASSUME NEW k \in Nat, k \in Q PROVE k + 1 \in Q
  <2>1. CASE k + 1 \in 0..w
    <3>1. k \in 0..w
      BY <1>0, <2>1 DEF w
    <3>2. QED
      BY <1>8, <1>9, <2>1, <3>1
  <2>2. QED
    BY <2>1
<1>10. \A k \in Nat : k \in Q
  <2> HIDE DEF Q
  <2>1. QED
    BY <1>7, <1>9, Induct
<1>11. ASSUME NEW m \in 1..w PROVE t[m] = s[m]
  <2> DEFINE k == m - 1
  <2>1. k \in Nat /\ k \in 0..w /\ k + 1 \in 0..w /\ k + 1 = m
    BY <1>0 DEF w
  <2> HIDE DEF k
  <2>2. r[k] = n[w - k]
    BY <1>10, <2>1
  <2>3. r[k] % Byte = s[k + 1]
    BY <1>8, <2>1, <2>2
  <2>4. QED
    BY <1>4, <2>1, <2>3 DEF k
<1>12. QED
  BY <1>0, <1>5, <1>11 DEF w, t, v

LEMMA NumberFollows ==
  ASSUME StreamOK, NEW r \in Helpers, NEW w \in Nat, readNumber(r, w).h.err = "none"
  PROVE  LET got == readNumber(r, w)
         IN  /\ got.h.n \in Nat /\ got.value \in Nat
             /\ Follows(r.n, got.h.n, LittleEndian(w, got.value))
<1> DEFINE got == readFull(r, w)
<1>1. readNumber(r, w).value = Number(got.bytes) /\ readNumber(r, w).h = got.h
  BY DEF readNumber
<1>2. /\ got.h.n \in Nat /\ got.bytes \in Octet /\ Len(got.bytes) = w
      /\ Follows(r.n, got.h.n, got.bytes)
  BY <1>1, FullFollows
<1> HIDE DEF got
<1>3. LittleEndian(w, Number(got.bytes)) = got.bytes /\ Number(got.bytes) \in Nat
  BY <1>2, BytesReadBack, NumberType DEF Octet
<1>4. QED
  BY <1>1, <1>2, <1>3

\* One byte and two bytes make a number of that width.
LEMMA SmallNumbers ==
  ASSUME NEW s \in Octet
  PROVE  /\ Len(s) = 1 => Number(s) = s[1]
         /\ Len(s) = 2 => Number(s) < V!U16
<1>0. s \in Seq(Octets) /\ (\A k \in 1..Len(s) : s[k] \in Nat /\ s[k] < Byte)
  <2>1. s \in Seq(Octets)
    BY DEF Octet
  <2>2. \A d \in Octets : d \in Nat /\ d < Byte
    BY Radix DEF Octets
  <2>3. \A k \in 1..Len(s) : s[k] \in Octets
    BY <2>1
  <2>4. QED
    BY <2>1, <2>2, <2>3
<1>1. PICK n : Folds(n, s) /\ Number(s) = n[Len(s)]
  BY <1>0, NumberFolds
<1>2. n[0] = 0 /\ \A k \in 1..Len(s) : n[k] = n[k - 1] * Byte + s[Len(s) - k + 1]
  BY <1>1 DEF Folds
<1>3. CASE Len(s) = 1
  <2>1. 1 \in 1..Len(s) /\ Len(s) - 1 + 1 = 1 /\ 1 - 1 = 0
    BY <1>3
  <2>2. n[1] = n[0] * Byte + s[1] /\ s[1] \in Nat
    BY <1>0, <1>2, <2>1
  <2>3. n[1] = s[1]
    BY <1>2, <2>2, Radix
  <2>4. QED
    BY <1>1, <1>3, <2>3
<1>4. CASE Len(s) = 2
  <2>1. 1 \in 1..Len(s) /\ 2 \in 1..Len(s) /\ Len(s) - 1 + 1 = 2 /\ Len(s) - 2 + 1 = 1 /\ 1 - 1 = 0 /\ 2 - 1 = 1
    BY <1>4
  <2>2. n[1] = n[0] * Byte + s[2] /\ s[2] \in Nat /\ s[2] < Byte /\ s[1] \in Nat /\ s[1] < Byte
    BY <1>0, <1>2, <2>1
  <2>3. n[2] = n[1] * Byte + s[1]
    BY <1>2, <2>1
  <2>4. n[1] = s[2]
    BY <1>2, <2>2, Radix
  <2>5. n[1] + 1 <= Byte /\ n[1] \in Nat
    BY <2>2, <2>4, Radix
  <2>6. (n[1] + 1) * Byte <= Byte * Byte
    BY <2>5, Radix
  <2>7. (n[1] + 1) * Byte = n[1] * Byte + Byte /\ n[1] * Byte \in Nat
    BY <2>5, Radix
  <2>8. n[2] < Byte * Byte
    BY <2>2, <2>3, <2>6, <2>7, Radix
  <2>9. QED
    BY <1>1, <1>4, <2>8, Radix
<1>5. QED
  BY <1>3, <1>4

\* A smaller number takes fewer bytes.
LEMMA CountWidths ==
  ASSUME NEW v \in Nat
  PROVE  /\ VarInt(v) \in Octet /\ Len(VarInt(v)) \in Nat
         /\ v <= Byte - 4 => Len(VarInt(v)) <= 1
         /\ v < V!U16 => Len(VarInt(v)) <= 3
         /\ v < V!U32 => Len(VarInt(v)) <= 5
<1>1. Len(VarInt(v)) = V!VarIntLen(v) /\ V!VarIntLen(v) \in Nat /\ VarInt(v) \in Octet
  BY VarIntLength, VarIntType
<1>2. /\ v <= Byte - 4 => V!VarIntLen(v) <= 1
      /\ v < V!U16 => V!VarIntLen(v) <= 3
      /\ v < V!U32 => V!VarIntLen(v) <= 5
  BY Radix DEF V!VarIntLen
<1>3. QED
  BY <1>1, <1>2

\* The first byte of a form and the number behind it, if the number needs that form.
LEMMA NeededForm ==
  ASSUME NEW b \in Octets, NEW t \in Octet, NEW v \in Nat, v = Number(t),
         Len(t) = V!Announced(b), Len(t) # 0
  PROVE  VarInt(v) = <<b>> \o t \/ Len(VarInt(v)) < 1 + Len(t)
<1>1. /\ Byte \in Nat /\ Byte > 4 /\ V!U16 \in Nat /\ V!U32 \in Nat
      /\ b \in Nat
  BY Radix DEF Octets
<1>2. LittleEndian(Len(t), v) = t /\ LittleEndian(1, b) = <<b>>
  BY BytesReadBack, OneByte
<1>3. (Len(t) = 2 /\ b = Byte - 3) \/ (Len(t) = 4 /\ b = Byte - 2) \/ (Len(t) = 8 /\ b = Byte - 1)
  <2> DEFINE a == V!Announced(b)
  <2>1. (a = 2 /\ b = Byte - 3) \/ (a = 4 /\ b = Byte - 2) \/ (a = 8 /\ b = Byte - 1) \/ a = 0
    BY DEF V!Announced
  <2> HIDE DEF a
  <2>2. Len(t) = a /\ Len(t) # 0
    BY DEF a
  <2>3. QED
    BY <2>1, <2>2
<1>4. CASE Len(t) = 2 /\ b = Byte - 3
  <2>1. v < V!U16
    BY <1>4, SmallNumbers
  <2>2. CASE v <= Byte - 4
    BY <1>4, <2>2, CountWidths
  <2>3. CASE ~ (v <= Byte - 4)
    <3>1. v > Byte - 4
      BY <1>1, <2>3
    <3>2. VarInt(v) = LittleEndian(1, b) \o LittleEndian(2, v)
      BY <1>4, <2>1, <3>1, VarIntForms, Zenon
    <3>3. QED
      BY <1>2, <1>4, <3>2
  <2>4. QED
    BY <2>2, <2>3
<1>5. CASE Len(t) = 4 /\ b = Byte - 2
  <2>1. v < V!U32
    <3>1. v \in Word32
      BY <1>5, NumberRange DEF Octet
    <3>2. QED
      BY <3>1, Radix DEF Word32
  <2>2. CASE v < V!U16
    BY <1>5, <2>2, CountWidths
  <2>3. CASE ~ (v < V!U16)
    <3>1. v >= V!U16
      BY <1>1, <2>3
    <3>2. VarInt(v) = LittleEndian(1, b) \o LittleEndian(4, v)
      BY <1>5, <2>1, <3>1, VarIntForms, Zenon
    <3>3. QED
      BY <1>2, <1>5, <3>2
  <2>4. QED
    BY <2>2, <2>3
<1>6. CASE Len(t) = 8 /\ b = Byte - 1
  <2>1. CASE v < V!U32
    BY <1>6, <2>1, CountWidths
  <2>2. CASE ~ (v < V!U32)
    <3>1. v >= V!U32
      BY <1>1, <2>2
    <3>2. VarInt(v) = LittleEndian(1, b) \o LittleEndian(8, v)
      BY <1>6, <3>1, VarIntForms, Zenon
    <3>3. QED
      BY <1>2, <1>6, <3>2
  <2>3. QED
    BY <2>1, <2>2
<1>7. QED
  BY <1>3, <1>4, <1>5, <1>6

\* A count that is read is in the bytes, be its form longer than needed.
LEMMA CountFollows ==
  ASSUME StreamOK, NEW r \in Helpers, readVarInt(r).h.err = "none"
  PROVE  LET got == readVarInt(r)
         IN  /\ got.h.n \in Nat /\ got.value \in Nat /\ VarInt(got.value) \in Octet
             /\ Follows(r.n, got.h.n, VarInt(got.value))
<1> DEFINE w == Behind(r)
           got == readFull(r, 1 + w)
           v == readVarInt(r).value
           b == stream[r.n + 1]
<1>1. v = Number(IF w = 0 THEN got.bytes ELSE Tail(got.bytes)) /\ readVarInt(r).h = got.h
  BY DEF readVarInt
<1>2. w \in Nat /\ 1 + w \in Nat
  <2>1. \A t : V!Announced(t) \in Nat
    BY DEF V!Announced
  <2>2. w \in Nat
    BY <2>1 DEF Behind
  <2> HIDE DEF w
  <2>3. QED
    BY <2>2
<1>3. /\ r.err = "none" /\ got.h.n \in Nat /\ got.h.n = r.n + (1 + w) /\ got.h.n <= cut
      /\ got.bytes \in Octet /\ Len(got.bytes) = 1 + w
      /\ \A k \in 1..1 + w : got.bytes[k] = stream[r.n + k]
      /\ Follows(r.n, got.h.n, got.bytes)
  <2>1. got.h.err = "none"
    BY <1>1
  <2> HIDE DEF w
  <2>2. QED
    BY <1>2, <2>1, FullFollows
<1>4. r.n \in Nat /\ cut \in Nat
  BY DEF StreamOK, Helpers
<1>5. w = V!Announced(b)
  <2> DEFINE a == V!Announced(b)
  <2>1. w = IF r.n < cut THEN a ELSE 0
    BY <1>3, Zenon DEF Behind, Reach
  <2> HIDE DEF w, a
  <2>2. r.n < cut
    BY <1>2, <1>3, <1>4
  <2>3. QED
    BY <2>1, <2>2 DEF a
<1> HIDE DEF w, got
<1>6. b = got.bytes[1] /\ b \in Octets
  <2>1. 1 \in 1..1 + w
    BY <1>2
  <2>2. QED
    BY <1>3, <2>1 DEF Octet
<1> HIDE DEF b
<1>7. v \in Nat
  BY ReadVarIntType
<1> HIDE DEF v
<1>8. VarInt(v) \in Octet /\ Len(VarInt(v)) \in Nat
  BY <1>7, CountWidths
<1>9. Follows(r.n, got.h.n, VarInt(v))
  <2>1. CASE w = 0
    <3>1. v = b
      BY <1>1, <1>3, <1>6, <2>1, SmallNumbers
    <3>2. b <= Byte - 4
      <4>1. b # Byte - 3 /\ b # Byte - 2 /\ b # Byte - 1
        BY <1>5, <2>1 DEF V!Announced
      <4>2. QED
        BY <1>6, <4>1, Radix DEF Octets
    <3>3. VarInt(v) = <<b>>
      BY <1>6, <1>7, <3>1, <3>2, VarIntForms, OneByte
    <3>4. got.bytes = <<b>>
      BY <1>3, <1>6, <2>1 DEF Octet
    <3>5. QED
      BY <1>3, <3>3, <3>4
  <2>2. CASE w # 0
    <3> DEFINE t == Tail(got.bytes)
    <3>1. t \in Octet /\ Len(t) = w /\ got.bytes = <<b>> \o t
      <4>1. got.bytes \in Seq(Octets) /\ Len(got.bytes) = 1 + w /\ got.bytes[1] = b
        BY <1>3, <1>6 DEF Octet
      <4>2. QED
        BY <1>2, <4>1 DEF Octet
    <3>2. v = Number(t)
      BY <1>1, <2>2
    <3> HIDE DEF t
    <3>3. VarInt(v) = <<b>> \o t \/ Len(VarInt(v)) < 1 + w
      BY <1>5, <1>6, <1>7, <2>2, <3>1, <3>2, NeededForm
    <3>4. CASE VarInt(v) = <<b>> \o t
      BY <1>3, <3>1, <3>4
    <3>5. CASE Len(VarInt(v)) < 1 + w
      BY <1>2, <1>3, <1>4, <1>8, <3>5 DEF Follows
    <3>6. QED
      BY <3>3, <3>4, <3>5
  <2>3. QED
    BY <2>1, <2>2
<1>10. QED
  BY <1>1, <1>3, <1>7, <1>8, <1>9 DEF v

\* And so is a buffer.
LEMMA BufferFollows ==
  ASSUME StreamOK, NEW r \in Helpers, readVarBuf(r).h.err = "none"
  PROVE  LET got == readVarBuf(r)
         IN  /\ got.h.n \in Nat /\ VarBuf(got.bytes) \in Octet
             /\ Follows(r.n, got.h.n, VarBuf(got.bytes))
<1> DEFINE ln == readVarInt(r)
           got == readVarBuf(r)
<1>0. ln.h \in Helpers /\ ln.value \in Nat /\ got.bytes \in Octet /\ r.n \in Nat
  BY ReadVarIntType, ReadVarBufType DEF ShortBuffers, Helpers
<1>1. got = IF ln.value = 0 THEN [bytes |-> <<>>, h |-> ln.h]
            ELSE IF ln.value > MaxBuf THEN [bytes |-> <<>>, h |-> [ln.h EXCEPT !.err = "limit"]]
            ELSE readFull(ln.h, ln.value)
  BY Zenon DEF readVarBuf
<1>2. got.h.err = "none"
  OBVIOUS
<1>3. ASSUME ln.h.err = "none"
      PROVE  ln.h.n \in Nat /\ VarInt(ln.value) \in Octet /\ Follows(r.n, ln.h.n, VarInt(ln.value))
  BY <1>3, CountFollows
<1> HIDE DEF ln, got
<1>4. CASE ln.value = 0
  <2>1. got.bytes = <<>> /\ got.h = ln.h
    BY <1>1, <1>4
  <2>2. VarBuf(got.bytes) = VarInt(0) \o <<>>
    BY <2>1 DEF VarBuf
  <2>3. ln.h.n \in Nat /\ VarInt(0) \in Octet /\ Follows(r.n, ln.h.n, VarInt(0))
    BY <1>2, <1>3, <1>4, <2>1
  <2>4. VarBuf(got.bytes) = VarInt(0)
    BY <2>2, <2>3, NoBytes
  <2>5. QED
    BY <2>1, <2>3, <2>4 DEF got
<1>5. CASE ln.value # 0 /\ ln.value > MaxBuf
  <2>1. got.h.err = "limit"
    BY <1>0, <1>1, <1>5 DEF Helpers
  <2>2. QED
    BY <1>2, <2>1
<1>6. CASE ln.value # 0 /\ ~ (ln.value > MaxBuf)
  <2>1. got = readFull(ln.h, ln.value)
    BY <1>1, <1>6, Zenon
  <2>2. /\ ln.h.err = "none" /\ got.h.n \in Nat /\ got.bytes \in Octet /\ Len(got.bytes) = ln.value
        /\ Follows(ln.h.n, got.h.n, got.bytes)
    <3>1. readFull(ln.h, ln.value).h.err = "none"
      BY <1>2, <2>1
    <3>2. QED
      BY <1>0, <2>1, <3>1, FullFollows
  <2>3. ln.h.n \in Nat /\ VarInt(ln.value) \in Octet /\ Follows(r.n, ln.h.n, VarInt(ln.value))
    BY <1>3, <2>2
  <2>4. VarBuf(got.bytes) = VarInt(ln.value) \o got.bytes
    BY <2>2 DEF VarBuf
  <2>5. Follows(r.n, got.h.n, VarInt(ln.value) \o got.bytes)
    BY <1>0, <2>2, <2>3, FollowsOn
  <2>6. QED
    BY <2>2, <2>3, <2>4, <2>5, Joined DEF got
<1>7. QED
  BY <1>4, <1>5, <1>6

-----------------------------------------------------------------------------
(***************************************************************************)
(* What of the bytes of a transaction was read at each place.              *)
(***************************************************************************)
\* What the sequences before the k-th make.
Before(e, k) == FlattenSeq([n \in 1..k-1 |-> e[n]])

VersionTo(t)        == LittleEndian(4, t.version)
Top(t, w)           == VersionTo(t) \o (IF w THEN <<0, 1>> ELSE <<>>)
InputsTo(t, w, k)   == (Top(t, w) \o VarInt(Len(t.ins))) \o Before(InputParts(t), k)
VoutTo(t, w, k)     == InputsTo(t, w, k) \o Reverse(t.ins[k].txid)
ScriptTo(t, w, k)   == VoutTo(t, w, k) \o LittleEndian(4, t.ins[k].vout)
SequenceTo(t, w, k) == ScriptTo(t, w, k) \o VarBuf(t.ins[k].script)
OutputCountTo(t, w) == InputsTo(t, w, Len(t.ins) + 1)
OutputsTo(t, w, k)  == (OutputCountTo(t, w) \o VarInt(Len(t.outs))) \o Before(OutputParts(t), k)
OutScriptTo(t, w, k) == OutputsTo(t, w, k) \o LittleEndian(8, t.outs[k].amount)
OutputsRead(t, w)   == OutputsTo(t, w, Len(t.outs) + 1)
WitnessTo(t, w, k)  == OutputsRead(t, w) \o Before(WitnessParts(t), k)
ItemsTo(t, w, k, m) == (WitnessTo(t, w, k) \o VarInt(Len(t.ins[k].wit))) \o Before(ItemParts(t.ins[k]), m)
LocktimeTo(t, w)    == IF w THEN WitnessTo(t, w, Len(t.ins) + 1) ELSE OutputsRead(t, w)

LEMMA BeforeSplits ==
  ASSUME NEW e \in Seq(Octet)
  PROVE  /\ Before(e, 1) = <<>> /\ Before(e, Len(e) + 1) = FlattenSeq(e)
         /\ \A k \in 1..Len(e) + 1 : Before(e, k) \in Octet
         /\ \A k \in 1..Len(e) : Before(e, k + 1) = Before(e, k) \o e[k] /\ e[k] \in Octet
<1> DEFINE L == Len(e)
           s(k) == [n \in 1..k-1 |-> e[n]]
<1>1. L \in Nat /\ \A n \in 1..L : e[n] \in Octet
  OBVIOUS
<1>2. e = [n \in 1..L |-> e[n]]
  OBVIOUS
<1>3. PICK f : Flattens(f, e, Octets) /\ FlattenSeq(e) = f[L]
  BY FlattenRuns DEF Octet
<1> HIDE DEF L
<1>4. f \in [0..L -> Octet] /\ f[0] = <<>> /\ \A n \in 1..L : f[n] = f[n - 1] \o e[n]
  BY <1>3, Zenon DEF Flattens, Octet, L
<1>5. ASSUME NEW k \in 1..L + 1 PROVE Before(e, k) = f[k - 1]
  <2> DEFINE c == k - 1
             b == s(k)
  <2>1. c \in Nat /\ c <= L /\ c \in 0..L
    BY <1>1
  <2>2. b \in Seq(Octet) /\ Len(b) = c /\ \A n \in 1..c : b[n] = e[n]
    <3>1. \A n \in 1..c : e[n] \in Octet
      BY <1>1, <2>1
    <3> HIDE DEF c
    <3>2. b = [n \in 1..c |-> e[n]]
      BY DEF c
    <3> HIDE DEF b
    <3>3. QED
      BY <2>1, <3>1, <3>2
  <2> HIDE DEF b, c
  <2>3. PICK g : Flattens(g, b, Octets) /\ FlattenSeq(b) = g[Len(b)]
    BY <2>2, FlattenRuns DEF Octet
  <2>4. g[0] = <<>> /\ \A n \in 1..c : g[n] = g[n - 1] \o e[n]
    BY <2>2, <2>3 DEF Flattens
  <2> DEFINE Q == { n \in Nat : n \in 0..c => g[n] = f[n] }
  <2>5. 0 \in Q
    BY <1>4, <2>4
  <2>6. ASSUME NEW n \in Nat, n \in Q PROVE n + 1 \in Q
    <3>1. CASE n + 1 \in 0..c
      <4>1. n \in 0..c /\ n + 1 \in 1..c /\ n + 1 \in 1..L /\ (n + 1) - 1 = n
        BY <1>1, <2>1, <3>1
      <4>2. g[n + 1] = g[n] \o e[n + 1] /\ f[n + 1] = f[n] \o e[n + 1] /\ g[n] = f[n]
        BY <1>4, <2>4, <2>6, <4>1
      <4>3. g[n + 1] = f[n + 1]
        BY <4>2, Zenon
      <4>4. QED
        BY <4>3
    <3>2. QED
      BY <3>1
  <2>7. c \in Q
    <3> HIDE DEF Q
    <3>1. QED
      BY <2>1, <2>5, <2>6, Induct
  <2>8. g[c] = f[c]
    BY <2>1, <2>7
  <2>9. QED
    BY <2>2, <2>3, <2>8 DEF Before, b, c
<1>6. Before(e, 1) = <<>>
  <2>1. 1 \in 1..L + 1 /\ 1 - 1 = 0
    BY <1>1
  <2>2. Before(e, 1) = f[1 - 1]
    BY <1>5, <2>1
  <2>3. QED
    BY <1>4, <2>1, <2>2
<1>7. Before(e, L + 1) = FlattenSeq(e)
  <2>1. L + 1 \in 1..L + 1 /\ (L + 1) - 1 = L
    BY <1>1
  <2>2. Before(e, L + 1) = f[(L + 1) - 1]
    BY <1>5, <2>1
  <2>3. QED
    BY <1>3, <2>1, <2>2
<1>8. ASSUME NEW k \in 1..L + 1 PROVE Before(e, k) \in Octet
  <2>1. k - 1 \in 0..L
    BY <1>1
  <2>2. QED
    BY <1>4, <1>5, <2>1
<1>9. ASSUME NEW k \in 1..L PROVE Before(e, k + 1) = Before(e, k) \o e[k]
  <2>1. k \in 1..L + 1 /\ k + 1 \in 1..L + 1 /\ (k + 1) - 1 = k
    BY <1>1
  <2>2. Before(e, k) = f[k - 1] /\ Before(e, k + 1) = f[(k + 1) - 1]
    BY <1>5, <2>1
  <2>3. f[k] = f[k - 1] \o e[k]
    BY <1>4
  <2>4. QED
    BY <2>1, <2>2, <2>3
<1>10. QED
  BY <1>1, <1>6, <1>7, <1>8, <1>9 DEF L

\* What was read of the first part, then of the next ones.
LEMMA BeforeOn ==
  ASSUME NEW e \in Seq(Octet), NEW top \in Octet
  PROVE  /\ top \o Before(e, 1) = top /\ top \o Before(e, Len(e) + 1) = top \o FlattenSeq(e)
         /\ \A k \in 1..Len(e) + 1 : top \o Before(e, k) \in Octet
         /\ \A k \in 1..Len(e) : top \o Before(e, k + 1) = (top \o Before(e, k)) \o e[k]
<1>1. /\ Before(e, 1) = <<>> /\ Before(e, Len(e) + 1) = FlattenSeq(e)
      /\ \A k \in 1..Len(e) + 1 : Before(e, k) \in Octet
      /\ \A k \in 1..Len(e) : Before(e, k + 1) = Before(e, k) \o e[k] /\ e[k] \in Octet
  BY BeforeSplits
<1>2. ASSUME NEW k \in 1..Len(e) PROVE top \o Before(e, k + 1) = (top \o Before(e, k)) \o e[k]
  <2>1. k \in 1..Len(e) + 1
    OBVIOUS
  <2>2. Before(e, k) \in Octet /\ e[k] \in Octet /\ Before(e, k + 1) = Before(e, k) \o e[k]
    BY <1>1, <2>1
  <2> DEFINE a == Before(e, k)
             b == e[k]
  <2>3. a \in Octet /\ b \in Octet /\ Before(e, k + 1) = a \o b
    BY <2>2
  <2> HIDE DEF a, b
  <2>4. (top \o a) \o b = top \o (a \o b)
    BY <2>3, Assoc
  <2>5. QED
    BY <2>3, <2>4 DEF a, b
<1>3. \A k \in 1..Len(e) + 1 : top \o Before(e, k) \in Octet
  BY <1>1, Joined
<1>4. top \o Before(e, 1) = top
  BY <1>1, NoBytes
<1>5. QED
  BY <1>1, <1>2, <1>3, <1>4

\* The fields of an input, one after the other, are the input.
LEMMA InputJoined ==
  ASSUME NEW in \in TxInputs, NEW top \in Octet
  PROVE  LET a == top \o Reverse(in.txid)
             b == a \o LittleEndian(4, in.vout)
             c == b \o VarBuf(in.script)
         IN  a \in Octet /\ b \in Octet /\ c \in Octet /\ c \o LittleEndian(4, in.sequence) = top \o InputBytes(in)
<1> DEFINE x == Reverse(in.txid)
           y == LittleEndian(4, in.vout)
           z == VarBuf(in.script)
           u == LittleEndian(4, in.sequence)
<1>1. in.txid \in Octet /\ in.vout \in Nat /\ in.script \in Octet /\ in.sequence \in Nat
  BY WordTypes DEF TxInputs, Buffers, Slices, Octet
<1>2. x \in Octet
  BY <1>1 DEF Reverse, Octet
<1>3. y \in Octet /\ u \in Octet
  BY <1>1, LittleEndianType DEF Octet
<1>4. z \in Octet
  BY <1>1, VarBufType
<1>5. InputBytes(in) = ((x \o y) \o z) \o u
  BY Zenon DEF InputBytes
<1> HIDE DEF x, y, z, u
<1>6. top \o x \in Octet /\ (top \o x) \o y \in Octet /\ ((top \o x) \o y) \o z \in Octet
      /\ x \o y \in Octet /\ (x \o y) \o z \in Octet
  BY <1>2, <1>3, <1>4, Joined
<1> DEFINE xy == x \o y
           xyz == xy \o z
<1>7. xy \in Octet /\ xyz \in Octet
  BY <1>6
<1> HIDE DEF xy, xyz
<1>8. ((top \o x) \o y) \o z = top \o xyz
  <2>1. (top \o x) \o y = top \o xy
    BY <1>2, <1>3, Assoc, ZenonT(40) DEF xy
  <2>2. (top \o xy) \o z = top \o xyz
    BY <1>4, <1>7, Assoc DEF xyz
  <2>3. QED
    BY <2>1, <2>2
<1>9. (top \o xyz) \o u = top \o (xyz \o u)
  BY <1>3, <1>7, Assoc, ZenonT(40)
<1>10. InputBytes(in) = xyz \o u
  BY <1>5 DEF xy, xyz
<1>11. QED
  BY <1>6, <1>8, <1>9, <1>10 DEF x, y, z, u

LEMMA InputsRead ==
  ASSUME NEW t \in BtcTxs, NEW w \in BOOLEAN
  PROVE  /\ VersionTo(t) \in Octet /\ Top(t, w) \in Octet /\ OutputCountTo(t, w) \in Octet
         /\ InputsTo(t, w, 1) = Top(t, w) \o VarInt(Len(t.ins))
         /\ \A k \in 1..Len(t.ins) + 1 : InputsTo(t, w, k) \in Octet
         /\ \A k \in 1..Len(t.ins) :
               /\ VoutTo(t, w, k) \in Octet /\ ScriptTo(t, w, k) \in Octet /\ SequenceTo(t, w, k) \in Octet
               /\ SequenceTo(t, w, k) \o LittleEndian(4, t.ins[k].sequence) = InputsTo(t, w, k + 1)
<1> DEFINE e == InputParts(t)
           L == Len(t.ins)
           top == Top(t, w) \o VarInt(Len(t.ins))
<1>1. e \in Seq(Octet) /\ Len(e) = L /\ L \in Nat /\ \A k \in 1..L : t.ins[k] \in TxInputs
  BY PartsType
<1>2. \A k \in 1..L : e[k] = InputBytes(t.ins[k])
  <2>1. DOMAIN t.ins = 1..L
    BY PartsType
  <2>2. QED
    BY <2>1 DEF InputParts
<1>3. VersionTo(t) \in Octet /\ Top(t, w) \in Octet /\ top \in Octet
  <2>1. t.version \in Nat
    BY WordTypes DEF BtcTxs
  <2>2. VersionTo(t) \in Octet
    BY <2>1, LittleEndianType DEF VersionTo, Octet
  <2>3. <<>> \in Octet /\ <<0, 1>> \in Octet
    BY Radix DEF Octet, Octets
  <2>4. Top(t, w) \in Octet
    BY <2>2, <2>3, Joined DEF Top
  <2>5. VarInt(Len(t.ins)) \in Octet
    BY <1>1, VarIntType
  <2>6. QED
    BY <2>2, <2>4, <2>5, Joined
<1>4. \A k : InputsTo(t, w, k) = top \o Before(e, k)
  BY Zenon DEF InputsTo
<1> HIDE DEF e, L, top
<1>5. /\ top \o Before(e, 1) = top
      /\ \A k \in 1..L + 1 : top \o Before(e, k) \in Octet
      /\ \A k \in 1..L : top \o Before(e, k + 1) = (top \o Before(e, k)) \o e[k]
  BY <1>1, <1>3, BeforeOn
<1>6. /\ InputsTo(t, w, 1) = top
      /\ \A k \in 1..L + 1 : InputsTo(t, w, k) \in Octet
      /\ \A k \in 1..L : InputsTo(t, w, k + 1) = InputsTo(t, w, k) \o InputBytes(t.ins[k])
  BY <1>2, <1>4, <1>5
<1>7. ASSUME NEW k \in 1..L
      PROVE  /\ VoutTo(t, w, k) \in Octet /\ ScriptTo(t, w, k) \in Octet /\ SequenceTo(t, w, k) \in Octet
             /\ SequenceTo(t, w, k) \o LittleEndian(4, t.ins[k].sequence) = InputsTo(t, w, k + 1)
  <2>1. t.ins[k] \in TxInputs /\ InputsTo(t, w, k) \in Octet
    <3>1. k \in 1..L + 1
      BY <1>1
    <3>2. QED
      BY <1>1, <1>6, <3>1
  <2>2. InputsTo(t, w, k + 1) = InputsTo(t, w, k) \o InputBytes(t.ins[k])
    BY <1>6
  <2>3. QED
    BY <2>1, <2>2, InputJoined DEF VoutTo, ScriptTo, SequenceTo
<1>8. OutputCountTo(t, w) \in Octet
  <2>1. L + 1 \in 1..L + 1
    BY <1>1
  <2>2. QED
    BY <1>6, <2>1 DEF OutputCountTo, L
<1>9. QED
  BY <1>3, <1>6, <1>7, <1>8 DEF L, top

LEMMA OutputsAreRead ==
  ASSUME NEW t \in BtcTxs, NEW w \in BOOLEAN
  PROVE  /\ OutputsTo(t, w, 1) = OutputCountTo(t, w) \o VarInt(Len(t.outs)) /\ OutputsRead(t, w) \in Octet
         /\ \A k \in 1..Len(t.outs) + 1 : OutputsTo(t, w, k) \in Octet
         /\ \A k \in 1..Len(t.outs) :
               /\ OutScriptTo(t, w, k) \in Octet
               /\ OutScriptTo(t, w, k) \o VarBuf(t.outs[k].script) = OutputsTo(t, w, k + 1)
<1> DEFINE e == OutputParts(t)
           L == Len(t.outs)
           top == OutputCountTo(t, w) \o VarInt(Len(t.outs))
<1>1. e \in Seq(Octet) /\ Len(e) = L /\ L \in Nat /\ \A k \in 1..L : t.outs[k] \in TxOutputs
  BY PartsType
<1>2. \A k \in 1..L : e[k] = OutputBytes(t.outs[k])
  <2>1. DOMAIN t.outs = 1..L
    BY PartsType
  <2>2. QED
    BY <2>1 DEF OutputParts
<1>3. top \in Octet
  BY <1>1, InputsRead, VarIntType, Joined
<1>4. \A k : OutputsTo(t, w, k) = top \o Before(e, k)
  BY Zenon DEF OutputsTo
<1> HIDE DEF e, L, top
<1>5. /\ top \o Before(e, 1) = top
      /\ \A k \in 1..L + 1 : top \o Before(e, k) \in Octet
      /\ \A k \in 1..L : top \o Before(e, k + 1) = (top \o Before(e, k)) \o e[k]
  BY <1>1, <1>3, BeforeOn
<1>6. /\ OutputsTo(t, w, 1) = top
      /\ \A k \in 1..L + 1 : OutputsTo(t, w, k) \in Octet
      /\ \A k \in 1..L : OutputsTo(t, w, k + 1) = OutputsTo(t, w, k) \o OutputBytes(t.outs[k])
  BY <1>2, <1>4, <1>5
<1>7. ASSUME NEW k \in 1..L
      PROVE  /\ OutScriptTo(t, w, k) \in Octet
             /\ OutScriptTo(t, w, k) \o VarBuf(t.outs[k].script) = OutputsTo(t, w, k + 1)
  <2> DEFINE x == LittleEndian(8, t.outs[k].amount)
             y == VarBuf(t.outs[k].script)
             a == OutputsTo(t, w, k)
  <2>1. a \in Octet
    <3>1. k \in 1..L + 1
      BY <1>1
    <3>2. QED
      BY <1>6, <3>1
  <2>2. t.outs[k].amount \in Nat /\ t.outs[k].script \in Octet
    BY <1>1, WordTypes DEF TxOutputs, Buffers, Slices, Octet
  <2>3. x \in Octet /\ y \in Octet
    BY <2>2, LittleEndianType, VarBufType DEF Octet
  <2>4. OutputsTo(t, w, k + 1) = a \o (x \o y)
    BY <1>6 DEF OutputBytes
  <2>5. OutScriptTo(t, w, k) = a \o x
    BY DEF OutScriptTo
  <2> HIDE DEF a, x
  <2>6. (a \o x) \o y = a \o (x \o y) /\ a \o x \in Octet
    <3> HIDE DEF y
    <3>1. QED
      BY <2>1, <2>3, Assoc, Joined
  <2>7. QED
    BY <2>4, <2>5, <2>6
<1>8. OutputsRead(t, w) \in Octet
  <2>1. L + 1 \in 1..L + 1
    BY <1>1
  <2>2. QED
    BY <1>6, <2>1 DEF OutputsRead, L
<1>9. QED
  BY <1>6, <1>7, <1>8 DEF L, top

LEMMA WitnessesRead ==
  ASSUME NEW t \in BtcTxs, NEW w \in BOOLEAN
  PROVE  /\ WitnessTo(t, w, 1) = OutputsRead(t, w) /\ LocktimeTo(t, w) \in Octet
         /\ \A k \in 1..Len(t.ins) + 1 : WitnessTo(t, w, k) \in Octet
         /\ \A k \in 1..Len(t.ins) :
               /\ ItemsTo(t, w, k, 1) = WitnessTo(t, w, k) \o VarInt(Len(t.ins[k].wit))
               /\ ItemsTo(t, w, k, Len(t.ins[k].wit) + 1) = WitnessTo(t, w, k + 1)
               /\ \A m \in 1..Len(t.ins[k].wit) + 1 : ItemsTo(t, w, k, m) \in Octet
               /\ \A m \in 1..Len(t.ins[k].wit) :
                     ItemsTo(t, w, k, m + 1) = ItemsTo(t, w, k, m) \o VarBuf(t.ins[k].wit[m])
<1> DEFINE e == WitnessParts(t)
           L == Len(t.ins)
           top == OutputsRead(t, w)
<1>1. e \in Seq(Octet) /\ Len(e) = L /\ L \in Nat /\ \A k \in 1..L : t.ins[k] \in TxInputs
  BY PartsType
<1>2. \A k \in 1..L : e[k] = WitnessBytes(t.ins[k])
  <2>1. DOMAIN t.ins = 1..L
    BY PartsType
  <2>2. QED
    BY <2>1 DEF WitnessParts
<1>3. top \in Octet
  BY OutputsAreRead
<1>4. \A k : WitnessTo(t, w, k) = top \o Before(e, k)
  BY Zenon DEF WitnessTo
<1> HIDE DEF e, L, top
<1>5. /\ top \o Before(e, 1) = top
      /\ \A k \in 1..L + 1 : top \o Before(e, k) \in Octet
      /\ \A k \in 1..L : top \o Before(e, k + 1) = (top \o Before(e, k)) \o e[k]
  BY <1>1, <1>3, BeforeOn
<1>6. /\ WitnessTo(t, w, 1) = top
      /\ \A k \in 1..L + 1 : WitnessTo(t, w, k) \in Octet
      /\ \A k \in 1..L : WitnessTo(t, w, k + 1) = WitnessTo(t, w, k) \o WitnessBytes(t.ins[k])
  BY <1>2, <1>4, <1>5
<1>7. ASSUME NEW k \in 1..L
      PROVE  /\ ItemsTo(t, w, k, 1) = WitnessTo(t, w, k) \o VarInt(Len(t.ins[k].wit))
             /\ ItemsTo(t, w, k, Len(t.ins[k].wit) + 1) = WitnessTo(t, w, k + 1)
             /\ \A m \in 1..Len(t.ins[k].wit) + 1 : ItemsTo(t, w, k, m) \in Octet
             /\ \A m \in 1..Len(t.ins[k].wit) :
                   ItemsTo(t, w, k, m + 1) = ItemsTo(t, w, k, m) \o VarBuf(t.ins[k].wit[m])
  <2> DEFINE in == t.ins[k]
             M == Len(in.wit)
             f == ItemParts(in)
             c == VarInt(M)
             a == WitnessTo(t, w, k)
             b == a \o c
  <2>1. in \in TxInputs /\ a \in Octet
    <3>1. k \in 1..L + 1
      BY <1>1
    <3>2. QED
      BY <1>1, <1>6, <3>1
  <2>2. f \in Seq(Octet) /\ Len(f) = M /\ M \in Nat /\ \A m \in 1..M : f[m] = VarBuf(in.wit[m])
    BY <2>1, ItemPartsType, WordTypes
  <2>3. c \in Octet
    <3> HIDE DEF M
    <3>1. QED
      BY <2>2, VarIntType
  <2>4. WitnessTo(t, w, k + 1) = a \o (c \o FlattenSeq(f))
    <3>1. WitnessBytes(in) = c \o FlattenSeq(f)
      BY Zenon DEF WitnessBytes, Concat, ItemParts
    <3>2. QED
      BY <1>6, <3>1
  <2>5. \A m : ItemsTo(t, w, k, m) = b \o Before(f, m)
    BY Zenon DEF ItemsTo
  <2> HIDE DEF a, c, f, M, in
  <2>6. b \in Octet
    BY <2>1, <2>3, Joined
  <2>7. FlattenSeq(f) \in Octet
    BY <2>2, FlattenType DEF Octet
  <2>8. b \o FlattenSeq(f) = a \o (c \o FlattenSeq(f))
    BY <2>1, <2>3, <2>7, Assoc
  <2> HIDE DEF b
  <2>9. /\ b \o Before(f, 1) = b /\ b \o Before(f, M + 1) = b \o FlattenSeq(f)
        /\ \A m \in 1..M + 1 : b \o Before(f, m) \in Octet
        /\ \A m \in 1..M : b \o Before(f, m + 1) = (b \o Before(f, m)) \o f[m]
    BY <2>2, <2>6, BeforeOn
  <2>10. /\ ItemsTo(t, w, k, 1) = b /\ ItemsTo(t, w, k, M + 1) = WitnessTo(t, w, k + 1)
         /\ \A m \in 1..M + 1 : ItemsTo(t, w, k, m) \in Octet
         /\ \A m \in 1..M : ItemsTo(t, w, k, m + 1) = ItemsTo(t, w, k, m) \o VarBuf(in.wit[m])
    BY <2>2, <2>4, <2>5, <2>8, <2>9
  <2>11. QED
    BY <2>10 DEF a, b, c, M, in
<1>8. LocktimeTo(t, w) \in Octet
  <2>1. L + 1 \in 1..L + 1
    BY <1>1
  <2>2. QED
    BY <1>3, <1>6, <2>1 DEF LocktimeTo, L, top
<1>9. QED
  BY <1>6, <1>7, <1>8 DEF L, top

\* Before the lock time all the rest was read.
LEMMA ExportRead ==
  ASSUME NEW t \in BtcTxs, NEW w \in BOOLEAN
  PROVE  exportBytes(t, w) = LocktimeTo(t, w) \o LittleEndian(4, t.locktime)
<1> DEFINE mark == IF w THEN <<0, 1>> ELSE <<>>
           fi == FlattenSeq(InputParts(t))
           fo == FlattenSeq(OutputParts(t))
           end == IF w THEN FlattenSeq(WitnessParts(t)) ELSE <<>>
           lt == LittleEndian(4, t.locktime)
           top == Top(t, w) \o VarInt(Len(t.ins))
           mid == OutputCountTo(t, w) \o VarInt(Len(t.outs))
<1>1. exportBytes(t, w) =
        ((((((VersionTo(t) \o mark) \o VarInt(Len(t.ins))) \o fi) \o VarInt(Len(t.outs))) \o fo) \o end) \o lt
  BY Zenon DEF exportBytes, Concat, InputParts, OutputParts, WitnessParts, VersionTo
<1>2. top = (VersionTo(t) \o mark) \o VarInt(Len(t.ins))
  BY Zenon DEF Top
<1>3. top \in Octet /\ mid \in Octet /\ OutputsRead(t, w) \in Octet
  BY InputsRead, OutputsAreRead, PartsType, WordTypes, VarIntType, Joined
<1> DEFINE ei == InputParts(t)
           eo == OutputParts(t)
           ew == WitnessParts(t)
<1>4. /\ ei \in Seq(Octet) /\ Len(ei) = Len(t.ins) /\ eo \in Seq(Octet) /\ Len(eo) = Len(t.outs)
      /\ ew \in Seq(Octet) /\ Len(ew) = Len(t.ins)
  BY PartsType
<1>5. OutputCountTo(t, w) = top \o Before(ei, Len(t.ins) + 1)
  BY Zenon DEF OutputCountTo, InputsTo
<1>6. OutputsRead(t, w) = mid \o Before(eo, Len(t.outs) + 1)
  BY Zenon DEF OutputsRead, OutputsTo
<1>7. WitnessTo(t, w, Len(t.ins) + 1) = OutputsRead(t, w) \o Before(ew, Len(t.ins) + 1)
  BY Zenon DEF WitnessTo
<1>8. LocktimeTo(t, w) = IF w THEN WitnessTo(t, w, Len(t.ins) + 1) ELSE OutputsRead(t, w)
  BY Zenon DEF LocktimeTo
<1>9. fi = FlattenSeq(ei) /\ fo = FlattenSeq(eo) /\ mid = OutputCountTo(t, w) \o VarInt(Len(t.outs))
  OBVIOUS
<1>10. end = IF w THEN FlattenSeq(ew) ELSE <<>>
  OBVIOUS
<1> HIDE DEF top, mid, ei, eo, ew, mark, fi, fo, end, lt
<1>11. /\ top \o Before(ei, Len(t.ins) + 1) = top \o fi
       /\ mid \o Before(eo, Len(t.outs) + 1) = mid \o fo
       /\ OutputsRead(t, w) \o Before(ew, Len(t.ins) + 1) = OutputsRead(t, w) \o FlattenSeq(ew)
  <2>1. top \o Before(ei, Len(ei) + 1) = top \o FlattenSeq(ei)
    BY <1>3, <1>4, BeforeOn, ZenonT(40)
  <2>2. mid \o Before(eo, Len(eo) + 1) = mid \o FlattenSeq(eo)
    BY <1>3, <1>4, BeforeOn, ZenonT(40)
  <2>3. OutputsRead(t, w) \o Before(ew, Len(ew) + 1) = OutputsRead(t, w) \o FlattenSeq(ew)
    BY <1>3, <1>4, BeforeOn, ZenonT(40)
  <2>4. QED
    BY <1>4, <1>9, <2>1, <2>2, <2>3, ZenonT(40)
<1>12. OutputsRead(t, w) = (((top \o fi) \o VarInt(Len(t.outs))) \o fo)
  BY <1>5, <1>6, <1>9, <1>11, Zenon
<1>13. exportBytes(t, w) = (OutputsRead(t, w) \o end) \o lt
  BY <1>1, <1>2, <1>12, Zenon
<1>14. OutputsRead(t, w) \o end = LocktimeTo(t, w)
  <2>1. CASE w
    BY <1>7, <1>8, <1>10, <1>11, <2>1, Zenon
  <2>2. CASE ~ w
    <3>1. OutputsRead(t, w) \o <<>> = OutputsRead(t, w)
      BY <1>3, NoBytes
    <3>2. QED
      BY <1>8, <1>10, <2>2, <3>1, Zenon
  <2>3. QED
    BY <2>1, <2>2
<1>15. QED
  BY <1>13, <1>14 DEF lt

\* What was read before a place does not change with what comes there.
LEMMA PartsBefore ==
  ASSUME NEW e, NEW f, NEW k, \A n \in 1..k-1 : e[n] = f[n]
  PROVE  Before(e, k) = Before(f, k)
<1>1. [n \in 1..k-1 |-> e[n]] = [n \in 1..k-1 |-> f[n]]
  OBVIOUS
<1>2. QED
  BY <1>1 DEF Before

LEMMA InputsStay ==
  ASSUME NEW t \in BtcTxs, NEW u \in BtcTxs, NEW w \in BOOLEAN, NEW k \in 1..Len(t.ins) + 1,
         u.version = t.version, Len(u.ins) = Len(t.ins),
         \A n \in 1..k-1 : InputBytes(u.ins[n]) = InputBytes(t.ins[n])
  PROVE  InputsTo(u, w, k) = InputsTo(t, w, k)
<1>1. Len(t.ins) \in Nat /\ DOMAIN t.ins = 1..Len(t.ins) /\ DOMAIN u.ins = 1..Len(t.ins)
  <2>1. t.ins \in Seq(TxInputs) /\ u.ins \in Seq(TxInputs)
    BY PartsType
  <2>2. QED
    BY <2>1
<1>2. \A n \in 1..k-1 : InputParts(u)[n] = InputParts(t)[n]
  <2> TAKE n \in 1..k-1
  <2>1. n \in 1..Len(t.ins)
    BY <1>1
  <2>2. InputParts(u)[n] = InputBytes(u.ins[n]) /\ InputParts(t)[n] = InputBytes(t.ins[n])
    BY <1>1, <2>1 DEF InputParts
  <2>3. QED
    BY <2>2
<1>3. Before(InputParts(u), k) = Before(InputParts(t), k)
  BY <1>2, PartsBefore
<1>4. Top(u, w) = Top(t, w)
  BY DEF Top, VersionTo
<1>5. QED
  BY <1>3, <1>4 DEF InputsTo

LEMMA OutputsStay ==
  ASSUME NEW t \in BtcTxs, NEW u \in BtcTxs, NEW w \in BOOLEAN, NEW k \in 1..Len(t.outs) + 1,
         u.version = t.version, Len(u.ins) = Len(t.ins), Len(u.outs) = Len(t.outs),
         \A n \in 1..Len(t.ins) : InputBytes(u.ins[n]) = InputBytes(t.ins[n]),
         \A n \in 1..k-1 : OutputBytes(u.outs[n]) = OutputBytes(t.outs[n])
  PROVE  OutputsTo(u, w, k) = OutputsTo(t, w, k)
<1>1. Len(t.ins) \in Nat /\ Len(t.outs) \in Nat /\ DOMAIN t.outs = 1..Len(t.outs) /\ DOMAIN u.outs = 1..Len(t.outs)
  <2>1. t.ins \in Seq(TxInputs) /\ t.outs \in Seq(TxOutputs) /\ u.outs \in Seq(TxOutputs)
    BY PartsType
  <2>2. QED
    BY <2>1
<1>2. OutputCountTo(u, w) = OutputCountTo(t, w)
  <2> DEFINE k2 == Len(t.ins) + 1
  <2>1. k2 \in 1..Len(t.ins) + 1 /\ k2 - 1 = Len(t.ins)
    BY <1>1
  <2> HIDE DEF k2
  <2>2. InputsTo(u, w, k2) = InputsTo(t, w, k2)
    BY <2>1, InputsStay
  <2>3. QED
    BY <2>2 DEF OutputCountTo, k2
<1>3. \A n \in 1..k-1 : OutputParts(u)[n] = OutputParts(t)[n]
  <2> TAKE n \in 1..k-1
  <2>1. n \in 1..Len(t.outs)
    BY <1>1
  <2>2. OutputParts(u)[n] = OutputBytes(u.outs[n]) /\ OutputParts(t)[n] = OutputBytes(t.outs[n])
    BY <1>1, <2>1 DEF OutputParts
  <2>3. QED
    BY <2>2
<1>4. Before(OutputParts(u), k) = Before(OutputParts(t), k)
  BY <1>3, PartsBefore
<1>5. QED
  BY <1>2, <1>4 DEF OutputsTo

LEMMA WitnessesStay ==
  ASSUME NEW t \in BtcTxs, NEW u \in BtcTxs, NEW w \in BOOLEAN, NEW k \in 1..Len(t.ins) + 1,
         u.version = t.version, Len(u.ins) = Len(t.ins), u.outs = t.outs,
         \A n \in 1..Len(t.ins) : InputBytes(u.ins[n]) = InputBytes(t.ins[n]),
         \A n \in 1..k-1 : u.ins[n] = t.ins[n]
  PROVE  WitnessTo(u, w, k) = WitnessTo(t, w, k)
<1>1. Len(t.ins) \in Nat /\ Len(t.outs) \in Nat /\ DOMAIN t.ins = 1..Len(t.ins) /\ DOMAIN u.ins = 1..Len(t.ins)
  <2>1. t.ins \in Seq(TxInputs) /\ t.outs \in Seq(TxOutputs) /\ u.ins \in Seq(TxInputs)
    BY PartsType
  <2>2. QED
    BY <2>1
<1>2. OutputsRead(u, w) = OutputsRead(t, w)
  <2> DEFINE k2 == Len(t.outs) + 1
  <2>1. k2 \in 1..Len(t.outs) + 1 /\ Len(u.outs) = Len(t.outs)
    BY <1>1
  <2>2. \A n \in 1..k2-1 : OutputBytes(u.outs[n]) = OutputBytes(t.outs[n])
    OBVIOUS
  <2> HIDE DEF k2
  <2>3. OutputsTo(u, w, k2) = OutputsTo(t, w, k2)
    BY <2>1, <2>2, OutputsStay
  <2>4. QED
    BY <2>1, <2>3 DEF OutputsRead, k2
<1>3. \A n \in 1..k-1 : WitnessParts(u)[n] = WitnessParts(t)[n]
  <2> TAKE n \in 1..k-1
  <2>1. n \in 1..Len(t.ins)
    BY <1>1
  <2>2. WitnessParts(u)[n] = WitnessBytes(u.ins[n]) /\ WitnessParts(t)[n] = WitnessBytes(t.ins[n])
    BY <1>1, <2>1 DEF WitnessParts
  <2>3. QED
    BY <2>2
<1>4. Before(WitnessParts(u), k) = Before(WitnessParts(t), k)
  BY <1>3, PartsBefore
<1>5. QED
  BY <1>2, <1>4 DEF WitnessTo

-----------------------------------------------------------------------------
(***************************************************************************)
(* The invariant: without an error, the bytes that were read are at least  *)
(* those that the transaction read so far has before the place that is     *)
(* read next, and they are those if they are no more.                      *)
(***************************************************************************)
Reached(t, w, where, k, m) ==
    CASE where = "version" -> <<>>
      [] where = "inputs" -> VersionTo(t)
      [] where = "flag" -> VersionTo(t) \o VarInt(0)
      [] where = "segwit inputs" -> Top(t, TRUE)
      [] where = "input" -> InputsTo(t, w, k)
      [] where = "vout" -> VoutTo(t, w, k)
      [] where = "script" -> ScriptTo(t, w, k)
      [] where = "sequence" -> SequenceTo(t, w, k)
      [] where = "outputs" -> OutputCountTo(t, w)
      [] where = "output" -> OutputsTo(t, w, k)
      [] where = "outscript" -> OutScriptTo(t, w, k)
      [] where = "witness" -> WitnessTo(t, w, k)
      [] where = "item" -> ItemsTo(t, w, k, m)
      [] where = "locktime" -> LocktimeTo(t, w)
      [] OTHER -> exportBytes(t, w)

\* The first n bytes of the stream are at least x, and x if they are no more, but
\* for the flag, the sixth byte of a segwit form.
SoFar(n, x, w) ==
    /\ n >= Len(x)
    /\ n = Len(x) => \A k \in 1..n : stream[k] = x[k] \/ (w /\ k = 6)

Far == SoFar(h.n, Reached(tx, segwit, pc, i, j), segwit)

Flagged == pc \in {"flag", "segwit inputs", "witness", "item"} => segwit

BytesInv == WireInv /\ Flagged /\ (h.err = "none" => Far)

LEMMA ReachedAt ==
  ASSUME NEW t, NEW w, NEW k, NEW m
  PROVE  /\ Reached(t, w, "version", k, m) = <<>> /\ Reached(t, w, "inputs", k, m) = VersionTo(t)
         /\ Reached(t, w, "flag", k, m) = VersionTo(t) \o VarInt(0)
         /\ Reached(t, w, "segwit inputs", k, m) = Top(t, TRUE)
         /\ Reached(t, w, "input", k, m) = InputsTo(t, w, k) /\ Reached(t, w, "vout", k, m) = VoutTo(t, w, k)
         /\ Reached(t, w, "script", k, m) = ScriptTo(t, w, k)
         /\ Reached(t, w, "sequence", k, m) = SequenceTo(t, w, k)
         /\ Reached(t, w, "outputs", k, m) = OutputCountTo(t, w)
         /\ Reached(t, w, "output", k, m) = OutputsTo(t, w, k)
         /\ Reached(t, w, "outscript", k, m) = OutScriptTo(t, w, k)
         /\ Reached(t, w, "witness", k, m) = WitnessTo(t, w, k) /\ Reached(t, w, "item", k, m) = ItemsTo(t, w, k, m)
         /\ Reached(t, w, "locktime", k, m) = LocktimeTo(t, w) /\ Reached(t, w, "done", k, m) = exportBytes(t, w)
  BY DEF Reached

LEMMA FarOn ==
  ASSUME NEW n \in Nat, NEW n2 \in Nat, NEW x \in Octet, NEW y \in Octet, NEW w,
         SoFar(n, x, w), Follows(n, n2, y)
  PROVE  SoFar(n2, x \o y, w)
<1> DEFINE z == x \o y
           lx == Len(x)
           ly == Len(y)
<1>1. /\ lx \in Nat /\ ly \in Nat /\ Len(z) = lx + ly
      /\ \A k \in 1..lx : z[k] = x[k]
      /\ \A k \in 1..ly : z[lx + k] = y[k]
  <2>1. x \in Seq(Octets) /\ y \in Seq(Octets)
    BY DEF Octet
  <2>2. QED
    BY <2>1
<1> HIDE DEF z
<1>2. n >= lx /\ n2 >= n + ly
  BY DEF SoFar, Follows
<1>3. /\ n = lx => \A k \in 1..n : stream[k] = x[k] \/ (w /\ k = 6)
      /\ n2 = n + ly => \A k \in 1..ly : stream[n + k] = y[k]
  BY DEF SoFar, Follows
<1> HIDE DEF lx, ly
<1>4. n2 >= Len(z)
  BY <1>1, <1>2
<1>5. ASSUME n2 = Len(z), NEW k \in 1..n2 PROVE stream[k] = z[k] \/ (w /\ k = 6)
  <2>1. n = lx /\ n2 = n + ly
    BY <1>1, <1>2, <1>5
  <2>2. CASE k \in 1..lx
    <3>1. stream[k] = x[k] \/ (w /\ k = 6)
      BY <1>3, <2>1, <2>2
    <3>2. z[k] = x[k]
      BY <1>1, <2>2
    <3>3. QED
      BY <3>1, <3>2, Zenon
  <2>3. CASE k \notin 1..lx
    <3> DEFINE q == k - lx
    <3>1. q \in 1..ly /\ k = lx + q
      BY <1>1, <1>5, <2>1, <2>3
    <3> HIDE DEF q
    <3>2. stream[lx + q] = y[q] /\ z[lx + q] = y[q]
      BY <1>1, <1>3, <2>1, <3>1
    <3>3. QED
      BY <3>1, <3>2, Zenon
  <2>4. QED
    BY <2>2, <2>3, Zenon
<1>6. SoFar(n2, z, w)
  BY <1>4, <1>5 DEF SoFar
<1>7. QED
  BY <1>6 DEF z

\* Before the flag it does not matter whether there is one.
LEMMA AnyMark ==
  ASSUME NEW n \in Nat, NEW x \in Octet, Len(x) < 6, NEW w, NEW w2, SoFar(n, x, w)
  PROVE  SoFar(n, x, w2)
<1>1. Len(x) \in Nat
  BY DEF Octet
<1>2. ASSUME n = Len(x), NEW k \in 1..n PROVE stream[k] = x[k]
  <2>1. k # 6
    BY <1>1, <1>2
  <2>2. QED
    BY <1>2, <2>1 DEF SoFar
<1>3. QED
  BY <1>2 DEF SoFar

\* A step of ReadFrom that reads y.
LEMMA Advances ==
  ASSUME BytesInv, Same, h.err = "none", segwit' = segwit, NEW y \in Octet, h'.n \in Nat,
         NEW x \in Octet, Reached(tx, segwit, pc, i, j) = x,
         Follows(h.n, h'.n, y), Reached(tx', segwit, pc', i', j') = x \o y
  PROVE  Far'
<1>1. SoFar(h.n, x, segwit) /\ h.n \in Nat
  <2>1. WireInv /\ Far
    BY DEF BytesInv
  <2>2. h.n \in Nat
    BY <2>1, TypesOf DEF Helpers, StreamOK
  <2>3. QED
    BY <2>1, <2>2, Zenon DEF Far
<1>2. SoFar(h'.n, x \o y, segwit)
  BY <1>1, FarOn
<1>3. stream' = stream
  BY DEF Same
<1>4. QED
  BY <1>2, <1>3, Zenon DEF Far, SoFar

LEMMA RefusalIsError ==
  ASSUME NEW r \in Helpers, TooMany(r)
  PROVE  h'.err # "none"
  BY DEF TooMany, Helpers

\* Where the loops go on from, this was read.
LEMMA LoopsReach ==
  ASSUME tx' \in BtcTxs, NEW w \in BOOLEAN
  PROVE  /\ EnterInputs => Reached(tx', w, pc', i', j') = InputsTo(tx', w, 1)
         /\ AfterOutputs /\ w = segwit => Reached(tx', w, pc', i', j') = OutputsRead(tx', w)
         /\ EnterOutputs /\ w = segwit => Reached(tx', w, pc', i', j') = OutputsTo(tx', w, 1)
         /\ EnterInputs \/ AfterOutputs \/ EnterOutputs => (pc' \in {"flag", "segwit inputs", "witness", "item"} => segwit)
<1> DEFINE L == Len(tx'.ins)
<1>1. L \in Nat /\ (tx'.ins = <<>> => L = 0) /\ Len(tx'.outs) \in Nat
  <2>1. tx'.ins \in Seq(TxInputs) /\ tx'.outs \in Seq(TxOutputs)
    BY PartsType
  <2>2. QED
    BY <2>1
<1>2. WitnessTo(tx', w, 1) = OutputsRead(tx', w)
  BY WitnessesRead
<1>3. L = 0 => OutputCountTo(tx', w) = InputsTo(tx', w, 1) /\ WitnessTo(tx', w, L + 1) = WitnessTo(tx', w, 1)
  BY DEF OutputCountTo
<1>4. Len(tx'.outs) = 0 => OutputsRead(tx', w) = OutputsTo(tx', w, 1)
  BY DEF OutputsRead
<1>5. EnterInputs => Reached(tx', w, pc', i', j') = InputsTo(tx', w, 1) /\ pc' \in {"outputs", "input"}
  <2> SUFFICES ASSUME EnterInputs PROVE Reached(tx', w, pc', i', j') = InputsTo(tx', w, 1) /\ pc' \in {"outputs", "input"}
    OBVIOUS
  <2>1. CASE L = 0
    <3>1. pc' = "outputs"
      BY <2>1, Zenon DEF EnterInputs, GoTo
    <3>2. Reached(tx', w, pc', i', j') = OutputCountTo(tx', w)
      <4>1. Reached(tx', w, "outputs", i', j') = OutputCountTo(tx', w)
        BY DEF Reached
      <4>2. QED
        BY <3>1, <4>1
    <3>3. QED
      BY <1>3, <2>1, <3>1, <3>2
  <2>2. CASE L # 0
    <3>1. pc' = "input" /\ i' = 1
      BY <2>2, Zenon DEF EnterInputs, GoTo
    <3>2. Reached(tx', w, pc', i', j') = InputsTo(tx', w, 1)
      BY <3>1 DEF Reached
    <3>3. QED
      BY <3>1, <3>2
  <2>3. QED
    BY <2>1, <2>2
<1>6. AfterOutputs => /\ w = segwit => Reached(tx', w, pc', i', j') = OutputsRead(tx', w)
                      /\ (pc' = "witness" /\ segwit) \/ pc' = "locktime"
  <2> SUFFICES ASSUME AfterOutputs
               PROVE  /\ w = segwit => Reached(tx', w, pc', i', j') = OutputsRead(tx', w)
                      /\ (pc' = "witness" /\ segwit) \/ pc' = "locktime"
    OBVIOUS
  <2>1. CASE segwit /\ tx'.ins # <<>>
    <3>1. pc' = "witness" /\ i' = 1
      BY <2>1, Zenon DEF AfterOutputs, GoTo
    <3>2. Reached(tx', w, pc', i', j') = WitnessTo(tx', w, 1)
      BY <3>1 DEF Reached
    <3>3. QED
      BY <1>2, <2>1, <3>1, <3>2
  <2>2. CASE ~ (segwit /\ tx'.ins # <<>>)
    <3>1. pc' = "locktime"
      BY <2>2, Zenon DEF AfterOutputs, GoTo
    <3>2. Reached(tx', w, pc', i', j') = LocktimeTo(tx', w)
      <4>1. Reached(tx', w, "locktime", i', j') = LocktimeTo(tx', w)
        BY DEF Reached
      <4>2. QED
        BY <3>1, <4>1
    <3>3. w = segwit => LocktimeTo(tx', w) = OutputsRead(tx', w)
      BY <1>1, <1>2, <1>3, <2>2 DEF LocktimeTo
    <3>4. QED
      BY <3>1, <3>2, <3>3
  <2>3. QED
    BY <2>1, <2>2
<1>7. EnterOutputs => /\ w = segwit => Reached(tx', w, pc', i', j') = OutputsTo(tx', w, 1)
                      /\ (pc' = "witness" /\ segwit) \/ pc' \in {"locktime", "output"}
  <2> SUFFICES ASSUME EnterOutputs
               PROVE  /\ w = segwit => Reached(tx', w, pc', i', j') = OutputsTo(tx', w, 1)
                      /\ (pc' = "witness" /\ segwit) \/ pc' \in {"locktime", "output"}
    OBVIOUS
  <2>1. CASE Len(tx'.outs) = 0
    <3>1. AfterOutputs
      BY <2>1, Zenon DEF EnterOutputs
    <3>2. QED
      BY <1>4, <1>6, <2>1, <3>1
  <2>2. CASE Len(tx'.outs) # 0
    <3>1. pc' = "output" /\ i' = 1
      BY <2>2, Zenon DEF EnterOutputs, GoTo
    <3>2. Reached(tx', w, pc', i', j') = OutputsTo(tx', w, 1)
      BY <3>1 DEF Reached
    <3>3. QED
      BY <3>1, <3>2
  <2>3. QED
    BY <2>1, <2>2
<1>8. QED
  BY <1>5, <1>6, <1>7

LEMMA BytesFacts ==
  ASSUME BytesInv
  PROVE  /\ WireInv /\ Flagged /\ (h.err = "none" => Far) /\ StreamOK /\ h \in Helpers /\ h.n \in Nat
         /\ tx \in ShortTxs /\ tx \in BtcTxs /\ segwit \in BOOLEAN
  BY TypesOf, ShortIsBtcTx DEF BytesInv, Helpers, StreamOK

LEMMA WiredAfter ==
  ASSUME WireInv'
  PROVE  /\ tx' \in ShortTxs /\ tx' \in BtcTxs /\ h'.n \in Nat
<1>1. tx' \in ShortTxs /\ h' \in Helpers' /\ StreamOK'
  BY DEF WireInv
<1>2. QED
  BY <1>1, ShortIsBtcTx DEF Helpers, StreamOK

LEMMA VersionFar ==
  ASSUME BytesInv, ReadVersion, h.err = "none", h'.err = "none"
  PROVE  Far'
<1> DEFINE got == readNumber(h, 4)
<1>1. /\ pc = "version" /\ tx' = [tx EXCEPT !.version = got.value] /\ h' = got.h
      /\ pc' = "inputs" /\ segwit' = segwit /\ Same
  BY Zenon DEF ReadVersion, GoTo
<1>2. h'.n \in Nat /\ got.value \in Nat /\ Follows(h.n, h'.n, LittleEndian(4, got.value))
  BY <1>1, BytesFacts, NumberFollows
<1> HIDE DEF got
<1> DEFINE y == LittleEndian(4, got.value)
<1>3. y \in Octet
  BY <1>2, LittleEndianType DEF Octet
<1>4. tx'.version = got.value
  BY <1>1, BytesFacts DEF ShortTxs
<1>5. Reached(tx, segwit, pc, i, j) = <<>> /\ <<>> \in Octet
  BY <1>1 DEF Reached, Octet
<1>6. Reached(tx', segwit, pc', i', j') = <<>> \o y
  <2>1. Reached(tx', segwit, pc', i', j') = VersionTo(tx')
    BY <1>1 DEF Reached
  <2>2. VersionTo(tx') = y
    BY <1>4 DEF VersionTo
  <2>3. <<>> \o y = y
    BY <1>3, NoBytes
  <2>4. QED
    BY <2>1, <2>2, <2>3
<1> HIDE DEF y
<1>7. Follows(h.n, h'.n, y)
  BY <1>2 DEF y
<1>8. QED
  BY <1>1, <1>2, <1>3, <1>5, <1>6, <1>7, Advances

\* The list of inputs is made.
LEMMA InputsMadeFar ==
  ASSUME BytesInv, NEW cnt, cnt.value \in Nat, cnt.h \in Helpers, MakeInputs(cnt), h'.err = "none",
         NEW w \in BOOLEAN, tx' \in BtcTxs
  PROVE  /\ h' = cnt.h /\ Reached(tx', w, pc', i', j') = Top(tx, w) \o VarInt(cnt.value)
         /\ pc' # "flag" /\ (pc' \in {"flag", "segwit inputs", "witness", "item"} => segwit)
<1>1. ~ (cnt.value > MaxIns)
  BY RefusalIsError, Zenon DEF MakeInputs
<1>2. tx' = [tx EXCEPT !.ins = Repeat(NoInput, cnt.value)] /\ h' = cnt.h /\ EnterInputs
  BY <1>1, Zenon DEF MakeInputs
<1>3. tx'.version = tx.version /\ Len(tx'.ins) = cnt.value
  <2>1. Len(Repeat(NoInput, cnt.value)) = cnt.value
    BY MadeLists, Zenon
  <2> DEFINE s == Repeat(NoInput, cnt.value)
  <2> HIDE DEF s
  <2>2. tx' = [tx EXCEPT !.ins = s]
    BY <1>2 DEF s
  <2>3. tx'.version = tx.version /\ tx'.ins = s
    BY <2>2, BytesFacts DEF ShortTxs
  <2>4. QED
    BY <2>1, <2>3 DEF s
<1>4. Reached(tx', w, pc', i', j') = InputsTo(tx', w, 1)
  BY <1>2, LoopsReach
<1>5. InputsTo(tx', w, 1) = Top(tx', w) \o VarInt(Len(tx'.ins))
  BY InputsRead
<1>6. Top(tx', w) = Top(tx, w)
  BY <1>3 DEF Top, VersionTo
<1>7. pc' # "flag"
  BY <1>2, Zenon DEF EnterInputs, GoTo
<1>8. QED
  BY <1>2, <1>3, <1>4, <1>5, <1>6, <1>7, LoopsReach

LEMMA InputCountFar ==
  ASSUME BytesInv, WireInv', ReadInputCount, h.err = "none", h'.err = "none"
  PROVE  Far' /\ Flagged'
<1> DEFINE cnt == readVarInt(h)
<1>1. /\ pc = "inputs" /\ Same /\ segwit' = (pc' = "flag")
      /\ IF cnt.value = 0 THEN h' = cnt.h /\ GoTo("flag", 1) /\ tx' = tx ELSE MakeInputs(cnt)
  BY Zenon DEF ReadInputCount
<1>2. cnt.value \in Nat /\ cnt.h \in Helpers
  BY BytesFacts, ReadVarIntType
<1>3. cnt.h.err = "none" => /\ cnt.h.n \in Nat /\ VarInt(cnt.value) \in Octet
                            /\ Follows(h.n, cnt.h.n, VarInt(cnt.value))
  BY BytesFacts, CountFollows
<1> HIDE DEF cnt
<1> DEFINE x == VersionTo(tx)
           y == VarInt(cnt.value)
<1>4. x \in Octet /\ Len(x) = 4
  <2>1. tx.version \in Nat
    BY BytesFacts, WordTypes DEF BtcTxs
  <2>2. QED
    BY <2>1, LittleEndianType DEF VersionTo, Octet
<1>5. SoFar(h.n, x, segwit) /\ h.n \in Nat
  <2>1. Reached(tx, segwit, pc, i, j) = x
    BY <1>1 DEF Reached
  <2>2. Far
    BY BytesFacts
  <2>3. QED
    BY <2>1, <2>2, BytesFacts, Zenon DEF Far
<1>6. h' = cnt.h /\ Reached(tx', segwit', pc', i', j') = x \o y /\ Flagged'
  <2>1. CASE cnt.value = 0
    <3>1. h' = cnt.h /\ pc' = "flag" /\ tx' = tx
      BY <1>1, <2>1, Zenon DEF GoTo
    <3>2. segwit'
      BY <1>1, <3>1
    <3>3. Reached(tx', segwit', pc', i', j') = VersionTo(tx) \o VarInt(0)
      BY <3>1 DEF Reached
    <3>4. QED
      BY <2>1, <3>1, <3>2, <3>3 DEF Flagged
  <2>2. CASE cnt.value # 0
    <3>1. MakeInputs(cnt)
      BY <1>1, <2>2, Zenon
    <3>2. tx' \in BtcTxs
      BY WiredAfter
    <3>3. /\ h' = cnt.h /\ Reached(tx', FALSE, pc', i', j') = Top(tx, FALSE) \o y
          /\ pc' # "flag"
      BY <1>2, <3>1, <3>2, InputsMadeFar
    <3>4. segwit' = FALSE
      BY <1>1, <3>3
    <3>5. Top(tx, FALSE) = x
      <4>1. Top(tx, FALSE) = x \o <<>>
        BY DEF Top
      <4>2. QED
        BY <1>4, <4>1, NoBytes
    <3>6. pc' \in {"input", "outputs"}
      <4>1. ~ (cnt.value > MaxIns)
        BY <1>2, <3>1, RefusalIsError, Zenon DEF MakeInputs
      <4>2. EnterInputs
        BY <3>1, <4>1, Zenon DEF MakeInputs
      <4>3. QED
        BY <4>2, Zenon DEF EnterInputs, GoTo
    <3>7. QED
      BY <3>3, <3>4, <3>5, <3>6 DEF Flagged
  <2>3. QED
    BY <2>1, <2>2
<1>7. h'.n \in Nat /\ y \in Octet /\ Follows(h.n, h'.n, y)
  BY <1>3, <1>6
<1> HIDE DEF x, y
<1>8. SoFar(h.n, x, segwit')
  <2>1. Len(x) < 6
    BY <1>4
  <2> DEFINE w2 == segwit'
  <2> HIDE DEF w2
  <2>2. SoFar(h.n, x, w2)
    BY <1>4, <1>5, <2>1, AnyMark, Zenon
  <2>3. QED
    BY <2>2 DEF w2
<1>9. SoFar(h'.n, x \o y, segwit')
  BY <1>4, <1>5, <1>7, <1>8, FarOn
<1>10. stream' = stream
  BY <1>1 DEF Same
<1>11. Far'
  BY <1>6, <1>9, <1>10, Zenon DEF Far, SoFar
<1>12. QED
  BY <1>6, <1>11

LEMMA OneMore ==
  ASSUME NEW x \in Octet, NEW b \in Octets
  PROVE  /\ x \o <<b>> \in Octet /\ Len(x \o <<b>>) = Len(x) + 1 /\ (x \o <<b>>)[Len(x) + 1] = b
         /\ \A k \in 1..Len(x) : (x \o <<b>>)[k] = x[k]
<1>1. x \in Seq(Octets)
  BY DEF Octet
<1>2. x \o <<b>> = Append(x, b)
  BY <1>1
<1>3. QED
  BY <1>1, <1>2 DEF Octet

\* Whatever the flag is, it is one byte, the sixth.
LEMMA FlagFar ==
  ASSUME BytesInv, ReadFlag, h.err = "none", h'.err = "none"
  PROVE  Far'
<1>1. pc = "flag" /\ h' = readFull(h, 1).h /\ pc' = "segwit inputs" /\ tx' = tx /\ segwit' = segwit /\ Same
  BY Zenon DEF ReadFlag, GoTo
<1>2. h'.n \in Nat /\ h'.n = h.n + 1
  BY <1>1, BytesFacts, FullFollows
<1>3. segwit
  BY <1>1, BytesFacts DEF Flagged
<1> DEFINE x == VersionTo(tx) \o VarInt(0)
           z == x \o <<1>>
<1>4. VersionTo(tx) \in Octet /\ Len(VersionTo(tx)) = 4 /\ VarInt(0) = <<0>> /\ 0 \in Octets /\ 1 \in Octets
  <2>1. tx.version \in Nat
    BY BytesFacts, WordTypes DEF BtcTxs
  <2>2. VersionTo(tx) \in Octet /\ Len(VersionTo(tx)) = 4
    BY <2>1, LittleEndianType DEF VersionTo, Octet
  <2>3. 0 \in Octets /\ 1 \in Octets
    BY Radix DEF Octets
  <2>4. QED
    BY <2>2, <2>3, NoCount
<1>5. x \in Octet /\ Len(x) = 5
  <2> DEFINE v == VersionTo(tx)
  <2>1. x = v \o <<0>> /\ v \in Octet /\ Len(v) = 4 /\ 0 \in Octets
    BY <1>4
  <2> HIDE DEF x, v
  <2>2. v \o <<0>> \in Octet /\ Len(v \o <<0>>) = Len(v) + 1
    BY <2>1, OneMore, Zenon
  <2>3. QED
    BY <2>1, <2>2
<1>6. Top(tx, TRUE) = z
  <2> DEFINE v == VersionTo(tx)
  <2>1. Top(tx, TRUE) = v \o <<0, 1>>
    BY DEF Top
  <2>2. x = v \o <<0>>
    BY <1>4
  <2> HIDE DEF v
  <2>3. v \o <<0, 1>> = (v \o <<0>>) \o <<1>>
    <3>1. v \in Seq(Octets)
      BY <1>4 DEF v, Octet
    <3>2. QED
      BY <3>1
  <2>4. QED
    BY <2>1, <2>2, <2>3
<1>7. SoFar(h.n, x, segwit) /\ h.n \in Nat
  <2>1. Reached(tx, segwit, pc, i, j) = x
    BY <1>1 DEF Reached
  <2>2. QED
    BY <2>1, BytesFacts, Zenon DEF Far
<1> HIDE DEF x
<1>8. Len(z) = 6 /\ \A k \in 1..5 : z[k] = x[k]
  <2>1. Len(z) = Len(x) + 1 /\ \A k \in 1..Len(x) : z[k] = x[k]
    BY <1>4, <1>5, OneMore
  <2>2. QED
    BY <1>5, <2>1
<1> HIDE DEF z
<1>9. SoFar(h'.n, z, segwit)
  <2>1. h.n >= 5
    BY <1>5, <1>7 DEF SoFar
  <2>2. h'.n >= Len(z)
    BY <1>2, <1>7, <1>8, <2>1
  <2>3. ASSUME h'.n = Len(z), NEW k \in 1..h'.n PROVE stream[k] = z[k] \/ (segwit /\ k = 6)
    <3>1. h.n = 5 /\ k \in 1..6
      BY <1>2, <1>7, <1>8, <2>3
    <3>2. CASE k = 6
      BY <1>3, <3>2
    <3>3. CASE k # 6
      <4>1. k \in 1..5
        BY <3>1, <3>3
      <4>2. stream[k] = x[k]
        BY <1>5, <1>7, <3>1, <3>3, <4>1 DEF SoFar
      <4>3. QED
        BY <1>8, <4>1, <4>2
    <3>4. QED
      BY <3>2, <3>3
  <2>4. QED
    BY <2>2, <2>3 DEF SoFar
<1>10. Reached(tx', segwit', pc', i', j') = z
  <2>1. Reached(tx', segwit', pc', i', j') = Top(tx, TRUE)
    BY <1>1 DEF Reached
  <2>2. QED
    BY <1>6, <2>1
<1>11. stream' = stream
  BY <1>1 DEF Same
<1>12. QED
  BY <1>1, <1>9, <1>10, <1>11, Zenon DEF Far, SoFar

LEMMA InputCountAgainFar ==
  ASSUME BytesInv, WireInv', ReadInputCountAgain, h.err = "none", h'.err = "none"
  PROVE  Far'
<1> DEFINE cnt == readVarInt(h)
<1>1. pc = "segwit inputs" /\ MakeInputs(cnt) /\ segwit' = segwit /\ Same
  BY Zenon DEF ReadInputCountAgain
<1>2. cnt.value \in Nat /\ cnt.h \in Helpers
  BY BytesFacts, ReadVarIntType
<1>3. cnt.h.err = "none" => /\ cnt.h.n \in Nat /\ VarInt(cnt.value) \in Octet
                            /\ Follows(h.n, cnt.h.n, VarInt(cnt.value))
  BY BytesFacts, CountFollows
<1> HIDE DEF cnt
<1> DEFINE x == Top(tx, TRUE)
           y == VarInt(cnt.value)
<1>4. segwit = TRUE
  BY <1>1, BytesFacts DEF Flagged
<1>5. h' = cnt.h /\ Reached(tx', segwit, pc', i', j') = x \o y
  BY <1>1, <1>2, <1>4, WiredAfter, InputsMadeFar
<1>6. x \in Octet
  BY BytesFacts, InputsRead
<1>7. h'.n \in Nat /\ y \in Octet /\ Follows(h.n, h'.n, y)
  BY <1>3, <1>5
<1>8. Reached(tx, segwit, pc, i, j) = x
  BY <1>1 DEF Reached
<1> HIDE DEF x, y
<1>9. QED
  BY <1>1, <1>5, <1>6, <1>7, <1>8, Advances

-----------------------------------------------------------------------------
(***************************************************************************)
(* One input, one output, one witness.                                     *)
(***************************************************************************)
\* An input is replaced: what was read before it stays, and its fields come one by one.
LEMMA InputReplaced ==
  ASSUME NEW t \in ShortTxs, NEW k \in 1..Len(t.ins), NEW in \in ShortInputs, NEW u, u = [t EXCEPT !.ins[k] = in]
  PROVE  /\ u \in ShortTxs /\ u \in BtcTxs /\ Len(u.ins) = Len(t.ins)
         /\ u.version = t.version /\ u.outs = t.outs /\ u.locktime = t.locktime
         /\ u.ins[k] = in /\ \A n \in 1..Len(t.ins) : n # k => u.ins[n] = t.ins[n]
<1>1. u \in ShortTxs /\ Len(u.ins) = Len(t.ins) /\ u.ins[k] = in
  BY InputChanged
<1>2. u.version = t.version /\ u.outs = t.outs /\ u.locktime = t.locktime /\ u.ins = [t.ins EXCEPT ![k] = in]
  BY DEF ShortTxs
<1>3. \A n \in 1..Len(t.ins) : n # k => u.ins[n] = t.ins[n]
  BY <1>2, TransactionFacts
<1>4. QED
  BY <1>1, <1>2, <1>3, ShortIsBtcTx

LEMMA InputReadOn ==
  ASSUME NEW t \in ShortTxs, NEW k \in 1..Len(t.ins), NEW in \in ShortInputs, NEW u, u = [t EXCEPT !.ins[k] = in],
         NEW w \in BOOLEAN
  PROVE  /\ InputsTo(u, w, k) = InputsTo(t, w, k)
         /\ VoutTo(u, w, k) = InputsTo(t, w, k) \o Reverse(in.txid)
         /\ in.txid = t.ins[k].txid => ScriptTo(u, w, k) = VoutTo(t, w, k) \o LittleEndian(4, in.vout)
         /\ in.txid = t.ins[k].txid /\ in.vout = t.ins[k].vout =>
               SequenceTo(u, w, k) = ScriptTo(t, w, k) \o VarBuf(in.script)
<1>1. /\ u \in BtcTxs /\ Len(u.ins) = Len(t.ins) /\ u.version = t.version
      /\ u.ins[k] = in /\ \A n \in 1..Len(t.ins) : n # k => u.ins[n] = t.ins[n]
  BY InputReplaced
<1>2. t \in BtcTxs /\ Len(t.ins) \in Nat
  BY ShortIsBtcTx, TransactionFacts
<1>3. k \in 1..Len(t.ins) + 1 /\ \A n \in 1..k-1 : n \in 1..Len(t.ins) /\ n # k
  BY <1>2
<1>4. \A n \in 1..k-1 : InputBytes(u.ins[n]) = InputBytes(t.ins[n])
  BY <1>1, <1>3
<1>5. InputsTo(u, w, k) = InputsTo(t, w, k)
  BY <1>1, <1>2, <1>3, <1>4, InputsStay
<1>6. VoutTo(u, w, k) = InputsTo(t, w, k) \o Reverse(in.txid)
  BY <1>1, <1>5, Zenon DEF VoutTo
<1>7. VoutTo(t, w, k) = InputsTo(t, w, k) \o Reverse(t.ins[k].txid)
  BY Zenon DEF VoutTo
<1>8. in.txid = t.ins[k].txid => ScriptTo(u, w, k) = VoutTo(t, w, k) \o LittleEndian(4, in.vout)
  BY <1>1, <1>6, <1>7, Zenon DEF ScriptTo
<1>9. ScriptTo(t, w, k) = VoutTo(t, w, k) \o LittleEndian(4, t.ins[k].vout)
  BY Zenon DEF ScriptTo
<1>10. in.txid = t.ins[k].txid /\ in.vout = t.ins[k].vout =>
          SequenceTo(u, w, k) = ScriptTo(t, w, k) \o VarBuf(in.script)
  BY <1>1, <1>8, <1>9, Zenon DEF SequenceTo
<1>11. QED
  BY <1>5, <1>6, <1>8, <1>10, Zenon

LEMMA InputReadWhole ==
  ASSUME NEW t \in ShortTxs, NEW k \in 1..Len(t.ins), NEW in \in ShortInputs, NEW u, u = [t EXCEPT !.ins[k] = in],
         NEW w \in BOOLEAN,
         in.txid = t.ins[k].txid /\ in.vout = t.ins[k].vout /\ in.script = t.ins[k].script
  PROVE  InputsTo(u, w, k + 1) = SequenceTo(t, w, k) \o LittleEndian(4, in.sequence)
<1>1. u \in BtcTxs /\ Len(u.ins) = Len(t.ins) /\ u.ins[k] = in
  BY InputReplaced
<1>2. InputsTo(u, w, k) = InputsTo(t, w, k)
  BY InputReadOn, ZenonT(40)
<1>3. VoutTo(u, w, k) = VoutTo(t, w, k)
  BY <1>1, <1>2, Zenon DEF VoutTo
<1>4. SequenceTo(u, w, k) = SequenceTo(t, w, k)
  BY <1>1, <1>3, Zenon DEF SequenceTo, ScriptTo
<1>5. InputsTo(u, w, k + 1) = SequenceTo(u, w, k) \o LittleEndian(4, in.sequence)
  <2>1. k \in 1..Len(u.ins)
    BY <1>1
  <2>2. SequenceTo(u, w, k) \o LittleEndian(4, u.ins[k].sequence) = InputsTo(u, w, k + 1)
    BY <1>1, <2>1, InputsRead, ZenonT(40)
  <2>3. QED
    BY <1>1, <2>2
<1>6. QED
  BY <1>4, <1>5

\* A witness is replaced.
LEMMA WitnessApart ==
  ASSUME NEW in \in ShortInputs, NEW items \in ShortItems
  PROVE  LET o == [in EXCEPT !.wit = items]
         IN  o \in ShortInputs /\ o.wit = items /\ InputBytes(o) = InputBytes(in)
<1> DEFINE o == [in EXCEPT !.wit = items]
<1>1. /\ o \in ShortInputs /\ o.wit = items /\ o.txid = in.txid /\ o.vout = in.vout
      /\ o.script = in.script /\ o.sequence = in.sequence
  BY DEF ShortInputs
<1> HIDE DEF o
<1>2. InputBytes(o) = InputBytes(in)
  BY <1>1, Zenon DEF InputBytes
<1>3. QED
  BY <1>1, <1>2 DEF o

LEMMA WitnessReadOn ==
  ASSUME NEW t \in ShortTxs, NEW k \in 1..Len(t.ins), NEW in \in ShortInputs, InputBytes(in) = InputBytes(t.ins[k]),
         NEW u, u = [t EXCEPT !.ins[k] = in], NEW w \in BOOLEAN
  PROVE  /\ u \in ShortTxs /\ u \in BtcTxs /\ Len(u.ins) = Len(t.ins) /\ u.ins[k] = in
         /\ WitnessTo(u, w, k) = WitnessTo(t, w, k)
<1>1. /\ u \in ShortTxs /\ u \in BtcTxs /\ Len(u.ins) = Len(t.ins)
      /\ u.version = t.version /\ u.outs = t.outs
      /\ u.ins[k] = in /\ \A n \in 1..Len(t.ins) : n # k => u.ins[n] = t.ins[n]
  BY InputReplaced
<1>2. t \in BtcTxs /\ Len(t.ins) \in Nat
  BY ShortIsBtcTx, TransactionFacts
<1>3. k \in 1..Len(t.ins) + 1 /\ \A n \in 1..k-1 : n \in 1..Len(t.ins) /\ n # k
  BY <1>2
<1>4. \A n \in 1..Len(t.ins) : InputBytes(u.ins[n]) = InputBytes(t.ins[n])
  BY <1>1, Zenon
<1>5. \A n \in 1..k-1 : u.ins[n] = t.ins[n]
  BY <1>1, <1>3
<1>6. WitnessTo(u, w, k) = WitnessTo(t, w, k)
  BY <1>1, <1>2, <1>3, <1>4, <1>5, WitnessesStay
<1>7. QED
  BY <1>1, <1>6

LEMMA TxidFar ==
  ASSUME BytesInv, ReadTxid, h.err = "none", h'.err = "none"
  PROVE  Far'
<1> DEFINE r == readFull(h, TxidLen)
           in == [tx.ins[i] EXCEPT !.txid = Reverse(r.bytes)]
<1>1. pc = "input" /\ tx' = [tx EXCEPT !.ins[i].txid = Reverse(r.bytes)] /\ h' = r.h
      /\ pc' = "vout" /\ i' = i /\ segwit' = segwit /\ Same
  BY Zenon DEF ReadTxid, GoTo
<1>2. h'.n \in Nat /\ r.bytes \in Octet /\ Len(r.bytes) = TxidLen /\ Follows(h.n, h'.n, r.bytes)
  BY <1>1, BytesFacts, FullFollows, Radix
<1> HIDE DEF r
<1> DEFINE y == r.bytes
<1>3. Reverse(y) \in Txids /\ Reverse(Reverse(y)) = y
  BY <1>2, Radix DEF Reverse, Txids, Octet
<1>4. i \in 1..Len(tx.ins) /\ tx \in ShortTxs /\ tx.ins[i] \in ShortInputs
  BY <1>1, BytesFacts, AtPlace DEF InputPlaces
<1>5. in \in ShortInputs /\ in.txid = Reverse(y) /\ tx' = [tx EXCEPT !.ins[i] = in]
  <2>1. in \in ShortInputs /\ in.txid = Reverse(y)
    BY <1>3, <1>4 DEF ShortInputs
  <2>2. tx' = [tx EXCEPT !.ins[i] = in]
    BY <1>1, <1>4 DEF ShortTxs
  <2>3. QED
    BY <2>1, <2>2
<1> HIDE DEF in
<1>6. VoutTo(tx', segwit, i) = InputsTo(tx, segwit, i) \o y
  <2>1. segwit \in BOOLEAN
    BY BytesFacts
  <2>2. VoutTo(tx', segwit, i) = InputsTo(tx, segwit, i) \o Reverse(in.txid)
    BY <1>4, <1>5, <2>1, InputReadOn, ZenonT(40)
  <2>3. QED
    BY <1>3, <1>5, <2>2
<1>7. InputsTo(tx, segwit, i) \in Octet
  <2>1. i \in 1..Len(tx.ins) + 1
    BY <1>4, TransactionFacts
  <2>2. QED
    BY <2>1, BytesFacts, InputsRead
<1> HIDE DEF y
<1> DEFINE x == InputsTo(tx, segwit, i)
<1>8. Reached(tx, segwit, pc, i, j) = x /\ Reached(tx', segwit, pc', i', j') = VoutTo(tx', segwit, i)
  BY <1>1 DEF Reached
<1> HIDE DEF x
<1>9. y \in Octet /\ Follows(h.n, h'.n, y)
  BY <1>2 DEF y
<1>10. QED
  BY <1>1, <1>2, <1>6, <1>7, <1>8, <1>9, Advances DEF x

LEMMA VoutFar ==
  ASSUME BytesInv, ReadVout, h.err = "none", h'.err = "none"
  PROVE  Far'
<1> DEFINE r == readNumber(h, 4)
           in == [tx.ins[i] EXCEPT !.vout = r.value]
           x == VoutTo(tx, segwit, i)
           y == LittleEndian(4, r.value)
<1>1. pc = "vout" /\ tx' = [tx EXCEPT !.ins[i].vout = r.value] /\ h' = r.h
      /\ pc' = "script" /\ i' = i /\ segwit' = segwit /\ Same
  BY Zenon DEF ReadVout, GoTo
<1>2. h'.n \in Nat /\ Follows(h.n, h'.n, y)
  BY <1>1, BytesFacts, NumberFollows
<1>3. r.value \in Word32
  BY BytesFacts, ReadNumberType
<1> HIDE DEF r
<1>4. y \in Octet
  BY <1>3, WordTypes, LittleEndianType DEF Octet
<1>5. i \in 1..Len(tx.ins) /\ tx \in ShortTxs /\ tx.ins[i] \in ShortInputs /\ segwit \in BOOLEAN
  BY <1>1, BytesFacts, AtPlace DEF InputPlaces
<1>6. in \in ShortInputs /\ in.txid = tx.ins[i].txid /\ in.vout = r.value
  BY <1>3, <1>5 DEF ShortInputs
<1>7. tx' = [tx EXCEPT !.ins[i] = in]
  BY <1>1, <1>5 DEF ShortTxs
<1>8. Reached(tx, segwit, pc, i, j) = x /\ Reached(tx', segwit, pc', i', j') = ScriptTo(tx', segwit, i)
  BY <1>1 DEF Reached
<1>9. x \in Octet
  BY <1>5, BytesFacts, InputsRead
<1> HIDE DEF in
<1>10. ScriptTo(tx', segwit, i) = VoutTo(tx, segwit, i) \o LittleEndian(4, in.vout)
  BY <1>5, <1>6, <1>7, InputReadOn, ZenonT(40)
<1>11. Reached(tx', segwit, pc', i', j') = x \o y
  BY <1>6, <1>8, <1>10, Zenon
<1> HIDE DEF x, y
<1>12. QED
  BY <1>1, <1>2, <1>4, <1>8, <1>9, <1>11, Advances

LEMMA ScriptFar ==
  ASSUME BytesInv, ReadScript, h.err = "none", h'.err = "none"
  PROVE  Far'
<1> DEFINE r == readVarBuf(h)
           in == [tx.ins[i] EXCEPT !.script = r.bytes]
           x == ScriptTo(tx, segwit, i)
           y == VarBuf(r.bytes)
<1>1. pc = "script" /\ tx' = [tx EXCEPT !.ins[i].script = r.bytes] /\ h' = r.h
      /\ pc' = "sequence" /\ i' = i /\ segwit' = segwit /\ Same
  BY Zenon DEF ReadScript, GoTo
<1>2. h'.n \in Nat /\ y \in Octet /\ Follows(h.n, h'.n, y)
  BY <1>1, BytesFacts, BufferFollows
<1>3. r.bytes \in ShortBuffers
  BY BytesFacts, ReadVarBufType
<1> HIDE DEF r
<1>4. i \in 1..Len(tx.ins) /\ tx \in ShortTxs /\ tx.ins[i] \in ShortInputs /\ segwit \in BOOLEAN
  BY <1>1, BytesFacts, AtPlace DEF InputPlaces
<1>5. in \in ShortInputs /\ in.txid = tx.ins[i].txid /\ in.vout = tx.ins[i].vout /\ in.script = r.bytes
  BY <1>3, <1>4 DEF ShortInputs
<1>6. tx' = [tx EXCEPT !.ins[i] = in]
  BY <1>1, <1>4 DEF ShortTxs
<1>7. Reached(tx, segwit, pc, i, j) = x /\ Reached(tx', segwit, pc', i', j') = SequenceTo(tx', segwit, i)
  BY <1>1 DEF Reached
<1>8. x \in Octet
  BY <1>4, BytesFacts, InputsRead
<1> HIDE DEF in
<1>9. SequenceTo(tx', segwit, i) = ScriptTo(tx, segwit, i) \o VarBuf(in.script)
  BY <1>4, <1>5, <1>6, InputReadOn, ZenonT(40)
<1>10. Reached(tx', segwit, pc', i', j') = x \o y
  BY <1>5, <1>7, <1>9, Zenon
<1> HIDE DEF x, y
<1>11. QED
  BY <1>1, <1>2, <1>7, <1>8, <1>10, Advances

LEMMA SequenceFar ==
  ASSUME BytesInv, ReadSequence, h.err = "none", h'.err = "none"
  PROVE  Far'
<1> DEFINE r == readNumber(h, 4)
           in == [tx.ins[i] EXCEPT !.sequence = r.value]
           x == SequenceTo(tx, segwit, i)
           y == LittleEndian(4, r.value)
<1>1. pc = "sequence" /\ tx' = [tx EXCEPT !.ins[i].sequence = r.value] /\ h' = r.h
      /\ AfterInput /\ segwit' = segwit /\ Same
  BY Zenon DEF ReadSequence
<1>2. h'.n \in Nat /\ Follows(h.n, h'.n, y)
  BY <1>1, BytesFacts, NumberFollows
<1>3. r.value \in Word32
  BY BytesFacts, ReadNumberType
<1> HIDE DEF r
<1>4. y \in Octet
  BY <1>3, WordTypes, LittleEndianType DEF Octet
<1>5. i \in 1..Len(tx.ins) /\ tx \in ShortTxs /\ tx.ins[i] \in ShortInputs /\ segwit \in BOOLEAN
  BY <1>1, BytesFacts, AtPlace DEF InputPlaces
<1>6. in \in ShortInputs /\ in.txid = tx.ins[i].txid /\ in.vout = tx.ins[i].vout
      /\ in.script = tx.ins[i].script /\ in.sequence = r.value
  BY <1>3, <1>5 DEF ShortInputs
<1>7. tx' = [tx EXCEPT !.ins[i] = in]
  BY <1>1, <1>5 DEF ShortTxs
<1>8. Reached(tx, segwit, pc, i, j) = x
  BY <1>1 DEF Reached
<1>9. x \in Octet
  BY <1>5, BytesFacts, InputsRead
<1> HIDE DEF in
<1>10. InputsTo(tx', segwit, i + 1) = SequenceTo(tx, segwit, i) \o LittleEndian(4, in.sequence)
  BY <1>5, <1>6, <1>7, InputReadWhole
<1>11. Reached(tx', segwit, pc', i', j') = InputsTo(tx', segwit, i + 1)
  <2>1. CASE i < Len(tx.ins)
    <3>1. pc' = "input" /\ i' = i + 1
      BY <1>1, <2>1, Zenon DEF AfterInput, GoTo
    <3>2. QED
      BY <3>1 DEF Reached
  <2>2. CASE ~ (i < Len(tx.ins))
    <3>1. pc' = "outputs"
      BY <1>1, <2>2, Zenon DEF AfterInput, GoTo
    <3>2. Reached(tx', segwit, pc', i', j') = OutputCountTo(tx', segwit)
      BY <3>1 DEF Reached
    <3>3. Len(tx'.ins) = Len(tx.ins)
      BY <1>5, <1>6, <1>7, InputChanged
    <3>4. i = Len(tx.ins)
      BY <1>5, <2>2, TransactionFacts
    <3>5. QED
      BY <3>2, <3>3, <3>4, Zenon DEF OutputCountTo
  <2>3. QED
    BY <2>1, <2>2, Zenon
<1>12. Reached(tx', segwit, pc', i', j') = x \o y
  BY <1>6, <1>10, <1>11, Zenon
<1> HIDE DEF x, y
<1>13. QED
  BY <1>1, <1>2, <1>4, <1>8, <1>9, <1>12, Advances

\* The list of outputs is made.
LEMMA OutputCountFar ==
  ASSUME BytesInv, WireInv', ReadOutputCount, h.err = "none", h'.err = "none"
  PROVE  Far' /\ Flagged'
<1> DEFINE cnt == readVarInt(h)
           s == Repeat(NoOutput, cnt.value)
           x == OutputCountTo(tx, segwit)
           y == VarInt(cnt.value)
<1>1. /\ pc = "outputs" /\ segwit' = segwit /\ Same
      /\ IF cnt.value > MaxOuts THEN TooMany(cnt.h)
         ELSE tx' = [tx EXCEPT !.outs = s] /\ h' = cnt.h /\ EnterOutputs
  BY Zenon DEF ReadOutputCount
<1>2. cnt.value \in Nat /\ cnt.h \in Helpers
  BY BytesFacts, ReadVarIntType
<1>3. cnt.h.err = "none" => cnt.h.n \in Nat /\ y \in Octet /\ Follows(h.n, cnt.h.n, y)
  BY BytesFacts, CountFollows
<1> HIDE DEF cnt
<1>4. ~ (cnt.value > MaxOuts)
  BY <1>1, <1>2, RefusalIsError, Zenon
<1>5. tx' = [tx EXCEPT !.outs = s] /\ h' = cnt.h /\ EnterOutputs
  BY <1>1, <1>4, Zenon
<1>6. Len(s) = cnt.value
  BY <1>2, MadeLists, Zenon
<1> HIDE DEF s
<1>7. tx'.version = tx.version /\ tx'.ins = tx.ins /\ tx'.outs = s /\ tx' \in BtcTxs /\ segwit \in BOOLEAN /\ tx \in BtcTxs
  BY <1>5, BytesFacts, WiredAfter DEF ShortTxs
<1>8. /\ Reached(tx', segwit, pc', i', j') = OutputsTo(tx', segwit, 1)
      /\ pc' \in {"flag", "segwit inputs", "witness", "item"} => segwit
  BY <1>5, <1>7, LoopsReach
<1>9. OutputsTo(tx', segwit, 1) = OutputCountTo(tx', segwit) \o VarInt(Len(tx'.outs))
  BY <1>7, OutputsAreRead
<1>10. OutputCountTo(tx', segwit) = x
  BY <1>7 DEF OutputCountTo, InputsTo, InputParts, Top, VersionTo
<1>11. Reached(tx', segwit, pc', i', j') = x \o y
  BY <1>6, <1>7, <1>8, <1>9, <1>10, Zenon
<1>12. x \in Octet
  BY <1>7, InputsRead
<1>13. Reached(tx, segwit, pc, i, j) = x
  BY <1>1 DEF Reached
<1> HIDE DEF x, y
<1>14. h'.n \in Nat /\ y \in Octet /\ Follows(h.n, h'.n, y)
  BY <1>3, <1>5
<1>15. Far'
  BY <1>1, <1>11, <1>12, <1>13, <1>14, Advances
<1>16. Flagged'
  BY <1>1, <1>8 DEF Flagged
<1>17. QED
  BY <1>15, <1>16

LEMMA OutputReadOn ==
  ASSUME NEW t \in ShortTxs, NEW k \in 1..Len(t.outs), NEW out \in ShortOutputs, NEW u, u = [t EXCEPT !.outs[k] = out],
         NEW w \in BOOLEAN
  PROVE  /\ u \in BtcTxs /\ Len(u.outs) = Len(t.outs)
         /\ OutScriptTo(u, w, k) = OutputsTo(t, w, k) \o LittleEndian(8, out.amount)
         /\ out.amount = t.outs[k].amount => OutputsTo(u, w, k + 1) = OutScriptTo(t, w, k) \o VarBuf(out.script)
<1>1. u \in ShortTxs /\ Len(u.outs) = Len(t.outs) /\ u.ins = t.ins
  BY OutputChanged
<1>2. u.version = t.version /\ u.outs = [t.outs EXCEPT ![k] = out]
  BY DEF ShortTxs
<1>3. u.outs[k] = out /\ \A n \in 1..Len(t.outs) : n # k => u.outs[n] = t.outs[n]
  BY <1>2, TransactionFacts
<1>4. u \in BtcTxs /\ t \in BtcTxs /\ Len(t.outs) \in Nat
  BY <1>1, ShortIsBtcTx, TransactionFacts
<1>5. k \in 1..Len(t.outs) + 1 /\ \A n \in 1..k-1 : n \in 1..Len(t.outs) /\ n # k
  BY <1>4
<1>6. \A n \in 1..k-1 : OutputBytes(u.outs[n]) = OutputBytes(t.outs[n])
  BY <1>3, <1>5
<1>7. OutputsTo(u, w, k) = OutputsTo(t, w, k)
  BY <1>1, <1>2, <1>4, <1>5, <1>6, OutputsStay, ZenonT(40)
<1>8. OutScriptTo(u, w, k) = OutputsTo(t, w, k) \o LittleEndian(8, out.amount)
  BY <1>3, <1>7, Zenon DEF OutScriptTo
<1>9. OutScriptTo(t, w, k) = OutputsTo(t, w, k) \o LittleEndian(8, t.outs[k].amount)
  BY Zenon DEF OutScriptTo
<1>10. OutputsTo(u, w, k + 1) = OutScriptTo(u, w, k) \o VarBuf(out.script)
  <2>1. k \in 1..Len(u.outs)
    BY <1>1
  <2>2. OutScriptTo(u, w, k) \o VarBuf(u.outs[k].script) = OutputsTo(u, w, k + 1)
    BY <1>4, <2>1, OutputsAreRead, ZenonT(40)
  <2>3. QED
    BY <1>3, <2>2
<1>11. QED
  BY <1>1, <1>4, <1>8, <1>9, <1>10, Zenon

LEMMA AmountFar ==
  ASSUME BytesInv, ReadAmount, h.err = "none", h'.err = "none"
  PROVE  Far'
<1> DEFINE r == readNumber(h, 8)
           out == [tx.outs[i] EXCEPT !.amount = r.value]
           x == OutputsTo(tx, segwit, i)
           y == LittleEndian(8, r.value)
<1>1. pc = "output" /\ tx' = [tx EXCEPT !.outs[i].amount = r.value] /\ h' = r.h
      /\ pc' = "outscript" /\ i' = i /\ segwit' = segwit /\ Same
  BY Zenon DEF ReadAmount, GoTo
<1>2. h'.n \in Nat /\ Follows(h.n, h'.n, y)
  BY <1>1, BytesFacts, NumberFollows
<1>3. r.value \in Word64
  BY BytesFacts, ReadNumberType
<1> HIDE DEF r
<1>4. y \in Octet
  BY <1>3, WordTypes, LittleEndianType DEF Octet
<1>5. i \in 1..Len(tx.outs) /\ tx \in ShortTxs /\ tx.outs[i] \in ShortOutputs /\ segwit \in BOOLEAN
  BY <1>1, BytesFacts, AtPlace DEF OutputPlaces
<1>6. out \in ShortOutputs /\ out.amount = r.value
  BY <1>3, <1>5 DEF ShortOutputs
<1>7. tx' = [tx EXCEPT !.outs[i] = out]
  BY <1>1, <1>5 DEF ShortTxs
<1>8. Reached(tx, segwit, pc, i, j) = x /\ Reached(tx', segwit, pc', i', j') = OutScriptTo(tx', segwit, i)
  BY <1>1 DEF Reached
<1>9. x \in Octet
  <2>1. i \in 1..Len(tx.outs) + 1
    BY <1>5, TransactionFacts
  <2>2. QED
    BY <1>5, <2>1, BytesFacts, OutputsAreRead
<1> HIDE DEF out
<1>10. OutScriptTo(tx', segwit, i) = OutputsTo(tx, segwit, i) \o LittleEndian(8, out.amount)
  BY <1>5, <1>6, <1>7, OutputReadOn, ZenonT(40)
<1>11. Reached(tx', segwit, pc', i', j') = x \o y
  BY <1>6, <1>8, <1>10, Zenon
<1> HIDE DEF x, y
<1>12. QED
  BY <1>1, <1>2, <1>4, <1>8, <1>9, <1>11, Advances

LEMMA OutScriptFar ==
  ASSUME BytesInv, ReadOutScript, h.err = "none", h'.err = "none"
  PROVE  Far' /\ Flagged'
<1> DEFINE r == readVarBuf(h)
           out == [tx.outs[i] EXCEPT !.script = r.bytes]
           x == OutScriptTo(tx, segwit, i)
           y == VarBuf(r.bytes)
<1>1. /\ pc = "outscript" /\ tx' = [tx EXCEPT !.outs[i].script = r.bytes] /\ h' = r.h
      /\ IF i < Len(tx.outs) THEN GoTo("output", i + 1) ELSE AfterOutputs
      /\ segwit' = segwit /\ Same
  BY Zenon DEF ReadOutScript
<1>2. h'.n \in Nat /\ y \in Octet /\ Follows(h.n, h'.n, y)
  BY <1>1, BytesFacts, BufferFollows
<1>3. r.bytes \in ShortBuffers
  BY BytesFacts, ReadVarBufType
<1> HIDE DEF r
<1>4. i \in 1..Len(tx.outs) /\ tx \in ShortTxs /\ tx.outs[i] \in ShortOutputs /\ segwit \in BOOLEAN
  BY <1>1, BytesFacts, AtPlace DEF OutputPlaces
<1>5. out \in ShortOutputs /\ out.amount = tx.outs[i].amount /\ out.script = r.bytes
  BY <1>3, <1>4 DEF ShortOutputs
<1>6. tx' = [tx EXCEPT !.outs[i] = out]
  BY <1>1, <1>4 DEF ShortTxs
<1>7. Reached(tx, segwit, pc, i, j) = x
  BY <1>1 DEF Reached
<1>8. x \in Octet
  BY <1>4, BytesFacts, OutputsAreRead
<1> HIDE DEF out
<1>9. /\ tx' \in BtcTxs /\ Len(tx'.outs) = Len(tx.outs)
      /\ OutputsTo(tx', segwit, i + 1) = x \o VarBuf(out.script)
  <2>1. /\ tx' \in BtcTxs /\ Len(tx'.outs) = Len(tx.outs)
        /\ out.amount = tx.outs[i].amount => OutputsTo(tx', segwit, i + 1) = x \o VarBuf(out.script)
    BY <1>4, <1>5, <1>6, OutputReadOn, ZenonT(40)
  <2>2. QED
    BY <1>5, <2>1, Zenon
<1>10. /\ Reached(tx', segwit, pc', i', j') = OutputsTo(tx', segwit, i + 1)
       /\ pc' \in {"flag", "segwit inputs", "witness", "item"} => segwit
  <2>1. CASE i < Len(tx.outs)
    <3>1. pc' = "output" /\ i' = i + 1
      BY <1>1, <2>1, Zenon DEF GoTo
    <3>2. QED
      BY <3>1 DEF Reached
  <2>2. CASE ~ (i < Len(tx.outs))
    <3>1. AfterOutputs
      BY <1>1, <2>2, Zenon
    <3>2. i = Len(tx'.outs)
      BY <1>4, <1>9, <2>2, TransactionFacts
    <3>3. /\ Reached(tx', segwit, pc', i', j') = OutputsRead(tx', segwit)
          /\ pc' \in {"flag", "segwit inputs", "witness", "item"} => segwit
      BY <1>4, <1>9, <3>1, LoopsReach
    <3>4. QED
      BY <3>2, <3>3, Zenon DEF OutputsRead
  <2>3. QED
    BY <2>1, <2>2, Zenon
<1>11. Reached(tx', segwit, pc', i', j') = x \o y
  BY <1>5, <1>9, <1>10, Zenon
<1> HIDE DEF x, y
<1>12. Far'
  BY <1>1, <1>2, <1>7, <1>8, <1>11, Advances
<1>13. Flagged'
  BY <1>1, <1>10 DEF Flagged
<1>14. QED
  BY <1>12, <1>13

LEMMA WitnessPassed ==
  ASSUME AfterWitness, segwit = TRUE, tx \in ShortTxs, i \in 1..Len(tx.ins), Len(tx'.ins) = Len(tx.ins)
  PROVE  Reached(tx', segwit, pc', i', j') = WitnessTo(tx', segwit, i + 1)
<1>1. CASE i < Len(tx.ins)
  <2>1. pc' = "witness" /\ i' = i + 1
    BY <1>1, Zenon DEF AfterWitness, GoTo
  <2>2. QED
    BY <2>1 DEF Reached
<1>2. CASE ~ (i < Len(tx.ins))
  <2>1. pc' = "locktime"
    BY <1>2, Zenon DEF AfterWitness, GoTo
  <2>2. Reached(tx', segwit, pc', i', j') = LocktimeTo(tx', segwit)
    BY <2>1 DEF Reached
  <2>3. i = Len(tx'.ins)
    BY <1>2, TransactionFacts
  <2>4. QED
    BY <2>2, <2>3 DEF LocktimeTo
<1>3. QED
  BY <1>1, <1>2, Zenon

LEMMA WitnessCountFar ==
  ASSUME BytesInv, ReadWitnessCount, h.err = "none", h'.err = "none"
  PROVE  Far'
<1> DEFINE cnt == readVarInt(h)
           items == Repeat(<<>>, cnt.value)
           in == [tx.ins[i] EXCEPT !.wit = items]
           x == WitnessTo(tx, segwit, i)
           y == VarInt(cnt.value)
<1>1. cnt.value \in Nat /\ cnt.h \in Helpers
  BY BytesFacts, ReadVarIntType
<1>2. cnt.h.err = "none" => cnt.h.n \in Nat /\ y \in Octet /\ Follows(h.n, cnt.h.n, y)
  BY BytesFacts, CountFollows
<1>3. /\ pc = "witness" /\ segwit' = segwit /\ Same
      /\ IF cnt.value > MaxItems THEN TooMany(cnt.h)
         ELSE /\ tx' = [tx EXCEPT !.ins[i].wit = items] /\ h' = cnt.h
              /\ IF cnt.value = 0 THEN AfterWitness ELSE GoTo("item", i)
  BY Zenon DEF ReadWitnessCount
<1> HIDE DEF cnt
<1>4. ~ (cnt.value > MaxItems)
  BY <1>1, <1>3, RefusalIsError, Zenon
<1>5. /\ tx' = [tx EXCEPT !.ins[i].wit = items] /\ h' = cnt.h
      /\ IF cnt.value = 0 THEN AfterWitness ELSE GoTo("item", i)
  BY <1>3, <1>4, Zenon
<1>6. i \in 1..Len(tx.ins) /\ tx \in ShortTxs /\ tx.ins[i] \in ShortInputs /\ segwit = TRUE
  BY <1>3, BytesFacts, AtPlace DEF InputPlaces, Flagged
<1>7. items \in ShortItems /\ Len(items) = cnt.value
  <2>1. items \in Seq(ShortBuffers) /\ Len(items) = cnt.value
    BY <1>1, MadeLists, Zenon
  <2> HIDE DEF items
  <2>2. QED
    BY <1>1, <1>4, <2>1, Limits DEF ShortItems
<1> HIDE DEF items
<1>8. in \in ShortInputs /\ in.wit = items /\ InputBytes(in) = InputBytes(tx.ins[i])
  BY <1>6, <1>7, WitnessApart
<1>9. tx' = [tx EXCEPT !.ins[i] = in]
  BY <1>5, <1>6 DEF ShortTxs
<1> HIDE DEF in
<1>10. /\ tx' \in BtcTxs /\ Len(tx'.ins) = Len(tx.ins) /\ tx'.ins[i] = in
       /\ WitnessTo(tx', TRUE, i) = WitnessTo(tx, TRUE, i)
  <2> DEFINE w == TRUE
  <2>1. w \in BOOLEAN
    OBVIOUS
  <2> HIDE DEF w
  <2>2. /\ tx' \in BtcTxs /\ Len(tx'.ins) = Len(tx.ins) /\ tx'.ins[i] = in
        /\ WitnessTo(tx', w, i) = WitnessTo(tx, w, i)
    BY <1>6, <1>8, <1>9, <2>1, WitnessReadOn
  <2>3. QED
    BY <2>2 DEF w
<1>11. /\ ItemsTo(tx', TRUE, i, 1) = WitnessTo(tx', TRUE, i) \o VarInt(Len(items))
       /\ ItemsTo(tx', TRUE, i, Len(items) + 1) = WitnessTo(tx', TRUE, i + 1)
  BY <1>6, <1>8, <1>10, WitnessesRead
<1>12. Reached(tx', segwit, pc', i', j') = ItemsTo(tx', TRUE, i, 1)
  <2>1. CASE cnt.value = 0
    <3>1. AfterWitness
      BY <1>5, <2>1, Zenon
    <3>2. Reached(tx', segwit, pc', i', j') = WitnessTo(tx', segwit, i + 1)
      BY <1>6, <1>10, <3>1, WitnessPassed
    <3>3. Len(items) + 1 = 1
      BY <1>7, <2>1
    <3>4. QED
      BY <1>6, <1>11, <3>2, <3>3
  <2>2. CASE cnt.value # 0
    <3>1. pc' = "item" /\ i' = i /\ j' = 1
      BY <1>5, <2>2, Zenon DEF GoTo
    <3>2. Reached(tx', segwit, pc', i', j') = ItemsTo(tx', segwit, i, 1)
      BY <3>1 DEF Reached
    <3>3. QED
      BY <1>6, <3>2
  <2>3. QED
    BY <2>1, <2>2, Zenon
<1>13. Reached(tx', segwit, pc', i', j') = x \o y
  BY <1>6, <1>7, <1>10, <1>11, <1>12
<1>14. x \in Octet
  <2>1. i \in 1..Len(tx.ins) + 1 /\ tx \in BtcTxs
    BY <1>6, TransactionFacts, ShortIsBtcTx
  <2>2. QED
    BY <1>6, <2>1, WitnessesRead
<1>15. Reached(tx, segwit, pc, i, j) = x
  BY <1>3 DEF Reached
<1> HIDE DEF x, y
<1>16. h'.n \in Nat /\ y \in Octet /\ Follows(h.n, h'.n, y)
  BY <1>2, <1>5
<1>17. QED
  BY <1>3, <1>13, <1>14, <1>15, <1>16, Advances

LEMMA ItemFar ==
  ASSUME BytesInv, ReadItem, h.err = "none", h'.err = "none"
  PROVE  Far'
<1> DEFINE r == readVarBuf(h)
           items == [tx.ins[i].wit EXCEPT ![j] = r.bytes]
           in == [tx.ins[i] EXCEPT !.wit = items]
           L == Len(tx.ins[i].wit)
           x == ItemsTo(tx, segwit, i, j)
           y == VarBuf(r.bytes)
<1>1. r.bytes \in ShortBuffers
  BY BytesFacts, ReadVarBufType
<1>2. /\ pc = "item" /\ tx' = [tx EXCEPT !.ins[i].wit[j] = r.bytes] /\ h' = r.h
      /\ IF j < Len(tx.ins[i].wit) THEN pc' = "item" /\ i' = i /\ j' = j + 1 ELSE AfterWitness
      /\ segwit' = segwit /\ Same
  BY Zenon DEF ReadItem
<1>3. h'.n \in Nat /\ y \in Octet /\ Follows(h.n, h'.n, y)
  BY <1>2, BytesFacts, BufferFollows
<1> HIDE DEF r
<1>4. /\ i \in 1..Len(tx.ins) /\ tx \in ShortTxs /\ tx.ins[i] \in ShortInputs /\ segwit = TRUE
      /\ j \in 1..Len(tx.ins[i].wit)
  BY <1>2, BytesFacts, AtPlace DEF InputPlaces, Flagged
<1>5. /\ items \in ShortItems /\ Len(items) = L /\ L \in Nat /\ items[j] = r.bytes
      /\ \A n \in 1..L : n # j => items[n] = tx.ins[i].wit[n]
  <2>1. tx.ins[i].wit \in Seq(ShortBuffers) /\ Len(tx.ins[i].wit) <= MaxItems
    BY <1>4 DEF ShortInputs, ShortItems
  <2>2. items \in Seq(ShortBuffers) /\ Len(items) = Len(tx.ins[i].wit)
    BY <1>1, <1>4, <2>1, ExceptSeq
  <2>3. items[j] = r.bytes /\ \A n \in 1..L : n # j => items[n] = tx.ins[i].wit[n]
    BY <1>4, <2>1
  <2>4. QED
    BY <2>1, <2>2, <2>3 DEF ShortItems
<1>6. tx' = [tx EXCEPT !.ins[i].wit = items]
  BY <1>2, <1>4 DEF ShortTxs, ShortInputs
<1> HIDE DEF items
<1>7. in \in ShortInputs /\ in.wit = items /\ InputBytes(in) = InputBytes(tx.ins[i])
  BY <1>4, <1>5, WitnessApart
<1>8. tx' = [tx EXCEPT !.ins[i] = in]
  BY <1>4, <1>6 DEF ShortTxs
<1> HIDE DEF in
<1>9. /\ tx' \in BtcTxs /\ Len(tx'.ins) = Len(tx.ins) /\ tx'.ins[i] = in
      /\ WitnessTo(tx', TRUE, i) = WitnessTo(tx, TRUE, i)
  <2> DEFINE w == TRUE
  <2>1. w \in BOOLEAN
    OBVIOUS
  <2> HIDE DEF w
  <2>2. /\ tx' \in BtcTxs /\ Len(tx'.ins) = Len(tx.ins) /\ tx'.ins[i] = in
        /\ WitnessTo(tx', w, i) = WitnessTo(tx, w, i)
    BY <1>4, <1>7, <1>8, <2>1, WitnessReadOn
  <2>3. QED
    BY <2>2 DEF w
<1>10. Before(ItemParts(in), j) = Before(ItemParts(tx.ins[i]), j)
  <2>1. \A n \in 1..j-1 : n \in 1..L /\ n # j
    BY <1>4, <1>5
  <2>2. DOMAIN items = 1..L /\ DOMAIN tx.ins[i].wit = 1..L
    <3>1. items \in Seq(ShortBuffers) /\ tx.ins[i].wit \in Seq(ShortBuffers)
      BY <1>4, <1>5 DEF ShortItems, ShortInputs
    <3>2. QED
      BY <1>5, <3>1
  <2>3. \A n \in 1..j-1 : ItemParts(in)[n] = ItemParts(tx.ins[i])[n]
    <3> TAKE n \in 1..j-1
    <3>1. n \in 1..L /\ n # j
      BY <2>1
    <3>2. ItemParts(in)[n] = VarBuf(items[n]) /\ ItemParts(tx.ins[i])[n] = VarBuf(tx.ins[i].wit[n])
      BY <1>7, <2>2, <3>1 DEF ItemParts
    <3>3. QED
      BY <1>5, <3>1, <3>2
  <2>4. QED
    BY <2>3, PartsBefore
<1>11. ItemsTo(tx', TRUE, i, j) = ItemsTo(tx, TRUE, i, j)
  BY <1>5, <1>7, <1>9, <1>10 DEF ItemsTo
<1>12. /\ ItemsTo(tx', TRUE, i, j + 1) = ItemsTo(tx', TRUE, i, j) \o VarBuf(r.bytes)
       /\ ItemsTo(tx', TRUE, i, L + 1) = WitnessTo(tx', TRUE, i + 1)
  <2>1. /\ i \in 1..Len(tx'.ins) /\ j \in 1..Len(tx'.ins[i].wit) /\ Len(tx'.ins[i].wit) = L
        /\ tx'.ins[i].wit[j] = r.bytes
    BY <1>4, <1>5, <1>7, <1>9
  <2>2. QED
    BY <1>9, <2>1, WitnessesRead
<1>13. Reached(tx', segwit, pc', i', j') = ItemsTo(tx', TRUE, i, j + 1)
  <2>1. CASE j < L
    <3>1. pc' = "item" /\ i' = i /\ j' = j + 1
      BY <1>2, <2>1, Zenon
    <3>2. Reached(tx', segwit, pc', i', j') = ItemsTo(tx', segwit, i, j + 1)
      BY <3>1 DEF Reached
    <3>3. QED
      BY <1>4, <3>2
  <2>2. CASE ~ (j < L)
    <3>1. AfterWitness
      BY <1>2, <2>2, Zenon
    <3>2. Reached(tx', segwit, pc', i', j') = WitnessTo(tx', segwit, i + 1)
      BY <1>4, <1>9, <3>1, WitnessPassed
    <3>3. j = L
      BY <1>4, <1>5, <2>2
    <3>4. QED
      BY <1>4, <1>12, <3>2, <3>3
  <2>3. QED
    BY <2>1, <2>2, Zenon
<1>14. Reached(tx', segwit, pc', i', j') = x \o y
  BY <1>4, <1>11, <1>12, <1>13
<1>15. x \in Octet
  <2>1. j \in 1..L + 1 /\ tx \in BtcTxs
    BY <1>4, <1>5, ShortIsBtcTx
  <2>2. QED
    BY <1>4, <2>1, WitnessesRead
<1>16. Reached(tx, segwit, pc, i, j) = x
  BY <1>2 DEF Reached
<1> HIDE DEF x, y
<1>17. QED
  BY <1>2, <1>3, <1>14, <1>15, <1>16, Advances

LEMMA LocktimeFar ==
  ASSUME BytesInv, WireInv', ReadLocktime, h.err = "none", h'.err = "none"
  PROVE  Far'
<1> DEFINE r == readNumber(h, 4)
           x == LocktimeTo(tx, segwit)
           y == LittleEndian(4, r.value)
<1>1. pc = "locktime" /\ tx' = [tx EXCEPT !.locktime = r.value] /\ h' = r.h
      /\ pc' = "done" /\ segwit' = segwit /\ Same
  BY Zenon DEF ReadLocktime, GoTo
<1>2. h'.n \in Nat /\ r.value \in Nat /\ Follows(h.n, h'.n, y)
  BY <1>1, BytesFacts, NumberFollows
<1> HIDE DEF r
<1>3. y \in Octet
  BY <1>2, LittleEndianType DEF Octet
<1>4. /\ tx'.version = tx.version /\ tx'.ins = tx.ins /\ tx'.outs = tx.outs /\ tx'.locktime = r.value
      /\ segwit \in BOOLEAN /\ tx \in BtcTxs /\ tx' \in BtcTxs
  BY <1>1, BytesFacts, WiredAfter DEF ShortTxs
<1>5. LocktimeTo(tx', segwit) = x
  BY <1>4 DEF LocktimeTo, WitnessTo, WitnessParts, OutputsRead, OutputsTo, OutputParts, OutputCountTo, InputsTo,
      InputParts, Top, VersionTo
<1>6. exportBytes(tx', segwit) = LocktimeTo(tx', segwit) \o LittleEndian(4, tx'.locktime)
  BY <1>4, ExportRead
<1>7. Reached(tx, segwit, pc, i, j) = x /\ Reached(tx', segwit, pc', i', j') = exportBytes(tx', segwit)
  BY <1>1 DEF Reached
<1>8. Reached(tx', segwit, pc', i', j') = x \o y
  BY <1>4, <1>5, <1>6, <1>7, Zenon
<1>9. x \in Octet
  BY <1>4, WitnessesRead
<1> HIDE DEF x, y
<1>10. QED
  BY <1>1, <1>2, <1>3, <1>7, <1>8, <1>9, Advances

Marks == {"flag", "segwit inputs", "witness", "item"}

\* The places behind a marker are gone to only if there was one.
LEMMA FlaggedStep ==
  ASSUME BytesInv, ReadFrom
  PROVE  Flagged'
<1>1. Flagged
  BY DEF BytesInv
<1>2. pc' \notin Marks => Flagged'
  BY DEF Flagged, Marks
<1>3. segwit /\ segwit' = segwit => Flagged'
  <2>1. segwit /\ segwit' = segwit => segwit'
    OBVIOUS
  <2>2. segwit' => Flagged'
    BY Zenon DEF Flagged
  <2>3. QED
    BY <2>1, <2>2, Zenon
<1>4. pc \in Marks /\ segwit' = segwit => Flagged'
  <2>1. pc \in Marks => segwit
    BY <1>1, Zenon DEF Flagged, Marks
  <2>2. QED
    BY <1>3, <2>1, Zenon
<1>5. AfterOutputs => pc' \notin Marks \/ segwit
  <2>1. AfterOutputs => (pc' = "witness" /\ segwit) \/ pc' = "locktime"
    BY Zenon DEF AfterOutputs, GoTo
  <2>2. QED
    BY <2>1 DEF Marks
<1>6. \A r : TooMany(r) => pc' \notin Marks
  <2>1. \A r : TooMany(r) => pc' = "done"
    BY Zenon DEF TooMany, GoTo
  <2>2. QED
    BY <2>1 DEF Marks
<1>7. CASE ReadVersion \/ ReadLocktime \/ ReadInput
  <2>1. pc' \in {"inputs", "done", "vout", "script", "sequence", "input", "outputs"}
    BY <1>7 DEF ReadVersion, ReadLocktime, ReadInput, ReadTxid, ReadVout, ReadScript, ReadSequence, AfterInput, GoTo
  <2>2. QED
    BY <1>2, <2>1 DEF Marks
<1>8. CASE ReadInputCount
  <2>1. segwit' = (pc' = "flag") /\ (pc' = "flag" \/ \E cnt : MakeInputs(cnt))
    BY <1>8, Zenon DEF ReadInputCount, GoTo
  <2>2. ASSUME NEW cnt, MakeInputs(cnt) PROVE pc' \notin Marks
    <3>1. TooMany(cnt.h) \/ EnterInputs
      BY <2>2, Zenon DEF MakeInputs
    <3>2. EnterInputs => pc' \in {"outputs", "input"}
      BY DEF EnterInputs, GoTo
    <3>3. QED
      BY <1>6, <3>1, <3>2 DEF Marks
  <2>3. CASE pc' = "flag"
    BY <2>1, <2>3 DEF Flagged
  <2>4. QED
    BY <1>2, <2>1, <2>2, <2>3, Zenon
<1>9. CASE ReadFlag \/ ReadInputCountAgain \/ ReadWitnessCount \/ ReadItem
  <2>1. pc \in {"flag", "segwit inputs", "witness", "item"} /\ segwit' = segwit
    BY <1>9 DEF ReadFlag, ReadInputCountAgain, ReadWitnessCount, ReadItem
  <2>2. QED
    BY <1>4, <2>1 DEF Marks
<1>10. CASE ReadOutputCount
  <2>1. segwit' = segwit /\ ((\E r : TooMany(r)) \/ EnterOutputs)
    BY <1>10, Zenon DEF ReadOutputCount
  <2>2. EnterOutputs => AfterOutputs \/ pc' = "output"
    BY Zenon DEF EnterOutputs, GoTo
  <2>3. pc' = "output" => pc' \notin Marks
    BY DEF Marks
  <2>4. QED
    BY <1>2, <1>3, <1>5, <1>6, <2>1, <2>2, <2>3, Zenon
<1>11. CASE ReadOutput
  <2>1. segwit' = segwit /\ (pc' \in {"outscript", "output"} \/ AfterOutputs)
    BY <1>11 DEF ReadOutput, ReadAmount, ReadOutScript, GoTo
  <2>2. pc' \in {"outscript", "output"} => pc' \notin Marks
    BY DEF Marks
  <2>3. QED
    BY <1>2, <1>3, <1>5, <2>1, <2>2, Zenon
<1>12. QED
  BY <1>7, <1>8, <1>9, <1>10, <1>11, Zenon DEF ReadFrom

\* A step of ReadFrom without an error.
LEMMA FarStep ==
  ASSUME BytesInv, WireInv', ReadFrom, h.err = "none", h'.err = "none"
  PROVE  Far'
<1>1. CASE ReadVersion
  BY <1>1, VersionFar
<1>2. CASE ReadInputCount
  BY <1>2, InputCountFar
<1>3. CASE ReadFlag
  BY <1>3, FlagFar
<1>4. CASE ReadInputCountAgain
  BY <1>4, InputCountAgainFar
<1>5. CASE ReadInput
  BY <1>5, TxidFar, VoutFar, ScriptFar, SequenceFar, Zenon DEF ReadInput
<1>6. CASE ReadOutputCount
  BY <1>6, OutputCountFar
<1>7. CASE ReadOutput
  BY <1>7, AmountFar, OutScriptFar, Zenon DEF ReadOutput
<1>8. CASE ReadWitnessCount
  BY <1>8, WitnessCountFar
<1>9. CASE ReadItem
  BY <1>9, ItemFar
<1>10. CASE ReadLocktime
  BY <1>10, LocktimeFar
<1>11. QED
  BY <1>1, <1>2, <1>3, <1>4, <1>5, <1>6, <1>7, <1>8, <1>9, <1>10, Zenon DEF ReadFrom

\* Before the first byte.
LEMMA FromTheStart ==
  ASSUME NEW w, NEW k, NEW m, NEW t
  PROVE  SoFar(0, Reached(t, w, "version", k, m), w)
<1>1. Reached(t, w, "version", k, m) = <<>>
  BY DEF Reached
<1>2. QED
  BY <1>1 DEF SoFar

LEMMA BytesStep ==
  ASSUME BytesInv, [Next]_vars
  PROVE  BytesInv'
<1>1. WireInv /\ Flagged /\ (h.err = "none" => Far)
  BY DEF BytesInv
<1>2. WireInv'
  BY <1>1, WireStep
<1>3. CASE ReadFrom
  <2>1. h.err # "none" => h'.err # "none"
    BY <1>1, <1>3, ErrorStep
  <2>2. h'.err = "none" => Far'
    BY <1>1, <1>2, <1>3, <2>1, FarStep, Zenon
  <2>3. QED
    BY <1>2, <1>3, <2>2, FlaggedStep, Zenon DEF BytesInv
<1>4. CASE Rewrite
  <2>1. pc' = "version" /\ h'.n = 0
    BY <1>4 DEF Rewrite, GoTo
  <2>2. Flagged'
    BY <2>1 DEF Flagged
  <2>3. SoFar(0, <<>>, segwit)'
    BY DEF SoFar
  <2>4. Reached(tx, segwit, pc, i, j)' = <<>>
    BY <2>1 DEF Reached
  <2>5. Far'
    BY <2>1, <2>3, <2>4, Zenon DEF Far
  <2>6. QED
    BY <1>2, <2>2, <2>5, Zenon DEF BytesInv
<1>5. CASE UNCHANGED vars
  BY <1>1, <1>2, <1>5 DEF BytesInv, vars, Flagged, Far, SoFar
<1>6. QED
  BY <1>3, <1>4, <1>5, Zenon DEF Next

LEMMA BytesMeanAccepted ==
  ASSUME BytesInv
  PROVE  AcceptedIsInTheBytes
<1> SUFFICES ASSUME Accepted PROVE LET own == exportBytes(tx, segwit)
                                  IN  /\ h.n >= Len(own)
                                      /\ h.n = Len(own) =>
                                            \A k \in 1..h.n : stream[k] = own[k] \/ (segwit /\ k = 6)
  BY Zenon DEF AcceptedIsInTheBytes
<1>1. Far /\ pc = "done"
  BY DEF Accepted, BytesInv
<1>2. Reached(tx, segwit, pc, i, j) = exportBytes(tx, segwit)
  BY <1>1 DEF Reached
<1> DEFINE own == exportBytes(tx, segwit)
<1>3. SoFar(h.n, own, segwit)
  BY <1>1, <1>2, Zenon DEF Far
<1> HIDE DEF own
<1>4. h.n >= Len(own) /\ (h.n = Len(own) => \A k \in 1..h.n : stream[k] = own[k] \/ (segwit /\ k = 6))
  BY <1>3, Zenon DEF SoFar
<1>5. QED
  BY <1>4, Zenon DEF own

\* Whatever stream is read, wherever the reader fails and whatever the limits are:
\* a transaction that ReadFrom accepts is in the bytes that it read.  They are at
\* least as many as its own form has, and if they are no more, they are that form,
\* but for the flag, which may be any byte (btctx.go:523).
THEOREM AcceptedIsRead == Spec => []AcceptedIsInTheBytes
<1>1. Init => BytesInv
  <2> SUFFICES ASSUME Init PROVE BytesInv
    OBVIOUS
  <2>1. WireInv
    BY InitInv
  <2>2. pc = "version" /\ h.n = 0
    BY DEF Init
  <2>3. Flagged
    BY <2>2 DEF Flagged
  <2>4. Far
    BY <2>2, FromTheStart, Zenon DEF Far
  <2>5. QED
    BY <2>1, <2>3, <2>4, Zenon DEF BytesInv
<1>2. BytesInv /\ [Next]_vars => BytesInv'
  BY BytesStep
<1>3. BytesInv => AcceptedIsInTheBytes
  BY BytesMeanAccepted
<1>4. QED
  BY <1>1, <1>2, <1>3, PTL DEF Spec
=============================================================================
