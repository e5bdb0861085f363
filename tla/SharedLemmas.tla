---------------------------- MODULE SharedLemmas -----------------------------
(***************************************************************************)
(* Lemmas that the proofs of several components share: sorting, induction  *)
(* over the natural numbers, powers, and lists that are appended to.       *)
(***************************************************************************)
EXTENDS Ordered, Powers, FiniteSetsExt, Sequences, TLAPS, FiniteSetTheorems, FunctionTheorems,
        WellFoundedInduction

\* A finite set of keys has an increasing enumeration: the inverse of the rank.
LEMMA SortedExists ==
  ASSUME NEW S \in SUBSET Nat, IsFiniteSet(S)
  PROVE  \E s \in [1..Cardinality(S) -> S] : \A i, j \in DOMAIN s : i < j => s[i] < s[j]
<1> DEFINE n == Cardinality(S)
           below(x) == { y \in S : y < x }
           rank == [x \in S |-> Cardinality(below(x)) + 1]
<1>0. \A x \in S : x \in Nat
  OBVIOUS
<1>1. n \in Nat /\ IsFiniteSet(1..n) /\ Cardinality(1..n) = n
  BY FS_CardinalityType, FS_Interval
<1>2. \A x \in S : IsFiniteSet(below(x)) /\ Cardinality(below(x)) \in Nat
  BY FS_Subset, FS_CardinalityType
<1>3. \A x \in S : Cardinality(below(x)) + 1 <= n
  <2> TAKE x \in S
  <2>1. Cardinality(below(x) \cup {x}) = Cardinality(below(x)) + 1
    <3>1. x \notin below(x)
      BY <1>0
    <3>2. QED
      BY <1>2, <3>1, FS_AddElement
  <2>2. below(x) \cup {x} \in SUBSET S
    OBVIOUS
  <2>3. QED
    BY <2>1, <2>2, FS_Subset
<1>4. \A x, y \in S : x < y => rank[x] < rank[y]
  <2> SUFFICES ASSUME NEW x \in S, NEW y \in S, x < y PROVE rank[x] < rank[y]
    OBVIOUS
  <2>1. Cardinality(below(x) \cup {x}) = Cardinality(below(x)) + 1
    <3>1. x \notin below(x)
      BY <1>0
    <3>2. QED
      BY <1>2, <3>1, FS_AddElement
  <2>2. below(x) \cup {x} \in SUBSET below(y)
    <3>1. \A z \in below(x) : z < y
      BY <1>0
    <3>2. QED
      BY <3>1
  <2>3. Cardinality(below(x)) + 1 <= Cardinality(below(y))
    BY <1>2, <2>1, <2>2, FS_Subset
  <2>4. QED
    BY <1>2, <2>3
<1>5. rank \in [S -> 1..n]
  BY <1>1, <1>2, <1>3
<1>6. rank \in Injection(S, 1..n)
  <2> HIDE DEF rank, n
  <2>1. ASSUME NEW x \in S, NEW y \in S, rank[x] = rank[y] PROVE x = y
    <3>1. rank[x] \in Nat /\ x \in Nat /\ y \in Nat
      BY <1>0, <1>1, <1>5
    <3>2. ~ (x < y) /\ ~ (y < x)
      BY <1>4, <2>1, <3>1
    <3>3. QED
      BY <3>1, <3>2
  <2>2. QED
    BY <1>5, <2>1 DEF Injection, IsInjective
<1>7. rank \in Surjection(S, 1..n)
  BY <1>1, <1>6, FS_Injection
<1>8. \A i \in 1..n : \E x \in S : rank[x] = i
  BY <1>7 DEF Surjection
<1> DEFINE s == [i \in 1..n |-> CHOOSE x \in S : rank[x] = i]
<1>9. s \in [1..n -> S] /\ \A i \in 1..n : rank[s[i]] = i
  BY <1>8
<1> HIDE DEF s, rank
<1>10. ASSUME NEW i \in 1..n, NEW j \in 1..n, i < j PROVE s[i] < s[j]
  <2>1. s[i] \in S /\ s[j] \in S /\ rank[s[i]] = i /\ rank[s[j]] = j
    BY <1>9
  <2>2. i \in Nat /\ j \in Nat /\ s[i] \in Nat /\ s[j] \in Nat
    <3>1. s[i] \in Nat /\ s[j] \in Nat
      BY <1>0, <2>1, Zenon
    <3>2. QED
      BY <1>1, <3>1
  <2>3. s[j] < s[i] => j < i
    BY <1>4, <2>1
  <2>4. s[j] # s[i]
    BY <1>10, <2>1, <2>2
  <2>5. QED
    BY <1>10, <2>2, <2>3, <2>4
<1>11. DOMAIN s = 1..n
  BY <1>9
<1>12. QED
  BY <1>9, <1>10, <1>11

LEMMA SortedSpec ==
  ASSUME NEW S \in SUBSET Nat, IsFiniteSet(S)
  PROVE  /\ Sorted(S) \in Seq(S) /\ Len(Sorted(S)) = Cardinality(S)
         /\ \A i, j \in 1..Len(Sorted(S)) : Sorted(S)[i] = Sorted(S)[j] => i = j
         /\ \A k \in S : \E i \in 1..Len(Sorted(S)) : Sorted(S)[i] = k
<1> DEFINE n == Cardinality(S)
           s == Sorted(S)
<1>0. \A x \in S : x \in Nat
  OBVIOUS
<1>1. n \in Nat /\ IsFiniteSet(1..n) /\ Cardinality(1..n) = n
  BY FS_CardinalityType, FS_Interval
<1>2. s \in [1..n -> S] /\ \A i, j \in DOMAIN s : i < j => s[i] < s[j]
  BY SortedExists DEF Sorted
<1> HIDE DEF s
<1>3. s \in Seq(S) /\ Len(s) = n
  BY <1>1, <1>2
<1>4. \A i, j \in 1..n : s[i] = s[j] => i = j
  <2> SUFFICES ASSUME NEW i \in 1..n, NEW j \in 1..n, i # j PROVE s[i] # s[j]
    OBVIOUS
  <2>1. s[i] \in S /\ s[j] \in S
    BY <1>2
  <2>2. s[i] \in Nat /\ s[j] \in Nat /\ i \in Nat /\ j \in Nat
    <3>1. s[i] \in Nat /\ s[j] \in Nat
      BY <1>0, <2>1, Zenon
    <3>2. QED
      BY <1>1, <3>1
  <2>3. (i < j => s[i] < s[j]) /\ (j < i => s[j] < s[i])
    BY <1>2
  <2>4. QED
    BY <2>2, <2>3
<1>5. s \in Injection(1..n, S)
  BY <1>2, <1>4 DEF Injection, IsInjective
<1>6. s \in Surjection(1..n, S)
  BY <1>1, <1>5, FS_Injection
<1>7. QED
  BY <1>3, <1>4, <1>6 DEF Surjection, s

-----------------------------------------------------------------------------
LEMMA LeastNat ==
  ASSUME NEW S \in SUBSET Nat, S # {}
  PROVE  Min(S) \in S /\ \A y \in S : Min(S) <= y
<1>1. \E x \in S : \A y \in S : ~ (<<y, x>> \in OpToRel(<, Nat))
  BY NatLessThanWellFounded, WFMin
<1>2. PICK x \in S : \A y \in S : ~ (<<y, x>> \in OpToRel(<, Nat))
  BY <1>1
<1>3. ASSUME NEW y \in S PROVE x <= y
  <2>1. x \in Nat /\ y \in Nat
    OBVIOUS
  <2>2. <<y, x>> \in OpToRel(<, Nat) <=> y < x
    BY <2>1 DEF OpToRel
  <2>3. ~ (y < x)
    BY <1>2, <2>2, Zenon
  <2>4. QED
    BY <2>1, <2>3
<1>4. QED
  BY <1>3 DEF Min

LEMMA Induct ==
  ASSUME NEW S, 0 \in S, \A n \in Nat : n \in S => n + 1 \in S
  PROVE  \A n \in Nat : n \in S
<1> DEFINE T == Nat \ S
<1> SUFFICES ASSUME T # {} PROVE FALSE
  OBVIOUS
<1>1. T \in SUBSET Nat
  OBVIOUS
<1> DEFINE m == Min(T)
<1>2. m \in T /\ \A y \in T : m <= y
  <2> HIDE DEF T
  <2>1. QED
    BY <1>1, LeastNat
<1> HIDE DEF m
<1>3. m \in Nat /\ m \notin S /\ m # 0
  BY <1>2
<1>4. m - 1 \in Nat /\ ~ (m <= m - 1)
  BY <1>3
<1>5. m - 1 \in S
  BY <1>2, <1>4
<1>6. (m - 1) + 1 \in S
  BY <1>4, <1>5
<1>7. QED
  BY <1>3, <1>6

\* f[n] is what the first n steps make of a.
Iterates(f, S, a, step, top) ==
    f \in [0..top -> S] /\ f[0] = a /\ \A n \in 1..top : f[n] = step[n][f[n - 1]]

\* Steps can be taken one after the other.
LEMMA Iterated ==
  ASSUME NEW S, NEW a \in S, NEW top \in Nat, NEW step \in [1..top -> [S -> S]]
  PROVE  \E f : Iterates(f, S, a, step, top)
<1> DEFINE Runs(f, t) == f \in [0..t -> S] /\ f[0] = a /\ \A n \in 1..t : f[n] = step[n][f[n - 1]]
           T == { n \in Nat : n <= top => \E f : Runs(f, n) }
<1>1. 0 \in T
  <2> DEFINE g == [n \in 0..0 |-> a]
  <2>1. Runs(g, 0)
    OBVIOUS
  <2> HIDE DEF g
  <2>2. QED
    BY <2>1
<1>2. ASSUME NEW n \in Nat, n \in T, n + 1 <= top PROVE n + 1 \in T
  <2>1. PICK f : Runs(f, n)
    BY <1>2
  <2> DEFINE g == [k \in 0..n + 1 |-> IF k = n + 1 THEN step[n + 1][f[n]] ELSE f[k]]
  <2>2. g[n + 1] = step[n + 1][f[n]] /\ \A k \in 0..n : g[k] = f[k]
    OBVIOUS
  <2>3. step[n + 1][f[n]] \in S
    <3>1. n + 1 \in 1..top /\ f[n] \in S
      BY <1>2, <2>1
    <3>2. QED
      BY <3>1
  <2>4. g \in [0..n + 1 -> S]
    BY <2>1, <2>3
  <2> HIDE DEF g
  <2>5. ASSUME NEW k \in 1..n + 1 PROVE g[k] = step[k][g[k - 1]]
    <3>1. CASE k = n + 1
      <4>1. k - 1 = n /\ n \in 0..n
        BY <3>1
      <4>2. QED
        BY <2>2, <3>1, <4>1
    <3>2. CASE k # n + 1
      <4>1. k \in 1..n /\ k \in 0..n /\ k - 1 \in 0..n
        BY <3>2
      <4>2. QED
        BY <2>1, <2>2, <4>1
    <3>3. QED
      BY <3>1, <3>2
  <2>6. g[0] = a
    BY <2>1, <2>2
  <2>7. Runs(g, n + 1)
    BY <2>4, <2>5, <2>6
  <2>8. QED
    BY <2>7, SMTT(30)
<1>3. \A n \in Nat : n \in T => n + 1 \in T
  <2> TAKE n \in Nat
  <2>1. CASE n + 1 <= top
    <3> HIDE DEF T
    <3>1. QED
      BY <1>2, <2>1
  <2>2. CASE ~ (n + 1 <= top)
    BY <2>2
  <2>3. QED
    BY <2>1, <2>2
<1> HIDE DEF T
<1>4. top \in T
  BY <1>1, <1>3, Induct
<1>5. QED
  BY <1>4 DEF T, Iterates

-----------------------------------------------------------------------------
Positive == Nat \ {0}

LEMMA PowerRun ==
  ASSUME NEW b \in Positive, NEW n \in Nat
  PROVE  \E p : /\ Power(b, n) = p[n] /\ p[0] = 1
                /\ \A k \in 1..n : p[k] = b * p[k - 1]
                /\ \A k \in 0..n : p[k] \in Positive
<1> DEFINE IsPower(p) == p = [k \in 0..n |-> IF k = 0 THEN 1 ELSE b * p[k - 1]]
           step == [k \in 1..n |-> [x \in Positive |-> b * x]]
<1>1. step \in [1..n -> [Positive -> Positive]] /\ 1 \in Positive
  BY DEF Positive
<1>2. PICK f : f \in [0..n -> Positive] /\ f[0] = 1 /\ \A k \in 1..n : f[k] = step[k][f[k - 1]]
  <2> HIDE DEF step
  <2>1. \E f : Iterates(f, Positive, 1, step, n)
    BY <1>1, Iterated
  <2>2. QED
    BY <2>1 DEF Iterates
<1>3. \A k \in 1..n : f[k] = b * f[k - 1]
  <2> TAKE k \in 1..n
  <2>1. f[k - 1] \in Positive
    BY <1>2
  <2>2. QED
    BY <1>2, <2>1
<1>4. IsPower(f)
  BY <1>2, <1>3
<1> DEFINE p == CHOOSE p : IsPower(p)
<1>5. IsPower(p)
  <2> HIDE DEF IsPower
  <2>1. QED
    BY <1>4
<1>6. Power(b, n) = p[n]
  BY Zenon DEF Power
<1> HIDE DEF p
<1>7. p[0] = 1 /\ \A k \in 1..n : p[k] = b * p[k - 1]
  BY <1>5
<1> DEFINE Q == { k \in Nat : k \in 0..n => p[k] \in Positive }
<1>8. 0 \in Q
  BY <1>7 DEF Positive
<1>9. ASSUME NEW k \in Nat, k \in Q PROVE k + 1 \in Q
  <2>1. CASE k + 1 \in 0..n
    <3>1. k \in 0..n /\ k + 1 \in 1..n /\ (k + 1) - 1 = k
      BY <2>1
    <3>2. p[k] \in Positive /\ p[k + 1] = b * p[k]
      BY <1>7, <1>9, <3>1
    <3>3. QED
      BY <3>2 DEF Positive
  <2>2. QED
    BY <2>1
<1>10. \A k \in Nat : k \in Q
  <2> HIDE DEF Q
  <2>1. QED
    BY <1>8, <1>9, Induct
<1>11. QED
  BY <1>6, <1>7, <1>10

LEMMA PowerFacts ==
  ASSUME NEW b \in Positive, NEW n \in Nat
  PROVE  Power(b, n) \in Positive /\ Power(b, 0) = 1 /\ Power(b, n + 1) = b * Power(b, n)
<1>1. PICK p : Power(b, n) = p[n] /\ p[0] = 1 /\ (\A k \in 1..n : p[k] = b * p[k - 1])
                 /\ \A k \in 0..n : p[k] \in Positive
  BY PowerRun
<1>2. PICK q : Power(b, n + 1) = q[n + 1] /\ q[0] = 1 /\ (\A k \in 1..n + 1 : q[k] = b * q[k - 1])
                 /\ \A k \in 0..n + 1 : q[k] \in Positive
  <2>1. n + 1 \in Nat
    OBVIOUS
  <2>2. QED
    BY <2>1, PowerRun
<1> DEFINE Q == { k \in Nat : k \in 0..n => p[k] = q[k] }
<1>3. 0 \in Q
  BY <1>1, <1>2
<1>4. ASSUME NEW k \in Nat, k \in Q PROVE k + 1 \in Q
  <2>1. CASE k + 1 \in 0..n
    <3>1. k \in 0..n /\ k + 1 \in 1..n /\ k + 1 \in 1..n + 1 /\ (k + 1) - 1 = k
      BY <2>1
    <3>2. p[k] = q[k] /\ p[k + 1] = b * p[k] /\ q[k + 1] = b * q[k]
      BY <1>1, <1>2, <1>4, <3>1
    <3>3. QED
      BY <3>2
  <2>2. QED
    BY <2>1
<1>5. \A k \in Nat : k \in Q
  <2> HIDE DEF Q
  <2>1. QED
    BY <1>3, <1>4, Induct
<1>6. q[n] = p[n] /\ q[n + 1] = b * q[n]
  <2>1. n \in 0..n /\ n + 1 \in 1..n + 1 /\ (n + 1) - 1 = n
    OBVIOUS
  <2>2. QED
    BY <1>2, <1>5, <2>1
<1>7. Power(b, 0) = 1
  <2>1. \E r : Power(b, 0) = r[0] /\ r[0] = 1
    <3>1. 0 \in Nat
      OBVIOUS
    <3>2. QED
      BY <3>1, PowerRun
  <2>2. QED
    BY <2>1
<1>8. p[n] \in Positive
  BY <1>1
<1>9. QED
  BY <1>1, <1>2, <1>6, <1>7, <1>8

LEMMA DivFacts ==
  ASSUME NEW a \in Nat, NEW d \in Positive
  PROVE  /\ a \div d \in Nat /\ a % d \in 0..d-1 /\ a = d * (a \div d) + (a % d)
         /\ (a < d => a \div d = 0) /\ (a \div d = 0 => a < d)
<1>1. a \div d \in Nat /\ a % d \in 0..d-1 /\ a = d * (a \div d) + (a % d)
  BY DEF Positive
<1>2. a < d => a \div d = 0
  BY DEF Positive
<1>3. a \div d = 0 => a < d
  <2> SUFFICES ASSUME a \div d = 0 PROVE a < d
    OBVIOUS
  <2>1. a = d * 0 + (a % d)
    BY <1>1
  <2>2. QED
    BY <1>1, <2>1 DEF Positive
<1>4. QED
  BY <1>1, <1>2, <1>3

\* A quotient is where the number lies.
LEMMA QuotientIs ==
  ASSUME NEW h \in Nat, NEW d \in Positive, NEW k \in Nat, d * k <= h, h < d * k + d
  PROVE  h \div d = k
<1> DEFINE r == h - d * k
<1>1. r \in 0..d-1 /\ h = k * d + r
  BY DEF Positive
<1>2. (k * d + r) \div d = k
  <2> HIDE DEF r
  <2>1. QED
    BY <1>1 DEF Positive
<1>3. QED
  BY <1>1, <1>2

-----------------------------------------------------------------------------
\* A list, whatever its elements are.
IsSequence(s) == s \in Seq({ s[i] : i \in DOMAIN s })

LEMMA AppendedSequence ==
  ASSUME NEW s, IsSequence(s), NEW x
  PROVE  /\ IsSequence(Append(s, x))
         /\ DOMAIN Append(s, x) = DOMAIN s \cup {Len(s) + 1}
         /\ Append(s, x)[Len(s) + 1] = x /\ \A i \in DOMAIN s : Append(s, x)[i] = s[i]
         /\ Len(s) \in Nat /\ DOMAIN s = 1..Len(s)
<1> DEFINE S == { s[i] : i \in DOMAIN s }
           u == Append(s, x)
<1>1. s \in Seq(S)
  BY DEF IsSequence
<1>2. /\ Len(s) \in Nat /\ DOMAIN s = 1..Len(s)
      /\ Len(u) = Len(s) + 1 /\ DOMAIN u = 1..(Len(s) + 1)
      /\ u[Len(s) + 1] = x /\ \A i \in DOMAIN s : u[i] = s[i]
      /\ u = [i \in 1..Len(u) |-> u[i]]
  <2> HIDE DEF S
  <2>1. s \in Seq(S \cup {x}) /\ x \in S \cup {x}
    BY <1>1
  <2>2. /\ Len(s) \in Nat /\ DOMAIN s = 1..Len(s)
        /\ Len(u) = Len(s) + 1 /\ DOMAIN u = 1..(Len(s) + 1)
        /\ u[Len(s) + 1] = x /\ \A i \in DOMAIN s : u[i] = s[i]
        /\ u \in Seq(S \cup {x})
    BY <1>1, <2>1
  <2> HIDE DEF u
  <2>3. u = [i \in 1..Len(u) |-> u[i]]
    BY <2>2
  <2>4. QED
    BY <2>2, <2>3
<1>3. \A i \in DOMAIN u : u[i] \in { u[j] : j \in DOMAIN u }
  OBVIOUS
<1> HIDE DEF S
<1>4. u \in Seq({ u[j] : j \in DOMAIN u })
  <2> DEFINE T == { u[j] : j \in DOMAIN u }
  <2> HIDE DEF T
  <2>1. \A i \in 1..Len(u) : u[i] \in T
    BY <1>2, <1>3 DEF T
  <2>2. u = [i \in 1..Len(u) |-> u[i]] /\ Len(u) \in Nat
    BY <1>2
  <2>3. [i \in 1..Len(u) |-> u[i]] \in Seq(T)
    BY <2>1, <2>2
  <2>4. QED
    BY <2>2, <2>3 DEF T
<1>5. QED
  BY <1>2, <1>4 DEF IsSequence

\* The approvals that a list of signatures stands for.
Approved(s) == [i \in DOMAIN s |-> [by |-> s[i].by, of |-> s[i].over]]

LEMMA ApprovedAppend ==
  ASSUME NEW s, IsSequence(s), NEW b, NEW o
  PROVE  Approved(Append(s, [by |-> b, over |-> o])) = Append(Approved(s), [by |-> b, of |-> o])
<1> DEFINE u == Append(s, [by |-> b, over |-> o])
           A == Approved(s)
           S == { [by |-> s[i].by, of |-> s[i].over] : i \in DOMAIN s }
           v == Append(A, [by |-> b, of |-> o])
<1>1. /\ DOMAIN u = DOMAIN s \cup {Len(s) + 1} /\ u[Len(s) + 1] = [by |-> b, over |-> o]
      /\ \A i \in DOMAIN s : u[i] = s[i]
      /\ Len(s) \in Nat /\ DOMAIN s = 1..Len(s)
  BY AppendedSequence
<1>2. A \in Seq(S) /\ Len(A) = Len(s) /\ \A i \in DOMAIN s : A[i] = [by |-> s[i].by, of |-> s[i].over]
  BY <1>1 DEF Approved
<1> HIDE DEF u, A, S
<1>3. /\ DOMAIN v = 1..(Len(s) + 1) /\ v[Len(s) + 1] = [by |-> b, of |-> o]
      /\ \A i \in 1..Len(s) : v[i] = A[i]
      /\ v = [i \in DOMAIN v |-> v[i]]
  <2>1. A \in Seq(S \cup {[by |-> b, of |-> o]})
    BY <1>2
  <2>2. QED
    BY <1>1, <1>2, <2>1
<1> HIDE DEF v
<1>4. /\ DOMAIN Approved(u) = 1..(Len(s) + 1)
      /\ \A i \in 1..(Len(s) + 1) : Approved(u)[i] = [by |-> u[i].by, of |-> u[i].over]
      /\ Approved(u) = [i \in DOMAIN Approved(u) |-> Approved(u)[i]]
  BY <1>1 DEF Approved
<1>5. \A i \in 1..(Len(s) + 1) : Approved(u)[i] = v[i]
  <2> TAKE i \in 1..(Len(s) + 1)
  <2>1. CASE i = Len(s) + 1
    BY <1>1, <1>3, <1>4, <2>1
  <2>2. CASE i # Len(s) + 1
    <3>1. i \in 1..Len(s)
      BY <1>1, <2>2
    <3>2. QED
      BY <1>1, <1>2, <1>3, <1>4, <3>1
  <2>3. QED
    BY <2>1, <2>2
<1>6. Approved(u) = v
  BY <1>3, <1>4, <1>5
<1>7. QED
  BY <1>6 DEF u, v, A
=============================================================================
