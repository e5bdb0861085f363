--------------------------- MODULE SolanaTxProofs ---------------------------
(***************************************************************************)
(* Proofs about SolanaTx.  First the message it is compiled to, for every  *)
(* payer and sequence of instructions: how accounts are ordered, what the  *)
(* header then says, and where an index leads.  Then the object through    *)
(* its life: what a transaction and the bytes at hand always               *)
(* carry, and from it that the message means what was ordered, that Verify *)
(* and cosigning agree on who has signed, that bytes are read back as what *)
(* they say and that Sign stays inside the slots.                          *)
(***************************************************************************)
EXTENDS SolanaTx, SharedLemmas, SequenceTheorems

(***************************************************************************)
(* The accounts.                                                           *)
(***************************************************************************)
LEMMA RangeFinite ==
  ASSUME NEW D, IsFiniteSet(D), NEW R, NEW f \in [D -> R], \A r \in R : \E x \in D : f[x] = r
  PROVE  IsFiniteSet(R)
<1>1. f \in Surjection(D, R)
  BY DEF Surjection
<1>2. QED
  BY <1>1, FS_Surjection

LEMMA InstructionType ==
  ASSUME NEW ixs \in Seq(Instructions), NEW i \in DOMAIN ixs
  PROVE  /\ ixs[i].prog \in Nat /\ ixs[i].data \in Texts
         /\ ixs[i].accts \in Seq([key : Nat, signer : BOOLEAN, writable : BOOLEAN])
         /\ \A j \in DOMAIN ixs[i].accts : ixs[i].accts[j].key \in Nat /\ ixs[i].accts[j] \in Metas(ixs)
<1>1. ixs[i] \in Instructions
  BY ElementOfSeq
<1>2. /\ ixs[i].prog \in Nat /\ ixs[i].data \in Texts
      /\ ixs[i].accts \in Seq([key : Nat, signer : BOOLEAN, writable : BOOLEAN])
  BY <1>1 DEF Instructions
<1>3. ASSUME NEW j \in DOMAIN ixs[i].accts
      PROVE  ixs[i].accts[j].key \in Nat /\ ixs[i].accts[j] \in Metas(ixs)
  <2>1. j \in 1..Len(ixs[i].accts)
    BY <1>2
  <2>2. ixs[i].accts[j] \in [key : Nat, signer : BOOLEAN, writable : BOOLEAN]
    BY <1>2, <2>1, ElementOfSeq
  <2>3. QED
    BY <2>2 DEF Metas, ToSet
<1>4. QED
  BY <1>2, <1>3

LEMMA MetasFinite ==
  ASSUME NEW ixs \in Seq(Instructions)
  PROVE  IsFiniteSet(Metas(ixs)) /\ \A mt \in Metas(ixs) : mt.key \in Nat
<1> DEFINE accts(i) == ToSet(ixs[i].accts)
           all == { accts(i) : i \in DOMAIN ixs }
<1>1. \A i \in DOMAIN ixs : IsFiniteSet(accts(i))
  <2> TAKE i \in DOMAIN ixs
  <2> DEFINE a == ixs[i].accts
  <2>1. a \in Seq([key : Nat, signer : BOOLEAN, writable : BOOLEAN])
    BY InstructionType
  <2> HIDE DEF a
  <2>2. \A T : a \in Seq(T) => a \in [1..Len(a) -> T] /\ DOMAIN a = 1..Len(a) /\ Len(a) \in Nat
    OBVIOUS
  <2>3. IsFiniteSet(DOMAIN a)
    BY <2>1, <2>2, FS_Interval
  <2>4. a \in [DOMAIN a -> ToSet(a)] /\ \A r \in ToSet(a) : \E j \in DOMAIN a : a[j] = r
    BY <2>1, <2>2 DEF ToSet
  <2>5. IsFiniteSet(ToSet(a))
    BY <2>1, <2>2, <2>3, <2>4, RangeFinite
  <2>6. QED
    BY <2>5 DEF a
<1>2. IsFiniteSet(all)
  <2> DEFINE f == [i \in DOMAIN ixs |-> accts(i)]
  <2>1. IsFiniteSet(DOMAIN ixs)
    BY FS_Interval
  <2>2. f \in [DOMAIN ixs -> all] /\ \A r \in all : \E i \in DOMAIN ixs : f[i] = r
    OBVIOUS
  <2> HIDE DEF f, all
  <2>3. QED
    BY <2>1, <2>2, RangeFinite
<1>3. Metas(ixs) = UNION all
  BY DEF Metas
<1>4. IsFiniteSet(Metas(ixs))
  BY <1>1, <1>2, <1>3, FS_UNION
<1>5. \A mt \in Metas(ixs) : mt.key \in Nat
  BY InstructionType DEF Metas, ToSet
<1>6. QED
  BY <1>4, <1>5

LEMMA SeenFinite ==
  ASSUME NEW payer \in Nat, NEW ixs \in Seq(Instructions)
  PROVE  Seen(payer, ixs) \in SUBSET Nat /\ IsFiniteSet(Seen(payer, ixs))
<1> DEFINE keys == { mt.key : mt \in Metas(ixs) }
           progs == { ixs[i].prog : i \in DOMAIN ixs }
<1>1. IsFiniteSet(keys)
  <2> DEFINE f == [mt \in Metas(ixs) |-> mt.key]
  <2>1. f \in [Metas(ixs) -> keys] /\ \A r \in keys : \E mt \in Metas(ixs) : f[mt] = r
    BY MetasFinite
  <2> HIDE DEF f, keys
  <2>2. QED
    BY <2>1, MetasFinite, RangeFinite
<1>2. IsFiniteSet(progs)
  <2> DEFINE f == [i \in DOMAIN ixs |-> ixs[i].prog]
  <2>1. f \in [DOMAIN ixs -> progs] /\ \A r \in progs : \E i \in DOMAIN ixs : f[i] = r
    BY InstructionType
  <2>2. IsFiniteSet(DOMAIN ixs)
    BY FS_Interval
  <2> HIDE DEF f, progs
  <2>3. QED
    BY <2>1, <2>2, RangeFinite
<1>3. keys \in SUBSET Nat /\ progs \in SUBSET Nat
  BY MetasFinite, InstructionType
<1>4. IsFiniteSet({payer} \cup keys \cup progs)
  BY <1>1, <1>2, FS_Singleton, FS_Union
<1>5. QED
  BY <1>3, <1>4 DEF Seen

\* s is a sequence of n numbers.
Lists(s, n) == s \in Seq(Nat) /\ n \in Nat /\ Len(s) = n

\* g lists the n members of G.
Enumerates(g, n, G) ==
  /\ \A i \in 1..n : g[i] \in G
  /\ \A i, j \in 1..n : g[i] = g[j] => i = j
  /\ \A k \in G : \E i \in 1..n : g[i] = k

LEMMA GroupSpec ==
  ASSUME NEW payer \in Nat, NEW ixs \in Seq(Instructions), NEW sg, NEW wr
  PROVE  LET g == Group(payer, ixs, sg, wr)
         IN  Lists(g, Len(g)) /\ Enumerates(g, Len(g), GroupSet(payer, ixs, sg, wr))
<1> DEFINE G == GroupSet(payer, ixs, sg, wr)
           g == Sorted(G)
<1>1. G \in SUBSET Seen(payer, ixs)
  BY DEF GroupSet
<1>2. G \in SUBSET Nat /\ IsFiniteSet(G)
  BY <1>1, SeenFinite, FS_Subset
<1>3. /\ g \in Seq(G)
      /\ \A i, j \in 1..Len(g) : g[i] = g[j] => i = j
      /\ \A k \in G : \E i \in 1..Len(g) : g[i] = k
  <2> HIDE DEF G
  <2>1. QED
    BY <1>2, SortedSpec
<1> HIDE DEF G, g
<1>4. \A i \in 1..Len(g) : g[i] \in G /\ g[i] \in Nat
  <2> TAKE i \in 1..Len(g)
  <2>1. g[i] \in G
    BY <1>3, ElementOfSeq
  <2>2. QED
    BY <1>2, <2>1
<1>5. g \in Seq(Nat)
  BY <1>3, <1>4, SMTT(30)
<1>6. Lists(g, Len(g)) /\ Enumerates(g, Len(g), G)
  BY <1>3, <1>4, <1>5 DEF Lists, Enumerates
<1>7. QED
  BY <1>6, Zenon DEF G, g, Group

\* u is s, of length n, and then t, of length m.
Joins(s, t, u, n, m) == \A i \in 1..(n + m) : u[i] = IF i <= n THEN s[i] ELSE t[i - n]

LEMMA Concatenated ==
  \A s, t \in Seq(Nat) : \A n, m \in Nat :
     Len(s) = n /\ Len(t) = m =>
        s \o t \in Seq(Nat) /\ Len(s \o t) = n + m /\ Joins(s, t, s \o t, n, m)
  BY SMTT(30) DEF Joins

\* One sequence after another.
Cat(s, t) == s \o t

LEMMA Join ==
  \A s, t, n, m : Lists(s, n) /\ Lists(t, m) =>
     Lists(Cat(s, t), n + m) /\ Joins(s, t, Cat(s, t), n, m)
<1> SUFFICES ASSUME NEW s, NEW t, NEW n, NEW m, Lists(s, n), Lists(t, m)
             PROVE  Lists(Cat(s, t), n + m) /\ Joins(s, t, Cat(s, t), n, m)
  OBVIOUS
<1>1. s \in Seq(Nat) /\ n \in Nat /\ Len(s) = n /\ t \in Seq(Nat) /\ m \in Nat /\ Len(t) = m
  BY DEF Lists
<1>2. n + m \in Nat
  BY <1>1
<1>3. QED
  BY <1>1, <1>2, Concatenated, Zenon DEF Cat, Lists

\* Where place i of <<p>> \o a \o b \o c \o d comes from.
ComesFrom(p, a, b, c, d, na, nb, nc, nd, s, i) ==
  \/ i = 1 /\ s[i] = p
  \/ i > 1 /\ i <= 1 + na /\ i - 1 \in 1..na /\ s[i] = a[i - 1]
  \/ /\ i > 1 + na /\ i <= 1 + na + nb
     /\ i - (1 + na) \in 1..nb /\ s[i] = b[i - (1 + na)]
  \/ /\ i > 1 + na + nb /\ i <= 1 + na + nb + nc
     /\ i - (1 + na + nb) \in 1..nc /\ s[i] = c[i - (1 + na + nb)]
  \/ /\ i > 1 + na + nb + nc
     /\ i - (1 + na + nb + nc) \in 1..nd /\ s[i] = d[i - (1 + na + nb + nc)]

LEMMA Layout ==
  ASSUME NEW na \in Nat, NEW nb \in Nat, NEW nc \in Nat, NEW nd \in Nat,
         NEW a, NEW b, NEW c, NEW d, NEW s0, NEW s1, NEW s2, NEW s3, NEW s4,
         Joins(s0, a, s1, 1, na), Joins(s1, b, s2, 1 + na, nb),
         Joins(s2, c, s3, 1 + na + nb, nc), Joins(s3, d, s4, 1 + na + nb + nc, nd)
  PROVE  \A i \in 1..(1 + na + nb + nc + nd) :
            ComesFrom(s0[1], a, b, c, d, na, nb, nc, nd, s4, i)
<1> SUFFICES ASSUME NEW i \in 1..(1 + na + nb + nc + nd)
             PROVE  ComesFrom(s0[1], a, b, c, d, na, nb, nc, nd, s4, i)
  OBVIOUS
<1>1. i <= 1 + na => s1[i] = IF i <= 1 THEN s0[i] ELSE a[i - 1]
  BY DEF Joins
<1>2. i <= 1 + na + nb => s2[i] = IF i <= 1 + na THEN s1[i] ELSE b[i - (1 + na)]
  BY DEF Joins
<1>3. i <= 1 + na + nb + nc => s3[i] = IF i <= 1 + na + nb THEN s2[i] ELSE c[i - (1 + na + nb)]
  BY DEF Joins
<1>4. s4[i] = IF i <= 1 + na + nb + nc THEN s3[i] ELSE d[i - (1 + na + nb + nc)]
  BY DEF Joins
<1>5. QED
  BY <1>1, <1>2, <1>3, <1>4 DEF ComesFrom

LEMMA FiveParts ==
  ASSUME NEW p \in Nat, NEW a, NEW b, NEW c, NEW d, NEW na, NEW nb, NEW nc, NEW nd,
         Lists(a, na), Lists(b, nb), Lists(c, nc), Lists(d, nd)
  PROVE  LET s == Cat(Cat(Cat(Cat(<<p>>, a), b), c), d)
         IN  /\ Lists(s, 1 + na + nb + nc + nd)
             /\ \A i \in 1..(1 + na + nb + nc + nd) : ComesFrom(p, a, b, c, d, na, nb, nc, nd, s, i)
<1> DEFINE s0 == <<p>>
           s1 == Cat(s0, a)
           s2 == Cat(s1, b)
           s3 == Cat(s2, c)
           s4 == Cat(s3, d)
<1>1. Lists(s0, 1) /\ s0[1] = p
  BY DEF Lists
<1> HIDE DEF s0
<1>2. Lists(s1, 1 + na) /\ Joins(s0, a, s1, 1, na)
  BY <1>1, Join, Zenon
<1> HIDE DEF s1
<1>3. Lists(s2, 1 + na + nb) /\ Joins(s1, b, s2, 1 + na, nb)
  BY <1>2, Join, Zenon
<1> HIDE DEF s2
<1>4. Lists(s3, 1 + na + nb + nc) /\ Joins(s2, c, s3, 1 + na + nb, nc)
  BY <1>3, Join, Zenon
<1> HIDE DEF s3
<1>5. Lists(s4, 1 + na + nb + nc + nd) /\ Joins(s3, d, s4, 1 + na + nb + nc, nd)
  BY <1>4, Join, Zenon
<1> HIDE DEF s4
<1>6. na \in Nat /\ nb \in Nat /\ nc \in Nat /\ nd \in Nat
  BY DEF Lists
<1>7. \A i \in 1..(1 + na + nb + nc + nd) : ComesFrom(s0[1], a, b, c, d, na, nb, nc, nd, s4, i)
  BY <1>2, <1>3, <1>4, <1>5, <1>6, Layout, Zenon
<1>8. s4 = Cat(Cat(Cat(Cat(<<p>>, a), b), c), d)
  BY Zenon DEF s0, s1, s2, s3, s4
<1>9. QED
  BY <1>1, <1>5, <1>7, <1>8, Zenon

LEMMA EnumeratedOnce ==
  \A g, n, G, x, y : Enumerates(g, n, G) /\ x \in 1..n /\ y \in 1..n /\ g[x] = g[y] => x = y
  BY Zenon DEF Enumerates

\* The payer and the four groups, one after another: the signers S first, in each
\* half the writable W first, and every member of all once.
Grouped(p, all, S, W, a, b, c, d, na, nb, nc, nd, s) ==
  /\ na \in Nat /\ nb \in Nat /\ nc \in Nat /\ nd \in Nat
  /\ p \in all \cap S \cap W
  /\ Enumerates(a, na, ((all \ {p}) \cap S) \cap W)
  /\ Enumerates(b, nb, ((all \ {p}) \cap S) \ W)
  /\ Enumerates(c, nc, ((all \ {p}) \ S) \cap W)
  /\ Enumerates(d, nd, ((all \ {p}) \ S) \ W)
  /\ \A i \in 1..(1 + na + nb + nc + nd) : ComesFrom(p, a, b, c, d, na, nb, nc, nd, s, i)

LaidOut(p, all, S, W, na, nb, nc, nd, s) ==
  /\ s[1] = p
  /\ \A i \in 1..(1 + na + nb + nc + nd) :
        /\ s[i] \in all
        /\ s[i] = p <=> i = 1
        /\ s[i] \in S <=> i <= 1 + na + nb
        /\ s[i] \in W <=> i <= 1 + na \/ (i > 1 + na + nb /\ i <= 1 + na + nb + nc)
  /\ \A i, j \in 1..(1 + na + nb + nc + nd) : s[i] = s[j] => i = j
  /\ \A k \in all : \E i \in 1..(1 + na + nb + nc + nd) : s[i] = k

LEMMA FourGroups ==
  \A p, all, S, W, a, b, c, d, na, nb, nc, nd, s :
     Grouped(p, all, S, W, a, b, c, d, na, nb, nc, nd, s) =>
        LaidOut(p, all, S, W, na, nb, nc, nd, s)
<1> SUFFICES ASSUME NEW p, NEW all, NEW S, NEW W, NEW a, NEW b, NEW c, NEW d,
                    NEW na \in Nat, NEW nb \in Nat, NEW nc \in Nat, NEW nd \in Nat, NEW s,
                    p \in all \cap S \cap W,
                    Enumerates(a, na, ((all \ {p}) \cap S) \cap W),
                    Enumerates(b, nb, ((all \ {p}) \cap S) \ W),
                    Enumerates(c, nc, ((all \ {p}) \ S) \cap W),
                    Enumerates(d, nd, ((all \ {p}) \ S) \ W),
                    \A i \in 1..(1 + na + nb + nc + nd) :
                       ComesFrom(p, a, b, c, d, na, nb, nc, nd, s, i)
             PROVE  LaidOut(p, all, S, W, na, nb, nc, nd, s)
  BY DEF Grouped
<1> DEFINE n == 1 + na + nb + nc + nd
<1>1. ASSUME NEW i \in 1..n
      PROVE  /\ s[i] \in all
             /\ s[i] = p <=> i = 1
             /\ s[i] \in S <=> i <= 1 + na + nb
             /\ s[i] \in W <=> i <= 1 + na \/ (i > 1 + na + nb /\ i <= 1 + na + nb + nc)
  <2>1. CASE i = 1 /\ s[i] = p
    BY <2>1
  <2>2. CASE i > 1 /\ i <= 1 + na /\ i - 1 \in 1..na /\ s[i] = a[i - 1]
    BY <2>2 DEF Enumerates
  <2>3. CASE /\ i > 1 + na /\ i <= 1 + na + nb
             /\ i - (1 + na) \in 1..nb /\ s[i] = b[i - (1 + na)]
    BY <2>3 DEF Enumerates
  <2>4. CASE /\ i > 1 + na + nb /\ i <= 1 + na + nb + nc
             /\ i - (1 + na + nb) \in 1..nc /\ s[i] = c[i - (1 + na + nb)]
    BY <2>4 DEF Enumerates
  <2>5. CASE /\ i > 1 + na + nb + nc
             /\ i - (1 + na + nb + nc) \in 1..nd /\ s[i] = d[i - (1 + na + nb + nc)]
    BY <2>5 DEF Enumerates
  <2>6. QED
    BY <2>1, <2>2, <2>3, <2>4, <2>5 DEF ComesFrom
<1>2. s[1] = p
  BY <1>1
<1>3. ASSUME NEW i \in 1..n, NEW j \in 1..n, s[i] = s[j] PROVE i = j
  <2>1. /\ i = 1 <=> j = 1
        /\ i <= 1 + na + nb <=> j <= 1 + na + nb
        /\ i <= 1 + na \/ (i > 1 + na + nb /\ i <= 1 + na + nb + nc) <=>
           j <= 1 + na \/ (j > 1 + na + nb /\ j <= 1 + na + nb + nc)
    BY <1>1, <1>3
  <2>2. ComesFrom(p, a, b, c, d, na, nb, nc, nd, s, i) /\ ComesFrom(p, a, b, c, d, na, nb, nc, nd, s, j)
    OBVIOUS
  <2>3. CASE i > 1 /\ i <= 1 + na
    <3>1. i - 1 \in 1..na /\ s[i] = a[i - 1] /\ j - 1 \in 1..na /\ s[j] = a[j - 1]
      BY <2>1, <2>2, <2>3 DEF ComesFrom
    <3>2. a[i - 1] = a[j - 1]
      BY <1>3, <3>1, Zenon
    <3>3. i - 1 = j - 1
      BY <3>1, <3>2, EnumeratedOnce, Zenon
    <3>4. QED
      BY <3>3
  <2>4. CASE i > 1 + na /\ i <= 1 + na + nb
    <3>1. /\ i - (1 + na) \in 1..nb /\ s[i] = b[i - (1 + na)]
          /\ j - (1 + na) \in 1..nb /\ s[j] = b[j - (1 + na)]
      BY <2>1, <2>2, <2>4 DEF ComesFrom
    <3>2. b[i - (1 + na)] = b[j - (1 + na)]
      BY <1>3, <3>1, Zenon
    <3>3. i - (1 + na) = j - (1 + na)
      BY <3>1, <3>2, EnumeratedOnce, Zenon
    <3>4. QED
      BY <3>3
  <2>5. CASE i > 1 + na + nb /\ i <= 1 + na + nb + nc
    <3>1. /\ i - (1 + na + nb) \in 1..nc /\ s[i] = c[i - (1 + na + nb)]
          /\ j - (1 + na + nb) \in 1..nc /\ s[j] = c[j - (1 + na + nb)]
      BY <2>1, <2>2, <2>5 DEF ComesFrom
    <3>2. c[i - (1 + na + nb)] = c[j - (1 + na + nb)]
      BY <1>3, <3>1, Zenon
    <3>3. i - (1 + na + nb) = j - (1 + na + nb)
      BY <3>1, <3>2, EnumeratedOnce, Zenon
    <3>4. QED
      BY <3>3
  <2>6. CASE i > 1 + na + nb + nc
    <3>1. /\ i - (1 + na + nb + nc) \in 1..nd /\ s[i] = d[i - (1 + na + nb + nc)]
          /\ j - (1 + na + nb + nc) \in 1..nd /\ s[j] = d[j - (1 + na + nb + nc)]
      BY <2>1, <2>2, <2>6 DEF ComesFrom
    <3>2. d[i - (1 + na + nb + nc)] = d[j - (1 + na + nb + nc)]
      BY <1>3, <3>1, Zenon
    <3>3. i - (1 + na + nb + nc) = j - (1 + na + nb + nc)
      BY <3>1, <3>2, EnumeratedOnce, Zenon
    <3>4. QED
      BY <3>3
  <2>7. QED
    BY <2>1, <2>3, <2>4, <2>5, <2>6
<1>4. ASSUME NEW k \in all PROVE \E i \in 1..n : s[i] = k
  <2>1. CASE k = p
    BY <1>2, <2>1
  <2>2. CASE k # p /\ k \in S /\ k \in W
    <3>1. PICK x \in 1..na : a[x] = k
      BY <2>2 DEF Enumerates
    <3>2. x + 1 \in 1..n /\ x + 1 > 1 /\ x + 1 <= 1 + na /\ (x + 1) - 1 = x
      OBVIOUS
    <3>3. s[x + 1] = a[x]
      BY <3>2 DEF ComesFrom
    <3>4. QED
      BY <3>1, <3>2, <3>3
  <2>3. CASE k # p /\ k \in S /\ k \notin W
    <3>1. PICK x \in 1..nb : b[x] = k
      BY <2>3 DEF Enumerates
    <3> DEFINE y == x + (1 + na)
    <3>2. y \in 1..n /\ y > 1 + na /\ y <= 1 + na + nb /\ y - (1 + na) = x
      OBVIOUS
    <3>3. s[y] = b[x]
      <4> HIDE DEF y
      <4>1. QED
        BY <3>2 DEF ComesFrom
    <3>4. QED
      BY <3>1, <3>2, <3>3
  <2>4. CASE k # p /\ k \notin S /\ k \in W
    <3>1. PICK x \in 1..nc : c[x] = k
      BY <2>4 DEF Enumerates
    <3> DEFINE y == x + (1 + na + nb)
    <3>2. y \in 1..n /\ y > 1 + na + nb /\ y <= 1 + na + nb + nc /\ y - (1 + na + nb) = x
      OBVIOUS
    <3>3. s[y] = c[x]
      <4> HIDE DEF y
      <4>1. QED
        BY <3>2 DEF ComesFrom
    <3>4. QED
      BY <3>1, <3>2, <3>3
  <2>5. CASE k # p /\ k \notin S /\ k \notin W
    <3>1. PICK x \in 1..nd : d[x] = k
      BY <2>5 DEF Enumerates
    <3> DEFINE y == x + (1 + na + nb + nc)
    <3>2. y \in 1..n /\ y > 1 + na + nb + nc /\ y - (1 + na + nb + nc) = x
      OBVIOUS
    <3>3. s[y] = d[x]
      <4> HIDE DEF y
      <4>1. QED
        BY <3>2 DEF ComesFrom
    <3>4. QED
      BY <3>1, <3>2, <3>3
  <2>6. QED
    BY <2>1, <2>2, <2>3, <2>4, <2>5
<1>5. QED
  BY <1>1, <1>2, <1>3, <1>4, Zenon DEF LaidOut

\* The accounts of a message: the payer first, the signers before the others, in
\* each half the writable ones first, and every account seen once.
AccountsLaidOut(payer, ixs, keys, tt, tf, ft, ff) ==
  LET n == 1 + tt + tf + ft + ff
  IN  /\ tt \in Nat /\ tf \in Nat /\ ft \in Nat /\ ff \in Nat
      /\ Lists(keys, n)
      /\ keys[1] = payer
      /\ \A i \in 1..n :
            /\ keys[i] \in Seen(payer, ixs)
            /\ keys[i] = payer <=> i = 1
            /\ IsSigner(payer, ixs, keys[i]) <=> i <= 1 + tt + tf
            /\ IsWritable(payer, ixs, keys[i]) <=>
                  i <= 1 + tt \/ (i > 1 + tt + tf /\ i <= 1 + tt + tf + ft)
      /\ \A i, j \in 1..n : keys[i] = keys[j] => i = j
      /\ \A k \in Seen(payer, ixs) : \E i \in 1..n : keys[i] = k

LEMMA AccountsSpec ==
  ASSUME NEW payer \in Nat, NEW ixs \in Seq(Instructions)
  PROVE  AccountsLaidOut(payer, ixs, AllAccounts(payer, ixs),
                         Len(Group(payer, ixs, TRUE, TRUE)), Len(Group(payer, ixs, TRUE, FALSE)),
                         Len(Group(payer, ixs, FALSE, TRUE)), Len(Group(payer, ixs, FALSE, FALSE)))
<1> DEFINE a == Group(payer, ixs, TRUE, TRUE)
           b == Group(payer, ixs, TRUE, FALSE)
           c == Group(payer, ixs, FALSE, TRUE)
           d == Group(payer, ixs, FALSE, FALSE)
           all == Seen(payer, ixs)
           S == { k \in all : IsSigner(payer, ixs, k) }
           W == { k \in all : IsWritable(payer, ixs, k) }
           keys == AllAccounts(payer, ixs)
<1>1. Lists(a, Len(a)) /\ Enumerates(a, Len(a), GroupSet(payer, ixs, TRUE, TRUE))
  BY GroupSpec, Zenon
<1>2. Lists(b, Len(b)) /\ Enumerates(b, Len(b), GroupSet(payer, ixs, TRUE, FALSE))
  BY GroupSpec, Zenon
<1>3. Lists(c, Len(c)) /\ Enumerates(c, Len(c), GroupSet(payer, ixs, FALSE, TRUE))
  BY GroupSpec, Zenon
<1>4. Lists(d, Len(d)) /\ Enumerates(d, Len(d), GroupSet(payer, ixs, FALSE, FALSE))
  BY GroupSpec, Zenon
<1>5. /\ GroupSet(payer, ixs, TRUE, TRUE)   = ((all \ {payer}) \cap S) \cap W
      /\ GroupSet(payer, ixs, TRUE, FALSE)  = ((all \ {payer}) \cap S) \ W
      /\ GroupSet(payer, ixs, FALSE, TRUE)  = ((all \ {payer}) \ S) \cap W
      /\ GroupSet(payer, ixs, FALSE, FALSE) = ((all \ {payer}) \ S) \ W
  BY DEF GroupSet
<1>6. payer \in all \cap S \cap W
  BY DEF Seen, IsSigner, IsWritable
<1>7. keys = Cat(Cat(Cat(Cat(<<payer>>, a), b), c), d)
  BY Zenon DEF AllAccounts, Cat
<1> DEFINE na == Len(a) nb == Len(b) nc == Len(c) nd == Len(d)
<1> HIDE DEF a, b, c, d, keys
<1>8. na \in Nat /\ nb \in Nat /\ nc \in Nat /\ nd \in Nat
  BY <1>1, <1>2, <1>3, <1>4, Zenon DEF Lists
<1> HIDE DEF na, nb, nc, nd
<1>9. /\ Lists(keys, 1 + na + nb + nc + nd)
      /\ \A i \in 1..(1 + na + nb + nc + nd) : ComesFrom(payer, a, b, c, d, na, nb, nc, nd, keys, i)
  BY <1>1, <1>2, <1>3, <1>4, <1>7, FiveParts, Zenon DEF na, nb, nc, nd
<1>10. /\ Enumerates(a, na, ((all \ {payer}) \cap S) \cap W)
       /\ Enumerates(b, nb, ((all \ {payer}) \cap S) \ W)
       /\ Enumerates(c, nc, ((all \ {payer}) \ S) \cap W)
       /\ Enumerates(d, nd, ((all \ {payer}) \ S) \ W)
  BY <1>1, <1>2, <1>3, <1>4, <1>5, Zenon DEF na, nb, nc, nd
<1> HIDE DEF all, S, W
<1>11. Grouped(payer, all, S, W, a, b, c, d, na, nb, nc, nd, keys)
  BY <1>6, <1>8, <1>9, <1>10, Zenon DEF Grouped
<1>12. LaidOut(payer, all, S, W, na, nb, nc, nd, keys)
  BY <1>11, FourGroups, Zenon
<1>13. AccountsLaidOut(payer, ixs, keys, na, nb, nc, nd)
  BY <1>8, <1>9, <1>12 DEF AccountsLaidOut, LaidOut, all, S, W
<1>14. QED
  BY <1>13, Zenon DEF keys, na, nb, nc, nd, a, b, c, d

-----------------------------------------------------------------------------
(***************************************************************************)
(* Indexes.                                                                *)
(***************************************************************************)
\* The first place of k in s, 0 when there is none.
FirstOf(s, k) == SelectInSeq(s, LAMBDA x : x = k)

LEMMA FirstOfSpec ==
  ASSUME NEW s \in Seq(Nat), NEW k
  PROVE  IF \E i \in 1..Len(s) : s[i] = k
         THEN /\ FirstOf(s, k) \in 1..Len(s) /\ s[FirstOf(s, k)] = k
              /\ \A i \in 1..Len(s) : s[i] = k => FirstOf(s, k) <= i
         ELSE FirstOf(s, k) = 0
<1> DEFINE I == { i \in 1..Len(s) : s[i] = k }
<1>1. FirstOf(s, k) = IF I # {} THEN Min(I) ELSE 0
  BY DEF FirstOf, SelectInSeq
<1>2. I \in SUBSET Nat
  OBVIOUS
<1>3. CASE I = {}
  BY <1>1, <1>3
<1>4. CASE I # {}
  <2>1. Min(I) \in I /\ \A y \in I : Min(I) <= y
    <3> HIDE DEF I
    <3>1. QED
      BY <1>2, <1>4, LeastNat
  <2>2. QED
    BY <1>1, <1>4, <2>1
<1>5. QED
  BY <1>3, <1>4

LEMMA FirstOfFound ==
  \A s \in Seq(Nat) : \A k : \A i \in 1..Len(s) : s[i] = k =>
     FirstOf(s, k) \in 1..Len(s) /\ s[FirstOf(s, k)] = k /\ FirstOf(s, k) <= i
<1> SUFFICES ASSUME NEW s \in Seq(Nat), NEW k, NEW i \in 1..Len(s), s[i] = k
             PROVE  FirstOf(s, k) \in 1..Len(s) /\ s[FirstOf(s, k)] = k /\ FirstOf(s, k) <= i
  OBVIOUS
<1> HIDE DEF FirstOf
<1>1. \E x \in 1..Len(s) : s[x] = k
  OBVIOUS
<1>2. QED
  BY <1>1, FirstOfSpec

LEMMA FirstOfOnly ==
  ASSUME NEW s \in Seq(Nat), NEW i \in 1..Len(s),
         \A x, y \in 1..Len(s) : s[x] = s[y] => x = y
  PROVE  FirstOf(s, s[i]) = i
<1>1. FirstOf(s, s[i]) \in 1..Len(s) /\ s[FirstOf(s, s[i])] = s[i]
  BY FirstOfSpec
<1>2. QED
  BY <1>1, Zenon

LEMMA IndexOfSpec ==
  ASSUME NEW s \in Seq(Nat), NEW k, \E i \in 1..Len(s) : s[i] = k
  PROVE  IndexOf(s, k) \in 0..(Len(s) - 1) /\ s[IndexOf(s, k) + 1] = k
<1>1. FirstOf(s, k) \in 1..Len(s) /\ s[FirstOf(s, k)] = k
  BY FirstOfSpec
<1>2. IndexOf(s, k) = FirstOf(s, k) - 1
  BY DEF IndexOf, FirstOf
<1> HIDE DEF FirstOf
<1>3. QED
  BY <1>1, <1>2

LEMMA SmallMod == \A n, b \in Nat : n < b => n % b = n
  OBVIOUS

-----------------------------------------------------------------------------
(***************************************************************************)
(* The compiled message.                                                   *)
(***************************************************************************)
\* The fields of a compiled message, the counts no longer reduced.
Fields(m, payer, hash, lookups, ixs) ==
  LET tt == Len(Group(payer, ixs, TRUE, TRUE))
      tf == Len(Group(payer, ixs, TRUE, FALSE))
      ft == Len(Group(payer, ixs, FALSE, TRUE))
      ff == Len(Group(payer, ixs, FALSE, FALSE))
  IN  /\ AccountsLaidOut(payer, ixs, m.keys, tt, tf, ft, ff)
      /\ m.req = 1 + tt + tf /\ m.ros = tf /\ m.rou = ff
      /\ m.req = NumSigners(payer, ixs)
      /\ m.hash = hash /\ m.lookups = lookups
      /\ m.ixs = [i \in DOMAIN ixs |-> CompiledInstruction(m.keys, ixs[i])]

LEMMA CompiledFields ==
  ASSUME NEW payer \in Nat, NEW ixs \in Seq(Instructions), NEW hash, NEW lookups,
         NumSigners(payer, ixs) < Byte, ~ TooManyAccounts(payer, ixs)
  PROVE  Fields(Compiled(payer, hash, lookups, ixs), payer, hash, lookups, ixs)
<1> DEFINE tt == Len(Group(payer, ixs, TRUE, TRUE))
           tf == Len(Group(payer, ixs, TRUE, FALSE))
           ft == Len(Group(payer, ixs, FALSE, TRUE))
           ff == Len(Group(payer, ixs, FALSE, FALSE))
           keys == AllAccounts(payer, ixs)
           m == Compiled(payer, hash, lookups, ixs)
<1>1. AccountsLaidOut(payer, ixs, keys, tt, tf, ft, ff)
  BY AccountsSpec, Zenon
<1>2. /\ m.req = NumSigners(payer, ixs) % Byte /\ m.ros = tf % Byte /\ m.rou = ff % Byte
      /\ m.keys = keys /\ m.hash = hash /\ m.lookups = lookups
      /\ m.ixs = [i \in DOMAIN ixs |-> CompiledInstruction(keys, ixs[i])]
  BY DEF Compiled
<1>3. NumSigners(payer, ixs) = 1 + tt + tf
  BY DEF NumSigners
<1>4. ~ (Len(keys) > Byte)
  BY DEF TooManyAccounts
<1> HIDE DEF tt, tf, ft, ff, keys, m
<1>5. tt \in Nat /\ tf \in Nat /\ ft \in Nat /\ ff \in Nat /\ Len(keys) = 1 + tt + tf + ft + ff
  BY <1>1 DEF AccountsLaidOut, Lists
<1>6. Byte \in Nat
  BY ByteAssumption
<1>7. /\ 1 + tt + tf \in Nat /\ 1 + tt + tf < Byte
      /\ tf < Byte /\ ff < Byte
  BY <1>3, <1>4, <1>5, <1>6
<1>8. m.req = 1 + tt + tf /\ m.ros = tf /\ m.rou = ff
  BY <1>2, <1>3, <1>5, <1>6, <1>7, SmallMod
<1>9. QED
  BY <1>1, <1>2, <1>3, <1>8, Zenon DEF Fields, tt, tf, ft, ff, keys, m

\* The metas of an instruction and its program are seen.
LEMMA InstructionSeen ==
  ASSUME NEW payer \in Nat, NEW ixs \in Seq(Instructions), NEW i \in DOMAIN ixs
  PROVE  /\ ixs[i].prog \in Seen(payer, ixs)
         /\ \A j \in DOMAIN ixs[i].accts :
               /\ ixs[i].accts[j] \in Metas(ixs)
               /\ ixs[i].accts[j].key \in Seen(payer, ixs)
<1>1. ixs[i].prog \in Seen(payer, ixs)
  BY DEF Seen
<1>2. ASSUME NEW j \in DOMAIN ixs[i].accts PROVE ixs[i].accts[j] \in Metas(ixs)
  BY DEF Metas, ToSet
<1>3. QED
  BY <1>1, <1>2 DEF Seen

\* Every index of the compiled instruction c is the place in keys, less one, of
\* what ix names.
PointsTo(c, ix, keys) ==
  /\ c \in CompiledIxs
  /\ c.prog \in 0..(Len(keys) - 1) /\ keys[c.prog + 1] = ix.prog
  /\ DOMAIN c.accts = DOMAIN ix.accts
  /\ \A j \in DOMAIN ix.accts :
        c.accts[j] \in 0..(Len(keys) - 1) /\ keys[c.accts[j] + 1] = ix.accts[j].key

LEMMA CompiledIndexes ==
  ASSUME NEW payer \in Nat, NEW ixs \in Seq(Instructions), NEW keys \in Seq(Nat),
         \A k \in Seen(payer, ixs) : \E x \in 1..Len(keys) : keys[x] = k,
         NEW i \in DOMAIN ixs
  PROVE  PointsTo(CompiledInstruction(keys, ixs[i]), ixs[i], keys)
<1> DEFINE ix == ixs[i]
           c == CompiledInstruction(keys, ix)
<1>1. /\ ix.accts \in Seq([key : Nat, signer : BOOLEAN, writable : BOOLEAN])
      /\ ix.data \in Texts
  BY InstructionType DEF Instructions
<1>2. /\ ix.prog \in Seen(payer, ixs)
      /\ \A j \in DOMAIN ix.accts : ix.accts[j].key \in Seen(payer, ixs)
  BY InstructionSeen
<1>3. /\ c.prog = IndexOf(keys, ix.prog) /\ c.data = ix.data
      /\ c.accts = [j \in DOMAIN ix.accts |-> IndexOf(keys, ix.accts[j].key)]
      /\ c = [prog |-> c.prog, accts |-> c.accts, data |-> c.data]
  BY DEF CompiledInstruction
<1> HIDE DEF ix, c
<1>4. \A k \in Seen(payer, ixs) : IndexOf(keys, k) \in 0..(Len(keys) - 1) /\ keys[IndexOf(keys, k) + 1] = k
  BY IndexOfSpec
<1>5. c.prog \in 0..(Len(keys) - 1) /\ keys[c.prog + 1] = ix.prog
  BY <1>2, <1>3, <1>4, Zenon
<1>6. DOMAIN c.accts = DOMAIN ix.accts
  BY <1>3
<1>7. \A j \in DOMAIN ix.accts :
         c.accts[j] \in 0..(Len(keys) - 1) /\ keys[c.accts[j] + 1] = ix.accts[j].key
  <2> TAKE j \in DOMAIN ix.accts
  <2>1. c.accts[j] = IndexOf(keys, ix.accts[j].key)
    BY <1>3
  <2>2. QED
    BY <1>2, <1>4, <2>1, Zenon
<1>8. 0..(Len(keys) - 1) \subseteq Nat
  OBVIOUS
<1>9. DOMAIN ix.accts = 1..Len(ix.accts) /\ Len(ix.accts) \in Nat
  BY <1>1
<1>10. c.accts \in Seq(Nat)
  <2>1. \A j \in 1..Len(ix.accts) : IndexOf(keys, ix.accts[j].key) \in Nat
    BY <1>2, <1>4, <1>8, <1>9, Zenon
  <2>2. c.accts = [j \in 1..Len(ix.accts) |-> IndexOf(keys, ix.accts[j].key)]
    BY <1>3, <1>9, Zenon
  <2>3. QED
    BY <1>9, <2>1, <2>2
<1>11. c \in CompiledIxs
  BY <1>1, <1>3, <1>5, <1>8, <1>10 DEF CompiledIxs
<1>12. QED
  BY <1>5, <1>6, <1>7, <1>11, Zenon DEF PointsTo, ix, c

\* Every account seen has one place, which signs and writes as the account does.
Ranked(m, payer, ixs) ==
  /\ m.keys \in Seq(Nat) /\ m.keys[1] = payer /\ 1 \in 1..Len(m.keys)
  /\ HeaderOK(m) /\ m.req \in 1..Len(m.keys) /\ m.ros \in Nat /\ m.rou \in Nat
  /\ \A i, j \in 1..Len(m.keys) : m.keys[i] = m.keys[j] => i = j
  /\ \A k \in Seen(payer, ixs) : \E i \in 1..Len(m.keys) : m.keys[i] = k
  /\ \A i \in 1..Len(m.keys) :
        /\ m.keys[i] \in Seen(payer, ixs)
        /\ m.keys[i] = payer <=> i = 1
        /\ Signs(m, i) <=> IsSigner(payer, ixs, m.keys[i])
        /\ Writes(m, i) <=> IsWritable(payer, ixs, m.keys[i])

LEMMA CompiledRights ==
  ASSUME NEW payer \in Nat, NEW ixs \in Seq(Instructions), NEW hash, NEW lookups,
         NumSigners(payer, ixs) < Byte, ~ TooManyAccounts(payer, ixs)
  PROVE  Ranked(Compiled(payer, hash, lookups, ixs), payer, ixs)
<1> DEFINE tt == Len(Group(payer, ixs, TRUE, TRUE))
           tf == Len(Group(payer, ixs, TRUE, FALSE))
           ft == Len(Group(payer, ixs, FALSE, TRUE))
           ff == Len(Group(payer, ixs, FALSE, FALSE))
           m  == Compiled(payer, hash, lookups, ixs)
           keys == m.keys
<1>0. Fields(m, payer, hash, lookups, ixs)
  BY CompiledFields, Zenon
<1>1. /\ AccountsLaidOut(payer, ixs, keys, tt, tf, ft, ff)
      /\ m.req = 1 + tt + tf /\ m.ros = tf /\ m.rou = ff
  BY <1>0 DEF Fields
<1> HIDE DEF tt, tf, ft, ff, m
<1>2. /\ tt \in Nat /\ tf \in Nat /\ ft \in Nat /\ ff \in Nat
      /\ keys \in Seq(Nat) /\ Len(keys) = 1 + tt + tf + ft + ff /\ keys[1] = payer
  BY <1>1 DEF AccountsLaidOut, Lists
<1>3. \A i \in 1..Len(keys) :
            /\ keys[i] \in Seen(payer, ixs)
            /\ keys[i] = payer <=> i = 1
            /\ IsSigner(payer, ixs, keys[i]) <=> i <= 1 + tt + tf
            /\ IsWritable(payer, ixs, keys[i]) <=>
                  i <= 1 + tt \/ (i > 1 + tt + tf /\ i <= 1 + tt + tf + ft)
  BY <1>1, <1>2, Zenon DEF AccountsLaidOut
<1>4. /\ \A i, j \in 1..Len(keys) : keys[i] = keys[j] => i = j
      /\ \A k \in Seen(payer, ixs) : \E i \in 1..Len(keys) : keys[i] = k
  BY <1>1, <1>2, Zenon DEF AccountsLaidOut
<1> DEFINE n == Len(keys)
<1> HIDE DEF keys
<1>5. /\ HeaderOK(m) /\ m.req \in 1..n /\ m.ros \in Nat /\ m.rou \in Nat /\ 1 \in 1..n
  BY <1>1, <1>2 DEF HeaderOK, keys
<1>6. ASSUME NEW i \in 1..n
      PROVE  /\ Signs(m, i) <=> i <= 1 + tt + tf
             /\ Writes(m, i) <=> i <= 1 + tt \/ (i > 1 + tt + tf /\ i <= 1 + tt + tf + ft)
  <2>1. i \in Nat /\ m.req = 1 + tt + tf /\ m.req - m.ros = 1 + tt /\ Len(m.keys) - m.rou = 1 + tt + tf + ft
    BY <1>1, <1>2 DEF keys
  <2>2. QED
    BY <2>1, Zenon DEF Signs, Writes
<1>7. QED
  BY <1>2, <1>3, <1>4, <1>5, <1>6, Zenon DEF keys, m, Ranked

LEMMA CompiledSays ==
  ASSUME NEW payer \in Nat, NEW ixs \in Seq(Instructions), NEW hash, NEW lookups,
         NumSigners(payer, ixs) < Byte, ~ TooManyAccounts(payer, ixs)
  PROVE  Says(Compiled(payer, hash, lookups, ixs), payer, ixs)
<1> DEFINE m == Compiled(payer, hash, lookups, ixs)
<1>1. m.ixs = [i \in DOMAIN ixs |-> CompiledInstruction(m.keys, ixs[i])]
  <2>1. Fields(m, payer, hash, lookups, ixs)
    BY CompiledFields, Zenon
  <2>2. QED
    BY <2>1 DEF Fields
<1>0. Ranked(m, payer, ixs)
  BY CompiledRights, Zenon
<1>2. /\ m.keys \in Seq(Nat) /\ m.keys[1] = payer /\ 1 \in 1..Len(m.keys)
      /\ \A i, j \in 1..Len(m.keys) : m.keys[i] = m.keys[j] => i = j
      /\ \A k \in Seen(payer, ixs) : \E i \in 1..Len(m.keys) : m.keys[i] = k
  BY <1>0, Zenon DEF Ranked
<1>3. \A i \in 1..Len(m.keys) :
         /\ m.keys[i] = payer <=> i = 1
         /\ Signs(m, i) <=> IsSigner(payer, ixs, m.keys[i])
         /\ Writes(m, i) <=> IsWritable(payer, ixs, m.keys[i])
  BY <1>0, Zenon DEF Ranked
<1> HIDE DEF m
<1>4. DOMAIN m.keys = 1..Len(m.keys)
  BY <1>2
<1>5. IsSigner(payer, ixs, payer) /\ IsWritable(payer, ixs, payer)
  BY DEF IsSigner, IsWritable
<1>6. Signs(m, 1) /\ Writes(m, 1)
  BY <1>2, <1>3, <1>5, Zenon
<1>7. Len(m.ixs) = Len(ixs) /\ DOMAIN m.ixs = DOMAIN ixs
  BY <1>1
<1>8. ASSUME NEW i \in DOMAIN ixs
      PROVE  /\ m.keys[m.ixs[i].prog + 1] = ixs[i].prog
             /\ \A j \in DOMAIN m.ixs[i].accts :
                   LET at == m.ixs[i].accts[j] + 1
                       mt == ixs[i].accts[j]
                   IN  /\ m.keys[at] = mt.key
                       /\ mt.signer => Signs(m, at)
                       /\ mt.writable => Writes(m, at)
  <2> DEFINE c == CompiledInstruction(m.keys, ixs[i])
  <2>1. m.ixs[i] = c
    BY <1>1
  <2>2. /\ m.keys[c.prog + 1] = ixs[i].prog
        /\ DOMAIN c.accts = DOMAIN ixs[i].accts
        /\ \A j \in DOMAIN ixs[i].accts :
              /\ c.accts[j] \in 0..(Len(m.keys) - 1)
              /\ m.keys[c.accts[j] + 1] = ixs[i].accts[j].key
    <3>1. PointsTo(c, ixs[i], m.keys)
      BY <1>2, CompiledIndexes, Zenon
    <3>2. QED
      BY <3>1, Zenon DEF PointsTo
  <2> HIDE DEF c
  <2>3. ASSUME NEW j \in DOMAIN ixs[i].accts
        PROVE  LET at == c.accts[j] + 1
                   mt == ixs[i].accts[j]
               IN  /\ m.keys[at] = mt.key
                   /\ mt.signer => Signs(m, at)
                   /\ mt.writable => Writes(m, at)
    <3> DEFINE at == c.accts[j] + 1
               mt == ixs[i].accts[j]
    <3>1. at \in 1..Len(m.keys)
      BY <1>2, <2>2, SMTT(30)
    <3>2. m.keys[at] = mt.key
      BY <2>2, Zenon
    <3>3. mt \in Metas(ixs)
      BY InstructionSeen
    <3> HIDE DEF at, mt
    <3>4. /\ mt.signer => IsSigner(payer, ixs, mt.key)
          /\ mt.writable => IsWritable(payer, ixs, mt.key)
      BY <3>3, Zenon DEF IsSigner, IsWritable
    <3>5. QED
      BY <1>3, <3>1, <3>2, <3>4, Zenon DEF at, mt
  <2>4. QED
    BY <2>1, <2>2, <2>3, Zenon
<1>9. ASSUME NEW at \in 2..Len(m.keys)
      PROVE  /\ Signs(m, at) => \E mt \in Metas(ixs) : mt.key = m.keys[at] /\ mt.signer
             /\ Writes(m, at) => \E mt \in Metas(ixs) : mt.key = m.keys[at] /\ mt.writable
  <2>1. at \in 1..Len(m.keys) /\ at # 1
    BY <1>2
  <2>2. m.keys[at] # payer
    BY <1>3, <2>1, Zenon
  <2>3. QED
    BY <1>3, <2>1, <2>2, Zenon DEF IsSigner, IsWritable
<1>10. QED
  BY <1>2, <1>4, <1>6, <1>7, <1>8, <1>9, Zenon DEF Says, m

LEMMA LoadedFinite ==
  ASSUME NEW m, m.lookups \in Seq(Lookups)
  PROVE  Cardinality(Loaded(m)) \in Nat
<1> DEFINE part(l) == {l} \X (1 .. Len(m.lookups[l].writable) + Len(m.lookups[l].readonly))
           all == { part(l) : l \in DOMAIN m.lookups }
<1>1. ASSUME NEW l \in DOMAIN m.lookups PROVE IsFiniteSet(part(l))
  <2>1. m.lookups[l] \in Lookups
    OBVIOUS
  <2>2. Len(m.lookups[l].writable) \in Nat /\ Len(m.lookups[l].readonly) \in Nat
    BY <2>1, SMTT(30) DEF Lookups
  <2> DEFINE n == Len(m.lookups[l].writable) + Len(m.lookups[l].readonly)
  <2>3. \A x, y \in Nat : x + y \in Nat /\ 1 \in Int /\ x + y \in Int
    OBVIOUS
  <2>4. n \in Nat /\ n \in Int /\ 1 \in Int
    BY <2>2, <2>3, Zenon
  <2> HIDE DEF n
  <2>5. IsFiniteSet(1..n)
    BY <2>4, FS_Interval, Zenon
  <2>6. IsFiniteSet({l})
    BY FS_Singleton, Zenon
  <2>7. IsFiniteSet({l} \X (1..n))
    BY <2>5, <2>6, FS_Product, Zenon
  <2>8. QED
    BY <2>7, Zenon DEF n
<1>2. IsFiniteSet(all)
  <2> DEFINE f == [l \in DOMAIN m.lookups |-> part(l)]
  <2>1. IsFiniteSet(DOMAIN m.lookups)
    <3>1. DOMAIN m.lookups = 1..Len(m.lookups) /\ Len(m.lookups) \in Nat
      OBVIOUS
    <3>2. QED
      BY <3>1, FS_Interval
  <2>2. f \in [DOMAIN m.lookups -> all] /\ \A r \in all : \E l \in DOMAIN m.lookups : f[l] = r
    OBVIOUS
  <2> HIDE DEF f, all
  <2>3. QED
    BY <2>1, <2>2, RangeFinite
<1>3. Loaded(m) = UNION all
  BY DEF Loaded
<1>4. IsFiniteSet(Loaded(m))
  <2>1. \A T \in all : IsFiniteSet(T)
    BY <1>1, Zenon
  <2> HIDE DEF all
  <2>2. IsFiniteSet(UNION all)
    BY <1>2, <2>1, FS_UNION
  <2>3. QED
    BY <1>3, <2>2
<1>5. QED
  BY <1>4, FS_CardinalityType

LEMMA CompiledReads ==
  ASSUME NEW payer \in Nat, NEW ixs \in Seq(Instructions), NEW hash \in Texts,
         NEW lookups \in Seq(Lookups),
         NumSigners(payer, ixs) < Byte, ~ TooManyAccounts(payer, ixs)
  PROVE  LET m == Compiled(payer, hash, lookups, ixs)
         IN  m \in Messages /\ HeaderOK(m) /\ IndexesOK(m)
<1> DEFINE m == Compiled(payer, hash, lookups, ixs)
<1>1. Fields(m, payer, hash, lookups, ixs)
  BY CompiledFields, Zenon
<1>2. Ranked(m, payer, ixs)
  BY CompiledRights, Zenon
<1>3. m = [req |-> m.req, ros |-> m.ros, rou |-> m.rou, keys |-> m.keys, hash |-> m.hash,
           ixs |-> m.ixs, lookups |-> m.lookups]
  BY DEF Compiled
<1> HIDE DEF m
<1>4. /\ m.keys \in Seq(Nat) /\ m.req \in Nat /\ m.ros \in Nat /\ m.rou \in Nat
      /\ HeaderOK(m)
  BY <1>2 DEF Ranked
<1>5. m.hash \in Texts /\ m.lookups \in Seq(Lookups)
  BY <1>1, Zenon DEF Fields
<1>6. m.ixs = [i \in DOMAIN ixs |-> CompiledInstruction(m.keys, ixs[i])]
  BY <1>1 DEF Fields
<1>7. \A k \in Seen(payer, ixs) : \E i \in 1..Len(m.keys) : m.keys[i] = k
  BY <1>2, Zenon DEF Ranked
<1>8. ASSUME NEW i \in DOMAIN ixs
      PROVE  PointsTo(CompiledInstruction(m.keys, ixs[i]), ixs[i], m.keys)
  BY <1>4, <1>7, CompiledIndexes, Zenon
<1>9. m.ixs \in Seq(CompiledIxs)
  <2>1. \A i \in 1..Len(ixs) : CompiledInstruction(m.keys, ixs[i]) \in CompiledIxs
    BY <1>8 DEF PointsTo
  <2>2. QED
    BY <1>6, <2>1
<1>10. m \in Messages
  BY <1>3, <1>4, <1>5, <1>9, Zenon DEF Messages
<1>11. IndexesOK(m)
  <2> DEFINE n == Addressable(m)
  <2>1. Cardinality(Loaded(m)) \in Nat
    BY <1>5, LoadedFinite
  <2>2. n >= Len(m.keys) /\ n \in Nat /\ Len(m.keys) \in Nat
    BY <1>4, <2>1 DEF Addressable
  <2> HIDE DEF n
  <2>3. \A x \in 0..(Len(m.keys) - 1) : x < n
    BY <2>2
  <2>4. ASSUME NEW i \in DOMAIN ixs PROVE InRange(m, CompiledInstruction(m.keys, ixs[i]))
    BY <1>8, <2>3, Zenon DEF PointsTo, InRange, n
  <2>5. DOMAIN m.ixs = DOMAIN ixs /\ \A i \in DOMAIN ixs : m.ixs[i] = CompiledInstruction(m.keys, ixs[i])
    BY <1>6
  <2>6. QED
    BY <2>4, <2>5, Zenon DEF IndexesOK
<1>12. QED
  BY <1>4, <1>10, <1>11 DEF m

-----------------------------------------------------------------------------
(***************************************************************************)
(* The object through its life.                                            *)
(***************************************************************************)
Txs   == [sigs : Seq(Slots), msg : Messages, v0 : Messages \cup {Nil}]
Wires == [sigs : Seq(Slots), v0 : BOOLEAN, msg : Messages,
          intent : Orders \cup {Nil}, cosigned : SUBSET Nat]

TypeOK == /\ tx \in Txs
          /\ wire # Nil => wire \in Wires
          /\ intent \in Orders \cup {Nil}
          /\ cosigned \in SUBSET Nat
          /\ torn \in BOOLEAN

\* What belongs to an order carries its message, a slot for every signer, and
\* the signature of everyone who is said to have signed.
Carries(sigs, v0, m, o, signed) ==
  o # Nil =>
    /\ ~ TooManyAccounts(o.payer, o.ixs)
    /\ m = Compiled(o.payer, m.hash, o.lookups, o.ixs)
    /\ v0 = o.v0
    /\ Len(sigs) >= m.req
    /\ \A k \in signed : \E i \in 1..m.req :
          m.keys[i] = k /\ sigs[i] = [by |-> k, over |-> [v0 |-> v0, msg |-> m]]

\* There is a slot for every signer of a message that Sign works on.  A legacy
\* message with Half or more signers is none that was read.
Bounds(sigs, v0, m) ==
  HeaderFits(m) \/ (~ v0 /\ m.req >= Half) => Len(sigs) >= m.req

CarryInv == /\ Carries(tx.sigs, tx.v0 # Nil, Active(tx), intent, cosigned)
            /\ wire # Nil => Carries(wire.sigs, wire.v0, wire.msg, wire.intent, wire.cosigned)

\* Who has no slot for some signer has as many as bytes that were short of slots.
Slotted(sigs, v0, m) == Bounds(sigs, v0, m) \/ ShortWire(Len(sigs))

BoundInv == /\ ~ torn => Slotted(tx.sigs, tx.v0 # Nil, Active(tx))
            /\ wire # Nil => Slotted(wire.sigs, wire.v0, wire.msg)

SolanaInv == TypeOK /\ CarryInv /\ BoundInv

-----------------------------------------------------------------------------
(***************************************************************************)
(* Types of the operators.                                                 *)
(***************************************************************************)
LEMMA HalfType == Half \in Nat /\ Half >= 2 /\ Byte \in Nat
  BY ByteAssumption DEF Half

LEMMA EmptyTypes == EmptyMessage \in Messages /\ ZeroIx \in CompiledIxs
  BY TextsAssumption DEF EmptyMessage, ZeroIx, Messages, CompiledIxs

LEMMA OrderType ==
  ASSUME NEW o \in Orders
  PROVE  /\ o.payer \in Nat /\ o.ixs \in Seq(Instructions) /\ o.lookups \in Seq(Lookups)
         /\ o.v0 \in BOOLEAN /\ NumSigners(o.payer, o.ixs) < Byte /\ o # Nil
<1>1. /\ o \in [payer : Nat, ixs : Seq(Instructions), lookups : Seq(Lookups), v0 : BOOLEAN]
      /\ NumSigners(o.payer, o.ixs) < Byte /\ o # Nil
  BY SolanaAssumption
<1>2. QED
  BY <1>1

LEMMA ActiveType ==
  ASSUME NEW t \in Txs
  PROVE  /\ Active(t) \in Messages /\ (t.v0 # Nil) \in BOOLEAN
         /\ t.sigs \in Seq(Slots) /\ t.msg \in Messages /\ t.v0 \in Messages \cup {Nil}
  BY DEF Active, Txs

\* The fields of a message.
LEMMA MessageType ==
  ASSUME NEW m \in Messages
  PROVE  /\ m.req \in Nat /\ m.ros \in Nat /\ m.rou \in Nat /\ m.keys \in Seq(Nat)
         /\ m.hash \in Texts /\ m.ixs \in Seq(CompiledIxs) /\ m.lookups \in Seq(Lookups)
         /\ DOMAIN m.keys = 1..Len(m.keys) /\ Len(m.keys) \in Nat
         /\ m = [req |-> m.req, ros |-> m.ros, rou |-> m.rou, keys |-> m.keys,
                 hash |-> m.hash, ixs |-> m.ixs, lookups |-> m.lookups]
<1>1. /\ m.req \in Nat /\ m.ros \in Nat /\ m.rou \in Nat /\ m.keys \in Seq(Nat)
      /\ m.hash \in Texts /\ m.ixs \in Seq(CompiledIxs) /\ m.lookups \in Seq(Lookups)
      /\ m = [req |-> m.req, ros |-> m.ros, rou |-> m.rou, keys |-> m.keys,
              hash |-> m.hash, ixs |-> m.ixs, lookups |-> m.lookups]
  BY DEF Messages
<1>2. QED
  BY <1>1

LEMMA WireType ==
  ASSUME NEW w \in Wires
  PROVE  /\ w.sigs \in Seq(Slots) /\ w.v0 \in BOOLEAN /\ w.msg \in Messages
         /\ w.intent \in Orders \cup {Nil} /\ w.cosigned \in SUBSET Nat
         /\ DOMAIN w.sigs = 1..Len(w.sigs) /\ Len(w.sigs) \in Nat
<1>1. /\ w.sigs \in Seq(Slots) /\ w.v0 \in BOOLEAN /\ w.msg \in Messages
      /\ w.intent \in Orders \cup {Nil} /\ w.cosigned \in SUBSET Nat
  BY DEF Wires
<1>2. QED
  BY <1>1

LEMMA SigType ==
  ASSUME NEW t \in Txs, NEW k \in Nat
  PROVE  /\ Sig(k, t) \in Slots /\ Sig(k, t) # Nil
         /\ Sig(k, t) = [by |-> k, over |-> [v0 |-> t.v0 # Nil, msg |-> Active(t)]]
<1>1. Active(t) \in Messages
  BY ActiveType
<1>2. MessageBytes(t) \in [v0 : BOOLEAN, msg : Messages]
  BY <1>1 DEF MessageBytes
<1>3. Sig(k, t) \in [by : Nat, over : [v0 : BOOLEAN, msg : Messages]]
  BY <1>2 DEF Sig
<1>4. Nil \notin [by : Nat, over : [v0 : BOOLEAN, msg : Messages]]
  BY SolanaAssumption
<1>5. Sig(k, t) \in Slots /\ Sig(k, t) # Nil
  BY <1>3, <1>4, Zenon DEF Slots
<1>6. QED
  BY <1>5, Zenon DEF Sig, MessageBytes

LEMMA LegacyIxsType ==
  ASSUME NEW m \in Messages
  PROVE  LegacyIxs(m) \in Seq(CompiledIxs) /\ (IndexesOK(m) => LegacyIxs(m) = m.ixs)
<1>1. m.ixs \in Seq(CompiledIxs) /\ ZeroIx \in CompiledIxs
  BY MessageType, EmptyTypes
<1>2. DOMAIN m.ixs = 1..Len(m.ixs) /\ Len(m.ixs) \in Nat
  BY <1>1
<1>3. LegacyIxs(m) \in Seq(CompiledIxs)
  <2> DEFINE bad(i) == \E h \in 1..(i - 1) : ~ InRange(m, m.ixs[h])
             g(i) == IF bad(i) THEN ZeroIx ELSE m.ixs[i]
  <2>1. \A i \in 1..Len(m.ixs) : g(i) \in CompiledIxs
    <3> TAKE i \in 1..Len(m.ixs)
    <3>1. m.ixs[i] \in CompiledIxs
      BY <1>1, ElementOfSeq
    <3> HIDE DEF bad
    <3>2. QED
      BY <1>1, <3>1
  <2>2. LegacyIxs(m) = [i \in 1..Len(m.ixs) |-> g(i)]
    BY <1>2 DEF LegacyIxs
  <2> HIDE DEF g
  <2>3. QED
    BY <1>2, <2>1, <2>2
<1>4. ASSUME IndexesOK(m) PROVE LegacyIxs(m) = m.ixs
  <2>1. ASSUME NEW i \in DOMAIN m.ixs PROVE ~ \E h \in 1..(i - 1) : ~ InRange(m, m.ixs[h])
    <3>1. 1..(i - 1) \subseteq DOMAIN m.ixs
      BY <1>2
    <3>2. QED
      BY <1>4, <3>1, Zenon DEF IndexesOK
  <2>2. LegacyIxs(m) = [i \in DOMAIN m.ixs |-> m.ixs[i]]
    BY <2>1, Zenon DEF LegacyIxs
  <2>3. QED
    BY <1>1, <2>2
<1>5. QED
  BY <1>3, <1>4

LEMMA OverwrittenType ==
  ASSUME NEW old \in Messages, NEW m \in Messages, NEW n, NEW v0
  PROVE  Overwritten(old, m, n, v0) \in Messages
<1> DEFINE u == Overwritten(old, m, n, v0)
<1>1. /\ u.req \in {m.req, old.req} /\ u.ros \in {m.ros, old.ros} /\ u.rou \in {m.rou, old.rou}
      /\ u.keys \in {m.keys, [i \in DOMAIN m.keys |-> ZeroKey], old.keys}
      /\ u.hash \in {m.hash, old.hash}
      /\ u.ixs \in {m.ixs, LegacyIxs(m), old.ixs}
      /\ u.lookups \in {m.lookups, old.lookups}
  BY DEF Overwritten
<1>2. u = [req |-> u.req, ros |-> u.ros, rou |-> u.rou, keys |-> u.keys,
           hash |-> u.hash, ixs |-> u.ixs, lookups |-> u.lookups]
  BY DEF Overwritten
<1> HIDE DEF u
<1>3. [i \in DOMAIN m.keys |-> ZeroKey] \in Seq(Nat)
  BY MessageType DEF ZeroKey
<1>4. /\ u.req \in Nat /\ u.ros \in Nat /\ u.rou \in Nat
      /\ u.hash \in Texts /\ u.lookups \in Seq(Lookups)
  BY <1>1, MessageType
<1>5. u.keys \in Seq(Nat)
  BY <1>1, <1>3, MessageType
<1>6. u.ixs \in Seq(CompiledIxs)
  BY <1>1, LegacyIxsType, MessageType
<1>7. u \in Messages
  BY <1>2, <1>4, <1>5, <1>6, Zenon DEF Messages
<1>8. QED
  BY <1>7 DEF u

\* A message that is accepted is read as it is.
LEMMA OverwrittenWhole ==
  ASSUME NEW old \in Messages, NEW m \in Messages, NEW v0, HeaderOK(m), IndexesOK(m)
  PROVE  Overwritten(old, m, Whole, v0) = m
<1>1. Reached(m, Whole) = 8
  BY DEF Reached, Whole
<1>2. LegacyIxs(m) = m.ixs
  BY LegacyIxsType
<1>3. Overwritten(old, m, Whole, v0) =
         [req |-> m.req, ros |-> m.ros, rou |-> m.rou, keys |-> m.keys,
          hash |-> m.hash, ixs |-> m.ixs, lookups |-> m.lookups]
  BY <1>1, <1>2 DEF Overwritten
<1>4. QED
  BY <1>3, MessageType

\* What the header is after reading: the one read, from section 4 on.
HeaderAfter(u, old, m, n) ==
  /\ n >= 4 => u.req = m.req /\ Len(u.keys) = Len(m.keys)
  /\ n < 4 => u.req = old.req /\ u.keys = old.keys

LEMMA OverwrittenHeader ==
  ASSUME NEW old \in Messages, NEW m \in Messages, NEW n \in Nat, NEW v0
  PROVE  HeaderAfter(Overwritten(old, m, n, v0), old, m, n)
<1> DEFINE u == Overwritten(old, m, n, v0)
<1>1. /\ n >= 4 => Reached(m, n) >= 4 /\ Reached(m, n) \in Nat
      /\ n < 4 => Reached(m, n) = n
  BY DEF Reached
<1>2. Len([i \in DOMAIN m.keys |-> ZeroKey]) = Len(m.keys)
  BY MessageType
<1>3. ASSUME n >= 4 PROVE u.req = m.req /\ Len(u.keys) = Len(m.keys)
  <2>1. u.req = m.req /\ u.keys \in {m.keys, [i \in DOMAIN m.keys |-> ZeroKey]}
    BY <1>1, <1>3 DEF Overwritten
  <2> HIDE DEF u
  <2>2. QED
    BY <1>2, <2>1
<1>4. ASSUME n < 4 PROVE u.req = old.req /\ u.keys = old.keys
  BY <1>1, <1>4 DEF Overwritten
<1>5. QED
  BY <1>3, <1>4, Zenon DEF HeaderAfter

LEMMA ShiftedType ==
  ASSUME NEW m \in Messages
  PROVE  Shifted(m) \in Messages /\ Shifted(m).req = m.ros /\ Shifted(m).keys = <<ZeroKey>>
<1>1. m.ros \in Nat /\ m.rou \in Nat /\ Half \in Nat /\ <<ZeroKey>> \in Seq(Nat)
  BY MessageType, HalfType DEF ZeroKey
<1>2. EmptyMessage \in Messages
  BY EmptyTypes
<1>3. Shifted(m) \in Messages
  BY <1>1, <1>2 DEF Shifted, Messages
<1>4. Shifted(m).req = m.ros /\ Shifted(m).keys = <<ZeroKey>>
  BY <1>2 DEF Shifted, Messages
<1>5. QED
  BY <1>3, <1>4

-----------------------------------------------------------------------------
(***************************************************************************)
(* Signing.                                                                *)
(***************************************************************************)
\* A slot that is found is a signer's, and it is found when the header fits.
LEMMA SlotOfSpec ==
  ASSUME NEW m \in Messages, NEW k
  PROVE  /\ SlotOf(m, k) \in Int
         /\ SlotOf(m, k) >= 1 => SlotOf(m, k) \in 1..Len(m.keys)
                               /\ SlotOf(m, k) <= m.req /\ m.keys[SlotOf(m, k)] = k
         /\ HeaderFits(m) => SlotOf(m, k) >= 0
<1> DEFINE found == \E i \in 1..m.req : i \in DOMAIN m.keys /\ m.keys[i] = k
<1>1. /\ m.keys \in Seq(Nat) /\ m.req \in Nat /\ Len(m.keys) \in Nat
      /\ DOMAIN m.keys = 1..Len(m.keys)
  BY MessageType
<1>2. CASE found
  <2>1. PICK i \in 1..m.req : i \in 1..Len(m.keys) /\ m.keys[i] = k
    BY <1>1, <1>2
  <2>2. SlotOf(m, k) = FirstOf(m.keys, k)
    BY <1>2 DEF SlotOf, FirstOf
  <2>3. /\ FirstOf(m.keys, k) \in 1..Len(m.keys) /\ m.keys[FirstOf(m.keys, k)] = k
        /\ FirstOf(m.keys, k) <= i
    BY <1>1, <2>1, FirstOfFound, Zenon
  <2> HIDE DEF FirstOf
  <2>4. QED
    BY <1>1, <2>1, <2>2, <2>3
<1>3. CASE ~ found
  <2>1. SlotOf(m, k) = IF m.req > Len(m.keys) THEN -1 ELSE 0
    BY <1>3, Zenon DEF SlotOf
  <2>2. QED
    BY <1>1, <2>1 DEF HeaderFits
<1>4. QED
  BY <1>2, <1>3

\* Sign stops at a key without a slot, or after the last one.
LEMMA StopsAtSpec ==
  ASSUME NEW t \in Txs, NEW ks \in Seq(Nat)
  PROVE  /\ StopsAt(t, ks) \in 1..(Len(ks) + 1)
         /\ \A p \in 1..(StopsAt(t, ks) - 1) :
               p \in DOMAIN ks /\ SlotOf(Active(t), ks[p]) \in DOMAIN t.sigs
         /\ StopsAt(t, ks) <= Len(ks) => SlotOf(Active(t), ks[StopsAt(t, ks)]) \notin DOMAIN t.sigs
<1> DEFINE stops == { p \in DOMAIN ks : SlotOf(Active(t), ks[p]) \notin DOMAIN t.sigs }
           S == stops \cup {Len(ks) + 1}
           at == Min(S)
<1>1. DOMAIN ks = 1..Len(ks) /\ Len(ks) \in Nat
  OBVIOUS
<1>2. S \in SUBSET (1..(Len(ks) + 1)) /\ S # {}
  BY <1>1
<1>3. at \in S /\ \A y \in S : at <= y
  <2>1. S \in SUBSET Nat
    BY <1>1
  <2> HIDE DEF S
  <2>2. QED
    BY <1>2, <2>1, LeastNat
<1>4. StopsAt(t, ks) = at
  BY DEF StopsAt
<1> HIDE DEF at
<1>5. at \in 1..(Len(ks) + 1)
  BY <1>2, <1>3, Zenon
<1>6. ASSUME NEW p \in 1..(at - 1)
      PROVE  p \in DOMAIN ks /\ SlotOf(Active(t), ks[p]) \in DOMAIN t.sigs
  <2>1. p \in DOMAIN ks /\ p \in Nat /\ ~ (at <= p)
    BY <1>1, <1>5
  <2>2. p \notin S
    BY <1>3, <2>1
  <2>3. QED
    BY <2>1, <2>2, Zenon
<1>7. ASSUME at <= Len(ks) PROVE SlotOf(Active(t), ks[at]) \notin DOMAIN t.sigs
  <2>1. at # Len(ks) + 1
    BY <1>1, <1>5, <1>7
  <2>2. QED
    BY <1>3, <2>1, Zenon
<1>8. QED
  BY <1>4, <1>5, <1>6, <1>7

\* What Sign writes: a signature over the message by the key of the slot.
LEMMA SignedByType ==
  ASSUME NEW t \in Txs, NEW ks, NEW n
  PROVE  /\ SignedBy(t, ks, n) \in Seq(Slots)
         /\ Len(SignedBy(t, ks, n)) = Len(t.sigs)
         /\ DOMAIN SignedBy(t, ks, n) = DOMAIN t.sigs
         /\ \A i \in DOMAIN t.sigs :
               SignedBy(t, ks, n)[i] = IF \E p \in 1..n : SlotOf(Active(t), ks[p]) = i
                                      THEN Sig(Active(t).keys[i], t) ELSE t.sigs[i]
<1> DEFINE g(i) == IF \E p \in 1..n : SlotOf(Active(t), ks[p]) = i
                   THEN Sig(Active(t).keys[i], t) ELSE t.sigs[i]
<1>1. t.sigs \in Seq(Slots) /\ Active(t) \in Messages
  BY ActiveType
<1>2. DOMAIN t.sigs = 1..Len(t.sigs) /\ Len(t.sigs) \in Nat
  BY <1>1
<1>3. ASSUME NEW i \in 1..Len(t.sigs) PROVE g(i) \in Slots
  <2>1. t.sigs[i] \in Slots
    BY <1>1, ElementOfSeq
  <2>2. CASE \E p \in 1..n : SlotOf(Active(t), ks[p]) = i
    <3>1. i \in 1..Len(Active(t).keys)
      <4>1. PICK p \in 1..n : SlotOf(Active(t), ks[p]) = i
        BY <2>2
      <4>2. i >= 1
        BY <1>2
      <4>3. QED
        BY <1>1, <4>1, <4>2, SlotOfSpec
    <3>2. Active(t).keys[i] \in Nat
      BY <1>1, <3>1, MessageType
    <3>3. Sig(Active(t).keys[i], t) \in Slots
      BY <3>2, SigType
    <3>4. QED
      BY <2>2, <3>3, Zenon
  <2>3. CASE ~ \E p \in 1..n : SlotOf(Active(t), ks[p]) = i
    BY <2>1, <2>3, Zenon
  <2>4. QED
    BY <2>2, <2>3
<1>4. SignedBy(t, ks, n) = [i \in 1..Len(t.sigs) |-> g(i)]
  BY <1>2 DEF SignedBy
<1> HIDE DEF g
<1>5. SignedBy(t, ks, n) \in Seq(Slots) /\ Len(SignedBy(t, ks, n)) = Len(t.sigs)
  BY <1>2, <1>3, <1>4
<1>6. /\ DOMAIN SignedBy(t, ks, n) = DOMAIN t.sigs
      /\ \A i \in DOMAIN t.sigs : SignedBy(t, ks, n)[i] = g(i)
  BY <1>2, <1>4
<1>7. QED
  BY <1>5, <1>6, Zenon DEF g

-----------------------------------------------------------------------------
(***************************************************************************)
(* Reading.                                                                *)
(***************************************************************************)
LEMMA FreshType == Fresh \in Txs /\ Fresh.v0 = Nil /\ Active(Fresh) = EmptyMessage
  BY EmptyTypes DEF Fresh, Txs, Active

LEMMA SigsReadType ==
  ASSUME NEW w \in Wires, NEW n
  PROVE  /\ SigsRead(w, n) \in Seq(Slots) /\ Len(SigsRead(w, n)) = Len(w.sigs)
         /\ n # 1 => SigsRead(w, n) = w.sigs
<1>1. w.sigs \in Seq(Slots) /\ DOMAIN w.sigs = 1..Len(w.sigs) /\ Len(w.sigs) \in Nat
  BY WireType
<1>2. Nil \in Slots
  BY DEF Slots
<1>3. CASE n = 1
  <2>1. SigsRead(w, n) = [i \in 1..Len(w.sigs) |-> Nil]
    BY <1>1, <1>3 DEF SigsRead
  <2>2. QED
    BY <1>1, <1>2, <1>3, <2>1
<1>4. CASE n # 1
  BY <1>1, <1>4 DEF SigsRead
<1>5. QED
  BY <1>3, <1>4

\* What reading can leave: nothing new, the signatures, and with them a message of
\* one kind or the other.
ReadInto(u, t, w, n) ==
  \/ u = t /\ n = 0
  \/ /\ u = [t EXCEPT !.sigs = SigsRead(w, n)]
     /\ n < 3 \/ ReadsAsOtherVersion(w)
  \/ /\ n >= 3 /\ w.v0
     /\ u = [t EXCEPT !.sigs = SigsRead(w, n), !.v0 = Overwritten(EmptyMessage, w.msg, n, TRUE)]
  \/ /\ n >= 3 /\ ~ w.v0 /\ w.msg.req = Half
     /\ u = [t EXCEPT !.sigs = SigsRead(w, n),
                      !.v0 = Overwritten(EmptyMessage, Shifted(w.msg), n, TRUE)]
  \/ /\ n >= 3 /\ ~ w.v0 /\ w.msg.req < Half
     /\ u = [t EXCEPT !.sigs = SigsRead(w, n), !.msg = Overwritten(t.msg, w.msg, n, FALSE)]

LEMMA UnmarshalledCases ==
  ASSUME NEW t, NEW w \in Wires, NEW n \in Nat
  PROVE  ReadInto(Unmarshalled(t, w, n), t, w, n)
<1>1. w.msg.req \in Nat /\ Half \in Nat /\ w.v0 \in BOOLEAN
  BY WireType, MessageType, HalfType
<1>2. CASE n = 0
  BY <1>2 DEF Unmarshalled, ReadInto
<1>3. CASE n # 0 /\ (n < 3 \/ ReadsAsOtherVersion(w))
  BY <1>3, Zenon DEF Unmarshalled, ReadInto
<1>4. CASE n >= 3 /\ ~ ReadsAsOtherVersion(w) /\ w.v0
  <2>1. n # 0 /\ ~ (n < 3 \/ ReadsAsOtherVersion(w))
    BY <1>4
  <2>2. QED
    BY <1>4, <2>1, Zenon DEF Unmarshalled, ReadInto
<1>5. CASE n >= 3 /\ ~ ReadsAsOtherVersion(w) /\ ~ w.v0
  <2>1. n # 0 /\ ~ (n < 3 \/ ReadsAsOtherVersion(w))
    BY <1>5
  <2>2. w.msg.req = Half \/ w.msg.req < Half
    BY <1>1, <1>5 DEF ReadsAsOtherVersion
  <2>3. ReadsAsV0(w) <=> w.msg.req = Half
    BY <1>5, Zenon DEF ReadsAsV0
  <2>4. QED
    BY <1>5, <2>1, <2>2, <2>3, Zenon DEF Unmarshalled, ReadInto
<1>6. QED
  BY <1>1, <1>2, <1>3, <1>4, <1>5

LEMMA UnmarshalledType ==
  ASSUME NEW t \in Txs, NEW w \in Wires, NEW n \in Nat
  PROVE  Unmarshalled(t, w, n) \in Txs
<1> DEFINE u == Unmarshalled(t, w, n)
<1>1. ReadInto(u, t, w, n)
  BY UnmarshalledCases
<1>2. SigsRead(w, n) \in Seq(Slots)
  BY SigsReadType
<1>3. /\ w.msg \in Messages /\ t.msg \in Messages /\ EmptyMessage \in Messages
      /\ Shifted(w.msg) \in Messages
  BY WireType, ActiveType, EmptyTypes, ShiftedType
<1>4. /\ Overwritten(EmptyMessage, w.msg, n, TRUE) \in Messages
      /\ Overwritten(EmptyMessage, Shifted(w.msg), n, TRUE) \in Messages
      /\ Overwritten(t.msg, w.msg, n, FALSE) \in Messages
  BY <1>3, OverwrittenType
<1> HIDE DEF u
<1>5. u \in Txs
  BY <1>1, <1>2, <1>4 DEF ReadInto, Txs
<1>6. QED
  BY <1>5 DEF u

\* Bytes that are accepted are read as what they say.
LEMMA UnmarshalledAccepted ==
  ASSUME NEW t \in Txs, NEW w \in Wires, NEW n \in Nat, Accepts(w, n), w.v0 \/ t.v0 = Nil
  PROVE  LET u == Unmarshalled(t, w, n)
         IN  u.sigs = w.sigs /\ ((u.v0 # Nil) <=> w.v0) /\ Active(u) = w.msg
<1> DEFINE u == Unmarshalled(t, w, n)
<1>1. ReadInto(u, t, w, n)
  BY UnmarshalledCases
<1>2. /\ n = Whole /\ HeaderOK(w.msg) /\ IndexesOK(w.msg)
      /\ w.v0 \/ w.msg.req < Half
  BY DEF Accepts
<1>3. /\ w.msg \in Messages /\ t.msg \in Messages /\ EmptyMessage \in Messages
      /\ w.msg.req \in Nat /\ Half \in Nat
  BY WireType, ActiveType, EmptyTypes, MessageType, HalfType
<1>4. /\ Overwritten(EmptyMessage, w.msg, n, TRUE) = w.msg
      /\ Overwritten(t.msg, w.msg, n, FALSE) = w.msg
  BY <1>2, <1>3, OverwrittenWhole
<1>5. SigsRead(w, n) = w.sigs
  BY <1>2, SigsReadType DEF Whole
<1>6. w.msg # Nil
  BY <1>3, SolanaAssumption
<1>7. n # 0 /\ ~ (n < 3) /\ ~ ReadsAsOtherVersion(w)
  BY <1>2, <1>3 DEF Whole, ReadsAsOtherVersion
<1> HIDE DEF u
<1>8. CASE w.v0
  <2>1. u = [t EXCEPT !.sigs = w.sigs, !.v0 = w.msg]
    BY <1>1, <1>4, <1>5, <1>7, <1>8, Zenon DEF ReadInto
  <2>2. u.sigs = w.sigs /\ u.v0 = w.msg
    BY <2>1 DEF Txs
  <2>3. QED
    BY <1>6, <1>8, <2>2, Zenon DEF u, Active
<1>9. CASE ~ w.v0
  <2>1. w.msg.req < Half /\ w.msg.req # Half
    BY <1>2, <1>3, <1>9
  <2>2. u = [t EXCEPT !.sigs = w.sigs, !.msg = w.msg]
    BY <1>1, <1>4, <1>5, <1>7, <1>9, <2>1, Zenon DEF ReadInto
  <2>3. u.sigs = w.sigs /\ u.msg = w.msg /\ u.v0 = t.v0
    BY <2>2 DEF Txs
  <2>4. QED
    BY <1>9, <2>3, Zenon DEF u, Active
<1>10. QED
  BY <1>8, <1>9

\* A new object has a slot for every signer of what was read into it, wherever the
\* bytes ended, when the bytes have one.
LEMMA FreshBounds ==
  ASSUME NEW w \in Wires, NEW n \in Nat, Bounds(w.sigs, w.v0, w.msg)
  PROVE  LET u == Unmarshalled(Fresh, w, n) IN Bounds(u.sigs, u.v0 # Nil, Active(u))
<1> DEFINE u == Unmarshalled(Fresh, w, n)
           sigs == SigsRead(w, n)
<1>1. ReadInto(u, Fresh, w, n)
  BY UnmarshalledCases
<1>2. /\ Fresh \in Txs /\ Fresh.v0 = Nil /\ Fresh.msg = EmptyMessage /\ Len(Fresh.sigs) = 0
      /\ EmptyMessage \in Messages /\ EmptyMessage.req = 0 /\ EmptyMessage.keys = <<>>
  BY FreshType, EmptyTypes DEF Fresh, EmptyMessage
<1>3. Half \in Nat /\ Half >= 2
  BY HalfType
<1>4. /\ Len(sigs) = Len(w.sigs) /\ Len(w.sigs) \in Nat /\ w.msg \in Messages
      /\ Shifted(w.msg) \in Messages /\ w.msg.req \in Nat /\ w.msg.ros \in Nat
      /\ Len(w.msg.keys) \in Nat
  BY SigsReadType, WireType, ShiftedType, MessageType
<1> HIDE DEF u, sigs
<1>5. Nil \notin Messages
  BY SolanaAssumption
<1>6. CASE u = Fresh
  <2>1. Active(u) = EmptyMessage /\ u.sigs = Fresh.sigs /\ Len(Fresh.sigs) >= EmptyMessage.req
    BY <1>2, <1>6, FreshType
  <2>2. QED
    BY <2>1, Zenon DEF Bounds, u
<1>7. CASE u = [Fresh EXCEPT !.sigs = sigs]
  <2>1. u.sigs = sigs /\ u.v0 = Nil /\ u.msg = EmptyMessage
    BY <1>2, <1>7 DEF Txs
  <2>2. Active(u) = EmptyMessage
    BY <2>1, Zenon DEF Active
  <2>3. Len(sigs) >= EmptyMessage.req
    BY <1>2, <1>4
  <2>4. QED
    BY <2>1, <2>2, <2>3, Zenon DEF Bounds, u
<1>8. CASE /\ w.v0
           /\ u = [Fresh EXCEPT !.sigs = sigs, !.v0 = Overwritten(EmptyMessage, w.msg, n, TRUE)]
  <2> DEFINE o == Overwritten(EmptyMessage, w.msg, n, TRUE)
  <2>1. o \in Messages
    BY <1>2, <1>4, OverwrittenType, Zenon
  <2>2. HeaderAfter(o, EmptyMessage, w.msg, n)
    BY <1>2, <1>4, OverwrittenHeader, Zenon
  <2>3. u = [Fresh EXCEPT !.sigs = sigs, !.v0 = o]
    BY <1>8, Zenon
  <2> HIDE DEF o
  <2>4. u.sigs = sigs /\ u.v0 = o
    BY <1>2, <2>3 DEF Txs
  <2>5. Active(u) = o /\ u.v0 # Nil
    BY <1>5, <2>1, <2>4, Zenon DEF Active
  <2>6. HeaderFits(w.msg) => Len(w.sigs) >= w.msg.req
    BY Zenon DEF Bounds
  <2>7. HeaderFits(o) => Len(sigs) >= o.req
    BY <1>2, <1>4, <2>2, <2>6 DEF HeaderFits, HeaderAfter
  <2>8. QED
    BY <2>4, <2>5, <2>7, Zenon DEF Bounds, u
<1>9. CASE /\ ~ w.v0 /\ w.msg.req = Half
           /\ u = [Fresh EXCEPT !.sigs = sigs, !.v0 = Overwritten(EmptyMessage, Shifted(w.msg), n, TRUE)]
  <2> DEFINE s == Shifted(w.msg)
             o == Overwritten(EmptyMessage, s, n, TRUE)
  <2>1. o \in Messages
    BY <1>2, <1>4, OverwrittenType, Zenon
  <2>2. s.req \in Nat /\ s.keys = <<ZeroKey>>
    BY <1>4, ShiftedType
  <2>3. HeaderAfter(o, EmptyMessage, s, n)
    BY <1>2, <1>4, OverwrittenHeader, Zenon
  <2>4. u = [Fresh EXCEPT !.sigs = sigs, !.v0 = o]
    BY <1>9, Zenon
  <2> HIDE DEF o, s
  <2>5. u.sigs = sigs /\ u.v0 = o
    BY <1>2, <2>4 DEF Txs
  <2>6. Active(u) = o /\ u.v0 # Nil
    BY <1>5, <2>1, <2>5, Zenon DEF Active
  <2>7. Len(w.sigs) >= w.msg.req
    <3>1. w.msg.req >= Half
      BY <1>3, <1>9
    <3>2. QED
      BY <1>9, <3>1, Zenon DEF Bounds
  <2>8. Len(sigs) >= 2 /\ Len(<<ZeroKey>>) = 1
    BY <1>3, <1>4, <1>9, <2>7
  <2>9. HeaderFits(o) => Len(sigs) >= o.req
    <3>1. CASE n >= 4
      <4>1. o.req = s.req /\ Len(o.keys) = 1
        BY <2>2, <2>3, <2>8, <3>1 DEF HeaderAfter
      <4>2. QED
        BY <1>4, <2>2, <2>8, <4>1 DEF HeaderFits
    <3>2. CASE n < 4
      <4>1. o.req = 0
        BY <1>2, <2>3, <3>2 DEF HeaderAfter
      <4>2. QED
        BY <2>8, <1>4, <4>1
    <3>3. QED
      BY <3>1, <3>2
  <2>10. QED
    BY <2>5, <2>6, <2>9, Zenon DEF Bounds, u
<1>10. CASE /\ n >= 3 /\ ~ w.v0 /\ w.msg.req < Half
            /\ u = [Fresh EXCEPT !.sigs = sigs, !.msg = Overwritten(Fresh.msg, w.msg, n, FALSE)]
  <2> DEFINE o == Overwritten(Fresh.msg, w.msg, n, FALSE)
  <2>1. HeaderAfter(o, EmptyMessage, w.msg, n)
    BY <1>2, <1>4, OverwrittenHeader, Zenon
  <2>2. u = [Fresh EXCEPT !.sigs = sigs, !.msg = o]
    BY <1>10, Zenon
  <2> HIDE DEF o
  <2>3. u.sigs = sigs /\ u.v0 = Nil /\ u.msg = o
    BY <1>2, <2>2 DEF Txs
  <2>4. Active(u) = o
    BY <2>3, Zenon DEF Active
  <2>5. HeaderFits(w.msg) => Len(w.sigs) >= w.msg.req
    BY Zenon DEF Bounds
  <2>6. HeaderFits(o) \/ o.req >= Half => Len(sigs) >= o.req
    BY <1>2, <1>3, <1>4, <1>10, <2>1, <2>5 DEF HeaderFits, HeaderAfter
  <2>7. QED
    BY <2>3, <2>4, <2>6, Zenon DEF Bounds, u
<1>11. QED
  BY <1>1, <1>6, <1>7, <1>8, <1>9, <1>10, Zenon DEF ReadInto, u, sigs

-----------------------------------------------------------------------------
(***************************************************************************)
(* What carrying an order means.                                           *)
(***************************************************************************)
LEMMA CarriedMessage ==
  ASSUME NEW sigs, NEW v0, NEW m \in Messages, NEW o \in Orders, NEW signed,
         Carries(sigs, v0, m, o, signed)
  PROVE  /\ Ranked(m, o.payer, o.ixs) /\ Says(m, o.payer, o.ixs)
         /\ HeaderOK(m) /\ IndexesOK(m) /\ m.req = NumSigners(o.payer, o.ixs)
         /\ v0 = o.v0 /\ Len(sigs) >= m.req
<1>1. /\ o.payer \in Nat /\ o.ixs \in Seq(Instructions) /\ o.lookups \in Seq(Lookups)
      /\ NumSigners(o.payer, o.ixs) < Byte /\ o # Nil
  BY OrderType
<1>2. /\ ~ TooManyAccounts(o.payer, o.ixs) /\ v0 = o.v0 /\ Len(sigs) >= m.req
      /\ m = Compiled(o.payer, m.hash, o.lookups, o.ixs)
  BY <1>1, Zenon DEF Carries
<1>3. m.hash \in Texts
  BY MessageType
<1> DEFINE h == m.hash
<1> HIDE DEF h
<1>4. m = Compiled(o.payer, h, o.lookups, o.ixs) /\ h \in Texts
  BY <1>2, <1>3, Zenon DEF h
<1>5. /\ Ranked(m, o.payer, o.ixs) /\ Says(m, o.payer, o.ixs)
      /\ Fields(m, o.payer, h, o.lookups, o.ixs)
  BY <1>1, <1>2, <1>4, CompiledRights, CompiledSays, CompiledFields, Zenon
<1>6. HeaderOK(m) /\ IndexesOK(m)
  BY <1>1, <1>2, <1>4, CompiledReads, Zenon
<1>7. m.req = NumSigners(o.payer, o.ixs)
  BY <1>5 DEF Fields
<1>8. QED
  BY <1>2, <1>5, <1>6, <1>7, Zenon

LEMMA CarryMeans ==
  ASSUME TypeOK, CarryInv
  PROVE  CompiledMeansInstructions /\ VerifyMeansAllSigned /\ CosigningCompletes
<1> DEFINE m == Active(tx)
           o == intent
<1>1. tx \in Txs /\ m \in Messages /\ tx.sigs \in Seq(Slots) /\ intent \in Orders \cup {Nil}
  BY ActiveType DEF TypeOK
<1>2. CASE intent = Nil
  BY <1>2, Zenon DEF CompiledMeansInstructions, VerifyMeansAllSigned, CosigningCompletes
<1>3. CASE intent # Nil
  <2>1. intent \in Orders
    BY <1>1, <1>3
  <2>2. Carries(tx.sigs, tx.v0 # Nil, m, intent, cosigned)
    BY Zenon DEF CarryInv
  <2> HIDE DEF m
  <2>3. /\ Ranked(m, o.payer, o.ixs) /\ Says(m, o.payer, o.ixs)
        /\ HeaderOK(m) /\ Len(tx.sigs) >= m.req
    BY <1>1, <2>1, <2>2, CarriedMessage, Zenon
  <2>4. /\ m.req \in 1..Len(m.keys) /\ m.req \in Nat /\ Len(m.keys) \in Nat /\ m.keys \in Seq(Nat)
        /\ Len(tx.sigs) \in Nat /\ DOMAIN tx.sigs = 1..Len(tx.sigs) /\ DOMAIN m.keys = 1..Len(m.keys)
    <3>1. m.req \in 1..Len(m.keys)
      BY <2>3, Zenon DEF Ranked
    <3>2. /\ m.req \in Nat /\ Len(m.keys) \in Nat /\ m.keys \in Seq(Nat)
          /\ DOMAIN m.keys = 1..Len(m.keys)
      BY <1>1, MessageType, Zenon
    <3>3. Len(tx.sigs) \in Nat /\ DOMAIN tx.sigs = 1..Len(tx.sigs)
      BY <1>1
    <3>4. QED
      BY <3>1, <3>2, <3>3
  <2>5. /\ \A i, j \in 1..Len(m.keys) : m.keys[i] = m.keys[j] => i = j
        /\ \A k \in Seen(o.payer, o.ixs) : \E i \in 1..Len(m.keys) : m.keys[i] = k
        /\ \A i \in 1..Len(m.keys) :
              /\ m.keys[i] \in Seen(o.payer, o.ixs)
              /\ i <= m.req <=> IsSigner(o.payer, o.ixs, m.keys[i])
    BY <2>3, Zenon DEF Ranked, Signs
  <2>6. CompiledMeansInstructions
    BY <2>3, Zenon DEF CompiledMeansInstructions, m
  <2>7. \A i \in 1..m.req : i \in 1..Len(m.keys) /\ i <= m.req /\ i \in DOMAIN tx.sigs
    BY <2>3, <2>4
  <2>8. \A i \in 1..Len(m.keys) : i <= m.req => i \in 1..m.req
    BY <2>4
  <2>9. ASSUME Verifies(tx), NEW k \in Required(intent)
        PROVE  \E i \in DOMAIN tx.sigs : tx.sigs[i] = Sig(k, tx)
    <3>1. k \in Seen(o.payer, o.ixs) /\ IsSigner(o.payer, o.ixs, k)
      BY Zenon DEF Required
    <3>2. PICK i \in 1..Len(m.keys) : m.keys[i] = k
      BY <2>5, <3>1, Zenon
    <3>3. i \in 1..m.req
      BY <2>5, <2>8, <3>1, <3>2, Zenon
    <3>4. SlotOK(tx, i)
      BY <2>9, <3>3, Zenon DEF Verifies, m
    <3>5. QED
      BY <3>2, <3>4, Zenon DEF SlotOK, m
  <2>10. ASSUME Required(intent) \subseteq cosigned PROVE Verifies(tx)
    <3>1. HeaderFits(m)
      BY <2>4 DEF HeaderFits
    <3>2. ASSUME NEW i \in 1..m.req PROVE SlotOK(tx, i)
      <4>1. i \in 1..Len(m.keys) /\ i <= m.req /\ i \in DOMAIN tx.sigs
        BY <2>7
      <4>2. m.keys[i] \in cosigned
        BY <2>5, <2>10, <4>1, Zenon DEF Required
      <4>3. PICK x \in 1..m.req : /\ m.keys[x] = m.keys[i]
                                  /\ tx.sigs[x] = [by |-> m.keys[i], over |-> [v0 |-> tx.v0 # Nil, msg |-> m]]
        BY <1>3, <2>2, <4>2, Zenon DEF Carries
      <4>4. x = i
        BY <2>5, <2>7, <4>1, <4>3, Zenon
      <4>5. tx.sigs[i] = Sig(m.keys[i], tx)
        BY <4>3, <4>4, Zenon DEF Sig, MessageBytes, m
      <4>6. QED
        BY <2>4, <4>1, <4>5, Zenon DEF SlotOK, m
    <3>3. QED
      BY <2>3, <3>1, <3>2, Zenon DEF Verifies, m
  <2>11. QED
    BY <2>6, <2>9, <2>10, Zenon DEF VerifyMeansAllSigned, CosigningCompletes
<1>4. QED
  BY <1>2, <1>3

-----------------------------------------------------------------------------
(***************************************************************************)
(* What the operations make of a transaction.                              *)
(***************************************************************************)
\* t once the first n keys of ks have signed it.
SignedInto(t, ks, n) == [t EXCEPT !.sigs = SignedBy(t, ks, n)]

LEMMA SignedTx ==
  ASSUME NEW t \in Txs, NEW ks, NEW n
  PROVE  LET u == SignedInto(t, ks, n)
         IN  /\ u \in Txs /\ u.sigs = SignedBy(t, ks, n) /\ u.v0 = t.v0
             /\ Active(u) = Active(t) /\ MessageBytes(u) = MessageBytes(t)
<1> DEFINE u == SignedInto(t, ks, n)
           s == SignedBy(t, ks, n)
<1>1. s \in Seq(Slots)
  BY SignedByType
<1>2. u = [t EXCEPT !.sigs = s]
  BY DEF SignedInto
<1> HIDE DEF s, u
<1>3. u \in Txs /\ u.sigs = s /\ u.v0 = t.v0 /\ u.msg = t.msg
  BY <1>1, <1>2 DEF Txs
<1>4. Active(u) = Active(t)
  BY <1>3, Zenon DEF Active
<1>5. MessageBytes(u) = MessageBytes(t)
  BY <1>3, <1>4, Zenon DEF MessageBytes
<1>6. QED
  BY <1>3, <1>4, <1>5, Zenon DEF s, u

\* What SetBlockhash makes of a transaction.
Rehash(t, h) == IF t.v0 # Nil THEN [t EXCEPT !.v0.hash = h] ELSE [t EXCEPT !.msg.hash = h]

LEMMA Rehashed ==
  ASSUME NEW t \in Txs, NEW h \in Texts
  PROVE  /\ Rehash(t, h) \in Txs /\ Rehash(t, h).sigs = t.sigs
         /\ (Rehash(t, h).v0 # Nil <=> t.v0 # Nil)
         /\ Active(Rehash(t, h)) = [Active(t) EXCEPT !.hash = h]
<1> DEFINE u == Rehash(t, h)
<1>0. u = IF t.v0 # Nil THEN [t EXCEPT !.v0.hash = h] ELSE [t EXCEPT !.msg.hash = h]
  BY Zenon DEF Rehash
<1> HIDE DEF u
<1>1. Nil \notin Messages
  BY SolanaAssumption
<1>2. CASE t.v0 # Nil
  <2> DEFINE m == [t.v0 EXCEPT !.hash = h]
  <2>1. m \in Messages
    BY <1>2 DEF Txs, Messages
  <2>2. u = [t EXCEPT !.v0 = m]
    BY <1>0, <1>2 DEF Txs
  <2> HIDE DEF m
  <2>3. u \in Txs /\ u.sigs = t.sigs /\ u.v0 = m
    BY <2>1, <2>2 DEF Txs
  <2>4. m # Nil
    BY <1>1, <2>1
  <2>5. Active(u) = m /\ Active(t) = t.v0
    BY <1>2, <2>3, <2>4, Zenon DEF Active
  <2>6. QED
    BY <1>2, <2>3, <2>4, <2>5, Zenon DEF m, u
<1>3. CASE t.v0 = Nil
  <2> DEFINE m == [t.msg EXCEPT !.hash = h]
  <2>1. m \in Messages
    BY <1>3 DEF Txs, Messages
  <2>2. u = [t EXCEPT !.msg = m]
    BY <1>0, <1>3 DEF Txs
  <2> HIDE DEF m
  <2>3. u \in Txs /\ u.sigs = t.sigs /\ u.msg = m /\ u.v0 = t.v0
    BY <2>1, <2>2 DEF Txs
  <2>4. Active(u) = m /\ Active(t) = t.msg
    BY <1>3, <2>3, Zenon DEF Active
  <2>5. QED
    BY <1>3, <2>3, <2>4, Zenon DEF m, u
<1>4. QED
  BY <1>2, <1>3, Zenon

LEMMA RehashedCompiled ==
  ASSUME NEW payer, NEW ixs, NEW lookups, NEW h, NEW m, NEW g, m = Compiled(payer, g, lookups, ixs)
  PROVE  /\ [m EXCEPT !.hash = h] = Compiled(payer, h, lookups, ixs)
         /\ Compiled(payer, h, lookups, ixs).hash = h
         /\ Compiled(payer, h, lookups, ixs).req = m.req
         /\ Compiled(payer, h, lookups, ixs).keys = m.keys
<1> DEFINE a == NumSigners(payer, ixs) % Byte
           b == Len(Group(payer, ixs, TRUE, FALSE)) % Byte
           c == Len(Group(payer, ixs, FALSE, FALSE)) % Byte
           keys == AllAccounts(payer, ixs)
           is == [i \in DOMAIN ixs |-> CompiledInstruction(keys, ixs[i])]
           Of(x) == [req |-> a, ros |-> b, rou |-> c, keys |-> keys, hash |-> x,
                     ixs |-> is, lookups |-> lookups]
<1>1. m = Of(g) /\ Compiled(payer, h, lookups, ixs) = Of(h)
  BY Zenon DEF Compiled
<1> HIDE DEF a, b, c, keys, is
<1>2. /\ [Of(g) EXCEPT !.hash = h] = Of(h) /\ Of(h).hash = h
      /\ Of(h).req = Of(g).req /\ Of(h).keys = Of(g).keys
  OBVIOUS
<1> HIDE DEF Of
<1>3. QED
  BY <1>1, <1>2, Zenon

LEMMA TxRecord ==
  \A s \in Seq(Slots), m \in Messages, v \in Messages \cup {Nil} : \A u :
     u = [sigs |-> s, msg |-> m, v0 |-> v] => u \in Txs /\ u.sigs = s /\ u.msg = m /\ u.v0 = v
  BY DEF Txs

CompiledInto(o) ==
  LET m == Compiled(o.payer, "h0", o.lookups, o.ixs)
  IN  [sigs |-> [i \in 1..NumSigners(o.payer, o.ixs) |-> Nil],
       msg  |-> IF o.v0 THEN EmptyMessage ELSE m,
       v0   |-> IF o.v0 THEN m ELSE Nil]

LEMMA CompiledTx ==
  ASSUME NEW o \in Orders, ~ TooManyAccounts(o.payer, o.ixs)
  PROVE  LET u == CompiledInto(o)
         IN  /\ u \in Txs /\ ((u.v0 # Nil) <=> o.v0)
             /\ Active(u) = Compiled(o.payer, "h0", o.lookups, o.ixs)
             /\ Len(u.sigs) = Active(u).req
<1> DEFINE m == Compiled(o.payer, "h0", o.lookups, o.ixs)
           n == NumSigners(o.payer, o.ixs)
           s == [i \in 1..n |-> Nil]
           u == CompiledInto(o)
<1>1. /\ o.payer \in Nat /\ o.ixs \in Seq(Instructions) /\ o.lookups \in Seq(Lookups)
      /\ o.v0 \in BOOLEAN /\ NumSigners(o.payer, o.ixs) < Byte
  BY OrderType
<1>2. m \in Messages /\ Nil \notin Messages
  BY <1>1, CompiledReads, SolanaAssumption, TextsAssumption
<1>3. Fields(m, o.payer, "h0", o.lookups, o.ixs)
  BY <1>1, CompiledFields, Zenon
<1> HIDE DEF m
<1>4. m.req = n /\ m.req \in Nat
  BY <1>2, <1>3, MessageType, Zenon DEF Fields
<1> HIDE DEF n
<1>5. s \in Seq(Slots) /\ Len(s) = n
  BY <1>4 DEF Slots
<1> DEFINE V == Messages \cup {Nil}
<1>6. m \in V /\ Nil \in V /\ m \in Messages /\ EmptyMessage \in Messages
  BY <1>2, EmptyTypes
<1>7. u = [sigs |-> s, msg |-> IF o.v0 THEN EmptyMessage ELSE m, v0 |-> IF o.v0 THEN m ELSE Nil]
  BY Zenon DEF m, n, CompiledInto
<1> HIDE DEF s, u
<1>8. CASE o.v0
  <2>1. u = [sigs |-> s, msg |-> EmptyMessage, v0 |-> m]
    BY <1>7, <1>8, Zenon
  <2>2. u \in Txs /\ u.v0 = m /\ u.sigs = s
    BY <1>5, <1>6, <2>1, TxRecord
  <2>3. Active(u) = m /\ u.v0 # Nil
    BY <1>2, <2>2, Zenon DEF Active
  <2>4. QED
    BY <1>4, <1>5, <1>8, <2>2, <2>3, Zenon DEF m, u
<1>9. CASE ~ o.v0
  <2>1. u = [sigs |-> s, msg |-> m, v0 |-> Nil]
    BY <1>7, <1>9, Zenon
  <2>2. u \in Txs /\ u.v0 = Nil /\ u.msg = m /\ u.sigs = s
    BY <1>5, <1>6, <2>1, TxRecord
  <2>3. Active(u) = m
    BY <2>2, Zenon DEF Active
  <2>4. QED
    BY <1>4, <1>5, <1>9, <2>2, <2>3, Zenon DEF m, u
<1>10. QED
  BY <1>1, <1>8, <1>9 DEF u

LEMMA WireSigsType ==
  ASSUME NEW t \in Txs
  PROVE  /\ WireSigs(t) \in Seq(Slots) /\ Len(WireSigs(t)) = Len(t.sigs)
         /\ \A i \in DOMAIN t.sigs : t.sigs[i] # Nil => WireSigs(t)[i] = t.sigs[i]
<1>1. t.sigs \in Seq(Slots) /\ DOMAIN t.sigs = 1..Len(t.sigs) /\ Len(t.sigs) \in Nat
  BY ActiveType
<1>2. ZeroSig \in Slots
  BY DEF Slots
<1>3. \A i \in 1..Len(t.sigs) : t.sigs[i] \in Slots
  BY <1>1, ElementOfSeq
<1>4. WireSigs(t) = [i \in 1..Len(t.sigs) |-> IF t.sigs[i] = Nil THEN ZeroSig ELSE t.sigs[i]]
  BY <1>1 DEF WireSigs
<1>5. QED
  BY <1>1, <1>2, <1>3, <1>4

-----------------------------------------------------------------------------
(***************************************************************************)
(* The type invariant.                                                     *)
(***************************************************************************)
LEMMA TypeInit == Init => TypeOK
  BY FreshType DEF Init, TypeOK

LEMMA CutsType == \A n \in Cuts : n \in Nat
  BY SolanaAssumption DEF Whole

LEMMA ForeignType ==
  ASSUME NEW w \in Foreign
  PROVE  w \in Wires /\ w.intent = Nil /\ w.cosigned = {}
<1>1. w \in [sigs : Seq(Slots), v0 : BOOLEAN, msg : Messages, intent : {Nil}, cosigned : {{}}]
  BY SolanaAssumption
<1>2. QED
  BY <1>1 DEF Wires

\* The keys that have signed when a call of Sign ends.
LEMMA SignerType ==
  ASSUME NEW t \in Txs, NEW ks \in Seq(Nat), NEW p \in 1..(StopsAt(t, ks) - 1)
  PROVE  ks[p] \in Nat /\ SlotOf(Active(t), ks[p]) \in DOMAIN t.sigs
<1>1. p \in DOMAIN ks /\ SlotOf(Active(t), ks[p]) \in DOMAIN t.sigs
  BY StopsAtSpec
<1>2. QED
  BY <1>1

LEMMA MarshalledType ==
  ASSUME NEW t \in Txs, NEW o \in Orders \cup {Nil}, NEW signed \in SUBSET Nat
  PROVE  LET w == [sigs |-> WireSigs(t), v0 |-> t.v0 # Nil, msg |-> Active(t),
                   intent |-> o, cosigned |-> signed]
         IN  w \in Wires
<1> DEFINE s == WireSigs(t)
           m == Active(t)
<1>1. s \in Seq(Slots) /\ m \in Messages
  BY WireSigsType, ActiveType
<1> HIDE DEF s, m
<1>2. \A v \in BOOLEAN : [sigs |-> s, v0 |-> v, msg |-> m, intent |-> o, cosigned |-> signed] \in Wires
  BY <1>1 DEF Wires
<1>3. (t.v0 # Nil) \in BOOLEAN
  OBVIOUS
<1>4. QED
  BY <1>2, <1>3, Zenon DEF s, m

LEMMA TypeStep ==
  ASSUME TypeOK, [Next]_vars
  PROVE  TypeOK'
<1> USE DEF TypeOK
<1>1. ASSUME NEW o \in Orders, Compile(o) PROVE TypeOK'
  <2>1. tx' = CompiledInto(o) /\ ~ TooManyAccounts(o.payer, o.ixs)
    BY <1>1, Zenon DEF Compile, CompiledInto
  <2>2. tx' \in Txs
    BY <2>1, CompiledTx, Zenon
  <2>3. UNCHANGED <<wire, torn>> /\ intent' = o /\ cosigned' = {}
    BY <1>1, Zenon DEF Compile
  <2>4. QED
    BY <2>2, <2>3
<1>2. ASSUME NEW o \in Orders, CompileRefused(o) PROVE TypeOK'
  BY <1>2 DEF CompileRefused
<1>3. ASSUME NEW h \in Hashes, SetBlockhash(h) PROVE TypeOK'
  <2>1. h \in Texts
    BY SolanaAssumption
  <2>2. tx' \in Txs
    <3>1. tx' = Rehash(tx, h)
      BY <1>3, Zenon DEF SetBlockhash, Rehash
    <3>2. tx \in Txs
      BY DEF TypeOK
    <3>3. QED
      BY <2>1, <3>1, <3>2, Rehashed, Zenon
  <2>3. UNCHANGED <<wire, intent, torn>> /\ cosigned' = {}
    BY <1>3, Zenon DEF SetBlockhash
  <2>4. QED
    BY <2>2, <2>3
<1>4. ASSUME NEW ks \in KeyLists, Sign(ks) PROVE TypeOK'
  <2>1. ks \in Seq(Nat)
    BY SolanaAssumption
  <2>2. tx' \in Txs
    BY <1>4, SignedTx, Zenon DEF Sign, SignedInto
  <2>3. \A p \in 1..(StopsAt(tx, ks) - 1) : ks[p] \in Nat
    BY <2>1, SignerType
  <2>4. /\ UNCHANGED <<wire, intent, torn>>
        /\ cosigned' = cosigned \cup { ks[p] : p \in 1..(StopsAt(tx, ks) - 1) }
    BY <1>4, Zenon DEF Sign
  <2>5. cosigned' \in SUBSET Nat
    BY <2>3, <2>4
  <2>6. QED
    BY <2>2, <2>4, <2>5
<1>5. ASSUME SignRefused PROVE TypeOK'
  BY <1>5 DEF SignRefused
<1>6. ASSUME Marshal PROVE TypeOK'
  <2>1. wire' \in Wires
    BY <1>6, MarshalledType, Zenon DEF Marshal
  <2>2. UNCHANGED <<tx, intent, cosigned, torn>>
    BY <1>6, Zenon DEF Marshal
  <2>3. QED
    BY <2>1, <2>2
<1>7. ASSUME NEW w \in Foreign, Receive(w) PROVE TypeOK'
  BY <1>7, ForeignType DEF Receive
<1>8. ASSUME NEW n \in Cuts, NEW obj \in Txs, Unmarshal(n, obj) PROVE TypeOK'
  <2>1. wire \in Wires
    BY <1>8, Zenon DEF Unmarshal
  <2>2. tx' \in Txs
    BY <1>8, <2>1, CutsType, UnmarshalledType, Zenon DEF Unmarshal
  <2>3. /\ intent' = IF Accepts(wire, n) THEN wire.intent ELSE Nil
        /\ cosigned' = IF Accepts(wire, n) THEN wire.cosigned ELSE {}
        /\ torn' = (obj # Fresh /\ ~ Accepts(wire, n))
        /\ wire' = wire
    BY <1>8, Zenon DEF Unmarshal
  <2>4. wire.intent \in Orders \cup {Nil} /\ wire.cosigned \in SUBSET Nat
    BY <2>1, WireType
  <2>5. intent' \in Orders \cup {Nil} /\ cosigned' \in SUBSET Nat
    BY <2>3, <2>4
  <2>6. torn' \in BOOLEAN
    BY <2>3, Zenon
  <2>7. QED
    BY <2>1, <2>2, <2>3, <2>5, <2>6, Zenon
<1>9. CASE UNCHANGED vars
  BY <1>9 DEF vars
<1>10. QED
  BY <1>1, <1>2, <1>3, <1>4, <1>5, <1>6, <1>7, <1>8, <1>9, FreshType, Zenon
     DEF Next, UnmarshalFresh, UnmarshalReused

-----------------------------------------------------------------------------
(***************************************************************************)
(* What a transaction and the bytes carry.                                 *)
(***************************************************************************)
LEMMA CarriesCompiled ==
  ASSUME NEW o \in Orders, ~ TooManyAccounts(o.payer, o.ixs)
  PROVE  LET u == CompiledInto(o) IN Carries(u.sigs, u.v0 # Nil, Active(u), o, {})
<1> DEFINE u == CompiledInto(o)
           m == Active(u)
<1>1. /\ u \in Txs /\ ((u.v0 # Nil) <=> o.v0) /\ Len(u.sigs) = m.req
      /\ m = Compiled(o.payer, "h0", o.lookups, o.ixs)
  BY CompiledTx, Zenon
<1>2. /\ o.payer \in Nat /\ o.ixs \in Seq(Instructions) /\ NumSigners(o.payer, o.ixs) < Byte
      /\ o.v0 \in BOOLEAN
  BY OrderType
<1>3. m \in Messages
  BY <1>1, ActiveType
<1> HIDE DEF m, u
<1>4. Fields(m, o.payer, "h0", o.lookups, o.ixs)
  BY <1>1, <1>2, CompiledFields, Zenon
<1>5. m.hash = "h0"
  BY <1>4, Zenon DEF Fields
<1>6. m = Compiled(o.payer, m.hash, o.lookups, o.ixs)
  BY <1>1, <1>5, Zenon
<1>7. Len(u.sigs) >= m.req
  BY <1>1, <1>3, MessageType
<1>8. (u.v0 # Nil) = o.v0
  BY <1>1, <1>2, Zenon
<1>9. Carries(u.sigs, u.v0 # Nil, m, o, {})
  BY <1>6, <1>7, <1>8, Zenon DEF Carries
<1>10. QED
  BY <1>9 DEF u, m

\* Nobody has signed the message with another blockhash.
LEMMA CarriesRehashed ==
  ASSUME NEW sigs, NEW v0, NEW m \in Messages, NEW o \in Orders, NEW signed, NEW h,
         Carries(sigs, v0, m, o, signed)
  PROVE  Carries(sigs, v0, [m EXCEPT !.hash = h], o, {})
<1> DEFINE new == [m EXCEPT !.hash = h]
           g == m.hash
<1>1. /\ ~ TooManyAccounts(o.payer, o.ixs) /\ m = Compiled(o.payer, g, o.lookups, o.ixs)
      /\ v0 = o.v0 /\ Len(sigs) >= m.req
  BY OrderType, Zenon DEF Carries
<1>2. new.hash = h /\ new.req = m.req
  BY DEF Messages
<1> HIDE DEF g
<1>3. new = Compiled(o.payer, h, o.lookups, o.ixs)
  BY <1>1, RehashedCompiled
<1> HIDE DEF new
<1>4. new = Compiled(o.payer, new.hash, o.lookups, o.ixs) /\ Len(sigs) >= new.req
  BY <1>1, <1>2, <1>3, Zenon
<1>5. Carries(sigs, v0, new, o, {})
  BY <1>1, <1>4, Zenon DEF Carries
<1>6. QED
  BY <1>5 DEF new

\* Who signed before has signed still, and those before the key that stopped the
\* call as well.
LEMMA CarriesSigned ==
  ASSUME NEW t \in Txs, NEW o, NEW signed \in SUBSET Nat, NEW ks \in Seq(Nat),
         Carries(t.sigs, t.v0 # Nil, Active(t), o, signed)
  PROVE  LET u == SignedInto(t, ks, StopsAt(t, ks) - 1)
         IN  Carries(u.sigs, u.v0 # Nil, Active(u), o,
                     signed \cup { ks[p] : p \in 1..(StopsAt(t, ks) - 1) })
<1> DEFINE n == StopsAt(t, ks) - 1
           u == SignedInto(t, ks, n)
           m == Active(t)
           s == SignedBy(t, ks, n)
           all == signed \cup { ks[p] : p \in 1..n }
           over == [v0 |-> t.v0 # Nil, msg |-> m]
<1>1. /\ u.sigs = s /\ u.v0 = t.v0 /\ Active(u) = m
  BY SignedTx, Zenon
<1>2. /\ Len(s) = Len(t.sigs)
      /\ \A i \in DOMAIN t.sigs :
            s[i] = IF \E p \in 1..n : SlotOf(m, ks[p]) = i THEN Sig(m.keys[i], t) ELSE t.sigs[i]
  <2> HIDE DEF n
  <2>1. QED
    BY SignedByType
<1>3. /\ m \in Messages /\ t.sigs \in Seq(Slots) /\ Len(t.sigs) \in Nat
      /\ DOMAIN t.sigs = 1..Len(t.sigs) /\ m.req \in Nat
  BY ActiveType, MessageType
<1>4. \A k : Sig(k, t) = [by |-> k, over |-> over]
  BY Zenon DEF Sig, MessageBytes
<1>5. \A p \in 1..n : ks[p] \in Nat /\ SlotOf(m, ks[p]) \in DOMAIN t.sigs
  BY SignerType
<1> HIDE DEF m, s, n, over, u
<1>6. CASE o = Nil
  BY <1>6, Zenon DEF Carries, n, u
<1>7. CASE o # Nil
  <2>1. /\ ~ TooManyAccounts(o.payer, o.ixs) /\ m = Compiled(o.payer, m.hash, o.lookups, o.ixs)
        /\ (t.v0 # Nil) = o.v0 /\ Len(t.sigs) >= m.req
        /\ \A k \in signed : \E i \in 1..m.req :
              m.keys[i] = k /\ t.sigs[i] = [by |-> k, over |-> over]
    BY <1>7, Zenon DEF Carries, m, over
  <2>2. 1..m.req \subseteq DOMAIN t.sigs
    BY <1>3, <2>1
  <2>3. ASSUME NEW k \in signed
        PROVE  \E i \in 1..m.req : m.keys[i] = k /\ s[i] = [by |-> k, over |-> over]
    <3>1. PICK i \in 1..m.req : m.keys[i] = k /\ t.sigs[i] = [by |-> k, over |-> over]
      BY <2>1
    <3>2. s[i] = Sig(m.keys[i], t) \/ s[i] = t.sigs[i]
      BY <1>2, <2>2, Zenon
    <3>3. QED
      BY <1>4, <3>1, <3>2, Zenon
  <2>4. ASSUME NEW p \in 1..n
        PROVE  \E i \in 1..m.req : m.keys[i] = ks[p] /\ s[i] = [by |-> ks[p], over |-> over]
    <3> DEFINE i == SlotOf(m, ks[p])
    <3>1. i \in DOMAIN t.sigs
      BY <1>5
    <3>2. i \in 1..Len(m.keys) /\ i <= m.req /\ m.keys[i] = ks[p]
      BY <1>3, <3>1, SlotOfSpec
    <3>3. s[i] = Sig(m.keys[i], t)
      BY <1>2, <3>1, Zenon
    <3>4. i \in 1..m.req
      <4> HIDE DEF i
      <4>1. QED
        BY <1>3, <3>1, <3>2
    <3>5. QED
      BY <1>4, <3>2, <3>3, <3>4, Zenon
  <2>5. \A k \in all : \E i \in 1..m.req : m.keys[i] = k /\ s[i] = [by |-> k, over |-> over]
    <3>1. ASSUME NEW k \in { ks[p] : p \in 1..n }
          PROVE  \E i \in 1..m.req : m.keys[i] = k /\ s[i] = [by |-> k, over |-> over]
      <4>1. PICK p \in 1..n : k = ks[p]
        BY <3>1
      <4>2. QED
        BY <2>4, <4>1, Zenon
    <3>2. QED
      BY <2>3, <3>1, Zenon
  <2>6. Len(s) >= m.req
    BY <1>2, <2>1, Zenon
  <2> HIDE DEF all
  <2>7. Carries(s, t.v0 # Nil, m, o, all)
    BY <2>1, <2>5, <2>6, Zenon DEF Carries, over
  <2>8. QED
    BY <1>1, <2>7, Zenon DEF all, n, m, u
<1>8. QED
  BY <1>6, <1>7

\* Marshalling keeps every signature.
LEMMA CarriesMarshalled ==
  ASSUME NEW t \in Txs, NEW o, NEW signed \in SUBSET Nat,
         Carries(t.sigs, t.v0 # Nil, Active(t), o, signed)
  PROVE  Carries(WireSigs(t), t.v0 # Nil, Active(t), o, signed)
<1> DEFINE m == Active(t)
           s == WireSigs(t)
           over == [v0 |-> t.v0 # Nil, msg |-> m]
<1>1. /\ Len(s) = Len(t.sigs)
      /\ \A i \in DOMAIN t.sigs : t.sigs[i] # Nil => s[i] = t.sigs[i]
  BY WireSigsType
<1>2. /\ m \in Messages /\ t.sigs \in Seq(Slots) /\ Len(t.sigs) \in Nat
      /\ DOMAIN t.sigs = 1..Len(t.sigs) /\ m.req \in Nat
  BY ActiveType, MessageType
<1>3. \A k \in Nat : [by |-> k, over |-> over] # Nil
  <2> TAKE k \in Nat
  <2>1. Sig(k, t) # Nil /\ Sig(k, t) = [by |-> k, over |-> over]
    BY SigType, Zenon
  <2>2. QED
    BY <2>1, Zenon
<1> HIDE DEF s, m, over
<1>4. CASE o = Nil
  BY <1>4, Zenon DEF Carries
<1>5. CASE o # Nil
  <2>1. /\ ~ TooManyAccounts(o.payer, o.ixs) /\ m = Compiled(o.payer, m.hash, o.lookups, o.ixs)
        /\ (t.v0 # Nil) = o.v0 /\ Len(t.sigs) >= m.req
        /\ \A k \in signed : \E i \in 1..m.req :
              m.keys[i] = k /\ t.sigs[i] = [by |-> k, over |-> over]
    BY <1>5, Zenon DEF Carries, m, over
  <2>2. 1..m.req \subseteq DOMAIN t.sigs
    BY <1>2, <2>1
  <2>3. ASSUME NEW k \in signed
        PROVE  \E i \in 1..m.req : m.keys[i] = k /\ s[i] = [by |-> k, over |-> over]
    <3>1. PICK i \in 1..m.req : m.keys[i] = k /\ t.sigs[i] = [by |-> k, over |-> over]
      BY <2>1
    <3>2. k \in Nat
      OBVIOUS
    <3>3. s[i] = t.sigs[i]
      BY <1>1, <1>3, <2>2, <3>1, <3>2, Zenon
    <3>4. QED
      BY <3>1, <3>3, Zenon
  <2>4. Len(s) >= m.req
    BY <1>1, <2>1, Zenon
  <2>5. Carries(s, t.v0 # Nil, m, o, signed)
    BY <2>1, <2>3, <2>4, Zenon DEF Carries, over
  <2>6. QED
    BY <2>5 DEF s, m
<1>6. QED
  BY <1>4, <1>5

LEMMA CarriesNothing == \A sigs, v0, m, signed : Carries(sigs, v0, m, Nil, signed)
  BY Zenon DEF Carries

\* Reading what is accepted: into a new object, or into one that holds no other
\* message.
LEMMA AcceptedCarries ==
  ASSUME NEW n \in Cuts, NEW t \in Txs, wire \in Wires, Unmarshal(n, t), Accepts(wire, n),
         wire.v0 \/ t.v0 = Nil
  PROVE  /\ tx'.sigs = wire.sigs /\ (tx'.v0 # Nil) = wire.v0 /\ Active(tx') = wire.msg
         /\ intent' = wire.intent /\ cosigned' = wire.cosigned
<1>1. /\ tx' = Unmarshalled(t, wire, n)
      /\ intent' = wire.intent /\ cosigned' = wire.cosigned
  BY Zenon DEF Unmarshal
<1>2. n \in Nat /\ wire.v0 \in BOOLEAN
  BY CutsType, WireType
<1>3. /\ tx'.sigs = wire.sigs /\ ((tx'.v0 # Nil) <=> wire.v0) /\ Active(tx') = wire.msg
  <2> DEFINE u == Unmarshalled(t, wire, n)
  <2>1. u.sigs = wire.sigs /\ ((u.v0 # Nil) <=> wire.v0) /\ Active(u) = wire.msg
    BY <1>2, UnmarshalledAccepted, Zenon
  <2> HIDE DEF u
  <2>2. tx' = u
    BY <1>1, Zenon DEF u
  <2>3. QED
    BY <2>1, <2>2, Zenon
<1>4. (tx'.v0 # Nil) = wire.v0
  BY <1>2, <1>3, Zenon
<1>5. QED
  BY <1>1, <1>3, <1>4, Zenon

LEMMA ReuseIsSafe ==
  ASSUME Reuse # "any", MayReuse, wire # Nil
  PROVE  wire.v0 \/ tx.v0 = Nil
  BY Zenon DEF MayReuse

LEMMA CarryInit == Init => CarryInv
  BY Zenon DEF Init, CarryInv, Carries

LEMMA CarryStep ==
  ASSUME Reuse # "any", TypeOK, CarryInv, [Next]_vars
  PROVE  CarryInv'
<1>1. /\ tx \in Txs /\ Active(tx) \in Messages /\ cosigned \in SUBSET Nat
      /\ intent \in Orders \cup {Nil}
      /\ wire # Nil => wire \in Wires
      /\ Carries(tx.sigs, tx.v0 # Nil, Active(tx), intent, cosigned)
      /\ wire # Nil => Carries(wire.sigs, wire.v0, wire.msg, wire.intent, wire.cosigned)
  BY ActiveType, Zenon DEF TypeOK, CarryInv
<1>2. ASSUME NEW o \in Orders, Compile(o) PROVE CarryInv'
  <2>1. tx' = CompiledInto(o) /\ ~ TooManyAccounts(o.payer, o.ixs)
    BY <1>2, Zenon DEF Compile, CompiledInto
  <2>2. UNCHANGED wire /\ intent' = o /\ cosigned' = {}
    BY <1>2, Zenon DEF Compile
  <2>3. Carries(tx'.sigs, tx'.v0 # Nil, Active(tx'), intent', cosigned')
    BY <2>1, <2>2, CarriesCompiled, Zenon
  <2>4. QED
    BY <1>1, <2>2, <2>3, Zenon DEF CarryInv
<1>3. ASSUME NEW o \in Orders, CompileRefused(o) PROVE CarryInv'
  BY <1>1, <1>3, Zenon DEF CompileRefused, CarryInv, Active
<1>4. ASSUME NEW h \in Hashes, SetBlockhash(h) PROVE CarryInv'
  <2>1. h \in Texts
    BY SolanaAssumption
  <2>2. UNCHANGED <<wire, intent>> /\ cosigned' = {} /\ intent # Nil
    BY <1>4, Zenon DEF SetBlockhash
  <2>3. /\ tx'.sigs = tx.sigs /\ (tx'.v0 # Nil <=> tx.v0 # Nil)
        /\ Active(tx') = [Active(tx) EXCEPT !.hash = h]
    <3>1. tx' = Rehash(tx, h)
      BY <1>4, Zenon DEF SetBlockhash, Rehash
    <3>2. tx \in Txs
      BY <1>1
    <3>3. QED
      BY <2>1, <3>1, <3>2, Rehashed, Zenon
  <2>4. Carries(tx.sigs, tx.v0 # Nil, [Active(tx) EXCEPT !.hash = h], intent, {})
    <3>1. intent \in Orders
      BY <1>1, <2>2, Zenon
    <3>2. QED
      BY <1>1, <3>1, CarriesRehashed, Zenon
  <2>5. Carries(tx'.sigs, tx'.v0 # Nil, Active(tx'), intent', cosigned')
    <3>1. (tx'.v0 # Nil) = (tx.v0 # Nil)
      BY <2>3, Zenon
    <3>2. QED
      BY <2>2, <2>3, <2>4, <3>1, Zenon
  <2>6. QED
    BY <1>1, <2>2, <2>5, Zenon DEF CarryInv
<1>5. ASSUME NEW ks \in KeyLists, Sign(ks) PROVE CarryInv'
  <2>1. ks \in Seq(Nat)
    BY SolanaAssumption
  <2>2. /\ UNCHANGED <<wire, intent>> /\ tx' = SignedInto(tx, ks, StopsAt(tx, ks) - 1)
        /\ cosigned' = cosigned \cup { ks[p] : p \in 1..(StopsAt(tx, ks) - 1) }
    BY <1>5, Zenon DEF Sign, SignedInto
  <2>3. Carries(tx'.sigs, tx'.v0 # Nil, Active(tx'), intent', cosigned')
    <3> DEFINE u == SignedInto(tx, ks, StopsAt(tx, ks) - 1)
               signed == cosigned \cup { ks[p] : p \in 1..(StopsAt(tx, ks) - 1) }
    <3>1. Carries(u.sigs, u.v0 # Nil, Active(u), intent, signed)
      <4>1. /\ tx \in Txs /\ cosigned \in SUBSET Nat
            /\ Carries(tx.sigs, tx.v0 # Nil, Active(tx), intent, cosigned)
        BY <1>1, Zenon
      <4>2. QED
        BY <2>1, <4>1, CarriesSigned, ZenonT(40)
    <3>2. tx' = u /\ intent' = intent /\ cosigned' = signed
      BY <2>2, Zenon
    <3> HIDE DEF u, signed
    <3>3. QED
      BY <3>1, <3>2, Zenon
  <2>4. QED
    BY <1>1, <2>2, <2>3, Zenon DEF CarryInv
<1>6. ASSUME SignRefused PROVE CarryInv'
  BY <1>1, <1>6, Zenon DEF SignRefused, CarryInv, Active
<1>7. ASSUME Marshal PROVE CarryInv'
  <2>1. /\ wire'.sigs = WireSigs(tx) /\ wire'.v0 = (tx.v0 # Nil) /\ wire'.msg = Active(tx)
        /\ wire'.intent = intent /\ wire'.cosigned = cosigned
    BY <1>7 DEF Marshal
  <2>2. UNCHANGED <<tx, intent, cosigned>>
    BY <1>7, Zenon DEF Marshal
  <2>3. Carries(wire'.sigs, wire'.v0, wire'.msg, wire'.intent, wire'.cosigned)
    BY <1>1, <2>1, CarriesMarshalled, Zenon
  <2>4. Carries(tx'.sigs, tx'.v0 # Nil, Active(tx'), intent', cosigned')
    BY <1>1, <2>2, Zenon
  <2>5. QED
    BY <2>3, <2>4, Zenon DEF CarryInv
<1>8. ASSUME NEW w \in Foreign, Receive(w) PROVE CarryInv'
  <2>1. UNCHANGED <<tx, intent, cosigned>> /\ wire' = w /\ w.intent = Nil
    BY <1>8, ForeignType, Zenon DEF Receive
  <2>2. Carries(tx'.sigs, tx'.v0 # Nil, Active(tx'), intent', cosigned')
    BY <1>1, <2>1, Zenon
  <2>3. QED
    BY <2>1, <2>2, CarriesNothing, Zenon DEF CarryInv
<1>9. ASSUME NEW n \in Cuts, NEW t \in Txs, Unmarshal(n, t), wire.v0 \/ t.v0 = Nil PROVE CarryInv'
  <2>1. wire # Nil /\ wire' = wire /\ wire \in Wires
    <3>1. wire # Nil /\ wire' = wire
      BY <1>9, Zenon DEF Unmarshal
    <3>2. QED
      BY <1>1, <3>1, Zenon
  <2>2. Carries(tx'.sigs, tx'.v0 # Nil, Active(tx'), intent', cosigned')
    <3>1. CASE Accepts(wire, n)
      <4>1. /\ tx'.sigs = wire.sigs /\ (tx'.v0 # Nil) = wire.v0 /\ Active(tx') = wire.msg
            /\ intent' = wire.intent /\ cosigned' = wire.cosigned
        BY <1>9, <2>1, <3>1, AcceptedCarries, Zenon
      <4>2. QED
        BY <1>1, <2>1, <4>1, Zenon
    <3>2. CASE ~ Accepts(wire, n)
      <4>1. intent' = Nil
        BY <1>9, <3>2, Zenon DEF Unmarshal
      <4>2. QED
        BY <4>1, CarriesNothing, Zenon
    <3>3. QED
      BY <3>1, <3>2
  <2>3. QED
    BY <1>1, <2>1, <2>2, Zenon DEF CarryInv
<1>10. ASSUME NEW n \in Cuts, UnmarshalFresh(n) PROVE CarryInv'
  BY <1>9, <1>10, FreshType, Zenon DEF UnmarshalFresh
<1>11. ASSUME NEW n \in Cuts, UnmarshalReused(n) PROVE CarryInv'
  <2>1. Unmarshal(n, tx) /\ MayReuse /\ wire # Nil
    BY <1>11, Zenon DEF UnmarshalReused, Unmarshal
  <2>2. QED
    BY <1>1, <1>9, <2>1, ReuseIsSafe, Zenon
<1>12. CASE UNCHANGED vars
  BY <1>1, <1>12, Zenon DEF vars, CarryInv, Active
<1>13. QED
  BY <1>2, <1>3, <1>4, <1>5, <1>6, <1>7, <1>8, <1>10, <1>11, <1>12, Zenon DEF Next

-----------------------------------------------------------------------------
(***************************************************************************)
(* A slot for every signer.                                                *)
(***************************************************************************)
\* Slotted looks at the number of slots and the header only.
LEMMA SameSlots ==
  ASSUME NEW s, NEW u, NEW v0, NEW m, NEW o,
         Len(s) = Len(u), m.req = o.req, Len(m.keys) = Len(o.keys), Slotted(s, v0, m)
  PROVE  Slotted(u, v0, o)
  BY Zenon DEF Slotted, Bounds, HeaderFits

LEMMA EnoughSlots ==
  ASSUME NEW s, NEW v0, NEW m, Len(s) >= m.req
  PROVE  Slotted(s, v0, m)
  BY Zenon DEF Slotted, Bounds

\* Whoever sends too few slots is a witness that somebody does.
LEMMA ForeignSlots ==
  ASSUME NEW w \in Foreign
  PROVE  Slotted(w.sigs, w.v0, w.msg)
<1>1. Len(w.sigs) \in Nat /\ w.msg.req \in Nat
  BY ForeignType, WireType, MessageType, Zenon
<1>2. CASE Len(w.sigs) >= w.msg.req
  BY <1>2, EnoughSlots, Zenon
<1>3. CASE Len(w.sigs) < w.msg.req
  BY <1>3, Zenon DEF Slotted, ShortWire
<1>4. QED
  BY <1>1, <1>2, <1>3

\* A new object has the slots of the bytes, or nothing of them.
LEMMA FreshSlots ==
  ASSUME NEW w \in Wires, NEW n \in Nat, Slotted(w.sigs, w.v0, w.msg)
  PROVE  LET u == Unmarshalled(Fresh, w, n) IN Slotted(u.sigs, u.v0 # Nil, Active(u))
<1> DEFINE u == Unmarshalled(Fresh, w, n)
           sigs == SigsRead(w, n)
<1>1. ReadInto(u, Fresh, w, n)
  BY UnmarshalledCases
<1>2. Fresh \in Txs /\ Active(Fresh) = EmptyMessage /\ Len(Fresh.sigs) >= EmptyMessage.req
  BY FreshType DEF Fresh, EmptyMessage
<1>3. Len(sigs) = Len(w.sigs)
  BY SigsReadType
<1>4. u = Fresh \/ u.sigs = sigs
  BY <1>1, <1>2 DEF ReadInto, Txs
<1>5. Bounds(w.sigs, w.v0, w.msg) => Bounds(u.sigs, u.v0 # Nil, Active(u))
  BY FreshBounds, Zenon
<1> HIDE DEF u, sigs
<1>6. CASE u = Fresh
  <2>1. Len(u.sigs) >= Active(u).req
    BY <1>2, <1>6
  <2>2. QED
    BY <2>1, EnoughSlots, Zenon DEF u
<1>7. CASE u.sigs = sigs
  BY <1>3, <1>5, <1>7, Zenon DEF Slotted, u
<1>8. QED
  BY <1>4, <1>6, <1>7

LEMMA BoundInit == Init => BoundInv
<1>1. Len(<<>>) >= EmptyMessage.req
  BY DEF EmptyMessage
<1>2. Fresh.sigs = <<>> /\ Active(Fresh) = EmptyMessage
  BY FreshType DEF Fresh
<1>3. Slotted(Fresh.sigs, Fresh.v0 # Nil, Active(Fresh))
  BY <1>1, <1>2, EnoughSlots, Zenon
<1>4. QED
  BY <1>3, Zenon DEF Init, BoundInv

LEMMA BoundStep ==
  ASSUME Reuse # "any", TypeOK, BoundInv, [Next]_vars
  PROVE  BoundInv'
<1>1. /\ tx \in Txs /\ Active(tx) \in Messages
      /\ wire # Nil => wire \in Wires
      /\ ~ torn => Slotted(tx.sigs, tx.v0 # Nil, Active(tx))
      /\ wire # Nil => Slotted(wire.sigs, wire.v0, wire.msg)
  BY ActiveType, Zenon DEF TypeOK, BoundInv
<1>2. ASSUME NEW o \in Orders, Compile(o) PROVE BoundInv'
  <2>1. tx' = CompiledInto(o) /\ ~ TooManyAccounts(o.payer, o.ixs) /\ UNCHANGED wire
    BY <1>2, Zenon DEF Compile, CompiledInto
  <2> DEFINE u == CompiledInto(o)
  <2>2. u \in Txs /\ Len(u.sigs) = Active(u).req
    BY <2>1, CompiledTx, Zenon
  <2> HIDE DEF u
  <2>3. Len(u.sigs) >= Active(u).req
    <3>1. Active(u).req \in Nat
      BY <2>2, ActiveType, MessageType, Zenon
    <3>2. QED
      BY <2>2, <3>1
  <2>4. Slotted(tx'.sigs, tx'.v0 # Nil, Active(tx'))
    BY <2>1, <2>3, EnoughSlots, Zenon DEF u
  <2>5. QED
    BY <1>1, <2>1, <2>4, Zenon DEF BoundInv
<1>3. ASSUME NEW o \in Orders, CompileRefused(o) PROVE BoundInv'
  BY <1>1, <1>3, Zenon DEF CompileRefused, BoundInv, Active
<1>4. ASSUME NEW h \in Hashes, SetBlockhash(h) PROVE BoundInv'
  <2>1. h \in Texts
    BY SolanaAssumption
  <2>2. UNCHANGED <<wire, torn>>
    BY <1>4, Zenon DEF SetBlockhash
  <2>3. /\ tx'.sigs = tx.sigs /\ (tx'.v0 # Nil <=> tx.v0 # Nil)
        /\ Active(tx') = [Active(tx) EXCEPT !.hash = h]
    <3>1. tx' = Rehash(tx, h)
      BY <1>4, Zenon DEF SetBlockhash, Rehash
    <3>2. tx \in Txs
      BY <1>1
    <3>3. QED
      BY <2>1, <3>1, <3>2, Rehashed, Zenon
  <2>4. /\ [Active(tx) EXCEPT !.hash = h].req = Active(tx).req
        /\ [Active(tx) EXCEPT !.hash = h].keys = Active(tx).keys
    BY <1>1 DEF Messages
  <2>5. (tx'.v0 # Nil) = (tx.v0 # Nil)
    BY <2>3, Zenon
  <2>6. ~ torn => Slotted(tx'.sigs, tx'.v0 # Nil, Active(tx'))
    BY <1>1, <2>3, <2>4, <2>5, SameSlots, Zenon
  <2>7. QED
    BY <1>1, <2>2, <2>6, Zenon DEF BoundInv
<1>5. ASSUME NEW ks \in KeyLists, Sign(ks) PROVE BoundInv'
  <2>1. UNCHANGED <<wire, torn>> /\ tx' = SignedInto(tx, ks, StopsAt(tx, ks) - 1)
    BY <1>5, Zenon DEF Sign, SignedInto
  <2> DEFINE n == StopsAt(tx, ks) - 1
             u == SignedInto(tx, ks, n)
  <2> HIDE DEF n
  <2>2. u.sigs = SignedBy(tx, ks, n) /\ u.v0 = tx.v0 /\ Active(u) = Active(tx)
    BY <1>1, SignedTx, Zenon
  <2>3. Len(SignedBy(tx, ks, n)) = Len(tx.sigs)
    BY <1>1, SignedByType, Zenon
  <2> HIDE DEF u
  <2>4. ~ torn => Slotted(u.sigs, u.v0 # Nil, Active(u))
    BY <1>1, <2>2, <2>3, SameSlots, Zenon
  <2>5. tx' = u
    BY <2>1, Zenon DEF n, u
  <2>6. QED
    BY <1>1, <2>1, <2>4, <2>5, Zenon DEF BoundInv
<1>6. ASSUME SignRefused PROVE BoundInv'
  BY <1>1, <1>6, Zenon DEF SignRefused, BoundInv, Active
<1>7. ASSUME Marshal PROVE BoundInv'
  <2>1. wire'.sigs = WireSigs(tx) /\ wire'.v0 = (tx.v0 # Nil) /\ wire'.msg = Active(tx)
    BY <1>7 DEF Marshal
  <2>2. UNCHANGED <<tx, torn>> /\ ~ torn
    BY <1>7, Zenon DEF Marshal
  <2>3. Len(WireSigs(tx)) = Len(tx.sigs)
    BY <1>1, WireSigsType, Zenon
  <2>4. Slotted(WireSigs(tx), tx.v0 # Nil, Active(tx))
    BY <1>1, <2>2, <2>3, SameSlots, Zenon
  <2>5. Slotted(wire'.sigs, wire'.v0, wire'.msg)
    BY <2>1, <2>4, Zenon
  <2>6. Slotted(tx'.sigs, tx'.v0 # Nil, Active(tx'))
    BY <1>1, <2>2, Zenon
  <2>7. QED
    BY <2>5, <2>6, Zenon DEF BoundInv
<1>8. ASSUME NEW w \in Foreign, Receive(w) PROVE BoundInv'
  <2>1. UNCHANGED <<tx, torn>> /\ wire' = w
    BY <1>8, Zenon DEF Receive
  <2>2. Slotted(w.sigs, w.v0, w.msg)
    BY ForeignSlots, Zenon
  <2>3. QED
    BY <1>1, <2>1, <2>2, Zenon DEF BoundInv, Active
<1>9. ASSUME NEW n \in Cuts, NEW t \in Txs, Unmarshal(n, t), wire.v0 \/ t.v0 = Nil PROVE BoundInv'
  <2>1. /\ wire # Nil /\ wire' = wire /\ tx' = Unmarshalled(t, wire, n)
        /\ torn' = (t # Fresh /\ ~ Accepts(wire, n))
    BY <1>9, Zenon DEF Unmarshal
  <2>2. wire \in Wires /\ Slotted(wire.sigs, wire.v0, wire.msg)
    BY <1>1, <2>1, Zenon
  <2>3. CASE Accepts(wire, n)
    <3>1. tx'.sigs = wire.sigs /\ (tx'.v0 # Nil) = wire.v0 /\ Active(tx') = wire.msg
      BY <1>9, <2>2, <2>3, AcceptedCarries, Zenon
    <3>2. QED
      BY <2>1, <2>2, <3>1, Zenon DEF BoundInv
  <2>4. CASE t = Fresh
    <3> DEFINE u == Unmarshalled(Fresh, wire, n)
    <3>1. Slotted(u.sigs, u.v0 # Nil, Active(u))
      BY <2>2, CutsType, FreshSlots, Zenon
    <3> HIDE DEF u
    <3>2. tx' = u
      BY <2>1, <2>4, Zenon DEF u
    <3>3. QED
      BY <2>1, <2>2, <3>1, <3>2, Zenon DEF BoundInv
  <2>5. CASE t # Fresh /\ ~ Accepts(wire, n)
    <3>1. torn' = TRUE
      BY <2>1, <2>5, Zenon
    <3>2. QED
      BY <2>1, <2>2, <3>1, Zenon DEF BoundInv
  <2>6. QED
    BY <2>3, <2>4, <2>5
<1>10. ASSUME NEW n \in Cuts, UnmarshalFresh(n) PROVE BoundInv'
  BY <1>9, <1>10, FreshType, Zenon DEF UnmarshalFresh
<1>11. ASSUME NEW n \in Cuts, UnmarshalReused(n) PROVE BoundInv'
  <2>1. Unmarshal(n, tx) /\ MayReuse /\ wire # Nil
    BY <1>11, Zenon DEF UnmarshalReused, Unmarshal
  <2>2. QED
    BY <1>1, <1>9, <2>1, ReuseIsSafe, Zenon
<1>12. CASE UNCHANGED vars
  BY <1>1, <1>12, Zenon DEF vars, BoundInv, Active
<1>13. QED
  BY <1>2, <1>3, <1>4, <1>5, <1>6, <1>7, <1>8, <1>10, <1>11, <1>12, Zenon DEF Next

-----------------------------------------------------------------------------
(***************************************************************************)
(* The theorems.                                                           *)
(***************************************************************************)
\* Everything but Sign and the last bytes of a wire leaves other answers.
LEMMA Answers ==
  ASSUME Next
  PROVE  /\ out'.op = "sign" => SignRefused \/ \E ks \in KeyLists : Sign(ks)
         /\ out'.op = "unmarshal" =>
               \E n \in Cuts : n = Whole /\ (UnmarshalFresh(n) \/ UnmarshalReused(n))
<1>1. ASSUME NEW o \in Orders, Compile(o) \/ CompileRefused(o)
      PROVE  out'.op \notin {"sign", "unmarshal"}
  BY <1>1 DEF Compile, CompileRefused
<1>2. ASSUME NEW h \in Hashes, SetBlockhash(h) PROVE out'.op \notin {"sign", "unmarshal"}
  BY <1>2 DEF SetBlockhash
<1>3. ASSUME NEW ks \in KeyLists, Sign(ks) PROVE out'.op # "unmarshal"
  BY <1>3 DEF Sign
<1>4. ASSUME SignRefused PROVE out'.op # "unmarshal"
  BY <1>4 DEF SignRefused
<1>5. ASSUME Marshal PROVE out'.op \notin {"sign", "unmarshal"}
  BY <1>5 DEF Marshal
<1>6. ASSUME NEW w \in Foreign, Receive(w) PROVE out'.op \notin {"sign", "unmarshal"}
  BY <1>6 DEF Receive
<1>7. ASSUME NEW n \in Cuts, UnmarshalFresh(n) \/ UnmarshalReused(n)
      PROVE  out'.op # "sign" /\ (out'.op = "unmarshal" => n = Whole)
  <2>1. PICK t : Unmarshal(n, t)
    BY <1>7 DEF UnmarshalFresh, UnmarshalReused
  <2>2. out'.op = IF n = Whole THEN "unmarshal" ELSE "unmarshal cut"
    BY <2>1 DEF Unmarshal
  <2>3. QED
    BY <2>2
<1>8. QED
  BY <1>1, <1>2, <1>3, <1>4, <1>5, <1>6, <1>7 DEF Next

\* A key that stops Sign has no slot at all when every signer has one.
LEMMA SignReturns ==
  ASSUME NEW t \in Txs, NEW ks \in Seq(Nat), HeaderFits(Active(t)),
         Len(t.sigs) >= Active(t).req
  PROVE  SignResult(t, ks) # "panic"
<1> DEFINE m == Active(t)
           stop == StopsAt(t, ks)
           slot == SlotOf(m, ks[stop])
<1>1. /\ m \in Messages /\ t.sigs \in Seq(Slots) /\ m.req \in Nat
      /\ DOMAIN t.sigs = 1..Len(t.sigs) /\ Len(t.sigs) \in Nat
  BY ActiveType, MessageType
<1>2. Len(t.sigs) >= m.req
  OBVIOUS
<1>3. /\ slot \in Int /\ slot >= 0
      /\ slot >= 1 => slot <= m.req
  BY <1>1, SlotOfSpec, Zenon
<1>4. stop \in 1..(Len(ks) + 1) /\ (stop <= Len(ks) => slot \notin DOMAIN t.sigs)
  BY StopsAtSpec, Zenon
<1>5. SignResult(t, ks) = IF stop > Len(ks) THEN "ok" ELSE IF slot = 0 THEN "unknown key" ELSE "panic"
  BY Zenon DEF SignResult
<1> HIDE DEF slot, stop, m
<1>6. CASE stop > Len(ks)
  BY <1>5, <1>6
<1>7. CASE ~ (stop > Len(ks))
  <2>1. slot \notin 1..Len(t.sigs)
    BY <1>1, <1>4, <1>7
  <2>2. slot = 0
    BY <1>1, <1>2, <1>3, <2>1
  <2>3. QED
    BY <1>5, <1>7, <2>2
<1>8. QED
  BY <1>6, <1>7

LEMMA SignStep ==
  ASSUME TypeOK, CarryInv, BoundInv, PanicsOnlyWhenShort, [Next]_vars
  PROVE  PanicsOnlyWhenShort'
<1>1. CASE UNCHANGED vars
  BY <1>1, Zenon DEF vars, PanicsOnlyWhenShort, Active
<1>2. CASE Next /\ out'.op # "sign"
  BY <1>2, Zenon DEF PanicsOnlyWhenShort
<1>3. CASE SignRefused
  BY <1>3 DEF SignRefused, PanicsOnlyWhenShort
<1>4. ASSUME NEW ks \in KeyLists, Sign(ks) PROVE PanicsOnlyWhenShort'
  <2>1. ks \in Seq(Nat) /\ tx \in Txs
    BY SolanaAssumption, Zenon DEF TypeOK
  <2>2. /\ HeaderFits(Active(tx)) /\ out' = [op |-> "sign", res |-> SignResult(tx, ks)]
        /\ UNCHANGED <<intent, torn>> /\ tx' = SignedInto(tx, ks, StopsAt(tx, ks) - 1)
    BY <1>4, Zenon DEF Sign, SignedInto
  <2>3. Len(tx'.sigs) = Len(tx.sigs) /\ Active(tx') = Active(tx)
    <3> DEFINE n == StopsAt(tx, ks) - 1
               u == SignedInto(tx, ks, n)
    <3> HIDE DEF n
    <3>1. u.sigs = SignedBy(tx, ks, n) /\ Active(u) = Active(tx)
      BY <2>1, SignedTx, Zenon
    <3>2. Len(SignedBy(tx, ks, n)) = Len(tx.sigs)
      BY <2>1, SignedByType, Zenon
    <3> HIDE DEF u
    <3>3. tx' = u
      BY <2>2, Zenon DEF n, u
    <3>4. QED
      BY <3>1, <3>2, <3>3
  <2>4. out'.res = SignResult(tx, ks)
    BY <2>2
  <2>5. Len(tx.sigs) \in Nat /\ Active(tx).req \in Nat
    BY <2>1, ActiveType, MessageType DEF Txs
  <2>6. CASE Len(tx.sigs) >= Active(tx).req
    BY <2>1, <2>2, <2>4, <2>6, SignReturns, Zenon DEF PanicsOnlyWhenShort
  <2>7. CASE Len(tx.sigs) < Active(tx).req
    <3>1. ~ (Len(tx.sigs) >= Active(tx).req)
      BY <2>5, <2>7
    <3>2. intent = Nil
      BY <3>1, Zenon DEF CarryInv, Carries
    <3>3. ~ torn => ShortWire(Len(tx.sigs))
      BY <2>2, <3>1, Zenon DEF BoundInv, Slotted, Bounds
    <3>4. QED
      BY <2>2, <2>3, <2>7, <3>2, <3>3, Zenon DEF PanicsOnlyWhenShort
  <2>8. QED
    BY <2>5, <2>6, <2>7
<1>5. QED
  BY <1>1, <1>2, <1>3, <1>4, Answers

\* The orders whose messages have no version prefix for a first byte.
FewSigners == \A o \in Orders : NumSigners(o.payer, o.ixs) < Half

LEMMA ReadStep ==
  ASSUME Reuse # "any", FewSigners, TypeOK, CarryInv, BytesReadBack, [Next]_vars
  PROVE  BytesReadBack'
<1>1. CASE UNCHANGED vars
  BY <1>1, Zenon DEF vars, BytesReadBack, ParseYieldsWire, OwnBytesParse, MessageBytes, Active
<1>2. CASE Next /\ out'.op # "unmarshal"
  BY <1>2, Zenon DEF BytesReadBack, ParseYieldsWire, OwnBytesParse
<1>3. ASSUME NEW n \in Cuts, n = Whole, NEW t \in Txs, Unmarshal(n, t), wire.v0 \/ t.v0 = Nil
      PROVE  BytesReadBack'
  <2>1. /\ wire # Nil /\ wire' = wire
        /\ out' = [op |-> "unmarshal", res |-> IF Accepts(wire, n) THEN "ok" ELSE "error"]
    BY <1>3, Zenon DEF Unmarshal
  <2>2. /\ wire \in Wires /\ wire.v0 \in BOOLEAN /\ wire.msg \in Messages
        /\ wire.intent \in Orders \cup {Nil}
        /\ Carries(wire.sigs, wire.v0, wire.msg, wire.intent, wire.cosigned)
    BY <2>1, WireType, Zenon DEF TypeOK, CarryInv
  <2>3. out'.res = "ok" <=> Accepts(wire, n)
    BY <2>1
  <2>4. ParseYieldsWire'
    <3>1. SUFFICES ASSUME Accepts(wire, n)
                   PROVE  /\ MessageBytes(tx)' = [v0 |-> wire.v0, msg |-> wire.msg]
                          /\ tx'.sigs = wire.sigs
      BY <2>1, <2>3, Zenon DEF ParseYieldsWire
    <3>2. tx'.sigs = wire.sigs /\ (tx'.v0 # Nil) = wire.v0 /\ Active(tx') = wire.msg
      BY <1>3, <2>2, <3>1, AcceptedCarries, Zenon
    <3>3. MessageBytes(tx)' = [v0 |-> tx'.v0 # Nil, msg |-> Active(tx')]
      BY Zenon DEF MessageBytes, Active
    <3>4. QED
      BY <3>2, <3>3, Zenon
  <2>5. OwnBytesParse'
    <3>1. SUFFICES ASSUME wire.intent # Nil PROVE Accepts(wire, n)
      BY <2>1, <2>3, Zenon DEF OwnBytesParse
    <3> DEFINE o == wire.intent
    <3>2. o \in Orders /\ Carries(wire.sigs, wire.v0, wire.msg, o, wire.cosigned)
      BY <2>2, <3>1
    <3> HIDE DEF o
    <3>3. HeaderOK(wire.msg) /\ IndexesOK(wire.msg) /\ wire.msg.req = NumSigners(o.payer, o.ixs)
      BY <2>2, <3>2, CarriedMessage, SMT
    <3>4. wire.msg.req < Half
      BY <3>2, <3>3, Zenon DEF FewSigners
    <3>5. QED
      BY <1>3, <3>3, <3>4, Zenon DEF Accepts
  <2>6. QED
    BY <2>4, <2>5, Zenon DEF BytesReadBack
<1>4. ASSUME NEW n \in Cuts, n = Whole, UnmarshalFresh(n) PROVE BytesReadBack'
  BY <1>3, <1>4, FreshType, Zenon DEF UnmarshalFresh
<1>5. ASSUME NEW n \in Cuts, n = Whole, UnmarshalReused(n) PROVE BytesReadBack'
  <2>1. Unmarshal(n, tx) /\ MayReuse /\ wire # Nil /\ tx \in Txs
    BY <1>5, Zenon DEF UnmarshalReused, Unmarshal, TypeOK
  <2>2. QED
    BY <1>3, <1>5, <2>1, ReuseIsSafe, Zenon
<1>6. QED
  BY <1>1, <1>2, <1>4, <1>5, Answers

\* TypeOK: every operation keeps the transaction and the bytes well-formed, whatever
\* objects bytes are read into (SolanaTx, solanatx.go:96).
THEOREM TypeSafety == Spec => []TypeOK
  BY TypeInit, TypeStep, PTL DEF Spec

\* SolanaInv: what belongs to an order keeps carrying it, and no slot is missing.  An
\* object that holds a v0 message must not be used for reading a legacy one, as
\* UnmarshalBinary leaves MessageV0 in place (solanatx.go:495); run SolanaLife
\* reuses objects in this way.
THEOREM Invariance == ASSUME Reuse # "any" PROVE Spec => []SolanaInv
<1>1. Init => SolanaInv
  BY TypeInit, CarryInit, BoundInit DEF SolanaInv
<1>2. SolanaInv /\ [Next]_vars => SolanaInv'
  BY TypeStep, CarryStep, BoundStep DEF SolanaInv
<1>3. QED
  BY <1>1, <1>2, PTL DEF Spec

\* CompiledMeansInstructions: the message says what was ordered, for all orders that
\* NewSolanaTx accepts (solanatx.go:139).
THEOREM MeaningSafety == ASSUME Reuse # "any" PROVE Spec => []CompiledMeansInstructions
<1>1. SolanaInv => CompiledMeansInstructions
  BY CarryMeans DEF SolanaInv
<1>2. QED
  BY <1>1, Invariance, PTL

\* VerifyMeansAllSigned: when Verify passes, every account the order needs has signed
\* the present message (solanatx.go:434).
THEOREM VerifySafety == ASSUME Reuse # "any" PROVE Spec => []VerifyMeansAllSigned
<1>1. SolanaInv => VerifyMeansAllSigned
  BY CarryMeans DEF SolanaInv
<1>2. QED
  BY <1>1, Invariance, PTL

\* CosigningCompletes: once all have signed, in any number of calls and through any
\* number of objects, Verify passes (solanatx.go:387).
THEOREM CosigningSafety == ASSUME Reuse # "any" PROVE Spec => []CosigningCompletes
<1>1. SolanaInv => CosigningCompletes
  BY CarryMeans DEF SolanaInv
<1>2. QED
  BY <1>1, Invariance, PTL

\* PanicsOnlyWhenShort: Sign indexes out of range for want of a slot only, and only in
\* what came from bytes that had too few (solanatx.go:429, 502).
THEOREM SignSafety == ASSUME Reuse # "any" PROVE Spec => []PanicsOnlyWhenShort
<1>1. Init => PanicsOnlyWhenShort
  BY DEF Init, PanicsOnlyWhenShort
<1>2. SolanaInv /\ PanicsOnlyWhenShort /\ [Next]_vars => PanicsOnlyWhenShort'
  BY SignStep DEF SolanaInv
<1>3. QED
  BY <1>1, <1>2, Invariance, PTL DEF Spec

\* BytesReadBack: bytes are read as what they say and the program's own are always
\* read, for orders whose number of signers leaves the version bit of the message's
\* first byte alone (solanatx.go:495).
THEOREM ReadBackSafety ==
  ASSUME Reuse # "any", FewSigners PROVE Spec => []BytesReadBack
<1>1. Init => BytesReadBack
  BY DEF Init, BytesReadBack, ParseYieldsWire, OwnBytesParse
<1>2. SolanaInv /\ BytesReadBack /\ [Next]_vars => BytesReadBack'
  BY ReadStep DEF SolanaInv
<1>3. QED
  BY <1>1, <1>2, Invariance, PTL DEF Spec

\* SignKeepsOthers: a valid signature stays valid through every call of Sign, whatever
\* the transaction went through before (solanatx.go:412).
THEOREM SignKeeps == Spec => SignKeepsOthers
<1>1. ASSUME TypeOK, Next, out'.op = "sign", NEW i \in DOMAIN tx.sigs, SlotOK(tx, i)
      PROVE  SlotOK(tx', i)
  <2>1. CASE SignRefused
    BY <1>1, <2>1, Zenon DEF SignRefused
  <2>2. ASSUME NEW ks \in KeyLists, Sign(ks) PROVE SlotOK(tx', i)
    <3> DEFINE n == StopsAt(tx, ks) - 1
               u == SignedInto(tx, ks, n)
               sig == Sig(Active(tx).keys[i], tx)
    <3>1. tx' = u
      BY <2>2, Zenon DEF Sign, SignedInto
    <3> HIDE DEF n
    <3>2. /\ u.sigs = SignedBy(tx, ks, n) /\ Active(u) = Active(tx)
          /\ MessageBytes(u) = MessageBytes(tx)
      BY <1>1, SignedTx, Zenon DEF TypeOK
    <3>3. /\ DOMAIN SignedBy(tx, ks, n) = DOMAIN tx.sigs
          /\ SignedBy(tx, ks, n)[i] \in {sig, tx.sigs[i]}
      <4>1. tx \in Txs
        BY <1>1 DEF TypeOK
      <4>2. /\ DOMAIN SignedBy(tx, ks, n) = DOMAIN tx.sigs
            /\ \A j \in DOMAIN tx.sigs :
                  SignedBy(tx, ks, n)[j] = IF \E p \in 1..n : SlotOf(Active(tx), ks[p]) = j
                                          THEN Sig(Active(tx).keys[j], tx) ELSE tx.sigs[j]
        BY <4>1, SignedByType
      <4>3. SignedBy(tx, ks, n)[i] = IF \E p \in 1..n : SlotOf(Active(tx), ks[p]) = i
                                     THEN sig ELSE tx.sigs[i]
        BY <1>1, <4>2, Zenon
      <4> HIDE DEF sig
      <4>4. QED
        BY <4>2, <4>3
    <3> HIDE DEF u
    <3>4. tx.sigs[i] = sig /\ i \in DOMAIN Active(tx).keys
      BY <1>1, Zenon DEF SlotOK
    <3>5. Sig(Active(u).keys[i], u) = sig
      BY <3>2, Zenon DEF Sig
    <3>6. SlotOK(u, i)
      BY <1>1, <3>2, <3>3, <3>4, <3>5, Zenon DEF SlotOK
    <3>7. QED
      BY <3>1, <3>6, Zenon
  <2>3. QED
    BY <1>1, <2>1, <2>2, Answers
<1>2. TypeOK /\ [Next]_vars =>
         [out'.op = "sign" => \A i \in DOMAIN tx.sigs : SlotOK(tx, i) => SlotOK(tx', i)]_vars
  BY <1>1, Zenon
<1>3. QED
  BY <1>2, TypeSafety, PTL DEF Spec, SignKeepsOthers
=============================================================================
