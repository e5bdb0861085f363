--------------------------- MODULE CardanoTxProofs ---------------------------
(***************************************************************************)
(* A CardanoTx, for all drafts, signers, requests, inputs, fees and every  *)
(* width of an amount: sums of assets are exact, SignWith leaves everyone  *)
(* it was asked for with a witness over the body, and the transaction      *)
(* keeps the promise of Approvals, also when it is written and read back.  *)
(***************************************************************************)
EXTENDS CardanoTx, SharedLemmas

(***************************************************************************)
(* The sums of assets.                                                     *)
(***************************************************************************)
Empty == [ok |-> TRUE, map |-> <<>>]

\* f[n] is what cardanoAssetMap has in hand after n assets.
RunsOut(f, assets, top) ==
    f = [n \in 0..top |-> IF n = 0 THEN Empty ELSE AddAsset(f[n - 1], assets[n])]

\* s[n] is the sum of unit u in the first n assets.
RunsSum(s, assets, u, top) ==
    s = [n \in 0..top |-> IF n = 0 THEN 0
                          ELSE s[n - 1] + IF assets[n].unit = u THEN assets[n].amount ELSE 0]

LEMMA OutExists == ASSUME NEW assets, NEW top \in Nat PROVE \E f : RunsOut(f, assets, top)
<1> DEFINE S == { n \in Nat : \E f : RunsOut(f, assets, n) }
<1>1. 0 \in S
  <2> DEFINE g == [n \in 0..0 |-> Empty]
  <2>1. \A n \in 0..0 : n = 0
    OBVIOUS
  <2>2. RunsOut(g, assets, 0)
    BY <2>1 DEF RunsOut
  <2>3. QED
    BY <2>2
<1>2. ASSUME NEW n \in Nat, n \in S PROVE n + 1 \in S
  <2>1. PICK f : RunsOut(f, assets, n)
    BY <1>2
  <2> DEFINE g == [k \in 0..n + 1 |-> IF k = n + 1 THEN AddAsset(f[n], assets[n + 1]) ELSE f[k]]
             h == [k \in 0..n + 1 |-> IF k = 0 THEN Empty ELSE AddAsset(g[k - 1], assets[k])]
  <2>2. ASSUME NEW k \in 0..n + 1 PROVE g[k] = h[k]
    <3>1. CASE k = n + 1
      <4>1. g[k] = AddAsset(f[n], assets[n + 1])
        BY <3>1
      <4>2. g[k - 1] = f[n]
        BY <3>1
      <4>3. h[k] = AddAsset(g[k - 1], assets[k])
        BY <3>1
      <4>4. QED
        BY <3>1, <4>1, <4>2, <4>3, Zenon
    <3>2. CASE k # n + 1
      <4>1. k \in 0..n /\ g[k] = f[k] /\ (k # 0 => k - 1 \in 0..n + 1 /\ g[k - 1] = f[k - 1])
        BY <3>2
      <4>2. f[k] = IF k = 0 THEN Empty ELSE AddAsset(f[k - 1], assets[k])
        BY <2>1, <4>1, Zenon DEF RunsOut
      <4>3. h[k] = IF k = 0 THEN Empty ELSE AddAsset(g[k - 1], assets[k])
        BY Zenon
      <4> HIDE DEF g, h
      <4>4. QED
        BY <4>1, <4>2, <4>3, Zenon
    <3>3. QED
      BY <3>1, <3>2
  <2>3. RunsOut(g, assets, n + 1)
    <3>1. g = h
      BY <2>2, Zenon
    <3> HIDE DEF g
    <3>2. QED
      BY <3>1, Zenon DEF RunsOut
  <2> HIDE DEF g
  <2>4. QED
    BY <2>3
<1> HIDE DEF S
<1>3. top \in S
  BY <1>1, <1>2, Induct
<1>4. QED
  BY <1>3 DEF S

\* The result is the last element of a run.
LEMMA MapRuns ==
  ASSUME NEW assets, Len(assets) \in Nat
  PROVE  \E f : RunsOut(f, assets, Len(assets)) /\ cardanoAssetMap(assets) = f[Len(assets)]
<1> DEFINE L == Len(assets)
           f == CHOOSE f : RunsOut(f, assets, L)
<1>1. RunsOut(f, assets, L)
  BY OutExists, Zenon
<1>2. cardanoAssetMap(assets) = f[L]
  BY Zenon DEF cardanoAssetMap, RunsOut, Empty
<1> HIDE DEF f
<1>3. QED
  BY <1>1, <1>2

LEMMA SumExists == ASSUME NEW assets, NEW u, NEW top \in Nat PROVE \E s : RunsSum(s, assets, u, top)
<1> DEFINE S == { n \in Nat : \E s : RunsSum(s, assets, u, n) }
           Of(n) == IF assets[n].unit = u THEN assets[n].amount ELSE 0
<1>1. 0 \in S
  <2> DEFINE g == [n \in 0..0 |-> 0]
  <2>1. \A n \in 0..0 : n = 0
    OBVIOUS
  <2>2. RunsSum(g, assets, u, 0)
    BY <2>1 DEF RunsSum
  <2>3. QED
    BY <2>2
<1>2. ASSUME NEW n \in Nat, n \in S PROVE n + 1 \in S
  <2>1. PICK f : RunsSum(f, assets, u, n)
    BY <1>2
  <2> DEFINE g == [k \in 0..n + 1 |-> IF k = n + 1 THEN f[n] + Of(n + 1) ELSE f[k]]
             h == [k \in 0..n + 1 |-> IF k = 0 THEN 0 ELSE g[k - 1] + Of(k)]
  <2>2. ASSUME NEW k \in 0..n + 1 PROVE g[k] = h[k]
    <3>1. CASE k = n + 1
      <4> HIDE DEF Of
      <4>1. g[k] = f[n] + Of(n + 1)
        BY <3>1
      <4>2. g[k - 1] = f[n]
        BY <3>1
      <4>3. h[k] = g[k - 1] + Of(k)
        BY <3>1
      <4>4. QED
        BY <3>1, <4>1, <4>2, <4>3, Zenon
    <3>2. CASE k # n + 1
      <4>1. k \in 0..n /\ g[k] = f[k] /\ (k # 0 => k - 1 \in 0..n + 1 /\ g[k - 1] = f[k - 1])
        BY <3>2
      <4>2. f[k] = IF k = 0 THEN 0 ELSE f[k - 1] + Of(k)
        BY <2>1, <4>1, Zenon DEF RunsSum
      <4>3. h[k] = IF k = 0 THEN 0 ELSE g[k - 1] + Of(k)
        BY Zenon
      <4> HIDE DEF g, h, Of
      <4>4. QED
        BY <4>1, <4>2, <4>3, Zenon
    <3>3. QED
      BY <3>1, <3>2
  <2>3. RunsSum(g, assets, u, n + 1)
    <3>1. g = h
      BY <2>2, Zenon
    <3> HIDE DEF g
    <3>2. QED
      BY <3>1, Zenon DEF RunsSum
  <2> HIDE DEF g
  <2>4. QED
    BY <2>3
<1> HIDE DEF S
<1>3. top \in S
  BY <1>1, <1>2, Induct
<1>4. QED
  BY <1>3 DEF S

LEMMA TotalRuns ==
  ASSUME NEW assets, NEW u, Len(assets) \in Nat
  PROVE  \E s : RunsSum(s, assets, u, Len(assets)) /\ Total(assets, u) = s[Len(assets)]
<1> DEFINE L == Len(assets)
           s == CHOOSE s : RunsSum(s, assets, u, L)
<1>1. RunsSum(s, assets, u, L)
  BY SumExists, Zenon
<1>2. Total(assets, u) = s[L]
  BY Zenon DEF Total, RunsSum
<1> HIDE DEF s
<1>3. QED
  BY <1>1, <1>2

\* A sum of two uint64 is less than the first exactly when it is too large for one.
LEMMA SumWraps ==
  ASSUME Top \in Nat \ {0}, NEW x \in 0..Top-1, NEW y \in 0..Top-1
  PROVE  IF x + y < Top THEN (x + y) % Top = x + y ELSE (x + y) % Top < x
<1>1. CASE x + y < Top
  BY <1>1
<1>2. CASE x + y >= Top
  <2>1. x + y - Top \in 0..Top-1 /\ x + y - Top < x
    BY <1>2
  <2>2. (x + y) % Top = x + y - Top
    <3>1. x + y = 1 * Top + (x + y - Top)
      OBVIOUS
    <3>2. QED
      BY <1>2, <2>1, <3>1
  <2>3. QED
    BY <1>2, <2>1, <2>2
<1>3. QED
  BY <1>1, <1>2

\* r holds the sums T of the units D, or one of them is too large.
Holds(r, D, T) ==
    /\ r.ok \in BOOLEAN /\ (r.ok <=> \A u \in D : T[u] < Top)
    /\ r.ok => r.map = [u \in D |-> T[u]]

LEMMA AddAssetAdds ==
  ASSUME Top \in Nat \ {0}, NEW a \in Assets, NEW D, NEW r,
         NEW T \in [D \cup {a.unit} -> Nat], a.unit \notin D => T[a.unit] = 0, Holds(r, D, T)
  PROVE  Holds(AddAsset(r, a), D \cup {a.unit},
               [u \in D \cup {a.unit} |-> T[u] + IF u = a.unit THEN a.amount ELSE 0])
<1> DEFINE E == D \cup {a.unit}
           T2 == [u \in E |-> T[u] + IF u = a.unit THEN a.amount ELSE 0]
           prev == IF a.unit \in DOMAIN r.map THEN r.map[a.unit] ELSE 0
           sum == (prev + a.amount) % Top
<1>1. a.amount \in 0..Top-1
  BY DEF Assets
<1>2. /\ \A u \in E : u # a.unit => T2[u] = T[u]
      /\ \A u \in E : T[u] \in Nat /\ T2[u] \in Nat /\ T[u] <= T2[u]
      /\ T2[a.unit] = T[a.unit] + a.amount /\ a.unit \in E
  BY <1>1
<1>3. CASE ~ r.ok
  <2>1. AddAsset(r, a) = Overflow
    BY <1>3 DEF AddAsset
  <2>2. PICK u \in D : ~ (T[u] < Top)
    BY <1>3 DEF Holds
  <2> HIDE DEF T2
  <2>3. u \in E /\ ~ (T2[u] < Top)
    BY <1>2, <2>2
  <2> HIDE DEF E
  <2>4. Holds(Overflow, E, T2)
    BY <2>3 DEF Holds, Overflow
  <2>5. QED
    BY <2>1, <2>4 DEF E, T2
<1>4. CASE r.ok
  <2>1. r.map = [u \in D |-> T[u]] /\ \A u \in D : T[u] < Top
    BY <1>4 DEF Holds
  <2>2. prev = T[a.unit] /\ prev \in 0..Top-1
    BY <1>2, <2>1
  <2>3. IF T2[a.unit] < Top THEN sum = T2[a.unit] /\ ~ (sum < prev) ELSE sum < prev
    <3>1. IF prev + a.amount < Top THEN sum = prev + a.amount ELSE sum < prev
      BY <1>1, <2>2, SumWraps
    <3> HIDE DEF prev, sum, T2
    <3>2. T2[a.unit] = prev + a.amount
      BY <1>2, <2>2
    <3>3. QED
      BY <1>1, <2>2, <3>1, <3>2
  <2>4. CASE sum < prev
    <3>1. AddAsset(r, a) = Overflow
      BY <2>4 DEF AddAsset
    <3> HIDE DEF T2, E, sum, prev
    <3>2. a.unit \in E /\ ~ (T2[a.unit] < Top)
      BY <1>2, <2>3, <2>4
    <3>3. Holds(Overflow, E, T2)
      BY <3>2 DEF Holds, Overflow
    <3>4. QED
      BY <3>1, <3>3 DEF E, T2
  <2>5. CASE ~ (sum < prev)
    <3> DEFINE m == [u \in DOMAIN r.map \cup {a.unit} |-> IF u = a.unit THEN sum ELSE r.map[u]]
    <3>1. AddAsset(r, a) = [ok |-> TRUE, map |-> m]
      BY <1>4, <2>5 DEF AddAsset
    <3>2. m = [u \in E |-> IF u = a.unit THEN sum ELSE r.map[u]]
      BY <2>1
    <3> HIDE DEF sum, prev, T2, m
    <3>3. \A u \in E : (IF u = a.unit THEN sum ELSE r.map[u]) = T2[u]
      BY <1>2, <2>1, <2>3, <2>5
    <3>4. m = [u \in E |-> T2[u]]
      BY <3>2, <3>3
    <3>5. \A u \in E : T2[u] < Top
      BY <1>2, <2>1, <2>3, <2>5
    <3> HIDE DEF E
    <3>6. Holds([ok |-> TRUE, map |-> m], E, T2)
      BY <3>4, <3>5 DEF Holds
    <3>7. QED
      BY <3>1, <3>6 DEF E, T2
  <2>6. QED
    BY <2>4, <2>5
<1>5. QED
  BY <1>3, <1>4 DEF Holds

\* The map has exactly the sums, and there is none exactly when a sum is too large.
TrueSums(assets) ==
    LET sums == cardanoAssetMap(assets)
    IN  /\ sums.ok \in BOOLEAN /\ (sums.ok <=> \A u \in Units(assets) : Total(assets, u) < Top)
        /\ sums.ok => sums.map = [u \in Units(assets) |-> Total(assets, u)]
        /\ \A u \in Units(assets) : Total(assets, u) \in Nat

LEMMA AssetsSum == ASSUME Top \in Nat \ {0}, NEW assets \in Seq(Assets) PROVE TrueSums(assets)
<1> DEFINE L == Len(assets)
           S == [u \in Units(assets) |-> CHOOSE s : RunsSum(s, assets, u, L) /\ Total(assets, u) = s[L]]
           To(n) == { assets[i].unit : i \in 1..n }
           T(n) == [u \in To(n) |-> S[u][n]]
<1>1. L \in Nat /\ DOMAIN assets = 1..L /\ \A i \in 1..L : assets[i] \in Assets
  OBVIOUS
<1>2. PICK f : RunsOut(f, assets, L) /\ cardanoAssetMap(assets) = f[L]
  BY <1>1, MapRuns
<1>3. \A u \in Units(assets) : RunsSum(S[u], assets, u, L) /\ Total(assets, u) = S[u][L]
  <2> TAKE u \in Units(assets)
  <2>1. \E s : RunsSum(s, assets, u, L) /\ Total(assets, u) = s[L]
    BY <1>1, TotalRuns
  <2>2. S[u] = CHOOSE s : RunsSum(s, assets, u, L) /\ Total(assets, u) = s[L]
    OBVIOUS
  <2>3. QED
    BY <2>1, <2>2, Zenon
<1> HIDE DEF S
<1>4. f[0] = Empty /\ \A n \in 1..L : f[n] = AddAsset(f[n - 1], assets[n])
  <2>1. \A n \in 0..L : f[n] = IF n = 0 THEN Empty ELSE AddAsset(f[n - 1], assets[n])
    BY <1>2, Zenon DEF RunsOut
  <2>2. QED
    BY <1>1, <2>1
<1>5. \A u \in Units(assets) :
         /\ S[u][0] = 0
         /\ \A n \in 1..L : S[u][n] = S[u][n - 1] + IF u = assets[n].unit THEN assets[n].amount ELSE 0
  <2> TAKE u \in Units(assets)
  <2> DEFINE s == S[u]
  <2>1. RunsSum(s, assets, u, L)
    BY <1>3
  <2> HIDE DEF s
  <2>2. \A n \in 0..L : s[n] = IF n = 0 THEN 0
             ELSE s[n - 1] + IF assets[n].unit = u THEN assets[n].amount ELSE 0
    BY <2>1, Zenon DEF RunsSum
  <2>3. s[0] = 0 /\ \A n \in 1..L : s[n] = s[n - 1] + IF u = assets[n].unit THEN assets[n].amount ELSE 0
    BY <1>1, <2>2
  <2>4. QED
    BY <2>3 DEF s
<1>6. \A i \in 1..L : assets[i].unit \in Units(assets) /\ assets[i].amount \in Nat
  BY <1>1 DEF Units, Assets
<1>7. \A n \in 0..L : \A u \in To(n) : u \in Units(assets)
  BY <1>6
<1> DEFINE Good(n) == /\ Holds(f[n], To(n), T(n))
                      /\ \A u \in Units(assets) : S[u][n] \in Nat /\ (u \notin To(n) => S[u][n] = 0)
           G == { n \in Nat : n <= L => Good(n) }
<1>8. 0 \in G
  <2>1. To(0) = {}
    OBVIOUS
  <2> HIDE DEF To
  <2>2. T(0) = <<>>
    BY <2>1
  <2>3. Holds(Empty, {}, <<>>)
    BY DEF Holds, Empty
  <2> HIDE DEF T
  <2>4. Holds(f[0], To(0), T(0))
    BY <1>4, <2>1, <2>2, <2>3
  <2>5. \A u \in Units(assets) : S[u][0] \in Nat /\ (u \notin To(0) => S[u][0] = 0)
    BY <1>5
  <2>6. Good(0)
    BY <2>4, <2>5, Zenon
  <2> HIDE DEF Good
  <2>7. QED
    BY <2>6
<1>9. ASSUME NEW n \in Nat, n \in G PROVE n + 1 \in G
  <2> SUFFICES ASSUME n + 1 <= L PROVE Good(n + 1)
    OBVIOUS
  <2>1. n + 1 \in 1..L /\ n \in 0..L /\ Good(n)
    BY <1>1, <1>9
  <2> DEFINE a == assets[n + 1]
             D == To(n)
             E == D \cup {a.unit}
             U == [u \in E |-> S[u][n]]
             V == [u \in E |-> U[u] + IF u = a.unit THEN a.amount ELSE 0]
  <2>2. To(n + 1) = E
    BY <2>1
  <2>3. a \in Assets /\ f[n + 1] = AddAsset(f[n], a)
    BY <1>1, <1>4, <2>1
  <2>4. \A u \in E : u \in Units(assets)
    BY <1>6, <1>7, <2>1
  <2>5. \A u \in Units(assets) :
           /\ S[u][n] \in Nat /\ (u \notin D => S[u][n] = 0)
           /\ S[u][n + 1] = S[u][n] + IF u = a.unit THEN a.amount ELSE 0
    BY <1>5, <2>1
  <2>6. a.amount \in Nat
    BY <1>6, <2>1
  <2>7. Holds(f[n], D, T(n))
    BY <2>1
  <2> HIDE DEF a
  <2>8. \A u \in Units(assets) : S[u][n + 1] \in Nat /\ (u \notin E => S[u][n + 1] = 0)
    <3> HIDE DEF D
    <3>1. QED
      BY <2>5, <2>6
  <2>9. Holds(f[n], D, U)
    <3>1. T(n) = [u \in D |-> S[u][n]]
      OBVIOUS
    <3>2. \A u \in D : T(n)[u] = U[u]
      OBVIOUS
    <3>3. [u \in D |-> T(n)[u]] = [u \in D |-> U[u]]
      BY <3>2
    <3> HIDE DEF D, U, T
    <3>4. QED
      BY <2>7, <3>2, <3>3 DEF Holds
  <2>10. U \in [E -> Nat] /\ (a.unit \notin D => U[a.unit] = 0) /\ a.unit \in E
    <3> HIDE DEF D
    <3>1. QED
      BY <2>4, <2>5
  <2>11. V = [u \in E |-> S[u][n + 1]]
    <3>1. \A u \in E : U[u] = S[u][n]
      OBVIOUS
    <3>2. \A u \in E : U[u] + (IF u = a.unit THEN a.amount ELSE 0) = S[u][n + 1]
      <4> HIDE DEF E, U
      <4>1. QED
        BY <2>4, <2>5, <3>1
    <3>3. QED
      BY <3>2
  <2>12. Holds(AddAsset(f[n], a), E, V)
    <3> HIDE DEF D, U
    <3>1. QED
      BY <2>3, <2>9, <2>10, AddAssetAdds
  <2>13. T(n + 1) = V
    <3>1. T(n + 1) = [u \in E |-> S[u][n + 1]]
      BY <2>2
    <3>2. QED
      BY <2>11, <3>1
  <2> HIDE DEF E, V, T, To
  <2>14. QED
    BY <2>2, <2>3, <2>8, <2>12, <2>13
<1> HIDE DEF G
<1>10. L \in G
  BY <1>1, <1>8, <1>9, Induct
<1>11. Good(L)
  <2>1. L <= L
    BY <1>1
  <2> HIDE DEF Good
  <2>2. QED
    BY <1>10, <2>1, Zenon DEF G
<1>12. To(L) = Units(assets)
  BY <1>1 DEF Units
<1>13. \A u \in Units(assets) : T(L)[u] = Total(assets, u)
  BY <1>3, <1>12
<1>14. T(L) = [u \in Units(assets) |-> T(L)[u]]
  BY <1>12
<1> DEFINE t == T(L)
           sums == cardanoAssetMap(assets)
<1>15. Holds(sums, Units(assets), t) /\ \A u \in Units(assets) : t[u] \in Nat
  BY <1>2, <1>11, <1>12
<1>16. \A u \in Units(assets) : t[u] = Total(assets, u)
  BY <1>13
<1>17. [u \in Units(assets) |-> t[u]] = [u \in Units(assets) |-> Total(assets, u)]
  BY <1>16
<1> HIDE DEF t, sums
<1>18. QED
  BY <1>15, <1>16, <1>17 DEF Holds, TrueSums, sums

(***************************************************************************)
(* Assets that are written and read.                                       *)
(***************************************************************************)
\* In a list that has each unit once, the sum of a unit is its amount.
LEMMA TotalOnce ==
  ASSUME NEW assets \in Seq(Assets), NEW i \in 1..Len(assets),
         \A j \in 1..Len(assets) : assets[j].unit = assets[i].unit => j = i
  PROVE  Total(assets, assets[i].unit) = assets[i].amount
<1> DEFINE L == Len(assets)
           x == assets[i].amount
           u == assets[i].unit
<1>1. L \in Nat /\ x \in Nat
  <2>1. assets[i] \in Assets
    OBVIOUS
  <2>2. QED
    BY <2>1 DEF Assets
<1>2. PICK s : RunsSum(s, assets, u, L) /\ Total(assets, u) = s[L]
  BY <1>1, TotalRuns
<1>3. s[0] = 0 /\ \A n \in 1..L : s[n] = s[n - 1] + IF n = i THEN x ELSE 0
  <2>1. \A n \in 0..L : s[n] = IF n = 0 THEN 0
             ELSE s[n - 1] + IF assets[n].unit = u THEN assets[n].amount ELSE 0
    BY <1>2, Zenon DEF RunsSum
  <2>2. \A n \in 1..L : (assets[n].unit = u) = (n = i)
    OBVIOUS
  <2> HIDE DEF u
  <2>3. QED
    BY <1>1, <2>1, <2>2
<1> DEFINE G == { n \in Nat : n <= L => s[n] = IF n < i THEN 0 ELSE x }
<1> HIDE DEF x, u
<1>4. 0 \in G
  BY <1>1, <1>3
<1>5. ASSUME NEW n \in Nat, n \in G PROVE n + 1 \in G
  <2> SUFFICES ASSUME n + 1 <= L PROVE s[n + 1] = IF n + 1 < i THEN 0 ELSE x
    OBVIOUS
  <2>1. n + 1 \in 1..L /\ s[n] = IF n < i THEN 0 ELSE x
    BY <1>1, <1>5
  <2>2. s[n + 1] = s[n] + IF n + 1 = i THEN x ELSE 0
    BY <1>3, <2>1
  <2>3. QED
    BY <1>1, <2>1, <2>2
<1> HIDE DEF G
<1>6. L \in G
  BY <1>1, <1>4, <1>5, Induct
<1>7. s[L] = x
  BY <1>1, <1>6 DEF G
<1>8. QED
  BY <1>2, <1>7 DEF x, u

\* Units are finitely many.
LEMMA UnitsFinite == ASSUME NEW assets \in Seq(Assets) PROVE IsFiniteSet(Units(assets)) /\ Units(assets) \in SUBSET Nat
<1> DEFINE D == 1..Len(assets)
           f == [i \in D |-> assets[i].unit]
<1>1. IsFiniteSet(D)
  BY FS_Interval
<1>2. f \in Surjection(D, Units(assets))
  BY DEF Units, Surjection
<1>3. \A i \in D : assets[i].unit \in Nat
  <2>1. \A i \in D : assets[i] \in Assets
    OBVIOUS
  <2>2. QED
    BY <2>1 DEF Assets
<1>4. QED
  BY <1>1, <1>2, <1>3, FS_Surjection DEF Units

\* What is read of a multiasset gives that multiasset again.
LEMMA FlattenReadBack ==
  ASSUME Top \in Nat \ {0}, NEW assets \in Seq(Assets), cardanoAssetMap(assets).ok
  PROVE  LET read == flattenCardanoAssets(cardanoAssetMap(assets).map)
         IN  /\ read \in Seq(Assets) /\ cardanoAssetMap(read).ok
             /\ cardanoAssetMap(read).map = cardanoAssetMap(assets).map
<1> DEFINE m == cardanoAssetMap(assets).map
           D == Units(assets)
           units == Sorted(D)
           read == flattenCardanoAssets(m)
<1>1. m = [u \in D |-> Total(assets, u)] /\ \A u \in D : Total(assets, u) \in 0..Top-1
  BY AssetsSum DEF TrueSums
<1>2. DOMAIN m = D /\ \A u \in D : m[u] \in 0..Top-1
  BY <1>1
<1> HIDE DEF m, D
<1>3. D \in SUBSET Nat /\ IsFiniteSet(D)
  BY UnitsFinite DEF D
<1>4. /\ units \in Seq(D)
      /\ \A i, j \in 1..Len(units) : units[i] = units[j] => i = j
      /\ \A k \in D : \E i \in 1..Len(units) : units[i] = k
  BY <1>3, SortedSpec
<1>5. read = [i \in DOMAIN units |-> [unit |-> units[i], amount |-> m[units[i]]]]
  BY <1>2 DEF flattenCardanoAssets
<1> HIDE DEF units, read
<1>6. /\ Len(units) \in Nat /\ DOMAIN units = 1..Len(units)
      /\ \A i \in 1..Len(units) : units[i] \in D /\ units[i] \in Nat
  <2>1. Len(units) \in Nat /\ DOMAIN units = 1..Len(units) /\ \A i \in 1..Len(units) : units[i] \in D
    BY <1>4
  <2>2. QED
    BY <1>3, <2>1
<1>7. \A i \in 1..Len(units) : [unit |-> units[i], amount |-> m[units[i]]] \in Assets
  BY <1>2, <1>6 DEF Assets
<1>8. read \in Seq(Assets) /\ Len(read) = Len(units)
  <2> HIDE DEF Assets
  <2>1. QED
    BY <1>5, <1>6, <1>7
<1>9. \A i \in 1..Len(read) : read[i].unit = units[i] /\ read[i].amount = m[units[i]]
  BY <1>5, <1>6, <1>8
<1>10. Units(read) = D
  <2>1. DOMAIN read = 1..Len(units)
    BY <1>5, <1>6
  <2>2. Units(read) = { read[i].unit : i \in 1..Len(units) }
    BY <2>1 DEF Units
  <2>3. \A i \in 1..Len(units) : read[i].unit = units[i] /\ units[i] \in D
    BY <1>6, <1>8, <1>9
  <2>4. \A u \in D : \E i \in 1..Len(units) : read[i].unit = u
    <3> TAKE u \in D
    <3>1. PICK i \in 1..Len(units) : units[i] = u
      BY <1>4
    <3>2. QED
      BY <2>3, <3>1
  <2>5. QED
    BY <2>2, <2>3, <2>4
<1>11. \A u \in D : Total(read, u) = m[u]
  <2> TAKE u \in D
  <2>1. PICK i \in 1..Len(read) : units[i] = u
    BY <1>4, <1>8
  <2>2. \A j \in 1..Len(read) : read[j].unit = read[i].unit => j = i
    BY <1>4, <1>8, <1>9
  <2>3. Total(read, read[i].unit) = read[i].amount
    BY <1>8, <2>2, TotalOnce
  <2>4. QED
    BY <1>9, <2>1, <2>3
<1>12. TrueSums(read)
  BY <1>8, AssetsSum
<1> DEFINE sums == cardanoAssetMap(read)
<1>13. sums.ok /\ sums.map = [u \in D |-> Total(read, u)]
  <2>1. \A u \in D : Total(read, u) < Top
    BY <1>2, <1>11
  <2>2. QED
    BY <1>10, <1>12, <2>1 DEF TrueSums
<1>14. [u \in D |-> Total(read, u)] = [u \in D |-> m[u]]
  BY <1>11
<1>15. m = [u \in D |-> m[u]]
  BY <1>1, <1>2
<1>16. QED
  BY <1>8, <1>13, <1>14, <1>15 DEF m, read

\* Outputs have lists of assets.
OutputsOK(os) == IsSequence(os) /\ \A i \in DOMAIN os : os[i].assets \in Seq(Assets)

\* A body that is written and read is the same body again, though the assets of
\* its outputs need not be in the same list.
LEMMA BodyReadBack ==
  ASSUME Top \in Nat \ {0}, NEW t, OutputsOK(t.outputs), bodyMap(t) # Nil, NEW ws
  PROVE  LET read == Parsed([body |-> bodyMap(t), wits |-> ws])
         IN  /\ bodyMap(read) = bodyMap(t) /\ OutputsOK(read.outputs)
             /\ read = Transaction(read) /\ read.wits = ws
<1> DEFINE b == bodyMap(t)
           os == [i \in DOMAIN t.outputs |->
                     [addr |-> t.outputs[i].addr, value |-> outputValue(t.outputs[i])]]
           back == [i \in DOMAIN os |-> decodeCardanoOutput(os[i])]
           read == Parsed([body |-> b, wits |-> ws])
<1>1. BodyOK(t)
  BY DEF bodyMap
<1>2. b = [inputs |-> t.inputs, outputs |-> os, fee |-> t.fee,
           ttl |-> IF t.ttl = 0 THEN Nil ELSE t.ttl]
  BY <1>1 DEF bodyMap
<1> HIDE DEF b
<1>3. read = [inputs |-> t.inputs, outputs |-> back, fee |-> t.fee,
              ttl |-> IF b.ttl = Nil THEN 0 ELSE b.ttl, wits |-> ws]
  <2>1. b.inputs = t.inputs /\ b.outputs = os /\ b.fee = t.fee
    BY <1>2
  <2> HIDE DEF os
  <2>2. QED
    BY <2>1 DEF Parsed
<1>4. DOMAIN os = DOMAIN t.outputs /\ DOMAIN back = DOMAIN t.outputs
  OBVIOUS
<1>5. ASSUME NEW i \in DOMAIN t.outputs
      PROVE  /\ back[i].addr = t.outputs[i].addr /\ back[i].assets \in Seq(Assets)
             /\ cardanoAssetMap(back[i].assets).ok
             /\ outputValue(back[i]) = outputValue(t.outputs[i])
  <2> DEFINE o == t.outputs[i]
             m == cardanoAssetMap(o.assets).map
  <2>1. o.assets \in Seq(Assets) /\ cardanoAssetMap(o.assets).ok
    BY <1>1 DEF BodyOK, OutputsOK
  <2>2. back[i] = decodeCardanoOutput(os[i]) /\ os[i] = [addr |-> o.addr, value |-> outputValue(o)]
    OBVIOUS
  <2> HIDE DEF o, os, back
  <2>3. outputValue(o) = [coin |-> o.coin, multiasset |-> m]
    BY DEF outputValue
  <2> DEFINE r == flattenCardanoAssets(m)
  <2>4. r \in Seq(Assets) /\ cardanoAssetMap(r).ok /\ cardanoAssetMap(r).map = m
    BY <2>1, FlattenReadBack
  <2> HIDE DEF m, r
  <2>5. back[i] = [addr |-> o.addr, coin |-> o.coin, assets |-> r]
    BY <2>2, <2>3 DEF decodeCardanoOutput, r
  <2>6. outputValue(back[i]) = [coin |-> o.coin, multiasset |-> m]
    BY <2>4, <2>5 DEF outputValue
  <2>7. QED
    BY <2>3, <2>4, <2>5, <2>6 DEF o
<1>6. Len(t.outputs) \in Nat /\ DOMAIN t.outputs = 1..Len(t.outputs)
  BY DEF OutputsOK, IsSequence
<1>7. back # <<>>
  <2>1. t.outputs # <<>>
    BY <1>1 DEF BodyOK
  <2>2. Len(t.outputs) # 0
    BY <2>1 DEF OutputsOK, IsSequence
  <2>3. 1 \in DOMAIN back
    BY <1>4, <1>6, <2>2
  <2> HIDE DEF back
  <2>4. QED
    BY <2>3
<1>8. OutputsOK(back)
  <2>1. \A i \in DOMAIN back : back[i] \in { back[j] : j \in DOMAIN back }
    OBVIOUS
  <2> DEFINE R == { back[j] : j \in DOMAIN back }
  <2>2. back = [i \in 1..Len(t.outputs) |-> back[i]]
    BY <1>4, <1>6
  <2> HIDE DEF R, back
  <2>3. \A i \in 1..Len(t.outputs) : back[i] \in R
    BY <1>4, <1>6, <2>1 DEF R
  <2>4. [i \in 1..Len(t.outputs) |-> back[i]] \in Seq(R)
    BY <1>6, <2>3
  <2>5. QED
    BY <1>4, <1>5, <2>2, <2>4 DEF OutputsOK, IsSequence, R
<1> DEFINE os2 == [i \in DOMAIN back |-> [addr |-> back[i].addr, value |-> outputValue(back[i])]]
<1>9. os2 = os
  <2> HIDE DEF back
  <2>1. \A i \in DOMAIN t.outputs :
           [addr |-> back[i].addr, value |-> outputValue(back[i])]
           = [addr |-> t.outputs[i].addr, value |-> outputValue(t.outputs[i])]
    BY <1>5
  <2>2. QED
    BY <1>4, <2>1
<1> HIDE DEF back, read
<1>10. BodyOK(read)
  <2>1. read.inputs = t.inputs /\ read.outputs = back
    BY <1>3
  <2>2. QED
    BY <1>1, <1>4, <1>5, <1>7, <2>1 DEF BodyOK
<1>11. bodyMap(read) = [inputs |-> t.inputs, outputs |-> os2, fee |-> t.fee,
                        ttl |-> IF read.ttl = 0 THEN Nil ELSE read.ttl]
  <2>1. read.inputs = t.inputs /\ read.outputs = back /\ read.fee = t.fee
    BY <1>3
  <2>2. QED
    BY <1>10, <2>1 DEF bodyMap
<1>12. (IF read.ttl = 0 THEN Nil ELSE read.ttl) = (IF t.ttl = 0 THEN Nil ELSE t.ttl)
  BY <1>2, <1>3
<1> HIDE DEF os, os2
<1>13. bodyMap(read) = b
  BY <1>2, <1>9, <1>11, <1>12
<1>14. read = Transaction(read) /\ read.wits = ws /\ read.outputs = back
  BY <1>3 DEF Transaction
<1>15. QED
  BY <1>8, <1>13, <1>14 DEF b, read

-----------------------------------------------------------------------------
(***************************************************************************)
(* The inductive invariant.                                                *)
(***************************************************************************)
TxOK == tx = Transaction(tx) /\ OutputsOK(tx.outputs) /\ IsSequence(tx.wits)

\* What was written is what is read.
WireOK ==
    /\ IsSequence(wire.wits)
    /\ wire.body # Nil =>
         LET read == Parsed(wire)
         IN  /\ bodyMap(read) = wire.body /\ OutputsOK(read.outputs)
             /\ read = Transaction(read) /\ read.wits = wire.wits

\* s has a witness over body d among ws.
HasWitness(ws, s, d) == \E i \in DOMAIN ws : ws[i] = [by |-> s, over |-> d]

\* A call of SignWith holds the digest of the body, and whoever is no longer to be
\* asked has a witness over it.
CallOK ==
    call # Nil =>
        /\ call = [left |-> call.left, digest |-> call.digest, asked |-> call.asked]
        /\ call.digest = bodyMap(tx) /\ call.digest # Nil /\ answered = Nil
        /\ call.left \in Seq(Signers) /\ call.asked \in Seq(Signers)
        /\ \A s \in ToSet(call.asked) :
              s \in ToSet(call.left) \/ HasWitness(tx.wits, s, call.digest)

CardanoInv == TxOK /\ WireOK /\ CallOK /\ AnsweredMeansWitnessed

LEMMA CardanoInitInv == Init => CardanoInv
<1> SUFFICES ASSUME Init PROVE CardanoInv
  OBVIOUS
<1>1. /\ tx = Transaction(tx) /\ tx.wits = <<>> /\ tx.outputs \in Seq(ToSet(tx.outputs))
      /\ \A o \in ToSet(tx.outputs) : o.assets \in Seq(Assets)
  BY CardanoAssumption DEF Init
<1>2. IsSequence(<<>>)
  BY DEF IsSequence
<1>3. OutputsOK(tx.outputs)
  BY <1>1 DEF OutputsOK, IsSequence, ToSet
<1>4. wire.wits = <<>> /\ wire.body = Nil /\ call = Nil /\ answered = Nil
  BY DEF Init
<1>5. QED
  BY <1>1, <1>2, <1>3, <1>4 DEF CardanoInv, TxOK, WireOK, CallOK, AnsweredMeansWitnessed

\* Setting a field of a transaction leaves the others.
LEMMA SetField ==
  ASSUME tx = Transaction(tx), NEW v
  PROVE  /\ LET t == [tx EXCEPT !.fee = v]
            IN  t = Transaction(t) /\ t.wits = tx.wits /\ t.outputs = tx.outputs
         /\ LET t == [tx EXCEPT !.inputs = v]
            IN  t = Transaction(t) /\ t.wits = tx.wits /\ t.outputs = tx.outputs
         /\ LET t == [tx EXCEPT !.wits = v]
            IN  /\ t = Transaction(t) /\ t.wits = v /\ t.outputs = tx.outputs
                /\ bodyMap(t) = bodyMap(tx)
  BY DEF Transaction, bodyMap, BodyOK

\* A witness that is appended is there, and the others stay.
LEMMA WitnessAppended ==
  ASSUME NEW ws, IsSequence(ws), NEW s, NEW d
  PROVE  LET new == Witnessed(ws, [by |-> s, over |-> d])
         IN  /\ IsSequence(new) /\ HasWitness(new, s, d)
             /\ \A r, e : HasWitness(ws, r, e) => HasWitness(new, r, e)
<1> DEFINE w == [by |-> s, over |-> d]
           new == Append(ws, w)
<1>1. /\ IsSequence(new) /\ DOMAIN new = DOMAIN ws \cup {Len(ws) + 1}
      /\ new[Len(ws) + 1] = w /\ \A i \in DOMAIN ws : new[i] = ws[i]
  BY AppendedSequence, SMTT(30)
<1>2. Len(ws) + 1 \in DOMAIN new /\ \A i \in DOMAIN ws : i \in DOMAIN new
  BY <1>1
<1> HIDE DEF new
<1>3. HasWitness(new, s, d)
  BY <1>1, <1>2 DEF HasWitness
<1>4. \A r, e : HasWitness(ws, r, e) => HasWitness(new, r, e)
  BY <1>1, <1>2, Zenon DEF HasWitness
<1>5. QED
  BY <1>1, <1>3, <1>4 DEF Witnessed, new

\* What does not change stays as the invariant says.
LEMMA CardanoSame ==
  /\ tx' = tx => bodyMap(tx)' = bodyMap(tx) /\ (TxOK => TxOK')
  /\ UNCHANGED wire /\ WireOK => WireOK'
  /\ UNCHANGED <<tx, answered>> /\ AnsweredMeansWitnessed => AnsweredMeansWitnessed'
<1>1. tx' = tx => bodyMap(tx)' = bodyMap(tx) /\ (TxOK => TxOK')
  BY DEF bodyMap, BodyOK, TxOK, Transaction
<1>2. UNCHANGED wire /\ WireOK => WireOK'
  BY DEF WireOK, Parsed
<1>3. UNCHANGED <<tx, answered>> /\ AnsweredMeansWitnessed => AnsweredMeansWitnessed'
  <2> SUFFICES ASSUME UNCHANGED <<tx, answered>>, AnsweredMeansWitnessed
               PROVE  AnsweredMeansWitnessed'
    OBVIOUS
  <2>1. bodyMap(tx)' = bodyMap(tx)
    BY <1>1
  <2>2. QED
    BY <2>1, Zenon DEF AnsweredMeansWitnessed
<1>4. QED
  BY <1>1, <1>2, <1>3

LEMMA CardanoStepInv == ASSUME CardanoInv, [Next]_vars PROVE CardanoInv'
<1> USE DEF CardanoInv
<1>1. ASSUME NEW t, t = Transaction(t), t.wits = tx.wits, t.outputs = tx.outputs, Edited(t)
      PROVE  CardanoInv'
  <2>1. tx' = t /\ answered' = Nil /\ call' = Nil /\ UNCHANGED wire
    BY <1>1 DEF Edited, Idle
  <2>2. TxOK'
    BY <1>1, <2>1 DEF TxOK, Transaction
  <2>3. WireOK' /\ CallOK' /\ AnsweredMeansWitnessed'
    BY <2>1 DEF WireOK, CallOK, AnsweredMeansWitnessed, Parsed
  <2>4. QED
    BY <2>2, <2>3
<1>2. ASSUME NEW f \in Fees, SetFee(f) PROVE CardanoInv'
  <2> DEFINE t == [tx EXCEPT !.fee = f]
  <2>1. t = Transaction(t) /\ t.wits = tx.wits /\ t.outputs = tx.outputs
    BY SetField DEF TxOK
  <2>2. Edited(t)
    BY <1>2 DEF SetFee
  <2> HIDE DEF t
  <2>3. QED
    BY <1>1, <2>1, <2>2
<1>3. ASSUME NEW is \in InputLists, SetInputs(is) PROVE CardanoInv'
  <2> DEFINE t == [tx EXCEPT !.inputs = is]
  <2>1. t = Transaction(t) /\ t.wits = tx.wits /\ t.outputs = tx.outputs
    BY SetField DEF TxOK
  <2>2. Edited(t)
    BY <1>3 DEF SetInputs
  <2> HIDE DEF t
  <2>3. QED
    BY <1>1, <2>1, <2>2
<1>4. ASSUME NEW asked \in Requests, SignBegin(asked) PROVE CardanoInv'
  <2>1. asked \in Seq(Signers)
    BY CardanoAssumption
  <2>2. /\ call' = [left |-> asked, digest |-> bodyMap(tx), asked |-> asked]
        /\ bodyMap(tx) # Nil /\ answered' = Nil /\ UNCHANGED <<tx, wire>>
    BY <1>4 DEF SignBegin
  <2>3. TxOK' /\ WireOK' /\ AnsweredMeansWitnessed'
    BY <2>2 DEF TxOK, WireOK, AnsweredMeansWitnessed, Transaction, Parsed
  <2>4. CallOK'
    <3> DEFINE d == bodyMap(tx)
               c == [left |-> asked, digest |-> d, asked |-> asked]
    <3>1. bodyMap(tx)' = d
      BY <2>2 DEF bodyMap, BodyOK
    <3>2. c.left = asked /\ c.digest = d /\ c.asked = asked /\ call' = c /\ d # Nil
      BY <2>2
    <3> HIDE DEF c, d
    <3>3. QED
      BY <2>1, <2>2, <3>1, <3>2 DEF CallOK, c
  <2>5. QED
    BY <2>3, <2>4
<1>5. ASSUME SignNext PROVE CardanoInv'
  <2> DEFINE s == Head(call.left)
             d == call.digest
             new == Witnessed(tx.wits, [by |-> s, over |-> d])
             t == [tx EXCEPT !.wits = new]
  <2>1. /\ call # Nil /\ call.left # <<>> /\ tx' = t
        /\ call' = [call EXCEPT !.left = Tail(call.left)] /\ UNCHANGED <<wire, answered>>
    BY <1>5, Zenon DEF SignNext, Idle
  <2>2. /\ call = [left |-> call.left, digest |-> d, asked |-> call.asked]
        /\ d = bodyMap(tx) /\ d # Nil /\ answered = Nil
        /\ call.left \in Seq(Signers) /\ call.asked \in Seq(Signers)
        /\ \A r \in ToSet(call.asked) : r \in ToSet(call.left) \/ HasWitness(tx.wits, r, d)
    BY <2>1 DEF CallOK
  <2>3. IsSequence(new) /\ HasWitness(new, s, d) /\ \A r, e : HasWitness(tx.wits, r, e) => HasWitness(new, r, e)
    BY WitnessAppended DEF TxOK
  <2>4. t = Transaction(t) /\ t.wits = new /\ t.outputs = tx.outputs /\ bodyMap(t) = bodyMap(tx)
    BY SetField DEF TxOK
  <2> HIDE DEF t, new, d, s
  <2>5. /\ call' = [left |-> Tail(call.left), digest |-> d, asked |-> call.asked]
        /\ call'.left = Tail(call.left) /\ call'.digest = d /\ call'.asked = call.asked
    <3> DEFINE l == Tail(call.left)
    <3>1. [call EXCEPT !.left = l] = [left |-> l, digest |-> d, asked |-> call.asked]
      <4> HIDE DEF l
      <4>1. QED
        BY <2>2
    <3>2. call' = [left |-> l, digest |-> d, asked |-> call.asked]
      BY <2>1, <3>1, Zenon
    <3> HIDE DEF l
    <3>3. call'.left = l /\ call'.digest = d /\ call'.asked = call.asked
      BY <3>2
    <3>4. QED
      BY <3>2, <3>3 DEF l
  <2>6. TxOK'
    BY <2>1, <2>3, <2>4 DEF TxOK, Transaction
  <2>7. WireOK' /\ AnsweredMeansWitnessed'
    BY <2>1, <2>2 DEF WireOK, AnsweredMeansWitnessed, Parsed
  <2>8. /\ Tail(call.left) \in Seq(Signers)
        /\ \A r \in ToSet(call.left) : r = s \/ r \in ToSet(Tail(call.left))
    <3>1. Tail(call.left) \in Seq(Signers) /\ Len(Tail(call.left)) = Len(call.left) - 1 /\ Len(call.left) \in Nat
      BY <2>1, <2>2
    <3>2. s = call.left[1] /\ \A i \in 1..Len(call.left) - 1 : Tail(call.left)[i] = call.left[i + 1]
      BY <2>1, <2>2 DEF s
    <3>3. ASSUME NEW i \in DOMAIN call.left, i # 1
          PROVE  i - 1 \in DOMAIN Tail(call.left) /\ Tail(call.left)[i - 1] = call.left[i]
      <4>1. i \in 1..Len(call.left) /\ DOMAIN Tail(call.left) = 1..Len(call.left) - 1
        BY <2>2, <3>1
      <4>2. i - 1 \in 1..Len(call.left) - 1 /\ (i - 1) + 1 = i
        BY <3>1, <3>3, <4>1
      <4>3. QED
        BY <3>2, <4>1, <4>2
    <3>4. ASSUME NEW i \in DOMAIN call.left, call.left[i] # s
          PROVE  \E j \in DOMAIN Tail(call.left) : Tail(call.left)[j] = call.left[i]
      <4>1. i # 1
        BY <3>2, <3>4
      <4>2. QED
        BY <3>3, <4>1
    <3>5. QED
      BY <3>1, <3>4, Zenon DEF ToSet
  <2>9. bodyMap(tx)' = d
    BY <2>1, <2>2, <2>4 DEF bodyMap, BodyOK
  <2>10. tx'.wits = new
    BY <2>1, <2>4
  <2>11. \A r \in ToSet(call.asked) : r \in ToSet(Tail(call.left)) \/ HasWitness(new, r, d)
    BY <2>2, <2>3, <2>8, Zenon
  <2>12. CallOK'
    BY <2>1, <2>2, <2>5, <2>8, <2>9, <2>10, <2>11, Zenon DEF CallOK
  <2>13. QED
    BY <2>6, <2>7, <2>12
<1>6. ASSUME SignReturn PROVE CardanoInv'
  <2>1. /\ call # Nil /\ call.left = <<>> /\ call' = Nil /\ answered' = call.asked
        /\ UNCHANGED <<tx, wire>>
    BY <1>6 DEF SignReturn, Idle
  <2>2. TxOK' /\ WireOK' /\ CallOK'
    BY <2>1 DEF TxOK, WireOK, CallOK, Transaction, Parsed
  <2>3. \A s \in ToSet(call.asked) : HasWitness(tx.wits, s, bodyMap(tx))
    <3>1. ToSet(<<>>) = {}
      BY DEF ToSet
    <3>2. QED
      BY <2>1, <3>1 DEF CallOK
  <2>4. \A s \in ToSet(call.asked) : \E w \in ToSet(tx.wits) : w.by = s /\ w.over = bodyMap(tx)
    <3> DEFINE b == bodyMap(tx)
    <3> HIDE DEF b
    <3>1. SUFFICES ASSUME NEW s \in ToSet(call.asked)
                   PROVE  \E w \in ToSet(tx.wits) : w.by = s /\ w.over = b
      BY DEF b
    <3>2. PICK i \in DOMAIN tx.wits : tx.wits[i] = [by |-> s, over |-> b]
      BY <2>3 DEF HasWitness, b
    <3>3. tx.wits[i] \in ToSet(tx.wits)
      BY DEF ToSet
    <3>4. QED
      BY <3>2, <3>3
  <2>5. bodyMap(tx)' = bodyMap(tx)
    BY <2>1 DEF bodyMap, BodyOK
  <2>6. AnsweredMeansWitnessed'
    BY <2>1, <2>4, <2>5 DEF AnsweredMeansWitnessed
  <2>7. QED
    BY <2>2, <2>6
<1>7. ASSUME SignFails \/ BodyRefused \/ UNCHANGED vars PROVE CardanoInv'
  <2>1. UNCHANGED <<tx, wire, answered>> /\ (call' = Nil \/ UNCHANGED call)
    BY <1>7 DEF SignFails, BodyRefused, vars
  <2>2. TxOK' /\ WireOK' /\ AnsweredMeansWitnessed'
    BY <2>1, CardanoSame, Zenon
  <2>3. CallOK'
    BY <2>1 DEF CallOK, bodyMap, BodyOK
  <2>4. QED
    BY <2>2, <2>3
<1>8. ASSUME MarshalBinary PROVE CardanoInv'
  <2> DEFINE w == [body |-> bodyMap(tx), wits |-> tx.wits]
  <2>1. call = Nil /\ bodyMap(tx) # Nil /\ wire' = w /\ UNCHANGED <<tx, call, answered>>
    BY <1>8 DEF MarshalBinary, Idle
  <2>2. TxOK' /\ AnsweredMeansWitnessed' /\ CallOK'
    <3>1. TxOK' /\ AnsweredMeansWitnessed'
      BY <2>1, CardanoSame, Zenon
    <3>2. CallOK'
      BY <2>1 DEF CallOK
    <3>3. QED
      BY <3>1, <3>2
  <2>3. LET read == Parsed(w)
        IN  /\ bodyMap(read) = bodyMap(tx) /\ OutputsOK(read.outputs)
            /\ read = Transaction(read) /\ read.wits = tx.wits
    BY <2>1, BodyReadBack, CardanoAssumption DEF TxOK
  <2>4. w.body = bodyMap(tx) /\ w.wits = tx.wits /\ IsSequence(tx.wits)
    BY DEF TxOK
  <2> HIDE DEF w
  <2>5. WireOK'
    <3> DEFINE Reads(v) == /\ IsSequence(v.wits)
                           /\ v.body # Nil =>
                                LET read == Parsed(v)
                                IN  /\ bodyMap(read) = v.body /\ OutputsOK(read.outputs)
                                    /\ read = Transaction(read) /\ read.wits = v.wits
    <3>1. Reads(w)
      BY <2>3, <2>4
    <3> HIDE DEF Reads
    <3>2. Reads(wire')
      BY <2>1, <3>1
    <3>3. QED
      BY <3>2 DEF Reads, WireOK, Parsed, bodyMap, BodyOK, Transaction
  <2>6. QED
    BY <2>2, <2>5
<1>9. ASSUME NEW bad, UnmarshalBinary(bad) PROVE CardanoInv'
  <2>1. /\ call = Nil /\ wire.body # Nil /\ tx' = Unmarshalled(tx, wire, bad)
        /\ answered' = Nil /\ UNCHANGED <<call, wire>>
    BY <1>9 DEF UnmarshalBinary, Idle
  <2>2. WireOK' /\ CallOK' /\ AnsweredMeansWitnessed'
    <3>1. WireOK'
      BY <2>1, Zenon DEF WireOK, Parsed, bodyMap, BodyOK
    <3>2. CallOK'
      BY <2>1 DEF CallOK
    <3>3. AnsweredMeansWitnessed'
      BY <2>1 DEF AnsweredMeansWitnessed
    <3>4. QED
      BY <3>1, <3>2, <3>3
  <2> DEFINE read == Parsed(wire)
  <2>3. OutputsOK(read.outputs) /\ read = Transaction(read) /\ IsSequence(read.wits)
    BY <2>1 DEF WireOK
  <2> HIDE DEF read
  <2>4. tx' = read \/ tx' = tx
    BY <2>1 DEF Unmarshalled, read
  <2>5. TxOK'
    BY <2>3, <2>4 DEF TxOK, Transaction
  <2>6. QED
    BY <2>2, <2>5
<1>10. QED
  BY <1>2, <1>3, <1>4, <1>5, <1>6, <1>7, <1>8, <1>9 DEF Next

\* The inductive invariant holds always.
THEOREM CardanoInvariance == Spec => []CardanoInv
  BY CardanoInitInv, CardanoStepInv, PTL DEF Spec

\* AnsweredMeansWitnessed: a SignWith that returned nil leaves everyone it was asked
\* for with a witness over the body that is written now, whatever witnesses there
\* were and whatever call stopped halfway before (cardanotx.go:197-218).
THEOREM WitnessSafety == Spec => []AnsweredMeansWitnessed
  BY CardanoInvariance, PTL DEF CardanoInv

\* SumsAreTrue: the sums of cardanoAssetMap are exact and an overflow is refused
\* exactly when there is one, for lists of every length and in every order, the
\* lists that UnmarshalBinary makes included (cardanotx.go:79-94).
THEOREM SumSafety == Spec => []SumsAreTrue
<1>1. TxOK => SumsAreTrue
  <2> SUFFICES ASSUME TxOK, NEW o \in ToSet(tx.outputs) PROVE TrueSums(o.assets)
    BY DEF SumsAreTrue, TrueSums
  <2>1. o.assets \in Seq(Assets)
    BY DEF TxOK, OutputsOK, ToSet
  <2>2. QED
    BY <2>1, AssetsSum, CardanoAssumption
<1>2. QED
  BY <1>1, CardanoInvariance, PTL DEF CardanoInv

-----------------------------------------------------------------------------
(***************************************************************************)
(* The refinement.                                                         *)
(***************************************************************************)
\* The copy that bytes stand for.
Copied(w) == [content |-> w.body, approvals |-> Approved(w.wits)]

LEMMA CardanoPromiseInit == Init => Promise!Init
<1> SUFFICES ASSUME Init PROVE Promise!Init
  OBVIOUS
<1>1. tx.wits = <<>> /\ op = "init" /\ wire.body = Nil /\ wire.wits = <<>>
  BY CardanoAssumption DEF Init
<1>2. Approved(<<>>) = <<>>
  BY DEF Approved
<1>3. QED
  BY <1>1, <1>2 DEF Promise!Init, Approved

LEMMA CardanoPromiseStep ==
  ASSUME CardanoInv, CardanoInv', [Next]_vars PROVE [Promise!Next]_(Promise!vars)
<1> USE DEF CardanoInv
<1>1. ASSUME NEW t, t.wits = tx.wits, Edited(t) PROVE Promise!Next
  <2>1. tx'.wits = tx.wits /\ op' = "edit" /\ UNCHANGED wire
    BY <1>1 DEF Edited
  <2>2. QED
    BY <2>1 DEF Promise!Next, Promise!Edit
<1>2. ASSUME NEW f \in Fees, SetFee(f) PROVE Promise!Next
  <2> DEFINE t == [tx EXCEPT !.fee = f]
  <2>1. t.wits = tx.wits
    BY SetField DEF TxOK
  <2>2. Edited(t)
    BY <1>2 DEF SetFee
  <2> HIDE DEF t
  <2>3. QED
    BY <1>1, <2>1, <2>2
<1>3. ASSUME NEW is \in InputLists, SetInputs(is) PROVE Promise!Next
  <2> DEFINE t == [tx EXCEPT !.inputs = is]
  <2>1. t.wits = tx.wits
    BY SetField DEF TxOK
  <2>2. Edited(t)
    BY <1>3 DEF SetInputs
  <2> HIDE DEF t
  <2>3. QED
    BY <1>1, <2>1, <2>2
<1>4. ASSUME SignNext PROVE Promise!Next
  <2>1. call # Nil /\ call.left # <<>>
    BY <1>4 DEF SignNext, Idle
  <2>2. PICK s \in Signers : s = Head(call.left)
    BY <2>1 DEF CallOK
  <2> DEFINE d == bodyMap(tx)
             new == Append(tx.wits, [by |-> s, over |-> call.digest])
             t == [tx EXCEPT !.wits = new]
  <2>3. tx' = t /\ op' = "approve" /\ UNCHANGED wire
    BY <1>4, <2>2, Zenon DEF SignNext, Witnessed
  <2>4. call.digest = d /\ d # Nil
    BY <2>1 DEF CallOK
  <2>5. t.wits = new /\ bodyMap(t) = d
    BY SetField DEF TxOK
  <2>6. Approved(new) = Append(Approved(tx.wits), [by |-> s, of |-> d])
    BY <2>4, ApprovedAppend DEF TxOK
  <2> HIDE DEF t, new, d
  <2>7. bodyMap(tx') = d /\ Approved(tx'.wits) = Append(Approved(tx.wits), [by |-> s, of |-> d])
    BY <2>3, <2>5, <2>6
  <2>8. Promise!Approve(s)
    BY <2>3, <2>4, <2>7 DEF Promise!Approve, Approved, bodyMap, BodyOK, d
  <2>9. QED
    BY <2>8 DEF Promise!Next
<1>5. ASSUME UNCHANGED <<tx, wire>>, op' = "refused" PROVE Promise!Next
  BY <1>5 DEF Promise!Next, Promise!Refuse, bodyMap, BodyOK
<1>6. CASE MarshalBinary
  <2>1. /\ bodyMap(tx) # Nil /\ wire' = [body |-> bodyMap(tx), wits |-> tx.wits]
        /\ op' = "write" /\ UNCHANGED tx
    BY <1>6 DEF MarshalBinary
  <2>2. Copied(wire') = [content |-> bodyMap(tx), approvals |-> Approved(tx.wits)]
    BY <2>1 DEF Copied
  <2>3. Promise!GiveCopy
    BY <2>1, <2>2 DEF Promise!GiveCopy, Copied, Approved, bodyMap, BodyOK
  <2>4. QED
    BY <2>3 DEF Promise!Next
<1>7. ASSUME NEW bad, UnmarshalBinary(bad) PROVE Promise!Next
  <2>1. wire.body # Nil /\ tx' = Unmarshalled(tx, wire, bad) /\ UNCHANGED wire
    BY <1>7 DEF UnmarshalBinary
  <2>2. CASE bad = "none"
    <3> DEFINE read == Parsed(wire)
    <3>1. tx' = read /\ op' = "read"
      BY <1>7, <2>1, <2>2 DEF Unmarshalled, UnmarshalBinary
    <3>2. bodyMap(read) = wire.body /\ read.wits = wire.wits
      BY <2>1 DEF WireOK
    <3> HIDE DEF read
    <3>3. bodyMap(tx') = wire.body /\ Approved(tx'.wits) = Approved(wire.wits)
      BY <3>1, <3>2
    <3>4. Promise!TakeCopy
      BY <2>1, <3>1, <3>3 DEF Promise!TakeCopy, Approved, bodyMap, BodyOK
    <3>5. QED
      BY <3>4 DEF Promise!Next
  <2>3. CASE bad # "none"
    <3>1. tx' = tx /\ op' = "refused"
      BY <1>7, <2>1, <2>3 DEF Unmarshalled, UnmarshalBinary
    <3>2. QED
      BY <1>5, <2>1, <3>1
  <2>4. QED
    BY <2>2, <2>3
<1>8. CASE SignFails \/ BodyRefused
  BY <1>5, <1>8 DEF SignFails, BodyRefused
<1>9. CASE SignReturn \/ (\E asked \in Requests : SignBegin(asked)) \/ UNCHANGED vars
  <2>1. UNCHANGED <<tx, wire, op>>
    BY <1>9 DEF SignReturn, SignBegin, vars
  <2>2. QED
    BY <2>1 DEF Promise!vars, bodyMap, BodyOK
<1>10. QED
  BY <1>2, <1>3, <1>4, <1>6, <1>7, <1>8, <1>9 DEF Next

\* KeepsPromise: every operation of a CardanoTx is a step of Approvals or leaves body,
\* witnesses and the last bytes alone; what is read is the body that was witnessed,
\* with its witnesses, and what fails changes nothing (cardanotx.go:197, 240, 257).
THEOREM CardanoKeepsPromise == Spec => KeepsPromise
  BY CardanoInvariance, CardanoPromiseInit, CardanoPromiseStep, PTL
     DEF Spec, KeepsPromise, Promise!Spec
==============================================================================
