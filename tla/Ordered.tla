------------------------------- MODULE Ordered -------------------------------
(***************************************************************************)
(* Sorting by bytes, of account keys (solanatx.go) and of policy ids and   *)
(* asset names (cardanotx.go): what has an order is a number here.         *)
(***************************************************************************)
EXTENDS Integers, FiniteSets

\* The members of a set in ascending order.
Sorted(S) == CHOOSE s \in [1..Cardinality(S) -> S] :
                \A i, j \in DOMAIN s : i < j => s[i] < s[j]
=============================================================================
