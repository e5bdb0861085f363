----------------------------- MODULE MCCardanoTx -----------------------------
(* Instances of CardanoTx for TLC. *)
EXTENDS CardanoTx

CONSTANTS s1, s2, in1, addr1

Asset(u, n) == [unit |-> u, amount |-> n]
Output(assets) == [addr |-> addr1, coin |-> 1, assets |-> assets]
Draft(inputs, outputs, ttl) ==
    [inputs |-> inputs, outputs |-> outputs, fee |-> 0, ttl |-> ttl, wits |-> <<>>]

SomeAssets == { Asset(1, 0), Asset(1, 1), Asset(1, 3), Asset(2, 1) }

\* Every list of at most two entries, and longer ones that add up to the limit,
\* pass it late, or come back to a unit.
AssetLists == SeqOf(SomeAssets, 2) \cup
    { <<Asset(2, 1), Asset(1, 1), Asset(2, 1)>>, <<Asset(1, 1), Asset(1, 1), Asset(1, 1)>>,
      <<Asset(1, 1), Asset(1, 1), Asset(1, 3)>>, <<Asset(2, 3), Asset(1, 3), Asset(2, 3)>> }

AllDrafts ==
    { Draft(<<in1>>, <<Output(a)>>, 0) : a \in AssetLists }
    \cup { Draft(<<in1>>, <<Output(<<>>), Output(<<Asset(2, 1), Asset(1, 1)>>)>>, 5),
           Draft(<<in1>>, <<>>, 0), Draft(<<ShortId>>, <<Output(<<>>)>>, 0),
           Draft(<<in1>>, <<[Output(<<>>) EXCEPT !.addr = NoAddress]>>, 0) }
TwoInputLists == { <<>>, <<in1>> }
SomeRequests == { <<s1>>, <<s2, s1>> }
=============================================================================
