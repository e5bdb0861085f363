------------------------------- MODULE MCTronTx -------------------------------
(* Instances of TronTx for TLC. *)
EXTENDS TronTx

CONSTANTS k1, k2

Draft(block, expiration, timestamp) ==
    [refBlockBytes |-> block, refBlockHash |-> block, expiration |-> expiration,
     timestamp |-> timestamp, feeLimit |-> 0, contracts |-> <<>>, signatures |-> <<>>]

SomeDrafts    == { Draft(<<>>, 0, 0), Draft(<<1, 2>>, 0 - 1, 3) }
Ask(kind, from, to, amount) == [kind |-> kind, from |-> from, to |-> to, amount |-> amount]

SomeRequests ==
    { Ask("transfer", <<1>>, <<2>>, n) : n \in {0 - 1, 0, 20} }
    \cup { Ask("trc20", <<1>>, <<2>>, n) : n \in {0 - 1, 0, 6, Limit} }
    \cup { Ask(k, BadAddress, <<2>>, 6) : k \in {"transfer", "trc20"} }
    \cup { Ask(k, <<1>>, BadAddress, 6) : k \in {"transfer", "trc20"} }
SomeToken     == <<3>>
SomeContracts == { [type |-> "TransferAssetContract", parameter |-> Field(1, <<3>>)],
                   [type |-> "VoteWitnessContract", parameter |-> <<>>] }
===============================================================================
