----------------------------- MODULE MCAddresses -----------------------------
EXTENDS Addresses

MCKeys == { [id |-> "k1", kind |-> "secp256k1"], [id |-> "k2", kind |-> "secp256k1"],
            [id |-> "e", kind |-> "ed25519"] }

X(n) == Data(n, [foreign |-> "x"])

\* Cardano texts with every prefix and all kinds of headers and lengths, and other
\* texts that are nobody's address.
MCForeign ==
    { CardanoText(p, <<Op(16 * t + n)>> \o h) :
        p \in {"addr", "addr_test", "stake", "stake_test", "script"}, t \in {0, 4, 6, 14}, n \in 0..2,
        h \in {<<>>, <<X(28)>>, <<X(28), X(28)>>} }
    \cup { Base58(v, X(n)) : v \in {0, 5, 50, 55, 65, 255}, n \in {0, 20, 32} }
    \cup { Segwit(p, v, X(n)) : p \in {"bc", "tb", "ltc", "xx"}, v \in 0..2, n \in {20, 30, 32} }
    \cup { CashAddr(t, X(n)) : t \in 0..2, n \in {20, 32} }
    \cup { TronText(Ops(<<v>>) \o <<X(n)>>) : v \in {65, 66}, n \in {20, 21} }
    \cup { MassaText(t, Ops(<<0>>) \o <<X(32)>>) : t \in 0..1 }
    \cup { SolanaText(<<X(n)>>) : n \in {31, 32} }
=============================================================================
