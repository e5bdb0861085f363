------------------------------ MODULE MCBtcWire ------------------------------
(* Streams for BtcWire: transactions at and over every limit, cut anywhere,  *)
(* followed by other bytes, with one byte changed, and with long counts.     *)
EXTENDS BtcWire

In(script, wit) ==
    [txid |-> [k \in 1..TxidLen |-> k], vout |-> 1, script |-> script, sequence |-> Byte + 3, wit |-> wit]
Out(script) == [amount |-> 2 * Byte + 1, script |-> script]

Few(S) == {<<>>} \cup { <<x>> : x \in S } \cup { p \in S \X S : p[1] # p[2] }

Ins  == { In(Zeros(n), <<>>) : n \in {0, 3} } \cup { In(<<>>, <<Zeros(n)>>) : n \in {1, MaxBuf} }
Outs == { Out(Zeros(n)) : n \in {1, MaxBuf} }

Tx(ins, outs) == [version |-> 2, ins |-> ins, outs |-> outs, locktime |-> 5]

Txs == { Tx(ins, outs) : ins \in Few(Ins), outs \in { <<>>, <<Out(<<4>>)>>, <<Out(<<>>), Out(Zeros(MaxBuf))>> } }

\* Over one limit, or at another.
Big == { Tx(<<In(<<>>, <<>>), In(<<1>>, <<>>), In(<<>>, <<>>)>>, <<>>),
         Tx(<<In(Zeros(MaxBuf + 1), <<>>)>>, <<>>),
         Tx(<<In(<<>>, <<Zeros(MaxBuf + 1)>>)>>, <<>>),
         Tx(<<In(<<>>, <<<<>>, <<1>>, <<>>>>)>>, <<Out(<<>>)>>),
         Tx(<<In(<<>>, <<<<>>, <<1>>, <<>>, <<2>>>>)>>, <<>>),
         Tx(<<In(<<>>, <<>>)>>, Repeat(Out(<<>>), MaxOuts)),
         Tx(<<In(<<>>, <<>>)>>, Repeat(Out(<<>>), MaxOuts + 1)) }

Changed(s, k, b) == [s EXCEPT ![k] = b]

\* A count in the form of three bytes.
Long(t) ==
    LET s == Bytes(t) IN SubSeq(s, 1, 4) \o <<Byte - 3, s[5], 0>> \o SubSeq(s, 6, Len(s))

MCSources ==
    { [bytes |-> Bytes(t) \o tail, wrote |-> t] : t \in Txs \cup Big, tail \in {<<>>, <<0>>} }
    \cup UNION { { [bytes |-> Changed(Bytes(t), k, b), wrote |-> Nil] :
                     k \in 5..Len(Bytes(t)), b \in {0, 1, MaxIns, Byte - 3, Byte - 1} } :
                   t \in { Tx(<<In(<<1>>, <<>>)>>, <<Out(<<4>>)>>), Tx(<<In(<<>>, <<<<3>>>>)>>, <<Out(<<>>)>>) } }
    \cup { [bytes |-> exportBytes(t, TRUE), wrote |-> Nil] : t \in Txs }
    \cup { [bytes |-> Long(t), wrote |-> Nil] : t \in Txs }
=============================================================================
