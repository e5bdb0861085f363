----------------------------- MODULE MCAlgorithms -----------------------------
(* The calls of the pure algorithms that TLC tries: all values around every  *)
(* border, for radixes small enough that all borders are met.                *)
EXTENDS Lengths, Calldata, Amounts, Rewards, CardanoKeys, BtcExtract, TaprootKeys, SolanaCompile

Bounded(S, n) == UNION { [1..k -> S] : k \in 0..n }

LengthCalls ==
    { [f |-> "BtcVarInt", v |-> v] : v \in 0..U32+2 \cup {U64 - 2, U64 - 1} }
    \cup { [f |-> "PushBytes", v |-> v] : v \in 0..U32+2 }
    \cup { [f |-> "compact-u16", bytes |-> s] : s \in Bounded(0..2*Septet-1, 3) }
    \cup { [f |-> "convertBits", from |-> 3, to |-> 2, data |-> s] : s \in Bounded(0..8, 3) }
    \cup { [f |-> "convertBits", from |-> 8, to |-> 5, data |-> s] :
              s \in Bounded({0, 1, 16, 31, 128, 255}, 3) }

-----------------------------------------------------------------------------
Num(n)     == [kind |-> "int", n |-> n]
Raw(s)     == [kind |-> "bytes", v |-> s]
Text(s, h) == [kind |-> "text", v |-> s, hex |-> h]

\* A word of two bytes: the narrow types have one.
SmallWidths == [t \in NumberTypes \cup FixedBytes |->
                   IF t \in {"uint", "uint256", "bytes32"} THEN 2 ELSE 1]

Params == { Num(v) : v \in {-Limit, 1 - Limit, -1, AbiByte - 1, AbiByte, Limit - 1, Limit} }
    \cup { Raw(<<>>), Raw(<<3>>), Raw(<<1, 2, 3>>), Text(<<6, 7>>, <<6>>), Text(<<2>>, <<>>),
           [kind |-> "eth out", v |-> <<4>>], [kind |-> "other out", v |-> <<4>>] }
SomeTypes == { "uint256", "uint8", "bytes4", "bytes32", "address", "string", "tuple" }

TypesCall(t, p) == [how |-> "types", types |-> t, params |-> p]
AutoCall(p)     == [how |-> "auto", types |-> <<>>, params |-> p]

FewCalls == { TypesCall(<<"bytes", "uint256">>, <<Raw(<<1, 2>>), Num(v)>>) : v \in {9, Limit} }
    \cup { TypesCall(<<"uint256", "string">>, <<Num(9), Text(<<2>>, <<>>)>>),
           TypesCall(<<"bytes">>, <<Num(9)>>), TypesCall(<<"bytes">>, <<Raw(<<5>>), Raw(<<6>>)>>),
           [how |-> "abi", types |-> <<>>, params |-> <<>>],
           [how |-> "abi", types |-> <<"address", "bytes">>, params |-> <<Raw(<<3>>), Raw(<<>>)>>],
           AutoCall(<<Raw(<<1, 1, 1>>), Num(7)>>), AutoCall(<<Num(7), Raw(<<7, 7>>), Num(Limit)>>) }

\* The types of the test at evmabi_extra_test.go:96, one after the other.
WordTypes == <<"uint8", "uint16", "uint32", "uint64", "uint256", "uint", "bytes4", "bytes32">>

CalldataCalls ==
    { [f |-> "AbiBuffer", calls |-> c] :
        c \in { <<TypesCall(<<t, u>>, <<p, q>>)>> : t, u \in SomeTypes, p, q \in Params }
              \cup { <<TypesCall(WordTypes, [n \in 1..8 |-> Num(n + k)])>> : k \in 0..3 }
              \cup { <<AutoCall(<<p, q>>)>> : p, q \in Params }
              \cup [1..2 -> FewCalls] \cup [1..3 -> FewCalls] }

-----------------------------------------------------------------------------
AmountCalls ==
    { [f |-> "UnmarshalText", text |-> [form |-> "decimal", digits |-> n, behind |-> b]] :
        n \in 0..AmountTop+9, b \in NoDot..Decimals+1 }
    \cup { [f |-> "UnmarshalText", text |-> [form |-> "hex", digits |-> n, behind |-> NoDot]] :
        n \in 0..AmountTop+9 }
    \cup { [f |-> "MarshalJSON", amount |-> a] : a \in 0..MaxAmount }

RewardCalls ==
    { [f |-> "CumulativeReward", model |-> m, height |-> h] :
        m \in {"halving", "doge", "dash", "zero"}, h \in 0..HeightTop-1 }

-----------------------------------------------------------------------------
ToDigits(n) == [i \in 1..Width |-> (n \div Digit^(i - 1)) % Digit]

\* A function with values all over the place.
SomeHmac(chain, material, index) ==
    LET m == IF Len(material) = 1 THEN material[1]
             ELSE Value(material[1], Width) + 2 * Value(material[2], Width)
        n == 7 * m + 5 * chain + 11 * index + 3
    IN  [zl |-> ToDigits(n), zr |-> ToDigits(5 * n), chain |-> n % 3]

KeyCalls ==
    { [f |-> "cardanoAdd", x |-> x, y |-> y] : x, y \in Digits }
    \cup { [f |-> "DerivePath", key |-> NewCardanoExtendedKey(ToDigits(s), ToDigits(7), c), path |-> p] :
             s \in 0..Size-1, c \in {NoKey, 0, 1, 2}, p \in Bounded({0, 1, Hardened, Hardened + 1}, 2) }

-----------------------------------------------------------------------------
Der(r, t) == <<48, 4 + Len(r) + Len(t), 2, Len(r)>> \o r \o <<2, Len(t)>> \o t
Signed(r, t) == Der(r, t) \o <<1>>

DerCalls ==
    { [f |-> "parseEcdsaSig", sig |-> Signed(r, t)] : r, t \in Bounded({0, 5, 255}, 3) }
    \cup UNION { { [f |-> "parseEcdsaSig", sig |-> [Signed(r, t) EXCEPT ![k] = (@ + d) % 256]] :
                     k \in DOMAIN Signed(r, t), d \in {1, 2, 255} } : r, t \in Bounded({2, 5}, 3) }

\* Keys 1 to 3; item 0 is no key.
PubOf(k, enc) == Item(IF enc = "comp" THEN 33 ELSE 65, IF enc = "comp" THEN 2 + (k % 2) ELSE 4, [kind |-> "pub", key |-> k])
XOnly(k)      == Item(32, 7, [kind |-> "pub", key |-> k])
NoPub         == Item(33, 5, [kind |-> "none"])
Ecdsa(k, over, flag)   == Item(72, 48, [kind |-> "ecdsa", by |-> k, over |-> over, flag |-> flag])
Schnorr(k, over, flag) ==
    Item(IF flag = 0 THEN 64 ELSE 65, 80, [kind |-> "schnorr", by |-> k, over |-> over, flag |-> flag])
Control(n) == Item(33 + 32 * n, 192 + (n % 2), [kind |-> "control"])
Annex      == Item(5, 80, [kind |-> "annex"])

Spent(form, els, wit, prev, by, flag, over) ==
    [form |-> form, els |-> els, wit |-> wit, prev |-> prev, by |-> by, flag |-> flag, over |-> over]

CheckSig(k) == <<Push(PubOf(k, "comp")), Code(172)>>
\* A key check behind a time lock of n bytes.
Late(n, k) == <<Push(Item(n, 0, [kind |-> "time"])), Code(177), Code(117)>> \o CheckSig(k)
MultisigOf(m, pubs) ==
    Script(<<Code(80 + m)>> \o [k \in DOMAIN pubs |-> Push(pubs[k])] \o <<Code(80 + Len(pubs)), Code(174)>>)

Flags == {0, 1, 3, 129}

KeyHashSpends ==
    { LET pub == PubOf(1, enc)  over == Digest("legacy", KeyHashScript(pub))
      IN  Spent("p2pkh", <<Push(Ecdsa(1, over, flag)), Push(pub)>>, <<>>, KeyHashScript(pub), <<1>>, flag, over) :
        enc \in {"comp", "uncomp"}, flag \in Flags }
    \cup { LET pub == PubOf(k, "comp")  over == Digest("bip143", KeyHashScript(pub))
           IN  Spent("p2wpkh", <<>>, <<Ecdsa(k, over, flag), pub>>, Absent, <<k>>, flag, over) :
             k \in {1, 2}, flag \in Flags }

\* The keys that signed, or 0 where a place is empty.
MultisigSpend(pubs, by, flag) ==
    LET redeem == MultisigOf(Len(by), pubs)  over == Digest("legacy", redeem)
        place(k) == Push(IF by[k] = 0 THEN Empty ELSE Ecdsa(by[k], over, flag))
    IN  Spent("p2sh-multisig", <<Push(Empty)>> \o [k \in DOMAIN by |-> place(k)] \o <<Push(redeem)>>, <<>>,
              Absent, SelectSeq(by, LAMBDA k : k # 0), flag, over)

Comp(k) == PubOf(k, "comp")
MultisigSpends ==
    { MultisigSpend(<<Comp(1), PubOf(2, "uncomp"), Comp(3)>>, by, flag) :
        by \in UNION { { s \in [1..m -> 0..3] : ToSet(s) # {0} } : m \in 1..3 }, flag \in Flags }
    \cup { MultisigSpend(<<NoPub, Comp(2), Comp(2)>>, <<2, 2>>, 1), MultisigSpend(<<Comp(1)>>, <<1>>, 1) }

TaprootSpends ==
    { Spent("p2tr-keypath", <<>>, <<Schnorr(1, Digest("bip341", Absent), flag)>>, Absent, <<1>>, flag,
            Digest("bip341", Absent)) : flag \in Flags }
    \cup { LET leaf == Script(<<Push(XOnly(2)), Code(172)>>)  over == Digest("bip341", leaf)
           IN  Spent("p2tr-scriptpath", <<>>, <<Schnorr(2, over, flag), leaf, Control(n)>>, Absent, <<2>>, flag, over) :
             flag \in Flags, n \in 0..2 }

\* Forms the extractor does not know.
OtherSpends ==
    LET e(k)  == Ecdsa(k, Digest("other", Absent), 1)
        sc(k) == Schnorr(k, Digest("other", Absent), 0)
        other(form, els, wit, by) == Spent(form, els, wit, Absent, by, 1, Absent)
        wsh(stack, els) == other("p2wsh", <<>>, stack \o <<Script(els)>>, <<1>>)
        leaf(stack, els) == other("tapscript", <<>>, stack \o <<Script(els), Control(1)>>, <<1>>)
    IN  { other("p2pk", <<Push(e(1))>>, <<>>, <<1>>),
          other("p2sh one signature", <<Push(e(1)), Push(Script(CheckSig(1)))>>, <<>>, <<1>>),
          other("p2sh:p2pkh", <<Push(e(1)), Push(Comp(1)), Push(KeyHashScript(Comp(1)))>>, <<>>, <<1>>),
          other("p2sh:p2wpkh", <<Push(Script(<<Push(Empty), Push(Item(20, 0, [kind |-> "hash"]))>>))>>,
                <<e(1), Comp(1)>>, <<1>>),
          wsh(<<e(1)>>, CheckSig(1)), wsh(<<e(1)>>, Late(3, 1)), wsh(<<e(1)>>, Late(5, 1)),
          wsh(<<e(1), Comp(1)>>, KeyHashScript(Comp(1)).is.els),
          wsh(<<Empty, e(1), e(2)>>, MultisigOf(2, <<Comp(1), Comp(2)>>).is.els),
          leaf(<<sc(1)>>, <<Push(XOnly(1)), Code(173), Code(81)>>), leaf(<<sc(1), sc(2)>>, <<Push(XOnly(1)), Code(172)>>),
          leaf(<<>>, <<Code(81)>>), leaf(<<sc(1)>>, CheckSig(1)),
          other("annex", <<>>, <<sc(1), Annex>>, <<1>>),
          other("annex", <<>>, <<sc(1), Script(<<Push(XOnly(1)), Code(172)>>), Control(0), Annex>>, <<1>>) }
        \cup { other("multisig", <<Push(Empty)>> \o [k \in DOMAIN by |-> Push(e(by[k]))], <<>>, by) :
                 by \in {<<1>>, <<1, 2>>, <<1, 2, 3>>} }

ExtractCalls ==
    { [f |-> "ExtractBtcInputSig", spend |-> s] :
        s \in KeyHashSpends \cup MultisigSpends \cup TaprootSpends \cup OtherSpends }

-----------------------------------------------------------------------------
\* Account 4 never signs and 5 is a program, so that up to five accounts occur, one
\* more than there are indexes, and all rights on 1, 2 and 3.
Meta(k, s, w) == [key |-> k, signer |-> s, writable |-> w]
Ix(p, accts)  == [prog |-> p, accts |-> accts, data |-> "d"]

SomeMetas == [key : {1, 2, 3}, signer : BOOLEAN, writable : BOOLEAN]
             \cup [key : {4}, signer : {FALSE}, writable : BOOLEAN]
Three  == { <<Meta(2, s, w), Meta(3, w, s), Meta(4, FALSE, x)>> : s, w, x \in BOOLEAN }
OneIx  == { <<Ix(p, a)>> : p \in {3, 5}, a \in Bounded(SomeMetas, 2) \cup Three }
TwoIxs == { <<Ix(p, a), Ix(q, b)>> :
              p \in {3, 5}, q \in {1, 5}, a, b \in Bounded(SomeMetas, 1) }

CompileCalls == [f : {"NewSolanaTx"}, order : [payer : {1, 2}, ixs : OneIx \cup TwoIxs]]

-----------------------------------------------------------------------------
Init == call \in LengthCalls \cup CalldataCalls \cup AmountCalls \cup RewardCalls \cup KeyCalls
             \cup DerCalls \cup ExtractCalls \cup TaprootCalls \cup CompileCalls

Spec == Init /\ [][Answered]_call
=============================================================================
