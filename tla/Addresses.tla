------------------------------ MODULE Addresses ------------------------------
(***************************************************************************)
(* Addresses: Out.Address writes one for a script and a network, the       *)
(* parsers make a script of one again (address.go, cardano.go, tron.go,    *)
(* massa.go, solana.go).  The specification is a caller's chain of calls:  *)
(* generate a script, write its address, read it, write it again.          *)
(*                                                                         *)
(* An address is what its text says once the checksum is right; its kind   *)
(* is told by the fields.  A text of one kind is none of another: prefixes *)
(* and checksums differ.                                                   *)
(***************************************************************************)
EXTENDS Scripts

CONSTANTS
    Keys,      \* public keys, [id, kind]
    Foreign,   \* texts from elsewhere, with a right checksum
    MaxCached  \* bound on what a Script generates before an address is written

VARIABLES
    key,   \* the key of the Script
    cache, \* its cache
    out,   \* the Out the caller holds, or Nil
    text,  \* the address it holds, or Nil
    net,   \* the network that address was written for, or Nil
    paid   \* history: the script the address was written for, or Nil

vars == <<key, cache, out, text, net, paid>>

-----------------------------------------------------------------------------
(***************************************************************************)
(* Texts.                                                                  *)
(***************************************************************************)
Base58(v, d)    == [b58 |-> v, data |-> d]
Segwit(p, v, d) == [hrp |-> p, version |-> v, data |-> d]
CashAddr(t, d)  == [cash |-> t, data |-> d, prefixed |-> TRUE]
EvmText(d)      == [evm |-> d, cased |-> TRUE]
TronText(raw)   == [tron |-> raw]
MassaText(t, d) == [massa |-> t, data |-> d]
MassaKey(raw)   == [massakey |-> raw]
SolanaText(d)   == [solana |-> d]
CardanoText(p, payload) == [prefix |-> p, payload |-> payload]

Is(t, kind) == kind \in DOMAIN t

Networks == {"bitcoin", "bitcoin-cash", "bitcoin-testnet", "litecoin", "namecoin", "dogecoin",
             "monacoin", "electraproto", "dash"}

\* A function given as a set of pairs; Nil elsewhere.
At(table, x) == IF \E p \in table : p[1] = x THEN (CHOOSE p \in table : p[1] = x)[2] ELSE Nil

-----------------------------------------------------------------------------
(***************************************************************************)
(* Cardano.  The header is one byte, the type times 16 and the network.    *)
(***************************************************************************)
cardanoNetwork(n) ==
    At({ <<"", 1>>, <<"cardano", 1>>, <<"cardano-mainnet", 1>>, <<"mainnet", 1>>,
         <<"cardano-testnet", 0>>, <<"testnet", 0>> }, n)

cardanoHRP(type, n) ==
    IF type = 14 THEN (IF n = 0 THEN "stake_test" ELSE "stake")
    ELSE (IF n = 0 THEN "addr_test" ELSE "addr")

cardanoEncodeAddress(payload) ==
    CardanoText(cardanoHRP(payload[1].op \div 16, payload[1].op % 16), payload)

cardanoAddressFromOut(raw, n) ==
    IF cardanoNetwork(n) = Nil THEN Nil
    ELSE cardanoEncodeAddress(<<Op(16 * (raw[1].op \div 16) + cardanoNetwork(n))>> \o Tail(raw))

\* CardanoBaseAddress, CardanoEnterpriseAddress and CardanoRewardAddress, by type.
CardanoAddress(type, hashes, n) ==
    IF cardanoNetwork(n) = Nil \/ \E i \in DOMAIN hashes : hashes[i].n # 28 THEN Nil
    ELSE cardanoEncodeAddress(<<Op(16 * type + cardanoNetwork(n))>> \o hashes)

WantLen(type) == At({ <<0, 57>>, <<6, 29>>, <<14, 29>> }, type)

\* mutant: the prefix is not compared with the header.
ParseCardanoLoose(t) ==
    LET header == t.payload[1].op  type == header \div 16  n == header % 16
    IN  IF \/ t.prefix \notin {"addr", "addr_test", "stake", "stake_test"}
           \/ n \notin {0, 1} \/ WantLen(type) = Nil \/ Size(t.payload) # WantLen(type)
        THEN Nil
        ELSE makeOut("cardano", t.payload, <<IF n = 0 THEN "cardano-testnet" ELSE "cardano">>)

ParseCardanoAddress(t) ==
    LET header == t.payload[1].op  type == header \div 16  n == header % 16
    IN  IF \/ t.prefix \notin {"addr", "addr_test", "stake", "stake_test"}
           \/ n \notin {0, 1} \/ WantLen(type) = Nil \/ Size(t.payload) # WantLen(type)
           \/ (t.prefix \in {"stake", "stake_test"}) # (type = 14)
           \/ (t.prefix \in {"addr_test", "stake_test"}) # (n = 0)
        THEN Nil
        ELSE makeOut("cardano", t.payload, <<IF n = 0 THEN "cardano-testnet" ELSE "cardano">>)

-----------------------------------------------------------------------------
(***************************************************************************)
(* Writing.                                                                *)
(***************************************************************************)
KeyHashVersion == {
    <<"litecoin", 48>>, <<"namecoin", 52>>, <<"dogecoin", 30>>, <<"monacoin", 50>>,
    <<"electraproto", 55>>, <<"dash", 76>>, <<"bitcoin-testnet", 111>>, <<"bitcoin", 0>> }

ScriptHashVersion == {
    <<"litecoin", 50>>, <<"namecoin", 13>>, <<"dogecoin", 22>>, <<"monacoin", 55>>,
    <<"electraproto", 137>>, <<"dash", 16>>, <<"bitcoin-testnet", 196>>, <<"bitcoin", 5>> }

SegwitPrefix == {
    <<"litecoin", "ltc">>, <<"namecoin", "nc">>, <<"bitcoin", "bc">>, <<"bitcoin-testnet", "tb">>,
    <<"monacoin", "mona">>, <<"electraproto", "ep">> }

TaprootPrefix == { <<"bitcoin", "bc">>, <<"bitcoin-testnet", "tb">> }

\* A CashAddr or base58 address; no address if the script has no push where its name says.
HashAddress(n, table, type, d) ==
    CASE d = Nil -> Nil
      [] d # Nil /\ n \in {"bitcoin-cash", "bitcoincash"} -> CashAddr(type, d)
      [] d # Nil /\ At(table, n) # Nil -> Base58(At(table, n), d)
      [] OTHER -> Nil

SegwitAddress(n, table, v, d) == IF At(table, n) = Nil THEN Nil ELSE Segwit(At(table, n), v, d)

baseName(name) ==
    CASE name \in {"p2sh:p2pkh", "p2sh:p2pukh", "p2sh:p2pk", "p2sh:p2puk", "p2sh:p2wpkh"} -> "p2sh"
      [] name \in {"p2wsh:p2pkh", "p2wsh:p2pukh", "p2wsh:p2pk", "p2wsh:p2puk", "p2wsh:p2wpkh"} -> "p2wsh"
      [] OTHER -> name

\* mutant: the network the script came from goes before the one that was asked for.
NetworkOwnFirst(o, given) == IF o.flags \o given = <<>> THEN "" ELSE Head(o.flags \o given)

\* The network that counts: the first flag given, or else the first of the script's own.
Network(o, given) == IF given \o o.flags = <<>> THEN "" ELSE Head(given \o o.flags)

Address(o, given) ==
    LET n == Network(o, given)  b == baseName(o.name)
    IN  CASE b = "solana" -> SolanaText(o.raw)
          [] b = "cardano" -> cardanoAddressFromOut(o.raw, n)
          [] b = "eth" -> EvmText(o.raw)
          [] b = "tron" -> TronText(o.raw)
          [] b = "massa_pubkey" -> MassaKey(o.raw)
          [] b = "massa" -> IF o.raw[1].op \in {0, 1} THEN MassaText(o.raw[1].op, Tail(o.raw)) ELSE Nil
          [] b \in {"p2pkh", "p2pukh"} -> HashAddress(n, KeyHashVersion, 0, ParsePushBytes(o.raw, 3))
          [] b = "p2sh" -> HashAddress(n, ScriptHashVersion, 1, ParsePushBytes(o.raw, 2))
          [] b \in {"p2wpkh", "p2wsh"} -> SegwitAddress(n, SegwitPrefix, 0, ParsePushBytes(o.raw, 2))
          [] b = "p2tr" -> SegwitAddress(n, TaprootPrefix, 1, ParsePushBytes(o.raw, 2))
          [] OTHER -> Nil

-----------------------------------------------------------------------------
(***************************************************************************)
(* Reading.                                                                *)
(***************************************************************************)
KeyHashOut(d, flags) ==
    makeOut("p2pkh", Ops(<<118, 169>>) \o PushBytes(d) \o Ops(<<136, 172>>), flags)
ScriptHashOut(d, flags) == makeOut("p2sh", Ops(<<169>>) \o PushBytes(d) \o Ops(<<135>>), flags)
WitnessOut(name, v, d, n) == makeOut(name, Ops(<<v>>) \o PushBytes(d), <<n>>)

\* What a version byte means if the network is to be found out ...
AutoVersions == {
    <<0, "key",  <<"bitcoin", "bitcoin-cash">>>>, <<5, "script", <<"bitcoin", "bitcoin-cash">>>>,
    <<13, "script", <<"namecoin">>>>, <<16, "script", <<"dash">>>>, <<22, "script", <<"dogecoin">>>>,
    <<30, "key", <<"dogecoin">>>>, <<48, "key", <<"litecoin">>>>, <<50, "script", <<"litecoin">>>>,
    <<52, "key", <<"namecoin">>>>, <<55, "script", <<"monacoin">>>>, <<76, "key", <<"dash">>>>,
    <<111, "key", <<"bitcoin-testnet">>>>, <<137, "script", <<"electraproto">>>>,
    <<196, "script", <<"bitcoin-testnet">>>> }

\* ... and if it is given.
NetworkVersions(n) ==
    CASE n \in {"bitcoin", "bitcoin-cash"} -> { <<0, "key">>, <<5, "script">> }
      [] n = "bitcoin-testnet" -> { <<111, "key">>, <<196, "script">> }
      [] n = "litecoin" -> { <<48, "key">>, <<50, "script">> }
      [] n = "namecoin" -> { <<52, "key">>, <<13, "script">> }
      [] n = "dogecoin" -> { <<22, "script">>, <<30, "key">> }
      [] n = "monacoin" -> { <<50, "key">>, <<55, "script">> }
      [] n = "electraproto" -> { <<55, "key">>, <<137, "script">> }
      [] n = "dash" -> { <<76, "key">>, <<16, "script">> }
      [] OTHER -> {}

\* mutant: a version means what it means on its own, whatever network is given.
MeaningsAnywhere(n, v) == { m \in AutoVersions : m[1] = v }

\* The meanings of version v on network n, as <<version, what, flags>>.
Meanings(n, v) ==
    IF n = "auto" THEN { m \in AutoVersions : m[1] = v }
    ELSE { <<m[1], m[2], <<n>>>> : m \in { x \in NetworkVersions(n) : x[1] = v } }

parseBase58(n, t) ==
    IF t.data.n # 20 \/ Meanings(n, t.b58) = {} THEN Nil
    ELSE LET m == CHOOSE x \in Meanings(n, t.b58) : TRUE
         IN  IF m[2] = "key" THEN KeyHashOut(t.data, m[3]) ELSE ScriptHashOut(t.data, m[3])

SegwitNetwork(hrp) ==
    At({ <<"ltc", "litecoin">>, <<"nc", "namecoin">>, <<"bc", "bitcoin">>, <<"tb", "bitcoin-testnet">>,
         <<"mona", "monacoin">>, <<"ep", "electraproto">> }, hrp)

parseSegwit(n, t) ==
    LET is == SegwitNetwork(t.hrp)
    IN  CASE is = Nil \/ n \notin {is, "auto"} -> Nil
          [] is # Nil /\ n \in {is, "auto"} /\ t.version = 1
                /\ is \in {"bitcoin", "bitcoin-testnet"} /\ t.data.n = 32 ->
                WitnessOut("p2tr", 81, t.data, is)
          [] is # Nil /\ n \in {is, "auto"} /\ t.version = 0 /\ t.data.n \in {20, 32} ->
                WitnessOut(IF t.data.n = 20 THEN "p2wpkh" ELSE "p2wsh", 0, t.data, is)
          [] OTHER -> Nil

\* With its prefix or, at the end of the function, without.
parseCash(n, t) ==
    CASE n \notin {"bitcoin-cash", "auto"} -> Nil
      [] n \in {"bitcoin-cash", "auto"} /\ t.cash = 0 -> KeyHashOut(t.data, <<"bitcoin-cash">>)
      [] n \in {"bitcoin-cash", "auto"} /\ t.cash = 1 -> ScriptHashOut(t.data, <<"bitcoin-cash">>)
      [] OTHER -> Nil

ParseBitcoinBasedAddress(n, t) ==
    CASE Is(t, "cash") -> parseCash(n, t)
      [] Is(t, "hrp") -> parseSegwit(n, t)
      [] Is(t, "b58") -> parseBase58(n, t)
      [] OTHER -> Nil

\* Letters in lower case carry no checksum.
ParseEvmAddress(t) == makeOut("eth", t.evm, <<"evm">>)
ParseTronAddress(t) ==
    IF Size(t.tron) = 21 /\ t.tron[1] = Op(65) THEN makeOut("tron", t.tron, <<"tron">>) ELSE Nil
ParseMassaAddress(t) == makeOut("massa", Ops(<<t.massa>>) \o t.data, <<"massa">>)
ParseSolanaAddress(t) == IF Size(t.solana) = 32 THEN makeOut("solana", t.solana, <<"solana">>) ELSE Nil

Readers == Networks \cup {"auto", "evm", "tron", "massa", "solana", "cardano"}

Parse(reader, t) ==
    CASE reader = "evm"     -> IF Is(t, "evm") THEN ParseEvmAddress(t) ELSE Nil
      [] reader = "tron"    -> IF Is(t, "tron") THEN ParseTronAddress(t) ELSE Nil
      [] reader = "massa"   -> IF Is(t, "massa") THEN ParseMassaAddress(t) ELSE Nil
      [] reader = "solana"  -> IF Is(t, "solana") THEN ParseSolanaAddress(t) ELSE Nil
      [] reader = "cardano" -> IF Is(t, "prefix") THEN ParseCardanoAddress(t) ELSE Nil
      [] OTHER -> ParseBitcoinBasedAddress(reader, t)

-----------------------------------------------------------------------------
(***************************************************************************)
(* The caller.                                                             *)
(***************************************************************************)
\* The flags a caller may give to Address.
Hints == Networks \cup {"bitcoincash", "", "mainnet", "testnet", "cardano", "cardano-testnet"}
Given == {<<>>} \cup { <<h>> : h \in Hints }

Written(t, n, raw) == text' = t /\ net' = n /\ paid' = raw

\* Script.Out: a script that fails leaves only what it found on the way.
Out(name) ==
    /\ text = Nil /\ Cardinality(DOMAIN cache) < MaxCached
    /\ LET r == Generate(key, cache, name)
       IN  /\ cache' = r.cache
           /\ out' = IF r.bytes = Nil THEN Nil ELSE makeOut(name, r.bytes, <<>>)
    /\ UNCHANGED <<key, text, net, paid>>

\* Out.Address
WriteAddress(given) ==
    /\ out # Nil /\ Address(out, given) # Nil
    /\ Written(Address(out, given), IF given = <<>> THEN Network(out, given) ELSE given[1], out.raw)
    /\ UNCHANGED <<key, cache, out>>

\* A Cardano address put together from key hashes.
WriteCardano(type, hashes, n) ==
    /\ text = Nil /\ CardanoAddress(type, hashes, n) # Nil
    /\ Written(CardanoAddress(type, hashes, n), n, CardanoAddress(type, hashes, n).payload)
    /\ UNCHANGED <<key, cache, out>>

\* A text of somebody else.
Receive(t) == text = Nil /\ Written(t, Nil, Nil) /\ UNCHANGED <<key, cache, out>>

\* The same address in another form: without prefix, without the letter case.
Retype ==
    /\ text # Nil
    /\ \/ Is(text, "cash") /\ text' = [text EXCEPT !.prefixed = FALSE]
       \/ Is(text, "evm") /\ text' = [text EXCEPT !.cased = FALSE]
    /\ UNCHANGED <<key, cache, out, net, paid>>

\* A parser; the caller goes on with the script it gives.
ReadAddress(reader) ==
    /\ text # Nil /\ Parse(reader, text) # Nil
    /\ out' = Parse(reader, text)
    /\ UNCHANGED <<key, cache, text, net, paid>>

Init == /\ key \in Keys /\ cache = NoCache
        /\ out = Nil /\ text = Nil /\ net = Nil /\ paid = Nil

CardanoHashes(type) ==
    LET h == Data(28, [hash |-> "blake2b", arg |-> <<>>]) IN IF type = 0 THEN <<h, h>> ELSE <<h>>

Next == \/ \E name \in PubKeyNames \cup FormatNames \cup {"unknown"} : Out(name)
        \/ \E given \in Given : WriteAddress(given)
        \/ \E type \in {0, 6, 14}, h \in Hints : WriteCardano(type, CardanoHashes(type), h)
        \/ \E t \in Foreign : Receive(t)
        \/ Retype
        \/ \E reader \in Readers : ReadAddress(reader)

Spec == Init /\ [][Next]_vars

-----------------------------------------------------------------------------
(***************************************************************************)
(* Properties.                                                             *)
(***************************************************************************)
\* What Generate keeps is what it would give afresh, whatever was asked before and
\* whatever of it failed (script.go:70, 100).
CacheIsFresh ==
    \A name \in DOMAIN cache : cache[name] = Fresh(key, name)

\* The network whose reader takes an address.
ReaderOf(t, n) ==
    CASE Is(t, "evm") -> "evm" [] Is(t, "tron") -> "tron" [] Is(t, "massa") -> "massa"
      [] Is(t, "solana") -> "solana" [] Is(t, "prefix") -> "cardano"
      [] OTHER -> IF n = "bitcoincash" THEN "bitcoin-cash" ELSE n

\* What Address writes for a network, the parser of that network reads, as the same
\* script: two tables of version bytes and prefixes, written twice, agree.  The text
\* of a massa key has no parser, nor has the base58 form of the 32 bytes that a
\* CashAddr may hold (address.go:151, 355).
OwnNetworkReads ==
    paid # Nil /\ ~ Is(text, "massakey") /\ (Is(text, "b58") => text.data.n = 20) =>
        LET o == Parse(ReaderOf(text, net), text)
        IN  o # Nil /\ o.raw = (IF Is(text, "prefix") THEN text.payload ELSE paid)

\* The version bytes two networks share (address.go:182, 190).
Shared == {50, 55}

\* No parser makes of an address another script than it was written for: the version
\* byte may be shared by two networks, but then it means the same, except for the two
\* that the comments name, read for another network (address.go:182, 190).
NobodyElsePaid ==
    paid # Nil /\ ~ Is(text, "prefix") =>
        \A reader \in Readers :
            LET o == Parse(reader, text)
            IN  o = Nil \/ o.raw = paid \/ (Is(text, "b58") /\ text.b58 \in Shared /\ reader # net)

\* A script that was read can be written again without saying for what network, and is
\* read again as the same script; a Cardano text, also one of somebody else, is
\* then the same text: what its prefix says and what its header says is one thing
\* (address.go:356, cardano.go:187).
ReadingIsStable ==
    text # Nil =>
        \A reader \in Readers :
            LET o == Parse(reader, text)  again == Address(o, <<>>)
            IN  o # Nil => /\ again # Nil /\ Parse(reader, again) = o
                           /\ Is(text, "prefix") => again = text

BitcoinNames == { f[1] : f \in { x \in FormatTable : x[3] \in {"push", "push hash160", "push sha256", "push tweak"} } }

\* GuessOut finds for a script the form it was made of, with the key as a hint also
\* the one behind a hash; with another key or none, the plain one (info.go:85).
GuessNamesTheForm ==
    out # Nil /\ out.name \in BitcoinNames /\ text = Nil =>
        \A hint \in Keys \cup {Nil} :
            GuessOut(out.raw, hint).name =
                (IF hint = key \/ out.name \in {"p2pk", "p2puk"}
                 THEN IF baseName(out.name) = "p2wsh" THEN "p2wsh" ELSE out.name
                 ELSE IF out.name = "p2pukh" THEN "p2pkh" ELSE baseName(out.name))

\* The hash btcguess.go finds in a script is the one GuessOut's result gives, which gives
\* none for p2wsh; a key it finds is the one the script was made for; and the
\* signed input of a key hash leads to the hash its output names.  The hash of 32
\* bytes that a CashAddr may hold is left out (btcguess.go:12, 84).
HashesAgree ==
    out # Nil /\ (baseName(out.name) = "p2sh" => Size(out.raw) = 23)
    /\ baseName(out.name) \in {"p2pkh", "p2pukh", "p2pk", "p2puk", "p2sh", "p2wpkh", "p2wsh", "p2tr"} =>
        LET found == GuessPubKeyAndHashByOutScript(out.raw)
            plain == GuessOut(out.raw, Nil)
            pub   == getPubKeyBytes(key, IF out.name \in {"p2pukh", "p2puk"} THEN "pubkey:uncomp" ELSE "pubkey:comp")
            sig   == Data(72, [key |-> "signature", enc |-> "der"])
        IN  /\ IF plain.name = "p2wsh" THEN found.hash = out.raw[3] ELSE found.hash = Hash(plain)
            /\ found.pub # Nil <=> out.name \in {"p2pk", "p2puk"}
            /\ text = Nil /\ out.name \in {"p2pkh", "p2pukh", "p2pk", "p2puk"} =>
                  LET in == GuessPubKeyAndHashByInScript(PushBytes(sig) \o PushBytes(pub[1]))
                  IN  in.hash = found.hash /\ found.pub \in {Nil, in.pub}

\* The pieces of code that recognise a script by its shape agree with the one that made
\* it and with each other (info.go:85, 114; btcguess.go:12, 84).
RecognitionAgrees == GuessNamesTheForm /\ HashesAgree
=============================================================================
