------------------------------- MODULE Scripts -------------------------------
(***************************************************************************)
(* Output scripts: how a Script generates them for its key (script.go,     *)
(* format.go), how GuessOut finds the form of one (info.go), and which key *)
(* or hash is found in it (info.go, btcguess.go).                          *)
(*                                                                         *)
(* A script is a sequence of bytes of fixed value, [op], and of blocks of  *)
(* data, [n, of]: their length and what they are, a key or a hash of       *)
(* something.  Hashes and the taproot tweak are injective.  Every block in *)
(* a script is shorter than 76 bytes, so a push is one byte, its length.   *)
(***************************************************************************)
EXTENDS Integers, SequencesExt, FiniteSetsExt

CONSTANT Nil  \* an error, or a hint or a hash that is not there

Op(b) == [op |-> b]
Data(n, x) == [n |-> n, of |-> x]
IsData(t) == "of" \in DOMAIN t

Ops(bytes) == [i \in DOMAIN bytes |-> Op(bytes[i])]
Size(raw) == FoldLeft(LAMBDA s, t : s + (IF IsData(t) THEN t.n ELSE 1), 0, raw)

PushBytes(d) == <<Op(d.n), d>>

\* The block whose push begins at token i, or Nil.
ParsePushBytes(raw, i) ==
    IF i < Len(raw) /\ IsData(raw[i + 1]) /\ ~ IsData(raw[i]) /\ raw[i].op = raw[i + 1].n
    THEN raw[i + 1] ELSE Nil

-----------------------------------------------------------------------------
(***************************************************************************)
(* Generating.                                                             *)
(***************************************************************************)
\* The forms of a public key; a key is [id, kind].
getPubKeyBytes(key, name) ==
    CASE name = "pubkey:comp"    /\ key.kind = "secp256k1" -> <<Data(33, [key |-> key.id, enc |-> "comp"])>>
      [] name = "pubkey:uncomp"  /\ key.kind = "secp256k1" -> <<Data(65, [key |-> key.id, enc |-> "uncomp"])>>
      [] name = "pubkey:ed25519" /\ key.kind = "ed25519"   -> <<Data(32, [key |-> key.id, enc |-> "raw"])>>
      [] name = "pubkey:pkix"    /\ key.kind = "ed25519"   -> <<Data(44, [key |-> key.id, enc |-> "pkix"])>>
      [] OTHER -> Nil

PubKeyNames == {"pubkey:pkix", "pubkey:ed25519", "pubkey:comp", "pubkey:uncomp"}

\* The bytes in front, what is done to the piece that is looked up, that piece, and
\* the bytes behind; each format has exactly one.
FormatTable == {
    <<"p2pkh",        <<118, 169>>, "push hash160", "pubkey:comp",    <<136, 172>>>>,
    <<"p2pukh",       <<118, 169>>, "push hash160", "pubkey:uncomp",  <<136, 172>>>>,
    <<"p2pk",         <<>>,         "push",         "pubkey:comp",    <<172>>>>,
    <<"p2puk",        <<>>,         "push",         "pubkey:uncomp",  <<172>>>>,
    <<"p2wpkh",       <<0>>,        "push hash160", "pubkey:comp",    <<>>>>,
    <<"p2tr",         <<81>>,       "push tweak",   "pubkey:comp",    <<>>>>,
    <<"p2sh:p2pkh",   <<169>>,      "push hash160", "p2pkh",          <<135>>>>,
    <<"p2sh:p2pukh",  <<169>>,      "push hash160", "p2pukh",         <<135>>>>,
    <<"p2sh:p2pk",    <<169>>,      "push hash160", "p2pk",           <<135>>>>,
    <<"p2sh:p2puk",   <<169>>,      "push hash160", "p2puk",          <<135>>>>,
    <<"p2sh:p2wpkh",  <<169>>,      "push hash160", "p2wpkh",         <<135>>>>,
    <<"p2wsh:p2pkh",  <<0>>,        "push sha256",  "p2pkh",          <<>>>>,
    <<"p2wsh:p2pukh", <<0>>,        "push sha256",  "p2pukh",         <<>>>>,
    <<"p2wsh:p2pk",   <<0>>,        "push sha256",  "p2pk",           <<>>>>,
    <<"p2wsh:p2puk",  <<0>>,        "push sha256",  "p2puk",          <<>>>>,
    <<"p2wsh:p2wpkh", <<0>>,        "push sha256",  "p2wpkh",         <<>>>>,
    <<"eth",          <<>>,         "keccak",       "pubkey:uncomp",  <<>>>>,
    <<"tron",         <<65>>,       "keccak",       "pubkey:uncomp",  <<>>>>,
    <<"massa_pubkey", <<0>>,        "as is",        "pubkey:ed25519", <<>>>>,
    <<"massa",        <<0, 0>>,     "blake3",       "massa_pubkey",   <<>>>>,
    <<"solana",       <<>>,         "as is",        "pubkey:ed25519", <<>>>>,
    <<"cardano",      <<97>>,       "blake2b",      "pubkey:ed25519", <<>>>> }

FormatNames == { f[1] : f \in FormatTable }
Formats == [n \in FormatNames |-> CHOOSE f \in FormatTable : f[1] = n]

hash160(bytes) == Data(20, [hash |-> "hash160", arg |-> bytes])

\* What the format does to its piece.
Inserted(how, bytes) ==
    CASE how = "as is"        -> bytes
      [] how = "push"         -> PushBytes(bytes[1])
      [] how = "push hash160" -> PushBytes(hash160(bytes))
      [] how = "push sha256"  -> PushBytes(Data(32, [hash |-> "sha256", arg |-> bytes]))
      [] how = "push tweak"   -> PushBytes(Data(32, [hash |-> "tweak", arg |-> bytes]))
      [] how = "keccak"       -> <<Data(20, [hash |-> "keccak", arg |-> bytes])>>
      [] how = "blake3"       -> <<Data(32, [hash |-> "blake3", arg |-> bytes])>>
      [] how = "blake2b"      -> <<Data(28, [hash |-> "blake2b", arg |-> bytes])>>

NoCache == [n \in {} |-> Nil]
Extended(cache, name, bytes) == [n \in DOMAIN cache \cup {name} |-> IF n = name THEN bytes ELSE cache[n]]

\* mutant: the piece that was looked up is kept under the name of the format.
StoredPiece(r, name, bytes) ==
    IF r.bytes = Nil THEN r ELSE [bytes |-> bytes, cache |-> Extended(r.cache, name, r.bytes)]

\* The end of Generate: nothing is kept of what failed.
Stored(r, name, bytes) ==
    IF r.bytes = Nil THEN r ELSE [bytes |-> bytes, cache |-> Extended(r.cache, name, bytes)]

\* Script.Generate: the script, or Nil, and the cache after the call.
RECURSIVE Generate(_, _, _)
Generate(key, cache, name) ==
    CASE name \in DOMAIN cache -> [bytes |-> cache[name], cache |-> cache]
      [] name \notin DOMAIN cache /\ name \in PubKeyNames ->
            LET b == getPubKeyBytes(key, name) IN Stored([bytes |-> b, cache |-> cache], name, b)
      [] name \notin DOMAIN cache /\ name \in FormatNames ->
            LET f == Formats[name]  r == Generate(key, cache, f[4])
            IN  Stored(r, name, IF r.bytes = Nil THEN Nil ELSE Ops(f[2]) \o Inserted(f[3], r.bytes) \o Ops(f[5]))
      [] OTHER -> [bytes |-> Nil, cache |-> cache]

Fresh(key, name) == Generate(key, NoCache, name).bytes

-----------------------------------------------------------------------------
(***************************************************************************)
(* Guessing.                                                               *)
(***************************************************************************)
makeOut(name, raw, flags) == [name |-> name, raw |-> raw, flags |-> flags]

StartsWith(raw, bytes) == IsPrefix(Ops(bytes), raw)
EndsWith(raw, bytes) == IsSuffix(Ops(bytes), raw)

IsKeyHash(raw) ==
    Size(raw) = 25 /\ StartsWith(raw, <<118, 169, 20>>) /\ EndsWith(raw, <<136, 172>>)
IsKey(raw) ==
    LET v == ParsePushBytes(raw, 1)
    IN  v # Nil /\ raw = PushBytes(v) \o Ops(<<172>>) /\ v.n \in {33, 65}
IsScriptHash(raw) ==
    LET v == ParsePushBytes(raw, 2) IN v # Nil /\ raw = Ops(<<169>>) \o PushBytes(v) \o Ops(<<135>>)

\* The first of the names under which the hint generates the script, or the plain name.
Named(raw, hint, names, plain) ==
    LET hits == SelectSeq(names, LAMBDA e : hint # Nil /\ Fresh(hint, e) = raw)
    IN  makeOut(IF hits = <<>> THEN plain ELSE hits[1], raw, <<>>)

\* mutant: the form with the uncompressed key is not tried.
KeyHashNamesShort == <<"p2pkh">>
KeyHashNames == <<"p2pkh", "p2pukh">>
ScriptHashNames == <<"p2sh:p2pk", "p2sh:p2pkh", "p2sh:p2puk", "p2sh:p2pukh", "p2sh:p2wpkh">>

GuessOut(raw, hint) ==
    CASE raw = <<>> -> makeOut("empty", raw, <<"invalid">>)
      [] StartsWith(raw, <<0>>) ->
            makeOut(CASE Size(raw) = 22 -> "p2wpkh" [] Size(raw) = 34 -> "p2wsh" [] OTHER -> "invalid",
                    raw, <<>>)
      [] StartsWith(raw, <<81>>) -> makeOut(IF Size(raw) = 34 THEN "p2tr" ELSE "invalid", raw, <<>>)
      [] StartsWith(raw, <<106>>) -> makeOut("op_return", raw, <<>>)
      [] IsKeyHash(raw) -> Named(raw, hint, KeyHashNames, "p2pkh")
      [] IsKey(raw) -> makeOut(IF Size(raw) = 35 THEN "p2pk" ELSE "p2puk", raw, <<>>)
      [] IsScriptHash(raw) -> Named(raw, hint, ScriptHashNames, "p2sh")
      [] OTHER -> makeOut("invalid", raw, <<>>)

\* Out.Hash.  A name with a colon is not one of its cases.
Hash(out) ==
    CASE out.name \in {"p2wpkh", "p2tr", "p2sh"} -> ParsePushBytes(out.raw, 2)
      [] out.name \in {"p2pkh", "p2pukh"} -> ParsePushBytes(out.raw, 3)
      [] out.name \in {"p2pk", "p2puk"} -> hash160(<<ParsePushBytes(out.raw, 1)>>)
      [] out.name \in {"tron", "cardano"} -> out.raw[2]
      [] out.name \in {"eth", "massa", "solana"} -> out.raw
      [] OTHER -> Nil

\* mutant: the hash of a key in a script is that of its push.
FoundKeyPush(raw) == [pub |-> raw[2], hash |-> hash160(SubSeq(raw, 1, 2))]

FoundKey(raw) == [pub |-> raw[2], hash |-> hash160(<<raw[2]>>)]

\* The key and the hash, each of which may be Nil.
GuessPubKeyAndHashByOutScript(raw) ==
    CASE IsKeyHash(raw) -> [pub |-> Nil, hash |-> raw[4]]
      [] Size(raw) = 23 /\ StartsWith(raw, <<169, 20>>) /\ EndsWith(raw, <<135>>) ->
            [pub |-> Nil, hash |-> raw[3]]
      [] Size(raw) = 35 /\ StartsWith(raw, <<33>>) /\ EndsWith(raw, <<172>>) -> FoundKey(raw)
      [] Size(raw) = 67 /\ StartsWith(raw, <<65>>) /\ EndsWith(raw, <<172>>) -> FoundKey(raw)
      [] Size(raw) = 22 /\ StartsWith(raw, <<0, 20>>) -> [pub |-> Nil, hash |-> raw[3]]
      [] Size(raw) = 34 /\ StartsWith(raw, <<0, 32>>) -> [pub |-> Nil, hash |-> raw[3]]
      [] Size(raw) = 34 /\ StartsWith(raw, <<81, 32>>) -> [pub |-> Nil, hash |-> raw[3]]
      [] OTHER -> [pub |-> Nil, hash |-> Nil]

\* isPlausibleSecp256k1PubKey: also the prefix, which an encoded key has.
Plausible(d) == d # Nil /\ d.n \in {33, 65} /\ "key" \in DOMAIN d.of

GuessPubKeyAndHashByInScript(raw) ==
    LET first == ParsePushBytes(raw, 1)  second == ParsePushBytes(raw, 3)
    IN  IF first # Nil /\ Plausible(second)
        THEN [pub |-> second, hash |-> hash160(<<second>>)]
        ELSE [pub |-> Nil, hash |-> Nil]
=============================================================================
