------------------------------ MODULE BtcExtract ------------------------------
(***************************************************************************)
(* ExtractBtcInputSig and what follows it (btctxparse.go, btctx_p2tr.go):  *)
(* which signatures an input holds, over which digest, and by which key.   *)
(*                                                                         *)
(* An item, of a witness or pushed by a script, is its length, its first   *)
(* byte and what it is.  A script is a sequence of pushes of items and of  *)
(* opcodes; the empty push is OP_0.  A digest is what of the spend it      *)
(* commits to; that it commits to the transaction is BtcSign's subject.    *)
(* Only parseEcdsaSig looks at the bytes of an item.                       *)
(***************************************************************************)
EXTENDS PureCall, Integers, SequencesExt

CONSTANTS
    ScalarLen, \* 32, the bytes of r and of s
    Absent,    \* nil
    ParseError     \* an error

ASSUME ExtractAssumption == ScalarLen \in Nat \ {0}

-----------------------------------------------------------------------------
(***************************************************************************)
(* Items and scripts.                                                      *)
(***************************************************************************)
Item(n, first, is) == [len |-> n, first |-> first, is |-> is]
Empty == Item(0, -1, [kind |-> "empty"])

Push(item) == [push |-> item]
Code(b) == [code |-> b]
IsPush(e) == "push" \in DOMAIN e

\* The opcode an element begins with, and its bytes: the length of a push takes a byte, or two.
Opcode(e) == IF ~ IsPush(e) THEN e.code ELSE IF e.push.len <= 75 THEN e.push.len ELSE 76
ElementLen(e) == IF ~ IsPush(e) THEN 1 ELSE e.push.len + (IF e.push.len <= 75 THEN 1 ELSE 2)

Script(els) ==
    Item(FoldLeft(LAMBDA n, e : n + ElementLen(e), 0, els), Opcode(els[1]), [kind |-> "script", els |-> els])

\* The elements an item is read as; a key or a signature is no script of the forms looked for.
Elements(item) == IF item.is.kind = "script" THEN item.is.els ELSE <<>>

KeyHashScript(pub) ==
    Script(<<Code(118), Code(169), Push(Item(20, 0, [kind |-> "hash", of |-> pub])), Code(136), Code(172)>>)

-----------------------------------------------------------------------------
(***************************************************************************)
(* Signatures.                                                             *)
(***************************************************************************)
\* Without leading zeros, then filled up with zeros in front.
normalize32(b) ==
    LET zeros == IF \E k \in DOMAIN b : b[k] # 0 THEN SelectInSeq(b, LAMBDA x : x # 0) - 1 ELSE Len(b)
        bare  == SubSeq(b, zeros + 1, Len(b))
    IN  IF Len(bare) > ScalarLen THEN Absent ELSE [k \in 1..ScalarLen - Len(bare) |-> 0] \o bare

Normalized(r, s, flag) ==
    IF normalize32(r) = Absent \/ normalize32(s) = Absent THEN Absent
    ELSE [r |-> normalize32(r), s |-> normalize32(s), flag |-> flag]

\* The header is right and r does not run over the end.
RFits(der) == SubSeq(der, 1, 3) = <<48, Len(der) - 2, 2>> /\ der[4] + 6 <= Len(der)

\* mutant: the length of s is not compared with what is left.
parseEcdsaSigTail(sig) ==
    LET der == Front(sig)  rLen == der[4]
    IN  IF Len(sig) >= 9 /\ RFits(der) /\ der[rLen + 5] = 2
        THEN Normalized(SubSeq(der, 5, rLen + 4), SubSeq(der, rLen + 7, Len(der)), Last(sig))
        ELSE Absent

\* A DER signature and its flag byte.
parseEcdsaSig(sig) ==
    LET der == Front(sig)  rLen == der[4]
    IN  IF /\ Len(sig) >= 9 /\ RFits(der) /\ der[rLen + 5] = 2
           /\ rLen + 6 + der[rLen + 6] = Len(der)
        THEN Normalized(SubSeq(der, 5, rLen + 4), SubSeq(der, rLen + 7, Len(der)), Last(sig))
        ELSE Absent

\* A BtcInputSig.
Found(scheme, sig, pub) ==
    [scheme |-> scheme, sig |-> sig, pub |-> pub, redeem |-> Absent, keys |-> <<>>, leaf |-> Absent, control |-> Absent]

EcdsaFound(item, pub, scheme) == IF item.is.kind = "ecdsa" THEN Found(scheme, item.is, pub) ELSE ParseError

\* The byte behind 64 is the flag; without it the flag is 0.
parseTaprootSig(item, scheme) ==
    IF item.len \in {64, 65} THEN Found(scheme, item.is, Absent) ELSE Absent

Only(found) == IF found \in {Absent, ParseError} THEN found ELSE <<found>>

-----------------------------------------------------------------------------
(***************************************************************************)
(* The forms of inputs.                                                    *)
(***************************************************************************)
isControlBlock(item) == item.len >= 33 /\ (item.len - 33) % 32 = 0 /\ item.first \in {192, 193}

\* A leaf that pushes 32 bytes and checks a signature.
IsKeyLeaf(item) ==
    LET els == Elements(item)
    IN  item.len = 34 /\ item.first = 32 /\ Len(els) = 2 /\ els[2] = Code(172)

parseP2TRScriptPath(w) ==
    LET leaf   == w[Len(w) - 1]
        parsed == parseTaprootSig(w[1], "p2tr-scriptpath")
    IN  IF Len(w) # 3 \/ ~ IsKeyLeaf(leaf) \/ parsed = Absent THEN Absent
        ELSE <<[parsed EXCEPT !.pub = Elements(leaf)[1].push, !.leaf = leaf, !.control = Last(w)]>>

HasAnnex(w) == Len(w) >= 2 /\ Last(w).first = 80

extractWitnessOnly(w) ==
    CASE HasAnnex(w) -> Absent
      [] Len(w) = 1 -> Only(parseTaprootSig(w[1], "p2tr-keypath"))
      [] ~ HasAnnex(w) /\ Len(w) > 1 /\ isControlBlock(Last(w)) -> parseP2TRScriptPath(w)
      [] ~ HasAnnex(w) /\ Len(w) = 2 /\ ~ isControlBlock(w[2]) /\ w[2].first \in {2, 3, 4, 6, 7} ->
            Only(EcdsaFound(w[1], w[2], "p2wpkh"))
      [] OTHER -> Absent

\* OP_M, the keys, OP_N and OP_CHECKMULTISIG.
parseMultisigPubkeys(item) ==
    LET els == Elements(item)  n == Len(els)
        middle == SubSeq(els, 2, n - 2)
    IN  IF /\ n >= 4 /\ els[n] = Code(174)
           /\ ~ IsPush(els[1]) /\ els[1].code \in 81..96 /\ ~ IsPush(els[n - 1]) /\ els[n - 1].code \in 81..96
           /\ \A k \in DOMAIN middle : IsPush(middle[k])
           /\ Len(middle) = els[n - 1].code - 80
        THEN [k \in DOMAIN middle |-> middle[k].push] ELSE Absent

\* mutant: an empty push is a signature too.
SignaturesAll(items) == items

\* Places that are still empty are left out.
Signatures(items) == SelectSeq(items, LAMBDA item : item.len > 0)

parseP2SHMultisig(els) ==
    LET pushes == Tail(els)
        redeem == Last(els).push
        keys   == parseMultisigPubkeys(redeem)
        sigs   == Signatures([k \in DOMAIN Front(pushes) |-> pushes[k].push])
        found  == [k \in DOMAIN sigs |-> EcdsaFound(sigs[k], Absent, "p2sh-multisig")]
    IN  IF \/ els[1] # Push(Empty) \/ Len(pushes) < 2 \/ (\E k \in DOMAIN els : ~ IsPush(els[k]))
           \/ keys = Absent \/ ParseError \in Range(found) \/ sigs = <<>>
        THEN Absent
        ELSE [k \in DOMAIN found |-> [found[k] EXCEPT !.redeem = redeem, !.keys = keys]]

extractScriptSigOnly(els) ==
    LET multisig == parseP2SHMultisig(els)
    IN  IF multisig # Absent THEN multisig
        ELSE IF Len(els) = 2 /\ IsPush(els[1]) /\ IsPush(els[2])
             THEN Only(EcdsaFound(els[1].push, els[2].push, "p2pkh")) ELSE Absent

ExtractBtcInputSig(els, w) ==
    CASE els = <<>> /\ w # <<>> -> extractWitnessOnly(w)
      [] els # <<>> /\ w = <<>> -> extractScriptSigOnly(els)
      [] OTHER -> Absent

-----------------------------------------------------------------------------
(***************************************************************************)
(* Digests and keys.                                                       *)
(***************************************************************************)
Digest(alg, code) == [alg |-> alg, code |-> code]

InputSighash(found, prevScript) ==
    CASE found.sig.flag # 1 -> ParseError
      [] found.sig.flag = 1 /\ found.scheme = "p2pkh" -> Digest("legacy", prevScript)
      [] found.sig.flag = 1 /\ found.scheme = "p2sh-multisig" -> Digest("legacy", found.redeem)
      [] found.sig.flag = 1 /\ found.scheme = "p2wpkh" -> Digest("bip143", KeyHashScript(found.pub))
      [] OTHER -> ParseError

TaprootInputSighash(found) ==
    CASE found.sig.flag # 0 -> ParseError
      [] found.sig.flag = 0 /\ found.scheme = "p2tr-keypath" -> Digest("bip341", Absent)
      [] found.sig.flag = 0 /\ found.scheme = "p2tr-scriptpath" -> Digest("bip341", found.leaf)
      [] OTHER -> ParseError

\* secp256k1: the signature is by the key and over the digest.
Verifies(sig, digest, item) == item.is.kind = "pub" /\ item.is.key = sig.by /\ sig.over = digest

\* mutant: the first key is taken.
ResolveFirst(found, digest) ==
    IF found.scheme # "p2sh-multisig" THEN found.pub ELSE Head(found.keys)

ResolveMultisigPubKey(found, digest) ==
    LET k == SelectInSeq(found.keys, LAMBDA item : Verifies(found.sig, digest, item))
    IN  CASE found.scheme # "p2sh-multisig" -> found.pub
          [] found.scheme = "p2sh-multisig" /\ k = 0 -> Absent
          [] OTHER -> found.keys[k]

-----------------------------------------------------------------------------
(***************************************************************************)
(* Properties.                                                             *)
(***************************************************************************)
\* A signature in DER, whatever zeros are in front of its numbers.
InDer(r, s) == <<48, 4 + Len(r) + Len(s), 2, Len(r)>> \o r \o <<2, Len(s)>> \o s
NumberOf(b) == FoldLeft(LAMBDA n, x : 256 * n + x, 0, b)

\* The bytes that are a signature in DER and a flag are read as its two numbers, unless
\* one is too large, and all other bytes are refused (btctxparse.go:244, 293).
DerIsRead ==
    Called("parseEcdsaSig") =>
        LET sig    == call.sig
            splits == { <<SubSeq(sig, 5, a + 4), SubSeq(sig, a + 7, Len(sig) - 1)>> : a \in 0..Len(sig)-7 }
            meant  == { p \in splits : Len(sig) >= 9 /\ InDer(p[1], p[2]) = Front(sig) }
            got    == parseEcdsaSig(sig)
        IN  IF \E p \in meant : NumberOf(p[1]) < 256^ScalarLen /\ NumberOf(p[2]) < 256^ScalarLen
            THEN \A p \in meant :
                    /\ NumberOf(got.r) = NumberOf(p[1]) /\ NumberOf(got.s) = NumberOf(p[2])
                    /\ Len(got.r) = ScalarLen /\ Len(got.s) = ScalarLen /\ got.flag = Last(sig)
            ELSE got = Absent

Schemes == {"p2pkh", "p2wpkh", "p2sh-multisig", "p2tr-keypath", "p2tr-scriptpath"}
IsTaproot(scheme) == scheme \in {"p2tr-keypath", "p2tr-scriptpath"}

\* Spends that have the shape of another form: a script where a key would be, which in
\* a witness starts like one if it pushes a time first, and one signature alone behind OP_0.
Lookalike(s) ==
    \/ s.form = "p2sh one signature"
    \/ s.form = "p2wsh" /\ Len(s.wit) = 2 /\ s.wit[2].first \in {2, 3, 4, 6, 7}
    \/ s.form = "multisig" /\ Len(s.by) = 1

\* From an input of one of the five forms every signature is found, in its order, with
\* the digest it is over and, by that digest, the key that made it, also when some of the
\* places of a multisig are empty or a key of its script is none; a flag that is not
\* supported is found and gets no digest.  An input of another form gives nothing
\* and no error (btctxparse.go:32), but for the lookalikes.
SpendsAreAttributed ==
    Called("ExtractBtcInputSig") =>
        LET s     == call.spend
            found == ExtractBtcInputSig(s.els, s.wit)
            digest(x) == IF IsTaproot(s.form) THEN TaprootInputSighash(x) ELSE InputSighash(x, s.prev)
        IN  IF s.form \notin Schemes THEN Lookalike(s) \/ found = Absent
            ELSE /\ found \notin {Absent, ParseError} /\ Len(found) = Len(s.by)
                 /\ \A k \in DOMAIN found :
                       /\ found[k].scheme = s.form
                       /\ found[k].sig.by = s.by[k] /\ found[k].sig.flag = s.flag
                       /\ IF s.flag # (IF IsTaproot(s.form) THEN 0 ELSE 1) THEN digest(found[k]) = ParseError
                          ELSE /\ digest(found[k]) = s.over
                               /\ s.form # "p2tr-keypath" =>
                                     ResolveMultisigPubKey(found[k], s.over).is.key = s.by[k]

\* What an input is said to hold is in it: the numbers of its signatures, their digests
\* and their keys (btctxparse.go:39, 309, 342).
ExtractionIsRight == DerIsRead /\ SpendsAreAttributed
===============================================================================
