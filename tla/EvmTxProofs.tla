---------------------------- MODULE EvmTxProofs ----------------------------
(***************************************************************************)
(* Theorems about EvmTx, for every set of keys, bodies, lists and chain    *)
(* ids, every draft and every letter of others that keeps to the EIPs.     *)
(***************************************************************************)
EXTENDS EvmTx, TLAPS

USE EvmAssumption

(***************************************************************************)
(* The invariant.                                                          *)
(***************************************************************************)
TxOK == tx \in Txs /\ (tx.signed => tx.y # Nil /\ tx.sig # Nil)

\* The sealer's signature is in the object, or on its way in a letter.
SealOK == seal # Nil => tx.signed /\ Sealed(tx.y, tx.sig, seal)

LetterOK ==
    letter # Nil =>
        /\ letter.kind \in {"binary", "json"}
        /\ letter.bytes \in BytesSet
        /\ letter.kind = "binary" /\ letter.seal # Nil =>
              letter.bytes.sig # Nil /\ Sealed(letter.bytes.y, letter.bytes.sig, letter.seal)
        /\ letter.kind = "json" =>
              /\ letter.chain \in Nat /\ letter.tip \in Tips \cup {Nil} /\ letter.body \in Bodies
              /\ letter.al \in AccessLists /\ letter.auth \in AuthLists /\ letter.typed \in BOOLEAN
              /\ letter.y \in Nat \cup {Nil} /\ letter.sig \in Sigs \cup {Nil}
              /\ letter.y = Nil <=> letter.sig = Nil
              /\ letter.seal # Nil => letter.y # Nil /\ Sealed(letter.y, letter.sig, letter.seal)

EvmInv == TxOK /\ SealOK /\ LetterOK

(***************************************************************************)
(* What the operators build.                                               *)
(***************************************************************************)
LEMMA FieldsType == ASSUME NEW t \in Txs PROVE RlpFields(t) \in Fields
  BY DEF Txs, Fields, RlpFields, accessListRlp, authorizationListRlp

LEMMA ContentStable ==
  ASSUME NEW t \in Txs
  PROVE  Content(t) = Content(Content(t)) /\ RlpFields(Content(t)) = RlpFields(t) /\ Content(t).type = t.type
  BY DEF Txs, TxTypes, Typed, Content, RlpFields, accessListRlp, authorizationListRlp

LEMMA NilSigType == ZeroSig \in Sigs /\ ZeroSig # Nil
  BY DEF ZeroSig, Sigs, RecIds

LEMMA SignBytesType ==
  ASSUME NEW t \in Txs
  PROVE  SignBytes(t) \in Signables
  BY FieldsType DEF SignBytes, Bytes, Txs, Signables

LEMMA MarshalType ==
  ASSUME NEW t \in Txs, t.body # Nil, t.signed => t.y # Nil /\ t.sig # Nil
  PROVE  MarshalBinary(t) \in BytesSet
<1>1. RlpFields(t) \in Fields
  BY FieldsType
<1>2. \A y \in Nat \cup {Nil}, g \in Sigs \cup {Nil} :
         (y = Nil <=> g = Nil) => Bytes(t, y, g) \in BytesSet
  BY <1>1 DEF Bytes, BytesSet, RlpFields, accessListRlp, authorizationListRlp, Txs, TxTypes, Typed
<1>3. t.chain \in Nat /\ t.chain # Nil
  BY DEF Txs
<1>4. QED
  BY <1>2, <1>3, NilSigType DEF MarshalBinary, SignBytes, Txs

\* The signature that Sign makes seals the content of the transaction.
LEMMA SignSeals ==
  ASSUME NEW t \in Txs, NEW k \in Keys, NEW rec \in RecIds, NEW c
  PROVE  LET sig == [by |-> k, over |-> SignBytes(t), rec |-> rec]
         IN  /\ sig \in Sigs /\ V(t, rec) \in Nat
             /\ Sealed(V(t, rec), sig, [by |-> k, content |-> Content(t), chain |-> c])
<1> DEFINE sig == [by |-> k, over |-> SignBytes(t), rec |-> rec]
           s == [by |-> k, content |-> Content(t), chain |-> c]
<1>1. sig \in Sigs
  BY SignBytesType DEF Sigs
<1>2. V(t, rec) \in Nat
  BY SMTT(30) DEF V, Txs, RecIds
<1>3. SignBytes(t) \in Signables /\ SignBytes(t).type = t.type /\ SignBytes(t).fields = RlpFields(t)
  BY SignBytesType DEF SignBytes, Bytes
<1>4. /\ s.content.type = t.type /\ s.content = Content(s.content)
      /\ RlpFields(s.content) = RlpFields(t) /\ s.by = k /\ t.type \in TxTypes
      /\ sig.by = k /\ sig.over = SignBytes(t) /\ sig.rec = rec
  BY ContentStable DEF Txs
<1>5. CASE t.type = "legacy" /\ t.chain # 0
  <2>1. SignBytes(t).y = t.chain /\ SignBytes(t).sig = ZeroSig
    BY <1>5 DEF SignBytes, Bytes
  <2>2. V(t, rec) = 2 * t.chain + 35 + rec /\ t.chain \in Nat \ {0}
    BY <1>5 DEF V, Txs
  <2>3. QED
    BY <1>1, <1>2, <1>3, <1>4, <1>5, <2>1, <2>2 DEF Sealed
<1>6. CASE ~ (t.type = "legacy" /\ t.chain # 0)
  <2>1. SignBytes(t).y = Nil /\ SignBytes(t).sig = Nil
    BY <1>6 DEF SignBytes, Bytes
  <2>2. IF t.type = "legacy" THEN V(t, rec) = 27 + rec ELSE V(t, rec) = rec
    BY <1>6 DEF V, Txs
  <2>3. QED
    BY <1>1, <1>2, <1>3, <1>4, <1>6, <2>1, <2>2 DEF Sealed
<1>7. QED
  BY <1>5, <1>6

\* A letter read over an object leaves a transaction with the letter's signature.
LEMMA ParsedType ==
  ASSUME NEW old \in Txs, NEW b \in BytesSet, b.type # "4844",
         old.signed => old.y # Nil /\ old.sig # Nil
  PROVE  /\ Parsed(old, b) \in Txs
         /\ Parsed(old, b).body # Nil
         /\ Parsed(old, b).signed <=> b.sig # Nil
         /\ b.sig # Nil => Parsed(old, b).y = b.y /\ Parsed(old, b).sig = b.sig /\ b.y # Nil
<1>1. b.type \in Typed => b.fields.chain \in Nat /\ b.fields.al \in AccessLists
  BY DEF BytesSet, Fields
<1>2. b.type = "7702" => b.fields.auth \in AuthLists
  BY DEF BytesSet, Fields
<1>3. /\ b.type \in TxTypes /\ b.fields.tip \in Tips \cup {Nil}
      /\ b.fields.body \in Bodies \cup {Nil} /\ b.fields.body # Nil
      /\ b.sig \in Sigs \cup {Nil} /\ b.y \in Nat \cup {Nil} /\ (b.y = Nil <=> b.sig = Nil)
  BY DEF BytesSet, Fields
<1>4. DEFINE p == Parsed(old, b)
<1>5. /\ p.type = b.type /\ p.body = b.fields.body
      /\ p.chain = IF b.type \in Typed THEN b.fields.chain ELSE old.chain
      /\ p.tip = IF b.type \in {"1559", "7702"} THEN b.fields.tip ELSE old.tip
      /\ p.al = IF b.type \in Typed THEN b.fields.al ELSE old.al
      /\ p.auth = IF b.type = "7702" THEN b.fields.auth ELSE old.auth
      /\ p.y = IF b.sig # Nil THEN b.y ELSE old.y
      /\ p.sig = IF b.sig # Nil THEN b.sig ELSE old.sig
  BY DEF Parsed, Txs
<1>6. p.signed \in BOOLEAN /\ (p.signed <=> b.sig # Nil)
  <2>1. "signed" \in DOMAIN old
    BY DEF Txs
  <2>2. p.signed = (b.sig # Nil)
    BY <2>1, Zenon DEF Parsed
  <2>3. QED
    BY <2>2, Zenon
<1>7. /\ p.type \in TxTypes /\ p.chain \in Nat /\ p.tip \in Tips \cup {Nil}
      /\ p.body \in Bodies \cup {Nil} /\ p.al \in AccessLists /\ p.auth \in AuthLists
      /\ p.y \in Nat \cup {Nil} /\ p.sig \in Sigs \cup {Nil}
  BY <1>1, <1>2, <1>3, <1>5 DEF Txs
<1>8. \A sg \in BOOLEAN :
         [old EXCEPT !.type = b.type, !.body = b.fields.body,
                     !.chain = p.chain, !.tip = p.tip, !.al = p.al, !.auth = p.auth,
                     !.signed = sg, !.y = p.y, !.sig = p.sig] \in Txs
  BY <1>5, <1>7 DEF Txs
<1>9. p \in Txs
  <2>1. (b.sig # Nil) \in BOOLEAN
    OBVIOUS
  <2>2. p = [old EXCEPT !.type = b.type, !.body = b.fields.body,
                     !.chain = p.chain, !.tip = p.tip, !.al = p.al, !.auth = p.auth,
                     !.signed = (b.sig # Nil), !.y = p.y, !.sig = p.sig]
    <3>1. p = [old EXCEPT !.type = b.type, !.body = b.fields.body,
                !.chain = IF b.type \in Typed THEN b.fields.chain ELSE old.chain,
                !.tip = IF b.type \in {"1559", "7702"} THEN b.fields.tip ELSE old.tip,
                !.al = IF b.type \in Typed THEN b.fields.al ELSE old.al,
                !.auth = IF b.type = "7702" THEN b.fields.auth ELSE old.auth,
                !.signed = b.sig # Nil,
                !.y = IF b.sig # Nil THEN b.y ELSE old.y,
                !.sig = IF b.sig # Nil THEN b.sig ELSE old.sig]
      BY DEF Parsed
    <3>2. QED
      BY <3>1, <1>5, Zenon
  <2>3. QED
    BY <1>8, <2>1, <2>2, Zenon
<1>10. QED
  BY <1>3, <1>5, <1>6, <1>9

LEMMA AfterSignatureType ==
  ASSUME NEW t \in Txs, t.signed => t.y # Nil /\ t.sig # Nil
  PROVE  /\ AfterSignature(t) \in Txs
         /\ \A f \in {"type", "tip", "body", "al", "auth", "signed", "y", "sig"} :
               AfterSignature(t)[f] = t[f]
<1>1. CASE t.signed /\ t.type = "legacy"
  <2>1. t.y \in Nat
    BY <1>1 DEF Txs
  <2>2. t.y >= 35 => (t.y - 35 - RecoveryId(t)) \div 2 \in Nat
    BY <1>1, <2>1 DEF RecoveryId
  <2>3. QED
    BY <1>1, <2>1, <2>2 DEF AfterSignature, Txs
<1>2. CASE ~ (t.signed /\ t.type = "legacy")
  BY <1>2 DEF AfterSignature, Txs
<1>3. QED
  BY <1>1, <1>2

(***************************************************************************)
(* The invariant is inductive.                                             *)
(***************************************************************************)
LEMMA ZeroTxType == ZeroTx \in Txs /\ ~ ZeroTx.signed
<1>1. <<>> \in AuthLists
  BY DEF AuthLists
<1>2. QED
  BY <1>1 DEF ZeroTx, Txs, TxTypes

LEMMA InitInv == Init => EvmInv
  BY ZeroTxType DEF Init, EvmInv, TxOK, SealOK, LetterOK

LEMMA ExceptAuth ==
  ASSUME NEW a \in AuthLists, NEW i \in DOMAIN a, NEW k \in Keys
  PROVE  [a EXCEPT ![i].by = k] \in AuthLists
<1>1. [a[i] EXCEPT !.by = k] \in [id : AuthIds, by : Keys]
  <2>1. a[i] \in [id : AuthIds, by : Keys]
    <3>1. \A S : a \in Seq(S) => a[i] \in S
      BY DOMAIN a = 1 .. Len(a)
    <3>2. QED
      BY <3>1 DEF AuthLists
  <2>2. QED
    BY <2>1
<1>2. [a EXCEPT ![i] = [a[i] EXCEPT !.by = k]] \in AuthLists
  BY <1>1 DEF AuthLists
<1>3. QED
  BY <1>2

LEMMA NextInv == EvmInv /\ [Next]_vars => EvmInv'
<1> SUFFICES ASSUME EvmInv, [Next]_vars PROVE EvmInv'
  OBVIOUS
<1> USE DEF EvmInv
<1>1. ASSUME NEW d \in Drafts, Build(d) PROVE EvmInv'
  BY <1>1 DEF Build, TxOK, SealOK, LetterOK
<1>2. ASSUME NEW b \in Bodies, Call(b) PROVE EvmInv'
  BY <1>2 DEF Call, TxOK, SealOK, LetterOK, Txs
<1>3. ASSUME NEW c \in ChainIds, SetChainId(c) PROVE EvmInv'
  BY <1>3 DEF SetChainId, TxOK, SealOK, LetterOK, Txs
<1>4. ASSUME NEW i \in DOMAIN tx.auth, NEW k \in Keys, AuthorizationSign(i, k) PROVE EvmInv'
  <2>1. [tx.auth EXCEPT ![i].by = k] \in AuthLists
    BY <1>4, ExceptAuth DEF TxOK, Txs
  <2>2. tx' = [tx EXCEPT !.auth = [tx.auth EXCEPT ![i].by = k]]
    BY <1>4 DEF AuthorizationSign
  <2>3. QED
    BY <1>4, <2>1, <2>2 DEF AuthorizationSign, TxOK, SealOK, LetterOK, Txs
<1>5. ASSUME NEW k \in Keys, NEW rec \in RecIds, Sign(k, rec) PROVE EvmInv'
  <2>1. TxOK'
    <3> DEFINE sig == [by |-> k, over |-> SignBytes(tx), rec |-> rec]
    <3>1. sig \in Sigs /\ V(tx, rec) \in Nat
      BY SignSeals DEF TxOK
    <3>2. tx' = [tx EXCEPT !.signed = TRUE, !.y = V(tx, rec), !.sig = sig]
      BY <1>5 DEF Sign
    <3> HIDE DEF sig
    <3>3. QED
      BY <3>1, <3>2 DEF TxOK, Txs
  <2>2. SealOK'
    BY <1>5, SignSeals DEF Sign, TxOK, SealOK, Txs
  <2>3. LetterOK'
    BY <1>5 DEF Sign, LetterOK
  <2>4. QED
    BY <2>1, <2>2, <2>3
<1>6. CASE SenderAddress
  <2>1. tx' \in Txs /\ tx'.signed = tx.signed /\ tx'.y = tx.y /\ tx'.sig = tx.sig
    BY <1>6, AfterSignatureType DEF SenderAddress, TxOK
  <2>2. QED
    BY <1>6, <2>1 DEF SenderAddress, TxOK, SealOK, LetterOK
<1>7. CASE WriteBinary
  <2>1. MarshalBinary(tx) \in BytesSet
    BY <1>7, MarshalType DEF WriteBinary, TxOK
  <2>2. tx.signed => MarshalBinary(tx).sig = tx.sig /\ MarshalBinary(tx).y = tx.y
    BY DEF MarshalBinary, Bytes
  <2>3. LetterOK'
    BY <1>7, <2>1, <2>2 DEF WriteBinary, Binary, TxOK, SealOK, LetterOK
  <2>4. QED
    BY <1>7, <2>3 DEF WriteBinary, TxOK, SealOK
<1>8. ASSUME NEW w \in Foreign, Receive(w) PROVE EvmInv'
  <2>1. /\ w = Binary(w.bytes, w.seal, w.meant) /\ w.bytes \in BytesSet
        /\ w.seal # Nil => w.bytes.y # Nil /\ Sealed(w.bytes.y, w.bytes.sig, w.seal)
    OBVIOUS
  <2>2. w.kind = "binary"
    BY <2>1 DEF Binary
  <2>3. w.bytes.y # Nil => w.bytes.sig # Nil
    BY <2>1 DEF BytesSet
  <2>4. QED
    BY <1>8, <2>1, <2>2, <2>3 DEF Receive, TxOK, SealOK, LetterOK
<1>9. ASSUME NEW old \in {ZeroTx, tx}, ReadBinary(old) PROVE EvmInv'
  <2>1. old \in Txs /\ (old.signed => old.y # Nil /\ old.sig # Nil)
    BY ZeroTxType DEF TxOK
  <2>2. letter # Nil /\ letter.bytes \in BytesSet /\ letter.bytes.type # "4844"
    BY <1>9 DEF ReadBinary, LetterOK, ParseRefuses
  <2>3. tx' = Parsed(old, letter.bytes) /\ seal' = letter.seal /\ letter' = letter
    BY <1>9 DEF ReadBinary
  <2>4. TxOK'
    BY <2>1, <2>2, <2>3, ParsedType DEF TxOK
  <2>5. SealOK'
    <3>1. letter.seal # Nil =>
            letter.bytes.sig # Nil /\ Sealed(letter.bytes.y, letter.bytes.sig, letter.seal)
      BY <1>9 DEF ReadBinary, LetterOK
    <3>2. QED
      BY <2>1, <2>2, <2>3, <3>1, ParsedType DEF SealOK
  <2>6. QED
    BY <2>3, <2>4, <2>5 DEF LetterOK
<1>10. CASE WriteJSON
  <2>1. tx' \in Txs /\ tx'.signed = tx.signed /\ tx'.y = tx.y /\ tx'.sig = tx.sig
    BY <1>10, AfterSignatureType DEF WriteJSON, TxOK
  <2>2. MarshalBinary(tx) \in BytesSet
    BY <1>10, MarshalType DEF WriteJSON, TxOK
  <2>3. LetterOK'
    BY <1>10, <2>2 DEF WriteJSON, TxOK, SealOK, LetterOK, Txs
  <2>4. QED
    BY <1>10, <2>1, <2>3 DEF WriteJSON, TxOK, SealOK
<1>11. CASE ReadJSON
  BY <1>11 DEF ReadJSON, TypeOfJSON, TxOK, SealOK, LetterOK, Txs, TxTypes, Typed
<1>12. CASE UNCHANGED vars
  BY <1>12 DEF vars, TxOK, SealOK, LetterOK
<1>13. QED
  BY <1>1, <1>2, <1>3, <1>4, <1>5, <1>6, <1>7, <1>8, <1>9, <1>10, <1>11, <1>12
  DEF Next, ReadBinaryReused

\* A signature that seals a transaction is in it, whatever the steps so far.
THEOREM Invariance == Spec => []EvmInv
  BY InitInv, NextInv, PTL DEF Spec

(***************************************************************************)
(* The sender is the signer.                                               *)
(***************************************************************************)
\* v gives back the recovery id and the chain id it was made from.
LEMMA VDecodes ==
  ASSUME NEW v \in Nat, NEW c \in Nat, NEW rec \in RecIds, v = 2 * c + 35 + rec
  PROVE  v >= 35 /\ 1 - (v % 2) = rec /\ (v - 35 - rec) \div 2 = c
<1>1. v % 2 = 1 - rec
  BY DEF RecIds
<1>2. (v - 35 - rec) \div 2 = c
  BY DEF RecIds
<1>3. QED
  BY <1>1, <1>2 DEF RecIds

\* What Signature() makes of a signed legacy transaction's v.
LEMMA LegacyDecodes ==
  ASSUME NEW t \in Txs, t.type = "legacy", t.signed, NEW s, s.content.type = "legacy",
         Sealed(t.y, t.sig, s)
  PROVE  /\ RecoveryId(t) = t.sig.rec
         /\ AfterSignature(t).chain = IF t.sig.over.y = Nil THEN 0 ELSE t.sig.over.y
         /\ t.sig.over.sig = IF t.sig.over.y = Nil THEN Nil ELSE ZeroSig
<1>1. t.sig.rec \in {0, 1}
  BY DEF Sealed, Sigs, RecIds
<1>2. AfterSignature(t).chain = IF t.y >= 35 THEN (t.y - 35 - RecoveryId(t)) \div 2 ELSE 0
  BY DEF AfterSignature, Txs
<1>3. CASE t.sig.over.y = Nil
  <2>1. /\ t.sig.over.sig = Nil
        /\ t.y \in {t.sig.rec, 27 + t.sig.rec, 35 + t.sig.rec}
    BY <1>3 DEF Sealed
  <2>2. CASE t.y = 2 * 0 + 35 + t.sig.rec
    BY <1>1, <1>2, <1>3, <2>1, <2>2, VDecodes DEF RecoveryId, RecIds
  <2>3. CASE t.y \in {t.sig.rec, 27 + t.sig.rec}
    BY <1>1, <1>2, <1>3, <2>1, <2>3 DEF RecoveryId
  <2>4. QED
    BY <2>1, <2>2, <2>3, <1>1
<1>4. CASE t.sig.over.y # Nil
  <2>1. t.sig.over.sig = ZeroSig
    BY <1>4 DEF Sealed
  <2>2. PICK c \in Nat, rec \in RecIds :
           t.sig.over.y = c /\ t.sig.rec = rec /\ t.y = 2 * c + 35 + rec
    BY <1>1, <1>4 DEF Sealed, RecIds
  <2>3. 2 * c + 35 + rec \in Nat
    BY DEF RecIds
  <2>4. t.y \in Nat /\ t.y >= 35 /\ 1 - (t.y % 2) = rec /\ (t.y - 35 - rec) \div 2 = c
    <3> DEFINE v == 2 * c + 35 + rec
    <3>1. v >= 35 /\ 1 - (v % 2) = rec /\ (v - 35 - rec) \div 2 = c
      BY <2>3, VDecodes
    <3>2. t.y = v /\ v \in Nat
      BY <2>2, <2>3
    <3> HIDE DEF v
    <3>3. QED
      BY <3>1, <3>2, Zenon
  <2>5. RecoveryId(t) = rec
    BY <2>2, <2>4 DEF RecoveryId
  <2>6. QED
    BY <1>2, <1>4, <2>1, <2>2, <2>4, <2>5
<1>5. QED
  BY <1>3, <1>4

\* Two transactions of a type are about the same when they are encoded alike.
LEMMA FieldsAreContent ==
  ASSUME NEW t, NEW u, t.type = u.type, t.type \in TxTypes, t.type # "4844"
  PROVE  RlpFields(t) = RlpFields(u) <=> Content(t) = Content(u)
  BY DEF RlpFields, Content, accessListRlp, authorizationListRlp, TxTypes, Typed

LEMMA SealedSender ==
  ASSUME NEW t \in Txs, t.type # "4844", t.signed, NEW s, Sealed(t.y, t.sig, s)
  PROVE  Sender(t) = s.by <=> Content(t) = s.content
<1> DEFINE over == t.sig.over
<1>1. /\ s.by \in Keys /\ t.sig.by = s.by /\ t.sig.rec \in {0, 1}
      /\ over.type = s.content.type /\ over.fields = RlpFields(s.content)
      /\ over \in Signables /\ s.content = Content(s.content) /\ t.type \in TxTypes
  BY DEF Sealed, Sigs, RecIds, Txs
<1>2. t.sig # ZeroSig /\ s.by # Nil /\ s.by # Stranger
  BY <1>1 DEF ZeroSig
<1>3. over = [type |-> over.type, fields |-> over.fields, y |-> over.y, sig |-> over.sig]
  BY <1>1 DEF Signables
<1>4. CASE t.type # s.content.type
  <2>1. RecoveredOver(t).type = t.type
    BY DEF RecoveredOver, AfterSignature, SignBytes, Bytes, Txs
  <2>2. Sender(t) # s.by
    BY <1>1, <1>2, <1>4, <2>1 DEF Sender
  <2>3. Content(t).type = t.type
    BY DEF Content
  <2>4. QED
    BY <1>4, <2>2, <2>3
<1>5. CASE t.type = s.content.type
  <2>1. RecoveryId(t) = t.sig.rec
    BY <1>5, LegacyDecodes DEF RecoveryId, Sealed
  <2>2. /\ RecoveredOver(t).type = t.type /\ RecoveredOver(t).fields = RlpFields(t)
        /\ RecoveredOver(t).y = over.y /\ RecoveredOver(t).sig = over.sig
        /\ RecoveredOver(t) = [type |-> RecoveredOver(t).type, fields |-> RecoveredOver(t).fields,
                               y |-> RecoveredOver(t).y, sig |-> RecoveredOver(t).sig]
    <3>1. RlpFields(AfterSignature(t)) = RlpFields(t) /\ AfterSignature(t).type = t.type
      BY DEF AfterSignature, RlpFields, accessListRlp, authorizationListRlp, Txs, Typed
    <3>2. CASE t.type = "legacy"
      BY <1>5, <3>1, <3>2, LegacyDecodes, <1>1 DEF RecoveredOver, SignBytes, Bytes, Sealed
    <3>3. CASE t.type # "legacy"
      BY <1>5, <3>1, <3>3 DEF RecoveredOver, SignBytes, Bytes, Sealed
    <3>4. QED
      BY <3>2, <3>3
  <2>3. over = RecoveredOver(t) <=> RlpFields(t) = RlpFields(s.content)
    BY <1>1, <1>3, <1>5, <2>2
  <2>4. Sender(t) = s.by <=> over = RecoveredOver(t)
    BY <1>1, <1>2, <2>1 DEF Sender
  <2>5. RlpFields(t) = RlpFields(s.content) <=> Content(t) = Content(s.content)
    BY <1>1, <1>5, FieldsAreContent
  <2>6. QED
    BY <1>1, <2>3, <2>4, <2>5
<1>6. QED
  BY <1>4, <1>5

\* SenderIsSigner (evmtx.go:513), for every caller: whatever is built, edited, signed,
\* written, received and read, over new objects and used ones.
THEOREM SenderSafety == Spec => []SenderIsSigner
<1>1. EvmInv => SenderIsSigner
  BY SealedSender DEF EvmInv, TxOK, SealOK, SenderIsSigner
<1>2. QED
  BY <1>1, Invariance, PTL

(***************************************************************************)
(* Asking for the sender or for JSON.                                      *)
(***************************************************************************)
LEMMA AfterSignatureWritesSame ==
  ASSUME NEW t \in Txs, t.signed => t.y # Nil /\ t.sig # Nil
  PROVE  MarshalBinary(AfterSignature(t)) = MarshalBinary(t)
<1>1. CASE t.signed /\ t.type = "legacy"
  <2> DEFINE a == AfterSignature(t)
  <2>1. /\ a.type = t.type /\ a.tip = t.tip /\ a.body = t.body /\ a.al = t.al
        /\ a.auth = t.auth /\ a.signed = t.signed /\ a.y = t.y /\ a.sig = t.sig
    BY AfterSignatureType
  <2> HIDE DEF a
  <2>2. RlpFields(a) = RlpFields(t)
    BY <1>1, <2>1 DEF RlpFields, accessListRlp, authorizationListRlp, Typed
  <2>3. QED
    BY <1>1, <2>1, <2>2 DEF MarshalBinary, Bytes, a
<1>2. CASE ~ (t.signed /\ t.type = "legacy")
  BY <1>2 DEF AfterSignature
<1>3. QED
  BY <1>1, <1>2

\* QueriesAreTransparent (evmtx.go:487, 634): Signature() writes ChainId, never what
\* the transaction's bytes are.
THEOREM QuerySafety == Spec => QueriesAreTransparent
<1>1. EvmInv /\ [Next]_vars => [last' = "query" => MarshalBinary(tx') = MarshalBinary(tx)]_vars
  <2> SUFFICES ASSUME EvmInv, Next, last' = "query"
               PROVE  MarshalBinary(tx') = MarshalBinary(tx)
    OBVIOUS
  <2>1. tx' = AfterSignature(tx)
    BY DEF Next, Build, Call, SetChainId, AuthorizationSign, Sign, SenderAddress, WriteBinary,
           Receive, ReadBinary, ReadBinaryReused, WriteJSON, ReadJSON
  <2>2. QED
    BY <2>1, AfterSignatureWritesSame DEF EvmInv, TxOK
<1>2. QED
  BY <1>1, Invariance, PTL DEF Spec, QueriesAreTransparent

(***************************************************************************)
(* Reading back what was written.                                          *)
(***************************************************************************)
\* What WriteJSON writes for t.
IsJSONOf(j, t) ==
    /\ t \in Txs /\ t.body # Nil /\ Shape(t) /\ (t.signed => t.y # Nil /\ t.sig # Nil)
    /\ j.typed \in BOOLEAN /\ (j.typed <=> t.type # "legacy")
    /\ j.chain = t.chain /\ j.tip = t.tip /\ j.body = t.body /\ j.al = t.al /\ j.auth = t.auth
    /\ j.y = IF t.signed THEN t.y ELSE Nil
    /\ j.sig = IF t.signed THEN t.sig ELSE Nil
    /\ j.bytes = MarshalBinary(t)

LetterShape ==
    letter # Nil =>
        /\ letter.kind = "binary" =>
              /\ letter.bytes.type \in {"1559", "7702"} => letter.bytes.fields.tip # Nil
              /\ letter.bytes.fields.auth # <<>>
        /\ letter.kind = "json" => \E t \in Txs : IsJSONOf(letter, t)

ReadInv == EvmInv /\ Shape(tx) /\ LetterShape /\ ReadBackIsSame

\* ParseTransaction undoes MarshalBinary, over an object that Reuse = "same" allows.
LEMMA ParsedWritesBack ==
  ASSUME NEW old \in Txs, NEW b \in BytesSet, b.type # "4844",
         old.signed => old.y # Nil /\ old.sig # Nil,
         b.type = "legacy" /\ b.sig = Nil => old.chain = 0
  PROVE  MarshalBinary(Parsed(old, b)) = b
<1> DEFINE p == Parsed(old, b)
<1>1. /\ p \in Txs /\ (p.signed <=> b.sig # Nil)
      /\ b.sig # Nil => p.y = b.y /\ p.sig = b.sig
  BY ParsedType
<1>2. /\ p.type = b.type /\ p.body = b.fields.body
      /\ p.chain = IF b.type \in Typed THEN b.fields.chain ELSE old.chain
      /\ b.type \in {"1559", "7702"} => p.tip = b.fields.tip
      /\ b.type \in Typed => p.al = b.fields.al
      /\ b.type = "7702" => p.auth = b.fields.auth
  BY DEF Parsed, Txs
<1> HIDE DEF p
<1>3. /\ b = [type |-> b.type, fields |-> b.fields, y |-> b.y, sig |-> b.sig]
      /\ b.fields = [chain |-> b.fields.chain, tip |-> b.fields.tip, body |-> b.fields.body,
                     al |-> b.fields.al, auth |-> b.fields.auth]
      /\ b.y = Nil <=> b.sig = Nil
      /\ b.type \in TxTypes
  BY DEF BytesSet, Fields
<1>4. RlpFields(p) = b.fields
  BY <1>2, <1>3 DEF RlpFields, accessListRlp, authorizationListRlp, BytesSet, Typed
<1>5. MarshalBinary(p) = Bytes(p, b.y, b.sig)
  <2>1. CASE b.sig # Nil
    BY <1>1, <2>1, Zenon DEF MarshalBinary
  <2>2. CASE b.sig = Nil
    <3>1. ~ p.signed
      BY <1>1, <2>2, Zenon
    <3>2. ~ (p.type = "legacy" /\ p.chain # 0)
      BY <1>2, <2>2 DEF Typed
    <3>3. b.y = Nil
      BY <1>3, <2>2
    <3>4. QED
      BY <3>1, <3>2, <3>3, <2>2, Zenon DEF MarshalBinary, SignBytes
  <2>3. QED
    BY <2>1, <2>2
<1>6. Bytes(p, b.y, b.sig) = b
  BY <1>2, <1>3, <1>4 DEF Bytes
<1>7. QED
  BY <1>5, <1>6 DEF p

\* UnmarshalJSON undoes MarshalJSON, but for EIP-4844.
LEMMA JSONWritesBack ==
  ASSUME NEW j, NEW t \in Txs, IsJSONOf(j, t), j.typed => j.tip # Nil,
         NEW p, p = [type |-> TypeOfJSON(j), chain |-> j.chain,
                     tip |-> IF j.typed THEN j.tip ELSE Nil, body |-> j.body, al |-> j.al,
                     auth |-> j.auth, signed |-> j.y # Nil, y |-> j.y, sig |-> j.sig]
  PROVE  Shape(p) /\ (j.bytes.type # "4844" => MarshalBinary(p) = j.bytes)
<1>1. /\ p.type = TypeOfJSON(j) /\ p.chain = t.chain /\ p.body = t.body /\ p.al = t.al
      /\ p.auth = t.auth /\ p.y = j.y /\ p.sig = j.sig
      /\ p.tip = IF t.type # "legacy" THEN t.tip ELSE Nil
  BY DEF IsJSONOf
<1>2. p.signed <=> t.signed
  <2>1. p.signed <=> j.y # Nil
    BY Zenon
  <2>2. j.y # Nil <=> t.signed
    BY DEF IsJSONOf
  <2>3. QED
    BY <2>1, <2>2
<1>3. Shape(t) /\ t.type \in TxTypes /\ (t.type # "legacy" => t.tip # Nil) /\ (j.typed <=> t.type # "legacy")
  BY DEF IsJSONOf, Txs
<1>4. Shape(p)
  BY <1>1, <1>3 DEF Shape, TypeOfJSON, TxTypes, Typed
<1>5. ASSUME j.bytes.type # "4844" PROVE MarshalBinary(p) = j.bytes
  <2>1. j.bytes = MarshalBinary(t) /\ t.type # "4844"
    BY <1>5 DEF IsJSONOf, MarshalBinary, SignBytes, Bytes
  <2>2. p.type = t.type
    BY <1>1, <1>3, <2>1 DEF Shape, TypeOfJSON, TxTypes, Typed
  <2>3. RlpFields(p) = RlpFields(t)
    BY <1>1, <2>2 DEF RlpFields, accessListRlp, authorizationListRlp
  <2>4. CASE t.signed
    BY <1>1, <1>2, <2>1, <2>2, <2>3, <2>4 DEF MarshalBinary, Bytes, IsJSONOf
  <2>5. CASE ~ t.signed
    BY <1>1, <1>2, <2>1, <2>2, <2>3, <2>5 DEF MarshalBinary, SignBytes, Bytes
  <2>6. QED
    BY <2>4, <2>5
<1>6. QED
  BY <1>4, <1>5

\* What a letter leaves in the object it is read over.
LEMMA ReadKeeps ==
  ASSUME ReadInv, NEW old \in {ZeroTx, tx}, ReadBinary(old),
         old = ZeroTx \/ (tx.type = letter.bytes.type /\ (tx.type = "legacy" => letter.bytes.sig # Nil))
  PROVE  Shape(tx)' /\ MarshalBinary(tx)' = letter.bytes
<1> DEFINE b == letter.bytes
<1>1. /\ b \in BytesSet /\ b.type # "4844" /\ tx' = Parsed(old, b)
      /\ b.type \in {"1559", "7702"} => b.fields.tip # Nil
      /\ b.fields.auth # <<>>
  BY DEF ReadInv, EvmInv, LetterOK, LetterShape, ReadBinary, ParseRefuses
<1>2. old \in Txs /\ (old.signed => old.y # Nil /\ old.sig # Nil)
  BY ZeroTxType DEF ReadInv, EvmInv, TxOK
<1>3. Shape(old) /\ (old = ZeroTx => old.chain = 0 /\ old.tip = Nil /\ old.al = <<>> /\ old.auth = <<>>)
  BY DEF ReadInv, Shape, ZeroTx
<1>4. Shape(Parsed(old, b))
  <2> DEFINE p == Parsed(old, b)
  <2>1. /\ p.type = b.type
        /\ p.tip = IF b.type \in {"1559", "7702"} THEN b.fields.tip ELSE old.tip
        /\ p.al = IF b.type \in Typed THEN b.fields.al ELSE old.al
        /\ p.auth = IF b.type = "7702" THEN b.fields.auth ELSE old.auth
    BY <1>2 DEF Parsed, Txs
  <2> HIDE DEF p
  <2>2. b.type \in TxTypes
    BY <1>1 DEF BytesSet
  <2>3. QED
    BY <1>1, <1>3, <2>1, <2>2 DEF p, Shape, TxTypes, Typed
<1>5. MarshalBinary(Parsed(old, b)) = b
  BY <1>1, <1>2, <1>3, ParsedWritesBack
<1>6. QED
  BY <1>1, <1>4, <1>5

LEMMA ReadInvNext == ASSUME Reuse = "same" PROVE ReadInv /\ [Next]_vars => ReadInv'
<1> SUFFICES ASSUME ReadInv, [Next]_vars PROVE Shape(tx)' /\ LetterShape' /\ ReadBackIsSame'
  BY NextInv DEF ReadInv
<1>0. tx \in Txs /\ (tx.signed => tx.y # Nil /\ tx.sig # Nil) /\ Shape(tx) /\ LetterShape /\ ReadBackIsSame
  BY DEF ReadInv, EvmInv, TxOK
<1>1. ASSUME NEW d \in Drafts, Build(d) PROVE Shape(tx)' /\ LetterShape' /\ ReadBackIsSame'
  BY <1>0, <1>1 DEF Build, LetterShape, IsJSONOf, ReadBackIsSame
<1>2. ASSUME NEW b \in Bodies, Call(b) PROVE Shape(tx)' /\ LetterShape' /\ ReadBackIsSame'
  BY <1>0, <1>2 DEF Call, Shape, LetterShape, IsJSONOf, ReadBackIsSame, Txs
<1>3. ASSUME NEW c \in ChainIds, SetChainId(c) PROVE Shape(tx)' /\ LetterShape' /\ ReadBackIsSame'
  BY <1>0, <1>3 DEF SetChainId, Shape, LetterShape, IsJSONOf, ReadBackIsSame, Txs
<1>4. ASSUME NEW i \in DOMAIN tx.auth, NEW k \in Keys, AuthorizationSign(i, k)
      PROVE  Shape(tx)' /\ LetterShape' /\ ReadBackIsSame'
  <2>1. tx' = [tx EXCEPT !.auth = [tx.auth EXCEPT ![i].by = k]]
    BY <1>4 DEF AuthorizationSign
  <2>2. [tx.auth EXCEPT ![i].by = k] # <<>> /\ tx.auth # <<>>
    OBVIOUS
  <2>3. QED
    BY <1>0, <1>4, <2>1, <2>2 DEF AuthorizationSign, Shape, LetterShape, IsJSONOf, ReadBackIsSame, Txs
<1>5. ASSUME NEW k \in Keys, NEW rec \in RecIds, Sign(k, rec)
      PROVE  Shape(tx)' /\ LetterShape' /\ ReadBackIsSame'
  <2>1. tx'.type = tx.type /\ tx'.al = tx.al /\ tx'.tip = tx.tip /\ tx'.auth = tx.auth
    BY <1>0, <1>5 DEF Sign, Txs
  <2>2. QED
    BY <1>0, <1>5, <2>1 DEF Sign, Shape, LetterShape, ReadBackIsSame
<1>6. CASE SenderAddress
  <2>1. tx'.type = tx.type /\ tx'.al = tx.al /\ tx'.tip = tx.tip /\ tx'.auth = tx.auth
    BY <1>0, <1>6, AfterSignatureType DEF SenderAddress
  <2>2. QED
    BY <1>0, <1>6, <2>1 DEF SenderAddress, Shape, LetterShape, ReadBackIsSame
<1>7. CASE WriteBinary
  <2>1. MarshalBinary(tx).type = tx.type /\ MarshalBinary(tx).fields = RlpFields(tx)
    BY DEF MarshalBinary, SignBytes, Bytes
  <2>2. /\ tx.type \in {"1559", "7702"} => RlpFields(tx).tip # Nil
        /\ RlpFields(tx).auth # <<>>
    <3>1. <<>> \in AuthLists
      BY DEF AuthLists
    <3>2. QED
      BY <1>0, <3>1 DEF RlpFields, authorizationListRlp, Shape
  <2>3. QED
    BY <1>0, <1>7, <2>1, <2>2 DEF WriteBinary, Binary, LetterShape, ReadBackIsSame
<1>8. ASSUME NEW w \in Foreign, Receive(w) PROVE Shape(tx)' /\ LetterShape' /\ ReadBackIsSame'
  <2>1. w.kind = "binary"
    BY DEF Binary
  <2>2. QED
    BY <1>0, <1>8, <2>1 DEF Receive, LetterShape, ReadBackIsSame
<1>9. ASSUME NEW old \in {ZeroTx, tx}, ReadBinary(old),
             old = ZeroTx \/ (tx.type = letter.bytes.type /\ (tx.type = "legacy" => letter.bytes.sig # Nil))
      PROVE  Shape(tx)' /\ LetterShape' /\ ReadBackIsSame'
  <2>1. letter' = letter
    BY <1>9 DEF ReadBinary
  <2>2. QED
    BY <1>0, <1>9, <2>1, ReadKeeps DEF LetterShape, ReadBackIsSame
<1>10. CASE WriteJSON
  <2>1. tx'.type = tx.type /\ tx'.al = tx.al /\ tx'.tip = tx.tip /\ tx'.auth = tx.auth
    BY <1>0, <1>10, AfterSignatureType DEF WriteJSON
  <2>2. letter'.kind = "json" /\ IsJSONOf(letter', tx)
    <3>1. letter'.typed = (tx.type # "legacy")
      BY <1>10, Zenon DEF WriteJSON
    <3>2. letter'.typed \in BOOLEAN /\ (letter'.typed <=> tx.type # "legacy")
      BY <3>1, Zenon
    <3>3. QED
      BY <1>0, <1>10, <3>2 DEF WriteJSON, IsJSONOf
  <2>3. QED
    BY <1>0, <1>10, <2>1, <2>2 DEF WriteJSON, Shape, LetterShape, ReadBackIsSame
<1>11. CASE ReadJSON
  <2>1. PICK t \in Txs : IsJSONOf(letter, t)
    BY <1>0, <1>11 DEF ReadJSON, LetterShape
  <2>2. Shape(tx') /\ (letter.bytes.type # "4844" => MarshalBinary(tx') = letter.bytes)
    BY <1>11, <2>1, JSONWritesBack DEF ReadJSON
  <2>3. QED
    BY <1>0, <1>11, <2>2 DEF ReadJSON, LetterShape, ReadBackIsSame
<1>12. CASE UNCHANGED vars
  BY <1>0, <1>12 DEF vars, LetterShape, ReadBackIsSame
<1>13. ASSUME ReadBinaryReused
       PROVE  \E old \in {tx} : ReadBinary(old) /\ tx.type = letter.bytes.type
                                 /\ (tx.type = "legacy" => letter.bytes.sig # Nil)
  BY <1>13 DEF ReadBinaryReused
<1>14. QED
  BY <1>1, <1>2, <1>3, <1>4, <1>5, <1>6, <1>7, <1>8, <1>9, <1>10, <1>11, <1>12, <1>13 DEF Next

\* ReadBackIsSame (evmtx.go:157, 233, 645): reading undoes writing, by bytes and by JSON,
\* for a caller who reads over a new object, or a used one of the type he reads.
THEOREM ReadBackSafety == ASSUME Reuse = "same" PROVE Spec => []ReadBackIsSame
<1>1. Init => ReadInv
  BY InitInv DEF Init, ReadInv, Shape, ZeroTx, LetterShape, ReadBackIsSame
<1>2. ReadInv => ReadBackIsSame
  BY DEF ReadInv
<1>3. QED
  BY <1>1, <1>2, ReadInvNext, PTL DEF Spec
=============================================================================
