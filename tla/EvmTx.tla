-------------------------------- MODULE EvmTx --------------------------------
(***************************************************************************)
(* An EvmTx through its life (evmtx.go, evmtx7702.go, evmaccesslist.go):   *)
(* filled in, signed, edited, written as bytes or as JSON, read back into  *)
(* a new object or the one at hand, and asked for its sender.              *)
(*                                                                         *)
(* What makes it hard is that one field has several homes.  The chain id   *)
(* of a legacy transaction is in ChainId before the signature and in Y     *)
(* (v) after it; Signature() writes ChainId as it reads; an unsigned       *)
(* EIP-155 transaction is written with as many fields as a signed one; and *)
(* fields a type does not use keep what an earlier transaction left.       *)
(*                                                                         *)
(* A body stands for nonce, gas, fee cap, recipient, value and data.       *)
(* Hashes are perfect and RLP is injective: bytes are the record of what   *)
(* was encoded.  A signature is the record of who signed which bytes, with *)
(* the recovery id; public key recovery with other bytes or another id     *)
(* yields a key that is nobody's.                                          *)
(***************************************************************************)
EXTENDS Integers, Sequences

CONSTANTS
    Keys,      \* private keys
    Stranger,  \* the key recovered from a signature over other bytes
    Bodies,    \* values of the fields every type has
    Tips,      \* values of GasTipCap
    AccessLists, \* access lists; <<>> is the empty one
    AuthIds,   \* what an authorization is about
    ChainIds,  \* chain ids the caller may set; bounded below 2^62
    Drafts,    \* transactions the caller may fill in
    Foreign,   \* letters (bytes with their history) that others may send
    Reuse,     \* "any", or "same": only over the same type, and an unsigned
               \* chain-less legacy transaction not at all
    Careless,  \* whether the caller signs without looking at ChainId
    Nil        \* a nil field

VARIABLES
    tx,        \* the EvmTx
    letter,    \* the bytes or the JSON at hand, with their history
    seal,      \* history: who signed what, for which chain
    meant,     \* history: the chain the transaction is for
    last       \* the last call

vars == <<tx, letter, seal, meant, last>>

Typed   == {"2930", "1559", "7702"}
TxTypes == {"legacy", "4844"} \cup Typed
RecIds  == {0, 1}

ZeroSig == [by |-> Nil, over |-> Nil, rec |-> 0]   \* R = S = 0

\* An authorization, signed by its authority over its own id.
Auth(id, k) == [id |-> id, by |-> k]

ZeroTx == [type |-> "legacy", chain |-> 0, tip |-> Nil, body |-> Nil, al |-> <<>>,
           auth |-> <<>>, signed |-> FALSE, y |-> Nil, sig |-> Nil]

\* The values of an EvmTx, of what it is written as, and of its signature.
AuthLists == Seq([id : AuthIds, by : Keys])

Fields == [chain : Nat \cup {Nil}, tip : Tips \cup {Nil}, body : Bodies \cup {Nil},
           al : AccessLists \cup {Nil}, auth : AuthLists \cup {Nil}]

\* What is signed.
Signables == [type : TxTypes, fields : Fields, y : Nat \cup {Nil}, sig : {Nil, ZeroSig}]

Sigs == [by : Keys \cup {Nil}, over : Signables \cup {Nil}, rec : RecIds]

Txs == [type : TxTypes, chain : Nat, tip : Tips \cup {Nil}, body : Bodies \cup {Nil},
        al : AccessLists, auth : AuthLists, signed : BOOLEAN, y : Nat \cup {Nil},
        sig : Sigs \cup {Nil}]

\* The fields a type does not use are empty, those it needs are there.
Shape(t) ==
    /\ t.type = "legacy" => t.al = <<>>
    /\ t.type \in {"1559", "7702"} => t.tip # Nil
    /\ t.type = "2930" => t.tip = Nil
    /\ t.type # "4844" => (t.auth # <<>> <=> t.type = "7702")

-----------------------------------------------------------------------------
(***************************************************************************)
(* Encoding.                                                               *)
(***************************************************************************)
\* The tuples [address, keys], and the authorizations with their signatures.
accessListRlp(t)        == IF t.type \in Typed THEN t.al ELSE Nil
authorizationListRlp(t) == IF t.type = "7702" THEN t.auth ELSE Nil

\* RlpFields: Nil marks a field the type does not have.  EIP-4844 has none.
RlpFields(t) ==
    [chain |-> IF t.type \in Typed THEN t.chain ELSE Nil,
     tip   |-> IF t.type \in {"1559", "7702"} THEN t.tip ELSE Nil,
     body  |-> IF t.type = "4844" THEN Nil ELSE t.body,
     al    |-> accessListRlp(t),
     auth  |-> authorizationListRlp(t)]

Bytes(t, y, sig) == [type |-> t.type, fields |-> RlpFields(t), y |-> y, sig |-> sig]

\* EIP-155 appends the chain id and two zeros in the place of v, r and s.
SignBytes(t) == IF t.type = "legacy" /\ t.chain # 0
                THEN Bytes(t, t.chain, ZeroSig)
                ELSE Bytes(t, Nil, Nil)

MarshalBinary(t) == IF t.signed THEN Bytes(t, t.y, t.sig) ELSE SignBytes(t)

\* mutant: the access list is not read.
ParsedNoList(old, b) ==
    [old EXCEPT !.type = b.type, !.body = b.fields.body,
                !.chain = IF b.type \in Typed THEN b.fields.chain ELSE @,
                !.tip = IF b.type \in {"1559", "7702"} THEN b.fields.tip ELSE @,
                !.auth = IF b.type = "7702" THEN b.fields.auth ELSE @,
                !.signed = b.sig # Nil,
                !.y = IF b.sig # Nil THEN b.y ELSE @,
                !.sig = IF b.sig # Nil THEN b.sig ELSE @]

\* ParseTransaction over an object: fields of other types keep their value, and
\* so does ChainId for a legacy transaction.
Parsed(old, b) ==
    [old EXCEPT !.type = b.type, !.body = b.fields.body,
                !.chain = IF b.type \in Typed THEN b.fields.chain ELSE @,
                !.tip = IF b.type \in {"1559", "7702"} THEN b.fields.tip ELSE @,
                !.al = IF b.type \in Typed THEN b.fields.al ELSE @,
                !.auth = IF b.type = "7702" THEN b.fields.auth ELSE @,
                !.signed = b.sig # Nil,
                !.y = IF b.sig # Nil THEN b.y ELSE @,
                !.sig = IF b.sig # Nil THEN b.sig ELSE @]

ParseRefuses(b) == b.type = "4844"

-----------------------------------------------------------------------------
(***************************************************************************)
(* Signature and sender.                                                   *)
(***************************************************************************)
\* v for recovery id rec.
V(t, rec) == IF t.type # "legacy" THEN rec
             ELSE IF t.chain = 0 THEN 27 + rec
             ELSE 2 * t.chain + 35 + rec

\* The recovery id v decodes to, more than 3 when it is refused.
RecoveryId(t) ==
    IF t.type # "legacy" THEN t.y
    ELSE IF t.y >= 35 THEN 1 - (t.y % 2)
    ELSE IF t.y \in {27, 28} THEN t.y - 27
    ELSE IF t.y \in {0, 1} THEN t.y ELSE 4

\* mutant: Y is replaced by the recovery id that was decoded from it.
AfterSignatureNormalized(t) ==
    IF ~ t.signed \/ t.type # "legacy" THEN t
    ELSE [t EXCEPT !.chain = IF t.y >= 35 THEN (t.y - 35 - RecoveryId(t)) \div 2 ELSE 0,
                   !.y = RecoveryId(t)]

\* Signature() sets ChainId of a signed legacy transaction from v.
AfterSignature(t) ==
    IF ~ t.signed \/ t.type # "legacy" THEN t
    ELSE [t EXCEPT !.chain = IF t.y >= 35 THEN (t.y - 35 - RecoveryId(t)) \div 2 ELSE 0]

\* mutant: the bytes are taken before Signature() has set ChainId.
RecoveredOverEarly(t) == SignBytes(t)

\* The bytes SenderPubkey recovers from.
RecoveredOver(t) == SignBytes(AfterSignature(t))

\* The key whose address SenderAddress returns, Nil for an error.
Sender(t) ==
    IF ~ t.signed \/ RecoveryId(t) > 3 \/ t.sig = ZeroSig THEN Nil
    ELSE IF t.sig.over = RecoveredOver(t) /\ t.sig.rec = RecoveryId(t) THEN t.sig.by
    ELSE Stranger

-----------------------------------------------------------------------------
(***************************************************************************)
(* What a transaction is about, as the EIPs list it in the comment above   *)
(* the types (evmtx.go:27-32), apart from its signature.                   *)
(***************************************************************************)
Content(t) ==
    [type |-> t.type, body |-> t.body,
     chain |-> IF t.type = "legacy" THEN Nil ELSE t.chain,
     tip   |-> IF t.type \in {"legacy", "2930"} THEN Nil ELSE t.tip,
     al    |-> IF t.type = "legacy" THEN Nil ELSE t.al,
     auth  |-> IF t.type = "7702" THEN t.auth ELSE Nil]

\* The bytes at hand, with their history.
Binary(b, s, c) == [kind |-> "binary", bytes |-> b, seal |-> s, meant |-> c]

\* What is written for a transaction: the fields its type has, and v with a signature.
BytesSet == { b \in [type : TxTypes, fields : Fields, y : Nat \cup {Nil}, sig : Sigs \cup {Nil}] :
                 /\ b.type \in Typed <=> b.fields.chain # Nil
                 /\ b.type \in Typed <=> b.fields.al # Nil
                 /\ b.type \notin {"1559", "7702"} => b.fields.tip = Nil
                 /\ b.type = "4844" <=> b.fields.body = Nil
                 /\ b.type = "7702" <=> b.fields.auth # Nil
                 /\ b.y = Nil <=> b.sig = Nil }

\* y and sig are a signature by s.by of s.content, as the EIPs list what is signed:
\* v is the recovery id, 27 more, or what EIP-155 makes of it and the chain id.
Sealed(y, sig, s) ==
    LET over == sig.over
    IN  /\ s.content.type \in TxTypes /\ s.content = Content(s.content)
        /\ sig \in Sigs /\ sig.by = s.by /\ s.by \in Keys
        /\ over \in Signables /\ over.type = s.content.type /\ over.fields = RlpFields(s.content)
        /\ \/ over.y = Nil /\ over.sig = Nil /\ y = sig.rec
           \/ over.y = Nil /\ over.sig = Nil /\ s.content.type = "legacy" /\ y \in {27 + sig.rec, 35 + sig.rec}
           \/ /\ s.content.type = "legacy" /\ over.y \in Nat \ {0} /\ over.sig = ZeroSig
              /\ y = 2 * over.y + 35 + sig.rec

\* Drafts are unsigned, and those who send letters keep to the EIPs.
ASSUME EvmAssumption ==
    /\ ChainIds \subseteq Nat /\ <<>> \in AccessLists
    /\ Stranger \notin Keys
    /\ Nil \notin Keys \cup Nat \cup Tips \cup Bodies \cup AccessLists
    /\ Nil \notin Sigs /\ Nil \notin AuthLists
    /\ \A d \in Drafts : d \in Txs /\ ~ d.signed /\ d.body # Nil /\ Shape(d)
    /\ \A w \in Foreign :
          /\ w = Binary(w.bytes, w.seal, w.meant) /\ w.bytes \in BytesSet
          /\ w.bytes.type \in {"1559", "7702"} => w.bytes.fields.tip # Nil
          /\ w.bytes.fields.auth # <<>>
          /\ w.seal # Nil => w.bytes.y # Nil /\ Sealed(w.bytes.y, w.bytes.sig, w.seal)

-----------------------------------------------------------------------------
(***************************************************************************)
(* The caller fills in and edits the object.                               *)
(***************************************************************************)
Build(d) ==
    /\ last = "init"
    /\ tx' = d /\ meant' = d.chain /\ seal' = Nil /\ last' = "build"
    /\ UNCHANGED letter

\* Call sets Data; the other fields of the body are exported.
Call(b) ==
    /\ tx.body \notin {Nil, b}
    /\ tx' = [tx EXCEPT !.body = b] /\ last' = "edit"
    /\ UNCHANGED <<letter, seal, meant>>

SetChainId(c) ==
    /\ tx.body # Nil /\ tx.chain # c
    /\ tx' = [tx EXCEPT !.chain = c] /\ meant' = c /\ last' = "edit"
    /\ UNCHANGED <<letter, seal>>

\* EvmAuthorization.Sign on an entry of AuthList, which holds pointers.
AuthorizationSign(i, k) ==
    /\ tx.auth[i].by # k
    /\ tx' = [tx EXCEPT !.auth[i].by = k] /\ last' = "edit"
    /\ UNCHANGED <<letter, seal, meant>>

\* SignWithOptions; every error comes before the object is written.
Sign(k, rec) ==
    /\ tx.body # Nil
    /\ Careless \/ tx.chain = meant
    /\ tx' = [tx EXCEPT !.signed = TRUE, !.y = V(tx, rec),
                        !.sig = [by |-> k, over |-> SignBytes(tx), rec |-> rec]]
    /\ seal' = [by |-> k, content |-> Content(tx), chain |-> meant]
    /\ last' = "sign"
    /\ UNCHANGED <<letter, meant>>

SenderAddress ==
    /\ tx' = AfterSignature(tx) /\ last' = "query"
    /\ UNCHANGED <<letter, seal, meant>>

-----------------------------------------------------------------------------
(***************************************************************************)
(* Bytes and JSON.                                                         *)
(***************************************************************************)
WriteBinary ==
    /\ tx.body # Nil
    /\ letter' = Binary(MarshalBinary(tx), seal, meant)
    /\ last' = "marshal"
    /\ UNCHANGED <<tx, seal, meant>>

Receive(w) ==
    /\ letter' = w /\ last' = "receive"
    /\ UNCHANGED <<tx, seal, meant>>

ReadBinary(old) ==
    /\ letter # Nil /\ letter.kind = "binary"
    /\ ~ ParseRefuses(letter.bytes)
    /\ tx' = Parsed(old, letter.bytes)
    /\ seal' = letter.seal /\ meant' = letter.meant /\ last' = "unmarshal"
    /\ UNCHANGED letter

ReadBinaryReused ==
    /\ letter # Nil /\ letter.kind = "binary"
    /\ \/ Reuse = "any"
       \/ /\ tx.type = letter.bytes.type
          /\ tx.type = "legacy" => letter.bytes.sig # Nil
    /\ ReadBinary(tx)

\* MarshalJSON: ChainId is written before SenderAddress updates it, and the lists
\* are written whatever the type is.
WriteJSON ==
    /\ tx.body # Nil
    /\ letter' = [kind |-> "json", typed |-> tx.type # "legacy", chain |-> tx.chain,
                  tip |-> tx.tip, body |-> tx.body, al |-> tx.al, auth |-> tx.auth,
                  y |-> IF tx.signed THEN tx.y ELSE Nil,
                  sig |-> IF tx.signed THEN tx.sig ELSE Nil,
                  bytes |-> MarshalBinary(tx), seal |-> seal, meant |-> meant]
    /\ tx' = AfterSignature(tx)
    /\ last' = "query"
    /\ UNCHANGED <<seal, meant>>

TypeOfJSON(j) == IF j.auth # <<>> THEN "7702" ELSE IF j.typed THEN "1559" ELSE "legacy"

\* UnmarshalJSON into a new object.  The tip of EIP-2930 is nil, its JSON is
\* refused and the new object dropped.
ReadJSON ==
    /\ letter # Nil /\ letter.kind = "json"
    /\ letter.typed => letter.tip # Nil
    /\ tx' = [type |-> TypeOfJSON(letter), chain |-> letter.chain,
              tip |-> IF letter.typed THEN letter.tip ELSE Nil,
              body |-> letter.body, al |-> letter.al, auth |-> letter.auth,
              signed |-> letter.y # Nil, y |-> letter.y, sig |-> letter.sig]
    /\ seal' = letter.seal /\ meant' = letter.meant /\ last' = "unmarshal"
    /\ UNCHANGED letter

-----------------------------------------------------------------------------
Init == /\ tx = ZeroTx
        /\ letter = Nil
        /\ seal = Nil
        /\ meant = 0
        /\ last = "init"

Next == \/ \E d \in Drafts : Build(d)
        \/ \E b \in Bodies : Call(b)
        \/ \E c \in ChainIds : SetChainId(c)
        \/ \E i \in DOMAIN tx.auth, k \in Keys : AuthorizationSign(i, k)
        \/ \E k \in Keys, rec \in RecIds : Sign(k, rec)
        \/ SenderAddress
        \/ WriteBinary
        \/ \E w \in Foreign : Receive(w)
        \/ ReadBinary(ZeroTx) \/ ReadBinaryReused
        \/ WriteJSON
        \/ ReadJSON

Spec == Init /\ [][Next]_vars

-----------------------------------------------------------------------------
(***************************************************************************)
(* Properties.                                                             *)
(***************************************************************************)
\* SenderAddress returns the signer exactly while the transaction is what was
\* signed: through bytes and JSON, in a reused object, with ChainId not yet read
\* from v, and never after an edit or a later authorization
\* (SenderPubkey, evmtx.go:513).  A signature of an EIP-4844 transaction commits to
\* none of its fields (evmtx.go:135).
SenderIsSigner ==
    seal # Nil /\ tx.type # "4844" => (Sender(tx) = seal.by <=> Content(tx) = seal.content)

\* Reading and writing are inverse: what was read, from bytes or from JSON, is
\* written as the same bytes and so has the same hash (evmtx.go:157, 233, 645).  The JSON of
\* an EIP-4844 transaction is read as EIP-1559 (evmtx.go:668).
ReadBackIsSame ==
    last = "unmarshal" /\ letter.bytes.type # "4844" => MarshalBinary(tx) = letter.bytes

\* Asking for the sender or for JSON writes to the object, but never to what its
\* bytes are (evmtx.go:487, 634).
QueriesAreTransparent ==
    [][last' = "query" => MarshalBinary(tx') = MarshalBinary(tx)]_vars

\* What is signed is for the chain the transaction was made for: also after an
\* unsigned legacy transaction went through its bytes, where "chainId is encoded
\* in v before signature" (evmtx.go:57, 185, 265).
SignsForMeantChain ==
    seal # Nil /\ tx.signed /\ tx.sig.by = seal.by =>
        IF tx.type = "legacy"
        THEN tx.sig.over.y = IF seal.chain = 0 THEN Nil ELSE seal.chain
        ELSE tx.sig.over.fields.chain = seal.chain
=============================================================================
