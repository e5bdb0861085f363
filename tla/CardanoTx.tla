------------------------------ MODULE CardanoTx ------------------------------
(***************************************************************************)
(* A CardanoTx (cardanotx.go): its fields are set by the caller, witnesses *)
(* are appended by SignWith, which asks one signer after another and stops *)
(* at the first that fails, and it is written to and read from CBOR.       *)
(*                                                                         *)
(* Witnesses sign the hash of the body, and the object does not keep the   *)
(* body: every use encodes it again.  A transaction that was read is not   *)
(* the one that was written (assets are merged and sorted), and only its   *)
(* encoding must be the same for the witnesses to stay good.               *)
(*                                                                         *)
(* Hashes are perfect: the digest of a body is the body.  A unit stands    *)
(* for a policy id and an asset name, in the order of their bytes.         *)
(***************************************************************************)
EXTENDS Ordered, SequencesExt

CONSTANTS
    Signers,      \* CardanoSigners
    Drafts,       \* transactions the caller may start from
    InputLists,   \* values the caller may set Inputs to
    Fees,         \* values the caller may set Fee to
    Requests,     \* lists of signers the caller may ask for
    ShortId,      \* an input whose id does not have 32 bytes
    NoAddress,    \* an empty address
    Top,          \* 2^64
    MaxWitnesses, \* bound on the witnesses of one transaction
    Nil           \* nil, and the result of an operation that returned an error

\* The value of a CardanoTx literal.
Transaction(t) ==
    [inputs |-> t.inputs, outputs |-> t.outputs, fee |-> t.fee, ttl |-> t.ttl, wits |-> t.wits]

\* CardanoAssets, with amounts that are uint64.
Assets == [unit : Nat, amount : 0..Top-1]

\* A draft has no witnesses yet.
ASSUME CardanoAssumption ==
    /\ Top \in Nat \ {0}
    /\ Requests \subseteq Seq(Signers)
    /\ \A d \in Drafts :
          /\ d = Transaction(d) /\ d.wits = <<>>
          /\ d.outputs \in Seq(ToSet(d.outputs))
          /\ \A o \in ToSet(d.outputs) : o.assets \in Seq(Assets)

VARIABLES
    tx,        \* the CardanoTx
    call,      \* the call of SignWith that runs, or Nil
    wire,      \* the last bytes MarshalBinary returned; the body is Nil before
    answered,  \* history: the signers of the SignWith that has just returned nil
    op         \* history: the last operation

vars == <<tx, call, wire, answered, op>>

Sections == <<"inputs", "outputs", "fee", "ttl", "witness set", "vkeys">>

-----------------------------------------------------------------------------
(***************************************************************************)
(* The body.                                                               *)
(***************************************************************************)
Overflow == [ok |-> FALSE, map |-> <<>>]

\* mutant: an overflow is not noticed.
AddAssetUnchecked(r, a) ==
    LET prev == IF a.unit \in DOMAIN r.map THEN r.map[a.unit] ELSE 0
        sum  == (prev + a.amount) % Top
    IN  [ok  |-> TRUE,
         map |-> [u \in DOMAIN r.map \cup {a.unit} |-> IF u = a.unit THEN sum ELSE r.map[u]]]

\* One iteration of cardanoAssetMap.
AddAsset(r, a) ==
    LET prev == IF a.unit \in DOMAIN r.map THEN r.map[a.unit] ELSE 0
        sum  == (prev + a.amount) % Top
    IN  IF ~ r.ok \/ sum < prev THEN Overflow
        ELSE [ok  |-> TRUE,
              map |-> [u \in DOMAIN r.map \cup {a.unit} |-> IF u = a.unit THEN sum ELSE r.map[u]]]

cardanoAssetMap(assets) ==
    LET out[n \in 0..Len(assets)] ==
            IF n = 0 THEN [ok |-> TRUE, map |-> <<>>] ELSE AddAsset(out[n - 1], assets[n])
    IN  out[Len(assets)]

\* A bare coin has no multiasset: cardanoAssetMap of no assets.
outputValue(o) == [coin |-> o.coin, multiasset |-> cardanoAssetMap(o.assets).map]

BodyOK(t) ==
    /\ t.inputs # <<>> /\ t.outputs # <<>>
    /\ \A i \in DOMAIN t.inputs : t.inputs[i] # ShortId
    /\ \A i \in DOMAIN t.outputs :
          /\ t.outputs[i].addr # NoAddress
          /\ cardanoAssetMap(t.outputs[i].assets).ok

\* Nil for an error; a TTL of 0 is left out.
bodyMap(t) ==
    IF ~ BodyOK(t) THEN Nil
    ELSE [inputs  |-> t.inputs,
          outputs |-> [i \in DOMAIN t.outputs |->
                          [addr |-> t.outputs[i].addr, value |-> outputValue(t.outputs[i])]],
          fee     |-> t.fee,
          ttl     |-> IF t.ttl = 0 THEN Nil ELSE t.ttl]

-----------------------------------------------------------------------------
(***************************************************************************)
(* Reading.                                                                *)
(***************************************************************************)
flattenCardanoAssets(m) ==
    LET units == Sorted(DOMAIN m)
    IN  [i \in DOMAIN units |-> [unit |-> units[i], amount |-> m[units[i]]]]

decodeCardanoOutput(o) ==
    [addr |-> o.addr, coin |-> o.value.coin, assets |-> flattenCardanoAssets(o.value.multiasset)]

\* The fields in the order they are read.
Parsed(w) ==
    [inputs  |-> w.body.inputs,
     outputs |-> [i \in DOMAIN w.body.outputs |-> decodeCardanoOutput(w.body.outputs[i])],
     fee     |-> w.body.fee,
     ttl     |-> IF w.body.ttl = Nil THEN 0 ELSE w.body.ttl,
     wits    |-> w.wits]

\* mutant: the fields are written as they are read.
UnmarshalledInPlace(t, w, bad) ==
    IF bad \in {"none", "witness set", "vkeys"}
    THEN [Parsed(w) EXCEPT !.wits = IF bad = "none" THEN @ ELSE t.wits]
    ELSE t

\* The transaction after UnmarshalBinary of w with section bad malformed.
Unmarshalled(t, w, bad) == IF bad = "none" THEN Parsed(w) ELSE t

-----------------------------------------------------------------------------
(***************************************************************************)
(* Actions.                                                                *)
(***************************************************************************)
Idle == call = Nil

\* An edit of an exported field.
Edited(t) ==
    /\ Idle /\ tx # t
    /\ tx' = t /\ answered' = Nil /\ op' = "edit"
    /\ UNCHANGED <<call, wire>>

SetFee(f)    == Edited([tx EXCEPT !.fee = f])
SetInputs(i) == Edited([tx EXCEPT !.inputs = i])

\* SignWith: the digest is computed once, for all signers.
SignBegin(asked) ==
    /\ Idle /\ bodyMap(tx) # Nil
    /\ Len(tx.wits) + Len(asked) <= MaxWitnesses
    /\ call' = [left |-> asked, digest |-> bodyMap(tx), asked |-> asked]
    /\ answered' = Nil
    /\ UNCHANGED <<tx, wire, op>>

\* mutant: a signer that has a witness does not get another.
WitnessedOnce(ws, w) ==
    IF \E i \in DOMAIN ws : ws[i].by = w.by THEN ws ELSE Append(ws, w)

Witnessed(ws, w) == Append(ws, w)

SignNext ==
    /\ ~ Idle /\ call.left # <<>>
    /\ tx' = [tx EXCEPT !.wits = Witnessed(@, [by |-> Head(call.left), over |-> call.digest])]
    /\ call' = [call EXCEPT !.left = Tail(@)]
    /\ op' = "approve"
    /\ UNCHANGED <<wire, answered>>

SignReturn ==
    /\ ~ Idle /\ call.left = <<>>
    /\ call' = Nil /\ answered' = call.asked
    /\ UNCHANGED <<tx, wire, op>>

\* The key or the signature has a wrong length, or the signer returns an error.
SignFails ==
    /\ ~ Idle /\ call.left # <<>>
    /\ call' = Nil /\ op' = "refused"
    /\ UNCHANGED <<tx, wire, answered>>

MarshalBinary ==
    /\ Idle /\ bodyMap(tx) # Nil
    /\ wire' = [body |-> bodyMap(tx), wits |-> tx.wits]
    /\ op' = "write"
    /\ UNCHANGED <<tx, call, answered>>

\* SignWith and MarshalBinary of a body that can not be encoded.
BodyRefused ==
    /\ Idle /\ bodyMap(tx) = Nil
    /\ op' = "refused"
    /\ UNCHANGED <<tx, call, wire, answered>>

UnmarshalBinary(bad) ==
    /\ Idle /\ wire.body # Nil
    /\ tx' = Unmarshalled(tx, wire, bad)
    /\ answered' = Nil
    /\ op' = IF bad = "none" THEN "read" ELSE "refused"
    /\ UNCHANGED <<call, wire>>

Init == /\ tx \in Drafts
        /\ wire = [body |-> Nil, wits |-> <<>>]
        /\ call = Nil /\ answered = Nil /\ op = "init"

Next == \/ \E f \in Fees : SetFee(f)
        \/ \E i \in InputLists : SetInputs(i)
        \/ \E asked \in Requests : SignBegin(asked)
        \/ SignNext
        \/ SignReturn
        \/ SignFails
        \/ MarshalBinary
        \/ BodyRefused
        \/ \E bad \in {"none"} \cup ToSet(Sections) : UnmarshalBinary(bad)

Spec == Init /\ [][Next]_vars

-----------------------------------------------------------------------------
(***************************************************************************)
(* Properties.                                                             *)
(***************************************************************************)
Units(assets) == { assets[i].unit : i \in DOMAIN assets }

\* The sum of all amounts of unit u.
Total(assets, u) ==
    LET sum[n \in 0..Len(assets)] ==
            IF n = 0 THEN 0
            ELSE sum[n - 1] + IF assets[n].unit = u THEN assets[n].amount ELSE 0
    IN  sum[Len(assets)]

\* Amounts of one asset that is listed several times are added up, in whatever
\* order they come, and refused exactly when the sum needs more than 64 bits
\* (cardanoAssetMap, cardanotx.go:79).
SumsAreTrue ==
    \A o \in ToSet(tx.outputs) :
        LET sums == cardanoAssetMap(o.assets)
        IN  /\ sums.ok <=> \A u \in Units(o.assets) : Total(o.assets, u) < Top
            /\ sums.ok => sums.map = [u \in Units(o.assets) |-> Total(o.assets, u)]

\* When SignWith returns nil, everyone asked has a witness over the transaction as
\* it is written, whatever witnesses were there before: also stale ones of the
\* same signers, and those of a call that stopped halfway (cardanotx.go:202).
AnsweredMeansWitnessed ==
    answered # Nil =>
        \A s \in ToSet(answered) :
            \E w \in ToSet(tx.wits) : w.by = s /\ w.over = bodyMap(tx)

\* The transaction keeps the promise of Approvals: reading gives back the body
\* that was witnessed and the witnesses, and what fails changes nothing
\* (cardanotx.go:197, 240, 257).
Promise == INSTANCE Approvals WITH
    content   <- bodyMap(tx),
    approvals <- [i \in DOMAIN tx.wits |-> [by |-> tx.wits[i].by, of |-> tx.wits[i].over]],
    copy      <- [content   |-> wire.body,
                  approvals |-> [i \in DOMAIN wire.wits |->
                                    [by |-> wire.wits[i].by, of |-> wire.wits[i].over]]]

KeepsPromise == Promise!Spec
=============================================================================
