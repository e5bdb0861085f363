-------------------------------- MODULE TronTx --------------------------------
(***************************************************************************)
(* A TronTx (trontx.go): contracts are added by methods that may refuse,   *)
(* the other fields are set by the caller, signatures are appended, and    *)
(* the whole is written, never read.                                       *)
(*                                                                         *)
(* A signature is over the id, the hash of the raw data, which is encoded  *)
(* again for every use.  Hashes are perfect: the id is the raw data.       *)
(* A protobuf message is its sequence of fields, each a number and a       *)
(* value; the signer of a signature is recovered from signature and id.    *)
(***************************************************************************)
EXTENDS AbiBuffer

CONSTANTS
    Signers,      \* keys that sign
    Stranger,     \* a key nobody holds
    Drafts,       \* transactions the caller may start from
    Requests,     \* what the caller may ask of the methods
    Token,        \* the address of the token contract of its TRC20 transfers
    BadAddress,   \* a text that is no Tron address; others are bytes without the prefix
    FeeLimits,    \* values the caller may set FeeLimit to
    Contracts,    \* contracts the caller may append by itself, of types without a method
    Int64Top,     \* 2^63
    MaxContracts, \* bound on the contracts of one transaction
    MaxSignatures,\* bound on its signatures
    Nil           \* nil, and the result of an operation that returned an error

\* The value of a TronTx literal; the drafts are not signed yet.
Transaction(t) ==
    [refBlockBytes |-> t.refBlockBytes, refBlockHash |-> t.refBlockHash,
     expiration |-> t.expiration, timestamp |-> t.timestamp, feeLimit |-> t.feeLimit,
     contracts |-> t.contracts, signatures |-> t.signatures]

Transfer == "TransferContract"
Trigger  == "TriggerSmartContract"

Int64 == -Int64Top..Int64Top-1
Request(a)  == [kind |-> a.kind, from |-> a.from, to |-> a.to, amount |-> a.amount]
Contract(c) == [type |-> c.type, parameter |-> c.parameter]

\* The fields have the types of the structs; an amount of tokens is a *big.Int.
ASSUME TronAssumption ==
    /\ Int64Top \in Nat \ {0}
    /\ \A d \in Drafts :
          /\ d = Transaction(d) /\ d.contracts = <<>> /\ d.signatures = <<>>
          /\ {d.expiration, d.timestamp, d.feeLimit} \subseteq Int64
    /\ FeeLimits \subseteq Int64
    /\ \A a \in Requests :
          /\ a = Request(a) /\ a.kind \in {"transfer", "trc20"}
          /\ a.amount \in Int /\ (a.kind = "transfer" => a.amount < Int64Top)
          /\ a.to # BadAddress => a.to \in Seq(0..AbiByte-1)
    /\ \A c \in Contracts : c = Contract(c) /\ c.type \notin {Transfer, Trigger}
    /\ Stranger \notin Signers

VARIABLES
    tx,      \* the TronTx
    wire,    \* the last bytes MarshalBinary returned; raw is Nil before
    reported,\* the last answer of SignerAddresses if nothing happened since, or Nil
    asked,   \* history: what the caller asked for, contract by contract
    seals,   \* history: who signed, and what the transaction was to do then
    op       \* history: the last operation

vars == <<tx, wire, reported, asked, seals, op>>

-----------------------------------------------------------------------------
(***************************************************************************)
(* Protobuf.                                                               *)
(***************************************************************************)
Field(n, v) == <<[n |-> n, v |-> v]>>

\* mutant: negative numbers are left out too.
NumberFieldPositive(n, v) == IF v <= 0 THEN <<>> ELSE Field(n, v % (2 * Int64Top))

\* A number is a uint64; zero is left out.
NumberField(n, v) == IF v = 0 THEN <<>> ELSE Field(n, v % (2 * Int64Top))

\* Empty bytes are left out.
BytesField(n, b) == IF b = <<>> THEN <<>> ELSE Field(n, b)

-----------------------------------------------------------------------------
(***************************************************************************)
(* Contracts.                                                              *)
(***************************************************************************)
Supported == {Transfer, "TransferAssetContract", Trigger}

\* DecodeTronAddress and checkTronAddress of what it returns.
Valid(address) == address # BadAddress

NewTronTransferContract(owner, to, amount) ==
    IF ~ Valid(owner) \/ ~ Valid(to) \/ amount < 0 THEN Nil
    ELSE [type |-> Transfer,
          parameter |-> Field(1, owner) \o Field(2, to) \o NumberField(3, amount)]

NewTronTriggerSmartContract(owner, contract, callValue, data) ==
    IF ~ Valid(owner) \/ ~ Valid(contract) \/ callValue < 0 THEN Nil
    ELSE [type |-> Trigger,
          parameter |-> Field(1, owner) \o Field(2, contract)
                        \o NumberField(3, callValue) \o BytesField(4, data)]

\* The token call of AddTRC20Transfer; the address is the 20 bytes after the prefix.
TokenCall(to, amount) ==
    IF amount < 0 \/ ~ Valid(to) THEN <<>>
    ELSE EvmCall("transfer(address,uint256)", <<"address", "uint256">>,
                 <<[kind |-> "bytes", v |-> to], [kind |-> "int", n |-> amount]>>)

NewTRC20Transfer(from, contract, to, amount) ==
    IF TokenCall(to, amount) = <<>> THEN Nil
    ELSE NewTronTriggerSmartContract(from, contract, 0, TokenCall(to, amount))

marshal(c) == Field(1, c.type) \o Field(2, c.parameter)

-----------------------------------------------------------------------------
(***************************************************************************)
(* The transaction.                                                        *)
(***************************************************************************)
\* mutant: the fee limit is not part of what is hashed.
LaidWithoutFee(t) ==
    BytesField(1, t.refBlockBytes) \o BytesField(4, t.refBlockHash)
    \o NumberField(8, t.expiration)
    \o [i \in DOMAIN t.contracts |-> [n |-> 11, v |-> marshal(t.contracts[i])]]
    \o NumberField(14, t.timestamp)

\* The fields in ascending order.
Laid(t) ==
    BytesField(1, t.refBlockBytes) \o BytesField(4, t.refBlockHash)
    \o NumberField(8, t.expiration)
    \o [i \in DOMAIN t.contracts |-> [n |-> 11, v |-> marshal(t.contracts[i])]]
    \o NumberField(14, t.timestamp) \o NumberField(18, t.feeLimit)

RawData(t) ==
    IF t.contracts = <<>> \/ \E i \in DOMAIN t.contracts : t.contracts[i].type \notin Supported
    THEN Nil ELSE Laid(t)

\* recoverTronPubkey: over another id it gives another key, and no error.
Recovered(sig, raw) == IF sig.over = raw THEN sig.by ELSE Stranger

\* History: what the transaction is to do.
Content == [asked |-> asked, refBlockBytes |-> tx.refBlockBytes, refBlockHash |-> tx.refBlockHash,
            expiration |-> tx.expiration, timestamp |-> tx.timestamp, feeLimit |-> tx.feeLimit]

-----------------------------------------------------------------------------
(***************************************************************************)
(* Actions.                                                                *)
(***************************************************************************)
\* The contract for a call of AddTransfer or AddTRC20Transfer.
Built(a) ==
    IF a.kind = "transfer" THEN NewTronTransferContract(a.from, a.to, a.amount)
    ELSE NewTRC20Transfer(a.from, Token, a.to, a.amount)

Edited(t, as) ==
    /\ tx' = t /\ asked' = as /\ op' = "edit" /\ reported' = Nil
    /\ UNCHANGED <<wire, seals>>

\* mutant: the caller's list grows before the address is decoded.
AppendedAlways(cs, c) == Append(cs, IF c = Nil THEN [type |-> Transfer, parameter |-> <<>>] ELSE c)

Appended(cs, c) == IF c = Nil THEN cs ELSE Append(cs, c)

\* AddTransfer and AddTRC20Transfer (which goes through AddTriggerSmartContract).
Add(a) ==
    /\ Len(tx.contracts) < MaxContracts
    /\ tx' = [tx EXCEPT !.contracts = Appended(@, Built(a))]
    /\ asked' = IF Built(a) = Nil THEN asked ELSE Append(asked, a)
    /\ op' = IF Built(a) = Nil THEN "refused" ELSE "edit"
    /\ reported' = Nil
    /\ UNCHANGED <<wire, seals>>

\* The caller appends a contract of its own, perhaps of a type without an encoding.
AppendContract(c) ==
    /\ Len(tx.contracts) < MaxContracts
    /\ Edited([tx EXCEPT !.contracts = Append(@, c)], Append(asked, [kind |-> "own", contract |-> c]))

SetFeeLimit(f) == f # tx.feeLimit /\ Edited([tx EXCEPT !.feeLimit = f], asked)

Sign(s) ==
    /\ RawData(tx) # Nil /\ Len(tx.signatures) < MaxSignatures
    /\ tx' = [tx EXCEPT !.signatures = Append(@, [by |-> s, over |-> RawData(tx)])]
    /\ seals' = Append(seals, [by |-> s, means |-> Content])
    /\ op' = "approve" /\ reported' = Nil
    /\ UNCHANGED <<wire, asked>>

\* Any operation on a transaction without contracts or with one that has no
\* encoding, and Sign with a signer that fails or a key of another kind.
Refuse == op' = "refused" /\ reported' = Nil /\ UNCHANGED <<tx, wire, asked, seals>>

MarshalBinary ==
    /\ RawData(tx) # Nil
    /\ wire' = [raw |-> RawData(tx), signatures |-> tx.signatures]
    /\ op' = "write" /\ reported' = Nil
    /\ UNCHANGED <<tx, asked, seals>>

\* Changes nothing but the answer.
SignerAddresses ==
    /\ RawData(tx) # Nil
    /\ reported' = [i \in DOMAIN tx.signatures |-> Recovered(tx.signatures[i], RawData(tx))]
    /\ UNCHANGED <<tx, wire, asked, seals, op>>

Init == /\ tx \in Drafts
        /\ wire = [raw |-> Nil, signatures |-> <<>>]
        /\ reported = Nil /\ asked = <<>> /\ seals = <<>> /\ op = "init"

Next == \/ \E a \in Requests : Add(a)
        \/ \E c \in Contracts : AppendContract(c)
        \/ \E f \in FeeLimits : SetFeeLimit(f)
        \/ \E s \in Signers : Sign(s)
        \/ Refuse
        \/ MarshalBinary
        \/ SignerAddresses

Spec == Init /\ [][Next]_vars

-----------------------------------------------------------------------------
(***************************************************************************)
(* How a node reads the raw data: fields in ascending order, a missing one *)
(* is zero or empty, numbers are int64.                                    *)
(***************************************************************************)
Places(m, n) == { i \in DOMAIN m : m[i].n = n }
ReadBytes(m, n)  == IF Places(m, n) = {} THEN <<>> ELSE m[Max(Places(m, n))].v
ReadNumber(m, n) ==
    IF Places(m, n) = {} THEN 0
    ELSE LET v == m[Max(Places(m, n))].v IN IF v >= Int64Top THEN v - 2 * Int64Top ELSE v

\* All values of a field, which stand together.
Values(m, n) == [i \in 1..Cardinality(Places(m, n)) |-> m[Min(Places(m, n)) + i - 1].v]

Ascending(m) == \A i \in 1..Len(m)-1 : m[i].n <= m[i + 1].n

\* The call of a contract, as the token reads it.
ReadToken(data) ==
    [to |-> Word(data, 0), amount |-> Word(data, AbiWord)]

\* Contract c does what a asks for.
Does(c, a) ==
    LET p == ReadBytes(c, 2)
    IN  CASE a.kind = "transfer" ->
               /\ ReadBytes(c, 1) = Transfer
               /\ ReadBytes(p, 1) = a.from /\ ReadBytes(p, 2) = a.to /\ ReadNumber(p, 3) = a.amount
          [] a.kind = "trc20" ->
               /\ ReadBytes(c, 1) = Trigger
               /\ ReadBytes(p, 1) = a.from /\ ReadBytes(p, 2) = Token /\ ReadNumber(p, 3) = 0
               /\ ReadBytes(p, 4).selector = "transfer(address,uint256)"
               /\ ReadToken(ReadBytes(p, 4).args) = [to |-> ValueOf(a.to), amount |-> a.amount]
          [] a.kind = "own" ->
               ReadBytes(c, 1) = a.contract.type /\ p = a.contract.parameter

-----------------------------------------------------------------------------
(***************************************************************************)
(* Properties.                                                             *)
(***************************************************************************)
\* A node reads from the raw data the fields the caller set and, in their order, the
\* contracts it asked for and was not refused: also where zeros are left out, numbers
\* are negative, and a token transfer goes through calldata (trontx.go:189, 225).
NodeReadsWhatWasAsked ==
    LET raw == RawData(tx)
    IN  raw # Nil =>
          /\ Ascending(raw)
          /\ ReadBytes(raw, 1) = tx.refBlockBytes /\ ReadBytes(raw, 4) = tx.refBlockHash
          /\ ReadNumber(raw, 8) = tx.expiration /\ ReadNumber(raw, 14) = tx.timestamp
          /\ ReadNumber(raw, 18) = tx.feeLimit
          /\ Len(Values(raw, 11)) = Len(asked)
          /\ \A i \in DOMAIN asked : Does(Values(raw, 11)[i], asked[i])

\* SignerAddresses names a signer exactly while the transaction does what it did
\* when that signer signed: contracts and fee limits come and go in between, and a
\* signature from before stays in its place (trontx.go:301, 343).
SignersMeantThis ==
    reported # Nil =>
        /\ Len(reported) = Len(seals)
        /\ \A i \in DOMAIN seals : reported[i] = seals[i].by <=> seals[i].means = Content

\* The transaction keeps the promise of Approvals; what is refused adds no contract
\* (trontx.go:148, 189, 275).
Promise == INSTANCE Approvals WITH
    content   <- RawData(tx),
    approvals <- [i \in DOMAIN tx.signatures |->
                     [by |-> tx.signatures[i].by, of |-> tx.signatures[i].over]],
    copy      <- [content   |-> wire.raw,
                  approvals |-> [i \in DOMAIN wire.signatures |->
                                    [by |-> wire.signatures[i].by,
                                     of |-> wire.signatures[i].over]]]

KeepsPromise == Promise!Spec
===============================================================================
