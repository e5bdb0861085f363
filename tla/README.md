# outscript: a verification development

outscript is a Go library that builds, signs, parses and serialises the
transactions of several block chains and converts between keys, scripts and
addresses.  This directory holds TLA+ modules that model it, the TLC
configurations that check them on small instances, and proofs of theorems about
them that TLAPS checks for every value of the constants.  The reference is the
code; a module names the functions it models, and `PROJECT.json` ("map") the
lines behind every definition.

The library is sequential: no goroutine, lock, file or socket.  What is hard
about it is what happens over a *sequence* of calls on one mutable transaction
object:

* a loop that stops halfway because an outside signer (a key, an HSM, a TSS
  group) failed, and is run again;
* a value computed once, then reused while the object it came from is written to;
* fields that an earlier call, an earlier transaction or a failed read left behind;
* encodings in which two fields share a place, or in which one value has two forms;
* arithmetic at the border of a width: carries, wrap-around, the sign of a point.

To run: `tlc -config <X>.cfg <MC module>` for a run, `tlapm <X>Proofs.tla` and
`tlapm SharedLemmas.tla` for the proofs.

## 1. Inventory

State is per object: the library has no global mutable state except the cache
inside a `Script`.  Components interact by calls only; outside code is called
back through `crypto.Signer` (Bitcoin, EVM, Tron), `TaprootSigner`,
`CardanoSigner` and the `io.Reader` a transaction is read from.

| component | source | state | operations | what is hard | what makes it correct |
|---|---|---|---|---|---|
| Bitcoin signing | btctx.go, btctx_p2tr.go | `BtcTx`: inputs (script, witnesses), outputs; during `Sign` a work copy, cached BIP-143 and BIP-341 parts | AddNetOutput, Prefill, Sign, Dup, ClearInputs | Sign rewrites inputs and a work copy as it loops, and can stop at each; leftovers of earlier calls | what it signs can be spent; what it did not reach is untouched; nothing cached is stale |
| Taproot keys | p2tr.go, btctx_p2tr.go | none | TaprootTweak, p2trSign, bip340Sign | three points whose y may be odd | the signature verifies for the output that was made |
| Signature extraction | btctxparse.go | none | ExtractBtcInputSig, InputSighash, TaprootInputSighash, ResolveMultisigPubKey | kinds are told apart by shape alone; DER by hand | every signature with the digest and the key it is of |
| Bitcoin wire format | btctx.go, util.go | `BtcTx`, the `readHelper` and its error | MarshalBinary, ReadFrom, ComputeSize | counts before what they count, a sticky error, segwit marker and an empty input list share bytes | reading inverts writing, errors are not swallowed, the size is the virtual size |
| Solana transactions | solanatx.go | `SolanaTx`: signature slots, legacy message, optional v0 message | NewSolanaTx, NewSolanaTxV0, Sign, Verify, Hash, MarshalBinary, UnmarshalBinary | co-signers on copies, partial calls, reading over a used object, reading that stops in the middle | the message says what the instructions said; Verify means all signed; reading yields what was written |
| EVM transactions | evmtx.go, evmtx7702.go, evmaccesslist.go | `EvmTx` | Sign, Call, Signature, SenderAddress, MarshalBinary/JSON, UnmarshalBinary/JSON; `EvmAuthorization.Sign` | the chain id lives in ChainId or in v; a query writes; stale fields of another type | the sender is the signer exactly while the content is what was signed |
| Cardano transactions | cardanotx.go | `CardanoTx` with witnesses | Sign, SignWith, Hash, MarshalBinary, UnmarshalBinary | a call that stops between two signers; assets merged and reordered by a round trip | witnesses are over what is written; failed reads change nothing |
| Tron transactions | trontx.go | `TronTx` | AddTransfer, AddTRC20Transfer, Sign, SignerAddresses, MarshalBinary | an id that changes after a signature; calls refused halfway | a node reads what was asked for; signers are named while they meant this |
| Scripts and formats | script.go, format.go, insertable.go, hash.go | `Script`: key and a cache by name | Generate, Out | recursion through Lookup while caching | a cached script is the one that would be generated |
| Recognition | info.go, btcguess.go | none | GuessOut, Out.Hash, two guesses | three pieces of code read shapes | they agree with each other and with the generator |
| Addresses | address.go, cardano.go, tron.go, massa.go, eip55.go, solana.go | flags of an `Out` | Out.Address, Parse... | one version byte means several networks; kind and network said twice | an address pays the script it was written for |
| Cardano keys | cardano_derive.go, cardano_extkey.go | none | DeriveChild, DerivePath, public child | carries of byte-wise additions | both ways give the same child |
| Lengths and bits | btcvarint.go, pushbytes.go, solanatx.go, cardano.go | none | encode, decode | borders, non-minimal forms, bits left over | decoding inverts encoding |
| Amounts | btcamount.go | none | MarshalJSON, UnmarshalJSON, UnmarshalText | wrap-around of a product | exact or an error |
| EVM calldata | evmabi.go | head and strings of an `AbiBuffer` | EncodeTypes, EncodeAbi, EncodeAuto, Bytes | offsets from heads to strings, calls that fail halfway | a contract reads every parameter that was accepted |
| Block rewards | reward.go | none | reward, cumulative reward | borders of intervals, the clamp | cumulative = sum of the single ones |

`PROJECT.json` lists each with its status, and under "hazards" each place where
this code can go wrong in a way a test would hardly reach, with the property
that covers it.

## 2. The modules

```
BtcSign <-- MCBtcSign, BtcSignProofs       SolanaMessage <-- SolanaTx <-- MCSolanaTx, SolanaTxProofs
                                           SolanaMessage <-- SolanaCompile
EvmTx   <-- MCEvmTx, EvmTxProofs           Ordered <-- SolanaMessage, CardanoTx, SharedLemmas
Approvals <== CardanoTx <-- MCCardanoTx, CardanoTxProofs
Approvals <== TronTx    <-- MCTronTx, TronTxProofs
Lengths <-- BtcWire <-- MCBtcWire, BtcWireProofs
Scripts <-- Addresses <-- MCAddresses
Powers <-- AbiBuffer, Rewards, Lengths, SharedLemmas
AbiBuffer <-- TronTx, Calldata <-- TronTxProofs
PureCall <-- Lengths, Calldata, Amounts, Rewards, CardanoKeys, BtcExtract, TaprootKeys,
            SolanaCompile <-- MCAlgorithms
Lengths, Amounts, TaprootKeys, CardanoKeys, Rewards <-- AlgorithmProofs
SharedLemmas <-- SolanaTxProofs, TronTxProofs, CardanoTxProofs, AlgorithmProofs, BtcWireProofs

    (<-- is extended or instantiated by, <== is implemented by)
```

In all modules hashes are perfect and encodings are injective: a digest is the
record of what was hashed, bytes are the record of what was laid out, and a
signature is the record of who signed which digest.  Where an encoding of this
code is *not* injective, the module says so explicitly (below), and where the
bytes themselves are the subject (BtcWire, Lengths, BtcExtract, AbiBuffer,
CardanoKeys) they are bytes.  Definitions marked `mutant` are plausible bugs; each
property is checked to fail on one, a conjunction on one for each of its parts.

The radix of a byte, the width of a word and the limits of lists are constants.
TLC takes small ones, so that every border is met by some instance; nothing in the
modules depends on the values the code has.

### BtcSign

One `BtcTx` built and signed by one caller.  `prev` is what the chain says the
inputs spend, fixed; `outs`, `script`, `wit` are `tx.Out` and the two halves of
`tx.In[i]`.  A call of `Sign` is the variables `pc`, `args`, `n`, `wtx` (the work
copy), `pre` (BIP-143 parts), `tap` (BIP-341 parts) and `before` (history: the
inputs when the call began).

| action | code |
|---|---|
| AddNetOutput, Prefill | the methods |
| SetScript | the caller storing the scriptPubKey in an input, which bare `p2wsh` reads |
| SignBegin | entry of `BtcTx.Sign`, with any argument vector the constants offer |
| RejectFlagOrScheme | flag test and the default case of the switch |
| SignLegacy, SignP2WPKH, SignP2WSH, SignP2TR | one iteration of the loop, per branch |
| SignFails | the signer or a missing PrevScript ends an iteration, with whatever it had cached by then |
| SignEnd, Return | the end of the loop and of the call |

The correctness criterion `Spends` is written from the consensus rules and from
`prev` alone.  `Owed` is what the caller must pass for it.  The pair
`SignedInputsSpend` / `OnlyOwedInputsSpend` says that `Owed` is exactly the
caller's side of the contract, and it contains two clauses that the
documentation does not mention:

* a legacy input must hold no witness, e.g. from a `Prefill` for another scheme:
  the legacy branch leaves it there;
* the bare scheme `p2wsh` finds the wrapped script in the scriptPubKey stored in
  the input, which the first `Sign` erases (btctx.go:311): signing a second time
  falls back to `p2wsh:p2pkh`.

### SolanaMessage, SolanaCompile, SolanaTx

`SolanaMessage` holds the pure part: grouping and ordering of accounts, header
counts, index compilation, and the tests `UnmarshalBinary` applies.  Account keys
are numbers, ordered as their bytes are.  `Byte` stands for 256, so that the
limits of the `uint8` fields come within reach of small instances.  `Says` is what a
message must mean to the runtime, given the instructions; `SolanaCompile` is one call of
NewSolanaTx on each of many orders.

`SolanaTx` is the object through its life.  `tx` is `[sigs, msg, v0]`, `v0` being
the pointer `MessageV0`; `wire` the bytes at hand; `intent`, `cosigned`, `torn`
history.  `Sign(ks)` does all of `Sign`, including the keys before one that is
refused and the write past a short signature list (a panic).  `Unmarshal(n, obj)`
reads a wire of which `n` sections are complete into `obj`, and leaves the fields
written before the place where reading stopped, as the code does; a non-injective
place is modelled (`ReadsAsOtherVersion`: the first count of a legacy message
shares its byte with the version mark).  Of the bytes that others send nothing is
assumed: the number of signatures and the header agree or not, and `UnmarshalBinary`
does not compare them.

### EvmTx

`tx` has the fields of `EvmTx` (`body` standing for nonce, gas, fee cap,
recipient, value, data; `tip` for GasTipCap, whose presence decides the JSON type; `al`
the access list, `auth` the authorizations).  `letter` is the bytes or the JSON at
hand.  `seal` (who signed which content, for which chain) and `meant` (the chain the
transaction is for) are history.  `AfterSignature` is what `Signature()` writes to
ChainId; `RecoveredOver` the bytes recovery then uses; `V` and `RecoveryId` the
arithmetic of v for EIP-155; `Parsed(old, b)` the reading of bytes over an object that
keeps the fields its type does not write.  EIP-4844 transactions are part of the
model; `SenderIsSigner` and `ReadBackIsSame` except them by name, because the code
gives them no fields (section 6).

### Approvals, CardanoTx

`Approvals` is the abstract promise of a document that several parties approve:
an approval is over the content of its moment, editing does not touch
approvals, a copy is content and approvals, taking a copy back restores both, and
what is refused changes neither.  `CardanoTx` is the code: `SignWith` is a
`SignBegin`, one `SignNext` per signer, and a `SignReturn` or `SignFails`; reading
stops at any of six sections.  `KeepsPromise` is the refinement, under
`content <- bodyMap(tx)`: what must survive a round trip is the *encoding* of the
body, since the object itself comes back with its assets merged and sorted.

### TronTx

`tx` is the `TronTx`; `asked` is history, what the caller asked for and was not
refused.  A protobuf message is its sequence of numbered fields, with zeros left out and
negative numbers as the code writes them; `RawData` is the id.  `Does` is how a node
reads a contract back.  `Recovered` gives the signer of a signature, or over another id a
`Stranger`: recovery answers with a key there too, of which nobody has the private half.
`Built` goes through `AbiBuffer` for the calldata of a token transfer.  The contracts a caller
appends by itself are of types that no method builds: one of a method's type
could be byte for byte what the method appends, and `asked` would name one transaction twice.  The library never reads a Tron
transaction, so Approvals' step of taking a copy back is never taken by this module.

### BtcWire

A step is one call of a `readHelper` inside `BtcTx.ReadFrom` or the `ReadFrom` of an
input or output, over an `io.Reader` that fails after any number of bytes (`cut`).
`h` is the readHelper: how far it has read and the error that sticks.  `Rewrite` writes
what was accepted and reads it again (`prev` is history).  `exportBytes`,
`HasWitness` and the size functions are operators over the same transaction.

### Scripts, Addresses

`Scripts` has every format of format.go as a table of pieces, `Generate` with the cache it
fills as it recurses, `GuessOut`, `Out.Hash` and both functions of btcguess.go.
A script is a sequence of opcode bytes and of blocks of data whose length and origin are
known.  `Addresses` has `Out.Address`, the tables of version bytes and prefixes and all
parsers; its specification is a caller who generates, writes, retypes, receives
and reads addresses in any order, with any parser and any flag.

### The pure algorithms

In these modules the only variable is `call`, the call that is made and its arguments
(`PureCall`), and the properties compare its result with a reference definition.

| module | code | reference definition |
|---|---|---|
| Lengths | BtcVarInt, push opcodes, compact-u16, convertBits | the inverse; for compact-u16 all byte strings; for bits their sequence |
| Calldata, AbiBuffer | AbiBuffer and its Encode methods over several calls | the ABI read by a contract (`Calldata`), with its own table of types and widths: numbers stand to the right of their word, fixed bytes to the left |
| Amounts | BtcAmount as text | the number times ten to the missing decimals, or an error |
| Rewards | reward and cumulative reward of four models | the sum over the blocks |
| CardanoKeys | DeriveChild, DerivePath of private and public keys, digit-wise additions | addition of integers; the public key of the private child |
| BtcExtract | the DER parser, extraction from every form of input, digests, ResolveMultisigPubKey | the spend that was put into the input |
| SolanaCompile | NewSolanaTx | what the header and the indexes mean to the runtime (`Says`) |
| TaprootKeys | TaprootTweak, p2trSign, bip340Sign | BIP-340's verification |

`TaprootKeys` works in a group of small odd order in which every way for points to have
odd y is tried, and `CardanoKeys` over scalars modulo the order of the group with an
arbitrary function for HMAC.

## 3. The runs

No run uses symmetry or a state constraint; every bound is a constant named in
the configuration or in a guard marked `bound`.

| run | instance | states | shows |
|---|---|---|---|
| btcsign_careful | 2 inputs of each pair of 5 kinds, 1 key, 1 output added at any idle moment, flags 0, 1, 65, prefilling for 2 schemes | 299k | `TypeOK`, `SignedInputsSpend`, `RestUntouched` under any mix of failures and repeated calls |
| btcsign_forms | 1 input of each of 10 kinds, 2 keys, 2 amounts, flags 0, 1, 2, 65, 129, 257, each argument right or wrong in one respect | 92k | `SignedInputsSpend`, `OnlyOwedInputsSpend`, `ExtractInvertsSign` |
| solana_life | legacy and v0, 4 accounts of which 2 sign, an order of one account too many, blockhash replaced, key lists with an outsider, foreign wires valid, invalid, with a signature too many or too few, or cut anywhere, reading over objects of the same kind | 101k | `CompiledMeansInstructions`, `VerifyMeansAllSigned`, `CosigningCompletes`, `BytesReadBack`, `PanicsOnlyWhenShort`, `SignKeepsOthers` |
| evm_life | legacy with and without EIP-155, EIP-2930, 1559, 4844, 7702; 2 keys, 2 bodies, chains 0, 1, 2; foreign legacy v 1, 27, 35, 42 | 966k | `SenderIsSigner`, `ReadBackIsSame`, `QueriesAreTransparent` |
| cardano_life | all short asset lists over 2 units with `Top = 4`, 2 signers, at most 3 witnesses, 2 fees, 2 input lists | 122k | `SumsAreTrue`, `AnsweredMeansWitnessed`, `KeepsPromise` |
| tron_life | 2 signers, 2 contracts, 2 signatures, transfers and token transfers with every argument good or bad, amounts at both ends, a contract without an encoding | 252k | `NodeReadsWhatWasAsked`, `SignersMeantThis`, `KeepsPromise` |
| btc_wire | `Byte = 6`, at most 2 inputs, 3 outputs, 3 items and 4 bytes; transactions at and one over each limit, with and without bytes behind; one byte changed anywhere; longer forms of a count; a segwit form where none is needed; each cut anywhere | 256k | `TypeOK`, `OwnBytesRead`, `AcceptedIsInTheBytes`, `RereadIsSame`, `SizeIsVirtualSize`, and `ReadFromReturns` (liveness) |
| addresses | 2 secp256k1 keys and 1 ed25519 key, every format, every flag and every parser, up to 3 cached scripts, foreign texts of every kind with right and wrong lengths | 309k | `CacheIsFresh`, `OwnNetworkReads`, `NobodyElsePaid`, `ReadingIsStable`, `RecognitionAgrees` |
| algorithms | every call of the pure algorithms around every border, for small radixes; all word types of the ABI, with numbers that fit and that do not; Solana orders over up to 5 accounts with 4 indexes, 1 or 2 instructions, all rights | 59k | `EncodingsReadBack`, `CalldataIsRead`, `AmountsAreExact`, `CumulativeIsSum`, `DerivationIsExact`, `ExtractionIsRight`, `KeyPathSpends`, `CompilationIsRight` |

Three more runs end in a counterexample that TLC is expected to find: evm_chain,
solana_short and abi_bytes4, the findings of section 6.  Each checks one claim of a
comment.  Where a weaker claim is true, a run above checks it: `PanicsOnlyWhenShort`
beside `SignStaysInBounds`, and `CalldataIsRead` beside `SupportedTypesAreRead`.

Why the bounds suffice:

* **Bitcoin.** Iterations interact only through the work copy and the two caches,
  and with the inputs before and after: two inputs give every ordered pair of
  branches, including one that fills a cache and one that reuses it.  The theorem
  `SignedInputsCanSpend` removes the bound.  Wrong arguments concern one input
  at a time (only p2tr looks at other inputs' arguments, and btcsign_careful
  covers that), so btcsign_forms has one.
* **Solana.** The compiled form depends on each account's order and rights; three
  accounts beside the payer and the program meet every group of the four, and two
  instructions meet every way in which rights add up.  With `AccountTop = 4` the fifth
  account is the one too many.  What a compiled message goes through afterwards does not
  depend on the rights in it, so solana_life has one order, of an account in each group.  Two signers are enough for any order, a partial
  call and a stale signature beside a fresh one.
* **EVM.** Every branch over v is met: 0/1, 27/28, EIP-155 of chain 0 (35), of the
  chain at hand and of another (42).  Two keys, bodies and chains are what it takes
  for "another".
* **Cardano.** With `Top = 4` amounts 0, 1, 3 overflow on the second or third
  partial sum, and amounts that stay below the top appear in every order.  Three
  witnesses give a stale one, a duplicate, and a fresh one of the other signer.
* **Tron.** Two contracts and two signatures give a contract before, between and after
  signatures; a word of `AbiByte^AbiWord = 16` values puts an amount at and over it.
* **Wire format.** `ReadFrom` handles the elements of a list one after the other and keeps
  nothing of them but the lists and the sticky error; two inputs and three outputs are
  at the limits, and counts of one and of three bytes are both in use.
* **Addresses.** Two keys distinguish "this key" from "another" as a hint.  Every entry of
  every table is reached, since all flags and parsers are tried on all forms.
* **Algorithms.** With `Byte = 5` every count up to past the border of the four-byte form
  is tried, and the last two of the eight-byte form; amounts, heights, scalars and group
  elements are all tried.  Widths (4 digits, 2 of them in the tweak) keep the digits
  that only a carry reaches.

**Deadlock** is checked in every run but two: in btc_wire a reader that has met an
error has returned and nothing follows, and in addresses a caller who holds a text no
parser takes, and that has no other form, is at an end.

**Fairness and liveness.** The library has no scheduler and waits for nothing but an
`io.Reader` and the signers it calls; what happens between calls is up to the caller,
who owes no progress.  So the models of objects state no fairness and claim only safety:
each may stop anywhere.  BtcWire states `WF_vars(ReadFrom)`: while a transaction is being
read, one goroutine runs `ReadFrom`, and every call of the reader answers, with data or
with an error, so its next step is taken.  Under that `ReadFromReturns` says that
the nested loops end whatever the stream holds, also with counts that were read halfway
when the error stuck.  `Rewrite`, which the caller does, has no fairness.

## 4. What is proved

Every theorem holds for all values of the constants that satisfy the module's
assumption, which TLC evaluates in the module's run.  An assumption says what the
constants are: types of what callers offer, `Nil` different from everything it stands
beside, radixes large enough for the forms the code tells apart.

| theorem | statement |
|---|---|
| **BtcSignProofs** | (`BtcSignAssumption`) |
| TypeCorrect | `Spec => []TypeOK` |
| RestIsUntouched | `[]RestUntouched`: a call that stops at input n has left n and all later inputs as they were |
| CachesAreCurrent | `[]CachesCurrent`: the work copy's outputs and the cached parts are what would be computed now |
| SignedInputsCanSpend | `[]SignedInputsSpend`: every input the call has gone past with the right arguments can spend |
| OnlyOwedSpend | `[]OnlyOwedInputsSpend`: the converse: only those |
| ExtractorInverts | `[]ExtractInvertsSign`: the extractor finds the signature and its digest in every input that spends |
| **EvmTxProofs** | (`EvmAssumption`) |
| SenderSafety | `[]SenderIsSigner`, for callers who read over any object |
| QuerySafety | `QueriesAreTransparent` (an action property) |
| ReadBackSafety | `[]ReadBackIsSame`, for `Reuse = "same"` |
| **SolanaTxProofs** | (`SolanaAssumption` and those of SolanaMessage) |
| TypeSafety | `[]TypeOK` |
| MeaningSafety, VerifySafety, CosigningSafety, SignSafety | `[]CompiledMeansInstructions`, `[]VerifyMeansAllSigned`, `[]CosigningCompletes`, `[]PanicsOnlyWhenShort`, for `Reuse # "any"` and foreign bytes with any number of signatures |
| ReadBackSafety | `[]BytesReadBack`, for `Reuse # "any"` and orders of fewer than `Half` signers |
| SignKeeps | `SignKeepsOthers` (an action property), for any reuse |
| **CardanoTxProofs** | (`CardanoAssumption`) |
| WitnessSafety, SumSafety | `[]AnsweredMeansWitnessed`, `[]SumsAreTrue` |
| CardanoKeepsPromise | `Spec => KeepsPromise`: CardanoTx implements Approvals |
| **TronTxProofs** | (`TronAssumption`, `AbiAssumption`; for calldata `CalldataAssumption`) |
| TronKeepsPromise | `Spec => KeepsPromise`: TronTx implements Approvals |
| NodeReads | `[]NodeReadsWhatWasAsked`: the raw data says what was set and asked for, and only that |
| SignersMeant | `[]SignersMeantThis`: a signer is named exactly while the transaction is to do what it was when he signed |
| CalldataReadBack | `[]CalldataIsRead`, for every list of calls on an AbiBuffer, with all types the code takes, that leaves fewer bytes than a word can count |
| **BtcWireProofs** | (`WireAssumption`) |
| WireTypes | `[]TypeOK`: no allocation over a limit, no index outside a list, nothing read behind the failure of the reader |
| OwnBytes | `[]OwnBytesRead`: what was written for a transaction with inputs is read as that transaction, and if it is over a limit or the reader fails before its last byte, there is an error |
| Reread | `[]RereadIsSame`: whatever bytes were accepted, the transaction they gave is the one its own bytes give |
| AcceptedIsRead | `[]AcceptedIsInTheBytes`: the bytes of an accepted transaction are at least those of its own form, and they are that form, but for the flag, if they are no more |
| Sizes | `[]SizeIsVirtualSize`: the estimate for fees is the virtual size of BIP 141 |
| **AlgorithmProofs** | (`TaprootAssumption`, `AmountsAssumption`, `LengthsAssumption`, `CardanoKeysAssumption`, `RewardsAssumption`) |
| TaprootSpends | `[]KeyPathSpends`, in a group of any odd order |
| AmountsExact | `[]AmountsAreExact`, for every width of a word and number of decimals |
| EncodersReadBack | `[]EncodingsReadBack` for every call of BtcVarInt, PushBytes and compact-u16, and of convertBits from any width to a smaller one and back |
| KeysAreExact | `[]DerivationIsExact`, for every radix, number of digits, group order, HMAC and path |
| RewardsAddUp | `[]CumulativeIsSum`, for every reward, interval, number of halvings and width of a height |

Hypotheses on `Reuse` are the ones the runs make: outside them the property is false,
and section 6 names the code that makes it so.

### The arguments

**BtcSign.**  `SignedInputsSpend` alone is not inductive: that the input just
signed spends needs to know that the digest was over the *current* outputs and
the *right* parts, hence `CachesCurrent`; and that a legacy input carries no
witness when it is reached, hence `RestUntouched` (`Owed` speaks of the input as
it was when the call began).  The inductive invariant is

    SignInv == TypeOK /\ RestUntouched /\ CachesCurrent /\ SignedInputsSpend

Its step is split by action: `StepKinds` sorts the actions into those outside a
call, the iterations and the failures; `IterationFrame` says what an iteration
leaves alone, so that the inputs signed earlier go on spending (`SpendsStable`,
`OwedStable`); one lemma per branch (`LegacySpends`, `P2WPKHSpends`,
`P2WSHSpends`, `P2TRSpends`) shows that the input just signed spends.
The delicate point is that signing *normalises* an argument
(SigHash 0 becomes 1) before the digest: `NormalizedArgsFrame` shows that nothing a
later p2tr input reads is changed by that.  btcsign_careful checks all conjuncts but
`CachesCurrent`, of which it checks what a caller sees: parts kept from one call to the next
break `SignedInputsSpend` (`ReturnKept`).  The converse, `OnlyOwedInputsSpend`, is inductive
beside `SignInv`: an input signed with anything not owed has a digest, a key or a script that
the output refuses, and no later iteration mends it.

**EvmTx.**  `EvmInv == TxOK /\ SealOK /\ LetterOK`: whatever is signed, in the object or in
the letter, is `Sealed`: its v and signature are those that the signer's key
gives for the content of then.  That the recovered key is the signer exactly while the
content is the same is then arithmetic on v (`V` and `RecoveryId` undo each other over
all chain ids, EIP-155 and not).  `ReadInv` adds the shapes a letter can have, and
`ParsedWritesBack` shows reading and writing to be inverse for each type.

**SolanaTx.**  What an order becomes is proved first, by itself: `Compiled` orders accounts by
group and key, and a table of positions leads back to every account with exactly its
rights, by induction over instructions and accounts.  Then

    SolanaInv == TypeOK /\ CarryInv /\ BoundInv

carries that through the object's life: the object and the bytes hold the compilation of
their order with the signatures of `cosigned` in their slots.  `BoundInv` says that a
transaction is `Slotted`: it has a slot for each signer its header requires, or as many as
foreign bytes had that were short themselves, unless a read was torn; reading that stops
halfway into a new object keeps that too, since the slots are written first.

**CardanoTx.**  `CardanoInv == TxOK /\ WireOK /\ CallOK /\ AnsweredMeansWitnessed`.  `CallOK`
says that in a call that runs, the digest is still that of the body and each signer asked
for is left or has a witness.  For the round trip: the encoding of the
merged, sorted assets is the encoding that was merged (`bodyMap` is a fixpoint of reading what it wrote),
and the sums are exact, by induction over the list of assets.  Each action is then a step of
Approvals or a stutter.

**TronTx.**  A refused request returns before the contract is appended, and signing appends to
the signatures one over the id of the contracts as they are; with `Shape`, the invariant
that the signature list is a list, each action maps to a step of Approvals.

For what a node reads and whom SignerAddresses names, the invariant is

    TronInv == ContentInv /\ SealInv /\ ReportInv

The contracts are, one by one, what was `Wrote` for `asked`; each signature is over the raw data of
what it was meant for, `LaidFor(seals[i].means)`; an answer is that of the transaction as it
is.  The work is to read a message: `Has(m, n, part)` says that the fields of number n in a
message are those of `part`, in their order, and `FieldAdded` that a field with a higher number
hides none before it, so `SixFields` reads the raw data and `FourFields` a contract.
Where a field may be left out it reads as zero or empty, and a negative number comes back from its
uint64 (`NumberRead`).  `ContentRead` concludes that raw data reads as its content: this
is `NodeReadsWhatWasAsked`, and it makes the raw data injective (`SameContent`), which
is `SignersMeantThis`.  For a transfer of tokens `TokenRead` reads address and amount from
the calldata: an amount of 2^256 or more was refused and not cut.

**AbiBuffer.**  `Holds(b, a)` is the invariant of a buffer b that took the arguments a, over calls
that succeed, fail, or fail halfway (`AppliedHolds`): each head is the word of its
number, or a mark with the string of its argument in its place among the strings.
What is in the words is first shown as the code has it (`Held`: every number to the right, as
far as a word goes).  `HeldIsMeant` then compares it with the ABI's own rules, `Meant`: they
agree for each type whose values fill a word and for narrower numbers that fit, and differ for
`bytes4`, the case that `CalldataIsRead` leaves to the run abi_bytes4.
`LaidOutAll` follows `Bytes`, which places one string after the other: each starts at a
multiple of the word, behind all heads (`PlacedStands`), so its offset is a number that
fits a word if the bytes do; a contract that follows it finds length and content
(`StringSlot`, `BytesRead`).  Numbers are words by repeated division (`WordBytes`, `ValueOf`),
undone by induction over the digits.  The calls are those of `BufferCalls`: any list of type names,
known or not, with any parameters of the kinds the code tells apart.

**BtcWire.**  `WireInv` adds to the types the *place*: while an input, output or item is
read, its index is within the list that was made for its count (`Place`).  It is preserved
since counts are compared with the limits before a list is made, since a list never
changes its length while it is being filled, and since `readFull` never takes more than the
reader gives (`ReadFullType`).  That bytes are bytes (`BytesType`) is needed for
`Rewrite`, and goes through the writer by induction.

For what is read, `ReadInv` adds to `WireInv` one fact about every transaction that
somebody wrote (`wrote`, `prev`): as long as there is no error, the bytes ahead of the reader are
`Unread`, those of the transaction that belong behind this place, and `tx` is as much of it as
was read (`Holds`; an input or output at hand in its `Stage`); once there is an error, the
transaction is over a limit or the reader failed before its end (`Unreadable`).  The operators
`VersionOn`, `InputsOn`, `ItemsOn`... are the layout, read from any place to the end:
`BytesUnread` says that from the first place they are `Bytes`, and one lemma for each loop that
they begin with what is read next.  Below that, `Number` undoes `LittleEndian` for values within the width
(`NumberReadBack`), the first byte of a `VarInt` announces its width (`VarIntShape`), and a read
gets the bytes that come or an error (`FullRead`, `CountRead`, `BufferRead`).  An input
without witnesses beside others that have some, and the two places of the count of inputs, are
cases of the same lemmas.  `WireAssumption` says what a source is: octets, which begin with the bytes of
`wrote`, a `BtcTx` whose fields have the widths of the struct; and that the limits
are positive 64-bit numbers.

For what is *accepted*, whoever wrote the bytes, `BytesInv` adds to `WireInv` what was `Reached`:
the layout again, now from the first byte to the place that is read next, as the transaction read
so far has it.  Without an error, `h.n` is at least its length, and if it is no more, the first `h.n`
bytes of the stream are it (`SoFar`).  Equality alone would not be inductive: a count may come in a
longer form than it needs, and the flag may be any byte, hence the inequality and the exception
for the sixth byte; once more was read than the form needs, nothing is claimed of its bytes, so a
longer form needs nothing after it.  `Flagged` says that the places behind a marker are
gone to only in a segwit form.  Each step adds what it reads (`Follows`): `BytesReadBack` says that
`LittleEndian` undoes `Number`, the converse of what the other direction needs, and `CountFollows`
that a count is either in the form that `VarInt` gives it or in a longer one (`NeededForm`).
That a field which is filled in later changes nothing before it is `InputsStay`, `OutputsStay` and
`WitnessesStay`.

The sizes need no more than `WireInv`: `LengthsAdd` says that a concatenation is as long as its
parts together, `VarIntLength` that a count takes the bytes that `Len` says, and so
`ExportLength` that both forms are as long as `ComputeSize` counts; the rest is rounding (`Quarter`).

**Taproot.**  Let p be the key's point.  `taprootLiftX` and `Evened` both choose from p and -p the one
with even y, so the tweaked scalar is that of the output's point or its negative;
`bip340Sign` evens it and the nonce again, and s = k + e d makes the verifier's equation.
Only p # -p is needed, which an odd order gives.

**Amounts, Lengths.**  `Scaled` multiplies by ten while the product fits the word: it is exact or
refuses at the first step that does not fit, after which no later product would fit
either.  Each count falls into one form, and the first byte of each form announces its
width; compact-u16 is read digit by digit, and canonical because the last digit is not zero.
For convertBits the values are joined into one number (`Joins`, in the proof only: the code
keeps from + to - 1 bits of it).  `Kept` is the invariant of the loop: the groups written are
the highest windows of that number, and the bits kept reach as far as the next value needs
(`GroupsGrow`).  Hence what padding makes is the number moved up to the border of a group
(`PaddedIs`), and what is accepted without padding is a number whose left-over bits are fewer
than a group and zero (`UnpaddedIs`).  Joining is undone by windows (`JoinedDigits`,
`JoinedBack`), so each direction undoes the other.  The theorem speaks of widths
from > to > 0, as in the two calls of the code (8 to 5 and back): with from < to the
zeros of the padding could be read as a further value.

**Cardano keys.**  Two facts carry the theorem.  A carry is handed on and never lost
(`DigitStep`), so the digits of `Carried` are the sum of the terms modulo 2^256
(`CarriedValue`), by induction over the digits.  And the owner adds the tweak to a number where
the wallet adds points, which is the same modulo the order of the group (`PointsAdd`) only
if the sum of numbers did not wrap around at 2^256 first: hence `Room`, of which a step takes
at most one `Tweak`.  `ChildAgrees` is one step, `PathAgrees` the induction over the path,
whose invariant is that the room for the rest of the path is left.  `CardanoKeysAssumption` says of
HMAC only that it answers with digits and a chain code, and that nil is no key.

**Rewards.**  The sum over single blocks is split into intervals: within one, each block pays the same,
so that a whole interval adds its length times its reward (`SameRewards`).  The loops are then
shown to be at the border of an interval after each round (`HalvingCounts`, `DogeCounts`): what
they counted is the sum up to that border, or they have ended and it is the sum up to the block
asked for.  Three things are delicate.  The halving chains' loop halves what it halved before,
and a block's reward divides once by a power of two: `Halved` says that this is the same.  The loop stops at
a reward of zero, and after `Clamp + 1` halvings: in both cases all later blocks pay nothing
(`StaysZero`, and `Base < 2^(Clamp + 1)`).  And doge converts sizes to int64, which is the identity
for heights below half of `HeightTop`, those that the property speaks of.

**Induction.**  The installed provers cannot use the library's induction theorems, which take
an operator.  `SharedLemmas` proves induction for sets from the well-ordering of Nat
(`Induct`), and that steps can be iterated (`Iterated`), so that a recursive
*function* is shown to exist and be computed by its equation.  Definitions to be proved about are therefore recursive
functions over an interval and not folds.

## 5. What is only model-checked, and what is left out

Only model-checked:

* `ReadFromReturns` (liveness is out of the prover's reach);
* `ExtractionIsRight`, a table of forms that TLC enumerates entirely;
* the properties of Addresses: `Generate` is a RECURSIVE operator, which the prover does not take.

A type invariant is stated where it says something a definition does not: in `BtcSign`,
where the theorems rest on it, in `SolanaTxProofs` likewise, and in `BtcWire`, where it says that nothing longer than
the limits is allocated.

Left out:

* **Bitcoin signing**: outpoints, sequences, version and lock time are never written by
  this code and are left out of digests.
* **Bitcoin wire format**: JSON; N, the number of an output, which is not written.
* **Taproot keys**: the field and the hashes; the group is that of scalars.
* **Extraction**: bytes of an item other than its first, except where DER is parsed.
* **Solana**: bytes that end inside a section: they are cut at the borders of the eight
  sections that `SolanaTx` names, and compact-u16 is in Lengths.
* **EVM**: malformed RLP and hex, refused before any field is assigned; unsigned
  authorizations in an EIP-7702 list; JSON read into a used object; edits of the
  Type field; int64 overflow of v for ChainId of 2^62 or more.  (An EIP-2930 transaction is
  written to JSON with a tip of `0x<nil>`, which reading refuses: this is modelled.)
  Reading over an object of *another* type is excluded by `Reuse = "same"`.
* **EVM calldata**: the text of an ABI signature and hexadecimal strings, taken as parsed.
* **Cardano**: CBOR itself (a library); bytes outside the subset that
  MarshalBinary writes (further body keys, tagged sets, empty multiassets, an
  explicit TTL of 0, a false validity flag), which are read but encoded
  differently afterwards; a signer that edits the transaction it is called from.
* **Cardano keys**: signing with an extended key and the PBKDF2 master key, which are curve
  and hash arithmetic without control of their own.
* **Addresses**: checksums and letter cases; a text is what it says once they are right.
* Components with status `not_modelled` in `PROJECT.json`, each with its reason: an
  interface without behaviour, constructors of fixed layouts, a search whose end is plain
  from its loop, and tests.

## 6. Findings

Each is a line of documentation that the code contradicts, with the run whose
counterexample shows it.

| run | where | what |
|---|---|---|
| evm_chain | evmtx.go:265 | an unsigned EIP-155 transaction read from its own bytes loses its chain id, and is then signed without replay protection |
| solana_short | solanatx.go:429 | UnmarshalBinary (502) takes fewer signatures than the header requires, and Sign indexes out of range, which the comment at 853-855 says cannot happen; Verify tests for it (447) |
| abi_bytes4 | evmabi.go:111 | a number for the supported type `bytes4` (99-100) is written to the right of its word, where a contract reads four zeros |

Observations without a run, for whoever maintains the code.  Where a property excepts a
case by name, it is one of these.

*Bitcoin*

* A SigHash wider than a byte (0x101) passes the flag test (btctx.go:113): the signature is
  over a digest no verifier computes, which the comment at 107-109 says is rejected.
  `Owed` asks for less than 256, and `OnlyOwedInputsSpend` shows that the input cannot spend.
* p2pk ignores the fork-id bit that the test lets through: it signs the legacy digest and
  appends 0x41 (btctx.go:119).
* The two undocumented clauses of `Owed` (section 2).
* A transaction without inputs has the bytes of a segwit marker; depending on its first
  output it is refused, or read without an error as another (btctx.go:523).  The flag
  after the marker is not looked at.  UnmarshalBinary ignores bytes that follow.
* `BtcTxInput` has MarshalJSON but no UnmarshalJSON.
* Prefill has no case for p2sh:p2wpkh, and its 64 bytes for p2tr are one short of a
  signature with an explicit flag.
* The extractor takes some inputs of other kinds for one of its own, where the comment at
  btctxparse.go:31-33 says nil: a p2wsh witness of two items whose script starts with a push
  of 2, 3, 4, 6 or 7 bytes (a time lock) passes for p2wpkh (68); a p2sh input of one
  signature and a redeem script passes for p2pkh, the script being the key; a bare
  multisig of one signature gives an error (`Lookalike`).
* A tweak that leads to the point at infinity gives an address of x = 0, while signing
  for it is refused; the chance is that of finding a hash.
* Pushes of 4 GiB or more wrap the length they are written with.

*Solana*

* A legacy transaction read into an object that held a v0 one: MessageV0 stays and
  remains in charge (solanatx.go:526; `Reuse = "any"` shows it).
* 256 accounts that all sign make `uint8(256) = 0` required signatures
  (solanatx.go:247); from 128 signers on, a legacy message reads as a versioned one
  (518); `Hash` of an unsigned transaction that was read back returns 64 zeros
  instead of nil (467); instruction data longer than 65535 panics (872).

*EVM*

* RlpFields of EIP-4844 is nil: its signature commits to none of its fields
  (evmtx.go:135), ParseTransaction refuses its bytes, and its JSON reads as EIP-1559 (668).
* UnmarshalBinary and UnmarshalJSON leave the fields of other types in a used object
  (256, 734): a stale list reaches the JSON of the new type.
* v is computed in int64 and overflows for a ChainId of 2^62 or more (585).
* `EncodeAbi("f()")` without parameters is always an error, though EncodeTypes takes no
  types; smaller integer types are not range-checked, so that a `uint8` may be a word no
  contract accepts; of the integer types between `uint8` and `uint256` only those of a power
  of two up to 64 bits are taken (111); AppendBigInt takes negative numbers down to 1 - 2^256.

*Cardano, Tron*

* Signing a Cardano transaction again after a failure appends second witnesses of
  those who had signed (cardanotx.go:214).
* `CardanoExtendedKey` takes unclamped scalars, for which the addition of a tweak can
  leave 32 bytes.
* A signature made before an edit of a Tron transaction leads SignerAddresses to an
  address nobody holds, without an error (trontx.go:343).

*Scripts and addresses*

* `Generate` returns the slice it caches, and the cache is not synchronised.
* The length of a CashAddr payload is not checked: GuessOut and GuessPubKeyAndHash
  disagree about a p2sh of 32 bytes, and its base58 form is read by no parser.
* GuessOut takes scripts of 22 or 34 bytes that start with 0 for segwit whatever their
  second byte is.  Out.Hash is nil for names with a colon.
* Out.Address appends to the slice its caller passes as flags.
* Bech32 addresses in capitals are refused for Bitcoin.

*Rewards*

* The cumulative reward at height 2^64 - 1 wraps to 0 for halving chains; for doge a
  height of 2^63 or more past the last interval is negative.

## 7. Plan

The modules of the plan are written.  What is left is to prove:

1. `ExtractionIsRight` of BtcExtract, for items and scripts of any length;
2. Addresses, after `Generate` is written without RECURSIVE.
