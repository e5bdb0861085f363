------------------------------ MODULE AbiBuffer ------------------------------
(***************************************************************************)
(* The builder of EVM calldata (evmabi.go).  A buffer is a head, one word  *)
(* per parameter, and the byte strings that Bytes() lays out behind it,    *)
(* patching the word of each with the offset where it landed.              *)
(*                                                                         *)
(* A buffer is used over several calls, each of which may fail after it    *)
(* has appended some of its parameters: those stay.                        *)
(***************************************************************************)
EXTENDS Powers, SequencesExt

CONSTANTS
    AbiByte,    \* 256: the values of a byte
    AbiWord,    \* 32: bytes in a word
    AbiAddress  \* 20: bytes in an address

ASSUME AbiAssumption ==
    /\ AbiByte \in Nat \ {0, 1}
    /\ AbiWord \in Nat \ {0}
    /\ AbiAddress \in 1..AbiWord

Limit == Power(AbiByte, AbiWord)      \* big2pow32, 2^256

\* mutant: the narrower types are missing.
UintTypesFew == {"uint", "uint256", "bytes4"}

\* The types of which the code writes a number into a word, to the right.
UintTypes  == {"uint", "uint8", "uint16", "uint32", "uint64", "uint256", "bytes4", "bytes32"}
BytesTypes == {"bytes", "string"}

-----------------------------------------------------------------------------
(***************************************************************************)
(* Words.                                                                  *)
(***************************************************************************)
\* FillBytes: big endian, zeros in front.
WordBytes(v) == [i \in 1..AbiWord |-> (v \div Power(AbiByte, AbiWord - i)) % AbiByte]

ValueOf(bytes) ==
    LET n[k \in 0..Len(bytes)] == IF k = 0 THEN 0 ELSE n[k - 1] * AbiByte + bytes[k]
    IN  n[Len(bytes)]

\* The word at an offset.
Word(bytes, at) == ValueOf(SubSeq(bytes, at + 1, at + AbiWord))

Zeros(n) == [i \in 1..n |-> 0]

-----------------------------------------------------------------------------
(***************************************************************************)
(* The buffer.  ok is FALSE from the first error of the call that runs.    *)
(***************************************************************************)
NewAbiBuffer(bytes) == [buf |-> bytes, str |-> <<>>, ok |-> TRUE]

Failed(b) == [b EXCEPT !.ok = FALSE]

\* A negative value is written as 2^256 + v, unless that is not positive.
AppendBigInt(b, v) ==
    LET word == IF v < 0 THEN Limit + v ELSE v
    IN  IF (v < 0 /\ word <= 0) \/ word >= Limit THEN Failed(b)
        ELSE [b EXCEPT !.buf = @ \o WordBytes(word)]

AppendBytes(b, data) ==
    [b EXCEPT !.buf = @ \o Zeros(AbiWord),
              !.str = Append(@, [offset |-> Len(b.buf), data |-> WordBytes(Len(data)) \o data])]

\* The caller's Go types: int, bool and *big.Int are "int"; a text may decode as
\* hex, to the bytes in hex; an *Out has the bytes of its address.
AppendUint256Any(b, p) == IF p.kind = "int" THEN AppendBigInt(b, p.n) ELSE Failed(b)

appendAddressBytes(b, addr) ==
    IF Len(addr) = AbiAddress THEN AppendBigInt(b, ValueOf(addr)) ELSE Failed(b)

AppendAddressAny(b, p) ==
    CASE p.kind \in {"bytes", "eth out"}   -> appendAddressBytes(b, p.v)
      [] p.kind = "text" /\ p.hex # <<>>   -> appendAddressBytes(b, p.hex)
      [] OTHER                             -> Failed(b)

AppendBufferAny(b, p) == IF p.kind \in {"bytes", "text"} THEN AppendBytes(b, p.v) ELSE Failed(b)

AppendTyped(b, t, p) ==
    CASE t \in UintTypes  -> AppendUint256Any(b, p)
      [] t = "address"    -> AppendAddressAny(b, p)
      [] t \in BytesTypes -> AppendBufferAny(b, p)
      [] OTHER            -> Failed(b)

\* The order of the parameters is the order of the words; an error ends the call.
EncodeTypes(b, types, params) ==
    IF Len(types) # Len(params) THEN Failed(b)
    ELSE LET then(c, n) == IF c.ok THEN AppendTyped(c, types[n], params[n]) ELSE c
             after[n \in 0..Len(types)] ==
                 IF n = 0 THEN [b EXCEPT !.ok = TRUE] ELSE then(after[n - 1], n)
         IN  after[Len(types)]

AppendAuto(b, p) ==
    CASE p.kind = "int"               -> AppendBigInt(b, p.n)
      [] p.kind \in {"bytes", "text"} -> AppendBytes(b, p.v)
      [] p.kind = "eth out"           -> AppendBigInt(b, ValueOf(p.v))
      [] OTHER                        -> Failed(b)

EncodeAuto(b, params) ==
    LET then(c, n) == IF c.ok THEN AppendAuto(c, params[n]) ELSE c
        after[n \in 0..Len(params)] ==
            IF n = 0 THEN [b EXCEPT !.ok = TRUE] ELSE then(after[n - 1], n)
    IN  after[Len(params)]

\* strings.Split of an empty list gives one empty type.
EncodeAbi(b, types, params) ==
    EncodeTypes(b, IF types = <<>> THEN <<"">> ELSE types, params)

Padding(n) == Zeros((AbiWord - (n % AbiWord)) % AbiWord)

\* mutant: strings are not padded.
PlacedTight(res, s) ==
    LET out == res \o s.data
    IN  [i \in DOMAIN out |-> IF i \in (s.offset + 1)..(s.offset + AbiWord)
                              THEN WordBytes(Len(res))[i - s.offset] ELSE out[i]]

\* One iteration of Bytes().
Placed(res, s) ==
    LET out == res \o s.data \o Padding(Len(s.data))
    IN  [i \in DOMAIN out |-> IF i \in (s.offset + 1)..(s.offset + AbiWord)
                              THEN WordBytes(Len(res))[i - s.offset] ELSE out[i]]

Bytes(b) ==
    LET res[k \in 0..Len(b.str)] == IF k = 0 THEN b.buf ELSE Placed(res[k - 1], b.str[k])
    IN  res[Len(b.str)]

EvmCall(method, types, params) ==
    LET b == EncodeAbi(NewAbiBuffer(<<>>), types, params)
    IN  IF b.ok THEN [selector |-> method, args |-> Bytes(b)] ELSE <<>>

=============================================================================
