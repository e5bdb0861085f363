------------------------------- MODULE Calldata -------------------------------
(***************************************************************************)
(* What a contract must find in the bytes an AbiBuffer gives out after any *)
(* calls on it (evmabi.go), those that failed included.                    *)
(***************************************************************************)
EXTENDS PureCall, AbiBuffer

CONSTANT AbiWidths  \* bytes of a value: uint8 1, ..., uint64 8, bytes4 4, the others 32

\* The types of the ABI that take one word, by where a value stands in it: numbers
\* to the right, bytes to the left.
NumberTypes == {"uint", "uint8", "uint16", "uint32", "uint64", "uint256"}
FixedBytes  == {"bytes4", "bytes32"}

ASSUME CalldataAssumption ==
    /\ AbiWidths \in [NumberTypes \cup FixedBytes -> 1..AbiWord]
    /\ \A t \in {"uint", "uint256", "bytes32"} : AbiWidths[t] = AbiWord

\* One call of the caller: EncodeTypes, EncodeAbi or EncodeAuto.
Applied(b, c) ==
    CASE c.how = "types" -> EncodeTypes(b, c.types, c.params)
      [] c.how = "abi"   -> EncodeAbi(b, c.types, c.params)
      [] c.how = "auto"  -> EncodeAuto(b, c.params)

Result(calls) ==
    LET after[k \in 0..Len(calls)] ==
            IF k = 0 THEN NewAbiBuffer(<<>>) ELSE Applied(after[k - 1], calls[k])
    IN  after[Len(calls)]

-----------------------------------------------------------------------------
(***************************************************************************)
(* The ABI, written from its rules.                                        *)
(***************************************************************************)
\* The type that a Go value stands for when none is named.
AutoType(p) == CASE p.kind = "int" -> "uint256"
                 [] p.kind \in {"bytes", "text"} -> "bytes"
                 [] p.kind = "eth out" -> "address"
                 [] OTHER -> "none"

Typed(c) == [n \in DOMAIN c.params |->
                [type  |-> IF c.how = "auto" THEN AutoType(c.params[n]) ELSE c.types[n],
                 param |-> c.params[n]]]

\* What the caller may pass: no number is compared with the width of its type
\* ("absolutely no check", evmabi.go:257), only with that of a word.
Suits(a) ==
    \/ /\ a.type \in NumberTypes \cup FixedBytes /\ a.param.kind = "int"
       /\ a.param.n \in 1-Limit..Limit-1
    \/ /\ a.type = "address" /\ a.param.kind \in {"bytes", "eth out"}
       /\ Len(a.param.v) = AbiAddress
    \/ /\ a.type = "address" /\ a.param.kind = "text" /\ Len(a.param.hex) = AbiAddress
    \/ a.type \in BytesTypes /\ a.param.kind \in {"bytes", "text"}

\* The arguments one call leaves in the buffer: those before the first that does not suit.
Taken(c) ==
    IF c.how # "auto" /\ Len(c.types) # Len(c.params) THEN <<>>
    ELSE LET good == { n \in 0..Len(c.params) : \A i \in 1..n : Suits(Typed(c)[i]) }
         IN  SubSeq(Typed(c), 1, Max(good))

Arguments(calls) ==
    LET taken[k \in 0..Len(calls)] == IF k = 0 THEN <<>> ELSE taken[k - 1] \o Taken(calls[k])
    IN  taken[Len(calls)]

Narrow(type) == type \in NumberTypes \cup FixedBytes /\ AbiWidths[type] < AbiWord

\* The argument is a value of its type; in a whole word a negative number is its
\* two's complement.
Fits(a) == Narrow(a.type) => a.param.n \in 0..Power(AbiByte, AbiWidths[a.type]) - 1

\* A word stands for itself; bytes are behind the offset their word holds.
Read(bytes, n, type) ==
    LET head == Word(bytes, (n - 1) * AbiWord)
    IN  IF type \in BytesTypes
        THEN SubSeq(bytes, head + AbiWord + 1, head + AbiWord + Word(bytes, head))
        ELSE head

\* The bytes of a string, or the number in the word of a value.
Meant(a) ==
    CASE a.type \in BytesTypes -> a.param.v
      [] a.type \in NumberTypes -> a.param.n % Limit
      [] a.type \in FixedBytes ->
            (a.param.n % Limit) * Power(AbiByte, AbiWord - AbiWidths[a.type])
      [] OTHER -> ValueOf(IF a.param.kind = "text" THEN a.param.hex ELSE a.param.v)

-----------------------------------------------------------------------------
(***************************************************************************)
(* Properties.                                                             *)
(***************************************************************************)
\* "Supported types are "uint", "uint8"..."uint256", "bytes4", "bytes32", ..."
\* (evmabi.go:100): a contract reads the value of each argument that is one of its
\* type.  The code breaks this for bytes4, which it writes like a number, to the
\* right (evmabi.go:111).
SupportedTypesAreRead ==
    Called("AbiBuffer") =>
        LET b == Result(call.calls)
            a == Arguments(call.calls)
        IN  \A n \in DOMAIN a : Fits(a[n]) => Read(Bytes(b), n, a[n].type) = Meant(a[n])

\* A contract finds each argument in its place, whatever strings come before or
\* after it and whichever call failed between: an argument that is refused leaves
\* neither a word nor a string without a word (evmabi.go:110, 154, 232).  It reads
\* the value of those that fit their type, but for bytes that do not fill a word
\* (SupportedTypesAreRead); these, and numbers too wide, take up their word.
CalldataIsRead ==
    Called("AbiBuffer") =>
        LET b == Result(call.calls)
            a == Arguments(call.calls)
        IN  /\ Len(b.buf) = AbiWord * Len(a)
            /\ \A n \in DOMAIN a :
                  Fits(a[n]) /\ ~ (Narrow(a[n].type) /\ a[n].type \in FixedBytes)
                  => Read(Bytes(b), n, a[n].type) = Meant(a[n])
            /\ Len(Bytes(b)) % AbiWord = 0
=============================================================================
