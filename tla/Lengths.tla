------------------------------- MODULE Lengths -------------------------------
(***************************************************************************)
(* The ways in which this library writes a length: BtcVarInt               *)
(* (btcvarint.go), the opcodes of a script push (pushbytes.go), Solana's   *)
(* compact-u16 (solanatx.go) and the regrouping of bits for Bech32         *)
(* (cardano.go), each with its reader.                                     *)
(*                                                                         *)
(* The radixes are constants, so that every border between two forms comes *)
(* within reach.  A fixed-width number is a token [width, value]; what     *)
(* reading makes of too few bytes is an error, written Nil.                *)
(***************************************************************************)
EXTENDS PureCall, Powers, SequencesExt

CONSTANTS
    Byte,    \* 256: values of a byte
    Direct,  \* 75: the longest push whose opcode is its length
    Septet,  \* 128: values of the seven bits of a byte of compact-u16
    Nil      \* an error

ASSUME LengthsAssumption ==
    /\ Byte \in Nat /\ Byte > 4
    /\ Direct \in Nat /\ Direct + 3 < Byte
    /\ Septet \in Nat /\ Septet > 3
    /\ Nil \notin [value : Nat, n : Nat] \cup [data : Nat, n : Nat]

U16 == Byte * Byte
U32 == U16 * U16
U64 == U32 * U32

-----------------------------------------------------------------------------
(***************************************************************************)
(* BtcVarInt.                                                              *)
(***************************************************************************)
Fixed(w, v) == [width |-> w, value |-> v]

\* mutant: 0xfd is written as it is.
VarIntBytesLate(v) ==
    CASE v <= Byte - 3 -> <<Fixed(1, v)>>
      [] v > Byte - 3 /\ v < U16 -> <<Fixed(1, Byte - 3), Fixed(2, v)>>
      [] v >= U16 /\ v < U32 -> <<Fixed(1, Byte - 2), Fixed(4, v)>>
      [] OTHER -> <<Fixed(1, Byte - 1), Fixed(8, v)>>

\* 0xfc is Byte - 4; the three values above it say how many bytes follow.
VarIntBytes(v) ==
    CASE v <= Byte - 4 -> <<Fixed(1, v)>>
      [] v > Byte - 4 /\ v < U16 -> <<Fixed(1, Byte - 3), Fixed(2, v)>>
      [] v >= U16 /\ v < U32 -> <<Fixed(1, Byte - 2), Fixed(4, v)>>
      [] OTHER -> <<Fixed(1, Byte - 1), Fixed(8, v)>>

VarIntLen(v) ==
    CASE v <= Byte - 4 -> 1
      [] v > Byte - 4 /\ v < U16 -> 3
      [] v >= U16 /\ v < U32 -> 5
      [] OTHER -> 9

\* The width a first byte announces; 0 if it is the value itself.
Announced(t) ==
    CASE t = Byte - 3 -> 2 [] t = Byte - 2 -> 4 [] t = Byte - 1 -> 8 [] OTHER -> 0

\* Longer forms than needed are read too.
VarIntRead(s) ==
    LET w == Announced(s[1].value)
    IN  IF w = 0 THEN [value |-> s[1].value, n |-> 1]
        ELSE IF Len(s) < 2 \/ s[2].width # w THEN Nil
        ELSE [value |-> s[2].value, n |-> 1 + w]

-----------------------------------------------------------------------------
(***************************************************************************)
(* Script pushes.  Data is known by its length: [op, length, data] is an   *)
(* opcode, the length that follows it (0 if none) and how many bytes there *)
(* are behind.                                                             *)
(***************************************************************************)
\* mutant: the one-byte length is tried up to 256.
PushBytesLate(n) ==
    CASE n <= Direct -> [op |-> n, length |-> 0, data |-> n]
      [] n > Direct /\ n <= Byte -> [op |-> Direct + 1, length |-> n % Byte, data |-> n]
      [] n > Byte /\ n < U16 -> [op |-> Direct + 2, length |-> n % U16, data |-> n]
      [] OTHER -> [op |-> Direct + 3, length |-> n % U32, data |-> n]

PushBytes(n) ==
    CASE n <= Direct -> [op |-> n, length |-> 0, data |-> n]
      [] n > Direct /\ n < Byte -> [op |-> Direct + 1, length |-> n % Byte, data |-> n]
      [] n >= Byte /\ n < U16 -> [op |-> Direct + 2, length |-> n % U16, data |-> n]
      [] OTHER -> [op |-> Direct + 3, length |-> n % U32, data |-> n]

\* The bytes an opcode and its length take.
PushHeader(op) ==
    CASE op <= Direct -> 1 [] op = Direct + 1 -> 2 [] op = Direct + 2 -> 3 [] OTHER -> 5

\* What is pushed and how many bytes that took; Nil stands for (nil, 0).
ParsePushBytes(p) ==
    LET n == IF p.op <= Direct THEN p.op ELSE p.length
    IN  IF p.op > Direct + 3 \/ p.data < n THEN Nil
        ELSE [data |-> n, n |-> PushHeader(p.op) + n]

-----------------------------------------------------------------------------
(***************************************************************************)
(* compact-u16: seven bits per byte, the lowest first; the highest bit of  *)
(* a byte (Septet) says that another follows.                              *)
(***************************************************************************)
CompactTop == 4 * Septet * Septet   \* 0x10000

EncodeCompactU16(v) ==
    CASE v < Septet -> <<v>>
      [] v >= Septet /\ v < Septet * Septet -> <<Septet + (v % Septet), v \div Septet>>
      [] OTHER -> <<Septet + (v % Septet), Septet + ((v \div Septet) % Septet),
                    v \div (Septet * Septet)>>

\* mutant: a third byte of zero is accepted.
DecodeCompactU16Padded(s) ==
    CASE s = <<>> -> Nil
      [] Len(s) >= 1 /\ s[1] < Septet -> [value |-> s[1], n |-> 1]
      [] Len(s) >= 2 /\ s[1] >= Septet /\ s[2] \in 1..Septet-1 ->
            [value |-> s[1] - Septet + s[2] * Septet, n |-> 2]
      [] Len(s) >= 3 /\ s[1] >= Septet /\ s[2] >= Septet /\ s[3] \in 0..3 ->
            [value |-> s[1] - Septet + (s[2] - Septet) * Septet + s[3] * Septet * Septet, n |-> 3]
      [] OTHER -> Nil

\* A last byte of 0 is refused, unless it is the only one.
DecodeCompactU16(s) ==
    CASE s = <<>> -> Nil
      [] Len(s) >= 1 /\ s[1] < Septet -> [value |-> s[1], n |-> 1]
      [] Len(s) >= 2 /\ s[1] >= Septet /\ s[2] \in 1..Septet-1 ->
            [value |-> s[1] - Septet + s[2] * Septet, n |-> 2]
      [] Len(s) >= 3 /\ s[1] >= Septet /\ s[2] >= Septet /\ s[3] \in 1..3 ->
            [value |-> s[1] - Septet + (s[2] - Septet) * Septet + s[3] * Septet * Septet, n |-> 3]
      [] OTHER -> Nil

-----------------------------------------------------------------------------
(***************************************************************************)
(* Bits regrouped from one width to another.                               *)
(***************************************************************************)
\* Groups of width "to" leave the accumulator, the highest first, while there are bits
\* for one.
Groups(acc, bits, to) ==
    [k \in 1..bits \div to |-> (acc \div Power(2, bits - k * to)) % Power(2, to)]

\* A value enters the accumulator, which keeps from + to - 1 bits.
Regroup(st, v, from, to) ==
    LET acc  == (st.acc * Power(2, from) + v) % Power(2, from + to - 1)
        bits == st.bits + from
    IN  [acc |-> acc, bits |-> bits % to, out |-> st.out \o Groups(acc, bits, to)]

\* The accumulator after all values.
Regrouped(data, from, to) ==
    LET st[n \in 0..Len(data)] ==
            IF n = 0 THEN [acc |-> 0, bits |-> 0, out |-> <<>>] ELSE Regroup(st[n - 1], data[n], from, to)
    IN  st[Len(data)]

\* The bits that are left, moved to the top of a group.
Rest(st, to) == (st.acc * Power(2, to - st.bits)) % Power(2, to)

\* mutant: bits that are left over are dropped without a look.
ConvertBitsLoose(data, from, to, pad) ==
    LET st == Regrouped(data, from, to)
    IN  IF \E i \in DOMAIN data : data[i] >= Power(2, from) THEN Nil
        ELSE IF pad /\ st.bits > 0 THEN Append(st.out, Rest(st, to)) ELSE st.out

\* A value of more than "from" bits is an error.
ConvertBits(data, from, to, pad) ==
    LET st == Regrouped(data, from, to)
    IN  IF \E i \in DOMAIN data : data[i] >= Power(2, from) THEN Nil
        ELSE IF pad THEN IF st.bits > 0 THEN Append(st.out, Rest(st, to)) ELSE st.out
        ELSE IF st.bits >= from \/ Rest(st, to) # 0 THEN Nil ELSE st.out

-----------------------------------------------------------------------------
(***************************************************************************)
(* Properties.                                                             *)
(***************************************************************************)
Widths(s) == s[1].width + IF Len(s) = 2 THEN s[2].width ELSE 0

\* A number is read back from its own bytes, whatever token follows, which are as
\* many as Len says, and a longer form reads as the same number; at the
\* borders of every form (btcvarint.go:14, 28, 42).
VarIntsReadBack ==
    Called("BtcVarInt") =>
        LET s == VarIntBytes(call.v)
        IN  /\ VarIntRead(Append(s, Fixed(2, 0))) = [value |-> call.v, n |-> VarIntLen(call.v)]
            /\ Widths(s) = VarIntLen(call.v)
            /\ \A w \in {2, 4, 8} :
                  VarIntRead(<<Fixed(1, CASE w = 2 -> Byte - 3 [] w = 4 -> Byte - 2 [] w = 8 -> Byte - 1),
                               Fixed(w, call.v)>>).value = call.v

\* A push is parsed back with nothing left over, bytes that follow are left alone,
\* and a push that lacks its last byte is an error; up to the 4 GiB that the longest
\* form can say (pushbytes.go:30, 53).
PushesReadBack ==
    Called("PushBytes") /\ call.v < U32 =>
        LET p == PushBytes(call.v)
            n == PushHeader(p.op) + call.v
        IN  /\ \A more \in {0, 1, Byte} :
                  ParsePushBytes([p EXCEPT !.data = @ + more]) = [data |-> call.v, n |-> n]
            /\ call.v > 0 => ParsePushBytes([p EXCEPT !.data = @ - 1]) = Nil

\* Of all strings of bytes, compact-u16 accepts for a number exactly the one it
\* writes, whatever follows: two messages never differ in the form of a length
\* alone (solanatx.go:871, 886).
CompactIsCanonical ==
    Called("compact-u16") =>
        LET d == DecodeCompactU16(call.bytes)
        IN  IF d # Nil THEN /\ d.value < CompactTop
                            /\ EncodeCompactU16(d.value) = SubSeq(call.bytes, 1, d.n)
            ELSE \A v \in 0..CompactTop-1 : ~ IsPrefix(EncodeCompactU16(v), call.bytes)

\* The bits of groups of width w, the highest first.
Bits(data, w) ==
    [j \in 1..Len(data) * w |->
        (data[(j - 1) \div w + 1] \div Power(2, w - 1 - ((j - 1) % w))) % 2]

\* Regrouping keeps the bits in their order.  With padding it adds fewer than a
\* group of zeros; without, it accepts exactly what padding would have produced
\* (cardano.go:209): bytes are read back as they were and no other text is read.
RegroupingKeepsBits ==
    Called("convertBits") =>
        LET from == call.from  to == call.to
            up   == ConvertBits(call.data, from, to, TRUE)
            down == ConvertBits(call.data, to, from, FALSE)
        IN  /\ (\A i \in DOMAIN call.data : call.data[i] < Power(2, from)) =>
                  /\ IsPrefix(Bits(call.data, from), Bits(up, to))
                  /\ Len(up) * to - Len(call.data) * from \in 0..to-1
                  /\ ConvertBits(up, to, from, FALSE) = call.data
            /\ down # Nil => ConvertBits(down, from, to, TRUE) = call.data

\* Every encoder has its inverse: counts, pushes, compact-u16 and regrouped bits
\* (btcvarint.go:14, pushbytes.go:30, solanatx.go:871, cardano.go:209).
EncodingsReadBack ==
    /\ VarIntsReadBack
    /\ PushesReadBack
    /\ CompactIsCanonical
    /\ RegroupingKeepsBits
=============================================================================
