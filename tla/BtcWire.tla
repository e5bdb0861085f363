------------------------------- MODULE BtcWire -------------------------------
(***************************************************************************)
(* The bytes of a BtcTx (btctx.go) and the reader that turns them back     *)
(* into one, over an io.Reader that may fail anywhere (util.go).  A step   *)
(* is one call of a readHelper in one of the three ReadFrom.               *)
(*                                                                         *)
(* A stream is a sequence of bytes 0..Byte-1.  The reader fails once,      *)
(* after "cut" bytes of it: nothing after that may be taken for data.      *)
(* Output numbers (N) are not written and are left out.                    *)
(***************************************************************************)
EXTENDS Integers, SequencesExt

CONSTANTS
    Byte,     \* 256: values of a byte
    TxidLen,  \* 32: the bytes of a transaction id
    MaxIns,   \* 10000: the most inputs ReadFrom accepts
    MaxOuts,  \* 65536: the most outputs
    MaxItems, \* 10000: the most items of a witness
    MaxBuf,   \* 100000: the longest script or witness item
    Sources,  \* what may be read: [bytes, wrote], wrote being the transaction they are of, or Nil
    Nil       \* no transaction

VARIABLES
    stream, \* the bytes behind the reader
    cut,    \* how many of them it gives before it fails
    wrote,  \* history: the transaction somebody wrote them for, or Nil
    prev,   \* history: the transaction that was read and written again, or Nil
    h,      \* the readHelper: bytes read and the error that sticks
    tx,     \* the BtcTx
    segwit, \* the local variable segwit
    pc,     \* what is read next, or "done"
    i,      \* the input, output or owner of the witness that is read next
    j       \* the item of its witness that is read next

vars == <<stream, cut, wrote, prev, h, tx, segwit, pc, i, j>>

V == INSTANCE Lengths WITH Direct <- 1, Septet <- 4, call <- Nil

Octets == 0..Byte-1
Word32 == 0..V!U32-1
Word64 == 0..V!U64-1

\* What a BtcTx can hold: a length is at most that of a slice.
Slices(S)  == { s \in Seq(S) : Len(s) \in Word64 }
Buffers    == Slices(Octets)
TxInputs   == [txid : { b \in Buffers : Len(b) = TxidLen }, vout : Word32, script : Buffers,
               sequence : Word32, wit : Slices(Buffers)]
TxOutputs  == [amount : Word64, script : Buffers]
BtcTxs     == [version : Word32, ins : Slices(TxInputs), outs : Slices(TxOutputs), locktime : Word32]

-----------------------------------------------------------------------------
(***************************************************************************)
(* Writing.                                                                *)
(***************************************************************************)
LittleEndian(w, v) ==
    LET rest[k \in 0..w] == IF k = 0 THEN v ELSE rest[k - 1] \div Byte
    IN  [k \in 1..w |-> rest[k - 1] % Byte]

\* The number whose last k bytes make n[k].
Number(s) ==
    LET n[k \in 0..Len(s)] == IF k = 0 THEN 0 ELSE n[k - 1] * Byte + s[Len(s) - k + 1]
    IN  n[Len(s)]

Concat(f(_), s) == FlattenSeq([k \in DOMAIN s |-> f(s[k])])

VarInt(v) == Concat(LAMBDA t : LittleEndian(t.width, t.value), V!VarIntBytes(v))
VarBuf(b) == VarInt(Len(b)) \o b

InputBytes(in) ==
    Reverse(in.txid) \o LittleEndian(4, in.vout) \o VarBuf(in.script) \o LittleEndian(4, in.sequence)

OutputBytes(out) == LittleEndian(8, out.amount) \o VarBuf(out.script)

WitnessBytes(in) == VarInt(Len(in.wit)) \o Concat(VarBuf, in.wit)

exportBytes(t, wit) ==
    LittleEndian(4, t.version) \o (IF wit THEN <<0, 1>> ELSE <<>>)
    \o VarInt(Len(t.ins)) \o Concat(InputBytes, t.ins)
    \o VarInt(Len(t.outs)) \o Concat(OutputBytes, t.outs)
    \o (IF wit THEN Concat(WitnessBytes, t.ins) ELSE <<>>)
    \o LittleEndian(4, t.locktime)

\* mutant: only the first input is asked.
HasWitnessFirst(t) == t.ins # <<>> /\ t.ins[1].wit # <<>>

HasWitness(t) == \E k \in DOMAIN t.ins : t.ins[k].wit # <<>>
Bytes(t) == exportBytes(t, HasWitness(t))

ASSUME WireAssumption ==
    /\ Byte \in Nat /\ Byte > 4 /\ TxidLen \in Word64
    /\ \A n \in {MaxIns, MaxOuts, MaxItems, MaxBuf} : n \in Word64 /\ n > 0
    /\ \A s \in Sources :
          /\ s.bytes \in Seq(Octets)
          /\ s.wrote # Nil => s.wrote \in BtcTxs /\ IsPrefix(Bytes(s.wrote), s.bytes)

-----------------------------------------------------------------------------
(***************************************************************************)
(* readHelper.  Each operator takes a helper and returns what was read and *)
(* the helper after that.  A read that falls short leaves the bytes that   *)
(* came in the value, and zeros behind them.                               *)
(***************************************************************************)
Zeros(n) == [k \in 1..n |-> 0]

\* The reader fails at cut, but not a second time.
Reach(r) == IF r.err = "none" THEN cut ELSE Len(stream)

\* mutant: a read that gets some of its bytes is no error.
TakeSome(r, w) ==
    LET n == IF r.n + w <= Reach(r) THEN w ELSE Reach(r) - r.n
    IN  [bytes |-> SubSeq(stream, r.n + 1, r.n + n) \o Zeros(w - n),
         h |-> [n |-> r.n + n, err |-> IF n = 0 THEN "reader" ELSE "none"]]

Take(r, w) ==
    LET n == IF r.n + w <= Reach(r) THEN w ELSE Reach(r) - r.n
    IN  [bytes |-> SubSeq(stream, r.n + 1, r.n + n) \o Zeros(w - n),
         h |-> [n |-> r.n + n, err |-> IF n < w THEN "reader" ELSE "none"]]

\* mutant: an error is kept until the next read that works.
readFullForgetful(r, w) == Take(r, w)

\* After an error nothing is read and everything is zero.
readFull(r, w) == IF r.err # "none" THEN [bytes |-> Zeros(w), h |-> r] ELSE Take(r, w)

readNumber(r, w) == LET got == readFull(r, w) IN [value |-> Number(got.bytes), h |-> got.h]

\* How many bytes the first one says there are behind it, zero if it does not come.
Behind(r) == IF r.n < Reach(r) THEN V!Announced(stream[r.n + 1]) ELSE 0

\* readTo of a BtcVarInt: its first byte and those behind it.
readVarInt(r) ==
    LET w == Behind(r)  got == readFull(r, 1 + w)
    IN  [value |-> Number(IF w = 0 THEN got.bytes ELSE Tail(got.bytes)), h |-> got.h]

readVarBuf(r) ==
    LET ln == readVarInt(r)
    IN  IF ln.value = 0 THEN [bytes |-> <<>>, h |-> ln.h]
        ELSE IF ln.value > MaxBuf THEN [bytes |-> <<>>, h |-> [ln.h EXCEPT !.err = "limit"]]
        ELSE readFull(ln.h, ln.value)

-----------------------------------------------------------------------------
(***************************************************************************)
(* BtcTx.ReadFrom.                                                         *)
(***************************************************************************)
NoInput  == [txid |-> Zeros(TxidLen), vout |-> 0, script |-> <<>>, sequence |-> 0, wit |-> <<>>]
NoOutput == [amount |-> 0, script |-> <<>>]
NoTx == [version |-> 0, ins |-> <<>>, outs |-> <<>>, locktime |-> 0]

Repeat(x, n) == [k \in 1..n |-> x]

GoTo(where, k) == pc' = where /\ i' = k /\ j' = 1

\* The loops: over the inputs, the outputs, and the witnesses with their items.
EnterInputs  == IF Len(tx'.ins) = 0 THEN GoTo("outputs", 1) ELSE GoTo("input", 1)
AfterOutputs == IF segwit /\ tx'.ins # <<>> THEN GoTo("witness", 1) ELSE GoTo("locktime", 1)
EnterOutputs == IF Len(tx'.outs) = 0 THEN AfterOutputs ELSE GoTo("output", 1)
AfterWitness == IF i < Len(tx.ins) THEN GoTo("witness", i + 1) ELSE GoTo("locktime", 1)

\* mutant: an input that could not be read is tried again.
AfterInputRetry ==
    IF h.err # "none" THEN GoTo("input", i)
    ELSE IF i < Len(tx.ins) THEN GoTo("input", i + 1) ELSE GoTo("outputs", 1)

AfterInput == IF i < Len(tx.ins) THEN GoTo("input", i + 1) ELSE GoTo("outputs", 1)

Same == UNCHANGED <<stream, cut, wrote, prev>>

\* h.err(...): the reader's own error gives way to this one.
TooMany(r) == h' = [r EXCEPT !.err = "limit"] /\ GoTo("done", 1) /\ UNCHANGED tx

ReadVersion ==
    /\ pc = "version"
    /\ LET v == readNumber(h, 4) IN tx' = [tx EXCEPT !.version = v.value] /\ h' = v.h
    /\ GoTo("inputs", 1) /\ UNCHANGED segwit /\ Same

\* mutant: one input over the limit is accepted.
MakeInputsLate(cnt) ==
    IF cnt.value > MaxIns + 1 THEN TooMany(cnt.h)
    ELSE tx' = [tx EXCEPT !.ins = Repeat(NoInput, cnt.value)] /\ h' = cnt.h /\ EnterInputs

MakeInputs(cnt) ==
    IF cnt.value > MaxIns THEN TooMany(cnt.h)
    ELSE tx' = [tx EXCEPT !.ins = Repeat(NoInput, cnt.value)] /\ h' = cnt.h /\ EnterInputs

\* A count of zero is the marker of a segwit transaction; the flag behind it is
\* not looked at, and the count is read again.
ReadInputCount ==
    /\ pc = "inputs"
    /\ LET cnt == readVarInt(h)
       IN  IF cnt.value = 0 THEN h' = cnt.h /\ GoTo("flag", 1) /\ UNCHANGED tx ELSE MakeInputs(cnt)
    /\ segwit' = (pc' = "flag") /\ Same

ReadFlag ==
    /\ pc = "flag"
    /\ h' = readFull(h, 1).h /\ GoTo("segwit inputs", 1)
    /\ UNCHANGED <<tx, segwit>> /\ Same

ReadInputCountAgain ==
    /\ pc = "segwit inputs"
    /\ MakeInputs(readVarInt(h))
    /\ UNCHANGED segwit /\ Same

\* BtcTxInput.ReadFrom, field by field.
ReadTxid ==
    /\ pc = "input"
    /\ LET r == readFull(h, TxidLen) IN tx' = [tx EXCEPT !.ins[i].txid = Reverse(r.bytes)] /\ h' = r.h
    /\ GoTo("vout", i) /\ UNCHANGED segwit /\ Same

ReadVout ==
    /\ pc = "vout"
    /\ LET r == readNumber(h, 4) IN tx' = [tx EXCEPT !.ins[i].vout = r.value] /\ h' = r.h
    /\ GoTo("script", i) /\ UNCHANGED segwit /\ Same

ReadScript ==
    /\ pc = "script"
    /\ LET r == readVarBuf(h) IN tx' = [tx EXCEPT !.ins[i].script = r.bytes] /\ h' = r.h
    /\ GoTo("sequence", i) /\ UNCHANGED segwit /\ Same

ReadSequence ==
    /\ pc = "sequence"
    /\ LET r == readNumber(h, 4) IN tx' = [tx EXCEPT !.ins[i].sequence = r.value] /\ h' = r.h
    /\ AfterInput /\ UNCHANGED segwit /\ Same

ReadInput == ReadTxid \/ ReadVout \/ ReadScript \/ ReadSequence

ReadOutputCount ==
    /\ pc = "outputs"
    /\ LET cnt == readVarInt(h)
       IN  IF cnt.value > MaxOuts THEN TooMany(cnt.h)
           ELSE tx' = [tx EXCEPT !.outs = Repeat(NoOutput, cnt.value)] /\ h' = cnt.h /\ EnterOutputs
    /\ UNCHANGED segwit /\ Same

\* BtcTxOutput.ReadFrom.
ReadAmount ==
    /\ pc = "output"
    /\ LET r == readNumber(h, 8) IN tx' = [tx EXCEPT !.outs[i].amount = r.value] /\ h' = r.h
    /\ GoTo("outscript", i) /\ UNCHANGED segwit /\ Same

ReadOutScript ==
    /\ pc = "outscript"
    /\ LET r == readVarBuf(h) IN tx' = [tx EXCEPT !.outs[i].script = r.bytes] /\ h' = r.h
    /\ IF i < Len(tx.outs) THEN GoTo("output", i + 1) ELSE AfterOutputs
    /\ UNCHANGED segwit /\ Same

ReadOutput == ReadAmount \/ ReadOutScript

ReadWitnessCount ==
    /\ pc = "witness"
    /\ LET cnt == readVarInt(h)
       IN  IF cnt.value > MaxItems THEN TooMany(cnt.h)
           ELSE /\ tx' = [tx EXCEPT !.ins[i].wit = Repeat(<<>>, cnt.value)] /\ h' = cnt.h
                /\ IF cnt.value = 0 THEN AfterWitness ELSE GoTo("item", i)
    /\ UNCHANGED segwit /\ Same

ReadItem ==
    /\ pc = "item"
    /\ LET r == readVarBuf(h) IN tx' = [tx EXCEPT !.ins[i].wit[j] = r.bytes] /\ h' = r.h
    /\ IF j < Len(tx.ins[i].wit) THEN pc' = "item" /\ i' = i /\ j' = j + 1 ELSE AfterWitness
    /\ UNCHANGED segwit /\ Same

ReadLocktime ==
    /\ pc = "locktime"
    /\ LET v == readNumber(h, 4) IN tx' = [tx EXCEPT !.locktime = v.value] /\ h' = v.h
    /\ GoTo("done", 1) /\ UNCHANGED segwit /\ Same

ReadFrom == \/ ReadVersion \/ ReadInputCount \/ ReadFlag \/ ReadInputCountAgain \/ ReadInput
            \/ ReadOutputCount \/ ReadOutput \/ ReadWitnessCount \/ ReadItem \/ ReadLocktime

\* What was read without an error is written and read again.
Rewrite ==
    /\ pc = "done" /\ h.err = "none" /\ prev = Nil
    /\ prev' = tx /\ stream' = Bytes(tx) /\ cut' = Len(Bytes(tx)) /\ wrote' = Nil
    /\ h' = [n |-> 0, err |-> "none"] /\ tx' = NoTx /\ segwit' = FALSE /\ GoTo("version", 1)

Init ==
    /\ \E s \in Sources : stream = s.bytes /\ wrote = s.wrote /\ cut \in 0..Len(s.bytes)
    /\ prev = Nil /\ h = [n |-> 0, err |-> "none"] /\ tx = NoTx /\ segwit = FALSE
    /\ pc = "version" /\ i = 1 /\ j = 1

Next == ReadFrom \/ Rewrite

\* One goroutine reads, and waits for nothing but the reader: as long as that
\* answers every call, with data or an error, the next step of ReadFrom is taken.
Spec == Init /\ [][Next]_vars /\ WF_vars(ReadFrom)

-----------------------------------------------------------------------------
(***************************************************************************)
(* Sizes.                                                                  *)
(***************************************************************************)
computeSize(in) == TxidLen + 4 + V!VarIntLen(Len(in.script)) + Len(in.script) + 4
computeOutputSize(out) == 8 + V!VarIntLen(Len(out.script)) + Len(out.script)

\* The sum of the first k numbers is n[k].
Added(ns) ==
    LET n[k \in 0..Len(ns)] == IF k = 0 THEN 0 ELSE n[k - 1] + ns[k]
    IN  n[Len(ns)]

Total(f(_), s) == Added([k \in DOMAIN s |-> f(s[k])])

bufSize(b) == V!VarIntLen(Len(b)) + Len(b)

computeWitnessSize(in) == V!VarIntLen(Len(in.wit)) + Total(bufSize, in.wit)

BaseSize(t) ==
    4 + V!VarIntLen(Len(t.ins)) + V!VarIntLen(Len(t.outs)) + 4
    + Total(computeSize, t.ins) + Total(computeOutputSize, t.outs)

\* mutant: marker and flag are forgotten.
WitnessSizeBare(t) == Total(computeWitnessSize, t.ins)

WitnessSize(t) == Total(computeWitnessSize, t.ins) + 2

ComputeSize(t) ==
    IF ~ HasWitness(t) THEN BaseSize(t)
    ELSE BaseSize(t) + WitnessSize(t) \div 4 + (IF WitnessSize(t) % 4 = 0 THEN 0 ELSE 1)

-----------------------------------------------------------------------------
(***************************************************************************)
(* Properties.                                                             *)
(***************************************************************************)
\* A transaction ReadFrom accepts: its lists and buffers are no longer than that.
WithinLimits(t) ==
    /\ Len(t.ins) <= MaxIns /\ Len(t.outs) <= MaxOuts
    /\ \A k \in DOMAIN t.outs : Len(t.outs[k].script) <= MaxBuf
    /\ \A k \in DOMAIN t.ins :
          /\ Len(t.ins[k].script) <= MaxBuf /\ Len(t.ins[k].wit) <= MaxItems
          /\ \A w \in DOMAIN t.ins[k].wit : Len(t.ins[k].wit[w]) <= MaxBuf

Accepted == pc = "done" /\ h.err = "none"

\* Whatever the stream, nothing longer than the limits is ever allocated
\* (btctx.go:531, 541, 553; util.go:89).
TypeOK ==
    /\ WithinLimits(tx) /\ h.n \in 0..cut /\ h.err \in {"none", "reader", "limit"}
    /\ segwit \in BOOLEAN /\ i \in 1..MaxIns+MaxOuts /\ j \in 1..MaxItems
    /\ pc \in {"version", "inputs", "flag", "segwit inputs", "input", "vout", "script",
               "sequence", "outputs", "output", "outscript", "witness", "item", "locktime", "done"}

\* What was written for a transaction with inputs is read as that transaction, and
\* nothing behind it is touched; if it is over a limit or the reader fails before
\* its last byte, there is an error: no shorter transaction is made of what
\* came before (util.go:58, 70).
OwnBytesRead ==
    pc = "done" /\ wrote # Nil /\ wrote.ins # <<>> =>
        IF WithinLimits(wrote) /\ cut >= Len(Bytes(wrote))
        THEN h.err = "none" /\ tx = wrote /\ h.n = Len(Bytes(wrote))
        ELSE h.err # "none"

\* A transaction is at least as long as its own form, and if it was no longer, it
\* was that form, but for the segwit flag: nothing is read that the stream did not
\* say (btctx.go:523).
AcceptedIsInTheBytes ==
    Accepted =>
        LET own == exportBytes(tx, segwit)
        IN  /\ h.n >= Len(own)
            /\ h.n = Len(own) =>
                  \A k \in 1..h.n : stream[k] = own[k] \/ (segwit /\ k = 6)

\* Whatever bytes were accepted, the transaction they gave, if it has an input,
\* is the one that its own bytes give (btctx.go:476, 511).
RereadIsSame ==
    pc = "done" /\ prev # Nil /\ prev.ins # <<>> =>
        h.err = "none" /\ tx = prev /\ h.n = Len(stream)

\* The estimate that fees are computed from is the virtual size of BIP 141: a
\* quarter of three times the bytes without witnesses and once all, rounded up
\* (btctx.go:446).
SizeIsVirtualSize ==
    Accepted =>
        LET weight == 3 * Len(exportBytes(tx, FALSE)) + Len(Bytes(tx))
        IN  ComputeSize(tx) = (weight + 3) \div 4

\* ReadFrom returns, whatever it reads: also when an error leaves counts that
\* were read halfway behind (btctx.go:517, util.go:81).
ReadFromReturns == (pc # "done") ~> (pc = "done")
=============================================================================
