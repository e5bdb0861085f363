------------------------------ MODULE SolanaTx ------------------------------
(***************************************************************************)
(* A SolanaTx through its life (solanatx.go): compiled from instructions,  *)
(* signed by one key holder after another, marshalled and read back        *)
(* between two of them, into a new object or into the one at hand, from    *)
(* whole bytes or from bytes that end too early.                           *)
(*                                                                         *)
(* Bytes are their content: a wire is what MarshalBinary laid out, section *)
(* by section, and a signature is the record of who signed which message.  *)
(* intent, cosigned and torn are history: what the transaction was         *)
(* compiled from, the keys that signed the message since it last changed,  *)
(* and whether reading failed on an object that had been used before.      *)
(***************************************************************************)
EXTENDS SolanaMessage

CONSTANTS
    Orders,    \* what may be compiled: records [payer, ixs, lookups, v0]
    Hashes,    \* blockhashes the caller may set; "h0" is compiled in
    KeyLists,  \* arguments of Sign: sequences of keys
    Foreign,   \* wires another implementation may send
    Cuts,      \* where read bytes may end: the sections that are complete
    Reuse,     \* "never", "same" or "any": objects a wire is read into
    Nil        \* a nil slice or pointer

VARIABLES
    tx,        \* the SolanaTx: [sigs, msg, v0]
    wire,      \* the bytes at hand
    intent,    \* history: the order tx was compiled from
    cosigned,  \* history: the keys that signed what tx holds now
    torn,      \* history: tx was used before reading into it failed
    out        \* the last call and its result

vars == <<tx, wire, intent, cosigned, torn, out>>

Half == Byte \div 2  \* 0x80, the bit that marks a versioned message
Whole == 8           \* every section is present

Fresh == [sigs |-> <<>>, msg |-> EmptyMessage, v0 |-> Nil]

\* messageHeader, messageAccountKeys: MessageV0 wins when it is there.
Active(t) == IF t.v0 # Nil THEN t.v0 ELSE t.msg

MessageBytes(t) == [v0 |-> t.v0 # Nil, msg |-> Active(t)]

\* A slot holds Nil, 64 zero bytes, or a signature.
ZeroSig == [by |-> ZeroKey, over |-> Nil]
Sig(k, t) == [by |-> k, over |-> MessageBytes(t)]

Slots == {Nil, ZeroSig} \cup [by : Nat, over : [v0 : BOOLEAN, msg : Messages]]

\* Orders have fewer signers than a uint8 counts, as a packet of 1232 bytes holds
\* no more than 19 signatures.  Of a wire nothing is assumed but its types: its
\* signatures may be more or fewer than its header requires.
ASSUME SolanaAssumption ==
    /\ Hashes \subseteq Texts /\ Cuts \subseteq 0..Whole
    /\ Nil \notin Orders /\ Nil \notin Messages
    /\ Nil \notin [by : Nat, over : [v0 : BOOLEAN, msg : Messages]]
    /\ \A o \in Orders :
          /\ o \in [payer : Nat, ixs : Seq(Instructions), lookups : Seq(Lookups), v0 : BOOLEAN]
          /\ NumSigners(o.payer, o.ixs) < Byte
    /\ \A ks \in KeyLists : ks \in Seq(Nat)
    /\ \A w \in Foreign :
          w \in [sigs : Seq(Slots), v0 : BOOLEAN, msg : Messages, intent : {Nil}, cosigned : {{}}]

-----------------------------------------------------------------------------
(***************************************************************************)
(* Compile, sign, verify.                                                  *)
(***************************************************************************)
\* NewSolanaTx and NewSolanaTxV0: the slots are counted before the conversion
\* to uint8.
Compile(o) ==
    /\ intent = Nil /\ out.op = "init"      \* bound: one order per behaviour
    /\ ~ TooManyAccounts(o.payer, o.ixs)
    /\ LET m == Compiled(o.payer, "h0", o.lookups, o.ixs)
       IN  tx' = [sigs |-> [i \in 1..NumSigners(o.payer, o.ixs) |-> Nil],
                  msg  |-> IF o.v0 THEN EmptyMessage ELSE m,
                  v0   |-> IF o.v0 THEN m ELSE Nil]
    /\ intent' = o
    /\ cosigned' = {}
    /\ out' = [op |-> "compile", res |-> "ok"]
    /\ UNCHANGED <<wire, torn>>

CompileRefused(o) ==
    /\ intent = Nil /\ out.op = "init"
    /\ TooManyAccounts(o.payer, o.ixs)
    /\ out' = [op |-> "compile", res |-> "error"]
    /\ UNCHANGED <<tx, wire, intent, cosigned, torn>>

\* The caller replaces an expired blockhash.
SetBlockhash(h) ==
    /\ intent # Nil /\ Active(tx).hash # h
    /\ tx' = IF tx.v0 # Nil THEN [tx EXCEPT !.v0.hash = h]
                            ELSE [tx EXCEPT !.msg.hash = h]
    /\ cosigned' = {}
    /\ out' = [op |-> "set", res |-> "ok"]
    /\ UNCHANGED <<wire, intent, torn>>

\* mutant: the guard is gone.
HeaderFitsAlways(m) == TRUE

\* The guard Sign and Verify share.
HeaderFits(m) == m.req <= Len(m.keys)

\* The search for the slot of k: the first of the req keys that is k, 0 when
\* there is none, -1 when it indexes past the account keys.
SlotOf(m, k) ==
    IF \E i \in 1..m.req : i \in DOMAIN m.keys /\ m.keys[i] = k
    THEN SelectInSeq(m.keys, LAMBDA x : x = k)
    ELSE IF m.req > Len(m.keys) THEN -1 ELSE 0

\* The first key of ks that stops the loop, Len(ks) + 1 when none does.
StopsAt(t, ks) ==
    Min({ p \in DOMAIN ks : SlotOf(Active(t), ks[p]) \notin DOMAIN t.sigs }
        \cup {Len(ks) + 1})

\* mutant: a call starts from empty slots.
SignedByAlone(t, ks, n) ==
    [i \in DOMAIN t.sigs |->
        IF \E p \in 1..n : SlotOf(Active(t), ks[p]) = i
        THEN Sig(Active(t).keys[i], t) ELSE Nil]

\* The signatures after the first n keys of ks have signed.
SignedBy(t, ks, n) ==
    [i \in DOMAIN t.sigs |->
        IF \E p \in 1..n : SlotOf(Active(t), ks[p]) = i
        THEN Sig(Active(t).keys[i], t) ELSE t.sigs[i]]

SignResult(t, ks) ==
    LET stop == StopsAt(t, ks)
    IN  IF stop > Len(ks) THEN "ok"
        ELSE IF SlotOf(Active(t), ks[stop]) = 0 THEN "unknown key" ELSE "panic"

\* Sign: the keys before the one that stops the loop have signed.
Sign(ks) ==
    /\ HeaderFits(Active(tx))
    /\ tx' = [tx EXCEPT !.sigs = SignedBy(tx, ks, StopsAt(tx, ks) - 1)]
    /\ cosigned' = cosigned \cup { ks[p] : p \in 1..(StopsAt(tx, ks) - 1) }
    /\ out' = [op |-> "sign", res |-> SignResult(tx, ks)]
    /\ UNCHANGED <<wire, intent, torn>>

SignRefused ==
    /\ ~ HeaderFits(Active(tx))
    /\ out' = [op |-> "sign", res |-> "error"]
    /\ UNCHANGED <<tx, wire, intent, cosigned, torn>>

\* mutant: the signer is compared, the message is not.
SlotOKAnyMessage(t, i) ==
    /\ i \in DOMAIN t.sigs /\ i \in DOMAIN Active(t).keys
    /\ t.sigs[i] # Nil /\ t.sigs[i].by = Active(t).keys[i]

\* ed25519.Verify of slot i.
SlotOK(t, i) == /\ i \in DOMAIN t.sigs /\ i \in DOMAIN Active(t).keys
                /\ t.sigs[i] = Sig(Active(t).keys[i], t)

\* Verify returns nil.
Verifies(t) == /\ HeaderFits(Active(t))
               /\ Len(t.sigs) >= Active(t).req
               /\ \A i \in 1..Active(t).req : SlotOK(t, i)

-----------------------------------------------------------------------------
(***************************************************************************)
(* Marshal and unmarshal.                                                  *)
(***************************************************************************)
\* mutant: empty slots are left out.
WireSigsPacked(t) == SelectSeq(t.sigs, LAMBDA g : g # Nil)

\* An empty slot is written as 64 zero bytes.
WireSigs(t) == [i \in DOMAIN t.sigs |-> IF t.sigs[i] = Nil THEN ZeroSig ELSE t.sigs[i]]

Marshal ==
    /\ ~ torn       \* the caller knows that reading failed
    /\ wire' = [sigs |-> WireSigs(tx), v0 |-> tx.v0 # Nil, msg |-> Active(tx),
                intent |-> intent, cosigned |-> cosigned]
    /\ out' = [op |-> "marshal", res |-> "ok"]
    /\ UNCHANGED <<tx, intent, cosigned, torn>>

Receive(w) ==
    /\ wire' = w
    /\ out' = [op |-> "receive", res |-> "ok"]
    /\ UNCHANGED <<tx, intent, cosigned, torn>>

\* The sections of the bytes: 1 the number of signatures, 2 the signatures,
\* 3 the first byte of the message, 4 the header and the number of keys, 5 the
\* keys, 6 the blockhash and the number of instructions, 7 the instructions,
\* 8 the lookups of a v0 message.  Bytes with n complete sections end right after
\* section n.  Reading stops at an invalid header too.
Reached(m, n) == IF n >= 5 /\ ~ HeaderOK(m) THEN 5 ELSE n

\* What is left of an instruction list when reading stopped at instruction i.
ZeroIx == [prog |-> 0, accts |-> <<>>, data |-> "none"]

LegacyIxs(m) ==
    [i \in DOMAIN m.ixs |->
        IF \E h \in 1..(i - 1) : ~ InRange(m, m.ixs[h]) THEN ZeroIx ELSE m.ixs[i]]

\* mutant: instructions are appended to the ones the object had.
OverwrittenAppend(old, m, n, v0) ==
    [req |-> m.req, ros |-> m.ros, rou |-> m.rou, keys |-> m.keys, hash |-> m.hash,
     ixs |-> IF Reached(m, n) >= 7 THEN old.ixs \o m.ixs ELSE old.ixs,
     lookups |-> m.lookups]

\* The fields of a message after n sections of m were read over old.
Overwritten(old, m, n, v0) ==
    LET at == Reached(m, n)
    IN  [req     |-> IF at >= 4 THEN m.req ELSE old.req,
         ros     |-> IF at >= 4 THEN m.ros ELSE old.ros,
         rou     |-> IF at >= 4 THEN m.rou ELSE old.rou,
         keys    |-> IF at >= 5 THEN m.keys
                     ELSE IF at = 4 THEN [i \in DOMAIN m.keys |-> ZeroKey]
                     ELSE old.keys,
         hash    |-> IF at >= 6 THEN m.hash ELSE old.hash,
         ixs     |-> IF at >= 7 THEN (IF v0 THEN m.ixs ELSE LegacyIxs(m))
                     ELSE old.ixs,
         lookups |-> IF at >= 8 THEN m.lookups ELSE old.lookups]

\* A legacy message of Half or more signers starts with a byte that reads as a
\* version prefix.
ReadsAsV0(w) == w.v0 \/ w.msg.req = Half
ReadsAsOtherVersion(w) == ~ w.v0 /\ w.msg.req > Half

\* What is read when the first count is taken for the prefix: the counts shift by
\* one, and the first byte of the number of keys, Half or more as there are that
\* many keys, becomes rou, which no number of keys read after it allows.
Shifted(m) == [EmptyMessage EXCEPT !.req = m.ros, !.ros = m.rou, !.rou = Half,
                                   !.keys = <<ZeroKey>>]

\* UnmarshalBinary of the first n sections of w into t.
SigsRead(w, n) == IF n = 1 THEN [i \in DOMAIN w.sigs |-> Nil] ELSE w.sigs

Unmarshalled(t, w, n) ==
    LET sigs == SigsRead(w, n)
    IN  IF n = 0 THEN t
        ELSE IF n < 3 \/ ReadsAsOtherVersion(w) THEN [t EXCEPT !.sigs = sigs]
        ELSE IF w.v0
             THEN [t EXCEPT !.sigs = sigs,
                            !.v0 = Overwritten(EmptyMessage, w.msg, n, TRUE)]
        ELSE IF ReadsAsV0(w)
             THEN [t EXCEPT !.sigs = sigs,
                            !.v0 = Overwritten(EmptyMessage, Shifted(w.msg), n, TRUE)]
        ELSE [t EXCEPT !.sigs = sigs, !.msg = Overwritten(t.msg, w.msg, n, FALSE)]

Accepts(w, n) ==
    /\ n = Whole
    /\ w.v0 \/ w.msg.req < Half
    /\ HeaderOK(w.msg) /\ IndexesOK(w.msg)

\* Section n + 1 of w has no bytes: to end before it is to end after it.
NextIsEmpty(w, n) == \/ n = 1 /\ w.sigs = <<>>
                     \/ n = 4 /\ w.msg.keys = <<>>
                     \/ n = 6 /\ w.msg.ixs = <<>>
                     \/ n = 7 /\ ~ w.v0

MayReuse == \/ Reuse = "any"
            \/ Reuse = "same" /\ (tx.v0 = Nil \/ (wire # Nil /\ wire.v0))

Unmarshal(n, obj) ==
    /\ wire # Nil
    /\ ~ NextIsEmpty(wire, n)
    /\ tx' = Unmarshalled(obj, wire, n)
    /\ intent' = IF Accepts(wire, n) THEN wire.intent ELSE Nil
    /\ cosigned' = IF Accepts(wire, n) THEN wire.cosigned ELSE {}
    /\ torn' = (obj # Fresh /\ ~ Accepts(wire, n))
    /\ out' = [op |-> IF n = Whole THEN "unmarshal" ELSE "unmarshal cut",
               res |-> IF Accepts(wire, n) THEN "ok" ELSE "error"]
    /\ UNCHANGED wire

UnmarshalFresh(n)  == Unmarshal(n, Fresh)
UnmarshalReused(n) == MayReuse /\ Unmarshal(n, tx)

-----------------------------------------------------------------------------
Init == /\ tx = Fresh
        /\ wire = Nil
        /\ intent = Nil
        /\ cosigned = {}
        /\ torn = FALSE
        /\ out = [op |-> "init", res |-> "ok"]

Next == \/ \E o \in Orders : Compile(o) \/ CompileRefused(o)
        \/ \E h \in Hashes : SetBlockhash(h)
        \/ \E ks \in KeyLists : Sign(ks)
        \/ SignRefused
        \/ Marshal
        \/ \E w \in Foreign : Receive(w)
        \/ \E n \in Cuts : UnmarshalFresh(n) \/ UnmarshalReused(n)

Spec == Init /\ [][Next]_vars

-----------------------------------------------------------------------------
(***************************************************************************)
(* Properties.                                                             *)
(***************************************************************************)
\* Whatever happened to it since, through signatures, a new blockhash, bytes and
\* objects that were used before, the message still says what was ordered.
CompiledMeansInstructions ==
    intent # Nil => Says(Active(tx), intent.payer, intent.ixs)

\* The accounts whose signature the order needs.
Required(o) == { k \in Seen(o.payer, o.ixs) : IsSigner(o.payer, o.ixs, k) }

\* "Verify checks that all required signatures are present and valid"
\* (solanatx.go:434): when it passes, every account the order needs has signed
\* the message as it is now, its current blockhash included.
VerifyMeansAllSigned ==
    intent # Nil /\ Verifies(tx) =>
        \A k \in Required(intent) : \E i \in DOMAIN tx.sigs : tx.sigs[i] = Sig(k, tx)

\* Signers may come in any order, in calls that failed halfway, with the object
\* marshalled and read back between them: once all have signed what it holds
\* now, Verify passes (Sign, MarshalBinary, UnmarshalBinary).
CosigningCompletes ==
    intent # Nil /\ Required(intent) \subseteq cosigned => Verifies(tx)

\* Sign never loses a valid signature that is not its own to make, even when it
\* fails (solanatx.go:412).
SignKeepsOthers ==
    [][out'.op = "sign" =>
         \A i \in DOMAIN tx.sigs : SlotOK(tx, i) => SlotOK(tx', i)]_vars

\* "This prevents out-of-bounds indexing in Sign/Verify" (solanatx.go:855): Sign
\* returns on every object, unless reading failed that overwrote half of a used one.
\* The code breaks this: UnmarshalBinary compares the header with the account keys,
\* and never with the number of signatures (solanatx.go:502, 429).
SignStaysInBounds == out.op = "sign" /\ ~ torn => out.res # "panic"

\* Somebody sends n signatures under a header that requires more.
ShortWire(n) == \E w \in Foreign : Len(w.sigs) = n /\ n < w.msg.req

\* What is true of that comment: Sign indexes out of range only for want of a slot
\* (solanatx.go:429), and only in what came from bytes that had too few of them.
\* A transaction compiled here has its slots, whatever copies it went through, and
\* bytes with enough signatures give enough slots where they are cut or refused.
PanicsOnlyWhenShort ==
    out.op = "sign" /\ out.res = "panic" =>
        /\ intent = Nil
        /\ Len(tx.sigs) < Active(tx).req
        /\ ~ torn => ShortWire(Len(tx.sigs))

\* After UnmarshalBinary returned no error, the object holds the message and the
\* signatures of the bytes, whatever it held before (solanatx.go:495).
ParseYieldsWire ==
    (out.op = "unmarshal" /\ out.res = "ok") =>
        /\ MessageBytes(tx) = [v0 |-> wire.v0, msg |-> wire.msg]
        /\ tx.sigs = wire.sigs

\* UnmarshalBinary accepts the bytes MarshalBinary made of a transaction
\* NewSolanaTx or NewSolanaTxV0 compiled (solanatx_test.go:158).
OwnBytesParse ==
    out.op = "unmarshal" /\ wire.intent # Nil => out.res = "ok"

\* Bytes are read as what they say, and the program's own are always read
\* (solanatx.go:495, solanatx_test.go:158).
BytesReadBack == ParseYieldsWire /\ OwnBytesParse
=============================================================================
