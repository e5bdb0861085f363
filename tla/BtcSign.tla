------------------------------- MODULE BtcSign -------------------------------
(***************************************************************************)
(* The construction and signing of a Bitcoin transaction (btctx.go,        *)
(* btctx_p2tr.go) and the extraction of its signatures (btctxparse.go).    *)
(*                                                                         *)
(* One BtcTx is built and signed by one caller.  BtcTx.Sign is a loop over *)
(* the inputs that asks an outside signer (a key, an HSM, a TSS group) for *)
(* one signature per input; each iteration is one step, so that every      *)
(* place where the call can stop is a state.                               *)
(*                                                                         *)
(* Hashes are perfect: a digest is the record of what was hashed.  A       *)
(* signature is the record of who signed which digest, with the sighash    *)
(* byte that follows it on the wire.  A script or a witness is a sequence  *)
(* of items: a locking script, a pushed redeem script, a public key, a     *)
(* signature or filler.  The outpoints, sequences, version and lock time   *)
(* are never written by this code and are left out of the digests.         *)
(***************************************************************************)
EXTENDS Integers, Sequences

CONSTANTS
    N,         \* number of inputs of the transaction
    Keys,      \* private keys, each with its public key
    Amounts,   \* values an output may hold
    Outputs,   \* outputs (address and amount) the caller may add
    BadOutput, \* an address ParseBitcoinBasedAddress refuses
    MaxOuts,   \* bound on the outputs of the transaction
    Flags,     \* values of BtcTxSign.SigHash (a uint32) the caller may pass
    Prefills,  \* schemes the caller may prefill an input for
    PrevOuts,  \* kinds of outputs the inputs may spend
    Offers     \* the arguments the caller may pass for an input that spends p

Inputs == 1..N

(***************************************************************************)
(* Scripts, witnesses and signatures.                                      *)
(***************************************************************************)
InnerForms  == {"p2pkh", "p2pk", "p2pukh", "p2puk"}
PubKeyHash  == {"p2pkh", "p2pukh"}
LegacyForms == {"p2pk", "p2pkh", "p2pukh"}
WshForms    == {"p2wsh:p2pk", "p2wsh:p2puk", "p2wsh:p2pkh", "p2wsh:p2pukh"}
PrevForms   == LegacyForms \cup WshForms \cup {"p2wpkh", "p2sh:p2wpkh", "p2tr"}
Forms       == InnerForms \cup PrevForms

\* Schemes Sign knows, and one it does not (its default case).
Known   == PrevForms \cup {"p2wsh"}
Schemes == Known \cup {"p2puk"}

\* The wrapped script of a p2wsh form or scheme, k.Scheme[len("p2wsh:"):].
InnerOf(f) == IF f = "p2wsh:p2pk" THEN "p2pk"
              ELSE IF f = "p2wsh:p2puk" THEN "p2puk"
              ELSE IF f = "p2wsh:p2pukh" THEN "p2pukh"
              ELSE "p2pkh"

\* Script.Generate(f) for the public key of k.
Lock(f, k)   == [form |-> f, key |-> k]
Push(lock)   == [redeem |-> lock]
Pub(f, k)    == [enc |-> IF f = "p2pukh" THEN "uncomp" ELSE "comp", pub |-> k]
Filler(s)    == [filler |-> s]
Sig(k, d, f) == [signer |-> k, digest |-> d, byte |-> f % 256]

\* The sighash flag: base type, ANYONECANPAY bit and Bitcoin Cash fork-id bit.
FlagOK(f) == f % 32 = 1 /\ (f \div 128) % 2 = 0
ForkId(f) == (f \div 64) % 2 = 1

\* What each sighash algorithm commits to.
LegacyDigest(scripts, os, f) ==
    [alg |-> "legacy", scripts |-> scripts, outs |-> os, flag |-> f]
Bip143Digest(parts, i, code, amount, f) ==
    [alg |-> "bip143", parts |-> parts, idx |-> i, code |-> code,
     amount |-> amount, flag |-> f]
Bip341Digest(parts, i) == [alg |-> "bip341", parts |-> parts, idx |-> i]

\* wtx.ClearInputs() followed by wtx.In[i].Script = lock.
OnlyInput(i, lock) == [j \in Inputs |-> IF j = i THEN <<lock>> ELSE <<>>]

(***************************************************************************)
(* Sets of values.                                                         *)
(***************************************************************************)
Locks    == [form : Forms, key : Keys]
PrevOut  == [form : PrevForms, key : Keys, amount : Amounts]
SignArgs == [scheme : Schemes, key : Keys, amount : Amounts, flag : Flags,
             prev : Seq(Locks)] \* PrevScript: <<>> is nil
OutSeqs  == Seq(Outputs)

TapParts == [prevs : [Inputs -> Seq(Locks)], amounts : [Inputs -> Amounts],
             outs : OutSeqs]
Digests  ==
    [alg : {"legacy"}, scripts : [Inputs -> Seq(Locks)], outs : OutSeqs,
     flag : Flags \cup {1}]
    \cup [alg : {"bip143"}, parts : OutSeqs, idx : Inputs, code : Locks,
          amount : Amounts, flag : Flags \cup {1}]
    \cup [alg : {"bip341"}, parts : TapParts, idx : Inputs]
Items ==
    Locks \cup [redeem : Locks] \cup [enc : {"comp", "uncomp"}, pub : Keys]
    \cup [filler : Known]
    \cup [signer : Keys, digest : Digests, byte : 0..255]

ASSUME BtcSignAssumption ==
    /\ N \in Nat \ {0}
    /\ MaxOuts \in Nat
    /\ Flags \subseteq Nat
    /\ 1 \in Flags
    /\ Prefills \subseteq Known \ {"p2sh:p2wpkh"}
    /\ PrevOuts \subseteq PrevOut
    /\ Offers \in [PrevOuts -> SUBSET SignArgs]
    /\ BadOutput \notin Outputs

VARIABLES
    prev,   \* the outputs being spent, fixed by the block chain
    outs,   \* tx.Out
    script, \* tx.In[i].Script
    wit,    \* tx.In[i].Witnesses
    \* The call of Sign in progress:
    pc,     \* where it is
    args,   \* its keys
    n,      \* its loop index
    wtx,    \* the scripts and outputs of its work transaction
    pre,    \* the cached (pfx, sfx): <<>> is nil
    tap,    \* the cached taprootParts: <<>> is nil
    before  \* history: scripts and witnesses when the call began

tx    == <<outs, script, wit>>
frame == <<args, n, wtx, pre, tap, before>>
vars  == <<prev, outs, script, wit, pc, args, n, wtx, pre, tap, before>>

NoCall ==
    /\ args = <<>> /\ n = 0 /\ wtx = <<>> /\ pre = <<>> /\ tap = <<>>
    /\ before = <<>>

Init ==
    /\ prev \in [Inputs -> PrevOuts]
    /\ outs = <<>>
    /\ script = [i \in Inputs |-> <<>>]
    /\ wit = [i \in Inputs |-> <<>>]
    /\ pc = "idle"
    /\ NoCall

(***************************************************************************)
(* What the caller does between calls of Sign.                             *)
(***************************************************************************)
\* AddNetOutput: an address that does not parse leaves the transaction alone.
AddNetOutputUnchecked(o) == \* mutant: the address error is ignored
    /\ pc = "idle"
    /\ Len(outs) < MaxOuts
    /\ outs' = Append(outs, o)
    /\ UNCHANGED <<prev, script, wit, pc, frame>>
AddNetOutput(o) ==
    /\ pc = "idle"
    /\ Len(outs) < MaxOuts
    /\ outs' = IF o = BadOutput THEN outs ELSE Append(outs, o)
    /\ UNCHANGED <<prev, script, wit, pc, frame>>

\* BtcTxInput.Prefill; a scheme it does not support changes nothing.
Prefill(i, s) ==
    /\ pc = "idle"
    /\ IF s \in LegacyForms
       THEN /\ script' = [script EXCEPT ![i] = <<Filler(s)>>]
            /\ UNCHANGED wit
       ELSE /\ script' = [script EXCEPT ![i] = <<>>]
            /\ wit' = [wit EXCEPT ![i] = <<Filler(s)>>]
    /\ UNCHANGED <<prev, outs, pc, frame>>

\* The caller stores the scriptPubKey being spent in In[i].Script, as the
\* auto-detection of p2wsh wants it.
SetScript(i) ==
    /\ pc = "idle"
    /\ script' = [script EXCEPT ![i] = <<Lock(prev[i].form, prev[i].key)>>]
    /\ UNCHANGED <<prev, outs, wit, pc, frame>>

(***************************************************************************)
(* BtcTx.Sign                                                              *)
(***************************************************************************)
ArgVectors ==
    {a \in [Inputs -> UNION {Offers[prev[i]] : i \in Inputs}] :
        \A i \in Inputs : a[i] \in Offers[prev[i]]}

\* wtx := tx.Dup()
SignBegin(a) ==
    /\ pc = "idle"
    /\ pc' = "loop"
    /\ args' = a
    /\ n' = 1
    /\ wtx' = [scripts |-> script, outs |-> outs]
    /\ before' = [script |-> script, wit |-> wit]
    /\ UNCHANGED <<prev, tx, pre, tap>>

k == args[n]

\* k.SigHash once its default is applied.
Flag == IF k.scheme # "p2tr" /\ k.flag = 0 THEN 1 ELSE k.flag

NormalizedArgs == [args EXCEPT ![n].flag = Flag]

\* The tests that come before the switch on the scheme.
Accepted == k.scheme = "p2tr" \/ FlagOK(Flag)

\* An iteration that returns an error, before it has written input n.
FailCleared == \* mutant: the input is cleared before the signer is asked
    /\ pc' = "err"
    /\ args' = NormalizedArgs
    /\ script' = [script EXCEPT ![n] = <<>>]
    /\ UNCHANGED <<prev, outs, wit, n, wtx, before>>
Fail ==
    /\ pc' = "err"
    /\ args' = NormalizedArgs
    /\ UNCHANGED <<prev, tx, n, wtx, before>>

\* An iteration that sets the script and the witness of input n.
Signed(s, w) ==
    /\ script' = [script EXCEPT ![n] = s]
    /\ wit' = [wit EXCEPT ![n] = w]
    /\ args' = NormalizedArgs
    /\ n' = n + 1
    /\ UNCHANGED <<prev, outs, pc, before>>

RejectFlagOrScheme ==
    /\ pc = "loop" /\ n <= N
    /\ ~Accepted \/ k.scheme \notin Known
    /\ Fail
    /\ UNCHANGED <<pre, tap>>

\* The preimage parts that are cached by the first input that needs them.
Preimage == IF pre = <<>> THEN outs ELSE pre[1]

UsesPreimage ==
    \/ k.scheme \in WshForms \cup {"p2wsh", "p2wpkh", "p2sh:p2wpkh"}
    \/ k.scheme \in PubKeyHash /\ ForkId(Flag)

\* wtx.ClearInputs() and the locking script in the input being signed.
WorkScriptsKept(lock) == [wtx.scripts EXCEPT ![n] = <<lock>>] \* mutant
WorkScripts(lock) == OnlyInput(n, lock)

\* "p2pk", "p2pkh" and "p2pukh" without the fork-id bit: only Script is set.
SignLegacy ==
    /\ pc = "loop" /\ n <= N
    /\ Accepted
    /\ k.scheme \in LegacyForms
    /\ k.scheme \in PubKeyHash => ~ForkId(Flag)
    /\ LET scripts == WorkScripts(Lock(k.scheme, k.key))
           sig == Sig(k.key, LegacyDigest(scripts, wtx.outs, Flag), Flag)
       IN  /\ wtx' = [wtx EXCEPT !.scripts = scripts]
           /\ Signed(IF k.scheme = "p2pk" THEN <<sig>>
                     ELSE <<sig, Pub(k.scheme, k.key)>>, wit[n])
    /\ UNCHANGED <<pre, tap>>

\* p2wpkhSign
SignP2WPKH ==
    /\ pc = "loop" /\ n <= N
    /\ Accepted
    /\ \/ k.scheme \in {"p2wpkh", "p2sh:p2wpkh"}
       \/ k.scheme \in PubKeyHash /\ ForkId(Flag)
    /\ pre' = <<Preimage>>
    /\ LET code == Lock(IF k.scheme = "p2pukh" THEN "p2pukh" ELSE "p2pkh", k.key)
           sig == Sig(k.key, Bip143Digest(Preimage, n, code, k.amount, Flag), Flag)
           unlock == <<sig, Pub(k.scheme, k.key)>>
       IN  \/ k.scheme \in PubKeyHash /\ Signed(unlock, wit[n])
           \/ k.scheme = "p2wpkh" /\ Signed(<<>>, unlock)
           \/ /\ k.scheme = "p2sh:p2wpkh"
              /\ Signed(<<Push(Lock("p2wpkh", k.key))>>, unlock)
    /\ UNCHANGED <<wtx, tap>>

\* detectP2WSHInner, and k.Scheme[len("p2wsh:"):] when it is not needed.
IsProgram(s) == \E f \in WshForms, key \in Keys : s = <<Lock(f, key)>>

CandidatesBlind == \* mutant: the script in the input is not looked at
    {IF k.scheme = "p2wsh" THEN "p2pkh" ELSE InnerOf(k.scheme)}
CandidatesUnordered == \* mutant: the candidates are kept in a map
    IF k.scheme # "p2wsh" THEN {InnerOf(k.scheme)}
    ELSE {f \in InnerForms : IsProgram(script[n]) =>
            \E g \in WshForms : InnerOf(g) = f /\ script[n] = <<Lock(g, k.key)>>}
Candidates ==
    IF k.scheme # "p2wsh" THEN {InnerOf(k.scheme)}
    ELSE IF IsProgram(script[n])
         THEN {InnerOf(f) : f \in {g \in WshForms : script[n] = <<Lock(g, k.key)>>}}
         ELSE {"p2pkh"}

\* p2wshSign
SignP2WSH ==
    /\ pc = "loop" /\ n <= N
    /\ Accepted
    /\ k.scheme \in WshForms \cup {"p2wsh"}
    /\ pre' = <<Preimage>>
    /\ \E inner \in Candidates :
        LET ws == Lock(inner, k.key)
            sig == Sig(k.key, Bip143Digest(Preimage, n, ws, k.amount, Flag), Flag)
        IN  Signed(<<>>, IF inner \in PubKeyHash
                         THEN <<sig, Pub(inner, k.key), ws>> ELSE <<sig, ws>>)
    /\ UNCHANGED <<wtx, tap>>

\* The parts cached by the first p2tr input: nil when a PrevScript is missing.
PartsAvailable == tap # <<>> \/ \A i \in Inputs : args[i].prev # <<>>

PartsNow == [prevs |-> [i \in Inputs |-> args[i].prev],
             amounts |-> [i \in Inputs |-> args[i].amount],
             outs |-> outs]

Parts == IF tap # <<>> THEN tap[1] ELSE PartsNow

\* p2trSign
SignP2TR ==
    /\ pc = "loop" /\ n <= N
    /\ k.scheme = "p2tr"
    /\ PartsAvailable
    /\ k.flag \in {0, 1}
    /\ tap' = <<Parts>>
    /\ Signed(<<>>, <<Sig(k.key, Bip341Digest(Parts, n), 0)>>)
    /\ UNCHANGED <<wtx, pre>>

\* The errors of an accepted input: the signer or the key fails (or returns a
\* Schnorr signature of another length), the key matches no candidate script,
\* a PrevScript is missing, the taproot sighash is not the default.
SignFails ==
    /\ pc = "loop" /\ n <= N
    /\ Accepted
    /\ k.scheme \in Known
    /\ Fail
    /\ pre' = IF UsesPreimage THEN <<Preimage>> ELSE pre
    /\ tap' = IF k.scheme = "p2tr" /\ PartsAvailable THEN <<Parts>> ELSE tap

SignEnd ==
    /\ pc = "loop" /\ n > N
    /\ pc' = "ok"
    /\ UNCHANGED <<prev, tx, frame>>

\* The caller has seen the result; the locals of the call are gone.
ReturnKept == \* mutant: the parts are cached in the transaction
    /\ pc \in {"ok", "err"}
    /\ pc' = "idle"
    /\ args' = <<>> /\ n' = 0 /\ wtx' = <<>> /\ before' = <<>>
    /\ UNCHANGED <<prev, tx, pre, tap>>
Return ==
    /\ pc \in {"ok", "err"}
    /\ pc' = "idle"
    /\ args' = <<>> /\ n' = 0 /\ wtx' = <<>> /\ pre' = <<>> /\ tap' = <<>>
    /\ before' = <<>>
    /\ UNCHANGED <<prev, tx>>

Next ==
    \/ \E o \in Outputs \cup {BadOutput} : AddNetOutput(o)
    \/ \E i \in Inputs, s \in Prefills : Prefill(i, s)
    \/ \E i \in Inputs : SetScript(i)
    \/ \E a \in ArgVectors : SignBegin(a)
    \/ RejectFlagOrScheme
    \/ SignLegacy
    \/ SignP2WPKH
    \/ SignP2WSH
    \/ SignP2TR
    \/ SignFails
    \/ SignEnd
    \/ Return

Spec == Init /\ [][Next]_vars

(***************************************************************************)
(* ExtractBtcInputSig, InputSighash and TaprootInputSighash: the signature *)
(* found in an input and the digest it must have signed.  <<>> is nil.     *)
(***************************************************************************)
IsSig(item) == "signer" \in DOMAIN item
IsPub(item) == "pub" \in DOMAIN item
IsSigThenPub(s) == Len(s) = 2 /\ IsSig(s[1]) /\ IsPub(s[2])

\* The filler of p2tr has the shape of a signature; of the two-item witnesses
\* only one that ends in a public key is taken, so a p2wsh:p2pk is not.
ExtractWitnessAnyPair(w) == \* mutant: the key prefix byte is not tested
    IF Len(w) = 1 /\ IsSig(w[1])
    THEN <<[scheme |-> "p2tr-keypath", sig |-> w[1], pub |-> <<>>]>>
    ELSE IF Len(w) = 2 /\ IsSig(w[1])
         THEN <<[scheme |-> "p2wpkh", sig |-> w[1], pub |-> w[2]]>>
         ELSE <<>>
ExtractWitness(w) ==
    IF Len(w) = 1 /\ (IsSig(w[1]) \/ w[1] = Filler("p2tr"))
    THEN <<[scheme |-> "p2tr-keypath", sig |-> w[1], pub |-> <<>>]>>
    ELSE IF IsSigThenPub(w)
         THEN <<[scheme |-> "p2wpkh", sig |-> w[1], pub |-> w[2]]>>
         ELSE <<>>

ExtractScriptSig(s) ==
    IF IsSigThenPub(s)
    THEN <<[scheme |-> "p2pkh", sig |-> s[1], pub |-> s[2]]>> ELSE <<>>

Extract(i) == CASE script[i] = <<>> /\ wit[i] # <<>> -> ExtractWitness(wit[i])
                [] script[i] # <<>> /\ wit[i] = <<>> -> ExtractScriptSig(script[i])
                [] OTHER -> <<>>

\* locks and amounts are those of the outputs spent; the result is a set that
\* is empty when the code returns an error.
InputSighash(i, x, locks, amounts) ==
    CASE x.scheme = "p2pkh" /\ x.sig.byte = 1 ->
            {LegacyDigest(OnlyInput(i, locks[i]), outs, 1)}
      [] x.scheme = "p2wpkh" /\ x.sig.byte = 1 ->
            {Bip143Digest(outs, i,
                Lock(IF x.pub.enc = "comp" THEN "p2pkh" ELSE "p2pukh", x.pub.pub),
                amounts[i], 1)}
      [] x.scheme = "p2tr-keypath" /\ x.sig.byte = 0 ->
            {Bip341Digest([prevs |-> [j \in Inputs |-> <<locks[j]>>],
                           amounts |-> amounts, outs |-> outs], i)}
      [] OTHER -> {}

(***************************************************************************)
(* The consensus rules: when input i may spend prev[i].  They are stated   *)
(* from the outputs spent and the transaction alone, never from the        *)
(* arguments of Sign.                                                      *)
(***************************************************************************)
PrevLock(i) == Lock(prev[i].form, prev[i].key)

\* The single-key script that the form wraps: the script code of BIP-143.
Base(f) == IF f \in {"p2wpkh", "p2sh:p2wpkh"} THEN "p2pkh"
           ELSE IF f \in WshForms THEN InnerOf(f) ELSE f

\* BIP-341, the original rule, and BIP-143 with its use by Bitcoin Cash.
RequiredDigest(i, byte) ==
    LET p == prev[i] IN
    IF p.form = "p2tr"
    THEN Bip341Digest([prevs |-> [j \in Inputs |-> <<PrevLock(j)>>],
                       amounts |-> [j \in Inputs |-> prev[j].amount],
                       outs |-> outs], i)
    ELSE IF p.form \in LegacyForms /\ ~ForkId(byte)
    THEN LegacyDigest(OnlyInput(i, PrevLock(i)), outs, byte)
    ELSE Bip143Digest(outs, i, Lock(Base(p.form), p.key), p.amount, byte)

\* What the wrapped script wants on the stack; where that goes.
StackFor(i, s) ==
    LET base == Base(prev[i].form) IN
    IF base \in PubKeyHash THEN <<s, Pub(base, prev[i].key)>> ELSE <<s>>

UnlockingScript(i, s) ==
    IF prev[i].form \in LegacyForms THEN StackFor(i, s)
    ELSE IF prev[i].form = "p2sh:p2wpkh" THEN <<Push(Lock("p2wpkh", prev[i].key))>>
    ELSE <<>>

UnlockingWitness(i, s) ==
    IF prev[i].form \in LegacyForms THEN <<>>
    ELSE IF prev[i].form \in WshForms
    THEN Append(StackFor(i, s), Lock(Base(prev[i].form), prev[i].key))
    ELSE StackFor(i, s)

SigBytes(form) == IF form = "p2tr" THEN {0} ELSE {f \in 0..255 : FlagOK(f)}

Spends(i) ==
    \E byte \in SigBytes(prev[i].form) :
        LET s == Sig(prev[i].key, RequiredDigest(i, byte), byte) IN
        script[i] = UnlockingScript(i, s) /\ wit[i] = UnlockingWitness(i, s)

(***************************************************************************)
(* What the caller owes Sign for input i: the scheme, key and amount of    *)
(* the output spent; a sighash flag of one byte, without fork-id for p2pk; *)
(* for p2tr the PrevScript and amount of every input; for a legacy form,   *)
(* no witness left in the input; for the bare "p2wsh" of a script that is  *)
(* not p2pkh, the scriptPubKey in the input.                               *)
(***************************************************************************)
CommitsAmount(i) == prev[i].form \notin LegacyForms \/ ForkId(args[i].flag)

Owed(i) ==
    LET a == args[i]  p == prev[i]  IN
    /\ a.key = p.key
    /\ CommitsAmount(i) => a.amount = p.amount
    /\ a.flag < 256
    /\ p.form = "p2pk" => ~ForkId(a.flag)
    /\ \/ a.scheme = p.form
       \/ /\ a.scheme = "p2wsh" /\ p.form \in WshForms
          /\ IF IsProgram(before.script[i]) THEN before.script[i] = <<PrevLock(i)>>
             ELSE p.form = "p2wsh:p2pkh"
    /\ p.form \in LegacyForms => before.wit[i] = <<>>
    /\ p.form = "p2tr" => \A j \in Inputs :
            args[j].prev = <<PrevLock(j)>> /\ args[j].amount = prev[j].amount

(***************************************************************************)
(* Properties.                                                             *)
(***************************************************************************)
\* The variables hold values of their types.
TypeOK ==
    /\ prev \in [Inputs -> PrevOuts]
    /\ outs \in OutSeqs /\ Len(outs) <= MaxOuts
    /\ script \in [Inputs -> Seq(Items)]
    /\ wit \in [Inputs -> Seq(Items)]
    /\ pc \in {"idle", "loop", "ok", "err"}
    /\ pc = "idle" => NoCall
    /\ pc # "idle" =>
        /\ args \in [Inputs -> SignArgs]
        /\ n \in 1..(N + 1)
        /\ wtx \in [scripts : [Inputs -> Seq(Items)], outs : OutSeqs]
        /\ pre = <<>> \/ (Len(pre) = 1 /\ pre \in Seq(OutSeqs))
        /\ tap = <<>> \/ (Len(tap) = 1 /\ tap \in Seq(TapParts))
        /\ before \in [script : [Inputs -> Seq(Items)], wit : [Inputs -> Seq(Items)]]

\* Every input Sign has gone past while the caller kept its side can spend its
\* output, whatever the other inputs are, whatever the input held before, and
\* whether the call goes on, returned, or failed at a later input.  The shared
\* work transaction and the cached preimage and taproot parts are where it
\* could go wrong.
SignedInputsSpend ==
    pc # "idle" => \A i \in Inputs : i < n /\ Owed(i) => Spends(i)

\* The converse: an input Sign has gone past spends its output only if the
\* caller kept its side.  Owed is therefore exactly the condition to document,
\* with the two clauses nobody wrote down: a witness left by Prefill and the
\* scriptPubKey that a first Sign erased both spoil a signature silently.
OnlyOwedInputsSpend ==
    pc # "idle" => \A i \in Inputs : i < n /\ Spends(i) => Owed(i)

\* A call that stops at input n has not touched it nor any input after it, so
\* that the caller can correct the argument and call Sign again.
RestUntouched ==
    pc # "idle" => \A i \in Inputs : i >= n =>
        script[i] = before.script[i] /\ wit[i] = before.wit[i]

\* What the call computed once and reuses for later inputs is what it would
\* compute now: the outputs of the work transaction, the BIP-143 preimage parts
\* and the BIP-341 parts, whatever it has written to the inputs in between.
CachesCurrent ==
    pc # "idle" =>
        /\ wtx.outs = outs
        /\ pre \in {<<>>, <<outs>>}
        /\ tap \in {<<>>, <<PartsNow>>}

\* The extractor is the inverse of Sign on the inputs that spend their output:
\* it finds the signature of exactly the forms it names, and the digest it
\* computes from the output spent is the one that was signed.
ExtractInvertsSign ==
    pc = "idle" => \A i \in Inputs : Spends(i) =>
        LET found == Extract(i) IN
        /\ found # <<>> <=> prev[i].form \in PubKeyHash \cup {"p2wpkh", "p2tr"}
        /\ found # <<>> =>
            \A d \in InputSighash(i, found[1], [j \in Inputs |-> PrevLock(j)],
                                  [j \in Inputs |-> prev[j].amount]) :
                d = found[1].sig.digest
=============================================================================
