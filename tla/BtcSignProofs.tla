--------------------------- MODULE BtcSignProofs ---------------------------
(***************************************************************************)
(* Theorems about BtcSign, for every number of inputs, every set of keys,  *)
(* amounts, outputs, flags and offered arguments.                          *)
(***************************************************************************)
EXTENDS BtcSign, TLAPS

USE BtcSignAssumption

(***************************************************************************)
(* What the operators build.                                               *)
(***************************************************************************)
LEMMA LockType == \A f \in Forms, key \in Keys : Lock(f, key) \in Locks
  BY DEF Lock, Locks

LEMMA InnerOfType == \A f : InnerOf(f) \in InnerForms
  BY DEF InnerOf, InnerForms

LEMMA OnlyInputType ==
  \A i \in Inputs, lk \in Locks : OnlyInput(i, lk) \in [Inputs -> Seq(Locks)]
  BY DEF OnlyInput

LEMMA LegacyDigestType ==
  ASSUME NEW scripts \in [Inputs -> Seq(Locks)], NEW os \in OutSeqs,
         NEW f \in Flags \cup {1}
  PROVE  LegacyDigest(scripts, os, f) \in Digests
  BY DEF LegacyDigest, Digests

LEMMA Bip143DigestType ==
  ASSUME NEW os \in OutSeqs, NEW i \in Inputs, NEW code \in Locks,
         NEW amount \in Amounts, NEW f \in Flags \cup {1}
  PROVE  Bip143Digest(os, i, code, amount, f) \in Digests
  BY DEF Bip143Digest, Digests

LEMMA Bip341DigestType ==
  ASSUME NEW parts \in TapParts, NEW i \in Inputs
  PROVE  Bip341Digest(parts, i) \in Digests
  BY DEF Bip341Digest, Digests

LEMMA SigType ==
  ASSUME NEW key \in Keys, NEW d \in Digests, NEW f \in Nat
  PROVE  Sig(key, d, f) \in Items
<1>1. f % 256 \in 0..255
  OBVIOUS
<1>2. QED
  BY <1>1 DEF Sig, Items

LEMMA ItemTypes ==
  /\ \A lk \in Locks : lk \in Items /\ Push(lk) \in Items
  /\ \A f : \A key \in Keys : Pub(f, key) \in Items
  /\ \A s \in Known : Filler(s) \in Items
  BY DEF Push, Pub, Filler, Items

(***************************************************************************)
(* Type correctness.  Call is the part of TypeOK about a call in progress. *)
(***************************************************************************)
Call ==
    /\ args \in [Inputs -> SignArgs]
    /\ n \in 1..(N + 1)
    /\ wtx \in [scripts : [Inputs -> Seq(Items)], outs : OutSeqs]
    /\ pre = <<>> \/ (Len(pre) = 1 /\ pre \in Seq(OutSeqs))
    /\ tap = <<>> \/ (Len(tap) = 1 /\ tap \in Seq(TapParts))
    /\ before \in [script : [Inputs -> Seq(Items)], wit : [Inputs -> Seq(Items)]]

Held ==
    /\ prev \in [Inputs -> PrevOuts]
    /\ outs \in OutSeqs /\ Len(outs) <= MaxOuts
    /\ script \in [Inputs -> Seq(Items)]
    /\ wit \in [Inputs -> Seq(Items)]

LEMMA TypeOKParts ==
  TypeOK <=> /\ Held
             /\ pc \in {"idle", "loop", "ok", "err"}
             /\ pc = "idle" => NoCall
             /\ pc # "idle" => Call
  BY DEF TypeOK, Held, Call

\* The arguments of the iteration, and the flag once its default is applied.
LEMMA IterationTypes ==
  ASSUME Call, n <= N
  PROVE  /\ n \in Inputs
         /\ k \in SignArgs
         /\ Flag \in Flags
         /\ NormalizedArgs \in [Inputs -> SignArgs]
<1>1. n \in Inputs
  BY DEF Call, Inputs
<1>2. k \in SignArgs
  BY <1>1 DEF Call, k
<1>3. Flag \in Flags
  BY <1>2 DEF Flag, SignArgs
<1>4. [k EXCEPT !.flag = Flag] \in SignArgs
  BY <1>2, <1>3 DEF SignArgs
<1>5. NormalizedArgs \in [Inputs -> SignArgs]
  BY <1>1, <1>4 DEF NormalizedArgs, Call, k
<1>6. QED
  BY <1>1, <1>2, <1>3, <1>5

LEMMA PreimageType == ASSUME Held, Call PROVE Preimage \in OutSeqs
  BY DEF Preimage, Held, Call

LEMMA PartsType ==
  ASSUME Held, Call, PartsAvailable
  PROVE  Parts \in TapParts
<1>1. CASE tap # <<>>
  BY <1>1 DEF Parts, Call
<1>2. CASE tap = <<>>
  <2>1. \A i \in Inputs : args[i].prev \in Seq(Locks) /\ args[i].amount \in Amounts
    BY DEF Call, SignArgs
  <2>2. PartsNow \in TapParts
    BY <2>1 DEF PartsNow, TapParts, Held
  <2>3. QED
    BY <1>2, <2>2 DEF Parts
<1>3. QED
  BY <1>1, <1>2

\* What Signed and Fail leave of a call.
LEMMA SignedType ==
  ASSUME Held, Call, n <= N, pc = "loop",
         NEW s \in Seq(Items), NEW w \in Seq(Items), Signed(s, w),
         wtx' \in [scripts : [Inputs -> Seq(Items)], outs : OutSeqs],
         pre' = <<>> \/ (Len(pre') = 1 /\ pre' \in Seq(OutSeqs)),
         tap' = <<>> \/ (Len(tap') = 1 /\ tap' \in Seq(TapParts))
  PROVE  TypeOK'
<1>1. n' \in 1..(N + 1) /\ args' \in [Inputs -> SignArgs]
  BY IterationTypes DEF Signed, Call
<1>2. script' \in [Inputs -> Seq(Items)] /\ wit' \in [Inputs -> Seq(Items)]
  BY IterationTypes DEF Signed, Held
<1>3. QED
  BY <1>1, <1>2 DEF Signed, Held, Call, TypeOK

LEMMA FailType ==
  ASSUME Held, Call, n <= N, Fail,
         pre' = <<>> \/ (Len(pre') = 1 /\ pre' \in Seq(OutSeqs)),
         tap' = <<>> \/ (Len(tap') = 1 /\ tap' \in Seq(TapParts))
  PROVE  TypeOK'
  BY IterationTypes DEF Fail, tx, Held, Call, TypeOK

LEMMA NextType == TypeOK /\ [Next]_vars => TypeOK'
<1> SUFFICES ASSUME TypeOK, [Next]_vars PROVE TypeOK'
  OBVIOUS
<1> USE TypeOKParts
<1>1. ASSUME NEW o \in Outputs \cup {BadOutput}, AddNetOutput(o) PROVE TypeOK'
  BY <1>1 DEF AddNetOutput, frame, TypeOK, OutSeqs, NoCall
<1>2. ASSUME NEW i \in Inputs, NEW s \in Prefills, Prefill(i, s) PROVE TypeOK'
  <2>1. <<Filler(s)>> \in Seq(Items)
    BY ItemTypes
  <2>2. pc = "idle" /\ pc' = "idle" /\ UNCHANGED <<prev, outs, frame>>
    BY <1>2 DEF Prefill
  <2>3. script' \in [Inputs -> Seq(Items)] /\ wit' \in [Inputs -> Seq(Items)]
    <3>1. script \in [Inputs -> Seq(Items)] /\ wit \in [Inputs -> Seq(Items)]
      BY DEF Held
    <3>2. <<>> \in Seq(Items)
      OBVIOUS
    <3>3. CASE s \in LegacyForms
      BY <1>2, <2>1, <3>1, <3>3 DEF Prefill
    <3>4. CASE s \notin LegacyForms
      BY <1>2, <2>1, <3>1, <3>2, <3>4 DEF Prefill
    <3>5. QED
      BY <3>3, <3>4
  <2>4. QED
    BY <2>2, <2>3 DEF frame, TypeOK, NoCall
<1>3. ASSUME NEW i \in Inputs, SetScript(i) PROVE TypeOK'
  <2>1. Lock(prev[i].form, prev[i].key) \in Items
    BY LockType, ItemTypes DEF TypeOK, PrevOut, Forms
  <2>2. QED
    BY <1>3, <2>1 DEF SetScript, frame, TypeOK, NoCall
<1>4. ASSUME NEW a \in ArgVectors, SignBegin(a) PROVE TypeOK'
  <2>1. a \in [Inputs -> SignArgs]
    <3>1. prev \in [Inputs -> PrevOuts]
      BY DEF TypeOK
    <3>2. \A i \in Inputs : Offers[prev[i]] \subseteq SignArgs
      BY <3>1
    <3>3. QED
      BY <3>2 DEF ArgVectors
  <2>2. QED
    BY <1>4, <2>1 DEF SignBegin, tx, TypeOK, NoCall
<1>5. CASE RejectFlagOrScheme
  BY <1>5, FailType DEF RejectFlagOrScheme, Call
<1>6. CASE SignLegacy
  <2>1. Held /\ Call /\ n <= N /\ pc = "loop"
    BY <1>6 DEF SignLegacy
  <2> DEFINE scripts == WorkScripts(Lock(k.scheme, k.key))
             sig == Sig(k.key, LegacyDigest(scripts, wtx.outs, Flag), Flag)
  <2>2. Lock(k.scheme, k.key) \in Locks
    BY <1>6, <2>1, IterationTypes, LockType
       DEF SignLegacy, SignArgs, Forms, PrevForms
  <2>3. scripts \in [Inputs -> Seq(Locks)]
    BY <2>1, <2>2, IterationTypes, OnlyInputType DEF WorkScripts
  <2>4. scripts \in [Inputs -> Seq(Items)]
    BY <2>1, <2>2, ItemTypes, IterationTypes DEF WorkScripts, OnlyInput
  <2>5. sig \in Items
    <3>1. wtx.outs \in OutSeqs /\ Flag \in Flags /\ Flag \in Nat /\ k.key \in Keys
      BY <2>1, IterationTypes DEF Call, SignArgs
    <3>2. LegacyDigest(scripts, wtx.outs, Flag) \in Digests
      BY <2>3, <3>1, LegacyDigestType
    <3>3. QED
      BY <3>1, <3>2, SigType
  <2>6. wtx' \in [scripts : [Inputs -> Seq(Items)], outs : OutSeqs]
    BY <1>6, <2>1, <2>4 DEF SignLegacy, Call
  <2>7. wit[n] \in Seq(Items)
    BY <2>1, IterationTypes DEF Held
  <2>8. Pub(k.scheme, k.key) \in Items
    BY <2>1, IterationTypes, ItemTypes DEF SignArgs
  <2>9. UNCHANGED <<pre, tap>>
    BY <1>6 DEF SignLegacy
  <2>10. \E s \in Seq(Items) : Signed(s, wit[n])
    <3>1. <<sig>> \in Seq(Items) /\ <<sig, Pub(k.scheme, k.key)>> \in Seq(Items)
      BY <2>5, <2>8
    <3>2. Signed(IF k.scheme = "p2pk" THEN <<sig>>
                 ELSE <<sig, Pub(k.scheme, k.key)>>, wit[n])
      BY <1>6 DEF SignLegacy
    <3>3. QED
      BY <3>1, <3>2
  <2>11. QED
    BY <2>1, <2>6, <2>7, <2>9, <2>10, SignedType DEF Call
<1>7. CASE SignP2WPKH
  <2>1. Held /\ Call /\ n <= N /\ pc = "loop"
    BY <1>7 DEF SignP2WPKH
  <2>2. k.key \in Keys /\ k.amount \in Amounts /\ Flag \in Flags /\ Flag \in Nat
    BY <2>1, IterationTypes DEF SignArgs
  <2> DEFINE code == Lock(IF k.scheme = "p2pukh" THEN "p2pukh" ELSE "p2pkh", k.key)
             sig == Sig(k.key, Bip143Digest(Preimage, n, code, k.amount, Flag), Flag)
             unlock == <<sig, Pub(k.scheme, k.key)>>
  <2>3. code \in Locks
    BY <2>2, LockType DEF Forms, InnerForms
  <2>4. sig \in Items
    <3>1. Bip143Digest(Preimage, n, code, k.amount, Flag) \in Digests
      BY <2>1, <2>2, <2>3, PreimageType, IterationTypes, Bip143DigestType
    <3>2. QED
      BY <2>2, <3>1, SigType
  <2>5. unlock \in Seq(Items) /\ wit[n] \in Seq(Items) /\ <<>> \in Seq(Items)
    BY <2>1, <2>2, <2>4, ItemTypes, IterationTypes DEF Held
  <2>6. <<Push(Lock("p2wpkh", k.key))>> \in Seq(Items)
    BY <2>2, LockType, ItemTypes DEF Forms, PrevForms
  <2>7. \E s, w \in Seq(Items) : Signed(s, w)
    BY <1>7, <2>5, <2>6 DEF SignP2WPKH
  <2>8. UNCHANGED <<wtx, tap>> /\ Len(pre') = 1 /\ pre' \in Seq(OutSeqs)
    BY <1>7, <2>1, PreimageType DEF SignP2WPKH
  <2>9. QED
    BY <2>1, <2>7, <2>8, SignedType DEF Call
<1>8. CASE SignP2WSH
  <2>1. Held /\ Call /\ n <= N /\ pc = "loop"
    BY <1>8 DEF SignP2WSH
  <2>2. k.key \in Keys /\ k.amount \in Amounts /\ Flag \in Flags /\ Flag \in Nat
    BY <2>1, IterationTypes DEF SignArgs
  <2>3. Candidates \subseteq InnerForms
    BY InnerOfType DEF Candidates, InnerForms
  <2>4. PICK inner \in Candidates :
          LET ws == Lock(inner, k.key)
              sig == Sig(k.key, Bip143Digest(Preimage, n, ws, k.amount, Flag), Flag)
          IN  Signed(<<>>, IF inner \in PubKeyHash
                           THEN <<sig, Pub(inner, k.key), ws>> ELSE <<sig, ws>>)
    BY <1>8 DEF SignP2WSH
  <2> DEFINE ws == Lock(inner, k.key)
             sig == Sig(k.key, Bip143Digest(Preimage, n, ws, k.amount, Flag), Flag)
  <2>5. ws \in Locks /\ ws \in Items
    BY <2>2, <2>3, LockType, ItemTypes DEF Forms
  <2>6. sig \in Items
    <3>1. Bip143Digest(Preimage, n, ws, k.amount, Flag) \in Digests
      BY <2>1, <2>2, <2>5, PreimageType, IterationTypes, Bip143DigestType
    <3>2. QED
      BY <2>2, <3>1, SigType
  <2>7. Pub(inner, k.key) \in Items
    BY <2>2, ItemTypes
  <2>8. <<sig, Pub(inner, k.key), ws>> \in Seq(Items) /\ <<sig, ws>> \in Seq(Items)
        /\ <<>> \in Seq(Items)
    BY <2>5, <2>6, <2>7
  <2>9. \E s, w \in Seq(Items) : Signed(s, w)
    BY <2>4, <2>8
  <2>10. UNCHANGED <<wtx, tap>> /\ Len(pre') = 1 /\ pre' \in Seq(OutSeqs)
    BY <1>8, <2>1, PreimageType DEF SignP2WSH
  <2>11. QED
    BY <2>1, <2>9, <2>10, SignedType DEF Call
<1>9. CASE SignP2TR
  <2>1. Held /\ Call /\ n <= N /\ pc = "loop" /\ PartsAvailable
    BY <1>9 DEF SignP2TR
  <2>2. k.key \in Keys /\ n \in Inputs
    BY <2>1, IterationTypes DEF SignArgs
  <2>3. Sig(k.key, Bip341Digest(Parts, n), 0) \in Items
    BY <2>1, <2>2, PartsType, Bip341DigestType, SigType
  <2>4. <<Sig(k.key, Bip341Digest(Parts, n), 0)>> \in Seq(Items) /\ <<>> \in Seq(Items)
    BY <2>3
  <2>5. UNCHANGED <<wtx, pre>> /\ Len(tap') = 1 /\ tap' \in Seq(TapParts)
    BY <1>9, <2>1, PartsType DEF SignP2TR
  <2>6. Signed(<<>>, <<Sig(k.key, Bip341Digest(Parts, n), 0)>>)
    BY <1>9 DEF SignP2TR
  <2>7. QED
    BY <2>1, <2>4, <2>5, <2>6, SignedType DEF Call
<1>10. CASE SignFails
  <2>1. Held /\ Call /\ n <= N /\ Fail
    BY <1>10 DEF SignFails
  <2>2. pre' = <<>> \/ (Len(pre') = 1 /\ pre' \in Seq(OutSeqs))
    BY <1>10, <2>1, PreimageType DEF SignFails, Call
  <2>3. tap' = <<>> \/ (Len(tap') = 1 /\ tap' \in Seq(TapParts))
    BY <1>10, <2>1, PartsType DEF SignFails, Call
  <2>4. QED
    BY <2>1, <2>2, <2>3, FailType
<1>11. CASE SignEnd
  BY <1>11 DEF SignEnd, tx, frame, TypeOK
<1>12. CASE Return
  BY <1>12 DEF Return, tx, TypeOK, NoCall
<1>13. CASE UNCHANGED vars
  BY <1>13 DEF vars, TypeOK, NoCall
<1>14. QED
  BY <1>1, <1>2, <1>3, <1>4, <1>5, <1>6, <1>7, <1>8, <1>9, <1>10, <1>11,
     <1>12, <1>13 DEF Next

LEMMA InitType == Init => TypeOK
<1> SUFFICES ASSUME Init PROVE TypeOK
  OBVIOUS
<1>1. outs = <<>> /\ outs \in OutSeqs /\ Len(outs) <= MaxOuts
  BY DEF Init, OutSeqs
<1>2. QED
  BY <1>1 DEF Init, TypeOK, NoCall

\* Every variable of a caller and of a Sign in progress keeps its type, whatever
\* the order of additions, prefilling, signing and failing.
THEOREM TypeCorrect == Spec => []TypeOK
  BY InitType, NextType, PTL DEF Spec

(***************************************************************************)
(* What a call leaves alone.                                               *)
(***************************************************************************)
\* The actions that take the iteration of input n.
Iteration == SignLegacy \/ SignP2WPKH \/ SignP2WSH \/ SignP2TR

\* An iteration writes to input n, and to nothing else of the transaction.
LEMMA IterationFrame ==
  ASSUME TypeOK, Iteration
  PROVE  /\ pc = "loop" /\ n \in Inputs /\ n' = n + 1
         /\ UNCHANGED <<prev, outs, pc, before>>
         /\ args' = NormalizedArgs
         /\ \A i \in Inputs : i # n => script'[i] = script[i] /\ wit'[i] = wit[i]
<1>1. \E s, w : Signed(s, w)
  BY DEF Iteration, SignLegacy, SignP2WPKH, SignP2WSH, SignP2TR
<1>2. pc = "loop" /\ n <= N
  BY DEF Iteration, SignLegacy, SignP2WPKH, SignP2WSH, SignP2TR
<1>3. n \in Inputs
  BY <1>2 DEF TypeOK, Inputs
<1>4. QED
  BY <1>1, <1>2, <1>3 DEF Signed, TypeOK

\* The actions that end an iteration with an error.
LEMMA FailFrame ==
  ASSUME RejectFlagOrScheme \/ SignFails
  PROVE  /\ pc = "loop" /\ pc' = "err" /\ n <= N
         /\ UNCHANGED <<prev, outs, script, wit, n, wtx, before>>
         /\ args' = NormalizedArgs
  BY DEF RejectFlagOrScheme, SignFails, Fail, tx

\* Normalizing the arguments of input n changes its flag and nothing else.
LEMMA NormalizedArgsFrame ==
  ASSUME TypeOK, pc # "idle", n \in Inputs
  PROVE  /\ \A i \in Inputs : i # n => NormalizedArgs[i] = args[i]
         /\ NormalizedArgs[n] = [k EXCEPT !.flag = Flag]
         /\ \A i \in Inputs : /\ NormalizedArgs[i].prev = args[i].prev
                              /\ NormalizedArgs[i].amount = args[i].amount
<1>1. args \in [Inputs -> SignArgs] /\ k \in SignArgs
  BY DEF TypeOK, k
<1>2. QED
  BY <1>1 DEF NormalizedArgs, k, SignArgs

\* Every step either ends between calls, begins a call, takes an iteration,
\* fails, ends the loop, or changes nothing.
LEMMA StepKinds ==
  ASSUME [Next]_vars
  PROVE  \/ pc' = "idle"
         \/ \E a \in ArgVectors : SignBegin(a)
         \/ Iteration
         \/ RejectFlagOrScheme \/ SignFails
         \/ SignEnd
         \/ UNCHANGED vars
  BY DEF Next, AddNetOutput, Prefill, SetScript, Return, Iteration

LEMMA RestUntouchedStep ==
  TypeOK /\ RestUntouched /\ [Next]_vars => RestUntouched'
<1> SUFFICES ASSUME TypeOK, RestUntouched, [Next]_vars PROVE RestUntouched'
  OBVIOUS
<1>1. CASE pc' = "idle"
  BY <1>1 DEF RestUntouched
<1>2. ASSUME NEW a \in ArgVectors, SignBegin(a) PROVE RestUntouched'
  BY <1>2 DEF SignBegin, tx, RestUntouched
<1>3. CASE Iteration
  BY <1>3, IterationFrame DEF RestUntouched, Inputs
<1>4. CASE RejectFlagOrScheme \/ SignFails
  BY <1>4, FailFrame DEF RestUntouched
<1>5. CASE SignEnd
  BY <1>5 DEF SignEnd, tx, frame, RestUntouched
<1>6. CASE UNCHANGED vars
  BY <1>6 DEF vars, RestUntouched
<1>7. QED
  BY <1>1, <1>2, <1>3, <1>4, <1>5, <1>6, StepKinds

\* A call that stops at an input has left it, and every input after it, as they
\* were when the call began: BtcTx.Sign fails without half-written inputs.
THEOREM RestIsUntouched == Spec => []RestUntouched
<1>1. Init => RestUntouched
  BY DEF Init, RestUntouched
<1>2. QED
  BY <1>1, TypeCorrect, RestUntouchedStep, PTL DEF Spec

(***************************************************************************)
(* The parts a call caches.                                                *)
(***************************************************************************)
LEMMA CachesCurrentStep ==
  TypeOK /\ CachesCurrent /\ [Next]_vars => CachesCurrent'
<1> SUFFICES ASSUME TypeOK, CachesCurrent, [Next]_vars PROVE CachesCurrent'
  OBVIOUS
<1>1. CASE pc' = "idle"
  BY <1>1 DEF CachesCurrent
<1>2. ASSUME NEW a \in ArgVectors, SignBegin(a) PROVE CachesCurrent'
  BY <1>2 DEF SignBegin, tx, CachesCurrent, TypeOK, NoCall
<1>3. ASSUME pc # "idle", n \in Inputs, args' = NormalizedArgs, outs' = outs
      PROVE  PartsNow' = PartsNow
  BY <1>3, NormalizedArgsFrame DEF PartsNow
<1>4. ASSUME pc # "idle" PROVE Preimage = outs /\ Parts = PartsNow
  BY <1>4 DEF CachesCurrent, Preimage, Parts
<1>5. CASE Iteration
  <2>1. pc # "idle" /\ n \in Inputs /\ outs' = outs /\ PartsNow' = PartsNow
    BY <1>3, <1>5, IterationFrame
  <2>2. pre' \in {pre, <<Preimage>>} /\ tap' \in {tap, <<Parts>>}
        /\ wtx'.outs = wtx.outs
    BY <1>5, <2>1 DEF Iteration, SignLegacy, SignP2WPKH, SignP2WSH, SignP2TR, TypeOK
  <2>3. QED
    BY <1>4, <2>1, <2>2 DEF CachesCurrent
<1>6. CASE RejectFlagOrScheme \/ SignFails
  <2>1. pc # "idle" /\ n \in Inputs /\ outs' = outs /\ PartsNow' = PartsNow
        /\ wtx' = wtx
    BY <1>3, <1>6, FailFrame DEF TypeOK, Inputs
  <2>2. pre' \in {pre, <<Preimage>>} /\ tap' \in {tap, <<Parts>>}
    BY <1>6 DEF RejectFlagOrScheme, SignFails
  <2>3. QED
    BY <1>4, <2>1, <2>2 DEF CachesCurrent
<1>7. CASE SignEnd
  BY <1>7 DEF SignEnd, tx, frame, CachesCurrent, PartsNow
<1>8. CASE UNCHANGED vars
  BY <1>8 DEF vars, CachesCurrent, PartsNow
<1>9. QED
  BY <1>1, <1>2, <1>5, <1>6, <1>7, <1>8, StepKinds

\* The preimage parts, the taproot parts and the outputs of the work transaction
\* that Sign computes once are never stale when it uses them.
THEOREM CachesAreCurrent == Spec => []CachesCurrent
<1>1. Init => CachesCurrent
  BY DEF Init, CachesCurrent
<1>2. QED
  BY <1>1, TypeCorrect, CachesCurrentStep, PTL DEF Spec

(***************************************************************************)
(* What Sign signs can be spent.                                           *)
(***************************************************************************)
\* The invariant that carries the proof: the signed inputs spend because the
\* parts are current, and a legacy input has no witness because it was untouched.
SignInv == TypeOK /\ RestUntouched /\ CachesCurrent /\ SignedInputsSpend

\* An input that the step does not write, of a call that goes on.
LEMMA SpendsStable ==
  ASSUME NEW i \in Inputs, UNCHANGED <<prev, outs>>,
         script'[i] = script[i], wit'[i] = wit[i]
  PROVE  Spends(i)' <=> Spends(i)
  BY DEF Spends, RequiredDigest, UnlockingScript, UnlockingWitness, StackFor,
         PrevLock

LEMMA OwedStable ==
  ASSUME NEW i \in Inputs, UNCHANGED <<prev, before>>, args'[i] = args[i],
         \A j \in Inputs : /\ args'[j].prev = args[j].prev
                           /\ args'[j].amount = args[j].amount
  PROVE  Owed(i)' <=> Owed(i)
  BY DEF Owed, CommitsAmount, PrevLock

\* The input just signed, when what was written is what its output requires.
LEMMA SpendsNow ==
  ASSUME NEW i \in Inputs, UNCHANGED <<prev, outs>>,
         \E byte \in SigBytes(prev[i].form) :
            LET s == Sig(prev[i].key, RequiredDigest(i, byte), byte) IN
            script'[i] = UnlockingScript(i, s) /\ wit'[i] = UnlockingWitness(i, s)
  PROVE  Spends(i)'
<1>1. \A byte : RequiredDigest(i, byte)' = RequiredDigest(i, byte)
  BY DEF RequiredDigest, PrevLock
<1>2. QED
  BY <1>1 DEF Spends, UnlockingScript, UnlockingWitness, StackFor

\* What the caller kept, read from the arguments of the iteration.
LEMMA OwedNow ==
  ASSUME TypeOK, pc # "idle", NEW i \in Inputs, i = n, args' = NormalizedArgs,
         UNCHANGED <<prev, before>>, Owed(i)'
  PROVE  /\ k.key = prev[i].key
         /\ prev[i].form \notin LegacyForms \/ ForkId(Flag) => k.amount = prev[i].amount
         /\ Flag < 256
         /\ prev[i].form = "p2pk" => ~ForkId(Flag)
         /\ \/ k.scheme = prev[i].form
            \/ /\ k.scheme = "p2wsh" /\ prev[i].form \in WshForms
               /\ IF IsProgram(before.script[i]) THEN before.script[i] = <<PrevLock(i)>>
                  ELSE prev[i].form = "p2wsh:p2pkh"
         /\ prev[i].form \in LegacyForms => before.wit[i] = <<>>
         /\ prev[i].form = "p2tr" => \A j \in Inputs :
              args[j].prev = <<PrevLock(j)>> /\ args[j].amount = prev[j].amount
<1>1. /\ args'[i] = [k EXCEPT !.flag = Flag]
      /\ \A j \in Inputs : args'[j].prev = args[j].prev
                           /\ args'[j].amount = args[j].amount
  BY NormalizedArgsFrame
<1>2. k \in SignArgs
  BY DEF TypeOK, k
<1>3. /\ args'[i].key = k.key /\ args'[i].amount = k.amount
      /\ args'[i].scheme = k.scheme /\ args'[i].flag = Flag
  BY <1>1, <1>2 DEF SignArgs
<1>4. \A j \in Inputs : PrevLock(j)' = PrevLock(j)
  BY DEF PrevLock
<1>5. QED
  BY <1>1, <1>3, <1>4 DEF Owed, CommitsAmount, IsProgram

LEMMA AcceptedByte ==
  ASSUME TypeOK, pc # "idle", n <= N, NEW i \in Inputs,
         Accepted, k.scheme # "p2tr", Flag < 256, prev[i].form # "p2tr"
  PROVE  Flag \in SigBytes(prev[i].form)
<1>1. Flag \in Nat
  BY TypeOKParts, IterationTypes
<1>2. QED
  BY <1>1 DEF Accepted, SigBytes

LEMMA LegacySpends ==
  ASSUME SignInv, SignLegacy, NEW i \in Inputs, i = n, Owed(i)'
  PROVE  Spends(i)'
<1> DEFINE p == prev[i]
<1>1. /\ TypeOK /\ pc = "loop" /\ n \in Inputs /\ n <= N
      /\ UNCHANGED <<prev, outs, before>> /\ args' = NormalizedArgs
  BY IterationFrame DEF SignInv, Iteration, SignLegacy
<1>2. k.scheme \in LegacyForms /\ Accepted
  BY DEF SignLegacy
<1>3. p.form = k.scheme /\ p.key = k.key
  BY <1>1, <1>2, OwedNow DEF LegacyForms
<1>4. ~ForkId(Flag)
  BY <1>1, <1>3, OwedNow DEF SignLegacy, LegacyForms, PubKeyHash
<1>5. Flag \in SigBytes(p.form)
  BY <1>1, <1>2, <1>3, OwedNow, AcceptedByte DEF LegacyForms
<1>6. wit[i] = <<>>
  BY <1>1, <1>2, <1>3, OwedNow DEF SignInv, RestUntouched, TypeOK
<1>7. wtx.outs = outs
  BY <1>1 DEF SignInv, CachesCurrent
<1> DEFINE sig == Sig(k.key, LegacyDigest(OnlyInput(i, Lock(k.scheme, k.key)),
                                          outs, Flag), Flag)
<1>8. RequiredDigest(i, Flag) =
        LegacyDigest(OnlyInput(i, Lock(k.scheme, k.key)), outs, Flag)
  BY <1>2, <1>3, <1>4 DEF RequiredDigest, PrevLock, LegacyForms
<1>9. /\ script'[i] = IF k.scheme = "p2pk" THEN <<sig>>
                      ELSE <<sig, Pub(k.scheme, k.key)>>
      /\ wit'[i] = <<>>
  BY <1>1, <1>6, <1>7 DEF SignLegacy, Signed, WorkScripts, TypeOK
<1>10. script'[i] = UnlockingScript(i, sig) /\ wit'[i] = UnlockingWitness(i, sig)
  BY <1>2, <1>3, <1>9 DEF UnlockingScript, UnlockingWitness, StackFor, Base, WshForms,
                              LegacyForms, PubKeyHash
<1>11. QED
  BY <1>1, <1>3, <1>5, <1>8, <1>10, SpendsNow

LEMMA P2WPKHSpends ==
  ASSUME SignInv, SignP2WPKH, NEW i \in Inputs, i = n, Owed(i)'
  PROVE  Spends(i)'
<1> DEFINE p == prev[i]
           code == Lock(IF k.scheme = "p2pukh" THEN "p2pukh" ELSE "p2pkh", k.key)
           sig == Sig(k.key, Bip143Digest(outs, i, code, k.amount, Flag), Flag)
           unlock == <<sig, Pub(k.scheme, k.key)>>
<1>1. /\ TypeOK /\ pc = "loop" /\ n \in Inputs /\ n <= N
      /\ UNCHANGED <<prev, outs, before>> /\ args' = NormalizedArgs
  BY IterationFrame DEF SignInv, Iteration, SignP2WPKH
<1>2. /\ \/ k.scheme \in {"p2wpkh", "p2sh:p2wpkh"}
         \/ k.scheme \in PubKeyHash /\ ForkId(Flag)
      /\ Accepted
  BY DEF SignP2WPKH
<1>3. p.form = k.scheme /\ p.key = k.key
  BY <1>1, <1>2, OwedNow DEF PubKeyHash
<1>4. k.amount = p.amount
  BY <1>1, <1>2, <1>3, OwedNow DEF LegacyForms
<1>5. Flag \in SigBytes(p.form)
  BY <1>1, <1>2, <1>3, OwedNow, AcceptedByte DEF PubKeyHash
<1>6. Preimage = outs
  BY <1>1 DEF SignInv, CachesCurrent, Preimage
<1>7. RequiredDigest(i, Flag) = Bip143Digest(outs, i, code, k.amount, Flag)
  BY <1>2, <1>3, <1>4 DEF RequiredDigest, Base, WshForms, LegacyForms, PubKeyHash
<1>8. CASE k.scheme \in PubKeyHash
  <2>1. script'[i] = unlock /\ wit'[i] = wit[i]
    BY <1>1, <1>6, <1>8 DEF SignP2WPKH, Signed, TypeOK, PubKeyHash
  <2>2. wit[i] = <<>>
    BY <1>1, <1>3, <1>8, OwedNow
       DEF SignInv, RestUntouched, TypeOK, LegacyForms, PubKeyHash
  <2>3. script'[i] = UnlockingScript(i, sig) /\ wit'[i] = UnlockingWitness(i, sig)
    BY <1>3, <1>8, <2>1, <2>2 DEF UnlockingScript, UnlockingWitness, StackFor, Base, WshForms,
                              LegacyForms, PubKeyHash
  <2>4. QED
    BY <1>1, <1>3, <1>5, <1>7, <2>3, SpendsNow
<1>9. CASE k.scheme = "p2wpkh"
  <2>1. script'[i] = <<>> /\ wit'[i] = unlock
    BY <1>1, <1>6, <1>9 DEF SignP2WPKH, Signed, TypeOK, PubKeyHash
  <2>2. script'[i] = UnlockingScript(i, sig) /\ wit'[i] = UnlockingWitness(i, sig)
    BY <1>3, <1>9, <2>1 DEF UnlockingScript, UnlockingWitness, StackFor, Base, WshForms,
                              LegacyForms, PubKeyHash, Pub
  <2>3. QED
    BY <1>1, <1>3, <1>5, <1>7, <2>2, SpendsNow
<1>10. CASE k.scheme = "p2sh:p2wpkh"
  <2>1. script'[i] = <<Push(Lock("p2wpkh", k.key))>> /\ wit'[i] = unlock
    BY <1>1, <1>6, <1>10 DEF SignP2WPKH, Signed, TypeOK, PubKeyHash
  <2>2. script'[i] = UnlockingScript(i, sig) /\ wit'[i] = UnlockingWitness(i, sig)
    BY <1>3, <1>10, <2>1 DEF UnlockingScript, UnlockingWitness, StackFor, Base, WshForms,
                              LegacyForms, PubKeyHash, Pub
  <2>3. QED
    BY <1>1, <1>3, <1>5, <1>7, <2>2, SpendsNow
<1>11. QED
  BY <1>2, <1>8, <1>9, <1>10

LEMMA P2WSHSpends ==
  ASSUME SignInv, SignP2WSH, NEW i \in Inputs, i = n, Owed(i)'
  PROVE  Spends(i)'
<1> DEFINE p == prev[i]
<1>1. /\ TypeOK /\ pc = "loop" /\ n <= N
      /\ UNCHANGED <<prev, outs, before>> /\ args' = NormalizedArgs
  BY IterationFrame DEF SignInv, Iteration, SignP2WSH
<1>2. k.scheme \in WshForms \cup {"p2wsh"} /\ Accepted
  BY DEF SignP2WSH
<1>3. p.form \in WshForms /\ p.key = k.key /\ k.amount = p.amount
  <2>1. p.form # "p2wsh"
    <3>1. prev[i] \in PrevOut
      BY <1>1 DEF TypeOK
    <3>2. p.form \in PrevForms
      BY <3>1 DEF PrevOut
    <3>3. QED
      BY <3>2 DEF PrevForms, LegacyForms, WshForms
  <2>2. QED
    BY <1>1, <1>2, <2>1, OwedNow DEF WshForms, LegacyForms
<1>4. Flag \in SigBytes(p.form)
  BY <1>1, <1>2, <1>3, OwedNow, AcceptedByte DEF WshForms
<1>5. Preimage = outs
  BY <1>1 DEF SignInv, CachesCurrent, Preimage
<1>6. script[i] = before.script[i]
  BY <1>1 DEF SignInv, RestUntouched, TypeOK
<1>7. Candidates = {InnerOf(p.form)}
  <2>1. CASE k.scheme # "p2wsh"
    BY <1>1, <2>1, OwedNow DEF Candidates
  <2>2. CASE k.scheme = "p2wsh" /\ IsProgram(script[i])
    <3>1. script[i] = <<Lock(p.form, k.key)>>
      BY <1>1, <1>2, <1>3, <1>6, <2>2, OwedNow DEF WshForms, PrevLock
    <3>2. \A g \in WshForms : script[i] = <<Lock(g, k.key)>> <=> g = p.form
      BY <3>1 DEF Lock
    <3>3. QED
      BY <1>3, <2>2, <3>2 DEF Candidates
  <2>3. CASE k.scheme = "p2wsh" /\ ~IsProgram(script[i])
    <3>1. p.form = "p2wsh:p2pkh"
      BY <1>1, <1>3, <1>6, <2>3, OwedNow DEF WshForms
    <3>2. QED
      BY <2>3, <3>1 DEF Candidates, InnerOf
  <2>4. QED
    BY <2>1, <2>2, <2>3
<1> DEFINE inner == InnerOf(p.form)
           ws == Lock(inner, k.key)
           sig == Sig(k.key, Bip143Digest(outs, i, ws, k.amount, Flag), Flag)
<1>8. /\ script'[i] = <<>>
      /\ wit'[i] = IF inner \in PubKeyHash
                   THEN <<sig, Pub(inner, k.key), ws>> ELSE <<sig, ws>>
  BY <1>1, <1>5, <1>7 DEF SignP2WSH, Signed, TypeOK
<1>9. Base(p.form) = inner
  BY <1>3 DEF Base, WshForms
<1>10. RequiredDigest(i, Flag) = Bip143Digest(outs, i, ws, k.amount, Flag)
  BY <1>3, <1>9 DEF RequiredDigest, WshForms, LegacyForms
<1>11. script'[i] = UnlockingScript(i, sig) /\ wit'[i] = UnlockingWitness(i, sig)
  <2>1. p.form \notin LegacyForms /\ p.form # "p2sh:p2wpkh"
    BY <1>3 DEF WshForms, LegacyForms
  <2>2. StackFor(i, sig) = IF inner \in PubKeyHash THEN <<sig, Pub(inner, k.key)>>
                           ELSE <<sig>>
    BY <1>3, <1>9 DEF StackFor
  <2>3. UnlockingScript(i, sig) = <<>>
    BY <2>1 DEF UnlockingScript
  <2>4. UnlockingWitness(i, sig) = Append(StackFor(i, sig), ws)
    BY <1>3, <1>9, <2>1 DEF UnlockingWitness
  <2>5. QED
    BY <1>8, <2>2, <2>3, <2>4, SMTT(30)
<1>12. QED
  BY <1>1, <1>3, <1>4, <1>10, <1>11, SpendsNow

LEMMA P2TRSpends ==
  ASSUME SignInv, SignP2TR, NEW i \in Inputs, i = n, Owed(i)'
  PROVE  Spends(i)'
<1> DEFINE p == prev[i]
           sig == Sig(k.key, Bip341Digest(PartsNow, i), 0)
<1>1. /\ TypeOK /\ pc = "loop" /\ n <= N
      /\ UNCHANGED <<prev, outs, before>> /\ args' = NormalizedArgs
  BY IterationFrame DEF SignInv, Iteration, SignP2TR
<1>2. k.scheme = "p2tr"
  BY DEF SignP2TR
<1>3. p.form = "p2tr" /\ p.key = k.key
  BY <1>1, <1>2, OwedNow
<1>4. PartsNow = [prevs |-> [j \in Inputs |-> <<PrevLock(j)>>],
                  amounts |-> [j \in Inputs |-> prev[j].amount], outs |-> outs]
  BY <1>1, <1>3, OwedNow DEF PartsNow
<1>5. Parts = PartsNow
  BY <1>1 DEF SignInv, CachesCurrent, Parts
<1>6. RequiredDigest(i, 0) = Bip341Digest(PartsNow, i)
  BY <1>3, <1>4 DEF RequiredDigest
<1>7. script'[i] = <<>> /\ wit'[i] = <<sig>>
  BY <1>1, <1>5 DEF SignP2TR, Signed, TypeOK
<1>8. script'[i] = UnlockingScript(i, sig) /\ wit'[i] = UnlockingWitness(i, sig)
  BY <1>3, <1>7 DEF UnlockingScript, UnlockingWitness, StackFor, Base, WshForms,
                    LegacyForms, PubKeyHash
<1>9. 0 \in SigBytes(p.form)
  BY <1>3 DEF SigBytes
<1>10. QED
  BY <1>1, <1>3, <1>6, <1>8, <1>9, SpendsNow

LEMMA SignedInputsSpendStep ==
  SignInv /\ [Next]_vars => SignedInputsSpend'
<1> SUFFICES ASSUME SignInv, [Next]_vars PROVE SignedInputsSpend'
  OBVIOUS
<1>1. CASE pc' = "idle"
  BY <1>1 DEF SignedInputsSpend
<1>2. ASSUME NEW a \in ArgVectors, SignBegin(a) PROVE SignedInputsSpend'
  BY <1>2 DEF SignBegin, SignedInputsSpend, Inputs
<1>3. ASSUME args' = NormalizedArgs, UNCHANGED <<prev, outs, before>>,
             pc = "loop", n \in Inputs,
             NEW i \in Inputs, i < n, Owed(i)',
             script'[i] = script[i], wit'[i] = wit[i]
      PROVE  Spends(i)'
  <2>1. args'[i] = args[i] /\ \A j \in Inputs : /\ args'[j].prev = args[j].prev
                                                /\ args'[j].amount = args[j].amount
    BY <1>3, NormalizedArgsFrame DEF SignInv, Inputs
  <2>2. Owed(i)
    BY <1>3, <2>1, OwedStable
  <2>3. Spends(i)
    BY <1>3, <2>2 DEF SignInv, SignedInputsSpend
  <2>4. QED
    BY <1>3, <2>3, SpendsStable
<1>4. CASE Iteration
  <2>1. /\ pc = "loop" /\ n \in Inputs /\ n' = n + 1
        /\ args' = NormalizedArgs /\ UNCHANGED <<prev, outs, before>>
        /\ \A i \in Inputs : i # n => script'[i] = script[i] /\ wit'[i] = wit[i]
    BY <1>4, IterationFrame DEF SignInv
  <2>2. SUFFICES ASSUME NEW i \in Inputs, i < n', Owed(i)' PROVE Spends(i)'
    BY DEF SignedInputsSpend
  <2>3. CASE i = n
    BY <1>4, <2>2, <2>3, LegacySpends, P2WPKHSpends, P2WSHSpends, P2TRSpends
       DEF Iteration
  <2>4. CASE i # n
    BY <1>3, <2>1, <2>2, <2>4 DEF Inputs
  <2>5. QED
    BY <2>3, <2>4
<1>5. CASE RejectFlagOrScheme \/ SignFails
  <2>1. /\ pc = "loop" /\ n \in Inputs /\ n' = n /\ args' = NormalizedArgs
        /\ UNCHANGED <<prev, outs, before, script, wit>>
    BY <1>5, FailFrame DEF SignInv, TypeOK, Inputs
  <2>2. SUFFICES ASSUME NEW i \in Inputs, i < n', Owed(i)' PROVE Spends(i)'
    BY DEF SignedInputsSpend
  <2>3. QED
    BY <1>3, <2>1, <2>2
<1>6. ASSUME pc # "idle", UNCHANGED <<prev, outs, script, wit, args, n, before>>
      PROVE  SignedInputsSpend'
  <2>1. SUFFICES ASSUME NEW i \in Inputs, i < n', Owed(i)' PROVE Spends(i)'
    BY DEF SignedInputsSpend
  <2>2. Owed(i)
    BY <1>6, <2>1, OwedStable
  <2>3. Spends(i)
    BY <1>6, <2>1, <2>2 DEF SignInv, SignedInputsSpend
  <2>4. QED
    BY <1>6, <2>3, SpendsStable
<1>7. CASE SignEnd
  BY <1>6, <1>7 DEF SignEnd, tx, frame
<1>8. CASE UNCHANGED vars
  BY <1>1, <1>6, <1>8 DEF vars
<1>9. QED
  BY <1>1, <1>2, <1>4, <1>5, <1>7, <1>8, StepKinds

\* For any number of inputs of any mix of kinds, any history of prefilling,
\* earlier calls and failures: every input BtcTx.Sign has gone past, for which the
\* caller passed what the output spent requires, can spend that output.
THEOREM SignedInputsCanSpend == Spec => []SignedInputsSpend
<1>1. Init => SignInv
  BY InitType DEF Init, SignInv, RestUntouched, CachesCurrent, SignedInputsSpend
<1>2. SignInv /\ [Next]_vars => SignInv'
  BY NextType, RestUntouchedStep, CachesCurrentStep, SignedInputsSpendStep
     DEF SignInv
<1>3. SignInv => SignedInputsSpend
  BY DEF SignInv
<1>4. QED
  BY <1>1, <1>2, <1>3, PTL DEF Spec

(***************************************************************************)
(* The extractor.                                                          *)
(***************************************************************************)
LEMMA ItemKinds ==
  /\ \A key, d, f : IsSig(Sig(key, d, f)) /\ ~ IsPub(Sig(key, d, f))
  /\ \A f, key : IsPub(Pub(f, key)) /\ ~ IsSig(Pub(f, key))
  /\ \A f, key : ~ IsPub(Lock(f, key)) /\ ~ IsSig(Lock(f, key))
  /\ \A x : ~ IsPub(Push(x)) /\ ~ IsSig(Push(x))
<1>1. \A key, d, f : DOMAIN Sig(key, d, f) = {"signer", "digest", "byte"}
  BY DEF Sig
<1>2. \A f, key : DOMAIN Pub(f, key) = {"enc", "pub"}
  BY DEF Pub
<1>3. \A f, key : DOMAIN Lock(f, key) = {"form", "key"}
  BY DEF Lock
<1>4. \A x : DOMAIN Push(x) = {"redeem"}
  BY DEF Push
<1>5. QED
  BY <1>1, <1>2, <1>3, <1>4 DEF IsSig, IsPub

\* The forms of outputs, and what unlocks each.
LEMMA UnlockShapes ==
  ASSUME NEW i, NEW s, prev[i].form \in PrevForms
  PROVE  LET p == prev[i]  script_ == UnlockingScript(i, s)  wit_ == UnlockingWitness(i, s)  IN
         \/ p.form \in PubKeyHash /\ script_ = <<s, Pub(p.form, p.key)>> /\ wit_ = <<>>
         \/ p.form = "p2pk" /\ script_ = <<s>> /\ wit_ = <<>>
         \/ p.form = "p2wpkh" /\ script_ = <<>> /\ wit_ = <<s, Pub("p2pkh", p.key)>>
         \/ /\ p.form = "p2sh:p2wpkh" /\ script_ = <<Push(Lock("p2wpkh", p.key))>>
            /\ wit_ = <<s, Pub("p2pkh", p.key)>>
         \/ p.form = "p2tr" /\ script_ = <<>> /\ wit_ = <<s>>
         \/ /\ p.form \in WshForms /\ script_ = <<>>
            /\ wit_ = LET base == InnerOf(p.form) IN
                      IF base \in PubKeyHash THEN <<s, Pub(base, p.key), Lock(base, p.key)>>
                      ELSE <<s, Lock(base, p.key)>>
<1> DEFINE p == prev[i]
<1>1. CASE p.form \in PubKeyHash
  BY <1>1 DEF UnlockingScript, UnlockingWitness, StackFor, Base, PubKeyHash, LegacyForms, WshForms
<1>2. CASE p.form \in {"p2pk", "p2wpkh", "p2sh:p2wpkh", "p2tr"}
  BY <1>2 DEF UnlockingScript, UnlockingWitness, StackFor, Base, PubKeyHash, LegacyForms, WshForms
<1>3. CASE p.form \in WshForms
  <2>1. Base(p.form) = InnerOf(p.form) /\ p.form \notin LegacyForms /\ p.form # "p2sh:p2wpkh"
    BY <1>3 DEF Base, LegacyForms, WshForms
  <2>2. StackFor(i, s) = IF InnerOf(p.form) \in PubKeyHash
                         THEN <<s, Pub(InnerOf(p.form), p.key)>> ELSE <<s>>
    BY <2>1 DEF StackFor
  <2>3. UnlockingScript(i, s) = <<>> /\ UnlockingWitness(i, s) = Append(StackFor(i, s), Lock(InnerOf(p.form), p.key))
    BY <1>3, <2>1 DEF UnlockingScript, UnlockingWitness
  <2>4. QED
    BY <1>3, <2>2, <2>3
<1>4. QED
  BY <1>1, <1>2, <1>3 DEF PrevForms, LegacyForms, PubKeyHash

\* The base flag asks for neither the Bitcoin Cash digest nor for anyone's inputs.
LEMMA BaseFlag == FlagOK(1) /\ ~ ForkId(1)
  BY DEF FlagOK, ForkId

\* The digest that is wanted when the byte on the wire is the base flag.
LEMMA BaseDigest ==
  ASSUME NEW i
  PROVE  LET p == prev[i] IN
         /\ p.form \in PubKeyHash =>
               RequiredDigest(i, 1) = LegacyDigest(OnlyInput(i, PrevLock(i)), outs, 1)
         /\ p.form = "p2wpkh" =>
               RequiredDigest(i, 1) = Bip143Digest(outs, i, Lock("p2pkh", p.key), p.amount, 1)
         /\ p.form = "p2tr" =>
               RequiredDigest(i, 0) =
                  Bip341Digest([prevs |-> [j \in Inputs |-> <<PrevLock(j)>>],
                                amounts |-> [j \in Inputs |-> prev[j].amount],
                                outs |-> outs], i)
  BY BaseFlag DEF RequiredDigest, PubKeyHash, LegacyForms, Base

LEMMA Extraction ==
  ASSUME TypeOK, NEW i \in Inputs, Spends(i)
  PROVE  LET found == Extract(i) IN
         /\ found # <<>> <=> prev[i].form \in PubKeyHash \cup {"p2wpkh", "p2tr"}
         /\ found # <<>> =>
               \A d \in InputSighash(i, found[1], [j \in Inputs |-> PrevLock(j)],
                                     [j \in Inputs |-> prev[j].amount]) :
                   d = found[1].sig.digest
<1> DEFINE p == prev[i]
           locks == [j \in Inputs |-> PrevLock(j)]
           amounts == [j \in Inputs |-> prev[j].amount]
<1>1. p.form \in PrevForms
  BY DEF TypeOK, PrevOut
<1>2. PICK byte \in SigBytes(p.form) :
         LET s == Sig(p.key, RequiredDigest(i, byte), byte) IN
         script[i] = UnlockingScript(i, s) /\ wit[i] = UnlockingWitness(i, s)
  BY DEF Spends
<1> DEFINE s == Sig(p.key, RequiredDigest(i, byte), byte)
<1>3. byte \in 0..255 /\ (p.form = "p2tr" => byte = 0)
  BY <1>2 DEF SigBytes
<1>4. s.digest = RequiredDigest(i, byte) /\ s.byte = byte /\ IsSig(s) /\ ~ IsPub(s)
  <2>1. byte % 256 = byte
    BY <1>3
  <2>2. QED
    BY <2>1, ItemKinds DEF Sig
<1>5. script[i] = UnlockingScript(i, s) /\ wit[i] = UnlockingWitness(i, s)
  BY <1>2
<1>6. locks[i] = PrevLock(i) /\ amounts[i] = p.amount
  OBVIOUS
<1> HIDE DEF s
<1>7. CASE p.form \in PubKeyHash
  <2> DEFINE x == [scheme |-> "p2pkh", sig |-> s, pub |-> Pub(p.form, p.key)]
  <2>1. script[i] = <<s, Pub(p.form, p.key)>> /\ wit[i] = <<>>
    BY <1>1, <1>5, <1>7, UnlockShapes DEF PubKeyHash, WshForms
  <2>2. Extract(i) = <<x>>
    BY <1>4, <2>1, ItemKinds DEF Extract, ExtractScriptSig, IsSigThenPub
  <2>3. ASSUME NEW d \in InputSighash(i, x, locks, amounts) PROVE d = x.sig.digest
    <3>1. x.sig.byte = 1 /\ d = LegacyDigest(OnlyInput(i, locks[i]), outs, 1)
      BY <2>3 DEF InputSighash
    <3>2. QED
      BY <1>4, <1>6, <1>7, <3>1, BaseDigest
  <2>4. QED
    BY <1>7, <2>2, <2>3
<1>8. CASE p.form = "p2wpkh"
  <2> DEFINE x == [scheme |-> "p2wpkh", sig |-> s, pub |-> Pub("p2pkh", p.key)]
  <2>1. script[i] = <<>> /\ wit[i] = <<s, Pub("p2pkh", p.key)>>
    BY <1>1, <1>5, <1>8, UnlockShapes DEF PubKeyHash, WshForms
  <2>2. Extract(i) = <<x>>
    BY <1>4, <2>1, ItemKinds DEF Extract, ExtractWitness, IsSigThenPub
  <2>3. ASSUME NEW d \in InputSighash(i, x, locks, amounts) PROVE d = x.sig.digest
    <3>1. x.sig.byte = 1 /\ d = Bip143Digest(outs, i, Lock("p2pkh", p.key), amounts[i], 1)
      BY <2>3 DEF InputSighash, Pub
    <3>2. QED
      BY <1>4, <1>6, <1>8, <3>1, BaseDigest
  <2>4. QED
    BY <1>8, <2>2, <2>3
<1>9. CASE p.form = "p2tr"
  <2> DEFINE x == [scheme |-> "p2tr-keypath", sig |-> s, pub |-> <<>>]
  <2>1. script[i] = <<>> /\ wit[i] = <<s>>
    BY <1>1, <1>5, <1>9, UnlockShapes DEF PubKeyHash, WshForms
  <2>2. Extract(i) = <<x>>
    BY <1>4, <2>1 DEF Extract, ExtractWitness
  <2>3. ASSUME NEW d \in InputSighash(i, x, locks, amounts) PROVE d = x.sig.digest
    <3>1. d = Bip341Digest([prevs |-> [j \in Inputs |-> <<locks[j]>>],
                            amounts |-> amounts, outs |-> outs], i)
      BY <2>3 DEF InputSighash
    <3>2. [j \in Inputs |-> <<locks[j]>>] = [j \in Inputs |-> <<PrevLock(j)>>]
      OBVIOUS
    <3>3. QED
      BY <1>3, <1>4, <1>9, <3>1, <3>2, BaseDigest
  <2>4. QED
    BY <1>9, <2>2, <2>3
<1>10. CASE p.form \in {"p2pk", "p2sh:p2wpkh"} \cup WshForms
  <2>1. Extract(i) = <<>>
    <3>1. CASE p.form = "p2pk"
      <4>1. script[i] = <<s>> /\ wit[i] = <<>>
        BY <1>1, <1>5, <3>1, UnlockShapes DEF PubKeyHash, WshForms
      <4>2. QED
        BY <4>1 DEF Extract, ExtractScriptSig, IsSigThenPub
    <3>2. CASE p.form = "p2sh:p2wpkh"
      <4>1. script[i] # <<>> /\ wit[i] # <<>>
        BY <1>1, <1>5, <3>2, UnlockShapes DEF PubKeyHash, WshForms
      <4>2. QED
        BY <4>1 DEF Extract
    <3>3. CASE p.form \in WshForms
      <4> DEFINE base == InnerOf(p.form)
      <4>1. script[i] = <<>> /\ wit[i] = IF base \in PubKeyHash
                        THEN <<s, Pub(base, p.key), Lock(base, p.key)>>
                        ELSE <<s, Lock(base, p.key)>>
        BY <1>1, <1>5, <3>3, UnlockShapes DEF PubKeyHash, WshForms
      <4>2. Len(wit[i]) # 1 /\ ~ IsSigThenPub(wit[i]) /\ wit[i] # <<>>
        BY <4>1, ItemKinds DEF IsSigThenPub
      <4>3. Extract(i) = ExtractWitness(wit[i])
        BY <4>1, <4>2 DEF Extract
      <4>4. QED
        BY <4>2, <4>3 DEF ExtractWitness
    <3>4. QED
      BY <1>10, <3>1, <3>2, <3>3
  <2>2. p.form \notin PubKeyHash \cup {"p2wpkh", "p2tr"}
    BY <1>10 DEF PubKeyHash, WshForms
  <2>3. QED
    BY <2>1, <2>2
<1>11. QED
  BY <1>1, <1>7, <1>8, <1>9, <1>10 DEF PrevForms, LegacyForms, PubKeyHash

\* ExtractBtcInputSig finds the signature of exactly the forms it names, and
\* InputSighash and TaprootInputSighash compute the digest that was signed, in every
\* input that spends its output (btctxparse.go).
THEOREM ExtractorInverts == Spec => []ExtractInvertsSign
<1>1. TypeOK => ExtractInvertsSign
  BY Extraction DEF ExtractInvertsSign
<1>2. QED
  BY <1>1, TypeCorrect, PTL

(***************************************************************************)
(* What can be spent was owed.                                             *)
(***************************************************************************)
LEMMA SigFields ==
  \A a, b, d, e, f, g : Sig(a, d, f) = Sig(b, e, g) => a = b /\ d = e
  BY DEF Sig

LEMMA DigestFields ==
  /\ \A s, t, os, ps, f, g : LegacyDigest(s, os, f) = LegacyDigest(t, ps, g) =>
        s = t /\ os = ps /\ f = g
  /\ \A qs, rs, i, j, c, d, a, b, f, g :
        Bip143Digest(qs, i, c, a, f) = Bip143Digest(rs, j, d, b, g) => c = d /\ a = b /\ f = g
  /\ \A qs, rs, i, j : Bip341Digest(qs, i) = Bip341Digest(rs, j) => qs = rs
  /\ \A s, os, f : LegacyDigest(s, os, f).alg = "legacy"
  /\ \A qs, i, c, a, f : Bip143Digest(qs, i, c, a, f).alg = "bip143"
  /\ \A qs, i : Bip341Digest(qs, i).alg = "bip341"
  BY DEF LegacyDigest, Bip143Digest, Bip341Digest

LEMMA LockFields == \A f, g, a, b : Lock(f, a) = Lock(g, b) => f = g /\ a = b
  BY DEF Lock

\* The rule that a digest follows tells which form is spent, and how.
LEMMA RequiredCases ==
  ASSUME NEW i, NEW byte, NEW d, d = RequiredDigest(i, byte)
  PROVE  LET p == prev[i] IN
         /\ d.alg = "legacy" =>
               /\ p.form \in LegacyForms /\ ~ ForkId(byte)
               /\ d = LegacyDigest(OnlyInput(i, PrevLock(i)), outs, byte)
         /\ d.alg = "bip143" =>
               /\ p.form # "p2tr" /\ (p.form \in LegacyForms => ForkId(byte))
               /\ d = Bip143Digest(outs, i, Lock(Base(p.form), p.key), p.amount, byte)
         /\ d.alg = "bip341" =>
               /\ p.form = "p2tr"
               /\ d = Bip341Digest([prevs |-> [j \in Inputs |-> <<PrevLock(j)>>],
                                    amounts |-> [j \in Inputs |-> prev[j].amount],
                                    outs |-> outs], i)
  BY DigestFields DEF RequiredDigest

\* The input just signed: what its output required of the bytes written.
LEMMA SpentThen ==
  ASSUME NEW i \in Inputs, UNCHANGED <<prev, outs>>, Spends(i)'
  PROVE  \E byte \in SigBytes(prev[i].form) :
            LET s == Sig(prev[i].key, RequiredDigest(i, byte), byte) IN
            script'[i] = UnlockingScript(i, s) /\ wit'[i] = UnlockingWitness(i, s)
<1>1. \A byte : RequiredDigest(i, byte)' = RequiredDigest(i, byte)
  BY DEF RequiredDigest, PrevLock
<1>2. QED
  BY <1>1 DEF Spends, UnlockingScript, UnlockingWitness, StackFor

\* The caller's side, from the arguments of the iteration.
LEMMA OwedThen ==
  ASSUME TypeOK, pc # "idle", NEW i \in Inputs, i = n, args' = NormalizedArgs,
         UNCHANGED <<prev, before>>,
         k.key = prev[i].key,
         prev[i].form \notin LegacyForms \/ ForkId(Flag) => k.amount = prev[i].amount,
         Flag < 256,
         prev[i].form = "p2pk" => ~ForkId(Flag),
         \/ k.scheme = prev[i].form
         \/ /\ k.scheme = "p2wsh" /\ prev[i].form \in WshForms
            /\ IF IsProgram(before.script[i]) THEN before.script[i] = <<PrevLock(i)>>
               ELSE prev[i].form = "p2wsh:p2pkh",
         prev[i].form \in LegacyForms => before.wit[i] = <<>>,
         prev[i].form = "p2tr" => \A j \in Inputs :
            args[j].prev = <<PrevLock(j)>> /\ args[j].amount = prev[j].amount
  PROVE  Owed(i)'
<1>1. /\ args'[i] = [k EXCEPT !.flag = Flag]
      /\ \A j \in Inputs : args'[j].prev = args[j].prev
                           /\ args'[j].amount = args[j].amount
  BY NormalizedArgsFrame
<1>2. k \in SignArgs
  BY DEF TypeOK, k
<1>3. /\ args'[i].key = k.key /\ args'[i].amount = k.amount
      /\ args'[i].scheme = k.scheme /\ args'[i].flag = Flag
  BY <1>1, <1>2 DEF SignArgs
<1>4. \A j \in Inputs : PrevLock(j)' = PrevLock(j)
  BY DEF PrevLock
<1>5. QED
  BY <1>1, <1>3, <1>4 DEF Owed, CommitsAmount, IsProgram

LEMMA LegacyOwed ==
  ASSUME SignInv, SignLegacy, NEW i \in Inputs, i = n, Spends(i)'
  PROVE  Owed(i)'
<1> DEFINE p == prev[i]
           d == LegacyDigest(OnlyInput(i, Lock(k.scheme, k.key)), outs, Flag)
           sig == Sig(k.key, d, Flag)
<1>1. /\ TypeOK /\ pc = "loop" /\ n \in Inputs /\ n <= N
      /\ UNCHANGED <<prev, outs, before>> /\ args' = NormalizedArgs
  BY IterationFrame DEF SignInv, Iteration, SignLegacy
<1>2. k.scheme \in LegacyForms /\ p.form \in PrevForms
  BY <1>1 DEF SignLegacy, TypeOK, PrevOut
<1>3. wit[i] = before.wit[i] /\ wtx.outs = outs
  BY <1>1 DEF SignInv, RestUntouched, CachesCurrent, Inputs
<1>4. /\ script'[i] = IF k.scheme = "p2pk" THEN <<sig>> ELSE <<sig, Pub(k.scheme, k.key)>>
      /\ wit'[i] = before.wit[i]
  BY <1>1, <1>3 DEF SignLegacy, Signed, WorkScripts, TypeOK
<1>5. PICK byte \in SigBytes(p.form) :
         LET s == Sig(p.key, RequiredDigest(i, byte), byte) IN
         script'[i] = UnlockingScript(i, s) /\ wit'[i] = UnlockingWitness(i, s)
  BY <1>1, SpentThen
<1> DEFINE s == Sig(p.key, RequiredDigest(i, byte), byte)
<1>6. /\ IsSig(sig) /\ IsSig(s) /\ \A x : ~ IsSig(Push(x))
      /\ script'[i] = UnlockingScript(i, s) /\ wit'[i] = UnlockingWitness(i, s)
  BY <1>5, ItemKinds
<1>7. /\ sig = s => k.key = p.key /\ d = RequiredDigest(i, byte)
      /\ d.alg = "legacy"
  BY SigFields, DigestFields
<1> HIDE DEF sig, s, d
<1>8. sig = s /\ before.wit[i] = <<>>
  <2>1. /\ script'[i] # <<>> /\ script'[i][1] = sig
        /\ \A x : script'[i] # <<Push(x)>>
    BY <1>4, <1>6
  <2>2. p.form \in LegacyForms
    BY <1>2, <1>6, <2>1, UnlockShapes DEF LegacyForms, PubKeyHash
  <2>3. script'[i][1] = s /\ wit'[i] = <<>>
    BY <1>2, <1>6, <2>2, UnlockShapes DEF LegacyForms, PubKeyHash, WshForms
  <2>4. QED
    BY <1>4, <2>1, <2>3
<1>9. /\ p.form \in LegacyForms /\ ~ ForkId(byte) /\ k.key = p.key
      /\ d = LegacyDigest(OnlyInput(i, PrevLock(i)), outs, byte)
  BY <1>7, <1>8, RequiredCases
<1>10. Flag = byte /\ OnlyInput(i, Lock(k.scheme, k.key)) = OnlyInput(i, PrevLock(i))
  BY <1>9, DigestFields DEF d
<1>11. k.scheme = p.form
  <2>1. <<Lock(k.scheme, k.key)>> = <<PrevLock(i)>>
    BY <1>10 DEF OnlyInput
  <2>2. QED
    BY <2>1, LockFields DEF PrevLock
<1>12. Flag < 256
  BY <1>9, <1>10 DEF SigBytes, LegacyForms, PubKeyHash
<1>13. p.form # "p2tr"
  BY <1>9 DEF LegacyForms
<1>14. QED
  BY <1>1, <1>8, <1>9, <1>10, <1>11, <1>12, <1>13, OwedThen

\* The same for the BIP-143 digest, whatever the place of the signature.
LEMMA Bip143Owed ==
  ASSUME NEW i, NEW byte \in SigBytes(prev[i].form), NEW code,
         Sig(k.key, Bip143Digest(outs, i, code, k.amount, Flag), Flag) =
            Sig(prev[i].key, RequiredDigest(i, byte), byte)
  PROVE  /\ k.key = prev[i].key /\ k.amount = prev[i].amount /\ Flag < 256
         /\ code = Lock(Base(prev[i].form), prev[i].key)
         /\ prev[i].form # "p2tr" /\ (prev[i].form \in LegacyForms => ForkId(Flag))
<1> DEFINE d == Bip143Digest(outs, i, code, k.amount, Flag)
           p == prev[i]
<1>1. k.key = p.key /\ d = RequiredDigest(i, byte) /\ d.alg = "bip143"
  BY SigFields, DigestFields
<1> HIDE DEF d
<1>2. /\ p.form # "p2tr" /\ (p.form \in LegacyForms => ForkId(byte))
      /\ d = Bip143Digest(outs, i, Lock(Base(p.form), p.key), p.amount, byte)
  BY <1>1, RequiredCases
<1>3. code = Lock(Base(p.form), p.key) /\ k.amount = p.amount /\ Flag = byte
  BY <1>2, DigestFields DEF d
<1>4. Flag < 256
  BY <1>2, <1>3 DEF SigBytes
<1>5. QED
  BY <1>1, <1>2, <1>3, <1>4

LEMMA P2WPKHOwed ==
  ASSUME SignInv, SignP2WPKH, NEW i \in Inputs, i = n, Spends(i)'
  PROVE  Owed(i)'
<1> DEFINE p == prev[i]
           code == Lock(IF k.scheme = "p2pukh" THEN "p2pukh" ELSE "p2pkh", k.key)
           sig == Sig(k.key, Bip143Digest(outs, i, code, k.amount, Flag), Flag)
           pub == Pub(k.scheme, k.key)
<1>1. /\ TypeOK /\ pc = "loop" /\ n \in Inputs /\ n <= N
      /\ UNCHANGED <<prev, outs, before>> /\ args' = NormalizedArgs
  BY IterationFrame DEF SignInv, Iteration, SignP2WPKH
<1>2. /\ p.form \in PrevForms
      /\ \/ k.scheme \in {"p2wpkh", "p2sh:p2wpkh"}
         \/ k.scheme \in PubKeyHash /\ ForkId(Flag)
  BY <1>1 DEF SignP2WPKH, TypeOK, PrevOut
<1>3. wit[i] = before.wit[i] /\ Preimage = outs
  BY <1>1 DEF SignInv, RestUntouched, CachesCurrent, Inputs, Preimage
<1>4. /\ k.scheme \in PubKeyHash => script'[i] = <<sig, pub>> /\ wit'[i] = before.wit[i]
      /\ k.scheme = "p2wpkh" => script'[i] = <<>> /\ wit'[i] = <<sig, pub>>
      /\ k.scheme = "p2sh:p2wpkh" => /\ script'[i] = <<Push(Lock("p2wpkh", k.key))>>
                                     /\ wit'[i] = <<sig, pub>>
  BY <1>1, <1>3 DEF SignP2WPKH, Signed, TypeOK, PubKeyHash
<1>5. PICK byte \in SigBytes(p.form) :
         LET s == Sig(p.key, RequiredDigest(i, byte), byte) IN
         script'[i] = UnlockingScript(i, s) /\ wit'[i] = UnlockingWitness(i, s)
  BY <1>1, SpentThen
<1> DEFINE s == Sig(p.key, RequiredDigest(i, byte), byte)
<1>6. /\ IsSig(sig) /\ IsSig(s) /\ \A x : ~ IsSig(Push(x))
      /\ IsPub(pub) /\ \A f, x : ~ IsPub(Lock(f, x))
      /\ script'[i] = UnlockingScript(i, s) /\ wit'[i] = UnlockingWitness(i, s)
  BY <1>5, ItemKinds
<1>7. sig = s => /\ k.key = p.key /\ k.amount = p.amount /\ Flag < 256
                 /\ code = Lock(Base(p.form), p.key) /\ p.form # "p2tr"
  BY Bip143Owed
<1> HIDE DEF sig, s, pub
<1>8. CASE k.scheme \in PubKeyHash
  <2>1. script'[i] = <<sig, pub>> /\ wit'[i] = before.wit[i] /\ ForkId(Flag)
    BY <1>2, <1>4, <1>8 DEF PubKeyHash
  <2>2. Len(script'[i]) = 2 /\ script'[i][1] = sig
    BY <2>1
  <2>3. p.form \in PubKeyHash
    BY <1>2, <1>6, <2>2, UnlockShapes, SMTT(60)
  <2>4. script'[i][1] = s /\ wit'[i] = <<>>
    BY <1>2, <1>6, <2>3, UnlockShapes DEF PubKeyHash, WshForms
  <2>5. sig = s /\ before.wit[i] = <<>>
    BY <2>1, <2>2, <2>4
  <2>6. k.scheme = p.form
    <3>1. Base(p.form) = p.form
      BY <2>3 DEF Base, PubKeyHash, WshForms
    <3>2. p.form = IF k.scheme = "p2pukh" THEN "p2pukh" ELSE "p2pkh"
      BY <1>7, <2>5, <3>1, LockFields
    <3>3. QED
      BY <1>8, <3>2 DEF PubKeyHash
  <2>7. p.form # "p2pk"
    BY <2>3 DEF PubKeyHash
  <2>8. QED
    BY <1>1, <1>7, <2>5, <2>6, <2>7, OwedThen
<1>9. CASE k.scheme \in {"p2wpkh", "p2sh:p2wpkh"}
  <2>1. p.form = k.scheme
    <3>1. /\ Len(wit'[i]) = 2 /\ wit'[i] # <<>> /\ IsPub(wit'[i][2])
          /\ script'[i] = <<>> <=> k.scheme = "p2wpkh"
      BY <1>4, <1>6, <1>9
    <3>2. ASSUME p.form \in WshForms PROVE FALSE
      BY <1>2, <1>6, <3>1, <3>2, UnlockShapes DEF PubKeyHash, WshForms
    <3>3. p.form \in {"p2wpkh", "p2sh:p2wpkh"}
      BY <1>2, <1>6, <3>1, <3>2, UnlockShapes
    <3>4. QED
      BY <1>2, <1>6, <1>9, <3>1, <3>3, UnlockShapes, SMTT(30) DEF PubKeyHash, WshForms
  <2>2. sig = s
    BY <1>2, <1>4, <1>6, <1>9, <2>1, UnlockShapes DEF PubKeyHash, WshForms
  <2>3. p.form \notin LegacyForms
    BY <1>9, <2>1 DEF LegacyForms
  <2>4. QED
    BY <1>1, <1>7, <1>9, <2>1, <2>2, <2>3, OwedThen
<1>10. QED
  BY <1>2, <1>8, <1>9

\* A p2wsh form is known by the script it wraps.
LEMMA InnerOfOnly == \A f, g \in WshForms : InnerOf(f) = InnerOf(g) => f = g
  BY DEF InnerOf, WshForms

LEMMA P2WSHOwed ==
  ASSUME SignInv, SignP2WSH, NEW i \in Inputs, i = n, Spends(i)'
  PROVE  Owed(i)'
<1> DEFINE p == prev[i]
<1>1. /\ TypeOK /\ pc = "loop" /\ n \in Inputs /\ n <= N
      /\ UNCHANGED <<prev, outs, before>> /\ args' = NormalizedArgs
  BY IterationFrame DEF SignInv, Iteration, SignP2WSH
<1>2. p.form \in PrevForms /\ k.scheme \in WshForms \cup {"p2wsh"}
  BY <1>1 DEF SignP2WSH, TypeOK, PrevOut
<1>3. script[i] = before.script[i] /\ Preimage = outs
  BY <1>1 DEF SignInv, RestUntouched, CachesCurrent, Inputs, Preimage
<1>4. PICK inner \in Candidates :
        LET ws == Lock(inner, k.key)
            sig == Sig(k.key, Bip143Digest(Preimage, n, ws, k.amount, Flag), Flag)
        IN  Signed(<<>>, IF inner \in PubKeyHash
                         THEN <<sig, Pub(inner, k.key), ws>> ELSE <<sig, ws>>)
  BY DEF SignP2WSH
<1> DEFINE ws == Lock(inner, k.key)
           sig == Sig(k.key, Bip143Digest(outs, i, ws, k.amount, Flag), Flag)
           pub == Pub(inner, k.key)
<1>5. script'[i] = <<>> /\ wit'[i] = IF inner \in PubKeyHash THEN <<sig, pub, ws>> ELSE <<sig, ws>>
  BY <1>1, <1>3, <1>4 DEF Signed, TypeOK
<1>6. PICK byte \in SigBytes(p.form) :
         LET s == Sig(p.key, RequiredDigest(i, byte), byte) IN
         script'[i] = UnlockingScript(i, s) /\ wit'[i] = UnlockingWitness(i, s)
  BY <1>1, SpentThen
<1> DEFINE s == Sig(p.key, RequiredDigest(i, byte), byte)
           base == InnerOf(p.form)
           lock == Lock(base, p.key)
<1>7. /\ script'[i] = UnlockingScript(i, s) /\ wit'[i] = UnlockingWitness(i, s)
      /\ ~ IsPub(ws) /\ \A f, x : IsPub(Pub(f, x))
      /\ ws = lock => inner = base
  BY <1>6, ItemKinds, LockFields
<1>8. sig = s => k.key = p.key /\ k.amount = p.amount /\ Flag < 256
  BY Bip143Owed
<1> HIDE DEF sig, s, pub, ws, lock
<1>9. p.form \in WshForms
  <2>1. /\ script'[i] = <<>> /\ wit'[i] # <<>>
        /\ \/ Len(wit'[i]) = 3
           \/ Len(wit'[i]) = 2 /\ ~ IsPub(wit'[i][2])
    BY <1>5, <1>7
  <2>2. p.form \notin PubKeyHash \cup {"p2pk", "p2sh:p2wpkh"}
    BY <1>2, <1>7, <2>1, UnlockShapes, SMTT(30) DEF PubKeyHash, WshForms
  <2>3. p.form # "p2wpkh"
    BY <1>2, <1>7, <2>1, UnlockShapes DEF PubKeyHash, WshForms
  <2>4. p.form # "p2tr"
    BY <1>2, <1>7, <2>1, UnlockShapes DEF PubKeyHash, WshForms
  <2>5. QED
    BY <1>2, <2>2, <2>3, <2>4 DEF PrevForms, LegacyForms, PubKeyHash
<1>10. /\ script'[i] = <<>>
       /\ wit'[i] = IF base \in PubKeyHash THEN <<s, Pub(base, p.key), lock>> ELSE <<s, lock>>
  BY <1>2, <1>7, <1>9, UnlockShapes DEF PubKeyHash, WshForms, lock
<1>11. sig = s /\ inner = base
  <2>1. wit'[i][1] = sig /\ wit'[i][Len(wit'[i])] = ws
    BY <1>5
  <2>2. wit'[i][1] = s /\ wit'[i][Len(wit'[i])] = lock
    BY <1>10
  <2>3. QED
    BY <1>7, <2>1, <2>2
<1>12. \/ k.scheme = p.form
       \/ /\ k.scheme = "p2wsh"
          /\ IF IsProgram(before.script[i]) THEN before.script[i] = <<PrevLock(i)>>
             ELSE p.form = "p2wsh:p2pkh"
  <2>1. CASE k.scheme # "p2wsh"
    <3>1. InnerOf(k.scheme) = InnerOf(p.form)
      BY <1>4, <1>11, <2>1 DEF Candidates
    <3>2. QED
      BY <1>2, <1>9, <2>1, <3>1, InnerOfOnly
  <2>2. CASE k.scheme = "p2wsh" /\ IsProgram(script[i])
    <3>1. PICK g \in WshForms : script[i] = <<Lock(g, k.key)>> /\ inner = InnerOf(g)
      BY <1>4, <2>2 DEF Candidates
    <3>2. g = p.form
      BY <1>9, <1>11, <3>1, InnerOfOnly
    <3>3. QED
      BY <1>3, <1>8, <1>11, <2>2, <3>1, <3>2 DEF PrevLock
  <2>3. CASE k.scheme = "p2wsh" /\ ~ IsProgram(script[i])
    <3>1. inner = InnerOf("p2wsh:p2pkh") /\ "p2wsh:p2pkh" \in WshForms
      BY <1>4, <2>3 DEF Candidates, InnerOf, WshForms
    <3>2. QED
      BY <1>3, <1>9, <1>11, <2>3, <3>1, InnerOfOnly
  <2>4. QED
    BY <2>1, <2>2, <2>3
<1>13. p.form \notin LegacyForms /\ p.form # "p2tr" /\ p.form # "p2pk"
  BY <1>9 DEF WshForms, LegacyForms
<1>14. QED
  BY <1>1, <1>8, <1>9, <1>11, <1>12, <1>13, OwedThen

LEMMA OnlyKeyPathHasOneItem ==
  ASSUME NEW i, NEW s, prev[i].form \in PrevForms, Len(UnlockingWitness(i, s)) = 1
  PROVE  prev[i].form = "p2tr"
<1> DEFINE p == prev[i]
           w == UnlockingWitness(i, s)
<1>1. ASSUME p.form \in WshForms PROVE FALSE
  <2>1. \/ w = <<s, Pub(InnerOf(p.form), p.key), Lock(InnerOf(p.form), p.key)>>
        \/ w = <<s, Lock(InnerOf(p.form), p.key)>>
    BY <1>1, UnlockShapes DEF PubKeyHash, WshForms
  <2>2. QED
    BY <2>1
<1>2. ASSUME p.form \in {"p2wpkh", "p2sh:p2wpkh"} PROVE FALSE
  <2>1. w = <<s, Pub("p2pkh", p.key)>>
    BY <1>2, UnlockShapes DEF PubKeyHash, WshForms
  <2>2. QED
    BY <2>1
<1>3. ASSUME p.form \in LegacyForms PROVE FALSE
  BY <1>3 DEF UnlockingWitness
<1>4. QED
  BY <1>1, <1>2, <1>3 DEF PrevForms

LEMMA P2TROwed ==
  ASSUME SignInv, SignP2TR, NEW i \in Inputs, i = n, Spends(i)'
  PROVE  Owed(i)'
<1> DEFINE p == prev[i]
           d == Bip341Digest(PartsNow, i)
           sig == Sig(k.key, d, 0)
<1>1. /\ TypeOK /\ pc = "loop" /\ n \in Inputs /\ n <= N
      /\ UNCHANGED <<prev, outs, before>> /\ args' = NormalizedArgs
  BY IterationFrame DEF SignInv, Iteration, SignP2TR
<1>2. p.form \in PrevForms /\ k.scheme = "p2tr" /\ k.flag \in {0, 1}
  BY <1>1 DEF SignP2TR, TypeOK, PrevOut
<1>3. Parts = PartsNow
  BY <1>1 DEF SignInv, CachesCurrent, Parts
<1>4. script'[i] = <<>> /\ wit'[i] = <<sig>>
  BY <1>1, <1>3 DEF SignP2TR, Signed, TypeOK
<1>5. PICK byte \in SigBytes(p.form) :
         LET s == Sig(p.key, RequiredDigest(i, byte), byte) IN
         script'[i] = UnlockingScript(i, s) /\ wit'[i] = UnlockingWitness(i, s)
  BY <1>1, SpentThen
<1> DEFINE s == Sig(p.key, RequiredDigest(i, byte), byte)
<1>6. script'[i] = UnlockingScript(i, s) /\ wit'[i] = UnlockingWitness(i, s)
  BY <1>5
<1>7. d.alg = "bip341" /\ (sig = s => k.key = p.key /\ d = RequiredDigest(i, byte))
  BY SigFields, DigestFields
<1> HIDE DEF sig, s, d
<1>8. p.form = "p2tr"
  <2>1. script'[i] = <<>> /\ Len(wit'[i]) = 1
    BY <1>4
  <2>2. QED
    BY <1>2, <1>6, <2>1, OnlyKeyPathHasOneItem
<1>9. sig = s
  BY <1>2, <1>4, <1>6, <1>8, UnlockShapes DEF PubKeyHash, WshForms
<1>10. PartsNow = [prevs |-> [j \in Inputs |-> <<PrevLock(j)>>],
                   amounts |-> [j \in Inputs |-> prev[j].amount], outs |-> outs]
  <2>1. d = Bip341Digest([prevs |-> [j \in Inputs |-> <<PrevLock(j)>>],
                          amounts |-> [j \in Inputs |-> prev[j].amount],
                          outs |-> outs], i)
    BY <1>7, <1>9, RequiredCases
  <2>2. QED
    BY <2>1, DigestFields DEF d
<1>11. \A j \in Inputs : args[j].prev = <<PrevLock(j)>> /\ args[j].amount = prev[j].amount
  <2> TAKE j \in Inputs
  <2>1. PartsNow.prevs[j] = args[j].prev /\ PartsNow.amounts[j] = args[j].amount
    BY DEF PartsNow
  <2>2. PartsNow.prevs[j] = <<PrevLock(j)>> /\ PartsNow.amounts[j] = prev[j].amount
    BY <1>10
  <2>3. QED
    BY <2>1, <2>2
<1>12. Flag < 256 /\ k.amount = p.amount /\ p.form \notin LegacyForms
  BY <1>2, <1>8, <1>11 DEF Flag, k, LegacyForms
<1>13. QED
  BY <1>1, <1>2, <1>7, <1>8, <1>9, <1>11, <1>12, OwedThen

LEMMA OnlyOwedStep ==
  ASSUME SignInv, OnlyOwedInputsSpend, [Next]_vars
  PROVE  OnlyOwedInputsSpend'
<1>1. CASE pc' = "idle"
  BY <1>1 DEF OnlyOwedInputsSpend
<1>2. ASSUME NEW a \in ArgVectors, SignBegin(a) PROVE OnlyOwedInputsSpend'
  BY <1>2 DEF SignBegin, OnlyOwedInputsSpend, Inputs
<1>3. ASSUME args' = NormalizedArgs, UNCHANGED <<prev, outs, before>>,
             pc = "loop", n \in Inputs,
             NEW i \in Inputs, i < n, Spends(i)',
             script'[i] = script[i], wit'[i] = wit[i]
      PROVE  Owed(i)'
  <2>1. args'[i] = args[i] /\ \A j \in Inputs : /\ args'[j].prev = args[j].prev
                                                /\ args'[j].amount = args[j].amount
    BY <1>3, NormalizedArgsFrame DEF SignInv, Inputs
  <2>2. Spends(i)
    BY <1>3, SpendsStable
  <2>3. Owed(i)
    BY <1>3, <2>2 DEF OnlyOwedInputsSpend
  <2>4. QED
    BY <1>3, <2>1, <2>3, OwedStable
<1>4. CASE Iteration
  <2>1. /\ pc = "loop" /\ n \in Inputs /\ n' = n + 1
        /\ args' = NormalizedArgs /\ UNCHANGED <<prev, outs, before>>
        /\ \A i \in Inputs : i # n => script'[i] = script[i] /\ wit'[i] = wit[i]
    BY <1>4, IterationFrame DEF SignInv
  <2>2. SUFFICES ASSUME NEW i \in Inputs, i < n', Spends(i)' PROVE Owed(i)'
    BY DEF OnlyOwedInputsSpend
  <2>3. CASE i = n
    BY <1>4, <2>2, <2>3, LegacyOwed, P2WPKHOwed, P2WSHOwed, P2TROwed DEF Iteration
  <2>4. CASE i # n
    BY <1>3, <2>1, <2>2, <2>4 DEF Inputs
  <2>5. QED
    BY <2>3, <2>4
<1>5. CASE RejectFlagOrScheme \/ SignFails
  <2>1. /\ pc = "loop" /\ n \in Inputs /\ n' = n /\ args' = NormalizedArgs
        /\ UNCHANGED <<prev, outs, before, script, wit>>
    BY <1>5, FailFrame DEF SignInv, TypeOK, Inputs
  <2>2. SUFFICES ASSUME NEW i \in Inputs, i < n', Spends(i)' PROVE Owed(i)'
    BY DEF OnlyOwedInputsSpend
  <2>3. QED
    BY <1>3, <2>1, <2>2
<1>6. ASSUME pc # "idle", UNCHANGED <<prev, outs, script, wit, args, n, before>>
      PROVE  OnlyOwedInputsSpend'
  <2>1. SUFFICES ASSUME NEW i \in Inputs, i < n', Spends(i)' PROVE Owed(i)'
    BY DEF OnlyOwedInputsSpend
  <2>2. Spends(i)
    BY <1>6, <2>1, SpendsStable
  <2>3. Owed(i)
    BY <1>6, <2>1, <2>2 DEF OnlyOwedInputsSpend
  <2>4. QED
    BY <1>6, <2>3, OwedStable
<1>7. CASE SignEnd
  BY <1>6, <1>7 DEF SignEnd, tx, frame
<1>8. CASE UNCHANGED vars
  BY <1>1, <1>6, <1>8 DEF vars
<1>9. QED
  BY <1>1, <1>2, <1>4, <1>5, <1>7, <1>8, StepKinds

\* The converse of SignedInputsCanSpend: what BtcTx.Sign signed with an argument
\* that is not the output's, or over what Prefill left, cannot spend the output.
THEOREM OnlyOwedSpend == Spec => []OnlyOwedInputsSpend
<1>1. Init => SignInv /\ OnlyOwedInputsSpend
  BY InitType DEF Init, SignInv, RestUntouched, CachesCurrent, SignedInputsSpend,
                  OnlyOwedInputsSpend
<1>2. SignInv /\ OnlyOwedInputsSpend /\ [Next]_vars => (SignInv /\ OnlyOwedInputsSpend)'
  BY NextType, RestUntouchedStep, CachesCurrentStep, SignedInputsSpendStep, OnlyOwedStep
     DEF SignInv
<1>3. QED
  BY <1>1, <1>2, PTL DEF Spec
=============================================================================
