----------------------------- MODULE MCBtcSign -----------------------------
(* Instances of BtcSign for TLC. *)
EXTENDS BtcSign

CONSTANTS k1, k2, o1, bad

Out(form) == [form |-> form, key |-> k1, amount |-> 1]

Arg(p, scheme, flag) ==
    [scheme |-> scheme, key |-> p.key, amount |-> p.amount, flag |-> flag,
     prev |-> <<Lock(p.form, p.key)>>]

\* What a careful caller passes to spend p: also the bare p2wsh, and the
\* fork-id flag of Bitcoin Cash.
Careful(p) ==
    {Arg(p, p.form, 0)}
    \cup (IF p.form \in WshForms THEN {Arg(p, "p2wsh", 0)} ELSE {})
    \cup (IF p.form \in PubKeyHash THEN {Arg(p, p.form, 65)} ELSE {})

\* What a caller may get wrong: one thing at a time.
Careless(p) ==
    LET a == Arg(p, p.form, 1) IN
    {a, [a EXCEPT !.key = k2], [a EXCEPT !.amount = 2], [a EXCEPT !.flag = 2],
     [a EXCEPT !.flag = 65], [a EXCEPT !.flag = 129], [a EXCEPT !.flag = 257],
      [a EXCEPT !.prev = <<>>],
     [a EXCEPT !.scheme = "p2puk"], [a EXCEPT !.scheme = "p2wpkh"],
     [a EXCEPT !.scheme = "p2tr"], [a EXCEPT !.scheme = "p2wsh"]}

AllPrevOuts == {Out(f) : f \in PrevForms}
SomePrevOuts ==
    {Out(f) : f \in {"p2pkh", "p2wpkh", "p2sh:p2wpkh", "p2wsh:p2pk", "p2tr"}}
AllPrefills == Known \ {"p2sh:p2wpkh"}

\* Careful, and what makes Sign stop: no PrevScript, a scheme it refuses.
MixedOffers == [p \in PrevOuts |->
    LET a == Arg(p, p.form, 0) IN
    Careful(p) \cup {[a EXCEPT !.prev = <<>>], [a EXCEPT !.scheme = "p2puk"]}]
AnyOffers == [p \in PrevOuts |-> Careful(p) \cup Careless(p)]
=============================================================================
