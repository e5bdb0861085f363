------------------------------- MODULE MCEvmTx -------------------------------
(* Instances of EvmTx for TLC. *)
EXTENDS EvmTx

CONSTANTS k1, k2, b1, b2

SomeAccessLists == { <<>>, <<"slot">> }

Draft(type, chain) == [ZeroTx EXCEPT !.type = type, !.chain = chain, !.body = b1]
AllDrafts == { Draft("legacy", 0), Draft("legacy", 1),
               [Draft("2930", 1) EXCEPT !.al = <<"slot">>],
               [Draft("1559", 1) EXCEPT !.tip = "tip", !.al = <<"slot">>],
               [Draft("4844", 1) EXCEPT !.tip = "tip"],
               [Draft("7702", 1) EXCEPT !.tip = "tip", !.auth = <<Auth("code", k2)>>] }
LegacyDrafts == { Draft("legacy", 0), Draft("legacy", 1) }

\* A legacy transaction somebody else signed with v = y.
ForeignLegacy(chain, y, rec) ==
    LET t == Draft("legacy", chain)
    IN  Binary(Bytes(t, y, [by |-> k2, over |-> SignBytes(t), rec |-> rec]),
               [by |-> k2, content |-> Content(t), chain |-> chain], chain)
\* Raw recovery ids, chain 0 in EIP-155 form, and v values that mean nothing.
SomeForeign ==
    { ForeignLegacy(0, 1, 1), ForeignLegacy(0, 27, 0), ForeignLegacy(3, 42, 1),
      ForeignLegacy(0, 35, 0) }
NoForeign == {}
=============================================================================
