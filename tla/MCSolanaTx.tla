----------------------------- MODULE MCSolanaTx -----------------------------
(* Instances of SolanaTx for TLC. *)
EXTENDS SolanaTx

Meta(k, s, w) == [key |-> k, signer |-> s, writable |-> w]
Ix(p, accts)  == [prog |-> p, accts |-> accts, data |-> "d"]

-----------------------------------------------------------------------------
\* Signing: the payer 1 and account 2 sign, 3 and 4 do not; 9 is nobody.  Account 4 is
\* writable for its second meta only, so that each of the four groups has an account.
Pay  == Ix(3, <<Meta(2, TRUE, FALSE), Meta(1, TRUE, TRUE), Meta(4, FALSE, FALSE), Meta(4, FALSE, TRUE)>>)
\* One account more than indexes.
Crowd == Ix(9, [i \in 1..7 |-> Meta(i + 1, FALSE, i > 3)])
Look == <<[key |-> 7, writable |-> <<0>>, readonly |-> <<1>>]>>
SignOrders == { [payer |-> 1, ixs |-> <<Pay>>, lookups |-> <<>>, v0 |-> FALSE],
                [payer |-> 1, ixs |-> <<Pay>>, lookups |-> Look, v0 |-> TRUE],
                [payer |-> 1, ixs |-> <<Crowd>>, lookups |-> <<>>, v0 |-> FALSE] }
SignLists  == { <<1>>, <<2>>, <<2, 1>>, <<1, 9, 2>> }

Unsigned(sigs, v0, m) == [sigs |-> [i \in 1..sigs |-> ZeroSig], v0 |-> v0, msg |-> m,
                          intent |-> Nil, cosigned |-> {}]
Other == [EmptyMessage EXCEPT !.req = 1, !.rou = 1, !.keys = <<2, 3>>,
                              !.ixs = <<[prog |-> 1, accts |-> <<0>>, data |-> "e"],
                                        [prog |-> 1, accts |-> <<>>, data |-> "d"]>>]
OtherV0 == [Other EXCEPT !.lookups = Look, !.ixs[1].accts = <<0, 3>>]
BadHeader == [Other EXCEPT !.req = 3]
BadIndex  == [Other EXCEPT !.ixs[1].accts = <<2>>]
\* Two signatures are required.
BothSign == [Other EXCEPT !.req = 2, !.keys = <<2, 1, 3>>]
SomeForeign == { Unsigned(1, FALSE, BothSign),
                 Unsigned(1, FALSE, Other), Unsigned(2, FALSE, Other), Unsigned(1, TRUE, OtherV0),
                 Unsigned(3, FALSE, BadHeader), Unsigned(1, FALSE, BadIndex),
                 Unsigned(1, TRUE, [OtherV0 EXCEPT !.ixs[1].accts = <<4>>]) }
=============================================================================
