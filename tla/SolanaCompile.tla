---------------------------- MODULE SolanaCompile ----------------------------
(***************************************************************************)
(* One call of NewSolanaTx or NewSolanaTxV0 (solanatx.go): orders of every *)
(* mixture of rights.  What happens to the transaction afterwards is       *)
(* SolanaTx.                                                               *)
(***************************************************************************)
EXTENDS PureCall, Integers, FiniteSets

CONSTANTS
    AccountTop,  \* values of an index into the accounts, 256 in the code
    TooMany      \* an error

Message == INSTANCE SolanaMessage WITH Byte <- AccountTop, Texts <- {"zero", "h0", "d", "none"}

\* The message, or the error of too many accounts.
NewSolanaTx(o) ==
    IF Message!TooManyAccounts(o.payer, o.ixs) THEN TooMany
    ELSE Message!Compiled(o.payer, "h0", <<>>, o.ixs)

\* An order is refused only if an account would be without an index; else the message
\* gives every account the rights that all instructions together ask for, in the
\* order of groups by which the three counts of the header tell them apart
\* (solanatx.go:150, 171, 214, 247).
CompilationIsRight ==
    Called("NewSolanaTx") =>
        LET o == call.order
            m == NewSolanaTx(o)
        IN  IF Cardinality(Message!Seen(o.payer, o.ixs)) > AccountTop THEN m = TooMany
            ELSE m # TooMany /\ Message!Says(m, o.payer, o.ixs)
=============================================================================
