------------------------------- MODULE Amounts -------------------------------
(***************************************************************************)
(* BtcAmount (btcamount.go): satoshis as a decimal text and back.          *)
(*                                                                         *)
(* A text is what its form says: a sign that it is hexadecimal, the number *)
(* its digits make, and how many of them stand behind the dot.             *)
(***************************************************************************)
EXTENDS PureCall, Integers

CONSTANTS
    Decimals,  \* 8
    AmountTop, \* 2^64
    NoAmount   \* an error

Tens[n \in 0..Decimals] == IF n = 0 THEN 1 ELSE 10 * Tens[n - 1]

ASSUME AmountsAssumption ==
    /\ Decimals \in Nat /\ AmountTop \in Nat /\ AmountTop > Tens[Decimals]
    /\ NoAmount \notin Nat

Coin == Tens[Decimals]
MaxAmount == AmountTop - 1

NoDot == -1

DigitsOf(a) == CHOOSE n \in 1..a+1 : 10^n > a /\ \A k \in 1..n-1 : 10^k <= a

\* mutant: small amounts get a dot but no zeros behind it.
MarshalJSONUnpadded(a) ==
    [form |-> "decimal", digits |-> a, behind |-> IF a < Coin THEN DigitsOf(a) ELSE Decimals]

\* Always eight digits behind the dot.
MarshalJSON(a) == [form |-> "decimal", digits |-> a, behind |-> Decimals]

\* strconv.ParseUint with 64 bits.
ParseUint(n) == IF n > MaxAmount THEN NoAmount ELSE n

\* mutant: the product is tested for overflow and not the factor.
TimesTenLate(v) ==
    CASE v = NoAmount -> NoAmount
      [] v # NoAmount /\ (v * 10) % AmountTop < v -> NoAmount
      [] OTHER -> (v * 10) % AmountTop

\* One iteration of the loop that appends the missing decimals.
TimesTen(v) ==
    CASE v = NoAmount -> NoAmount
      [] v # NoAmount /\ v > MaxAmount \div 10 -> NoAmount
      [] OTHER -> (v * 10) % AmountTop

Scaled(v, times) ==
    LET x[n \in 0..times] == IF n = 0 THEN v ELSE TimesTen(x[n - 1])
    IN  x[times]

\* A whole number is coins; hexadecimal is satoshis.
UnmarshalText(t) ==
    LET v == ParseUint(t.digits)
    IN  CASE t.form = "hex" -> v
          [] t.form = "decimal" /\ t.behind = NoDot ->
                IF v = NoAmount \/ v > MaxAmount \div Coin THEN NoAmount
                ELSE (v * Coin) % AmountTop
          [] t.form = "decimal" /\ t.behind > Decimals -> NoAmount
          [] OTHER -> Scaled(v, Decimals - t.behind)

\* null leaves the old amount; quotes are taken away.
UnmarshalJSON(old, t) == IF t.form = "null" THEN old ELSE UnmarshalText(t)

-----------------------------------------------------------------------------
(***************************************************************************)
(* Properties.                                                             *)
(***************************************************************************)
\* The satoshis a text means, if it means a whole number of them.
Satoshis(t) ==
    IF t.form = "hex" THEN t.digits
    ELSE t.digits * Tens[Decimals - (IF t.behind = NoDot THEN 0 ELSE t.behind)]

\* A text is read as exactly what it says or refused, and it is refused only for
\* more than eight decimals or because the amount does not fit 64 bits, at
\* whichever step of the conversion that shows (btcamount.go:66, 88); and an amount
\* comes back from its own JSON (btcamount.go:16, 46).
AmountsAreExact ==
    /\ Called("UnmarshalText") =>
           LET t == call.text
           IN  UnmarshalText(t) =
                   IF t.behind > Decimals \/ t.digits > MaxAmount \/ Satoshis(t) > MaxAmount
                   THEN NoAmount ELSE Satoshis(t)
    /\ Called("MarshalJSON") =>
           UnmarshalJSON(NoAmount, MarshalJSON(call.amount)) = call.amount
=============================================================================
