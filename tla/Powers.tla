------------------------------- MODULE Powers -------------------------------
(***************************************************************************)
(* Powers of a number: the intervals after which a reward is halved        *)
(* (reward.go), the worth of the places of a word (evmabi.go).             *)
(***************************************************************************)
EXTENDS Integers

Power(b, n) ==
    LET p[k \in 0..n] == IF k = 0 THEN 1 ELSE b * p[k - 1]
    IN  p[n]
=============================================================================
