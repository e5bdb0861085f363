------------------------------- MODULE Rewards -------------------------------
(***************************************************************************)
(* Block rewards (reward.go): the reward of one block, and the sum of all  *)
(* rewards up to a block, which is computed interval by interval and not   *)
(* from the former.  A model is halving, doge, dash or zero; the unit is   *)
(* the smallest of the chain, for doge one coin.                           *)
(***************************************************************************)
EXTENDS PureCall, Powers

CONSTANTS
    Base,          \* initialReward of a halving chain
    Interval,      \* halvingInterval
    Clamp,         \* 32: the last halving that is counted
    DogeBase,      \* 1 000 000
    DogeInterval,  \* 100 000
    DogeHalvings,  \* 6
    DogeTail,      \* 10 000
    DashBase,      \* 5 DASH
    DashYear,      \* 210 240
    HeightTop      \* 2^64

ASSUME RewardsAssumption ==
    /\ Base \in Nat /\ Clamp \in Nat /\ Base < Power(2, Clamp + 1)
    /\ {Interval, DogeInterval, DashYear, HeightTop} \subseteq Nat \ {0}
    /\ {DogeBase, DogeHalvings, DogeTail, DashBase} \subseteq Nat
    /\ Interval <= HeightTop /\ DogeInterval * DogeHalvings <= HeightTop

U(n)     == n % HeightTop                                          \* uint64
Int64(n) == IF n >= HeightTop \div 2 THEN n - HeightTop ELSE n     \* int64 of a uint64

-----------------------------------------------------------------------------
(***************************************************************************)
(* One block.                                                              *)
(***************************************************************************)
halvingBlockReward(h) ==
    LET count == h \div Interval
    IN  IF count > Clamp THEN 0 ELSE Base \div Power(2, count)

dogeBlockReward(h) ==
    IF h >= DogeHalvings * DogeInterval THEN DogeTail
    ELSE DogeBase \div Power(2, h \div DogeInterval)

dashYearlyBlockReward(year) == (DashBase * Power(13, year)) \div Power(14, year)

dashBlockReward(h) == dashYearlyBlockReward(h \div DashYear)

BlockReward(model, h) ==
    CASE model = "halving" -> halvingBlockReward(h)
      [] model = "doge"    -> dogeBlockReward(h)
      [] model = "dash"    -> dashBlockReward(h)
      [] model = "zero"    -> 0

-----------------------------------------------------------------------------
(***************************************************************************)
(* All blocks up to one.                                                   *)
(***************************************************************************)
\* mutant: the loop ends with the clamp.
HalvingLoopsShort == Clamp

\* The loop runs 33 times, for 0 to 32 halvings.
HalvingLoops == Clamp + 1

HalvingStep(st) ==
    LET size == IF st.left < Interval THEN st.left ELSE Interval
    IN  IF st.left = 0 \/ st.reward = 0 THEN st
        ELSE [left |-> st.left - size, reward |-> st.reward \div 2,
              total |-> st.total + size * st.reward]

cumulativeHalvingRewards(h) ==
    LET st[i \in 0..HalvingLoops] ==
            IF i = 0 THEN [left |-> U(h + 1), reward |-> Base, total |-> 0] ELSE HalvingStep(st[i - 1])
    IN  st[HalvingLoops].total

DogeRest(h, st) == st.total + Int64(U(h + 1 - st.accounted)) * DogeTail

DogeStep(h, st, i) ==
    LET start == DogeInterval * i
        end   == IF U(h + 1) < start + DogeInterval THEN U(h + 1) ELSE start + DogeInterval
        size  == U(end - start)
    IN  IF st.done \/ h < start THEN [st EXCEPT !.done = TRUE]
        ELSE IF size = 0 THEN st
        ELSE [total |-> st.total + Int64(size) * (DogeBase \div Power(2, i)),
              accounted |-> end, done |-> end > h]

\* accounted > h is both the return inside the loop and the test behind it.
cumulativeDogeRewards(h) ==
    LET st[i \in 0..DogeHalvings] ==
            IF i = 0 THEN [total |-> 0, accounted |-> 0, done |-> FALSE] ELSE DogeStep(h, st[i - 1], i - 1)
        last == st[DogeHalvings]
    IN  IF last.accounted <= h THEN DogeRest(h, last) ELSE last.total

DashLastYear(h) == (h % DashYear) + 1

cumulativeDashRewards(h) ==
    LET years == h \div DashYear
        total[i \in 0..years] == IF i = 0 THEN 0 ELSE total[i - 1] + dashYearlyBlockReward(i - 1) * DashYear
    IN  total[years] + dashYearlyBlockReward(years) * DashLastYear(h)

CumulativeReward(model, h) ==
    CASE model = "halving" -> cumulativeHalvingRewards(h)
      [] model = "doge"    -> cumulativeDogeRewards(h)
      [] model = "dash"    -> cumulativeDashRewards(h)
      [] model = "zero"    -> 0

-----------------------------------------------------------------------------
(***************************************************************************)
(* Properties.                                                             *)
(***************************************************************************)
\* The rewards of the first blocks, one after the other.
Minted(model, blocks) ==
    LET sum[n \in 0..blocks] == IF n = 0 THEN 0 ELSE sum[n - 1] + BlockReward(model, n - 1)
    IN  sum[blocks]

\* The sum is the sum of the single rewards, at and around every border: the
\* clamp at 32 halvings against the loop of 33 intervals (reward.go:118, 195), the end
\* of doge's halvings (254), dash's years (276).  Heights from 2^63 on are beyond int64.
CumulativeIsSum ==
    Called("CumulativeReward") /\ call.height + 1 < HeightTop \div 2 =>
        CumulativeReward(call.model, call.height) = Minted(call.model, call.height + 1)
=============================================================================
