------------------------- MODULE SpendingGuard_proofs -------------------------
(***************************************************************************)
(* The abstract guard keeps its two bounds for every value of the limits.  *)
(***************************************************************************)
EXTENDS SpendingGuard, TLAPS

\* A step of the guard keeps its types.
LEMMA GuardTypeNext == GuardTypeOK /\ [Next]_guardVars => GuardTypeOK'
<1> SUFFICES ASSUME GuardTypeOK, [Next]_guardVars PROVE GuardTypeOK'
  OBVIOUS
<1> USE LimitsAssumption DEF GuardTypeOK
<1>1. CASE Reserve  BY <1>1 DEF Reserve
<1>2. CASE Release  BY <1>2 DEF Release
<1>3. CASE Fill     BY <1>3 DEF Fill
<1>4. CASE Settle   BY <1>4 DEF Settle
<1>5. CASE Midnight BY <1>5 DEF Midnight
<1>6. CASE UNCHANGED guardVars BY <1>6 DEF guardVars
<1>7. QED BY <1>1, <1>2, <1>3, <1>4, <1>5, <1>6 DEF Next

\* Every variable of the guard keeps its type (the ledger of db.rs).
THEOREM GuardTypeCorrect == Spec => []GuardTypeOK
<1>1. Init => GuardTypeOK
  BY LimitsAssumption DEF Init, GuardTypeOK
<1>2. QED BY <1>1, GuardTypeNext, PTL DEF Spec

\* Moving pending cost into open cost, or dropping it, keeps the cost at risk
\* under a cap (the fill of a reserved order).
LEMMA AtRiskShrinks ==
  ASSUME NEW p \in Int, NEW o \in Int, NEW c \in Int,
         NEW p2 \in Int, NEW o2 \in Int,
         o + p <= c, o2 + p2 <= o + p
  PROVE  o2 + p2 <= c
OBVIOUS

\* The two ways the sum of open and pending cost can shrink.
LEMMA SumShrinks ==
  ASSUME NEW p \in Int, NEW o \in Int, NEW p2 \in Int, NEW o2 \in Int,
         \/ o2 <= o + p /\ p2 = 0
         \/ o2 <= o /\ p2 = p
  PROVE  o2 + p2 <= o + p
OBVIOUS

\* With the day's profit unchanged the worst case follows that sum.
LEMMA WorstCaseFollows ==
  ASSUME NEW p \in Int, NEW o \in Int, NEW g \in Int,
         NEW p2 \in Int, NEW o2 \in Int,
         o2 + p2 <= o + p
  PROVE  g - o2 - p2 >= g - o - p
OBVIOUS

\* A day whose worst case does not get worse keeps either of its bounds.
LEMMA WorstCaseKept ==
  ASSUME NEW w \in Int, NEW w2 \in Int, NEW a \in Int, NEW b \in Int,
         w2 >= w, w >= a \/ w >= b
  PROVE  w2 >= a \/ w2 >= b
<1>1. CASE w >= a BY <1>1
<1>2. CASE w >= b BY <1>2
<1>3. QED BY <1>1, <1>2

\* What settles loses no more than its cost.
LEMMA SettledWorstCase ==
  ASSUME NEW p \in Int, NEW o \in Int, NEW g \in Int,
         NEW o2 \in Int, NEW g2 \in Int,
         g2 - g >= o2 - o
  PROVE  g2 - o2 - p >= g - o - p
OBVIOUS

\* What is at risk never exceeds the open cap, and what a day can still lose
\* never exceeds its budget or, after a midnight with open positions, that cap
\* (RiskSnapshot::check, reserve_live_order).
THEOREM GuardSafe == Spec => [](AtRiskCapped /\ LossCapped)
<1>1. Init => AtRiskCapped /\ LossCapped
  BY LimitsAssumption DEF Init, AtRiskCapped, LossCapped, WorstCase
<1>2. GuardTypeOK /\ AtRiskCapped /\ LossCapped /\ [Next]_guardVars
        => (AtRiskCapped /\ LossCapped)'
  <2> SUFFICES ASSUME GuardTypeOK, AtRiskCapped, LossCapped, [Next]_guardVars
               PROVE  (AtRiskCapped /\ LossCapped)'
    OBVIOUS
  <2>1. /\ pending \in Int /\ open \in Int /\ pnl \in Int
        /\ MaxTrade \in Int /\ MaxOpen \in Int /\ DailyLimit \in Int
    BY LimitsAssumption DEF GuardTypeOK
  <2>2. /\ pending' \in Int /\ open' \in Int /\ pnl' \in Int
        /\ pending >= 0
    BY <2>1, GuardTypeNext, LimitsAssumption DEF GuardTypeOK
  <2>3. CASE Reserve
    <3>1. pending' = MaxTrade /\ open' = open /\ pnl' = pnl
      BY <2>3 DEF Reserve
    <3>2. AtRiskCapped'
      BY <2>1, <2>3, <3>1 DEF Reserve, AtRiskCapped
    <3>3. (WorstCase >= -DailyLimit)'
      BY <2>1, <2>3, <3>1 DEF Reserve, WorstCase
    <3>4. QED BY <3>2, <3>3 DEF LossCapped
  <2>4. ASSUME WorstCase' >= WorstCase
        PROVE  LossCapped'
    <3>1. WorstCase \in Int /\ WorstCase' \in Int
      BY <2>1, <2>2 DEF WorstCase
    <3>2. /\ -DailyLimit \in Int /\ -MaxOpen \in Int
      BY <2>1
    <3>3. QED BY <2>4, <3>1, <3>2, WorstCaseKept DEF LossCapped
  <2>5. CASE Release
    <3>1. open' = open /\ pnl' = pnl /\ pending' = 0
      BY <2>5, Zenon DEF Release
    <3>2. open' + pending' <= open + pending
      BY <2>1, <2>2, <3>1
    <3>3. AtRiskCapped'
      BY <2>1, <2>2, <3>2, AtRiskShrinks DEF AtRiskCapped
    <3>4. WorstCase' >= WorstCase
      BY <2>1, <2>2, <3>1 DEF WorstCase
    <3>5. QED BY <2>4, <3>3, <3>4
  <2>6. CASE Fill
    <3>1. open' <= open + pending
      BY <2>1, <2>6 DEF Fill
    <3>2. pending' = 0
      BY <2>6 DEF Fill
    <3>3. pnl' = pnl
      BY <2>6 DEF Fill
    <3>4. open' + pending' <= open + pending
      BY <2>1, <2>2, <3>1, <3>2, SumShrinks
    <3>5. AtRiskCapped'
      BY <2>1, <2>2, <3>4, AtRiskShrinks DEF AtRiskCapped
    <3>6. WorstCase' >= WorstCase
      BY <2>1, <2>2, <3>3, <3>4, WorstCaseFollows DEF WorstCase
    <3>7. QED BY <2>4, <3>5, <3>6
  <2>7. CASE Settle
    <3>1. open' <= open
      BY <2>1, <2>7 DEF Settle
    <3>2. pnl' - pnl >= open' - open
      BY <2>7 DEF Settle
    <3>3. pending' = pending
      BY <2>7 DEF Settle
    <3>4. open' + pending' <= open + pending
      BY <2>1, <2>2, <3>1, <3>3, SumShrinks
    <3>5. AtRiskCapped'
      BY <2>1, <2>2, <3>4, AtRiskShrinks DEF AtRiskCapped
    <3>6. WorstCase' >= WorstCase
      BY <2>1, <2>2, <3>2, <3>3, SettledWorstCase DEF WorstCase
    <3>7. QED BY <2>4, <3>5, <3>6
  <2>8. CASE Midnight
    <3>1. pnl' = 0 /\ pending' = pending /\ open' = open
      BY <2>8 DEF Midnight
    <3>2. AtRiskCapped' /\ (WorstCase >= -MaxOpen)'
      BY <2>1, <3>1 DEF AtRiskCapped, WorstCase
    <3>3. QED BY <3>2 DEF LossCapped
  <2>9. CASE UNCHANGED guardVars
    BY <2>9 DEF guardVars, AtRiskCapped, LossCapped, WorstCase
  <2>10. QED BY <2>3, <2>5, <2>6, <2>7, <2>8, <2>9 DEF Next
<1>3. QED BY <1>1, <1>2, GuardTypeCorrect, PTL DEF Spec

\* When the open cap itself fits in the daily budget, so does every day.
COROLLARY GuardDailyLoss ==
  ASSUME MaxOpen <= DailyLimit
  PROVE  Spec => [](WorstCase >= -DailyLimit)
<1>1. GuardTypeOK /\ LossCapped => WorstCase >= -DailyLimit
  BY LimitsAssumption DEF GuardTypeOK, LossCapped, WorstCase
<1>2. QED BY <1>1, GuardTypeCorrect, GuardSafe, PTL

=============================================================================
