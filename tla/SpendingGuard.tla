---------------------------- MODULE SpendingGuard ----------------------------
(***************************************************************************)
(* What the live-entry path promises about money, without journal rows,    *)
(* windows, replies or restarts: one reservation at a time, the cost at    *)
(* risk never above MaxOpen, and the loss a day can still end with never   *)
(* above its budget.                                                       *)
(*                                                                         *)
(*   pending  what the one unreconciled order may still cost (0: none)     *)
(*   open     recorded cost of the positions that have not settled         *)
(*   pnl      profit of the positions settled in the current UTC day       *)
(***************************************************************************)
EXTENDS RiskCheck

VARIABLES pending, open, pnl

guardVars == <<pending, open, pnl>>

\* The loss the day can be left with when everything at risk is lost.
WorstCase == pnl - open - pending

Init ==
  /\ pending = 0
  /\ open = 0
  /\ pnl = 0

\* A reservation takes the whole cap of one order, against both limits.
Reserve ==
  /\ pending = 0
  /\ open + MaxTrade <= MaxOpen
  /\ pnl - open - MaxTrade >= -DailyLimit
  /\ pending' = MaxTrade
  /\ UNCHANGED <<open, pnl>>

\* The exchange confirmed that nothing was bought.
Release ==
  /\ pending' = 0
  /\ UNCHANGED <<open, pnl>>

\* The order is accounted for as a position that costs no more than its cap.
Fill ==
  /\ pending > 0
  /\ open' \in open..(open + pending)
  /\ pending' = 0
  /\ UNCHANGED pnl

\* Some open cost settles, and can lose no more than that cost.
Settle ==
  /\ open' \in 0..open
  /\ pnl' \in Int
  /\ pnl' - pnl >= open' - open
  /\ UNCHANGED pending

\* A new UTC day starts with nothing settled in it.
Midnight ==
  /\ pnl' = 0
  /\ UNCHANGED <<pending, open>>

Next ==
  \/ Reserve
  \/ Release
  \/ Fill
  \/ Settle
  \/ Midnight

Spec == Init /\ [][Next]_guardVars

GuardTypeOK ==
  /\ pending \in 0..MaxTrade
  /\ open \in Nat
  /\ pnl \in Int

\* The cost at risk, the unreconciled order included, stays under the cap.
AtRiskCapped == open + pending <= MaxOpen

\* What a day can still end with is bounded by its own budget or, when
\* positions are carried over midnight, by what was open.
LossCapped == WorstCase >= -DailyLimit \/ WorstCase >= -MaxOpen

=============================================================================
