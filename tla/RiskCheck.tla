------------------------------ MODULE RiskCheck ------------------------------
(***************************************************************************)
(* The pre-trade limits of src/src/risk.rs.  RiskSnapshot is what the      *)
(* durable ledger says at the moment of a reservation and Check decides    *)
(* whether a live order of the proposed cost may be reserved.              *)
(*                                                                         *)
(* Money is an integer number of the smallest unit.  The 1e-9 slack that   *)
(* the code adds to absorb floating-point error has no counterpart, and    *)
(* neither has the rejection of non-finite inputs.                         *)
(***************************************************************************)
EXTENDS Integers

CONSTANTS
  MaxTrade,     \* max_trade_cost_usdc: the all-in cap of one order
  MaxOpen,      \* max_open_cost_usdc: the cap on cost not yet settled
  DailyLimit,   \* daily_loss_limit_usdc
  MaxLosses     \* max_consecutive_losses

\* The start-up validation of src/src/config.rs refuses every other value.
ASSUME LimitsAssumption ==
  /\ MaxTrade \in Nat \ {0}
  /\ MaxOpen \in Nat \ {0}
  /\ DailyLimit \in Nat \ {0}
  /\ MaxLosses \in Nat \ {0}
  /\ MaxTrade <= MaxOpen

RiskSnapshot ==
  [dailyPnl: Int, openCost: Nat, losses: Nat,
   ambiguous: Nat, stale: Nat, traded: BOOLEAN]

\* Seeded faults: a check that forgets one operand or one test.
CheckWithoutPnl(s, proposed) ==
  /\ s.ambiguous = 0 /\ s.stale = 0 /\ ~s.traded /\ s.losses < MaxLosses
  /\ proposed <= MaxTrade /\ s.openCost + proposed <= MaxOpen
  /\ -s.openCost - proposed >= -DailyLimit

CheckWithoutLosses(s, proposed) ==
  /\ s.ambiguous = 0 /\ s.stale = 0 /\ ~s.traded
  /\ proposed <= MaxTrade /\ s.openCost + proposed <= MaxOpen
  /\ s.dailyPnl - s.openCost - proposed >= -DailyLimit

\* RiskSnapshot::check.  The order of the tests picks only the reason that is
\* reported, so the verdict is their conjunction.
Check(s, proposed) ==
  /\ s.ambiguous = 0
  /\ s.stale = 0
  /\ ~s.traded
  /\ s.losses < MaxLosses
  /\ proposed <= MaxTrade
  /\ s.openCost + proposed <= MaxOpen
  /\ s.dailyPnl - s.openCost - proposed >= -DailyLimit

=============================================================================
