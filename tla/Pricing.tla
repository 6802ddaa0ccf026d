------------------------------- MODULE Pricing -------------------------------
(***************************************************************************)
(* The arithmetic of an order (src/src/trading.rs): the limit it may pay,  *)
(* its size, the fee it may cost, and the checks place_fak_buy makes of    *)
(* them before anything is sent.                                           *)
(*                                                                         *)
(* A cost is a price times a number of shares.  The fee of n shares at the *)
(* price p is n * rate/RateUnit * (p/One * (1 - p/One))^exponent dollars.  *)
(***************************************************************************)
EXTENDS Prices

CONSTANTS
  RateUnit,    \* denominator of a fee rate
  Lot          \* the smallest part of a share an order may have

ASSUME PricingAssumption == {RateUnit, Lot} \subseteq Nat \ {0}

\* buy_limit_price: the highest tick within ask + slippage, cap and 1 - tick,
\* if it reaches the ask.
BuyLimit(ask, slippage, cap, tick) ==
  LET ceiling == Lesser(Lesser(ask + slippage, cap), One - tick)
      limit == FloorTo(tick, ceiling, 1)
  IN IF /\ ask \in 1..One - 1 /\ slippage >= 0 /\ cap \in 1..One - 1
        /\ tick \in Ticks
        /\ limit >= ask /\ limit > 0
     THEN limit ELSE None

\* order_shares: whole lots.
OrderShares(shares) ==
  LET size == shares - (shares % Lot) IN IF size > 0 THEN size ELSE None

\* The largest exponent of a fee curve that is supported.
MaxExponent == 4

FeeSupported(fee) == fee.rate \in 0..RateUnit /\ fee.exponent \in 0..MaxExponent

\* The loop that multiplies the curve.
Power(curve, exponent) ==
  LET power[k \in 0..MaxExponent] == IF k = 0 THEN 1 ELSE power[k - 1] * curve
  IN  power[exponent]

\* The fee at the price p as a fraction, in units of cost.
FeeNum(shares, p, fee) == shares * fee.rate * Power(p * (One - p), fee.exponent) * One
FeeDen(fee) == RateUnit * Power(One * One, fee.exponent)

\* Seeded fault: the fee at the limit is taken for the largest.
FeeBoundAtLimit(shares, limit, fee) ==
  CeilTo(1, FeeNum(shares, limit, fee), FeeDen(fee))

\* fee_upper_bound: the curve is highest at one half; rounded up.
FeeBound(shares, limit, fee) ==
  CeilTo(1, FeeNum(shares, Lesser(limit, One \div 2), fee), FeeDen(fee))

\* place_fak_buy and place_fak_buy_raw up to the building of the order.  The
\* limit goes through buy_limit_price a second time.
Order(cfg, ask, tick, fee) ==
  LET limit == BuyLimit(ask, cfg.maxSlippage, cfg.maxAsk, tick)
      valid == IF limit = None THEN None ELSE BuyLimit(limit, 0, cfg.maxAsk, tick)
      shares == OrderShares(cfg.shares)
  IN IF /\ valid # None /\ shares # None
        /\ FeeSupported(fee)
        /\ valid * shares + FeeBound(shares, valid, fee) <= cfg.maxCost
     THEN [limit |-> valid, shares |-> shares] ELSE None

\* parse_buy_response: the cost the ledger is given for a fill of this order.
Booked(order, price, filled, fee) ==
  price * filled + FeeBound(filled, order.limit, fee)

-----------------------------------------------------------------------------
(* Properties                                                              *)

\* What a buyer relies on: a limit is on the grid, reaches the ask, and exceeds
\* neither the ask by more than the slippage nor the cap (trading.rs 37-38);
\* and a limit sent through the function again, as place_fak_buy_raw does,
\* is itself.
LimitSound(ask, slippage, cap, tick) ==
  LET limit == BuyLimit(ask, slippage, cap, tick)
  IN limit # None =>
       /\ limit \in ask..Lesser(ask + slippage, cap)
       /\ limit < One
       /\ limit % tick = 0
       /\ BuyLimit(limit, 0, cap, tick) = limit

\* An order that passes place_fak_buy costs at most the cap, wherever below its
\* limit it executes, whole or in part, and the ledger is given no less than it
\* costs (trading.rs 162-190, 276-277): the bound the risk check works with.
CostCovered(cfg, ask, tick, fee) ==
  LET order == Order(cfg, ask, tick, fee)
  IN order # None =>
       \A price \in 1..order.limit, filled \in 1..order.shares :
         /\ Booked(order, price, filled, fee) <= cfg.maxCost
         /\ price * filled * FeeDen(fee) + FeeNum(filled, price, fee)
              <= Booked(order, price, filled, fee) * FeeDen(fee)
=============================================================================
