-------------------------------- MODULE Prices --------------------------------
(***************************************************************************)
(* What the pricing code has in common: the two outcomes of a market,      *)
(* values that may be missing (Option<T>), and prices as whole numbers of  *)
(* a unit that divides every tick, so that One units pay one dollar.       *)
(***************************************************************************)
EXTENDS Integers

CONSTANTS
  None,      \* Option::None
  One,       \* one dollar, in units
  Ticks      \* the tick sizes of the exchange, in units

Sides == {"Up", "Down"}

ASSUME PriceAssumption ==
  /\ One \in Nat \ {0}
  /\ None \notin Int \cup Sides
  /\ Ticks \subseteq {t \in 1..One : One % t = 0}

\* What a set becomes where a value may be missing.
Opt(S) == S \cup {None}

Lesser(a, b) == IF a <= b THEN a ELSE b
Greater(a, b) == IF a >= b THEN a ELSE b
AbsOf(a) == IF a < 0 THEN -a ELSE a

\* The multiple of tick at or below, and at or above, the price num/den.
FloorTo(tick, num, den) == (num \div (tick * den)) * tick
CeilTo(tick, num, den) == -FloorTo(tick, -num, den)

\* is_fresh: an observation of this age counts; one from the future does not.
IsFresh(age, most) == age # None /\ age \in 0..most
=============================================================================
