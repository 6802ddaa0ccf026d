------------------------------ MODULE FairValue ------------------------------
(***************************************************************************)
(* The fair-value curve (src/src/fairvalue.rs): the probability that a     *)
(* side wins, by the signed delta and the seconds left, interpolated       *)
(* between the cells of a grid that an offline tool fitted.                *)
(*                                                                         *)
(* A model is a record of                                                  *)
(*   edges, centers   the edges and the centres of the delta buckets,      *)
(*   secs             the edges of the buckets of seconds, half open,      *)
(*   minN, minW       the least rows and windows of a cell (minW or None), *)
(*   feature          what delta the curve was fitted on, or None,         *)
(*   grid             a row of cells [p, n, w, low] per bucket of seconds. *)
(* Probabilities are in units of which One are certainty; a fair value is  *)
(* a fraction <<numerator, denominator>> of such units.                    *)
(***************************************************************************)
EXTENDS Prices, Sequences, FiniteSetsExt

Increasing(s) == \A i \in 1..Len(s) - 1 : s[i] < s[i + 1]
NotFalling(row) == \A i \in 1..Len(row) - 1 : row[i].p <= row[i + 1].p

CellValid(cell) == cell.p \in 0..One /\ cell.n >= 0 /\ cell.w \in 0..cell.n

\* A centre lies in its bucket, which is half open.
InBucket(m, i) ==
  /\ i > 1 => m.centers[i] >= m.edges[i - 1]
  /\ i <= Len(m.edges) => m.centers[i] < m.edges[i]

ShapeValid(m) ==
  /\ m.feature \in {None, "twap_delta_pct", "spot_delta_pct", "decision_delta"}
  /\ m.minN > 0
  /\ m.minW # None => m.minW > 0
  /\ Increasing(m.edges) /\ Increasing(m.centers) /\ Increasing(m.secs)
  /\ Len(m.centers) = Len(m.edges) + 1
  /\ \A i \in DOMAIN m.centers : InBucket(m, i)
  /\ Len(m.secs) >= 2
  /\ Len(m.grid) = Len(m.secs) - 1
  /\ \A r \in DOMAIN m.grid : Len(m.grid[r]) = Len(m.centers)
  /\ \A r \in DOMAIN m.grid : \A i \in DOMAIN m.grid[r] : CellValid(m.grid[r][i])

\* Seeded fault: the curve is trusted to be monotone.
ValidShape(m) == ShapeValid(m)

\* validate: what load demands of a file before the model is installed.
Valid(m) == ShapeValid(m) /\ \A r \in DOMAIN m.grid : NotFalling(m.grid[r])

\* usable, delta_bucket, secs_bucket.
Usable(m, cell) ==
  /\ ~cell.low
  /\ cell.n >= m.minN
  /\ cell.w >= IF m.minW = None THEN m.minN ELSE m.minW

DeltaBucket(m, delta) == 1 + Cardinality({i \in DOMAIN m.edges : m.edges[i] <= delta})

SecsBucket(m, secs) ==
  LET at == {i \in 1..Len(m.secs) - 1 : secs \in m.secs[i]..m.secs[i + 1] - 1}
  IN IF at = {} THEN None ELSE CHOOSE i \in at : TRUE

\* interpolate: between the centres around delta, flat outside the outermost.
Interpolate(m, row, i, delta) ==
  LET far == IF delta >= m.centers[i] THEN i + 1 ELSE i - 1
      lo == Lesser(i, far)
      hi == Greater(i, far)
      width == m.centers[hi] - m.centers[lo]
      along == delta - m.centers[lo]
  IN IF delta = m.centers[i] \/ far \notin DOMAIN m.centers THEN <<row[i].p, 1>>
     ELSE IF ~Usable(m, row[lo]) \/ ~Usable(m, row[hi]) THEN None
     ELSE <<row[lo].p * (width - along) + row[hi].p * along, width>>

\* Seeded fault: the probability of Up is taken for that of either side.
UpForBoth(m, side, delta, secs) ==
  LET s == SecsBucket(m, secs)
      i == DeltaBucket(m, delta)
      up == Interpolate(m, m.grid[s], i, delta)
  IN IF s = None \/ ~Usable(m, m.grid[s][i]) \/ up = None THEN None ELSE up

\* fair_value: for Up, and the complement for Down.
FairValueOf(m, side, delta, secs) ==
  LET s == SecsBucket(m, secs)
      i == DeltaBucket(m, delta)
      up == Interpolate(m, m.grid[s], i, delta)
  IN IF s = None \/ ~Usable(m, m.grid[s][i]) \/ up = None THEN None
     ELSE IF side = "Up" THEN up ELSE <<One * up[2] - up[1], up[2]>>

\* input_delta: the delta the curve was fitted on, whatever the taker uses.
InputDelta(m, spot, twap, useTwap) ==
  CASE m.feature = "twap_delta_pct" -> twap
    [] m.feature = "spot_delta_pct" -> spot
    [] OTHER -> IF useTwap THEN twap ELSE spot

-----------------------------------------------------------------------------
(* Properties                                                              *)

ModelType ==
  LET Cell == [p : Int, n : Int, w : Int, low : BOOLEAN]
  IN [edges : Seq(Int), centers : Seq(Int), secs : Seq(Int), minN : Int, minW : Opt(Int),
      feature : Opt(STRING), grid : Seq(Seq(Cell))]

AtMost(a, b) == a[1] * b[2] <= b[1] * a[2]

\* A model that passed validation prices a side between 0 and 1 and never lower
\* for a greater delta, across the edges of buckets and the gaps left by thin
\* cells (fairvalue.rs 10-14): otherwise quotes could be played off against
\* each other.
PricesSoundly(m, deltas, secs) ==
  LET up(delta) == FairValueOf(m, "Up", delta, secs)
  IN \A d, e \in deltas :
       d <= e /\ up(d) # None /\ up(e) # None =>
         AtMost(<<0, 1>>, up(d)) /\ AtMost(up(d), up(e)) /\ AtMost(up(e), <<One, 1>>)
=============================================================================
