------------------------------- MODULE Strategy -------------------------------
(***************************************************************************)
(* The decision to enter (src/src/strategy.rs): the gates evaluate_entry   *)
(* goes through, in their order, over a view of the shared state that is   *)
(* taken under all its locks at once.                                      *)
(*                                                                         *)
(* A view is a record of                                                   *)
(*   resolved, secs, tick                                                  *)
(*   spot       the Binance delta or None, spotAge its age                 *)
(*   twap       the delta of the TWAP to the strike or None                *)
(*   shadow     the delta of the Binance TWAP, which decides nothing       *)
(*   trend      the trend strength in hundredths, or None                  *)
(*   rtds       the move of the RTDS price or None, rtdsAge its age        *)
(*   books      per side [bid, ask, age, asks], asks a set of [p, n].      *)
(* Deltas are whole numbers; an age is None without an observation.        *)
(***************************************************************************)
EXTENDS Pricing, Sequences, FiniteSetsExt

CONSTANTS
  MaxAge,        \* max_price_age_ms and max_book_age_ms
  RtdsStale,     \* RTDS_STALE_MS
  MinDepth,      \* MIN_ASK_DEPTH
  EntryFrom,     \* seconds left at which entries begin, 120
  EntryTo,       \* and at which they end, 30
  MinAge         \* DELTA_MOMENTUM_MIN_AGE_MS

\* The delta that decides: use_twap_strike never falls back on the spot delta.
DecisionDelta(v, cfg) == IF cfg.useTwap THEN v.twap ELSE v.spot

\* The sign decides; no move counts as Down.
SideOf(delta) == IF delta > 0 THEN "Up" ELSE "Down"

\* delta_momentum: the present delta against the oldest reading [t, d] that is
\* old enough, as a fraction; 0 after a change of sign.
Momentum(history, delta, now) ==
  LET old == {e \in history : now - e.t >= MinAge}
      past == CHOOSE e \in old : \A f \in old : e.t <= f.t
  IN IF old = {} \/ past.d = 0 THEN None
     ELSE IF delta * past.d < 0 THEN <<0, 1>> ELSE <<AbsOf(delta), AbsOf(past.d)>>

\* The ask depth a limit can reach.
DepthUpTo(asks, limit) == MapThenSumSet(LAMBDA l : l.n, {l \in asks : l.p <= limit})

\* The gates in the order of the code.
Gates == <<"market_resolved", "no_binance_price", "twap_unavailable", "binance_stale",
           "below_threshold", "delta_reversing", "choppy", "trend_unavailable",
           "rtds_mismatch", "no_ask", "book_stale", "invalid_book", "ask_too_high",
           "ask_too_low", "no_bid", "spread_wide", "invalid_limit", "depth_low",
           "too_late", "too_early">>

\* Seeded fault: the depth of the whole ladder is taken for what can be bought.
EnoughTotal(v, cfg, book) ==
  MapThenSumSet(LAMBDA l : l.n, book.asks) >= Greater(MinDepth, cfg.shares)

\* Whether enough shares rest at or below the limit of the order.
EnoughDepth(v, cfg, book) ==
  LET limit == BuyLimit(book.ask, cfg.maxSlippage, cfg.maxAsk, v.tick)
  IN DepthUpTo(book.asks, limit) >= Greater(MinDepth, cfg.shares)

\* What makes a gate reject.  A gate is asked only when those before it passed.
Rejects(gate, v, cfg, history, now) ==
  LET delta == DecisionDelta(v, cfg)
      book == v.books[SideOf(delta)]
      ratio == Momentum(history, delta, now)
  IN CASE gate = "market_resolved" -> v.resolved
       [] gate = "no_binance_price" -> v.spot = None
       [] gate = "twap_unavailable" -> delta = None
       [] gate = "binance_stale" -> ~IsFresh(v.spotAge, MaxAge)
       [] gate = "below_threshold" -> AbsOf(delta) < cfg.threshold
       [] gate = "delta_reversing" ->
            ratio # None /\ ratio[1] * 100 < cfg.minMomentum * ratio[2]
       [] gate = "choppy" -> v.trend # None /\ v.trend < cfg.minTrend
       [] gate = "trend_unavailable" -> v.trend = None
       [] gate = "rtds_mismatch" ->
            /\ ~cfg.useTwap
            /\ v.rtdsAge # None /\ v.rtdsAge <= RtdsStale
            /\ v.rtds # None /\ v.rtds * delta <= 0
       [] gate = "no_ask" -> book.ask = None
       [] gate = "book_stale" -> ~IsFresh(book.age, MaxAge)
       [] gate = "invalid_book" -> book.bid # None /\ book.bid \notin 1..book.ask - 1
       [] gate = "ask_too_high" -> book.ask >= cfg.maxAsk
       [] gate = "ask_too_low" -> book.ask <= 0
       [] gate = "no_bid" -> book.bid = None
       [] gate = "spread_wide" -> book.ask - book.bid >= cfg.maxSpread
       [] gate = "invalid_limit" ->
            BuyLimit(book.ask, cfg.maxSlippage, cfg.maxAsk, v.tick) = None
       [] gate = "depth_low" -> ~EnoughDepth(v, cfg, book)
       [] gate = "too_late" -> v.secs < EntryTo
       [] gate = "too_early" -> v.secs > EntryFrom

\* The number of the first gate that rejects, or one more than there are.
FirstRejection(v, cfg, history, now) ==
  LET rejects(i) == Rejects(Gates[i], v, cfg, history, now)
  IN IF \E i \in DOMAIN Gates : rejects(i)
     THEN CHOOSE i \in DOMAIN Gates : rejects(i) /\ \A j \in 1..i - 1 : ~rejects(j)
     ELSE Len(Gates) + 1

\* evaluate_entry: the verdict, and what the evaluation had found when it was
\* reached.  A missing bid is reported as "no_ask".
EvaluateEntry(v, cfg, history, now) ==
  LET n == FirstRejection(v, cfg, history, now)
      past(gate) == \E i \in 1..n - 1 : Gates[i] = gate
      decided == past("twap_unavailable")
      delta == IF decided THEN DecisionDelta(v, cfg) ELSE None
      side == IF decided THEN SideOf(delta) ELSE None
  IN [reason |-> CASE n > Len(Gates) -> "entered"
                   [] n <= Len(Gates) /\ Gates[n] = "no_bid" -> "no_ask"
                   [] OTHER -> Gates[n],
      delta |-> delta,
      side |-> side,
      ask |-> IF past("no_ask") THEN v.books[side].ask ELSE None]

-----------------------------------------------------------------------------
(* Properties                                                              *)

ViewType ==
  LET Reading == Opt(Int)
      Book == [bid : Reading, ask : Reading, age : Reading, asks : SUBSET [p : Int, n : Nat]]
  IN [resolved : BOOLEAN, secs : Int, tick : Reading, spot : Reading, spotAge : Reading,
      twap : Reading, shadow : Reading, trend : Reading, rtds : Reading, rtdsAge : Reading,
      books : [Sides -> Book]]

ConfigTypeOk(cfg) ==
  /\ cfg.useTwap \in BOOLEAN
  /\ {cfg.threshold, cfg.maxSlippage, cfg.maxAsk, cfg.shares} \subseteq Int

\* An entry the gates let through can be sent as it was judged, with whatever
\* configuration is read for the order: it is for the side of the move, and if
\* the configuration is the same, its limit exists and the shares rest in the
\* book at or below it (strategy.rs 238-255, main.rs 1101-1109); after a change
\* the limit still reaches the ask and keeps the new cap and slippage.
EntryPlaceable(v, cfg, later, history, now) ==
  LET r == EvaluateEntry(v, cfg, history, now)
      limit(c) == BuyLimit(r.ask, c.maxSlippage, c.maxAsk, v.tick)
  IN r.reason = "entered" =>
       /\ r.side = "Up" <=> r.delta > 0
       /\ AbsOf(r.delta) >= cfg.threshold
       /\ limit(cfg) # None
       /\ DepthUpTo(v.books[r.side].asks, limit(cfg)) >= Greater(MinDepth, cfg.shares)
       /\ LimitSound(r.ask, later.maxSlippage, later.maxAsk, v.tick)
=============================================================================
