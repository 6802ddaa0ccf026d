----------------------------- MODULE MCEvaluation -----------------------------
(***************************************************************************)
(* The evaluation loop on small windows, and the computations it uses on   *)
(* many inputs: a behaviour is about one or the other.                     *)
(***************************************************************************)
EXTENDS Evaluation, Computations

MCBook == [bid |-> 9, ask |-> 10, age |-> 0, asks |-> {[p |-> 10, n |-> 6]}]
MCView(delta) ==
  [resolved |-> FALSE, secs |-> 2, tick |-> 1, spot |-> delta, spotAge |-> 0,
   twap |-> None, shadow |-> None, trend |-> 50, rtds |-> delta, rtdsAge |-> 0,
   books |-> [side \in Sides |-> MCBook]]
MCViews ==
  {MCView(delta) : delta \in {-2, 1, 3}}
    \cup {[MCView(1) EXCEPT !.spot = None],
          [MCView(2) EXCEPT !.trend = 10],
          [MCView(2) EXCEPT !.books = [side \in Sides |-> [MCBook EXCEPT !.ask = None]]]}
MCDefault ==
  [threshold |-> 2, minMomentum |-> 70, minTrend |-> 40, maxSpread |-> 3, maxSlippage |-> 1,
   maxAsk |-> 16, shares |-> 4, maxCost |-> 80, maxOpen |-> 80, maxLosses |-> 3,
   dailyLimit |-> 200, maxBookAge |-> 1, maxPriceAge |-> 1, cadence |-> 2, halfSpread |-> 1]
MCEnv ==
  [field \in DOMAIN MCDefault \cup {"useTwap", "dryRun", "taker", "mode", "proxy"} |-> Unset]
MCCfg == Started(MCEnv)

\* Views with books of every shape, and with each other gate closed.
MCBooks ==
  {[bid |-> bid, ask |-> ask, age |-> age, asks |-> levels] :
     bid \in {None, 0, 8, 9}, ask \in 9..11, age \in {0, 2},
     levels \in {{[p |-> 10, n |-> n]} \cup {[p |-> 11, n |-> k]} : n, k \in {1, 4}}}
MCEntryViews ==
  {[MCView(delta) EXCEPT !.books = [side \in Sides |-> book], !.tick = tick, !.twap = twap] :
     delta \in {-2, 2}, twap \in {None, -2}, tick \in {1, 2, 3}, book \in MCBooks}
  \cup {[MCView(2) EXCEPT !.resolved = TRUE], [MCView(0) EXCEPT !.rtds = 1],
        [MCView(2) EXCEPT !.rtds = -1], [MCView(2) EXCEPT !.rtdsAge = None],
        [MCView(2) EXCEPT !.spotAge = 2], [MCView(2) EXCEPT !.trend = None],
        [MCView(2) EXCEPT !.secs = 5], [MCView(2) EXCEPT !.secs = 0]}
\* The configurations processes start with that have any of these settings, and
\* what commands make of one.
MCStarted(envs) == {Started(env) : env \in envs} \ {None}
MCAfter(cfg, field, values) == {SetParam(cfg, field, value) : value \in values}

MCConfigs ==
  LET started ==
        MCStarted({[MCEnv EXCEPT !.useTwap = twap, !.maxAsk = cap, !.maxSlippage = slip] :
                     twap \in {Unset, TRUE}, cap \in {Garbled, 11, 25}, slip \in {0, 1}})
  IN started \cup UNION {MCAfter(cfg, "maxSlippage", {0, 9}) : cfg \in started}
             \cup MCAfter(MCCfg, "threshold", {0})
MCLater(cfg) ==
  UNION {MCAfter(c, "maxSlippage", 0..2) : c \in MCAfter(cfg, "maxAsk", {0, 11, 16, 25})}
MCEntries ==
  {[of |-> "entry", view |-> view, cfg |-> cfg, later |-> MCLater(cfg)] :
     view \in MCEntryViews, cfg \in MCConfigs}

MCOrderConfigs ==
  LET started ==
        MCStarted({[MCEnv EXCEPT !.maxAsk = cap, !.maxSlippage = 3, !.shares = shares,
                                 !.maxCost = cost] :
                     cap \in {10, 17}, shares \in {1, 2, 5}, cost \in {40, 60, Garbled}})
  IN started \cup UNION {MCAfter(cfg, "maxSlippage", {0}) : cfg \in started}
MCOrders ==
  {[of |-> "order", ask |-> ask, tick |-> tick, cfg |-> cfg,
    fee |-> [rate |-> rate, exponent |-> e]] :
     ask \in 1..19, tick \in Ticks, rate \in {1, 10}, e \in 0..2, cfg \in MCOrderConfigs}
  \cup {[of |-> "order", ask |-> 10, tick |-> 1, cfg |-> cfg, fee |-> fee] :
           cfg \in MCOrderConfigs,
           fee \in {[rate |-> 11, exponent |-> 1], [rate |-> 1, exponent |-> 5]}}

MCSample == [t : 0..4, p : {1, 2, 4}]
MCBuffers ==
  {[of |-> "buffer", buffer |-> b, windows |-> 0..4] : b \in UNION {[1..n -> MCSample] : n \in 0..3}}
    \cup {[of |-> "buffer", buffer |-> [i \in 1..4 |-> [t |-> t[i], p |-> i]],
            windows |-> 0..4] : t \in [1..4 -> 0..4]}

MCCell == [p : {0, 5, 18, 20}, n : {2}, w : {2}, low : BOOLEAN]
MCCurves ==
  {[edges |-> <<-2, 2>>, centers |-> centers, secs |-> <<0, 3>>, minN |-> 2, minW |-> None,
    feature |-> None, grid |-> <<row>>] :
     centers \in {<<-4, 0, 3>>, <<-3, 1, 2>>, <<-2, 0, 3>>}, row \in [1..3 -> MCCell]}
MCInputs ==
  MCEntries \cup MCOrders \cup MCBuffers
    \cup {[of |-> "curve", model |-> model, secs |-> {2, 3}, deltas |-> -6..6,
            halves |-> 0..3, book |-> book] :
            model \in {m \in MCCurves : Valid(m)},
            book \in {[bid |-> None, ask |-> None, age |-> 0], [bid |-> 7, ask |-> 9, age |-> 0]}}

MCInit == Init /\ InputInit

MCSpec ==
  /\ MCInit
  /\ [][IF input = None THEN Next /\ UNCHANGED input ELSE UNCHANGED <<vars, input>>]_<<vars, input>>
=============================================================================
