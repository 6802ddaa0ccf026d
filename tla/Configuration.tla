---------------------------- MODULE Configuration ----------------------------
(***************************************************************************)
(* The configuration (src/src/config.rs): what a process starts with, for  *)
(* what it finds in its environment, and what commands of the operator     *)
(* make of it (src/src/telegram.rs).                                       *)
(*                                                                         *)
(* A variable of the environment is Unset, Garbled or a value.  The money  *)
(* and share fields are in units and shares; ratios are in hundredths.     *)
(***************************************************************************)
EXTENDS Prices

CONSTANTS
  Unset, Garbled,
  Default,        \* a record: the default of each setting
  GarbledTrend,   \* what MIN_TREND_STRENGTH is if it makes no sense, 0.2
  MostSlippage,   \* 0.20, in units
  MinShares,      \* the least an order may have, 5
  Cadences,       \* the cadences that are not replaced, 0 and 250 ms to 60 s
  HalfSpreads     \* the half spreads that are not replaced, 0.01 to 0.25

ASSUME ConfigurationAssumption ==
  /\ Unset \notin Int /\ Garbled \notin Int
  /\ {GarbledTrend, MostSlippage, MinShares} \subseteq Nat
  /\ Cadences \cup HalfSpreads \subseteq Nat

-----------------------------------------------------------------------------
(* Start                                                                   *)

\* A number that is optional, and one that is replaced outside its range.
Parsed(raw, default) == IF raw \in {Unset, Garbled} THEN default ELSE raw
Within(x, range, replacement) == IF x \in range THEN x ELSE replacement

\* from_env.  The trend strength has two defaults.
Settings(env) ==
  [useTwap |-> env.useTwap = TRUE,
   threshold |-> Parsed(env.threshold, Default.threshold),
   minMomentum |-> Within(Parsed(env.minMomentum, Default.minMomentum), 0..500,
                          Default.minMomentum),
   minTrend |-> Within(CASE env.minTrend = Unset -> Default.minTrend
                         [] env.minTrend = Garbled -> GarbledTrend
                         [] OTHER -> env.minTrend, 0..100, GarbledTrend),
   maxSpread |-> Parsed(env.maxSpread, Default.maxSpread),
   maxSlippage |-> Within(Parsed(env.maxSlippage, Default.maxSlippage), 1..MostSlippage,
                          Default.maxSlippage),
   maxAsk |-> Parsed(env.maxAsk, Default.maxAsk),
   shares |-> Parsed(env.shares, Default.shares),
   maxCost |-> Parsed(env.maxCost, Default.maxCost),
   maxOpen |-> Parsed(env.maxOpen, Default.maxOpen),
   maxLosses |-> Parsed(env.maxLosses, Default.maxLosses),
   dailyLimit |-> Parsed(env.dailyLimit, Default.dailyLimit),
   maxBookAge |-> Parsed(env.maxBookAge, Default.maxBookAge),
   maxPriceAge |-> Parsed(env.maxPriceAge, Default.maxPriceAge),
   cadence |-> Within(Parsed(env.cadence, Default.cadence), Cadences, Default.cadence),
   halfSpread |-> Within(Parsed(env.halfSpread, Default.halfSpread), HalfSpreads,
                         Default.halfSpread),
   dryRun |-> Parsed(env.dryRun, TRUE),
   taker |-> Parsed(env.taker, FALSE),
   mode |-> Parsed(env.mode, "off")]

\* What from_env refuses to start with.
Refused(env, cfg) ==
  \/ \E field \in {"maxCost", "maxOpen", "maxBookAge", "maxPriceAge", "dryRun", "taker", "mode"} :
       env[field] = Garbled
  \/ \E field \in {"threshold", "maxAsk", "maxSpread", "shares", "dailyLimit", "maxCost",
                   "maxOpen", "maxBookAge", "maxPriceAge"} : cfg[field] <= 0
  \/ cfg.maxAsk >= One \/ cfg.maxSpread >= One
  \/ cfg.shares < MinShares \/ cfg.maxLosses < 1 \/ cfg.maxCost > cfg.maxOpen
  \/ cfg.mode \notin {"off", "shadow"}
  \/ env.proxy = Garbled
  \/ ~cfg.dryRun /\ env.proxy = Unset

Started(env) == IF Refused(env, Settings(env)) THEN None ELSE Settings(env)

-----------------------------------------------------------------------------
(* Commands                                                                *)

\* The values /set_... accepts.  The threshold and the cap on asks are taken as
\* they come.
Settable(field, value) ==
  CASE field = "maxSpread" -> value \in 0..One
    [] field = "shares" -> value >= MinShares
    [] field = "minMomentum" -> value \in 0..500
    [] field = "maxSlippage" -> value \in 0..MostSlippage
    [] field = "minTrend" -> value \in 0..100
    [] field \in {"threshold", "maxAsk"} -> TRUE

\* handle_update and set_param.
SetParam(cfg, field, value) ==
  IF Settable(field, value) THEN [cfg EXCEPT ![field] = value] ELSE cfg
=============================================================================
