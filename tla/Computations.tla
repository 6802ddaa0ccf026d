----------------------------- MODULE Computations -----------------------------
(***************************************************************************)
(* The computations of the decision and of the shadow quotes over sets of  *)
(* inputs: an initial state for each input, and nothing happens to it.     *)
(***************************************************************************)
EXTENDS Strategy, Maker, PriceBuffer, Configuration

CONSTANT Inputs    \* records with the field of: what they are inputs of

VARIABLE input     \* one of them, or None

\* Only a curve that passed validation is ever used.
ASSUME InputsAssumption ==
  \A i \in Inputs :
    /\ i.of = "entry" => i.view \in ViewType
                         /\ \A cfg \in i.later \cup {i.cfg} : ConfigTypeOk(cfg)
    /\ i.of = "order" => /\ i.ask \in Int /\ i.tick \in Opt(Int)
                         /\ i.fee \in [rate : Int, exponent : Nat]
                         /\ {i.cfg.maxSlippage, i.cfg.maxAsk, i.cfg.shares, i.cfg.maxCost}
                              \subseteq Int
    /\ i.of = "buffer" => i.buffer \in Seq([t : Nat, p : Int]) /\ i.windows \subseteq Nat
    /\ i.of = "curve" => /\ i.model \in ModelType /\ Valid(i.model)
                         /\ i.secs \subseteq Int /\ i.deltas \subseteq Int
                         /\ i.halves \subseteq Nat

InputInit == input \in Inputs \cup {None}

InputSpec == InputInit /\ [][UNCHANGED input]_input

Is(kind) == input # None /\ input.of = kind

\* Entries can be sent as they were judged.
EntriesPlaceable ==
  Is("entry") =>
    \A later \in input.later :
      EntryPlaceable(input.view, input.cfg, later, {}, 0)

\* Orders cost no more than the cap and no more than what is booked for them.
CostsCovered ==
  Is("order") => CostCovered(input.cfg, input.ask, input.tick, input.fee)

\* The averages and trends of Binance's prices are averages and shares.
BuffersSound ==
  Is("buffer") => \A window \in input.windows : BufferSound(input.buffer, window)

\* An installed curve is a monotone probability.
CurvesSound ==
  Is("curve") =>
    \A secs \in input.secs : PricesSoundly(input.model, input.deltas, secs)

\* The quotes for both outcomes, each rounded and clamped for itself, never add up
\* to a riskless profit (maker.rs 173-251).
QuotesNotArbitrable ==
  Is("curve") =>
    \A delta \in input.deltas, half \in input.halves, tick \in Ticks, secs \in input.secs :
      NotArbitrable(Quotes(input.model, delta, delta, FALSE, secs, half, tick,
                           [side \in Sides |-> input.book]))
=============================================================================
