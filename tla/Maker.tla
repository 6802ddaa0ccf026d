-------------------------------- MODULE Maker --------------------------------
(***************************************************************************)
(* Shadow quoting (src/src/maker.rs and its place in the main loop): the   *)
(* bid and the ask the bot would rest in each of the two books.  Nothing   *)
(* is ever sent.                                                           *)
(***************************************************************************)
EXTENDS FairValue

CONSTANTS
  MinQuote,      \* MIN_QUOTE and 1 - MAX_QUOTE, in units
  MaxSecs,       \* the length of a window
  QuoteMaxAge    \* the 2 s after which a book or a price does not count

ASSUME MakerAssumption == {MinQuote, MaxSecs, QuoteMaxAge} \subseteq Nat

\* The tradeable band on the grid.
BandLo(tick) == CeilTo(tick, MinQuote, 1)
BandHi(tick) == FloorTo(tick, One - MinQuote, 1)
Clamp(x, lo, hi) == Lesser(Greater(x, lo), hi)

\* The quotes around a fair value: the bid is rounded down, the ask up.
BidOf(fair, half, tick) ==
  Clamp(FloorTo(tick, fair[1] - half * fair[2], fair[2]), BandLo(tick), BandHi(tick))
AskOf(fair, half, tick) ==
  Clamp(CeilTo(tick, fair[1] + half * fair[2], fair[2]), BandLo(tick), BandHi(tick))

\* quote_from_fair_value: None where no quote can rest on both sides, be it for
\* the band, the book, or a book that is crossed itself.
Quote(fair, secs, half, tick, book) ==
  LET bid == BidOf(fair, half, tick)
      ask == AskOf(fair, half, tick)
  IN IF /\ tick \in Ticks /\ secs \in 0..MaxSecs /\ half >= 0
        /\ fair[1] \in 0..One * fair[2]
        /\ {book.bid, book.ask} \subseteq Opt(0..One)
        /\ BandLo(tick) <= BandHi(tick)
        /\ book.bid # None /\ book.ask # None => book.bid < book.ask
        /\ bid < ask
        /\ book.ask # None => bid < book.ask
        /\ book.bid # None => book.bid < ask
     THEN [bid |-> bid, ask |-> ask] ELSE None

\* The shadow-quoting part of the main loop: both sides at the model's delta, a
\* side without a current book or an unknown tick left out.
Quotes(m, spot, twap, useTwap, secs, half, tick, books) ==
  LET delta == InputDelta(m, spot, twap, useTwap)
      fair(side) == FairValueOf(m, side, delta, secs)
  IN [side \in Sides |->
        IF \/ delta = None \/ tick = None
           \/ ~IsFresh(books[side].age, QuoteMaxAge)
           \/ fair(side) = None
        THEN None
        ELSE Quote(fair(side), secs, half, tick, books[side])]

-----------------------------------------------------------------------------
(* Properties                                                              *)

\* The quotes of one tick never offer a riskless profit: whoever buys both
\* outcomes from the bot pays at least a dollar, whoever sells it both gets at
\* most one (the reason fairvalue.rs 11-14 gives for its validation).
NotArbitrable(quotes) ==
  quotes["Up"] # None /\ quotes["Down"] # None =>
    /\ quotes["Up"].bid + quotes["Down"].bid <= One
    /\ quotes["Up"].ask + quotes["Down"].ask >= One
=============================================================================
