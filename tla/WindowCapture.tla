---------------------------- MODULE WindowCapture ----------------------------
(***************************************************************************)
(* What a window is measured against: the opening prices, the strike and   *)
(* the close, each taken from the price feeds (src/src/rtds.rs,            *)
(* src/src/binance_ws.rs) by the part of the main loop before the strategy *)
(* (src/src/main.rs) and kept in BtcPriceState, BinanceBtcPrice,           *)
(* WindowState (src/src/types.rs) and twap_observations (src/src/db.rs).   *)
(*                                                                         *)
(* A price is represented by the time the feed observed it, and a row of   *)
(* the database by the time it was captured.  A window is named by its     *)
(* first tick, as in the code.                                             *)
(***************************************************************************)
EXTENDS Integers

CONSTANTS
  None,          \* no price, no window, no row
  Feed,          \* the feeds of spot prices: "rtds", "binance"
  WindowLen,     \* WINDOW_SECS
  Grace,         \* how late an opening price may be taken (2 s)
  Lookback,      \* TWAP_STRIKE_LOOKBACK_TOLERANCE_MS
  TwapMaxAge,    \* TWAP_MAX_AGE_MS
  RtdsMaxAge,    \* RTDS_STALE_MS
  BinanceMaxAge, \* how old the opening price of Binance may be (2 s)
  Ahead,         \* how far in the future an observation is accepted (1 s)
  Delay,         \* bound: how old an observation is when it arrives
  MaxTick        \* bound: the last tick of a behaviour

ASSUME CaptureAssumption ==
  /\ WindowLen \in Nat \ {0} /\ MaxTick \in Nat
  /\ {Grace, Lookback, TwapMaxAge, RtdsMaxAge, BinanceMaxAge, Ahead, Delay} \subseteq Nat
  /\ None \notin Int

VARIABLES
  clock,           \* the system clock
  \* the feeds
  twap,            \* btc.twap_30_observed_at_ms
  spot,            \* current_price of each feed, by its last_update_ms
  \* the main loop
  pc,              \* where the loop is between two awaits
  cur,             \* current_ts
  now,             \* now_ms and now_secs
  last,            \* last_window_ts
  \* the shared state of a window
  window,          \* ws.window_ts
  open,            \* window_open_price of each feed
  strike,          \* ws.twap_strike
  openCaptured,    \* ws.open_captured
  resolveCaptured, \* ws.resolve_captured
  \* the database
  openRow,         \* open_captured_at_ms of each window
  closeRow         \* resolve_captured_at_ms of each window

feeds == <<twap, spot>>
loop == <<cur, now, last>>
ws == <<window, strike, openCaptured, resolveCaptured>>
rows == <<openRow, closeRow>>
vars == <<clock, feeds, pc, loop, ws, open, rows>>

Time == 0..MaxTick

\* The window that t lies in (current_window_ts).
WindowTs(t) == t - (t % WindowLen)

Window == {WindowTs(t) : t \in Time}
Observed == 0 .. MaxTick + Ahead

TypeOK ==
  /\ {clock, now} \subseteq Time
  /\ twap \in Observed \cup {None}
  /\ spot \in [Feed -> Observed \cup {None}]
  /\ pc \in {"top", "close", "rotate", "discover", "open", "down"}
  /\ cur \in Window
  /\ {last, window} \subseteq Window \cup {None}
  /\ open \in [Feed -> Observed \cup {None}]
  /\ strike \in Observed \cup {None}
  /\ {openCaptured, resolveCaptured} \subseteq BOOLEAN
  /\ openRow \in [Window -> Time \cup {None}]
  /\ closeRow \in [Window -> Time \cup {None}]

-----------------------------------------------------------------------------
(* The feeds                                                               *)

\* Observations that arrive now: late, or a little in the future.
Arriving == {t \in Observed : clock - Delay <= t /\ t <= clock + Ahead}

\* A reading replaces an older one only.
Newer(seen) == {t \in Arriving : seen = None \/ t > seen}

TwapUpdate ==
  /\ pc # "down"
  /\ twap' \in Newer(twap)
  /\ UNCHANGED <<clock, spot, pc, loop, ws, open, rows>>

SpotUpdate(f) ==
  /\ pc # "down"
  /\ \E t \in Newer(spot[f]) : spot' = [spot EXCEPT ![f] = t]
  /\ UNCHANGED <<clock, twap, pc, loop, ws, open, rows>>

Forgotten(f) == [g \in Feed |-> IF g = f THEN None ELSE spot[g]]

\* A broken connection forgets the current readings of its feed; the opening
\* prices stay.
RtdsDown ==
  /\ pc # "down"
  /\ twap' = None
  /\ spot' = Forgotten("rtds")
  /\ UNCHANGED <<clock, pc, loop, ws, open, rows>>

BinanceDown ==
  /\ pc # "down"
  /\ spot' = Forgotten("binance")
  /\ UNCHANGED <<clock, twap, pc, loop, ws, open, rows>>

-----------------------------------------------------------------------------
(* The main loop                                                           *)

\* Seeded fault: the window is read after the time.
ReadClocksSwapped ==
  /\ pc = "top"
  /\ pc' = "close"
  /\ \E later \in clock..MaxTick :
       cur' = WindowTs(later) /\ now' = clock /\ clock' = later
  /\ UNCHANGED <<feeds, last, ws, open, rows>>

\* An iteration reads the clock several times: first the window, then the time.
ReadClocks ==
  /\ pc = "top"
  /\ pc' = "close"
  /\ \E later \in clock..MaxTick :
       cur' = WindowTs(clock) /\ now' = later /\ clock' = later
  /\ UNCHANGED <<feeds, last, ws, open, rows>>

CloseDue == last # None /\ now >= last + WindowLen /\ ~resolveCaptured

\* Seeded fault: the capture is not remembered.
CloseCaptureForgotten(saved) ==
  /\ pc = "close" /\ CloseDue
  /\ closeRow' = IF saved THEN [closeRow EXCEPT ![last] = now] ELSE closeRow
  /\ pc' = "rotate"
  /\ UNCHANGED <<clock, feeds, loop, ws, open, openRow>>

\* The window that ended is closed.  A write that fails is only logged.
CloseCapture(saved) ==
  /\ pc = "close" /\ CloseDue
  /\ closeRow' = IF saved THEN [closeRow EXCEPT ![last] = now] ELSE closeRow
  /\ resolveCaptured' = TRUE
  /\ pc' = "rotate"
  /\ UNCHANGED <<clock, feeds, loop, window, strike, openCaptured, open, openRow>>

NoClose ==
  /\ pc = "close" /\ ~CloseDue
  /\ pc' = "rotate"
  /\ UNCHANGED <<clock, feeds, loop, ws, open, rows>>

MaxAge(f) == IF f = "rtds" THEN RtdsMaxAge ELSE BinanceMaxAge

\* Seeded fault: the first price after a restart is the opening price.
OpenPriceAnyTime(f) ==
  IF /\ spot[f] # None /\ spot[f] <= now /\ now - spot[f] <= MaxAge(f)
  THEN spot[f] ELSE None

\* The opening price: the last one of the feed, if the window has just begun.
OpenPrice(f) ==
  IF /\ cur <= now /\ now - cur <= Grace
     /\ spot[f] # None /\ spot[f] <= now /\ now - spot[f] <= MaxAge(f)
  THEN spot[f] ELSE None

\* Seeded fault: the strike of the last window is kept for the next.
RotateFlags ==
  /\ pc = "rotate" /\ cur # last
  /\ window' = cur
  /\ openCaptured' = FALSE /\ resolveCaptured' = FALSE
  /\ open' = [f \in Feed |-> OpenPrice(f)]
  /\ pc' = "discover"
  /\ UNCHANGED <<clock, feeds, loop, strike, rows>>

\* A new window: WindowState is reset and both opening prices are taken.
Rotate ==
  /\ pc = "rotate" /\ cur # last
  /\ window' = cur
  /\ strike' = None
  /\ openCaptured' = FALSE /\ resolveCaptured' = FALSE
  /\ open' = [f \in Feed |-> OpenPrice(f)]
  /\ pc' = "discover"
  /\ UNCHANGED <<clock, feeds, loop, rows>>

SameWindow ==
  /\ pc = "rotate" /\ cur = last
  /\ pc' = "open"
  /\ UNCHANGED <<clock, feeds, loop, ws, open, rows>>

\* fetch_market ended, with a market or without, after any number of retries.
Discovered ==
  /\ pc = "discover"
  /\ last' = cur
  /\ pc' = "open"
  /\ UNCHANGED <<clock, feeds, cur, now, ws, open, rows>>

\* The TWAP reading, if it is fresh by the time the iteration began with.
FreshTwap == IF twap # None /\ twap <= now /\ now - twap <= TwapMaxAge THEN twap ELSE None

\* Seeded fault: any fresh reading is a strike.
StrikeAnyFresh == FreshTwap

\* The strike: a fresh reading of the boundary, taken in time.
Strike ==
  IF /\ FreshTwap # None
     /\ cur - Lookback <= FreshTwap /\ FreshTwap <= cur + Grace
     /\ now <= cur + Grace
  THEN FreshTwap ELSE None

\* The rest of the iteration (LiveEntry) changes nothing of this.  The times it
\* began with are its own.
EndIteration == pc' = "top" /\ cur' = 0 /\ now' = 0

OpenDue == ~openCaptured /\ now >= cur

\* Seeded fault: the capture is not remembered.
OpenCaptureForgotten(saved) ==
  /\ pc = "open" /\ OpenDue
  /\ openRow' = IF saved THEN [openRow EXCEPT ![cur] = now] ELSE openRow
  /\ strike' = Strike
  /\ EndIteration
  /\ UNCHANGED <<clock, feeds, last, window, openCaptured, resolveCaptured, open, closeRow>>

\* The open of the window: a row for research, and the strike.
OpenCapture(saved) ==
  /\ pc = "open" /\ OpenDue
  /\ openRow' = IF saved THEN [openRow EXCEPT ![cur] = now] ELSE openRow
  /\ strike' = Strike
  /\ openCaptured' = TRUE
  /\ EndIteration
  /\ UNCHANGED <<clock, feeds, last, window, resolveCaptured, open, closeRow>>

NoOpen ==
  /\ pc = "open" /\ ~OpenDue
  /\ EndIteration
  /\ UNCHANGED <<clock, feeds, last, ws, open, rows>>

-----------------------------------------------------------------------------
(* The world                                                               *)

Tick ==
  /\ clock < MaxTick
  /\ clock' = clock + 1
  /\ UNCHANGED <<feeds, pc, loop, ws, open, rows>>

\* The process dies, and the next one knows nothing.
Crash ==
  /\ pc # "down"
  /\ pc' = "down"
  /\ twap' = None /\ spot' = [f \in Feed |-> None] /\ open' = [f \in Feed |-> None]
  /\ cur' = 0 /\ now' = 0 /\ last' = None
  /\ window' = None /\ strike' = None
  /\ openCaptured' = FALSE /\ resolveCaptured' = FALSE
  /\ UNCHANGED <<clock, rows>>

Start ==
  /\ pc = "down"
  /\ pc' = "top"
  /\ UNCHANGED <<clock, feeds, loop, ws, open, rows>>

Init ==
  /\ clock = 0
  /\ pc = "top"
  /\ twap = None /\ spot = [f \in Feed |-> None] /\ open = [f \in Feed |-> None]
  /\ cur = 0 /\ now = 0 /\ last = None
  /\ window = None /\ strike = None
  /\ openCaptured = FALSE /\ resolveCaptured = FALSE
  /\ openRow = [w \in Window |-> None]
  /\ closeRow = [w \in Window |-> None]

MainLoop ==
  \/ ReadClocks \/ NoClose \/ Rotate \/ SameWindow \/ Discovered \/ NoOpen
  \/ \E saved \in BOOLEAN : CloseCapture(saved) \/ OpenCapture(saved)

Next ==
  \/ MainLoop
  \/ TwapUpdate \/ RtdsDown \/ BinanceDown \/ \E f \in Feed : SpotUpdate(f)
  \/ Tick \/ Crash \/ Start

Spec == Init /\ [][Next]_vars

-----------------------------------------------------------------------------
(* Properties                                                              *)

Ended(w) == clock >= w + WindowLen

\* Where the loop is decides which window the shared state belongs to.
LoopInv ==
  /\ pc \in {"top", "close", "rotate", "down"} => last = window
  /\ pc = "discover" => window = cur /\ cur # last
  /\ pc = "open" => window = cur /\ last = cur
  /\ now <= clock
  /\ pc \in {"close", "rotate", "discover", "open"} => cur <= now
  /\ window # None => window <= clock
  /\ strike # None => openCaptured

\* Closing rows are of ended windows; the loop knows of the one of its window,
\* and none exists yet for a window it is about to begin.
CloseInv ==
  /\ \A w \in Window : closeRow[w] # None => Ended(w)
  /\ window # None /\ closeRow[window] # None => resolveCaptured
  /\ pc \in {"close", "rotate"} /\ cur # last => closeRow[cur] = None
  /\ pc = "close" /\ last # None /\ cur # last => now >= last + WindowLen
  /\ pc = "rotate" /\ last # None /\ cur # last => resolveCaptured

\* The opening price of a feed is a price of the boundary of its window, also
\* when the process started in the middle of one (the comment at main.rs 512-513).
OpenPriceAtBoundary ==
  \A f \in Feed : open[f] # None =>
    /\ window # None
    /\ window - MaxAge(f) <= open[f] /\ open[f] <= window + Grace

\* The strike was observed at the boundary of the window whose strike it is
\* (the comment at main.rs 598-602), however long the discovery took.
StrikeAtBoundary ==
  strike # None =>
    /\ window # None
    /\ window - Lookback <= strike /\ strike <= window + Grace

CaptureInv ==
  /\ TypeOK /\ LoopInv /\ CloseInv
  /\ OpenPriceAtBoundary /\ StrikeAtBoundary

\* A process measures a window against one reference: the opening prices of a
\* window never change, and neither does its strike, which is never filled in
\* later either (main.rs 570-572 and 639-641).
OneReference ==
  [][window' = window /\ window # None =>
       /\ open' = open
       /\ strike # None \/ openCaptured => strike' = strike]_vars

\* No window is left before its close was captured, whatever the loop waited
\* for (the comment at main.rs 368-377).
CloseNotSkipped ==
  [][window' # window /\ window # None /\ pc' # "down" => resolveCaptured]_vars

\* A close is captured once, also over restarts.
CloseOnce ==
  [][\A w \in Window : closeRow[w] # None => closeRow'[w] = closeRow[w]]_vars

\* The open of a window is captured once (main.rs 571: "The `open_captured` flag
\* makes it exactly once per window").
OpenOnce ==
  [][\A w \in Window : openRow[w] # None => openRow'[w] = openRow[w]]_vars

=============================================================================
