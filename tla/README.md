# Verification of the BTC 5-minute bot

TLA+ models of the trading bot in `src/`, the TLC configurations that check
them on small instances, and TLAPS proofs of their main properties for every
value of the constants.

Check everything in this directory with `tlc -workers 2 -config X.cfg M` for
the module and configuration of a run in `PROJECT.json`, and `tlapm M.tla` for
the modules whose name ends in `_proofs`.

## 1. The system

One process runs a handful of tokio tasks, which share state behind `RwLock`s
and talk through bounded channels; what must survive a restart is in SQLite.

| part | source | state | operations | interacts with |
|---|---|---|---|---|
| main loop | `main.rs` 345-1577 | `window_state`, `token_window_map`, `last_window_ts` | every 250 ms: close capture, rotation, discovery, open capture, sampling, strategy, taker branch, resolutions, kill switch | everything below |
| journal and ledger | `db.rs` | `order_attempts`, `trades`, research tables | `reserve_live_order`, `finish_order_attempt`, `insert_trade`, `resolve_trade_by_window_ts`, queries | main loop, Telegram |
| risk check | `risk.rs` | none | `RiskSnapshot::check` | inside `reserve_live_order` |
| order submission | `trading.rs` | none | `place_fak_buy`, `parse_buy_response`, price and fee arithmetic | the exchange |
| CLOB feed | `market_ws.rs` | `shared_tokens`, `market_state` (books, resolved flag) | connect, subscribe, snapshots, deltas, resolutions | main loop, by two channels |
| RTDS and Binance feeds | `rtds.rs`, `binance_ws.rs` | `btc_price`, `binance_price` | ticks, watchdog, reconnect | strategy, captures |
| strategy | `strategy.rs` | none | `evaluate_entry` | main loop |
| series and signal log | `types.rs`, `main.rs` 743-908 | `delta_history`, `ask_history`, peaks, last logged reason and time | push, observe, clear at rotation, `should_write_signal` | main loop, database |
| configuration | `config.rs` | `SharedConfig` | `from_env`, clone per iteration | written by Telegram, read by all |
| Telegram | `telegram.rs` | configuration, `paused` | `/pause`, `/resume`, `/dryrun`, `/set_*`, reports | shared state |
| recorder | `recorder.rs` | bounded queue | `record`, batch writer | CLOB feed, database |
| shadow quoting, fair value | `maker.rs`, `fairvalue.rs` | none | pure functions | main loop, measurement only |
| discovery | `discovery.rs` | none | window arithmetic, `fetch_market` | main loop |
| offline tools | `tools/*.py` | none | batch statistics | database snapshots |

Hard behaviours: an order whose answer is lost while the exchange executes it;
a crash between any two of reservation, request, ledger insert and end of the
attempt; a retry or a `/resume` after an unknown order; midnight and the end of
a window between two steps; resolutions that arrive minutes late or out of
order; write-preferring locks taken in several orders; two bounded channels in
opposite directions between tasks that each wait for room; a silent feed on an
open connection; a queue that overflows while its own gap marker needs room in
it; late events of the previous window's tokens; deltas after a lost frame; a
configuration changed between a verdict and its order; rounding that must err
on the safe side in both directions. `PROJECT.json` lists them
as hazards, each at its line, with the properties that cover it.

What makes each part correct: no order is bought twice and none escapes the
database (entry path, journal); spending stays within the caps and the day's
budget (risk check, ledger); the tasks never wait for each other in a circle
and every waiter is served (locks); a decision only sees prices of its own
window, and prices the server really had (CLOB feed); a window is measured
against prices of its own boundary, taken once (captures). The tape shows its
own gaps (recorder). A silence of the TWAP feed ends, and is escalated in order
(RTDS). While no resolution comes too late, main loop and CLOB task do not wait
for each other's channel, and a resolution that was forwarded is handled
(channels). A verdict compares with readings of its own
window and token, and the log lacks none (series). An entry that passed the
gates can be sent as it was judged, costs what the risk check assumed, and the
quotes for both outcomes are never a riskless profit for someone else (strategy,
order arithmetic, fair value, quotes).

## 2. Modules

| module | models |
|---|---|
| `RiskCheck` | the limits with what `config.rs` validates of them (`LimitsAssumption`), and `RiskSnapshot::check` |
| `SpendingGuard` | abstract specification: what the entry path promises about money |
| `LiveEntry` | the live-entry path: main loop, journal, ledger, exchange, operator, clock, crashes |
| `SharedLocks` | the order in which the tasks take and drop the shared locks |
| `MarketFeed` | which window's data the strategy sees: rotation, Subscribe commands, reconnects, resolutions |
| `TokenBook` | one local order book, kept from snapshots and deltas over an unreliable stream |
| `WindowCapture` | what a window is measured against: opening prices, strike and close |
| `Channels` | the command and the resolution channel between main loop and CLOB task |
| `Recorder` | the raw tape: bounded queue, gap markers, batches, failed transactions, crashes |
| `RtdsWatchdog` | the RTDS connection: readings, re-subscription, reconnection |
| `Evaluation` | one iteration after the other: the verdict, the series it is compared with, the signal log |
| `Strategy` | `evaluate_entry`: the gates in their order, over a view of the shared state |
| `Pricing` | limit price, share rounding, fee bound, cost checks, the cost that is booked |
| `PriceBuffer` | averages and trends of Binance's price buffer |
| `FairValue` | validation of the curve, buckets, interpolation, abstention |
| `Maker` | the shadow quotes around a fair value |
| `Configuration` | what a process starts with, what it refuses, what commands change |
| `Prices` | prices in units, the tick grid, rounding to it, freshness of an age |
| `Computations` | the pure modules above, with a state per input |
| `SpendingGuard_proofs`, `LiveEntry_proofs`, `WindowCapture_proofs` | the theorems about the module of that name |
| `ClobFeed_proofs` | the theorems about `MarketFeed` and `TokenBook` |
| `Waiting_proofs` | the theorems about `SharedLocks` and `Channels` |
| `FeedTasks_proofs` | the theorems about `Recorder` and `RtdsWatchdog` |
| `Evaluation_proofs` | the theorems about `Evaluation`, `Computations` and `Configuration` |
| `SumTheorems` | sums over finite sets, induction, sequences in order and loops, for the proofs |
| `MC*` | the small instances for TLC; `MCFeedTasks` runs `Recorder` and `RtdsWatchdog` side by side, `MCEvaluation` the loop of `Evaluation` and the inputs of `Computations` |

The modules compose as follows: `LiveEntry` extends `RiskCheck` and implements
`SpendingGuard`; `Evaluation` extends `Strategy`, which extends `Pricing`;
`Maker` extends `FairValue`; `Computations` joins `Strategy`, `Maker`,
`PriceBuffer` and `Configuration`.

Definitions whose comment begins with "Seeded fault" are not part of a
specification: each is a version of the definition below it with a plausible
bug, and shows that the property named in `PROJECT.json` "mutants" notices it.

### LiveEntry

`pc` is the place of the main loop between two awaits at which something else
can happen: top of the loop (`tick`), discovery, evaluation, reservation,
placement (`place`, `sign`, `wait`), end of the attempt (`finish`), resolutions
(`drain`), or `down`. Each early `continue` of the taker branch is a step back
to `tick`. `journal` is `order_attempts` and `trades` the table of that name;
both survive `Crash`, everything in `memory` does not. `orders` is what the
exchange did with each attempt, which the bot never reads except through the
answer: `sent` may become `filled` or `dead` at any time, also while the bot is
down. The strategy is a free choice (`NoSignal` or a signal), so the results
hold for any strategy. `Unclear` is every answer that `parse_buy_response`
calls `ORDER_STATE_UNKNOWN`, and a missing one. Every write may fail where the
code handles its failure, and so may the reads whose failure the code takes for an
answer: the kill switch then sees nothing, and `Rotate(read)` finds a window without
a trade when `get_trade_by_window_ts` fails (`db.rs` 1149-1150 ends in `.ok()`). After a
restart in the middle of a window that read is all a process knows of it, so a window
can get several rows: paper after paper, paper after live, or live after paper. A
second live row is kept out by the journal. What then holds is stated by
`FillBookedOnce` (no order is booked twice) and `SettledTogether` (a resolution looks
at the last row only, and must not leave another one open). `Settled` settles all open
rows of a window, each by its own side, as the UPDATE in `db.rs` does.

Time is counted in ticks; a window is `WindowLen` ticks, of which the last
`TailLen` are the final 30 seconds. Money is an integer; the booked cost of a
fill is anything between what the exchange took and the cap, since the fee is
an upper bound. The branch of the main loop for a live order with zero fill
(`main.rs` 1211-1253) is unreachable, because `parse_buy_response` turns such
an answer into an unknown one, and is left out. Live `/testorder` is disabled in
the code. A resolution is handled for a token in memory; one for a token that
a restart has forgotten is dropped, as in the code.

`Guard` maps `LiveEntry` to `SpendingGuard`: the reserved order is the
ambiguous journal row without a trade row, the open cost and the day's profit
are the ledger's.

`PostWithinLimits` has an exception that only the proof brought to light. The
reservation may count on a profit of the day; if midnight comes before the
request goes out, that profit no longer counts and the order exceeds the new
day's budget although nothing else happened. That can only be so on a day with
nothing settled yet (`SettledToday = {}`), and then the order still keeps the
open cap.

### SharedLocks

Each routine is the sequence of locks it takes and drops; code between them
that touches no lock is left out, and so is a second routine with the same
sequence. A tokio `RwLock` is fair: a reader that arrives behind a waiting
writer waits, even when all current guards are read guards. `Acquire`,
`Enqueue` and `Grant` model that. `telegram::notify` keeps a read guard of the
configuration while the message is sent. `Under(l, body)` is the scope of a read
guard, so that a routine is written with the nesting of the code.

### MarketFeed and TokenBook

In `MarketFeed` a window stands for its two tokens and a book for the window
whose prices it shows. `Discover` and `Publish` are two steps, as are the two
halves of a Subscribe command (`Subscribe`, `ClearBooks`) and the two ends of a
connection (`Lose`, `Disconnect`), because the main loop runs between them.
`Connect(sent)` sends the request for the tokens remembered, and goes on to read
whether or not it was sent, as the code does (`market_ws.rs` 76): the connection is
then up without a subscription (`Mute`) until it ends or a new command comes.
Between `Publish` and the handling of the command the old window's tokens can
still fill the books and set the flag. The properties therefore speak of the
time after the command was handled; in the code the strategy enters only in
the last two minutes of a window, long after a feed that is connected has
handled its command.

In `TokenBook` a frame names the version of the server's book it was made for,
and its changes are the difference of two versions. Every delta reports the
server's best prices. A cleared book has forgotten its timestamp, so an old
frame repeated after a clear is accepted. `intact` remembers whether the deltas
accepted since the snapshot came one after the other, each once or again at
once; `LadderExact` is about that case.

### WindowCapture

A price is represented by the time the feed observed it, because that time
alone decides whether a reading replaces an older one and whether it may become
an opening price or a strike; a row of `twap_observations` is represented by
its capture time. `pc` is the place of the loop between the awaits: close
capture, rotation, discovery, open capture. Between any two of them readings
arrive, connections break and time passes, up to a stall of several windows.
`ReadClocks` reads the clock twice in one step, first the window and then the
time, with any delay between; the second and millisecond readings after it are
one value. The code's zero for "no window yet" is `None`.

The two feeds are `"rtds"` and `"binance"`; each has its own opening price, and
only the first one delivers the TWAP reading. Binance accepts a trade of the
same millisecond as the last one, which changes nothing that the model sees.
Left out are the Binance TWAP shadow values, whose buffer is not modelled, and
the counters of capture coverage. The system clock does not step back.

### Channels

`pc` is the place of the main loop: top, waiting for room for a Subscribe
command, evaluation, taker branch, resolutions. `Attempt` has every end of the
taker branch; all but a fill start the loop over without looking at the
resolutions, which is what makes `ResolutionHandled` worth stating. Time is the
window and one of three phases of it, more than 120 seconds left (`early`), 120
to 30 (`entry`) and less (`late`). `PhaseMayEnd` is the one assumption about
speed: a phase lasts half a minute at least, so an iteration that is not waiting
for room ends in the phase it began in or the next. The pause of 3 s after a
failure is left out, so that attempts follow each other as fast as can be.

A window that is rotated to later than two seconds after its beginning has no
opening price and `tradable` stays false. The server tells the resolution of a
window once, after its end, to the connections that are subscribed to it, and at
most `Lag` windows later; a connection whose first request failed (`Connect(FALSE)`)
has no subscription; a window whose resolution finds no subscription by
then is never told, which is the hazard at `market_ws.rs` 72. What the exchange
owes a connection made later, and how late it may be, cannot be read from the
code: `Lag` is a parameter, and one message may carry all that is due.

### Recorder

A frame is the number in which it arrived, so that a gap on the tape is two
frames next to each other whose numbers are not. `Offer` is `record` with its
two calls of `try_send`: the marker of an earlier overflow goes first and may
take the last room from the frame it announces. The first and the last row of a
connection go the same way as a frame. `WriteFails` loses the batch with the
markers in it. `Crash` loses the queue and the batch, and the next row is
`capture_connected`.

### RtdsWatchdog

Time appears only as the age of something, so that behaviours have no end and
liveness is about real recovery. The loop looks at its timers every 250 ms,
short against a tick, so that time does not pass while a threshold is due;
during the sending of a frame it does, up to `SendMax`. `quiet` is the true age
of the last reading and `silent` the age the code keeps; `tried` remembers a
re-subscription. The growing delay between connections and the pings are left
out.

### Evaluation

Time is a number of beats. A series is a set of readings, because their times
rise; its cap of 1200 entries is out of reach, since one that keeps 45 s at an
iteration every 250 ms has 180. `Rotate` and `Restart` clear the series, `Evaluated`
is the ladder of early verdicts before `evaluate_entry`, `Iterate` is one
iteration: it pushes the delta and the ask, decides on the row of the signal
log and takes the outcome of an attempt, the same classes as in `LiveEntry`.
`lastRow` is the row of the window handed to `insert_signal` last. It is not what the
writer remembers: an attempt adds a row of its own, `failed_fak` or a second
`entered`, without touching `last_signal_reason` or `last_signal_write_ms`, and when
entries are paused then, every later verdict is noise and that row stays the last.
`SignalLogComplete` is about the rows, whatever the two fields say. An insert that
fails is reported and nothing else, so the property is about what is handed over.
Left out are the look-backs at fixed distances that are only recorded with a
row, the delta sampler's own table, and `ask_peak_any`, which no decision reads.

### The computations

Prices are whole numbers of units of which `One` are a dollar, and a tick is a
number of units, so that the floor and the ceiling to a tick are those of the
code up to the tolerance of 1e-9 its floating-point arithmetic needs. A fair
value and a momentum are fractions. `Strategy` takes a view of the shared state
(the code takes it under all its locks at once), and `Rejects` has one line per
gate; the number of the first gate that rejects is the verdict. `Pricing` is the
path from the ask to the cost that is booked; it calls `BuyLimit` a second time
as `place_fak_buy_raw` does. `FairValue` validates a model as `load` does and
abstains where a cell is thin. `Maker` and the loop around it abstain where a
book is stale or crossed, or where a post-only order would match.

`Configuration` says what `from_env` makes of a setting that is missing or
makes no sense (some are replaced, some refuse the start) and what `/set_*`
accepts. `/set_threshold` and `/set_maxask` take any number, which is why
`EntryPlaceable` lets the later configuration be anything. `NaN`, which they
accept as well, is not a number of the model. Credentials, addresses, paths and
the unused Chainlink fields are left out, and so are the always-zero inventory
skew and the throttle of the rows of shadow quotes.

One thing the code says is not a property here: the comment at `maker.rs`
212-213 that the quoted spread is never tighter than configured. It holds for
the rounding it speaks about, but a quote that is clamped to the tradeable band
is tighter than configured.

## 3. Runs

| run | checks | shows |
|---|---|---|
| `LiveEntry` | `Inv`, `OneLivePositionPerWindow`, `NoUnaccountedOrder`, `OnlyLastAmbiguous`, `FillBookedOnce`, `SettledTogether`, `ExposureCapped`, `DayBudgetKept`, `NoPostWhileUnreconciled`, `ImplementsGuard` | no double purchase, no order outside the database or in it twice, windows settled as a whole, true exposure within the caps; the inductive invariant; journal, ledger and exchange refine `SpendingGuard` |
| `LiveEntryLosses` | `PostWithinLimits` | the limits checked at the reservation still hold when the request goes out |
| `LiveEntryLate` | `PostedInDecisionWindow` (violated) | finding 1 |
| `SharedLocks` | `NoDeadlock`, `EveryWaiterServed` | without a change of configuration no circular wait, and every waiter is served |
| `SharedLocksReconfigure` | `NoDeadlock` (violated) | finding 2 |
| `MarketFeed` | `FeedInv`, `OwnBooks`, `OwnResolution`, `SubscribedInTheEnd` | a decision sees only its own window's data, and no command is lost |
| `TokenBook` | `BestPricesReal`, `LadderExact`, `NeverBack` | the local book shows prices the server had |
| `WindowCapture` | `CaptureInv`, `OpenPriceAtBoundary`, `StrikeAtBoundary`, `OneReference`, `CloseNotSkipped`, `CloseOnce` | a window has one opening price and one strike, both of its boundary, and one close |
| `WindowCaptureRestart` | `OpenOnce` (violated) | finding 3 |
| `Channels` | `NoCircularWait`, `ResolutionHandled` | while no resolution comes too late, the two tasks never wait for each other's room; and forwarded resolutions are handled although most ends of the taker branch skip them |
| `FeedTasks` | `GapsMarked`, `SilenceBounded`, `EscalatesInOrder`, `TwapRecovers` | every gap of the tape lies behind a row that says so; a silence of the TWAP feed is bounded, escalated in order, and ends |
| `Evaluation` | `RiseTimeKnown`, `SeriesUnspliced`, `SignalLogComplete`, `EntriesPlaceable`, `CostsCovered`, `BuffersSound`, `CurvesSound`, `QuotesNotArbitrable` | series and log stay within their window and token; the arithmetic of entries, averages, curve and quotes errs on the safe side |

Bounds. `LiveEntry`: two journal rows, two attempts per window and two
windows of two ticks, with a midnight between them, so that the budget
starts anew while a position is open, and caps such that the second order can
exceed the open cap, the budget or neither; two attempts and two live windows are
what a double purchase needs. One paper trade (`MaxPaper`) is enough for a window to
have rows of both kinds in either order. `LiveEntryLosses` has three rows with unit cost,
because a run of losses at its limit needs two settled trades and a third order.
`SharedLocks`
has all locks and no bound; it leaves out the two tasks that only repeat
another one (`binance_ws` writes its lock as `clob` does, under the same
readers, and `shutdown` notifies as `summary`), which keeps liveness within
reach; that seven tasks do not deadlock either is a theorem.
`SharedLocksReconfigure` has all seven. `MarketFeed` has four
windows: a skipped window between discovered ones. `TokenBook` has two prices,
so a level can be hidden behind the best one, and three versions: a snapshot, a
lost delta and one after it. `WindowCapture` has windows of three ticks, of
which the last is too late for an opening price, and three windows, so that one
can be slept through; its readings arrive up to a tick late and a tick early.
The feeds share no variable and each opening price depends on one of them, so
one feed of spot prices is enough there, and the theorems hold for any.

`Channels` has room for one command and three resolutions where the code has
sixteen of each, and the exchange is at most two windows late. Six windows let
the command channel fill while the task has no connection, the main loop wait
for room until it is windows behind, and the resolutions come together on the
connection that follows. That the two tasks do not wait for each other with any
rooms and any number of windows is a theorem, as long as `Lag` is less than
`ResolutionRoom`: with the code's sixteen, as long as no resolution comes more
than 75 minutes after the end of its window. Some such condition is needed. If
the server may keep the resolutions of many ended windows and tell them in one
message, a connection takes as many as there is room for and waits for room with
the rest; the main loop goes on with a few each time it comes by, but a
command is added per window, which the task does not take while it waits. The
theorem's condition is enough and not the last word: with R and C as the rooms
for resolutions and commands, TLC finds no wait with `Lag` = R + C - 1 and one
with `Lag` = R + C for R = 1 with C up to 3 and for R = 2 with C up to 2, in
runs with `MaxWindow` from six to eight.

`FeedTasks`: a queue and a batch of two rows and five frames, enough for an
overflow whose marker takes the last room, a batch that fails and a crash, one
after the other; the watchdog's thresholds are two and five ticks, so that two
attempts fit between them, and a frame may take a tick to send. The two
specifications share no variable, and each step of the run is a step of one.

`Evaluation`: two windows of six beats with a history of three beats, views
with deltas of both signs around the threshold, and a retry pause of two beats.
A behaviour is either about the loop (`input` is `None`) or about one of the
inputs of `Computations`, which are enumerated as initial states: books of every
shape with each gate closed, all asks and both ticks with fee curves up to the
second power, all price buffers of up to three samples, and all small curves
that pass validation. A dollar has twenty units, which gives both ticks a price
that is on one grid and not on the other and makes every rounding go both ways.

Fairness. `SharedLocks`: tasks are scheduled, so a task that can take the next
step of its routine does, and a lock serves the waiter it has room for; a
message that is being sent ends by an answer or an error. No task is assumed to
start a routine. `MarketFeed`: the main loop and the CLOB task go on; a
connection is made sooner or later, and one on which the first request can be sent if
connections are made again and again (the task retries for ever); the random
choice of `select!` does not pass over a waiting command for ever; strong fairness is
assumed for both. A connection whose first request failed ends sooner or later: it is
broken, or falls silent for the 30 s of the read timeout. Nothing forces a connection
to stay up. `Channels`:
the main loop and `Forward` are scheduled, a connection is made sooner or later,
`TakeCommand` strongly as above; the clock owes nothing, so a resolution is not handled merely
because the entry window closes. `RtdsWatchdog`: time passes, the loop does what
is due; connections are made on which the server serves the subscription, if
they are made again and again, and a subscription that is served again and
again delivers, for which strong fairness is assumed. A repeated subscription
need not help. The other runs assume no fairness.

## 4. Findings

1. `place_fak_buy_raw` (`trading.rs` 162) takes the end of the window from the
   clock at its own call. If the window ends after the reservation and before
   the call, the order for the old market is posted with the next window's
   deadline, contrary to the comment at `trading.rs` 220-221.
2. The main loop keeps a read guard of the configuration (`main.rs` 1509) over
   `telegram::notify`, which reads the same lock. A `/set_*` or `/dryrun on`
   command that queues its write between the two stops both tasks: the trace has
   eight states. The comment at `main.rs` 45-47 names this very hazard.
3. `open_captured` is kept in memory and `record_twap_at_open` overwrites the row
   of the window (`db.rs` 569). A process restarted within a window captures the
   open again, and the values recorded at the boundary are replaced by those of
   the middle of the window, although `main.rs` 570-571 says that the flag makes
   the capture exactly once per window. Only recorded data is affected: the
   strike itself is refused so late (`StrikeAtBoundary`).

## 5. Proofs

*LiveEntry.* `TypeOK` and the properties are not inductive. `Inv` adds: where
the main loop is in a placement, the attempt is the last row, submitted and of
the current window (`AttemptInv`); what each status of a row says of the order
at the exchange, and that a window has at most one row that is not rejected
(`JournalInv`); and that an order is never placed for a window that has a live row
(`EntryInv`), which follows from the reservation and not from `entered`: the loop may
well hold a signal for a window whose trade it could not read. `TypeNext` proves the types. `LedgerNext` has one
step per action and rests on three observations: rows of the ledger only gain
information (`Grows`: cost and window of a row never change), steps that touch
neither table keep what is said about them (`QuietStep`, `BlankStep`,
`OutsideStep`), and the two writes are an appended row (`AppendStep`) and a
changed status (`FinishStep`). The theorems `OneLivePosition`,
`EveryOrderAccounted`, `LastAmbiguous` and `NeverPostsUnreconciled`
follow. They use only `LimitsAssumption` and `TimeAssumption`.

Three more parts of `Inv` carry the results about money and settlement. `RowInv`: each
live row of the ledger has an attempt of its window that was not rejected and that it
books, a window has one live row, and none is settled in the future;
`FillsBookedOnce` follows. `SettleInv`: the rows of a window are open or settled
together, because a settled window is over, and the loop that still is in it is past
the places that write a row; `RowsSettleTogether` follows. `LimitInv`: between the reservation and the request the ledger is as
it was checked. Resolutions are taken by the same loop that places the order, so
only the clock can change what was checked, and `NewDay` says how: a new day has
no losses yet. `PostsWithinLimits` follows.

`GuardImplemented` is the refinement, one lemma per action: a reservation, the
record of a fill, a rejection, a settlement and a midnight are steps of
`SpendingGuard`, and all else, crashes and answers included, changes nothing the
guard sees. Its totals are sums over the rows: `AppendTotals` and `SettleTotals`
say what a new row and a settlement do to open cost and profit, from lemmas of
`SumTheorems` about `SumFunctionOnSet` (one more element, two functions that
agree, a map one to one, a sum that is bounded term by term). `GuardKept` carries
`GuardSafe` over to the code's ledger. `ExposureIsCapped` and `DayBudgetIsKept`
go from the ledger to the truth at the exchange: every order that is held or
under way is an open row of at least its cost, except the one that awaits
reconciliation, which the guard has reserved in full (`HeldIsCovered`); different
orders have different rows, so that the sum over the orders is at most that over
the rows (`SumInjection`, `ExposureCovered`).

*SumTheorems.* The induction theorems of the library take an operator, which no
installed prover can instantiate. Here a set takes its place: a set of numbers
that holds 0 and each successor is everything, because the others would have a
least element (`Least`, from `WFMin`). In the same way follow induction over
the subsets of a finite set, the value of a sum one element at a time, that a
sequence in order of neighbours is in order altogether, and that a function
defined round by round, as a loop is, satisfies its equation in each round.

*SpendingGuard.* `GuardSafe`: the cost at risk stays under the open cap, and
what a day can end with is bounded by its budget or by what was carried over
midnight. `GuardDailyLoss`: with `MaxOpen <= DailyLimit`, which `config.rs`
does not validate, the day's budget always holds.

*MarketFeed.* `FeedInv`: the latest command, in the channel or handled, names
the market in use, and while no clearing is under way the books are empty or
show the tokens handled last. It is inductive because commands are handled in
order (`Handled`), and `OwnBooks` and `OwnResolution` follow. A connection without its
subscription shows less and does not disturb it.

*TokenBook.* `Inv`: no version of the server's book is crossed or has a time not
yet reached, each frame under way carries a version that was, and a usable book
has the time and the best prices of the version accepted last, and its ladders
if `intact`. It holds for any prices, sizes and bounds. What carries it is that a
delta applied to the version before it, or to its own, gives its own version
(`UpdateExact`, `ChangesApplied`), so that one that comes twice does no harm.
`BestPricesAreReal`, `LadderIsExact` and `BookNeverBack` follow.

*SharedLocks.* Deadlock freedom is proved for `Reconfigure = FALSE`; with it,
finding 2 is the counterexample. There is no order of the locks that all
routines keep: what holds is a discipline (`MayAsk`). Nobody writes the
configuration, so nobody ever waits for it and its guards close no circle; of the
other locks only the main loop and Telegram hold one while they ask for another,
only to read it, and they alone ask for the window's. In a circle, a lock that is
waited for is held by a task of the circle (`HeldInCircle`: look at the first of
them in its queue). Telegram asks for nothing but the window's lock then, which
could only be held against it by the main loop, and that never waits for it with
another guard in hand (`TelegramOutside`). So what the main loop waits for would
have to be held by the main loop (`MainOutside`), and nobody is left to hold
anything. That every routine keeps the discipline is found from
its parts, as one finds the assertions of a program: `Does(t, before, ops, after)`
says that operations lead from one set of guards to another, with rules for one
operation, two in a row and a scope (`UnderDone`). `LockInv` joins it to what
is left of each routine and to the queues; `NoDeadlockCorrect` follows.

*WindowCapture.* `CaptureInv` is inductive. What carries it is `LoopInv`, which
window the shared state belongs to at each place of the loop, and `CloseInv`:
when an iteration finds that the window has changed, its time is already past
the end of the last window, because windows are multiples of `WindowLen`
(`LaterWindow`) and the time is read after the window. So the close is due, and
captured before the rotation. `CloseOnce` holds over restarts because a window
whose close was captured has ended and is never entered again. All theorems
follow from `CaptureAssumption` alone, in which tolerances are any naturals.

*Recorder.* `GapsMarked` speaks of the tape; what carries it is the stream of
tape, batch and queue. `RecorderInv`: the stream has no unmarked gap, except
behind the tape after a failed write, where the batch in hand begins with a
marker; and it ends with the last frame unless the next row that is offered is a
marker or the start of a connection. The lemmas say what appending to, splitting
and joining a sequence without gaps preserves. Only `BatchLen > 1` is needed of
the sizes: a batch of one would have no room for the marker and its row.

*RtdsWatchdog.* `WatchdogInv`: the timer of the code is the true age, an attempt
stands behind every silence past the first threshold, and a silence past the
second ends with the frame on its way. It is inductive because time does not
pass while something is due. `SilenceBounded` and `EscalatesInOrder` follow for
all thresholds with the first below the second.

*Evaluation.* `DiagnosticsInv`: all readings are of the present window and past,
the peak and the first crossing are of the same series, all asks are of the last
side, and the last row of the log says the last verdict that is not noise, or that its
attempt failed, and is younger than the cadence. `LogRemembered` is what makes the last
part inductive: the row and the remembered time are of one iteration, and when the
remembered reason suppresses a row, the last row is that of the same verdict, since
an `entered` verdict, the only one an attempt follows, is always written. The proof uses of `evaluate_entry` only what a verdict
looks like (`EvaluateEntry` has a side whenever it has an ask), so it holds for
any views and any configuration.

*Computations.* Lemmas say what rounding to a grid returns, for every tick.
From them `LimitSoundCorrect`: a limit is on the grid, reaches the ask, keeps
slippage and cap, and survives the second call. `EntriesPlaceableCorrect`: the
verdict "entered" means that no gate rejects, hence the side, the depth and the
limit. `QuotesNotArbitrableCorrect`: a fair value of Down is the complement of
that of Up, the band is symmetric, and rounding the bids down and the asks up
keeps the sums on the safe side of a dollar, also when they are clamped.
`CostsCoveredCorrect`: the fee's curve rises up to half a dollar, where the code's
bound stops if the limit lies beyond (`CurveHighest`), and each of the five
exponents it supports keeps the order of two bases (`PowerOrdered`); all else is
rounding up. `CurvesSoundCorrect`: a fair value
is a mixture of two neighbouring cells, of which validation says that they do
not fall. Two deltas in the same gap are compared by their weights
(`MixGrows`), in different gaps through the cells between them
(`PlacesOrdered`). `BuffersSoundCorrect`: round by round of the loop, the
cursor only moves forward, the weight is at most the time it has moved, and the
sum lies between the least and the greatest price times the weight
(`WeighedRounds`); the way the price has gone covers the net move
(`WayCoversNet`). It holds for timestamps that repeat or go back.

*Configuration.* `LimitsForLife`: whatever numbers the environment holds, a process
that starts has limits as `LimitsAssumption` demands them, and no sequence of
commands changes one of the four. So the assumptions of the theorems about money
are those of every process, as far as the settings are numbers.

*Channels.* Three facts make windows out of messages. A window is a command, a
subscription and a resolution in turn, and commands come in the order of the
windows, so that what is pending (received and not handled) is older than what
the main loop wants to send (`InOrder`). A resolution is pending once, over
reconnects too (`ToldOnce`). These are `OrderInvCorrect`, however late the
exchange tells a resolution, and with them `SubscribesForwardCorrect`: neither a
command nor a reconnect takes the subscription back to an earlier window.

`NoCircularWait` is proved for `ResolutionRoom > Lag`, for any rooms, any number
of windows and of attempts. What carries it is how long ago the windows ended
whose resolution is pending (`Recent`): `Lag` windows before the one the main
loop prepares and one more, because every iteration that rotates to a window
reaches the resolutions and takes them all, and only one that came from there, in
the same window, starts over without them (`Undrained`). So many different
numbers do not fit into a range that small (`TooMany`, by the pigeonhole
principle), hence there is room for all of them (`RoomForAll`). The same lemma
shows that the clock never turns while the task waits for room (`TickKeeps`),
without which what is pending could grow old. Of the surroundings the proof uses
`Lag` and `PhaseMayEnd` (section 2). `ChannelsInv` is inductive only under the
theorem's condition; TLC finds it violated with a `Lag` beyond the room for
resolutions.

Only model-checked: liveness (`TwapRecovers`, `ResolutionHandled`,
`EveryWaiterServed`, `SubscribedInTheEnd`), which is out of the provers' reach.

## 6. What is left

Worth adding, in this order: the delta sampler with its own cadence and the
prefetch of the next market; the simulated fill of a dry run; the Binance TWAP
shadow with its trimmed buffer; the largest `Lag` for which `NoCircularWait`
holds, which needs the phases of a window in the invariant.

Not modelled: JSON, HTTP and SQL syntax, the signing of orders, messages and
reports, the offline tools (batch statistics over a snapshot), migrations of the
database, build metadata. None of these keeps state that the live path reads.

Some hazards have no property. The resolution of a window that is told only to
connections subscribed to it may be lost by a reconnect (`market_ws.rs` 72):
whether it is depends on the exchange. The two asks of a recorded row are read
under two guards (`main.rs` 818): no decision reads the column. The kill switch counts
losses in another order than the reservation (`db.rs` 1157) and profit on another day
(`db.rs` 760): both are modelled, they do not agree, and since the kill switch only
pauses entries, the limits rest on the reservation alone. A position whose token was
forgotten, or whose resolution could not be written (`main.rs` 1379, 1505), stays open
until it counts as stale and refuses every reservation: no money is spent wrongly, and
that it is settled in the end is not true of the code.
