------------------------------ MODULE LiveEntry ------------------------------
(***************************************************************************)
(* The live-entry path of the bot: the taker part of the main loop         *)
(* (src/src/main.rs), the durable order journal and trade ledger           *)
(* (src/src/db.rs), the submission of one FAK order (src/src/trading.rs)   *)
(* and the handling of a market's resolution, together with the operator,  *)
(* the clock, crashes and the exchange, which act between any two steps.   *)
(*                                                                         *)
(* Time is a number of ticks.  A window is WindowLen ticks and is named by *)
(* its index; its last TailLen ticks are those in which the code no longer *)
(* sends orders.                                                           *)
(***************************************************************************)
EXTENDS RiskCheck, FiniteSets, Sequences, Functions

CONSTANTS
  WindowLen,    \* WINDOW_SECS, in ticks
  TailLen,      \* the last 30 seconds of a window, in ticks
  StaleAfter,   \* age of a window at which an unsettled position is stale
  Retention,    \* TOKEN_WINDOW_RETENTION_SECS, in windows
  DayLen,       \* one UTC day, in ticks
  Payout,       \* what the shares of a position pay when its side wins
  MaxAttempts,  \* MAX_ENTRY_ATTEMPTS
  MaxTick,      \* bound: the last tick of a behaviour
  MaxRows,      \* bound: rows of the order journal
  MaxPaper      \* bound: paper trades in the ledger

ASSUME TimeAssumption ==
  /\ {WindowLen, TailLen, StaleAfter, Retention, DayLen} \subseteq Nat \ {0}
  /\ {Payout, MaxAttempts, MaxTick, MaxRows, MaxPaper} \subseteq Nat
  /\ TailLen < WindowLen

VARIABLES
  \* the outside world
  now,          \* the clock
  orders,       \* what the exchange did with each journalled attempt
  \* the database, which survives a crash
  journal,      \* order_attempts: row i is attempt i
  trades,       \* trades: row i has id i
  \* the process
  pc,           \* where the main loop is ("down": not running)
  cur,          \* current_ts of the running iteration, -1 before the first
  market,       \* ws.market is known for cur
  entered,      \* ws.entered
  failed,       \* ws.failed_attempts
  paused,       \* ws.paused
  dryRun,       \* cfg.dry_run
  known,        \* windows of token_window_map
  att,          \* id of the attempt being placed, 0 for none
  endAt         \* window_end of place_fak_buy_raw

world == <<now, orders>>
durable == <<journal, trades>>
memory == <<cur, market, entered, failed, paused, dryRun, known>>
call == <<att, endAt>>
vars == <<now, orders, journal, trades, pc, cur, market, entered, failed,
          paused, dryRun, known, att, endAt>>

-----------------------------------------------------------------------------
(* Types                                                                   *)

Window == Nat
Status == {"submitted", "unknown", "rejected", "filled"}
Attempt == [window: Window, status: Status]
Trade == [window: Window, dry: BOOLEAN, cost: Nat, day: Nat,
          state: {"open", "won", "lost"}, settledAt: Nat]

\* "unsent" is a row whose request never left the process; "sent" may still
\* be executed; "dead" never will.
Order == [state: {"unsent", "sent", "filled", "dead"}, cost: 0..MaxTrade]

Step == {"down", "tick", "discover", "evaluate", "paper", "reserve", "place",
         "sign", "wait", "finish", "drain"}

TypeOK ==
  /\ now \in Nat
  /\ journal \in Seq(Attempt)
  /\ orders \in Seq(Order)
  /\ trades \in Seq(Trade)
  /\ pc \in Step
  /\ cur \in Window \cup {-1}
  /\ market \in BOOLEAN
  /\ entered \in BOOLEAN
  /\ paused \in BOOLEAN
  /\ dryRun \in BOOLEAN
  /\ failed \in Nat
  /\ known \in SUBSET Window
  /\ att \in Nat
  /\ endAt \in Nat

-----------------------------------------------------------------------------
(* What the ledger says                                                    *)

WindowOf(t) == t \div WindowLen
DayOf(t) == t \div DayLen

\* An attempt whose outcome on the exchange the bot does not know.
Ambiguous(i) == journal[i].status \in {"submitted", "unknown"}
AmbiguousRows == {i \in DOMAIN journal : Ambiguous(i)}

LiveRows == {k \in DOMAIN trades : ~trades[k].dry}
OpenRows == {k \in LiveRows : trades[k].state = "open"}
SettledRows == LiveRows \ OpenRows

Profit(t) == (IF t.state = "won" THEN Payout ELSE 0) - t.cost

OpenCost == SumFunctionOnSet([k \in DOMAIN trades |-> trades[k].cost], OpenRows)

Profits(rows) == [k \in DOMAIN rows |-> Profit(rows[k])]

\* Profit of the settled rows that the ledger books on the current day, by the
\* time they settled (reservation) or by the time they were entered (kill switch).
SettledToday == {k \in SettledRows : DayOf(trades[k].settledAt) = DayOf(now)}

PnlBySettlement == SumFunctionOnSet(Profits(trades), SettledToday)

PnlByEntry(rows) ==
  SumFunctionOnSet(Profits(rows), {k \in DOMAIN rows : /\ ~rows[k].dry
                                                       /\ rows[k].state # "open"
                                                       /\ rows[k].day = DayOf(now)})

\* Length of the run of losses at the recent end of the settled rows.
LossRun(rows, settled, NotBefore(_, _)) ==
  Cardinality({k \in settled :
    \A j \in settled : NotBefore(j, k) => rows[j].state = "lost"})

\* reserve_live_order orders by settlement time, then by id ...
LossesBySettlement ==
  LossRun(trades, SettledRows,
    LAMBDA j, k : \/ trades[j].settledAt > trades[k].settledAt
                  \/ trades[j].settledAt = trades[k].settledAt /\ j >= k)

\* ... and get_recent_consecutive_losses by id only.
LossesById(rows) ==
  LossRun(rows, {k \in DOMAIN rows : ~rows[k].dry /\ rows[k].state # "open"},
          LAMBDA j, k : j >= k)

StaleRows == {k \in OpenRows : trades[k].window * WindowLen + StaleAfter < now}

RowsOf(w) == {k \in DOMAIN trades : trades[k].window = w}

TradedIn(w) == RowsOf(w) # {}
LiveIn(w) == \E k \in LiveRows : trades[k].window = w

\* Seeded faults: only one of the two unreconciled states counts.
CountStatus(w, status) ==
  [dailyPnl  |-> PnlBySettlement,
   openCost  |-> OpenCost,
   losses    |-> LossesBySettlement,
   ambiguous |-> Cardinality({i \in DOMAIN journal : journal[i].status = status}),
   stale     |-> Cardinality(StaleRows),
   traded    |-> LiveIn(w)]

SnapshotSubmittedOnly(w) == CountStatus(w, "submitted")
SnapshotUnknownOnly(w) == CountStatus(w, "unknown")

Snapshot(w) ==
  [dailyPnl  |-> PnlBySettlement,
   openCost  |-> OpenCost,
   losses    |-> LossesBySettlement,
   ambiguous |-> Cardinality(AmbiguousRows),
   stale     |-> Cardinality(StaleRows),
   traded    |-> LiveIn(w)]

\* one_order_per_window: the unique index of the journal.
WindowTaken(w) ==
  \E i \in DOMAIN journal : journal[i].window = w /\ journal[i].status # "rejected"

-----------------------------------------------------------------------------
(* The beginning of an iteration of the main loop                          *)

InTail(t) == (WindowOf(t) + 1) * WindowLen - t < TailLen

SameWindow ==
  /\ pc = "tick"
  /\ cur = WindowOf(now)
  /\ pc' = "evaluate"
  /\ UNCHANGED <<world, durable, memory, call>>

\* The clock entered a window that this process has not prepared.  A read of the
\* ledger that fails is taken for a window without a trade.
Rotate(read) ==
  /\ pc = "tick"
  /\ cur # WindowOf(now)
  /\ cur' = WindowOf(now)
  /\ entered' = (read /\ TradedIn(cur'))
  /\ failed' = 0
  /\ market' = FALSE
  /\ pc' = "discover"
  /\ UNCHANGED <<world, durable, call, paused, dryRun, known>>

\* fetch_market answered, or gave up after its retries.
Discover(ok) ==
  /\ pc = "discover"
  /\ market' = ok
  /\ known' = IF ok THEN {w \in known \cup {cur} : cur - w <= Retention}
                    ELSE known
  /\ pc' = "evaluate"
  /\ UNCHANGED <<world, durable, call, cur, entered, failed, paused, dryRun>>

\* The strategy itself is a free choice: it may or may not see a signal.
NoSignal ==
  /\ pc = "evaluate"
  /\ pc' = "drain"
  /\ UNCHANGED <<world, durable, memory, call>>

Eligible == market /\ ~paused /\ ~entered /\ failed < MaxAttempts

-----------------------------------------------------------------------------
(* The taker branch                                                        *)

\* A signal of a window that is over, or nearly so.  This exit of the branch
\* goes back to the top of the loop, past the handling of resolutions, and so
\* do the other exits to "tick" below.
SignalTooLate ==
  /\ pc = "evaluate"
  /\ Eligible
  /\ WindowOf(now) # cur \/ InTail(now)
  /\ pc' = "tick"
  /\ UNCHANGED <<world, durable, memory, call>>

TakeSignal ==
  /\ pc = "evaluate"
  /\ Eligible
  /\ WindowOf(now) = cur
  /\ ~InTail(now)
  /\ pc' = IF dryRun THEN "paper" ELSE "reserve"
  /\ UNCHANGED <<world, durable, memory, call>>

\* The configuration cloned since the evaluation allows no limit price.
NoLimitPrice ==
  /\ pc \in {"paper", "reserve"}
  /\ pc' = "tick"
  /\ UNCHANGED <<world, durable, memory, call>>

NewTrade(dry, cost) ==
  [window |-> cur, dry |-> dry, cost |-> cost, day |-> DayOf(now),
   state |-> "open", settledAt |-> 0]

\* Dry run: the fill is simulated.  No live computation reads a paper cost.
PaperTrade ==
  /\ pc = "paper"
  /\ \/ /\ Cardinality(DOMAIN trades \ LiveRows) < MaxPaper
        /\ trades' = Append(trades, NewTrade(TRUE, MaxTrade))
        /\ UNCHANGED paused
     \/ trades' = trades /\ paused' = TRUE      \* the insert failed
  /\ entered' = TRUE
  /\ pc' = "drain"
  /\ UNCHANGED <<world, journal, call, cur, market, failed, dryRun, known>>

\* reserve_live_order: the check and the row are one transaction.
Reserve ==
  /\ pc = "reserve"
  /\ Len(journal) < MaxRows
  /\ Check(Snapshot(cur), MaxTrade)
  /\ ~WindowTaken(cur)
  /\ journal' = Append(journal, [window |-> cur, status |-> "submitted"])
  /\ orders' = Append(orders, [state |-> "unsent", cost |-> 0])
  /\ att' = Len(journal) + 1
  /\ pc' = "place"
  /\ UNCHANGED <<now, trades, memory, endAt>>

\* A refused reservation, for the limits or for a database error, pauses.
ReserveBlocked ==
  /\ pc = "reserve"
  /\ paused' = TRUE
  /\ pc' = "tick"
  /\ UNCHANGED <<world, durable, call, cur, market, entered, failed, dryRun, known>>

\* place_fak_buy_raw fixes the end of the window the clock is in at its call.
PlaceOrder ==
  /\ pc = "place"
  /\ endAt' = (WindowOf(now) + 1) * WindowLen
  /\ pc' = "sign"
  /\ UNCHANGED <<world, durable, memory, att>>

\* The deadline check and the request itself.
Post ==
  /\ pc = "sign"
  /\ now < endAt - TailLen
  /\ orders' = [orders EXCEPT ![att].state = "sent"]
  /\ pc' = "wait"
  /\ UNCHANGED <<now, durable, memory, call>>

-----------------------------------------------------------------------------
(* The exchange's answer, as parse_buy_response classifies it.  Nothing is  *)
(* awaited between the answer and the writes it leads to.                   *)

\* finish_order_attempt: only a row that is still submitted changes, and an
\* update that fails leaves the journal alone and pauses entries.
Finish(status, pausedAfter) ==
  \/ /\ journal[att].status = "submitted"
     /\ journal' = [journal EXCEPT ![att].status = status]
     /\ paused' = pausedAfter
  \/ journal' = journal /\ paused' = TRUE

CallDone == att' = 0 /\ endAt' = 0

\* place_fak_buy returned an error: unless it is one of those that
\* is_retriable_error names, the window is given up and entries pause.
FailPlacement(status, retriable) ==
  /\ Finish(status, paused \/ ~retriable)
  /\ failed' = failed + 1
  /\ entered' = (entered \/ ~retriable)
  /\ CallDone
  /\ pc' = "tick"
  /\ UNCHANGED <<world, trades, cur, market, dryRun, known>>

\* Metadata, cost check, build, signature or deadline: nothing was sent.
RefusedBeforePost ==
  /\ pc = "sign"
  /\ FailPlacement("rejected", FALSE)

\* An unsuccessful answer without order id or amounts.
Refused(retriable) ==
  /\ pc = "wait"
  /\ orders[att].state = "dead"
  /\ FailPlacement("rejected", retriable)

\* Seeded faults: a missing answer is taken for a refusal, with and without retry.
UnclearRetried ==
  /\ pc = "wait"
  /\ FailPlacement("rejected", TRUE)

UnclearRejected ==
  /\ pc = "wait"
  /\ FailPlacement("rejected", FALSE)

\* No answer, a delayed order, or an answer whose fields do not agree.
Unclear ==
  /\ pc = "wait"
  /\ FailPlacement("unknown", FALSE)

\* Seeded fault: a booked cost below what the exchange took.
RecordFillBelow ==
  /\ pc = "wait"
  /\ orders[att].state = "filled"
  /\ \E c \in 0..orders[att].cost : trades' = Append(trades, NewTrade(FALSE, c))
  /\ pc' = "finish"
  /\ UNCHANGED <<world, journal, memory, call>>

\* Consistent matched amounts: insert_trade with the executed cost, whose fee
\* is an upper bound of the real debit ...
RecordFill ==
  /\ pc = "wait"
  /\ orders[att].state = "filled"
  /\ \E c \in orders[att].cost..MaxTrade : trades' = Append(trades, NewTrade(FALSE, c))
  /\ pc' = "finish"
  /\ UNCHANGED <<world, journal, memory, call>>

\* Seeded fault: the attempt is finished although the insert failed.
RecordFailsFinished ==
  /\ pc = "wait"
  /\ orders[att].state = "filled"
  /\ Finish("filled", TRUE)
  /\ entered' = TRUE
  /\ CallDone
  /\ pc' = "drain"
  /\ UNCHANGED <<world, trades, cur, market, failed, dryRun, known>>

\* ... or its failure, after which the attempt stays submitted.
RecordFails ==
  /\ pc = "wait"
  /\ orders[att].state = "filled"
  /\ paused' = TRUE
  /\ entered' = TRUE
  /\ CallDone
  /\ pc' = "drain"
  /\ UNCHANGED <<world, durable, cur, market, failed, dryRun, known>>

\* Seeded fault: a fill whose attempt could not be finished is recorded again.
FinishFillRetried ==
  /\ pc = "finish"
  /\ Finish("filled", paused)
  /\ entered' = TRUE
  /\ IF journal' = journal
     THEN pc' = "wait" /\ UNCHANGED call
     ELSE pc' = "drain" /\ CallDone
  /\ UNCHANGED <<world, trades, cur, market, failed, dryRun, known>>

FinishFill ==
  /\ pc = "finish"
  /\ Finish("filled", paused)
  /\ entered' = TRUE
  /\ CallDone
  /\ pc' = "drain"
  /\ UNCHANGED <<world, trades, cur, market, failed, dryRun, known>>

-----------------------------------------------------------------------------
(* Resolutions                                                             *)

Outcome(won) == IF won THEN "won" ELSE "lost"

\* Seeded fault: only the row that was looked at is settled.
SettledLatest(w, winners) ==
  [k \in DOMAIN trades |->
    IF k \in RowsOf(w) /\ trades[k].state = "open" /\ \A j \in RowsOf(w) : j <= k
    THEN [trades[k] EXCEPT !.state = Outcome(k \in winners), !.settledAt = now]
    ELSE trades[k]]

\* resolve_trade_by_window_ts settles every open row of the window, each by its
\* own side: the winners are those on the side that won.
Settled(w, winners) ==
  [k \in DOMAIN trades |->
    IF k \in RowsOf(w) /\ trades[k].state = "open"
    THEN [trades[k] EXCEPT !.state = Outcome(k \in winners), !.settledAt = now]
    ELSE trades[k]]

\* The kill switch reads the ledger again after the update.
KillSwitch(rows) ==
  LossesById(rows) >= MaxLosses \/ PnlByEntry(rows) <= -DailyLimit

\* One event of the resolution channel, for a window whose token is mapped and
\* whose last trade is open; an event for any other window, or one whose trade
\* cannot be read, changes nothing here.  The update can fail, and so can the
\* reads of the kill switch; the event is consumed all the same.
Resolve(w, winners) ==
  /\ pc = "drain"
  /\ w \in known
  /\ (w + 1) * WindowLen <= now
  /\ \E k \in RowsOf(w) :
       /\ trades[k].state = "open"
       /\ \A j \in RowsOf(w) : j <= k
  /\ trades' \in {Settled(w, winners), trades}
  /\ paused' \in {paused, paused \/ KillSwitch(trades')}
  /\ UNCHANGED <<world, journal, pc, call, cur, market, entered, failed, dryRun, known>>

\* The channel is empty: the iteration ends.
Drained ==
  /\ pc = "drain"
  /\ pc' = "tick"
  /\ UNCHANGED <<world, durable, memory, call>>

-----------------------------------------------------------------------------
(* The world                                                               *)

Tick ==
  /\ now < MaxTick
  /\ now' = now + 1
  /\ UNCHANGED <<orders, durable, pc, memory, call>>

\* The exchange executes a posted order, in full or in part, or drops it.
\* Neither needs the bot to be waiting, nor to be running.
ExchangeFill(i) ==
  /\ orders[i].state = "sent"
  /\ \E c \in 1..MaxTrade :
       orders' = [orders EXCEPT ![i].state = "filled", ![i].cost = c]
  /\ UNCHANGED <<now, durable, pc, memory, call>>

ExchangeDrop(i) ==
  /\ orders[i].state = "sent"
  /\ orders' = [orders EXCEPT ![i].state = "dead"]
  /\ UNCHANGED <<now, durable, pc, memory, call>>

Running == pc # "down"

\* /pause, /resume and /dryrun on; no command ends a dry run.
Pause ==
  /\ Running
  /\ paused' = TRUE
  /\ UNCHANGED <<world, durable, pc, call, cur, market, entered, failed, dryRun, known>>

Resume ==
  /\ Running
  /\ paused' = FALSE
  /\ UNCHANGED <<world, durable, pc, call, cur, market, entered, failed, dryRun, known>>

DryRunOn ==
  /\ Running
  /\ dryRun' = TRUE
  /\ UNCHANGED <<world, durable, pc, call, cur, market, entered, failed, paused, known>>

\* What a process that has just started, or has died, knows.
Blank ==
  /\ cur' = -1
  /\ market' = FALSE
  /\ entered' = FALSE
  /\ failed' = 0
  /\ paused' = FALSE
  /\ known' = {}
  /\ CallDone
  /\ UNCHANGED <<world, durable>>

Crash ==
  /\ Running
  /\ pc' = "down"
  /\ dryRun' = TRUE
  /\ Blank

Start(dry) ==
  /\ ~Running
  /\ pc' = "tick"
  /\ dryRun' = dry
  /\ Blank

-----------------------------------------------------------------------------

Init ==
  /\ now = 0
  /\ orders = <<>>
  /\ journal = <<>>
  /\ trades = <<>>
  /\ pc = "down"
  /\ cur = -1
  /\ market = FALSE
  /\ entered = FALSE
  /\ failed = 0
  /\ paused = FALSE
  /\ dryRun = TRUE
  /\ known = {}
  /\ att = 0
  /\ endAt = 0

MainLoop ==
  \/ SameWindow
  \/ \E read \in BOOLEAN : Rotate(read)
  \/ \E ok \in BOOLEAN : Discover(ok)
  \/ NoSignal
  \/ SignalTooLate
  \/ TakeSignal
  \/ NoLimitPrice
  \/ PaperTrade
  \/ Reserve
  \/ ReserveBlocked
  \/ PlaceOrder
  \/ RefusedBeforePost
  \/ Post
  \/ \E retriable \in BOOLEAN : Refused(retriable)
  \/ Unclear
  \/ RecordFill
  \/ RecordFails
  \/ FinishFill
  \/ \E w \in known : \E winners \in SUBSET RowsOf(w) : Resolve(w, winners)
  \/ Drained

World ==
  \/ Tick
  \/ \E i \in DOMAIN orders : ExchangeFill(i)
  \/ \E i \in DOMAIN orders : ExchangeDrop(i)
  \/ Pause
  \/ Resume
  \/ DryRunOn
  \/ Crash
  \/ \E dry \in BOOLEAN : Start(dry)

Next == MainLoop \/ World

Spec == Init /\ [][Next]_vars

-----------------------------------------------------------------------------
(* Safety                                                                  *)

\* An order that was, or may still be, executed.
Possible(i) == orders[i].state \in {"sent", "filled"}

\* The ledger row that accounts for attempt i.
BookedBy(i, k) ==
  /\ trades[k].window = journal[i].window
  /\ ~trades[k].dry
  /\ orders[i].state = "filled"
  /\ orders[i].cost <= trades[k].cost

\* However replies, retries, restarts and the operator interleave, at most one
\* order of a window can have bought anything (the unique index of the journal
\* in db.rs and the retry rule of the taker branch in main.rs).
OneLivePositionPerWindow ==
  \A i, j \in DOMAIN orders :
    i # j /\ Possible(i) /\ Possible(j) => journal[i].window # journal[j].window

\* No executed order escapes the database: the journal still holds its attempt
\* as unreconciled, or a live trade row carries at least its true cost
\* (reserve before the request, insert before "filled"; main.rs, db.rs).
NoUnaccountedOrder ==
  \A i \in DOMAIN orders :
    Possible(i) => \/ Ambiguous(i)
                   \/ \E k \in DOMAIN trades : BookedBy(i, k)

\* At most one attempt at a time waits for reconciliation, and it is the last.
OnlyLastAmbiguous == AmbiguousRows \subseteq {Len(journal)}

\* A live row books an order that the exchange executed, and no other row books
\* it again, although a restarted process may fail to read that the window was
\* traded (main.rs 438, db.rs 1149-1150): losses and open cost are counted once.
FillBookedOnce ==
  \A k \in LiveRows :
    /\ \E i \in DOMAIN journal : BookedBy(i, k)
    /\ \A m \in LiveRows : trades[m].window = trades[k].window => m = k

\* The rows of a window are settled together, so that a row that is looked at
\* because it is the last never hides an open one: main.rs 1490-1493 skips the
\* resolution when the last row has one, and the window has other rows when a
\* restarted process did not read them.
SettledTogether ==
  \A k, m \in DOMAIN trades :
    trades[k].window = trades[m].window /\ trades[k].state = "open" => trades[m].state = "open"

\* An order is sent only when every earlier order that can have bought
\* something is a booked trade: /resume, a restart or a retry never spends
\* again while an outcome is open (README, the order_attempts journal).
Posts == \E i \in DOMAIN orders : orders[i].state = "unsent" /\ orders'[i].state = "sent"

NoPostWhileUnreconciled ==
  [][\A i \in DOMAIN orders :
       orders[i].state = "unsent" /\ orders'[i].state = "sent" =>
         \A j \in DOMAIN orders :
           j # i /\ Possible(j) =>
             ~Ambiguous(j) /\ \E k \in DOMAIN trades : BookedBy(j, k)]_vars

\* The inductive invariant behind the properties above: what the journal
\* says of every attempt, what the step of the main loop adds for the attempt it
\* is placing, and what it remembers of the window it is in.
Placing == pc \in {"place", "sign", "wait", "finish"}

AttemptInv ==
  Placing => /\ att = Len(journal)
             /\ att \in DOMAIN journal
             /\ journal[att].window = cur
             /\ journal[att].status = "submitted"
             /\ pc \in {"place", "sign"} => orders[att].state = "unsent"
             /\ pc = "finish" => \E k \in DOMAIN trades : BookedBy(att, k)

JournalInv ==
  /\ Len(orders) = Len(journal)
  /\ \A i \in DOMAIN journal :
       /\ journal[i].status = "rejected" => ~Possible(i)
       /\ journal[i].status = "filled" => \E k \in DOMAIN trades : BookedBy(i, k)
       /\ Ambiguous(i) => i = Len(journal)
  /\ \A i, j \in DOMAIN journal :
       i # j /\ journal[i].window = journal[j].window =>
         "rejected" \in {journal[i].status, journal[j].status}

EntryInv ==
  /\ pc \notin {"down", "tick"} => cur \in Window
  /\ pc \in {"place", "sign", "wait"} => ~LiveIn(cur)

\* Every live position comes from an attempt that may have bought it, and a window
\* has one.  No position is settled in the future.
RowInv ==
  /\ \A k \in LiveRows : \E i \in DOMAIN journal :
       journal[i].status # "rejected" /\ BookedBy(i, k)
  /\ \A k, m \in LiveRows : trades[k].window = trades[m].window => k = m
  /\ \A k \in DOMAIN trades : trades[k].settledAt <= now

\* A settled window is over, and the main loop will place no more orders for it.
SettleInv ==
  /\ SettledTogether
  /\ \A k \in DOMAIN trades : trades[k].state # "open" =>
       /\ (trades[k].window + 1) * WindowLen <= now
       /\ trades[k].window = cur => pc \in {"down", "tick", "drain"}

\* What a reservation has checked and its request still relies on.
WithinLimits ==
  /\ LossesBySettlement < MaxLosses
  /\ OpenCost + MaxTrade <= MaxOpen
  /\ \/ PnlBySettlement - OpenCost - MaxTrade >= -DailyLimit
     \/ SettledToday = {}

LimitInv == pc \in {"place", "sign"} => WithinLimits

Inv == /\ TypeOK /\ AttemptInv /\ JournalInv /\ EntryInv
       /\ RowInv /\ SettleInv /\ LimitInv

\* What the exchange really holds for the bot and has not paid out, an order
\* still in flight counted at its cap.
Held(i) ==
  CASE orders[i].state = "sent"   -> MaxTrade
    [] orders[i].state = "filled" /\ ~\E k \in SettledRows : BookedBy(i, k)
                                  -> orders[i].cost
    [] OTHER                      -> 0

TrueExposure == SumFunction([i \in DOMAIN orders |-> Held(i)])

\* The real exposure, lost and unrecorded fills included, respects the cap.
ExposureCapped == TrueExposure <= MaxOpen

\* Losing everything that is held still leaves the day inside its budget,
\* provided that the open cap itself fits in it: positions carried over
\* midnight were reserved against the budget of the day before.
DayBudgetKept ==
  PnlBySettlement - TrueExposure >= -DailyLimit \/ PnlBySettlement - TrueExposure >= -MaxOpen

\* What the reservation checked still holds when the request goes out, however
\* long that takes: the run of losses and the open cost, and the budget of the
\* day, unless a midnight in between has taken the profit that paid for it.
PostWithinLimits == [][Posts => WithinLimits]_vars

\* The order goes out in the window the decision was made for (the comment
\* above the deadline check of place_fak_buy_raw).
PostedInDecisionWindow ==
  [][\A i \in DOMAIN orders :
       orders[i].state = "unsent" /\ orders'[i].state = "sent" =>
         WindowOf(now) = journal[i].window]_vars

-----------------------------------------------------------------------------
(* Refinement                                                              *)

Unbooked(i) == Ambiguous(i) /\ ~LiveIn(journal[i].window)

Pending == IF \E i \in DOMAIN journal : Unbooked(i) THEN MaxTrade ELSE 0

Guard == INSTANCE SpendingGuard WITH
  pending <- Pending,
  open    <- OpenCost,
  pnl     <- PnlBySettlement

\* The ledger implements the abstract guard.
ImplementsGuard == Guard!Spec

=============================================================================
