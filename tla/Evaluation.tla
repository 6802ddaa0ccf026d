------------------------------ MODULE Evaluation ------------------------------
(***************************************************************************)
(* One iteration after the other of the main loop's decision and of the    *)
(* record it keeps of it (src/src/main.rs, WindowState in                  *)
(* src/src/types.rs): the rotation to a new window, the verdict, the       *)
(* series of deltas and asks the next verdict and the diagnostics are      *)
(* computed from, and the rows of the signal log.                          *)
(*                                                                         *)
(* Time is a number of beats.  Times of a series are distinct and rise, so *)
(* that a series is a set; its cap of 1200 entries is never reached.       *)
(***************************************************************************)
EXTENDS Strategy

CONSTANTS
  Views,           \* what an evaluation may find in the shared state
  Cfg,             \* the configuration
  WindowLen,       \* WINDOW_SECS
  HistoryWindow,   \* DELTA_HISTORY_WINDOW_MS
  RiseFloor,       \* DELTA_RISE_FLOOR_PCT
  Cadence,         \* signal_log_cadence_ms, 0 for off
  Cooldown,        \* the 3 s after a failed attempt
  MaxAttempts,     \* MAX_ENTRY_ATTEMPTS
  MaxDelay,        \* the longest time from one iteration to the next
  MaxTime          \* bound: the last beat of a behaviour

\* The reasons a verdict may have.
Reasons ==
  {"entered", "paused", "already_entered", "max_attempts", "retry_cooldown", "no_market"}
    \cup {Gates[i] : i \in DOMAIN Gates}

Rows == [reason : Reasons \cup {"failed_fak"}, t : Nat]
Verdicts == [reason : Reasons, delta : Opt(Int), t : Nat]

ASSUME EvaluationAssumption ==
  /\ Views \subseteq ViewType
  /\ None \notin Reasons
  /\ None \notin [size : Nat, t : Nat] \cup Rows \cup Verdicts
  /\ {WindowLen, HistoryWindow, MaxDelay} \subseteq Nat \ {0}
  /\ {RiseFloor, Cadence, Cooldown, MaxAttempts, MaxTime} \subseteq Nat

VARIABLES
  now,         \* the clock
  window,      \* ws.window_ts, None before the first rotation
  market,      \* ws.market is known
  entered,     \* ws.entered
  paused,      \* ws.paused
  attempts,    \* ws.failed_attempts
  failedAt,    \* ws.last_attempt_failed_at_ms
  history,     \* ws.delta_history, readings [t, d]
  peak,        \* ws.delta_peak_abs and delta_peak_ms, [size, t] or None
  cross,       \* ws.delta_first_cross_ms
  asks,        \* ws.ask_history, readings [t, p] with the side they are of
  askPeak,     \* ws.ask_peak_signalled_side
  lastSide,    \* ws.last_signalled_side
  loggedReason,  \* ws.last_signal_reason
  loggedAt,    \* ws.last_signal_write_ms
  lastRow,     \* the last row of the window handed to insert_signal, [reason, t]
  verdict      \* the last verdict of the window that is not noise, or None

gates == <<entered, paused, attempts, failedAt>>
series == <<history, peak, cross, asks, askPeak, lastSide>>
log == <<loggedReason, loggedAt, lastRow>>
vars == <<now, window, market, gates, series, log, verdict>>

-----------------------------------------------------------------------------
(* The iteration                                                           *)

CurrentWindow == now - (now % WindowLen)

\* Seeded fault: the series of deltas lives on.
ClearedButHistory ==
  /\ peak' = None /\ cross' = None
  /\ asks' = {} /\ askPeak' = None /\ lastSide' = None
  /\ UNCHANGED history

\* The per-window diagnostics at the start of a window or of the process.
Cleared ==
  /\ history' = {}
  /\ peak' = None /\ cross' = None
  /\ asks' = {} /\ askPeak' = None /\ lastSide' = None

\* The rotation; the market may not be found, and a window that was entered
\* before a restart is known from the database.
Rotate(found, traded) ==
  /\ window # CurrentWindow
  /\ traded => window = None
  /\ window' = CurrentWindow
  /\ market' = found
  /\ entered' = traded
  /\ attempts' = 0 /\ failedAt' = None
  /\ Cleared
  /\ loggedReason' = None /\ loggedAt' = None /\ lastRow' = None
  /\ verdict' = None
  /\ UNCHANGED <<now, paused>>

Rejected(reason) == [reason |-> reason, delta |-> None, side |-> None, ask |-> None]

\* The ladder before the strategy is asked.
Evaluated(view) ==
  CASE paused -> Rejected("paused")
    [] ~paused /\ entered -> Rejected("already_entered")
    [] ~paused /\ ~entered /\ attempts >= MaxAttempts -> Rejected("max_attempts")
    [] OTHER ->
       IF failedAt # None /\ now - failedAt < Cooldown THEN Rejected("retry_cooldown")
       ELSE IF ~market THEN Rejected("no_market")
       ELSE EvaluateEntry([view EXCEPT !.secs = WindowLen - (now - window)],
                          Cfg, history, now)

Recent(readings) == {e \in readings : e.t >= now - HistoryWindow}

\* Seeded fault: the peak is sought among the deltas, not their sizes.
ObserveSigned(r) ==
  /\ history' = Recent(history \cup {[t |-> now, d |-> r.delta]})
  /\ peak' = IF peak = None \/ r.delta > peak.size
             THEN [size |-> AbsOf(r.delta), t |-> now] ELSE peak
  /\ cross' = IF cross = None /\ AbsOf(r.delta) > RiseFloor THEN now ELSE cross

\* push_delta and observe_delta_extremes.
ObserveDelta(r) ==
  /\ history' = Recent(history \cup {[t |-> now, d |-> r.delta]})
  /\ peak' = IF peak = None \/ AbsOf(r.delta) > peak.size
             THEN [size |-> AbsOf(r.delta), t |-> now] ELSE peak
  /\ cross' = IF cross = None /\ AbsOf(r.delta) > RiseFloor THEN now ELSE cross

\* observe_ask: a change of the side starts the series over.
ObserveAsk(r) ==
  LET flips == {r.side, lastSide} = Sides
      kept == IF flips THEN {} ELSE asks
      top == IF flips THEN None ELSE askPeak
  IN /\ lastSide' = IF r.side = None THEN lastSide ELSE r.side
     /\ asks' = IF r.ask = None THEN kept
                ELSE Recent(kept \cup {[t |-> now, p |-> r.ask, side |-> r.side]})
     /\ askPeak' = CASE r.ask = None -> top
                     [] r.ask # None /\ top = None -> r.ask
                     [] OTHER -> Greater(top, r.ask)

Noise == {"no_binance_price", "no_ask", "no_market", "paused", "already_entered"}

\* Seeded fault: only a change of the verdict is logged.
LogDueOnChange(r) ==
  r.reason \notin Noise /\ (r.reason = "entered" \/ r.reason # loggedReason)

\* should_write_signal for a verdict that is not noise.
LogDue(r) ==
  /\ r.reason \notin Noise
  /\ \/ r.reason = "entered"
     \/ r.reason # loggedReason
     \/ /\ Cadence > 0 /\ r.delta # None
        /\ loggedAt # None => now - loggedAt >= Cadence

\* How an iteration with a signal ends; "none" is one that asks for no order.
Outcomes == {"filled", "failed", "unclear", "blocked", "none"}

LogSignal(r) ==
  /\ loggedReason' = IF LogDue(r) THEN r.reason ELSE loggedReason
  /\ loggedAt' = IF LogDue(r) THEN now ELSE loggedAt

\* The rows of an iteration: the verdict when one is due, and what came of the
\* attempt, which is written past should_write_signal.
LastRowAfter(r, outcome) ==
  CASE outcome \in {"failed", "unclear"} -> [reason |-> "failed_fak", t |-> now]
    [] outcome = "filled" -> [reason |-> "entered", t |-> now]
    [] outcome \in {"blocked", "none"} ->
         IF LogDue(r) THEN [reason |-> r.reason, t |-> now] ELSE lastRow

\* What comes of the attempt a signal leads to.  Entries are also paused when the
\* journal or the trade of an order cannot be written.
Attempted(outcome) ==
  /\ entered' = (outcome \in {"filled", "unclear"})
  /\ paused' \in CASE outcome \in {"unclear", "blocked"} -> {TRUE}
                  [] outcome = "none" -> {FALSE}
                  [] outcome \in {"filled", "failed"} -> BOOLEAN
  /\ attempts' = attempts + IF outcome \in {"failed", "unclear"} THEN 1 ELSE 0
  /\ failedAt' = IF outcome \in {"failed", "unclear"} THEN now ELSE failedAt

\* An iteration with the verdict r, and the sleep until the next.
Iterate(r, outcome, delay) ==
  /\ window = CurrentWindow
  /\ now + delay <= MaxTime
  /\ IF r.delta = None THEN UNCHANGED <<history, peak, cross>> ELSE ObserveDelta(r)
  /\ ObserveAsk(r)
  /\ LogSignal(r)
  /\ lastRow' = LastRowAfter(r, outcome)
  /\ IF r.reason = "entered" THEN Attempted(outcome)
     ELSE outcome = "none" /\ UNCHANGED gates
  /\ verdict' = IF r.reason \in Noise THEN verdict
                ELSE [reason |-> r.reason, delta |-> r.delta, t |-> now]
  /\ now' = now + delay
  /\ UNCHANGED <<window, market>>

Evaluate ==
  \E view \in Views, delay \in 1..MaxDelay, outcome \in Outcomes :
    Iterate(Evaluated(view), outcome, delay)

\* /pause and /resume.
Operator == paused' = ~paused /\ UNCHANGED <<now, window, market, entered, attempts,
                                            failedAt, series, log, verdict>>

\* A new process; what it remembers of the window is gone.
Restart ==
  /\ window' = None
  /\ market' = FALSE /\ entered' = FALSE /\ paused' = FALSE
  /\ attempts' = 0 /\ failedAt' = None
  /\ Cleared
  /\ loggedReason' = None /\ loggedAt' = None /\ lastRow' = None
  /\ verdict' = None
  /\ UNCHANGED now

Init ==
  /\ now = 0
  /\ window = None
  /\ market = FALSE /\ entered = FALSE /\ paused = FALSE
  /\ attempts = 0 /\ failedAt = None
  /\ history = {} /\ peak = None /\ cross = None
  /\ asks = {} /\ askPeak = None /\ lastSide = None
  /\ loggedReason = None /\ loggedAt = None /\ lastRow = None
  /\ verdict = None

Next ==
  \/ \E found, traded \in BOOLEAN : Rotate(found, traded)
  \/ Evaluate
  \/ Operator
  \/ Restart

Spec == Init /\ [][Next]_vars

-----------------------------------------------------------------------------
(* Properties                                                              *)

DeltasOk ==
  /\ history \in SUBSET [t : Nat, d : Int]
  /\ \A e \in history : window # None /\ e.t \in window..now - 1
  /\ peak \in Opt([size : Nat, t : Nat])
  /\ cross \in Opt(Nat)
  /\ cross # None => peak # None /\ cross <= peak.t
  /\ cross = None /\ peak # None => peak.size <= RiseFloor
  /\ peak # None => peak.t < now

AsksOk ==
  /\ lastSide \in Opt(Sides)
  /\ asks \in SUBSET [t : Nat, p : Int, side : Sides]
  /\ \A e \in asks : window # None /\ e.t \in window..now - 1 /\ e.side = lastSide

\* The time a move took is never negative: the first crossing of the floor is
\* not after the peak, so that delta_rise_time_s (types.rs 740-748) has an
\* answer for every move that started.
RiseTimeKnown == cross # None => peak # None /\ cross <= peak.t

\* A verdict compares with readings of its own window only, and the asks of the
\* series are all of the token that is signalled: no series is spliced (main.rs
\* 453-464, types.rs 656-660).
SeriesUnspliced ==
  /\ \A e \in history \cup asks : window # None /\ e.t >= window
  /\ \A e \in asks : e.side = lastSide

\* What the last row must say: the verdict, or how the attempt it led to failed.
LastReason ==
  IF verdict.reason = "entered" /\ failedAt = verdict.t THEN "failed_fak" ELSE verdict.reason

\* The signal log is complete: of the rows handed to the database in a window the
\* last has the last verdict that is not noise, or "failed_fak" where that verdict
\* led to an attempt that failed; and if that verdict has a delta, the row before
\* it is younger than the cadence (types.rs 449-471, main.rs 944-1004 and
\* 1185-1198).  An insert that fails is only reported.
SignalLogComplete ==
  verdict # None =>
    /\ lastRow # None /\ lastRow.reason = LastReason
    /\ verdict.delta # None /\ Cadence > 0 => verdict.t - lastRow.t < Cadence

\* What the writer of the log remembers agrees with the last row and the last
\* verdict; an attempt that failed is one of an earlier iteration.
LogRemembered ==
  /\ verdict = None => loggedReason = None
  /\ verdict # None =>
       /\ loggedReason = verdict.reason
       /\ loggedAt # None /\ lastRow # None /\ lastRow.t = loggedAt
       /\ lastRow.reason = LastReason
  /\ failedAt \in Opt(Nat)
  /\ failedAt # None => failedAt < now

\* The inductive invariant of the diagnostics and the signal log.
DiagnosticsInv ==
  /\ now \in Nat /\ window \in Opt(Nat) /\ loggedAt \in Opt(Nat)
  /\ DeltasOk
  /\ AsksOk
  /\ LogRemembered
  /\ SignalLogComplete
=============================================================================
