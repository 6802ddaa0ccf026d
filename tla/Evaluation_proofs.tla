-------------------------- MODULE Evaluation_proofs ---------------------------
(***************************************************************************)
(* The evaluation loop and the arithmetic it rests on, for all views,      *)
(* configurations, prices and lengths of windows: what a verdict consists  *)
(* of, the invariant of the diagnostics and the signal log, and what holds *)
(* of every limit, entry and shadow quote, and of the configuration.       *)
(***************************************************************************)
EXTENDS Evaluation, Computations, SumTheorems, FiniteSetTheorems, TLAPS

IsVerdict(r) ==
  /\ r.reason \in Reasons
  /\ r.delta \in Opt(Int) /\ r.side \in Opt(Sides) /\ r.ask \in Opt(Int)
  /\ r.ask # None => r.side # None

-----------------------------------------------------------------------------
(* Verdicts                                                                *)

\* The gates that decide what a verdict contains are the third and the tenth.
LEMMA GatesPast ==
  ASSUME NEW n \in 1..21
  PROVE  /\ (\E i \in 1..n - 1 : Gates[i] = "twap_unavailable") <=> n > 3
         /\ (\E i \in 1..n - 1 : Gates[i] = "no_ask") <=> n > 10
<1>1. Gates[3] = "twap_unavailable" /\ Gates[10] = "no_ask"
  BY DEF Gates
<1>2. \A i \in 1..20 : Gates[i] = "twap_unavailable" => i = 3
  BY DEF Gates
<1>3. \A i \in 1..20 : Gates[i] = "no_ask" => i = 10
  BY DEF Gates
<1>4. \A i \in 1..n - 1 : i \in 1..20
  OBVIOUS
<1>5. ASSUME NEW gate, NEW k \in 1..20, Gates[k] = gate,
             \A i \in 1..20 : Gates[i] = gate => i = k
      PROVE  (\E i \in 1..n - 1 : Gates[i] = gate) <=> n > k
  <2>1. ASSUME NEW i \in 1..n - 1, Gates[i] = gate PROVE n > k
    <3>1. i = k
      BY <1>4, <1>5, <2>1
    <3> QED  BY <3>1
  <2>2. ASSUME n > k PROVE \E i \in 1..n - 1 : Gates[i] = gate
    <3>1. k \in 1..n - 1
      BY <2>2
    <3> QED  BY <1>5, <3>1
  <2> QED  BY <2>1, <2>2
<1> QED  BY <1>1, <1>2, <1>3, <1>5

\* If some gate rejects, one is the first.
LEMMA SomeFirst ==
  ASSUME NEW v, NEW cfg, NEW hist, NEW time,
         \E i \in 1..20 : Rejects(Gates[i], v, cfg, hist, time)
  PROVE  \E i \in 1..20 : /\ Rejects(Gates[i], v, cfg, hist, time)
                         /\ \A j \in 1..i - 1 : ~Rejects(Gates[j], v, cfg, hist, time)
<1> DEFINE R(i) == Rejects(Gates[i], v, cfg, hist, time)
<1>1. \E i \in 1..20 : R(i)
  OBVIOUS
<1> HIDE DEF R
<1>2. SUFFICES ASSUME \A i \in 1..20 : R(i) => \E j \in 1..i - 1 : R(j)
               PROVE  FALSE
  BY DEF R
<1>3. \A i \in 1..20 : ~R(i)
  BY <1>2
<1> QED  BY <1>1, <1>3

\* Some gate is the first to reject, or none rejects.
LEMMA FirstRejectionNumber ==
  ASSUME NEW v, NEW cfg, NEW hist, NEW time
  PROVE  FirstRejection(v, cfg, hist, time) \in 1..21
<1> DEFINE R(i) == Rejects(Gates[i], v, cfg, hist, time)
<1>1. DOMAIN Gates = 1..20 /\ Len(Gates) = 20
  BY DEF Gates
<1>2. CASE \E i \in 1..20 : R(i)
  <2>1. \E i \in 1..20 : R(i) /\ \A j \in 1..i - 1 : ~R(j)
    BY <1>2, SomeFirst
  <2> QED  BY <1>1, <1>2, <2>1 DEF FirstRejection
<1>3. CASE ~ \E i \in 1..20 : R(i)
  BY <1>1, <1>3 DEF FirstRejection
<1> QED  BY <1>2, <1>3

\* A decided verdict has the delta and the side of the view; an ask comes with
\* a side.
LEMMA StrategyVerdict ==
  ASSUME NEW v \in ViewType, NEW cfg, NEW hist, NEW time
  PROVE  IsVerdict(EvaluateEntry(v, cfg, hist, time))
<1> DEFINE n == FirstRejection(v, cfg, hist, time)
           decided == \E i \in 1..n - 1 : Gates[i] = "twap_unavailable"
           asked == \E i \in 1..n - 1 : Gates[i] = "no_ask"
           delta == IF decided THEN DecisionDelta(v, cfg) ELSE None
           side == IF decided THEN SideOf(delta) ELSE None
           ask == IF asked THEN v.books[side].ask ELSE None
           reason == CASE n > Len(Gates) -> "entered"
                       [] n <= Len(Gates) /\ Gates[n] = "no_bid" -> "no_ask"
                       [] OTHER -> Gates[n]
<1>1. n \in 1..21
  BY FirstRejectionNumber
<1>2. (decided <=> n > 3) /\ (asked <=> n > 10)
  BY <1>1, GatesPast
<1>3. v.spot \in Opt(Int) /\ v.twap \in Opt(Int)
  BY DEF ViewType
<1>4. \A s \in Sides : v.books[s].ask \in Opt(Int)
  BY DEF ViewType
<1>5. delta \in Opt(Int)
  BY <1>3 DEF DecisionDelta, Opt
<1>6. decided => side \in Sides
  BY DEF SideOf, Sides
<1>7. ~decided => side = None
  OBVIOUS
<1>8. reason \in Reasons
  <2>1. Len(Gates) = 20 /\ DOMAIN Gates = 1..20 /\ Gates[10] = "no_ask"
    BY DEF Gates
  <2>2. CASE n > 20
    BY <2>1, <2>2 DEF Reasons
  <2>3. CASE n \in 1..20
    BY <2>1, <2>3 DEF Reasons
  <2> QED  BY <1>1, <2>2, <2>3
<1>9. LET r == EvaluateEntry(v, cfg, hist, time)
      IN r.reason = reason /\ r.delta = delta /\ r.side = side /\ r.ask = ask
  BY DEF EvaluateEntry
<1> HIDE DEF n, reason, decided, asked
<1>10. ask \in Opt(Int) /\ (ask # None => decided)
  <2>1. CASE asked
    <3>1. decided
      BY <1>1, <1>2, <2>1
    <3>2. ask = v.books[side].ask
      BY <2>1
    <3> QED  BY <1>4, <1>6, <3>1, <3>2
  <2>2. CASE ~asked
    BY <2>2 DEF Opt
  <2> QED  BY <2>1, <2>2
<1> QED
  BY <1>5, <1>6, <1>7, <1>8, <1>9, <1>10, PriceAssumption DEF IsVerdict, Opt

\* So is every verdict of the ladder.
LEMMA LadderVerdict ==
  ASSUME now \in Nat, window \in Nat, NEW view \in Views
  PROVE  IsVerdict(Evaluated(view))
<1>1. \A reason \in Reasons : IsVerdict(Rejected(reason))
  BY DEF Rejected, IsVerdict, Opt
<1>2. [view EXCEPT !.secs = WindowLen - (now - window)] \in ViewType
  <2>1. view \in ViewType
    BY EvaluationAssumption
  <2>2. WindowLen - (now - window) \in Int
    BY EvaluationAssumption
  <2> QED  BY <2>1, <2>2 DEF ViewType
<1>3. IsVerdict(EvaluateEntry([view EXCEPT !.secs = WindowLen - (now - window)],
                              Cfg, history, now))
  BY <1>2, StrategyVerdict
<1>4. {"paused", "already_entered", "max_attempts", "retry_cooldown", "no_market"}
        \subseteq Reasons
  BY DEF Reasons
<1>5. \A reason \in {"paused", "already_entered", "max_attempts", "retry_cooldown", "no_market"} :
        IsVerdict(Rejected(reason))
  BY <1>1, <1>4
<1> QED  BY <1>3, <1>5 DEF Evaluated

-----------------------------------------------------------------------------
(* The inductive invariant                                                 *)

LEMMA CurrentWindowType ==
  ASSUME now \in Nat
  PROVE  CurrentWindow \in Nat /\ CurrentWindow <= now
<1>1. now % WindowLen \in 0..now
  BY EvaluationAssumption
<1> QED  BY <1>1 DEF CurrentWindow

LEMMA DiagnosticsInit == Init => DiagnosticsInv
<1> SUFFICES ASSUME Init PROVE DiagnosticsInv
  OBVIOUS
<1>1. DeltasOk
  BY DEF Init, DeltasOk, Opt
<1>2. AsksOk
  BY DEF Init, AsksOk, Opt
<1>3. LogRemembered /\ SignalLogComplete
  BY DEF Init, LogRemembered, SignalLogComplete, Opt
<1> QED  BY <1>1, <1>2, <1>3 DEF Init, DiagnosticsInv, Opt

\* A window that starts, be it with the process, has empty series.
LEMMA ClearedKeeps ==
  ASSUME Cleared, now' \in Nat, window' \in Opt(Nat), failedAt' = None,
         loggedReason' = None, loggedAt' = None, verdict' = None
  PROVE  DiagnosticsInv'
<1>1. DeltasOk'
  BY DEF Cleared, DeltasOk, Opt
<1>2. AsksOk'
  BY DEF Cleared, AsksOk, Opt
<1>3. LogRemembered' /\ SignalLogComplete'
  BY DEF LogRemembered, SignalLogComplete, Opt
<1> QED  BY <1>1, <1>2, <1>3 DEF DiagnosticsInv, Opt

\* What an iteration adds to the deltas is of this window, and rises.
LEMMA IterateKeepsDeltas ==
  ASSUME DiagnosticsInv, NEW r, IsVerdict(r), NEW delay \in 1..MaxDelay,
         window = CurrentWindow, window' = window, now' = now + delay,
         IF r.delta = None THEN UNCHANGED <<history, peak, cross>> ELSE ObserveDelta(r)
  PROVE  DeltasOk'
<1>1. now \in Nat /\ window \in Nat /\ window <= now /\ now' \in Nat /\ now < now'
  BY CurrentWindowType, EvaluationAssumption DEF DiagnosticsInv
<1>2. None \notin Int
  BY PriceAssumption
<1>3. CASE r.delta = None
  BY <1>1, <1>2, <1>3 DEF DiagnosticsInv, DeltasOk, Opt
<1>4. CASE r.delta # None
  <2>1. r.delta \in Int /\ AbsOf(r.delta) \in Nat
    BY <1>4 DEF IsVerdict, Opt, AbsOf
  <2>2. ObserveDelta(r)
    BY <1>4
  <2>3. /\ history' \in SUBSET [t : Nat, d : Int]
        /\ \A e \in history' : window' # None /\ e.t \in window'..now' - 1
    <3>1. history' \subseteq history \cup {[t |-> now, d |-> r.delta]}
      BY <2>2 DEF ObserveDelta, Recent
    <3> QED  BY <3>1, <1>1, <1>2, <2>1 DEF DiagnosticsInv, DeltasOk
  <2>4. /\ peak' \in Opt([size : Nat, t : Nat])
        /\ peak' # None => peak'.t < now'
    BY <1>1, <2>1, <2>2 DEF ObserveDelta, DiagnosticsInv, DeltasOk, Opt
  <2>5. /\ cross' \in Opt(Nat)
        /\ cross' # None => peak' # None /\ cross' <= peak'.t
        /\ cross' = None /\ peak' # None => peak'.size <= RiseFloor
    <3>1. /\ cross \in Opt(Nat) /\ peak \in Opt([size : Nat, t : Nat])
          /\ cross # None => peak # None /\ cross <= peak.t
          /\ cross = None /\ peak # None => peak.size <= RiseFloor
          /\ peak # None => peak.t < now
      BY DEF DiagnosticsInv, DeltasOk
    <3>2. \/ peak' = [size |-> AbsOf(r.delta), t |-> now]
          \/ peak # None /\ peak' = peak /\ AbsOf(r.delta) <= peak.size
      BY <2>1, <2>2, <3>1 DEF ObserveDelta, Opt
    <3>3. peak' # None
      BY <1>1, <2>1, <3>2, EvaluationAssumption
    <3>4. CASE cross # None
      BY <1>1, <2>2, <3>1, <3>2, <3>3, <3>4 DEF ObserveDelta, Opt
    <3>5. CASE cross = None /\ AbsOf(r.delta) > RiseFloor
      <4>1. cross' = now
        BY <2>2, <3>5 DEF ObserveDelta
      <4>2. peak'.t = now
        BY <2>1, <3>1, <3>2, <3>5, EvaluationAssumption DEF Opt
      <4> QED  BY <1>1, <1>2, <3>3, <4>1, <4>2 DEF Opt
    <3>6. CASE cross = None /\ ~(AbsOf(r.delta) > RiseFloor)
      BY <2>1, <2>2, <3>1, <3>2, <3>3, <3>6, EvaluationAssumption DEF ObserveDelta, Opt
    <3> QED  BY <3>4, <3>5, <3>6
  <2> QED  BY <2>3, <2>4, <2>5 DEF DeltasOk
<1> QED  BY <1>3, <1>4

\* What it adds to the asks is of the side that is signalled.
LEMMA IterateKeepsAsks ==
  ASSUME DiagnosticsInv, NEW r, IsVerdict(r), NEW delay \in 1..MaxDelay,
         window = CurrentWindow, window' = window, now' = now + delay,
         ObserveAsk(r)
  PROVE  AsksOk'
<1>1. now \in Nat /\ window \in Nat /\ window <= now /\ now' \in Nat /\ now < now'
  BY CurrentWindowType, EvaluationAssumption DEF DiagnosticsInv
<1>2. None \notin Int /\ None \notin Sides
  BY PriceAssumption
<1> DEFINE flips == {r.side, lastSide} = Sides
           kept == IF flips THEN {} ELSE asks
<1>3. lastSide' = IF r.side = None THEN lastSide ELSE r.side
  BY DEF ObserveAsk
<1>4. lastSide' \in Opt(Sides)
  BY <1>3 DEF DiagnosticsInv, AsksOk, IsVerdict, Opt
<1>5. /\ kept \in SUBSET [t : Nat, p : Int, side : Sides]
      /\ \A e \in kept : e.t \in window..now - 1 /\ e.side = lastSide'
  <2>1. CASE flips
    BY <2>1
  <2>2. CASE ~flips
    <3>1. \A e \in asks : e.side \in Sides /\ e.side = lastSide
      BY DEF DiagnosticsInv, AsksOk
    <3>2. \A e \in asks : e.side = lastSide'
      BY <1>3, <2>2, <3>1 DEF IsVerdict, Opt, Sides
    <3> QED  BY <2>2, <3>2 DEF DiagnosticsInv, AsksOk
  <2> QED  BY <2>1, <2>2
<1>6. asks' \subseteq kept
        \cup (IF r.ask = None THEN {} ELSE {[t |-> now, p |-> r.ask, side |-> r.side]})
  BY DEF ObserveAsk, Recent
<1>7. r.ask # None => r.ask \in Int /\ r.side \in Sides /\ lastSide' = r.side
  BY <1>3 DEF IsVerdict, Opt
<1> HIDE DEF kept
<1>8. /\ asks' \in SUBSET [t : Nat, p : Int, side : Sides]
      /\ \A e \in asks' : window' # None /\ e.t \in window'..now' - 1 /\ e.side = lastSide'
  BY <1>1, <1>2, <1>5, <1>6, <1>7
<1> QED  BY <1>4, <1>8 DEF AsksOk

\* An iteration leaves the log with what it must have, and the writer knowing it.
LEMMA IterateKeepsLog ==
  ASSUME DiagnosticsInv, NEW r, IsVerdict(r), NEW outcome \in Outcomes,
         NEW delay \in 1..MaxDelay, Iterate(r, outcome, delay)
  PROVE  loggedAt' \in Opt(Nat) /\ LogRemembered' /\ SignalLogComplete'
<1>1. /\ now \in Nat /\ loggedAt \in Opt(Nat) /\ LogRemembered /\ SignalLogComplete
      /\ failedAt \in Opt(Nat) /\ (failedAt # None => failedAt < now)
      /\ None \notin Int /\ None # r.reason
  BY PriceAssumption, EvaluationAssumption DEF DiagnosticsInv, LogRemembered, IsVerdict
<1>2. /\ now' = now + delay /\ LogSignal(r) /\ lastRow' = LastRowAfter(r, outcome)
      /\ verdict' = IF r.reason \in Noise THEN verdict
                    ELSE [reason |-> r.reason, delta |-> r.delta, t |-> now]
  BY DEF Iterate
<1>3. now' \in Nat /\ now < now'
  BY <1>1, <1>2, EvaluationAssumption
<1>4. CASE r.reason = "entered"
  <2>1. /\ LogDue(r) /\ loggedReason' = "entered" /\ loggedAt' = now
        /\ verdict' = [reason |-> "entered", delta |-> r.delta, t |-> now]
    BY <1>2, <1>4 DEF LogDue, LogSignal, Noise
  <2>2. failedAt' = IF outcome \in {"failed", "unclear"} THEN now ELSE failedAt
    BY <1>4 DEF Iterate, Attempted
  <2>3. failedAt' \in Opt(Nat) /\ (failedAt' # None => failedAt' < now')
    BY <1>1, <1>3, <2>2 DEF Opt
  <2>4. lastRow' = [reason |-> IF outcome \in {"failed", "unclear"}
                              THEN "failed_fak" ELSE "entered", t |-> now]
    <3>1. outcome \in {"failed", "unclear", "filled", "blocked", "none"}
      BY DEF Outcomes
    <3> QED  BY <1>2, <1>4, <2>1, <3>1 DEF LastRowAfter
  <2>5. lastRow'.reason = LastReason' /\ lastRow'.t = now
    <3>1. verdict'.reason = "entered" /\ verdict'.t = now
      BY <2>1
    <3>2. (failedAt' = now) = (outcome \in {"failed", "unclear"})
      BY <1>1, <2>2
    <3> QED  BY <2>4, <3>1, <3>2 DEF LastReason
  <2>6. lastRow' # None /\ verdict' # None
    <3>1. lastRow' \in Rows /\ verdict' \in Verdicts
      BY <1>1, <1>4, <2>1, <2>4 DEF Rows, Verdicts, Reasons, IsVerdict
    <3> QED  BY <3>1, EvaluationAssumption
  <2> QED  BY <1>1, <2>1, <2>3, <2>5, <2>6, EvaluationAssumption
           DEF LogRemembered, SignalLogComplete, Opt
<1>5. CASE r.reason # "entered"
  <2>1. /\ outcome = "none" /\ failedAt' = failedAt
        /\ lastRow' = IF LogDue(r) THEN [reason |-> r.reason, t |-> now] ELSE lastRow
    BY <1>2, <1>5 DEF Iterate, gates, LastRowAfter
  <2>2. failedAt' \in Opt(Nat) /\ (failedAt' # None => failedAt' < now')
    BY <1>1, <1>3, <2>1 DEF Opt
  <2>3. CASE r.reason \in Noise
    <3>1. /\ verdict' = verdict /\ lastRow' = lastRow
          /\ loggedReason' = loggedReason /\ loggedAt' = loggedAt
      BY <1>2, <2>1, <2>3 DEF LogDue, LogSignal
    <3> QED  BY <1>1, <2>1, <2>2, <3>1 DEF LogRemembered, SignalLogComplete, LastReason
  <2>4. CASE r.reason \notin Noise
    <3>1. verdict' = [reason |-> r.reason, delta |-> r.delta, t |-> now]
      BY <1>2, <2>4
    <3>2. verdict' # None /\ LastReason' = r.reason
      <4>1. verdict' \in Verdicts
        BY <1>1, <3>1 DEF Verdicts, IsVerdict
      <4>2. verdict' # None
        BY <4>1, EvaluationAssumption
      <4>3. LastReason' = r.reason
        BY <1>5, <3>1 DEF LastReason
      <4> QED  BY <4>2, <4>3
    <3>3. CASE LogDue(r)
      <4>1. loggedReason' = r.reason /\ loggedAt' = now
            /\ lastRow' = [reason |-> r.reason, t |-> now]
        BY <1>2, <2>1, <3>3 DEF LogSignal
      <4>2. lastRow' # None
        <5>1. lastRow' \in Rows
          BY <1>1, <4>1 DEF Rows, IsVerdict
        <5> QED  BY <5>1, EvaluationAssumption
      <4> QED  BY <1>1, <2>2, <3>1, <3>2, <4>1, <4>2, EvaluationAssumption
               DEF LogRemembered, SignalLogComplete, Opt
    <3>4. CASE ~LogDue(r)
      <4>1. /\ lastRow' = lastRow
            /\ loggedReason' = loggedReason /\ loggedAt' = loggedAt
        BY <1>2, <2>1, <3>4 DEF LogSignal
      <4>2. r.reason = loggedReason
        BY <2>4, <3>4 DEF LogDue
      <4>3. verdict # None /\ verdict.reason = r.reason
        BY <1>1, <4>2 DEF LogRemembered
      <4>4. loggedAt # None /\ lastRow # None /\ lastRow.t = loggedAt
            /\ lastRow.reason = r.reason
        BY <1>1, <1>5, <4>3 DEF LogRemembered, LastReason
      <4>5. r.delta # None /\ Cadence > 0 => ~(now - loggedAt >= Cadence)
        BY <2>4, <3>4 DEF LogDue
      <4>6. LogRemembered'
        BY <2>2, <3>1, <3>2, <4>1, <4>2, <4>4 DEF LogRemembered
      <4>7. r.delta # None /\ Cadence > 0 => now - lastRow.t < Cadence
        BY <1>1, <4>4, <4>5, EvaluationAssumption DEF Opt
      <4>8. SignalLogComplete'
        BY <3>1, <3>2, <4>1, <4>4, <4>7 DEF SignalLogComplete
      <4> QED  BY <1>1, <4>1, <4>6, <4>8
    <3> QED  BY <3>3, <3>4
  <2> QED  BY <2>3, <2>4
<1> QED  BY <1>4, <1>5

LEMMA DiagnosticsStep == DiagnosticsInv /\ [Next]_vars => DiagnosticsInv'
<1> SUFFICES ASSUME DiagnosticsInv, [Next]_vars PROVE DiagnosticsInv'
  OBVIOUS
<1>1. ASSUME NEW found \in BOOLEAN, NEW traded \in BOOLEAN, Rotate(found, traded)
      PROVE  DiagnosticsInv'
  <2>1. now' \in Nat /\ window' \in Opt(Nat)
    BY <1>1, CurrentWindowType DEF Rotate, DiagnosticsInv, Opt
  <2> QED  BY <1>1, <2>1, ClearedKeeps DEF Rotate
<1>2. ASSUME NEW view \in Views, NEW delay \in 1..MaxDelay, NEW outcome \in Outcomes,
             Iterate(Evaluated(view), outcome, delay)
      PROVE  DiagnosticsInv'
  <2> DEFINE r == Evaluated(view)
  <2>1. window = CurrentWindow /\ window' = window /\ now' = now + delay
    BY <1>2 DEF Iterate
  <2>2. now \in Nat /\ window \in Nat
    BY <2>1, CurrentWindowType DEF DiagnosticsInv
  <2>3. IsVerdict(r)
    BY <2>2, LadderVerdict
  <2>4. /\ IF r.delta = None THEN UNCHANGED <<history, peak, cross>> ELSE ObserveDelta(r)
        /\ ObserveAsk(r)
    BY <1>2 DEF Iterate
  <2> HIDE DEF r
  <2>5. DeltasOk'
    BY <2>1, <2>3, <2>4, IterateKeepsDeltas
  <2>6. AsksOk'
    BY <2>1, <2>3, <2>4, IterateKeepsAsks
  <2>7. loggedAt' \in Opt(Nat) /\ LogRemembered' /\ SignalLogComplete'
    BY <1>2, <2>3, IterateKeepsLog DEF r
  <2>8. now' \in Nat /\ window' \in Opt(Nat)
    BY <2>1, <2>2, EvaluationAssumption DEF Opt
  <2> QED  BY <2>5, <2>6, <2>7, <2>8 DEF DiagnosticsInv
<1>3. CASE UNCHANGED <<now, window, failedAt, series, log, verdict>>
  BY <1>3 DEF DiagnosticsInv, DeltasOk, AsksOk, LogRemembered, SignalLogComplete,
              LastReason, series, log
<1>4. CASE Operator
  BY <1>3, <1>4 DEF Operator
<1>5. CASE Restart
  BY <1>5, ClearedKeeps DEF Restart, DiagnosticsInv, Opt
<1>6. CASE UNCHANGED vars
  BY <1>3, <1>6 DEF vars, gates
<1> QED  BY <1>1, <1>2, <1>4, <1>5, <1>6 DEF Next, Evaluate

-----------------------------------------------------------------------------
(* Theorems                                                                *)

\* The diagnostics and the log are as they should be in every state of the
\* evaluation loop (types.rs 560-700, main.rs 809-835 and 918-1003).
THEOREM DiagnosticsInvCorrect == Spec => []DiagnosticsInv
<1> QED  BY DiagnosticsInit, DiagnosticsStep, PTL DEF Spec

\* The first crossing of the floor is never after the peak (types.rs 740-748).
THEOREM RiseTimeKnownCorrect == Spec => []RiseTimeKnown
<1>1. DiagnosticsInv => RiseTimeKnown
  BY DEF DiagnosticsInv, DeltasOk, RiseTimeKnown
<1> QED  BY <1>1, DiagnosticsInvCorrect, PTL

\* No series mixes windows or sides (main.rs 453-464, types.rs 656-660).
THEOREM SeriesUnsplicedCorrect == Spec => []SeriesUnspliced
<1>1. ASSUME DiagnosticsInv PROVE SeriesUnspliced
  <2>1. None \notin Int
    BY PriceAssumption
  <2>2. \A e \in history \cup asks : window # None /\ e.t \in window..now - 1
    BY <1>1 DEF DiagnosticsInv, DeltasOk, AsksOk
  <2>3. \A e \in asks : e.side = lastSide
    BY <1>1 DEF DiagnosticsInv, AsksOk
  <2> QED  BY <2>2, <2>3 DEF SeriesUnspliced
<1> QED  BY <1>1, DiagnosticsInvCorrect, PTL

\* The last row handed to the log has the last verdict that is not noise, or that
\* its attempt failed, and the rows of verdicts with a delta are closer than the
\* cadence (types.rs 449-471, main.rs 944-1004 and 1185-1198).
THEOREM SignalLogCompleteCorrect == Spec => []SignalLogComplete
<1>1. DiagnosticsInv => SignalLogComplete
  BY DEF DiagnosticsInv
<1> QED  BY <1>1, DiagnosticsInvCorrect, PTL

-----------------------------------------------------------------------------
(* Rounding to the grid                                                    *)

LEMMA Division ==
  ASSUME NEW a \in Int, NEW k \in Nat \ {0}
  PROVE  /\ a \div k \in Int
         /\ (a \div k) * k <= a
         /\ a < (a \div k) * k + k
OBVIOUS

LEMMA FloorBounds ==
  ASSUME NEW tick \in Nat \ {0}, NEW den \in Nat \ {0}, NEW num \in Int
  PROVE  /\ FloorTo(tick, num, den) \in Int
         /\ FloorTo(tick, num, den) * den <= num
         /\ num < (FloorTo(tick, num, den) + tick) * den
<1> DEFINE q == num \div (tick * den)
<1>1. tick * den \in Nat \ {0}
  OBVIOUS
<1>2. q \in Int /\ q * (tick * den) <= num /\ num < q * (tick * den) + tick * den
  BY <1>1, Division
<1> HIDE DEF q
<1>3. (q * tick) * den = q * (tick * den) /\ (q * tick + tick) * den = q * (tick * den) + tick * den
  BY <1>2
<1>4. FloorTo(tick, num, den) = q * tick
  BY DEF FloorTo, q
<1> QED  BY <1>2, <1>3, <1>4

LEMMA FloorMultiple ==
  ASSUME NEW tick \in Nat \ {0}, NEW n \in Int
  PROVE  FloorTo(tick, n * tick, 1) = n * tick
<1>1. (n * tick) \div tick = n
  <2> DEFINE q == (n * tick) \div tick
  <2>1. q \in Int /\ q * tick <= n * tick /\ n * tick < q * tick + tick
    BY Division
  <2> HIDE DEF q
  <2>2. q <= n /\ n < q + 1
    <3>1. CASE q >= n + 1
      <4>1. q * tick >= (n + 1) * tick
        BY <2>1, <3>1
      <4> QED  BY <2>1, <4>1
    <3>2. CASE n >= q + 1
      <4>1. n * tick >= (q + 1) * tick
        BY <2>1, <3>2
      <4> QED  BY <2>1, <4>1
    <3> QED  BY <2>1, <3>1, <3>2
  <2> QED  BY <2>1, <2>2 DEF q
<1> QED  BY <1>1 DEF FloorTo
-----------------------------------------------------------------------------
(* Limits and entries                                                      *)

\* A limit is on the grid, between the ask and what the operator allows, and
\* survives being derived a second time (trading.rs 37-58, 162-175).
THEOREM LimitSoundCorrect ==
  ASSUME NEW ask \in Opt(Int), NEW slippage \in Int, NEW cap \in Int, NEW tick \in Opt(Int)
  PROVE  LimitSound(ask, slippage, cap, tick)
<1> DEFINE limit == BuyLimit(ask, slippage, cap, tick)
           ceiling == Lesser(Lesser(ask + slippage, cap), One - tick)
<1>1. SUFFICES ASSUME limit # None
               PROVE  /\ limit \in ask..Lesser(ask + slippage, cap)
                      /\ limit < One
                      /\ limit % tick = 0
                      /\ BuyLimit(limit, 0, cap, tick) = limit
  BY DEF LimitSound
<1>2. /\ ask \in 1..One - 1 /\ slippage >= 0 /\ cap \in 1..One - 1 /\ tick \in Ticks
      /\ limit = FloorTo(tick, ceiling, 1) /\ limit >= ask
  BY <1>1 DEF BuyLimit
<1>3. One \in Nat /\ tick \in Nat \ {0} /\ ceiling \in Int
  BY <1>2, PriceAssumption DEF Lesser
<1>4. limit \in Int /\ limit <= ceiling
  BY <1>2, <1>3, FloorBounds
<1>5. ceiling <= ask + slippage /\ ceiling <= cap /\ ceiling <= One - tick
  BY <1>2, <1>3 DEF Lesser
<1> DEFINE q == ceiling \div tick
<1>6. q \in Int /\ limit = q * tick
  BY <1>2, <1>3, Division DEF FloorTo
<1>7. limit % tick = 0
  <2>1. FloorTo(tick, q * tick, 1) = q * tick
    BY <1>3, <1>6, FloorMultiple
  <2>2. (limit \div tick) * tick = limit
    BY <1>3, <1>6, <2>1 DEF FloorTo
  <2> HIDE DEF limit
  <2> QED  BY <1>3, <1>4, <2>2
<1> HIDE DEF q
<1>8. FloorTo(tick, limit, 1) = limit
  BY <1>3, <1>6, FloorMultiple
<1> HIDE DEF limit, ceiling
<1>9. Lesser(Lesser(limit + 0, cap), One - tick) = limit
  BY <1>2, <1>3, <1>4, <1>5 DEF Lesser
<1>10. BuyLimit(limit, 0, cap, tick) = limit
  BY <1>2, <1>3, <1>4, <1>5, <1>8, <1>9 DEF BuyLimit
<1> QED  BY <1>2, <1>3, <1>4, <1>5, <1>7, <1>10 DEF Lesser
\* What the gates let through can be sent, whatever configuration is read for it.
LEMMA EntryIsPlaceable ==
  ASSUME NEW v \in ViewType, NEW cfg, NEW later, NEW hist, NEW time,
         ConfigTypeOk(cfg), ConfigTypeOk(later)
  PROVE  EntryPlaceable(v, cfg, later, hist, time)
<1> DEFINE r == EvaluateEntry(v, cfg, hist, time)
           n == FirstRejection(v, cfg, hist, time)
           delta == DecisionDelta(v, cfg)
           book == v.books[SideOf(delta)]
<1>1. SUFFICES ASSUME r.reason = "entered" PROVE EntryPlaceable(v, cfg, later, hist, time)
  BY DEF EntryPlaceable
<1>2. Len(Gates) = 20 /\ DOMAIN Gates = 1..20
  BY DEF Gates
<1>3. n = 21
  <2>1. r.reason = CASE n > Len(Gates) -> "entered"
                     [] n <= Len(Gates) /\ Gates[n] = "no_bid" -> "no_ask"
                     [] OTHER -> Gates[n]
    BY DEF EvaluateEntry
  <2>2. \A i \in 1..20 : Gates[i] # "entered"
    BY DEF Gates
  <2>3. n \in 1..21
    BY FirstRejectionNumber
  <2> HIDE DEF n, r
  <2> QED  BY <1>1, <1>2, <2>1, <2>2, <2>3
<1>4. \A i \in 1..20 : ~Rejects(Gates[i], v, cfg, hist, time)
  <2>1. SUFFICES ASSUME NEW k \in 1..20, Rejects(Gates[k], v, cfg, hist, time) PROVE n # 21
    BY <1>3
  <2>2. \E i \in 1..20 : Rejects(Gates[i], v, cfg, hist, time)
                         /\ \A j \in 1..i - 1 : ~Rejects(Gates[j], v, cfg, hist, time)
    BY SomeFirst, <2>1
  <2> QED  BY <1>2, <2>1, <2>2 DEF FirstRejection
<1>5. /\ r.delta = delta /\ r.side = SideOf(delta) /\ r.ask = book.ask
  <2>1. /\ \E i \in 1..n - 1 : Gates[i] = "twap_unavailable"
        /\ \E i \in 1..n - 1 : Gates[i] = "no_ask"
    BY <1>3, GatesPast
  <2> QED  BY <2>1 DEF EvaluateEntry
<1>6. /\ Gates[3] = "twap_unavailable" /\ Gates[5] = "below_threshold"
      /\ Gates[17] = "invalid_limit" /\ Gates[18] = "depth_low" /\ Gates[10] = "no_ask"
      /\ Gates[2] = "no_binance_price"
  BY DEF Gates
<1>7. delta \in Int
  <2>1. ~Rejects("twap_unavailable", v, cfg, hist, time)
    BY <1>4, <1>6
  <2>2. delta # None
    BY <2>1 DEF Rejects
  <2> QED  BY <2>2 DEF DecisionDelta, ViewType, Opt
<1>8. AbsOf(delta) >= cfg.threshold
  <2>1. ~Rejects("below_threshold", v, cfg, hist, time)
    BY <1>4, <1>6
  <2>2. ~(AbsOf(delta) < cfg.threshold)
    BY <2>1 DEF Rejects
  <2> QED  BY <1>7, <2>2 DEF AbsOf, ConfigTypeOk
<1>9. BuyLimit(book.ask, cfg.maxSlippage, cfg.maxAsk, v.tick) # None
  <2>1. ~Rejects("invalid_limit", v, cfg, hist, time)
    BY <1>4, <1>6
  <2> QED  BY <2>1 DEF Rejects
<1>10. EnoughDepth(v, cfg, book)
  <2>1. ~Rejects("depth_low", v, cfg, hist, time)
    BY <1>4, <1>6
  <2> QED  BY <2>1 DEF Rejects
<1>11. SideOf(delta) = "Up" <=> delta > 0
  BY DEF SideOf
<1>12. LimitSound(book.ask, later.maxSlippage, later.maxAsk, v.tick)
  <2>1. SideOf(delta) \in Sides
    BY DEF SideOf, Sides
  <2>2. book.ask \in Opt(Int) /\ v.tick \in Opt(Int)
    BY <2>1 DEF ViewType
  <2>3. later.maxSlippage \in Int /\ later.maxAsk \in Int
    BY DEF ConfigTypeOk
  <2> QED  BY <2>2, <2>3, LimitSoundCorrect
<1>13. v.books[r.side] = book
  BY <1>5
<1> HIDE DEF r, delta, book, n
<1> QED  BY <1>5, <1>13, <1>8, <1>9, <1>10, <1>11, <1>12
         DEF EntryPlaceable, EnoughDepth, r

\* Every entry among the inputs can be sent as it was judged (strategy.rs
\* 238-255, main.rs 1101-1109).
THEOREM EntriesPlaceableCorrect == InputSpec => []EntriesPlaceable
<1>1. InputInit => EntriesPlaceable
  BY EntryIsPlaceable, InputsAssumption DEF InputInit, EntriesPlaceable, Is
<1>2. EntriesPlaceable /\ [UNCHANGED input]_input => EntriesPlaceable'
  BY DEF EntriesPlaceable, Is
<1> QED  BY <1>1, <1>2, PTL DEF InputSpec

-----------------------------------------------------------------------------
(* Costs and fees                                                          *)

\* The loop multiplies once more for each step of the exponent (fee_upper_bound).
LEMMA PowerSteps ==
  ASSUME NEW x \in Int
  PROVE  /\ Power(x, 0) = 1
         /\ \A k \in 1..MaxExponent : Power(x, k) = Power(x, k - 1) * x
<1> DEFINE Body(g) == [k \in 0..MaxExponent |-> IF k = 0 THEN 1 ELSE g[k - 1] * x]
           powers == [k \in 0..MaxExponent |->
                        CASE k = 0 -> 1
                          [] k = 1 -> x
                          [] k = 2 -> x * x
                          [] k = 3 -> (x * x) * x
                          [] OTHER -> ((x * x) * x) * x]
           power == CHOOSE g : g = Body(g)
<1>1. powers = Body(powers)
  <2>1. ASSUME NEW k \in 0..MaxExponent PROVE powers[k] = Body(powers)[k]
    <3>1. k = 0 \/ k = 1 \/ k = 2 \/ k = 3 \/ k = 4
      BY DEF MaxExponent
    <3>2. powers[0] = 1 /\ powers[1] = x /\ powers[2] = x * x /\ powers[3] = (x * x) * x
          /\ powers[4] = ((x * x) * x) * x
      BY DEF MaxExponent
    <3>3. Body(powers)[k] = IF k = 0 THEN 1 ELSE powers[k - 1] * x
      OBVIOUS
    <3> HIDE DEF powers, Body
    <3>4. QED BY <3>1, <3>2, <3>3
  <2>2. QED BY <2>1
<1>2. power = Body(power)
  BY <1>1
<1>3. \A k \in 0..MaxExponent : Power(x, k) = power[k]
  BY DEF Power
<1> HIDE DEF power
<1>4. \A k \in 0..MaxExponent : power[k] = IF k = 0 THEN 1 ELSE power[k - 1] * x
  BY <1>2
<1>5. QED BY <1>3, <1>4 DEF MaxExponent

\* A power of a greater number is no lesser one.
LEMMA PowerOrdered ==
  ASSUME NEW x \in Nat, NEW y \in Nat, x <= y, NEW k \in 0..MaxExponent
  PROVE  Power(x, k) \in Nat /\ Power(y, k) \in Nat /\ Power(x, k) <= Power(y, k)
<1> DEFINE Ordered(n) == Power(x, n) \in Nat /\ Power(y, n) \in Nat /\ Power(x, n) <= Power(y, n)
<1>1. Ordered(0)
  BY PowerSteps
<1>2. ASSUME NEW n \in 1..MaxExponent, Ordered(n - 1) PROVE Ordered(n)
  <2>1. Power(x, n) = Power(x, n - 1) * x /\ Power(y, n) = Power(y, n - 1) * y
    BY PowerSteps
  <2>2. \A a, b \in Nat : a <= b => a * x \in Nat /\ b * y \in Nat /\ a * x <= b * y
    <3>1. SUFFICES ASSUME NEW a \in Nat, NEW b \in Nat, a <= b
                   PROVE  a * x \in Nat /\ b * y \in Nat /\ a * x <= b * y
      OBVIOUS
    <3>2. a * x <= b * x /\ b * x <= b * y
      BY <3>1
    <3>3. a * x \in Nat /\ b * x \in Nat /\ b * y \in Nat
      OBVIOUS
    <3>4. QED BY <3>2, <3>3
  <2>3. QED BY <1>2, <2>1, <2>2
<1> HIDE DEF Ordered
<1>3. Ordered(1) /\ Ordered(2) /\ Ordered(3) /\ Ordered(4)
  BY <1>1, <1>2 DEF MaxExponent
<1>4. QED BY <1>1, <1>3 DEF MaxExponent, Ordered

LEMMA PowerPositive ==
  ASSUME NEW x \in Nat \ {0}, NEW k \in 0..MaxExponent
  PROVE  Power(x, k) \in Nat \ {0}
<1>1. Power(1, k) = 1
  <2>1. /\ Power(1, 0) = 1
        /\ \A n \in 1..MaxExponent : Power(1, n) = Power(1, n - 1) * 1
    BY PowerSteps
  <2>2. Power(1, 1) = 1 /\ Power(1, 2) = 1 /\ Power(1, 3) = 1 /\ Power(1, 4) = 1
    BY <2>1 DEF MaxExponent
  <2>3. QED BY <2>1, <2>2 DEF MaxExponent
<1>2. QED BY <1>1, PowerOrdered

\* Rounding up reaches the fraction, by less than one, and keeps the order.
LEMMA CeilBounds ==
  ASSUME NEW num \in Int, NEW den \in Nat \ {0}
  PROVE  /\ CeilTo(1, num, den) \in Int
         /\ num <= CeilTo(1, num, den) * den
         /\ CeilTo(1, num, den) * den < num + den
<1> DEFINE f == FloorTo(1, -num, den)
<1>1. f \in Int /\ f * den <= -num /\ -num < (f + 1) * den
  BY FloorBounds
<1>2. CeilTo(1, num, den) = -f
  BY DEF CeilTo
<1> HIDE DEF f
<1>3. (-f) * den = -(f * den) /\ (f + 1) * den = f * den + den /\ f * den \in Int
  BY <1>1
<1>4. QED BY <1>1, <1>2, <1>3

LEMMA CeilOrdered ==
  ASSUME NEW num \in Int, NEW more \in Int, num <= more, NEW den \in Nat \ {0}
  PROVE  CeilTo(1, num, den) <= CeilTo(1, more, den)
<1> DEFINE a == CeilTo(1, num, den)
           b == CeilTo(1, more, den)
<1>1. a \in Int /\ b \in Int /\ a * den < num + den /\ more <= b * den
  BY CeilBounds
<1> HIDE DEF a, b
<1>2. CASE b + 1 <= a
  <2>1. (b + 1) * den <= a * den
    BY <1>1, <1>2
  <2>2. (b + 1) * den = b * den + den /\ b * den \in Int /\ a * den \in Int
    BY <1>1
  <2>3. QED BY <1>1, <2>1, <2>2
<1>3. QED BY <1>1, <1>2 DEF a, b

\* No price up to a limit has a higher curve than the lesser of the limit and a half.
LEMMA CurveHighest ==
  ASSUME NEW limit \in 1..One - 1, NEW p \in 1..limit
  PROVE  LET top == Lesser(limit, One \div 2)
         IN  p * (One - p) \in Nat /\ top * (One - top) \in Nat
             /\ p * (One - p) <= top * (One - top)
<1> DEFINE half == One \div 2
           top == Lesser(limit, half)
<1>1. One \in Nat /\ half \in Nat /\ 2 * half <= One /\ One <= 2 * half + 1
  BY PriceAssumption
<1> HIDE DEF half
<1>2. /\ top \in Nat /\ top <= One /\ p \in Nat /\ p <= One
      /\ \/ p <= top /\ p + top <= One
         \/ p > top /\ p + top >= One
  BY <1>1 DEF Lesser
<1> HIDE DEF top
<1>3. top * (One - top) - p * (One - p) = (top - p) * (One - top - p)
  BY <1>1, <1>2
<1>4. (top - p) * (One - top - p) >= 0
  <2>1. \A a, b \in Int : (a >= 0 /\ b >= 0) \/ (a <= 0 /\ b <= 0) => a * b >= 0
    OBVIOUS
  <2>2. top - p \in Int /\ One - top - p \in Int
    BY <1>1, <1>2
  <2>3. \/ top - p >= 0 /\ One - top - p >= 0
        \/ top - p <= 0 /\ One - top - p <= 0
    BY <1>1, <1>2
  <2>4. QED BY <2>1, <2>2, <2>3
<1>5. p * (One - p) \in Nat /\ top * (One - top) \in Nat
  BY <1>1, <1>2
<1>6. QED BY <1>3, <1>4, <1>5 DEF top, half

\* What an order costs at most, and that what is booked covers a fill.
LEMMA OrderCostCovered ==
  ASSUME NEW ask \in Int, NEW tick \in Opt(Int), NEW fee \in [rate : Int, exponent : Nat],
         NEW cfg, {cfg.maxSlippage, cfg.maxAsk, cfg.shares, cfg.maxCost} \subseteq Int
  PROVE  CostCovered(cfg, ask, tick, fee)
<1> DEFINE order == Order(cfg, ask, tick, fee)
           limit == order.limit
           shares == order.shares
           den == FeeDen(fee)
           top == Lesser(limit, One \div 2)
           P(p) == Power(p * (One - p), fee.exponent)
<1> SUFFICES ASSUME order # None, NEW price \in 1..limit, NEW filled \in 1..shares
             PROVE  /\ Booked(order, price, filled, fee) <= cfg.maxCost
                    /\ price * filled * den + FeeNum(filled, price, fee)
                         <= Booked(order, price, filled, fee) * den
  BY DEF CostCovered
<1>1. /\ One \in Nat \ {0} /\ RateUnit \in Nat \ {0}
      /\ fee.rate \in 0..RateUnit /\ fee.exponent \in 0..MaxExponent /\ fee.rate \in Nat
      /\ limit \in 1..One - 1 /\ shares \in Nat
      /\ limit * shares + FeeBound(shares, limit, fee) <= cfg.maxCost
  <2> DEFINE first == BuyLimit(ask, cfg.maxSlippage, cfg.maxAsk, tick)
             valid == IF first = None THEN None ELSE BuyLimit(first, 0, cfg.maxAsk, tick)
  <2>1. One \in Nat \ {0} /\ RateUnit \in Nat \ {0} /\ Lot \in Nat \ {0}
    BY PriceAssumption, PricingAssumption
  <2>2. /\ valid # None /\ OrderShares(cfg.shares) # None /\ FeeSupported(fee)
        /\ limit = valid /\ shares = OrderShares(cfg.shares)
        /\ valid * shares + FeeBound(shares, valid, fee) <= cfg.maxCost
    BY DEF Order
  <2>3. shares \in Nat
    BY <2>1, <2>2 DEF OrderShares
  <2>4. first # None /\ valid = first
    <3>1. first # None
      BY <2>2
    <3>2. LimitSound(ask, cfg.maxSlippage, cfg.maxAsk, tick)
      <4>1. ask \in Opt(Int)
        BY DEF Opt
      <4>2. QED BY <4>1, LimitSoundCorrect
    <3>3. QED BY <3>1, <3>2 DEF LimitSound
  <2>5. first \in 1..One - 1
    <3>1. ask \in 1..One - 1
      BY <2>4 DEF BuyLimit
    <3>2. LimitSound(ask, cfg.maxSlippage, cfg.maxAsk, tick)
      <4>1. ask \in Opt(Int)
        BY DEF Opt
      <4>2. QED BY <4>1, LimitSoundCorrect
    <3>3. first \in ask..Lesser(ask + cfg.maxSlippage, cfg.maxAsk) /\ first < One
      BY <2>4, <3>2 DEF LimitSound
    <3> HIDE DEF first
    <3>4. Lesser(ask + cfg.maxSlippage, cfg.maxAsk) \in Int
      BY DEF Lesser
    <3>5. QED BY <2>1, <3>1, <3>3, <3>4
  <2> HIDE DEF order, valid, first
  <2>6. fee.rate \in 0..RateUnit /\ fee.exponent \in 0..MaxExponent /\ fee.rate \in Nat
    BY <2>1, <2>2 DEF FeeSupported
  <2>7. QED BY <2>1, <2>2, <2>3, <2>4, <2>5, <2>6
<1> HIDE DEF order, limit, shares
<1>2. price \in Nat /\ filled \in Nat /\ filled <= shares /\ price <= limit /\ limit \in Nat
  BY <1>1
<1>3. den \in Nat \ {0}
  <2>1. One * One \in Nat \ {0}
    BY <1>1
  <2>2. Power(One * One, fee.exponent) \in Nat \ {0}
    BY <1>1, <2>1, PowerPositive
  <2>3. QED BY <1>1, <2>2 DEF FeeDen
<1>4. P(price) \in Nat /\ P(top) \in Nat /\ P(price) <= P(top)
  <2>1. /\ price * (One - price) \in Nat /\ top * (One - top) \in Nat
        /\ price * (One - price) <= top * (One - top)
    BY <1>1, CurveHighest
  <2>2. QED BY <1>1, <2>1, PowerOrdered
<1> HIDE DEF den, P
<1>5. /\ FeeNum(filled, price, fee) = filled * fee.rate * P(price) * One
      /\ FeeNum(filled, top, fee) = filled * fee.rate * P(top) * One
      /\ FeeNum(shares, top, fee) = shares * fee.rate * P(top) * One
  BY DEF FeeNum, P
<1> HIDE DEF top
<1>6. \A n1, n2, r, q1, q2 \in Nat :
        n1 <= n2 /\ q1 <= q2 => /\ n1 * r * q1 * One \in Nat
                                /\ n2 * r * q2 * One \in Nat
                                /\ n1 * r * q1 * One <= n2 * r * q2 * One
  <2> SUFFICES ASSUME NEW n1 \in Nat, NEW n2 \in Nat, NEW r \in Nat, NEW q1 \in Nat,
                      NEW q2 \in Nat, n1 <= n2, q1 <= q2
               PROVE  /\ n1 * r * q1 * One \in Nat
                      /\ n2 * r * q2 * One \in Nat
                      /\ n1 * r * q1 * One <= n2 * r * q2 * One
    OBVIOUS
  <2>1. \A a, b, c \in Nat : a <= b => a * c \in Nat /\ b * c \in Nat /\ a * c <= b * c
    OBVIOUS
  <2>2. \A a, b, c \in Nat : a <= b => c * a \in Nat /\ c * b \in Nat /\ c * a <= c * b
    OBVIOUS
  <2>3. n1 * r \in Nat /\ n2 * r \in Nat /\ n1 * r <= n2 * r
    BY <2>1
  <2>4. n1 * r * q1 \in Nat /\ n2 * r * q1 \in Nat /\ n1 * r * q1 <= n2 * r * q1
    BY <2>1, <2>3
  <2>5. n2 * r * q2 \in Nat /\ n2 * r * q1 <= n2 * r * q2
    BY <2>2, <2>3
  <2>6. n1 * r * q1 <= n2 * r * q2
    BY <2>4, <2>5
  <2> DEFINE u == n1 * r * q1
             v == n2 * r * q2
  <2>7. u \in Nat /\ v \in Nat /\ u <= v
    BY <2>4, <2>5, <2>6
  <2> HIDE DEF u, v
  <2>8. u * One \in Nat /\ v * One \in Nat /\ u * One <= v * One
    BY <1>1, <2>1, <2>7
  <2>9. QED BY <2>8 DEF u, v
<1>7. /\ FeeNum(filled, price, fee) \in Nat
      /\ FeeNum(filled, top, fee) \in Nat
      /\ FeeNum(shares, top, fee) \in Nat
      /\ FeeNum(filled, price, fee) <= FeeNum(filled, top, fee)
      /\ FeeNum(filled, top, fee) <= FeeNum(shares, top, fee)
  BY <1>1, <1>2, <1>4, <1>5, <1>6
<1> DEFINE bound == FeeBound(filled, limit, fee)
           whole == FeeBound(shares, limit, fee)
<1>8. bound = CeilTo(1, FeeNum(filled, top, fee), den)
      /\ whole = CeilTo(1, FeeNum(shares, top, fee), den)
  BY DEF FeeBound, top, den
<1>9. /\ bound \in Int /\ whole \in Int /\ bound <= whole
      /\ FeeNum(filled, top, fee) <= bound * den
  <2> DEFINE x == FeeNum(filled, top, fee)
             y == FeeNum(shares, top, fee)
  <2>1. x \in Int /\ y \in Int /\ x <= y
    BY <1>7
  <2>2. bound = CeilTo(1, x, den) /\ whole = CeilTo(1, y, den)
    BY <1>8
  <2> HIDE DEF x, y, bound, whole
  <2>3. bound \in Int /\ whole \in Int /\ x <= bound * den
    BY <1>3, <2>1, <2>2, CeilBounds
  <2>4. bound <= whole
    BY <1>3, <2>1, <2>2, CeilOrdered
  <2>5. QED BY <2>3, <2>4 DEF x
<1>10. Booked(order, price, filled, fee) = price * filled + bound
  BY DEF Booked, limit
<1> HIDE DEF bound, whole
<1>11. price * filled <= limit * shares
  <2>1. price * filled <= limit * filled /\ limit * filled <= limit * shares
    BY <1>1, <1>2
  <2>2. price * filled \in Int /\ limit * filled \in Int /\ limit * shares \in Int
    BY <1>1, <1>2
  <2>3. QED BY <2>1, <2>2
<1>12. Booked(order, price, filled, fee) <= cfg.maxCost
  <2>1. price * filled \in Int /\ limit * shares \in Int /\ cfg.maxCost \in Int
    BY <1>1, <1>2
  <2>2. limit * shares + whole <= cfg.maxCost
    BY <1>1 DEF whole
  <2>3. QED BY <1>9, <1>10, <1>11, <2>1, <2>2
<1>13. price * filled * den + FeeNum(filled, price, fee)
         <= Booked(order, price, filled, fee) * den
  <2>1. price * filled * den \in Int /\ bound * den \in Int /\ price * filled \in Int
    BY <1>2, <1>3, <1>9
  <2>2. (price * filled + bound) * den = price * filled * den + bound * den
    BY <1>3, <1>9, <2>1
  <2>3. FeeNum(filled, price, fee) <= bound * den
    BY <1>7, <1>9, <2>1
  <2>4. QED BY <1>7, <1>10, <2>1, <2>2, <2>3
<1>14. QED BY <1>12, <1>13

\* An order costs no more than the cap, wherever below its limit it executes, and
\* what is booked for a fill covers it, for every fee the venue may report
\* (place_fak_buy_raw, fee_upper_bound and parse_buy_response, trading.rs).
THEOREM CostsCoveredCorrect == InputSpec => []CostsCovered
<1>1. InputInit => CostsCovered
  BY OrderCostCovered, InputsAssumption DEF InputInit, CostsCovered, Is
<1>2. CostsCovered /\ [UNCHANGED input]_input => CostsCovered'
  BY DEF CostsCovered, Is
<1>3. QED BY <1>1, <1>2, PTL DEF InputSpec

-----------------------------------------------------------------------------
(* Fair values                                                             *)

LEMMA DeltaBucketInGrid ==
  ASSUME NEW m \in ModelType, Valid(m), NEW delta \in Int
  PROVE  DeltaBucket(m, delta) \in DOMAIN m.centers
<1> DEFINE E == {i \in DOMAIN m.edges : m.edges[i] <= delta}
<1>1. m.edges \in Seq(Int) /\ m.centers \in Seq(Int) /\ Len(m.centers) = Len(m.edges) + 1
  BY DEF ModelType, Valid, ShapeValid
<1>2. IsFiniteSet(1..Len(m.edges)) /\ Cardinality(1..Len(m.edges)) = Len(m.edges)
  <2>1. Len(m.edges) \in Nat
    BY <1>1
  <2> QED  BY <2>1, FS_Interval
<1>3. E \subseteq 1..Len(m.edges)
  BY <1>1
<1>4. IsFiniteSet(E) /\ Cardinality(E) <= Len(m.edges)
  BY <1>2, <1>3, FS_Subset
<1>5. Cardinality(E) \in Nat
  BY <1>4, FS_CardinalityType
<1> HIDE DEF E
<1>6. 1 + Cardinality(E) \in 1..Len(m.centers)
  BY <1>1, <1>4, <1>5
<1> QED  BY <1>1, <1>6 DEF DeltaBucket, E

LEMMA InterpolateFraction ==
  ASSUME NEW m \in ModelType, Valid(m), NEW s \in DOMAIN m.grid,
         NEW i \in DOMAIN m.centers, NEW delta \in Int,
         Interpolate(m, m.grid[s], i, delta) # None
  PROVE  \E a \in Int, d \in Nat \ {0} : Interpolate(m, m.grid[s], i, delta) = <<a, d>>
<1> DEFINE row == m.grid[s]
           far == IF delta >= m.centers[i] THEN i + 1 ELSE i - 1
           lo == Lesser(i, far)
           hi == Greater(i, far)
           width == m.centers[hi] - m.centers[lo]
           along == delta - m.centers[lo]
<1>1. m.centers \in Seq(Int) /\ DOMAIN m.centers = 1..Len(m.centers)
  BY DEF ModelType
<1>2. row \in Seq([p : Int, n : Int, w : Int, low : BOOLEAN]) /\ Len(row) = Len(m.centers)
  <2>1. m.grid \in Seq(Seq([p : Int, n : Int, w : Int, low : BOOLEAN]))
    BY DEF ModelType
  <2> QED  BY <2>1 DEF Valid, ShapeValid
<1> HIDE DEF row
<1>3. \A j \in DOMAIN m.centers : row[j].p \in Int /\ m.centers[j] \in Int
  <2>1. \A j \in DOMAIN m.centers : m.centers[j] \in Int
    BY <1>1
  <2>2. \A j \in 1..Len(row) : row[j] \in [p : Int, n : Int, w : Int, low : BOOLEAN]
    <3> DEFINE C == [p : Int, n : Int, w : Int, low : BOOLEAN]
    <3>1. row \in Seq(C)
      BY <1>2
    <3> HIDE DEF C
    <3>2. \A j \in 1..Len(row) : row[j] \in C
      BY <3>1
    <3> QED  BY <3>2 DEF C
  <2> QED  BY <1>1, <1>2, <2>1, <2>2
<1>4. CASE delta = m.centers[i] \/ far \notin DOMAIN m.centers
  <2>1. Interpolate(m, row, i, delta) = <<row[i].p, 1>>
    BY <1>4 DEF Interpolate
  <2> QED  BY <1>3, <2>1 DEF row
<1>5. CASE ~(delta = m.centers[i] \/ far \notin DOMAIN m.centers)
  <2>1. lo \in DOMAIN m.centers /\ hi = lo + 1 /\ hi \in DOMAIN m.centers
    BY <1>1, <1>5 DEF Lesser, Greater
  <2>2. m.centers[lo] < m.centers[hi]
    <3>1. \A j \in 1..Len(m.centers) - 1 : m.centers[j] < m.centers[j + 1]
      BY DEF Valid, ShapeValid, Increasing
    <3> QED  BY <1>1, <2>1, <3>1
  <2>3. width \in Nat \ {0} /\ along \in Int
    BY <1>3, <2>1, <2>2
  <2>4. Interpolate(m, row, i, delta)
          = <<row[lo].p * (width - along) + row[hi].p * along, width>>
    BY <1>5 DEF Interpolate, row
  <2>5. row[lo].p * (width - along) + row[hi].p * along \in Int
    BY <1>3, <2>1, <2>3
  <2> QED  BY <2>3, <2>4, <2>5 DEF row
<1> QED  BY <1>4, <1>5

\* The two sides have complementary fair values, or none has one.
LEMMA FairValuesComplement ==
  ASSUME NEW m \in ModelType, Valid(m), NEW delta \in Int, NEW secs \in Int,
         FairValueOf(m, "Up", delta, secs) # None
  PROVE  \E a \in Int, d \in Nat \ {0} :
           /\ FairValueOf(m, "Up", delta, secs) = <<a, d>>
           /\ FairValueOf(m, "Down", delta, secs) = <<One * d - a, d>>
<1> DEFINE s == SecsBucket(m, secs)
           i == DeltaBucket(m, delta)
           up == Interpolate(m, m.grid[s], i, delta)
<1>1. s # None /\ up # None /\ FairValueOf(m, "Up", delta, secs) = up
      /\ FairValueOf(m, "Down", delta, secs) = <<One * up[2] - up[1], up[2]>>
  BY DEF FairValueOf
<1>2. s \in DOMAIN m.grid
  <2>1. m.secs \in Seq(Int) /\ m.grid \in Seq(Seq([p : Int, n : Int, w : Int, low : BOOLEAN]))
        /\ Len(m.grid) = Len(m.secs) - 1
    BY DEF ModelType, Valid, ShapeValid
  <2>2. s \in 1..Len(m.secs) - 1
    BY <1>1 DEF SecsBucket
  <2> QED  BY <2>1, <2>2
<1>3. i \in DOMAIN m.centers
  BY DeltaBucketInGrid
<1>4. \E a \in Int, d \in Nat \ {0} : up = <<a, d>>
  BY <1>1, <1>2, <1>3, InterpolateFraction
<1> QED  BY <1>1, <1>4

\* The bucket of a delta is the one its edges enclose (delta_bucket).
LEMMA DeltaBucketEncloses ==
  ASSUME NEW m \in ModelType, Valid(m), NEW delta \in Int
  PROVE  LET i == DeltaBucket(m, delta)
         IN  /\ i > 1 => m.edges[i - 1] <= delta
             /\ i <= Len(m.edges) => delta < m.edges[i]
<1> DEFINE E == {i \in DOMAIN m.edges : m.edges[i] <= delta}
           n == Len(m.edges)
           k == Cardinality(E)
<1>1. m.edges \in Seq(Int) /\ DOMAIN m.edges = 1..n /\ n \in Nat
      /\ \A i \in 1..n - 1 : m.edges[i] < m.edges[i + 1]
  BY DEF ModelType, Valid, ShapeValid, Increasing
<1>2. \A i, j \in 1..n : i < j => m.edges[i] < m.edges[j]
  <2>1. \A i \in 1..n : m.edges[i] \in Int
    BY <1>1
  <2> HIDE DEF n
  <2>2. QED BY <1>1, <2>1, StrictByNeighbours
<1>3. \A i \in 1..n : m.edges[i] \in Int
  BY <1>1
<1>4. E \subseteq 1..n /\ \A i \in 1..n : i \in E <=> m.edges[i] <= delta
  BY <1>1
<1> HIDE DEF E, n
<1>5. IsFiniteSet(1..n) /\ Cardinality(1..n) = n
  <2>1. n \in Nat
    BY <1>1
  <2>2. QED BY <2>1, FS_Interval
<1>6. IsFiniteSet(E) /\ k \in Nat /\ k <= n
  BY <1>4, <1>5, FS_Subset, FS_CardinalityType
<1>7. \A j \in 1..n : j \in E => j <= k
  <2> SUFFICES ASSUME NEW j \in 1..n, j \in E PROVE j <= k
    OBVIOUS
  <2>1. 1..j \subseteq E
    <3>1. ASSUME NEW i \in 1..j PROVE i \in E
      <4>1. i \in 1..n /\ (i = j \/ i < j)
        BY <1>1
      <4>2. m.edges[i] <= m.edges[j] /\ m.edges[i] \in Int /\ m.edges[j] \in Int
        BY <4>1, <1>2, <1>3
      <4>3. QED BY <4>1, <4>2, <1>4
    <3>2. QED BY <3>1
  <2>2. Cardinality(1..j) = j
    BY FS_Interval
  <2>3. QED BY <1>6, <2>1, <2>2, FS_Subset
<1>8. \A j \in 1..n : j \notin E => k <= j - 1
  <2> SUFFICES ASSUME NEW j \in 1..n, j \notin E PROVE k <= j - 1
    OBVIOUS
  <2>1. E \subseteq 1..j - 1
    <3>1. ASSUME NEW i \in E PROVE i \in 1..j - 1
      <4>1. i \in 1..n /\ m.edges[i] <= delta /\ ~(m.edges[j] <= delta)
        BY <1>4
      <4>2. i # j
        BY <4>1
      <4>3. ~(j < i)
        <5>1. m.edges[i] \in Int /\ m.edges[j] \in Int /\ (j < i => m.edges[j] < m.edges[i])
          BY <4>1, <1>2, <1>3
        <5>2. QED BY <4>1, <5>1
      <4>4. i \in Nat /\ j \in Nat /\ 1 <= i
        BY <1>1, <4>1
      <4>5. QED BY <4>2, <4>3, <4>4
    <3>2. QED BY <3>1
  <2>2. IsFiniteSet(1..j - 1) /\ Cardinality(1..j - 1) = j - 1
    BY FS_Interval
  <2>3. Cardinality(E) <= Cardinality(1..j - 1)
    BY <2>1, <2>2, FS_Subset
  <2>4. QED BY <2>2, <2>3
<1>9. DeltaBucket(m, delta) = 1 + k
  BY DEF DeltaBucket, E
<1> HIDE DEF k
<1>10. k >= 1 => m.edges[k] <= delta
  <2>1. CASE k >= 1
    <3>1. k \in 1..n
      BY <1>1, <1>6, <2>1
    <3>2. k \in E
      BY <1>6, <1>8, <3>1
    <3>3. QED BY <3>1, <3>2, <1>4
  <2>2. QED BY <2>1
<1>11. k + 1 <= n => delta < m.edges[k + 1]
  <2>1. CASE k + 1 <= n
    <3>1. k + 1 \in 1..n /\ k + 1 \notin E
      BY <1>1, <1>6, <1>7, <2>1
    <3>2. QED BY <3>1, <1>3, <1>4
  <2>2. QED BY <2>1
<1>12. QED BY <1>6, <1>9, <1>10, <1>11, <1>1 DEF n

\* A fair value is that of a centre, for its delta or beyond the outermost centre...
AtCenter(m, row, delta, up, j) ==
  /\ j \in 1..Len(m.centers)
  /\ up = <<row[j].p, 1>>
  /\ \/ delta = m.centers[j]
     \/ j = 1 /\ delta < m.centers[j]
     \/ j = Len(m.centers) /\ m.centers[j] < delta

\* ... or lies on the line between two neighbouring ones.
Between(m, row, delta, up, j) ==
  /\ j \in 1..Len(m.centers) - 1
  /\ m.centers[j] < delta /\ delta < m.centers[j + 1]
  /\ up = <<row[j].p * (m.centers[j + 1] - delta) + row[j + 1].p * (delta - m.centers[j]),
            m.centers[j + 1] - m.centers[j]>>

\* The centres and the probabilities of a row of a model that passed validation.
LEMMA ValidRow ==
  ASSUME NEW m \in ModelType, Valid(m), NEW s \in DOMAIN m.grid
  PROVE  LET n == Len(m.centers) IN
         /\ n \in Nat /\ DOMAIN m.centers = 1..n
         /\ \A j \in 1..n : m.centers[j] \in Int /\ m.grid[s][j].p \in 0..One
         /\ \A i, j \in 1..n : i < j => m.centers[i] < m.centers[j]
         /\ \A i, j \in 1..n : i <= j => m.grid[s][i].p <= m.grid[s][j].p
<1> DEFINE C == [p : Int, n : Int, w : Int, low : BOOLEAN]
           n == Len(m.centers)
           row == m.grid[s]
           p == [j \in 1..n |-> row[j].p]
<1>1. m.centers \in Seq(Int) /\ m.grid \in Seq(Seq(C)) /\ One \in Nat
  BY PriceAssumption DEF ModelType
<1>2. n \in Nat /\ DOMAIN m.centers = 1..n /\ \A j \in 1..n : m.centers[j] \in Int
  BY <1>1
<1>3. row \in Seq(C) /\ DOMAIN row = 1..n
  <2> HIDE DEF C
  <2>1. row \in Seq(C)
    BY <1>1
  <2>2. Len(row) = n
    BY DEF Valid, ShapeValid
  <2>3. QED BY <2>1, <2>2
<1>4. /\ \A j \in 1..n - 1 : m.centers[j] < m.centers[j + 1]
      /\ \A j \in 1..n : CellValid(row[j])
      /\ \A j \in 1..n - 1 : row[j].p <= row[j + 1].p
  <2>1. Len(row) = n
    BY DEF Valid, ShapeValid
  <2>2. QED BY <1>3, <2>1 DEF Valid, ShapeValid, Increasing, NotFalling
<1> HIDE DEF n, row
<1>5. \A j \in 1..n : row[j].p \in 0..One
  BY <1>4 DEF CellValid
<1>6. \A i, j \in 1..n : i < j => m.centers[i] < m.centers[j]
  BY <1>2, <1>4, StrictByNeighbours
<1>7. \A i, j \in 1..n : i <= j => row[i].p <= row[j].p
  <2>1. \A j \in 1..n : p[j] \in Int
    BY <1>1, <1>5
  <2>2. \A j \in 1..n - 1 : p[j] <= p[j + 1]
    BY <1>2, <1>4
  <2>3. \A i, j \in 1..n : i <= j => p[i] <= p[j]
    <3> HIDE DEF p
    <3>1. QED BY <1>2, <2>1, <2>2, OrderedByNeighbours
  <2>4. QED BY <2>3
<1>8. QED BY <1>2, <1>5, <1>6, <1>7 DEF n, row

\* Interpolation gives one or the other (interpolate).
LEMMA InterpolatePlace ==
  ASSUME NEW m \in ModelType, Valid(m), NEW s \in DOMAIN m.grid, NEW delta \in Int,
         Interpolate(m, m.grid[s], DeltaBucket(m, delta), delta) # None
  PROVE  LET up == Interpolate(m, m.grid[s], DeltaBucket(m, delta), delta)
         IN  \E j \in Nat : \/ AtCenter(m, m.grid[s], delta, up, j)
                            \/ Between(m, m.grid[s], delta, up, j)
<1> DEFINE n == Len(m.centers)
           row == m.grid[s]
           i == DeltaBucket(m, delta)
           up == Interpolate(m, row, i, delta)
           far == IF delta >= m.centers[i] THEN i + 1 ELSE i - 1
<1>1. /\ n \in Nat /\ DOMAIN m.centers = 1..n
      /\ \A j \in 1..n : m.centers[j] \in Int /\ row[j].p \in 0..One
  BY ValidRow
<1>2. i \in 1..n
  BY <1>1, DeltaBucketInGrid
<1>3. /\ i > 1 => m.edges[i - 1] <= delta
      /\ i <= Len(m.edges) => delta < m.edges[i]
  BY DeltaBucketEncloses
<1>4. /\ m.edges \in Seq(Int)
      /\ n = Len(m.edges) + 1
      /\ \A j \in 1..n : InBucket(m, j)
  BY <1>1 DEF Valid, ShapeValid, ModelType
<1>5. up # None
  OBVIOUS
<1> HIDE DEF i, row
<1>6. CASE delta = m.centers[i] \/ far \notin 1..n
  <2>1. up = <<row[i].p, 1>>
    BY <1>1, <1>6 DEF Interpolate
  <2>2. \/ delta = m.centers[i]
        \/ i = 1 /\ delta < m.centers[i]
        \/ i = n /\ m.centers[i] < delta
    BY <1>1, <1>2, <1>6
  <2> HIDE DEF up
  <2>3. AtCenter(m, row, delta, up, i)
    BY <1>2, <2>1, <2>2 DEF AtCenter
  <2>4. QED BY <1>2, <2>3 DEF up, i, row
<1>7. CASE delta # m.centers[i] /\ far \in 1..n /\ delta >= m.centers[i]
  <2>1. Lesser(i, far) = i /\ Greater(i, far) = i + 1 /\ i + 1 \in 1..n
    BY <1>2, <1>7 DEF Lesser, Greater
  <2>2. up = <<row[i].p * ((m.centers[i + 1] - m.centers[i]) - (delta - m.centers[i]))
                 + row[i + 1].p * (delta - m.centers[i]), m.centers[i + 1] - m.centers[i]>>
    BY <1>1, <1>5, <1>7, <2>1 DEF Interpolate
  <2>3. (m.centers[i + 1] - m.centers[i]) - (delta - m.centers[i]) = m.centers[i + 1] - delta
    BY <1>1, <1>2, <2>1
  <2>4. m.centers[i] < delta /\ delta < m.centers[i + 1]
    <3>1. delta < m.edges[i] /\ m.edges[i] \in Int
      BY <1>2, <1>3, <1>4, <2>1
    <3>2. m.centers[i + 1] >= m.edges[(i + 1) - 1]
      BY <1>4, <2>1, <1>2 DEF InBucket
    <3>3. (i + 1) - 1 = i
      BY <1>2
    <3>4. delta \in Int /\ m.centers[i] \in Int /\ m.centers[i + 1] \in Int
      BY <1>1, <1>2, <2>1
    <3> HIDE DEF n, far
    <3>5. QED BY <1>7, <3>1, <3>2, <3>3, <3>4
  <2> HIDE DEF up
  <2>5. Between(m, row, delta, up, i)
    BY <1>2, <2>1, <2>2, <2>3, <2>4 DEF Between
  <2>6. QED BY <1>2, <2>5 DEF up, i, row
<1>8. CASE delta # m.centers[i] /\ far \in 1..n /\ delta < m.centers[i]
  <2>1. Lesser(i, far) = i - 1 /\ Greater(i, far) = i /\ i - 1 \in 1..n /\ (i - 1) + 1 = i
    BY <1>1, <1>2, <1>8 DEF Lesser, Greater
  <2>2. up = <<row[i - 1].p * ((m.centers[i] - m.centers[i - 1]) - (delta - m.centers[i - 1]))
                 + row[i].p * (delta - m.centers[i - 1]), m.centers[i] - m.centers[i - 1]>>
    BY <1>1, <1>5, <1>8, <2>1 DEF Interpolate
  <2>3. (m.centers[i] - m.centers[i - 1]) - (delta - m.centers[i - 1]) = m.centers[i] - delta
    BY <1>1, <1>2, <2>1
  <2>4. m.centers[i - 1] < delta /\ delta < m.centers[i]
    <3>1. m.edges[i - 1] <= delta /\ m.edges[i - 1] \in Int
      BY <1>2, <1>3, <1>4, <2>1
    <3>2. m.centers[i - 1] < m.edges[i - 1]
      BY <1>4, <2>1, <1>2 DEF InBucket
    <3>3. delta \in Int /\ m.centers[i - 1] \in Int
      BY <1>1, <2>1
    <3> HIDE DEF n, far
    <3>4. QED BY <1>8, <3>1, <3>2, <3>3
  <2> HIDE DEF up
  <2> DEFINE j == i - 1
  <2>5. Between(m, row, delta, up, j)
    <3>1. j \in 1..n - 1 /\ j + 1 = i
      BY <1>1, <1>2, <2>1
    <3>2. QED BY <3>1, <2>2, <2>3, <2>4 DEF Between
  <2>6. j \in Nat
    BY <2>1
  <2> HIDE DEF j
  <2>7. QED BY <2>5, <2>6 DEF up, i, row
<1>9. QED BY <1>1, <1>2, <1>6, <1>7, <1>8

\* A fraction that lies between two whole numbers.
LiesIn(up, low, high) ==
  \E num \in Int, den \in Nat \ {0} :
    up = <<num, den>> /\ low * den <= num /\ num <= high * den

\* A fraction at most a whole number is at most one that is at least that number.
LEMMA FractionsOrdered ==
  ASSUME NEW num1 \in Int, NEW den1 \in Nat \ {0}, NEW num2 \in Int, NEW den2 \in Nat \ {0},
         NEW p \in Int, num1 <= p * den1, p * den2 <= num2
  PROVE  num1 * den2 <= num2 * den1
<1>1. num1 * den2 <= (p * den1) * den2
  OBVIOUS
<1>2. (p * den2) * den1 <= num2 * den1
  OBVIOUS
<1>3. (p * den1) * den2 = (p * den2) * den1
  OBVIOUS
<1>4. num1 * den2 \in Int /\ (p * den1) * den2 \in Int /\ num2 * den1 \in Int
  OBVIOUS
<1>5. QED BY <1>1, <1>2, <1>3, <1>4

LEMMA OrderedIfApart ==
  ASSUME NEW a, NEW b, NEW low \in Int, NEW p \in Int, NEW q \in Int, NEW high \in Int,
         LiesIn(a, low, p), LiesIn(b, q, high), p <= q
  PROVE  AtMost(a, b)
<1>1. PICK n1 \in Int, d1 \in Nat \ {0} : a = <<n1, d1>> /\ n1 <= p * d1
  BY DEF LiesIn
<1>2. PICK n2 \in Int, d2 \in Nat \ {0} : b = <<n2, d2>> /\ q * d2 <= n2
  BY DEF LiesIn
<1>3. p * d2 <= q * d2 /\ p * d2 \in Int /\ q * d2 \in Int
  OBVIOUS
<1>4. p * d2 <= n2
  BY <1>2, <1>3
<1>5. n1 * d2 <= n2 * d1
  BY <1>1, <1>4, FractionsOrdered
<1>6. QED BY <1>1, <1>2, <1>5 DEF AtMost

\* A mean of two numbers lies between them, and grows with the weight of the greater.
LEMMA MixBounds ==
  ASSUME NEW a \in Int, NEW b \in Int, a <= b, NEW x \in Nat, NEW y \in Nat
  PROVE  a * (x + y) <= a * x + b * y /\ a * x + b * y <= b * (x + y)
<1>1. a * (x + y) = a * x + a * y /\ b * (x + y) = b * x + b * y
  OBVIOUS
<1>2. a * y <= b * y /\ a * x <= b * x
  OBVIOUS
<1>3. a * x \in Int /\ a * y \in Int /\ b * x \in Int /\ b * y \in Int
  OBVIOUS
<1> QED BY <1>1, <1>2, <1>3

LEMMA MixGrows ==
  ASSUME NEW a \in Int, NEW b \in Int, a <= b, NEW x \in Int, NEW y \in Int,
         NEW d \in Int, NEW e \in Int, d <= e
  PROVE  a * (y - d) + b * (d - x) <= a * (y - e) + b * (e - x)
<1>1. (b - a) * d <= (b - a) * e
  OBVIOUS
<1>2. a * (y - d) + b * (d - x) = a * y - b * x + (b - a) * d
  OBVIOUS
<1>3. a * (y - e) + b * (e - x) = a * y - b * x + (b - a) * e
  OBVIOUS
<1>4. a * y - b * x \in Int /\ (b - a) * d \in Int /\ (b - a) * e \in Int
  OBVIOUS
<1> QED BY <1>1, <1>2, <1>3, <1>4

\* The value at or between centres lies between their probabilities.
LEMMA PlaceWithin ==
  ASSUME NEW m \in ModelType, Valid(m), NEW s \in DOMAIN m.grid, NEW delta \in Int,
         NEW up, NEW j \in Nat
  PROVE  /\ AtCenter(m, m.grid[s], delta, up, j) => LiesIn(up, m.grid[s][j].p, m.grid[s][j].p)
         /\ Between(m, m.grid[s], delta, up, j) =>
              LiesIn(up, m.grid[s][j].p, m.grid[s][j + 1].p)
<1> DEFINE row == m.grid[s]
           n == Len(m.centers)
<1>1. /\ n \in Nat
      /\ \A i \in 1..n : m.centers[i] \in Int /\ row[i].p \in Int
      /\ \A i, k \in 1..n : i <= k => row[i].p <= row[k].p
  <2>1. One \in Nat
    BY PriceAssumption
  <2>2. /\ n \in Nat
        /\ \A i \in 1..n : m.centers[i] \in Int /\ row[i].p \in 0..One
    BY ValidRow
  <2>3. \A i, k \in 1..n : i <= k => row[i].p <= row[k].p
    BY ValidRow
  <2> HIDE DEF row, n
  <2>4. \A i \in 1..n : row[i].p \in Int
    BY <2>1, <2>2
  <2>5. QED BY <2>2, <2>3, <2>4
<1> HIDE DEF row
<1>2. ASSUME AtCenter(m, row, delta, up, j) PROVE LiesIn(up, row[j].p, row[j].p)
  <2>1. up = <<row[j].p, 1>> /\ row[j].p \in Int
    BY <1>1, <1>2 DEF AtCenter
  <2>2. row[j].p * 1 <= row[j].p /\ row[j].p <= row[j].p * 1 /\ 1 \in Nat \ {0}
    BY <2>1
  <2>3. QED BY <2>1, <2>2 DEF LiesIn
<1>3. ASSUME Between(m, row, delta, up, j) PROVE LiesIn(up, row[j].p, row[j + 1].p)
  <2> DEFINE a == row[j].p
             b == row[j + 1].p
             x == m.centers[j + 1] - delta
             y == delta - m.centers[j]
  <2>1. /\ j \in 1..n /\ j + 1 \in 1..n /\ j <= j + 1
        /\ m.centers[j] < delta /\ delta < m.centers[j + 1]
        /\ up = <<a * x + b * y, m.centers[j + 1] - m.centers[j]>>
    BY <1>1, <1>3 DEF Between
  <2>2. a \in Int /\ b \in Int /\ a <= b
    BY <1>1, <2>1
  <2>3. x \in Nat \ {0} /\ y \in Nat \ {0} /\ x + y = m.centers[j + 1] - m.centers[j]
    <3>1. m.centers[j] \in Int /\ m.centers[j + 1] \in Int
      BY <1>1, <2>1
    <3>2. m.centers[j] < delta /\ delta < m.centers[j + 1]
      BY <2>1
    <3> HIDE DEF n, a, b
    <3>3. QED BY <3>1, <3>2
  <2> HIDE DEF a, b, x, y
  <2>4. a * (x + y) <= a * x + b * y /\ a * x + b * y <= b * (x + y)
    BY <2>2, <2>3, MixBounds
  <2>5. x + y \in Nat \ {0} /\ a * x + b * y \in Int /\ up = <<a * x + b * y, x + y>>
    BY <2>1, <2>2, <2>3
  <2>6. QED BY <2>4, <2>5 DEF LiesIn, a, b
<1>4. QED BY <1>2, <1>3 DEF row

\* Later deltas have no lesser value, wherever the two lie.
LEMMA PlacesOrdered ==
  ASSUME NEW m \in ModelType, Valid(m), NEW s \in DOMAIN m.grid,
         NEW d \in Int, NEW e \in Int, d <= e, NEW a, NEW b, NEW i \in Nat, NEW j \in Nat,
         AtCenter(m, m.grid[s], d, a, i) \/ Between(m, m.grid[s], d, a, i),
         AtCenter(m, m.grid[s], e, b, j) \/ Between(m, m.grid[s], e, b, j)
  PROVE  AtMost(a, b)
<1> DEFINE row == m.grid[s]
           n == Len(m.centers)
           c == m.centers
<1>1. /\ n \in Nat
      /\ \A k \in 1..n : c[k] \in Int /\ row[k].p \in Int
      /\ \A k, l \in 1..n : k < l => c[k] < c[l]
      /\ \A k, l \in 1..n : k <= l => row[k].p <= row[l].p
  BY ValidRow, PriceAssumption
<1>2. /\ AtCenter(m, row, d, a, i) => LiesIn(a, row[i].p, row[i].p)
      /\ AtCenter(m, row, e, b, j) => LiesIn(b, row[j].p, row[j].p)
      /\ Between(m, row, d, a, i) => LiesIn(a, row[i].p, row[i + 1].p)
      /\ Between(m, row, e, b, j) => LiesIn(b, row[j].p, row[j + 1].p)
  BY PlaceWithin
<1> HIDE DEF row
<1>3. CASE AtCenter(m, row, d, a, i) /\ AtCenter(m, row, e, b, j)
  <2>1. i \in 1..n /\ j \in 1..n
    BY <1>3 DEF AtCenter
  <2>2. ~(j < i)
    BY <1>1, <1>3, <2>1 DEF AtCenter
  <2>3. row[i].p <= row[j].p
    BY <1>1, <2>1, <2>2
  <2>4. QED BY <1>1, <1>2, <1>3, <2>1, <2>3, OrderedIfApart
<1>4. CASE AtCenter(m, row, d, a, i) /\ Between(m, row, e, b, j)
  <2>1. i \in 1..n /\ j \in 1..n /\ j + 1 \in 1..n
    BY <1>1, <1>4 DEF AtCenter, Between
  <2>2. i <= j
    <3>1. /\ c[i] \in Int /\ c[j + 1] \in Int
          /\ j + 1 < i => c[j + 1] < c[i]
      BY <1>1, <2>1
    <3>2. /\ e < c[j + 1]
          /\ d = c[i] \/ i = 1 \/ c[i] < d
      BY <1>4 DEF AtCenter, Between
    <3>3. QED BY <2>1, <3>1, <3>2
  <2>3. row[i].p <= row[j].p
    BY <1>1, <2>1, <2>2
  <2>4. QED BY <1>1, <1>2, <1>4, <2>1, <2>3, OrderedIfApart
<1>5. CASE Between(m, row, d, a, i) /\ AtCenter(m, row, e, b, j)
  <2>1. i \in 1..n /\ i + 1 \in 1..n /\ j \in 1..n
    BY <1>1, <1>5 DEF AtCenter, Between
  <2>2. ~(j < i) /\ i # j
    <3>1. /\ c[i] \in Int /\ c[j] \in Int
          /\ j < i => c[j] < c[i]
      BY <1>1, <2>1
    <3>2. /\ c[i] < d
          /\ e = c[j] \/ (j = 1 /\ e < c[j]) \/ (j = n /\ c[j] < e)
      BY <1>5 DEF AtCenter, Between
    <3> HIDE DEF n, c
    <3>3. i < n /\ i >= 1
      BY <1>5, <1>1 DEF Between, n
    <3>4. QED BY <2>1, <3>1, <3>2, <3>3
  <2>3. row[i + 1].p <= row[j].p
    BY <1>1, <2>1, <2>2
  <2>4. QED BY <1>1, <1>2, <1>5, <2>1, <2>3, OrderedIfApart
<1>6. CASE Between(m, row, d, a, i) /\ Between(m, row, e, b, j)
  <2>1. i \in 1..n /\ i + 1 \in 1..n /\ j \in 1..n /\ j + 1 \in 1..n
    <3>1. n \in Nat /\ i \in 1..n - 1 /\ j \in 1..n - 1
      BY <1>1, <1>6 DEF Between
    <3>2. QED BY <3>1
  <2>2. i <= j
    <3>1. /\ c[i] \in Int /\ c[j + 1] \in Int
          /\ j + 1 < i => c[j + 1] < c[i]
      BY <1>1, <2>1
    <3>2. e < c[j + 1] /\ c[i] < d
      BY <1>6 DEF Between
    <3>3. QED BY <2>1, <3>1, <3>2
  <2>3. CASE i = j
    <3> DEFINE p == row[i].p
               q == row[i + 1].p
               x == c[i]
               y == c[i + 1]
    <3>1. a = <<p * (y - d) + q * (d - x), y - x>> /\ b = <<p * (y - e) + q * (e - x), y - x>>
          /\ x < d /\ d < y
      BY <1>6, <2>3 DEF Between
    <3>2. p \in Int /\ q \in Int /\ p <= q /\ x \in Int /\ y \in Int
      <4>1. p \in Int /\ q \in Int /\ x \in Int /\ y \in Int
        BY <1>1, <2>1
      <4>2. i <= i + 1
        BY <2>1
      <4>3. p <= q
        BY <1>1, <2>1, <4>2
      <4>4. QED BY <4>1, <4>3
    <3> HIDE DEF p, q, x, y
    <3>3. p * (y - d) + q * (d - x) <= p * (y - e) + q * (e - x)
      BY <3>2, MixGrows
    <3>4. \A u, v \in Int, w \in Nat : u <= v => u * w <= v * w
      OBVIOUS
    <3>5. (p * (y - d) + q * (d - x)) * (y - x) <= (p * (y - e) + q * (e - x)) * (y - x)
      <4>1. /\ p * (y - d) + q * (d - x) \in Int
            /\ p * (y - e) + q * (e - x) \in Int
            /\ y - x \in Nat
        BY <3>1, <3>2
      <4>2. QED BY <4>1, <3>3, <3>4
    <3>6. QED BY <3>1, <3>5 DEF AtMost
  <2>4. CASE i # j
    <3>1. row[i + 1].p <= row[j].p
      BY <1>1, <2>1, <2>2, <2>4
    <3>2. QED BY <1>1, <1>2, <1>6, <2>1, <3>1, OrderedIfApart
  <2>5. QED BY <2>3, <2>4
<1>7. QED BY <1>3, <1>4, <1>5, <1>6 DEF row

\* The fair value of Up is where interpolation puts it.
LEMMA FairValuePlace ==
  ASSUME NEW m \in ModelType, Valid(m), NEW delta \in Int, NEW secs,
         FairValueOf(m, "Up", delta, secs) # None
  PROVE  LET up == FairValueOf(m, "Up", delta, secs)
         IN  /\ SecsBucket(m, secs) \in DOMAIN m.grid
             /\ \E j \in Nat : \/ AtCenter(m, m.grid[SecsBucket(m, secs)], delta, up, j)
                               \/ Between(m, m.grid[SecsBucket(m, secs)], delta, up, j)
<1> DEFINE s == SecsBucket(m, secs)
           up == Interpolate(m, m.grid[s], DeltaBucket(m, delta), delta)
<1>1. s # None /\ up # None /\ FairValueOf(m, "Up", delta, secs) = up
  BY DEF FairValueOf
<1>2. s \in DOMAIN m.grid
  <2>1. m.secs \in Seq(Int) /\ m.grid \in Seq(Seq([p : Int, n : Int, w : Int, low : BOOLEAN]))
        /\ Len(m.grid) = Len(m.secs) - 1
    BY DEF ModelType, Valid, ShapeValid
  <2>2. s \in 1..Len(m.secs) - 1
    BY <1>1 DEF SecsBucket
  <2>3. QED BY <2>1, <2>2
<1>3. QED BY <1>1, <1>2, InterpolatePlace

\* A model that passed validation prices soundly over any deltas (fairvalue.rs
\* 10-14, 117-152).
LEMMA ModelPricesSoundly ==
  ASSUME NEW m \in ModelType, Valid(m), NEW deltas \in SUBSET Int, NEW secs
  PROVE  PricesSoundly(m, deltas, secs)
<1> DEFINE up(delta) == FairValueOf(m, "Up", delta, secs)
           s == SecsBucket(m, secs)
<1> SUFFICES ASSUME NEW d \in deltas, NEW e \in deltas, d <= e, up(d) # None, up(e) # None
             PROVE  AtMost(<<0, 1>>, up(d)) /\ AtMost(up(d), up(e)) /\ AtMost(up(e), <<One, 1>>)
  BY DEF PricesSoundly
<1>1. /\ s \in DOMAIN m.grid
      /\ \E i \in Nat : \/ AtCenter(m, m.grid[s], d, up(d), i)
                        \/ Between(m, m.grid[s], d, up(d), i)
      /\ \E j \in Nat : \/ AtCenter(m, m.grid[s], e, up(e), j)
                        \/ Between(m, m.grid[s], e, up(e), j)
  BY FairValuePlace
<1>2. PICK i \in Nat, j \in Nat :
        /\ AtCenter(m, m.grid[s], d, up(d), i) \/ Between(m, m.grid[s], d, up(d), i)
        /\ AtCenter(m, m.grid[s], e, up(e), j) \/ Between(m, m.grid[s], e, up(e), j)
  BY <1>1
<1>3. AtMost(up(d), up(e))
  BY <1>1, <1>2, PlacesOrdered
<1>4. ASSUME NEW delta \in Int, NEW v, NEW k \in Nat,
             AtCenter(m, m.grid[s], delta, v, k) \/ Between(m, m.grid[s], delta, v, k)
      PROVE  AtMost(<<0, 1>>, v) /\ AtMost(v, <<One, 1>>)
  <2>1. PICK low \in 0..One, high \in 0..One : LiesIn(v, low, high)
    <3>1. CASE AtCenter(m, m.grid[s], delta, v, k)
      <4>1. k \in 1..Len(m.centers)
        BY <3>1 DEF AtCenter
      <4>2. LiesIn(v, m.grid[s][k].p, m.grid[s][k].p)
        BY <1>1, <3>1, PlaceWithin
      <4>3. m.grid[s][k].p \in 0..One
        BY <1>1, <4>1, ValidRow
      <4>4. QED BY <4>2, <4>3
    <3>2. CASE Between(m, m.grid[s], delta, v, k)
      <4>1. k \in 1..Len(m.centers) /\ k + 1 \in 1..Len(m.centers)
        BY <1>1, <3>2, ValidRow DEF Between
      <4>2. LiesIn(v, m.grid[s][k].p, m.grid[s][k + 1].p)
        BY <1>1, <3>2, PlaceWithin
      <4>3. m.grid[s][k].p \in 0..One /\ m.grid[s][k + 1].p \in 0..One
        BY <1>1, <4>1, ValidRow
      <4>4. QED BY <4>2, <4>3
    <3>3. QED BY <1>4, <3>1, <3>2
  <2>2. LiesIn(<<0, 1>>, 0, 0) /\ LiesIn(<<One, 1>>, One, One)
    <3>1. One \in Int /\ 1 \in Nat \ {0} /\ One * 1 = One /\ 0 * 1 = 0
      BY PriceAssumption
    <3>2. QED BY <3>1 DEF LiesIn
  <2>3. One \in Int /\ 0 <= low /\ high <= One
    BY PriceAssumption
  <2>4. QED BY <2>1, <2>2, <2>3, OrderedIfApart
<1>5. QED BY <1>2, <1>3, <1>4

\* Every installed curve is a monotone probability, for every grid and every delta
\* (validate, fair_value and interpolate, fairvalue.rs).
THEOREM CurvesSoundCorrect == InputSpec => []CurvesSound
<1>1. InputInit => CurvesSound
  BY ModelPricesSoundly, InputsAssumption DEF InputInit, CurvesSound, Is
<1>2. CurvesSound /\ [UNCHANGED input]_input => CurvesSound'
  BY DEF CurvesSound, Is
<1>3. QED BY <1>1, <1>2, PTL DEF InputSpec

-----------------------------------------------------------------------------
(* Shadow quotes                                                           *)

\* The ends of the band are each other's complement.
LEMMA BandComplement ==
  ASSUME NEW tick \in Ticks
  PROVE  /\ BandLo(tick) \in Int /\ BandHi(tick) \in Int
         /\ BandLo(tick) + BandHi(tick) = One
<1> DEFINE l == FloorTo(tick, -MinQuote, 1)
           h == FloorTo(tick, One - MinQuote, 1)
<1>1. tick \in Nat \ {0} /\ One \in Nat /\ One % tick = 0 /\ MinQuote \in Nat
  BY PriceAssumption, MakerAssumption
<1>2. l \in Int /\ l <= -MinQuote /\ -MinQuote < l + tick
  <2>1. l \in Int /\ l * 1 <= -MinQuote /\ -MinQuote < (l + tick) * 1
    BY <1>1, FloorBounds
  <2> HIDE DEF l
  <2> QED  BY <1>1, <2>1
<1>3. h \in Int /\ h <= One - MinQuote /\ One - MinQuote < h + tick
  <2>1. h \in Int /\ h * 1 <= One - MinQuote /\ One - MinQuote < (h + tick) * 1
    BY <1>1, FloorBounds
  <2> HIDE DEF h
  <2> QED  BY <1>1, <2>1
<1>4. \E x, y, z \in Int : l = x * tick /\ h = y * tick /\ One = z * tick
  <2>1. (-MinQuote) \div tick \in Int /\ (One - MinQuote) \div tick \in Int
    BY <1>1, Division
  <2>2. l = ((-MinQuote) \div tick) * tick /\ h = ((One - MinQuote) \div tick) * tick
    BY <1>1 DEF FloorTo
  <2>3. One = (One \div tick) * tick /\ One \div tick \in Int
    BY <1>1
  <2> QED  BY <2>1, <2>2, <2>3
<1> HIDE DEF l, h
<1>5. PICK x \in Int, y \in Int, z \in Int : l = x * tick /\ h = y * tick /\ One = z * tick
  BY <1>4
<1>6. h - l - One < tick /\ h - l - One > -tick
  BY <1>1, <1>2, <1>3
<1>7. h - l - One = (y - x - z) * tick
  BY <1>1, <1>5
<1>8. y - x - z = 0
  <2> DEFINE k == y - x - z
  <2>1. k \in Int /\ k * tick < tick /\ k * tick > -tick
    BY <1>5, <1>6, <1>7
  <2> HIDE DEF k
  <2>2. CASE k >= 1
    BY <1>1, <2>1, <2>2
  <2>3. CASE k <= -1
    BY <1>1, <2>1, <2>3
  <2> QED  BY <2>1, <2>2, <2>3 DEF k
<1>9. h - l = One
  BY <1>1, <1>2, <1>3, <1>7, <1>8
<1>10. CeilTo(tick, MinQuote, 1) = -l /\ FloorTo(tick, One - MinQuote, 1) = h
  BY DEF CeilTo, l, h
<1> QED  BY <1>2, <1>3, <1>9, <1>10 DEF BandLo, BandHi

LEMMA ClampBounds ==
  ASSUME NEW x \in Int, NEW lo \in Int, NEW hi \in Int, lo <= hi
  PROVE  /\ Clamp(x, lo, hi) \in lo..hi
         /\ Clamp(x, lo, hi) = lo \/ Clamp(x, lo, hi) <= x
         /\ Clamp(x, lo, hi) = hi \/ Clamp(x, lo, hi) >= x
BY DEF Clamp, Lesser, Greater

\* Two quotes around complementary fair values leave no riskless profit.
LEMMA ComplementaryQuotes ==
  ASSUME NEW a \in Int, NEW d \in Nat \ {0}, NEW half \in Nat, NEW tick \in Ticks,
         BandLo(tick) <= BandHi(tick)
  PROVE  /\ BidOf(<<a, d>>, half, tick) + BidOf(<<One * d - a, d>>, half, tick) <= One
         /\ AskOf(<<a, d>>, half, tick) + AskOf(<<One * d - a, d>>, half, tick) >= One
<1> DEFINE b == One * d - a
           lo == BandLo(tick)
           hi == BandHi(tick)
           ub == FloorTo(tick, a - half * d, d)
           db == FloorTo(tick, b - half * d, d)
           ua == CeilTo(tick, a + half * d, d)
           da == CeilTo(tick, b + half * d, d)
<1>1. tick \in Nat \ {0} /\ One \in Nat /\ b \in Int /\ half * d \in Nat
  BY PriceAssumption
<1>2. lo \in Int /\ hi \in Int /\ lo + hi = One /\ lo <= hi
  BY BandComplement
<1>3. ub \in Int /\ db \in Int /\ ub * d <= a - half * d /\ db * d <= b - half * d
  BY <1>1, FloorBounds
<1>4. ua \in Int /\ da \in Int /\ ua * d >= a + half * d /\ da * d >= b + half * d
  <2>1. \A n \in Int : LET f == FloorTo(tick, -n, d) IN f \in Int /\ f * d <= -n
    BY <1>1, FloorBounds
  <2>2. \A n \in Int : CeilTo(tick, n, d) \in Int /\ CeilTo(tick, n, d) * d >= n
    <3>1. TAKE n \in Int
    <3> DEFINE f == FloorTo(tick, -n, d)
    <3>2. f \in Int /\ f * d <= -n
      BY <2>1
    <3>3. CeilTo(tick, n, d) = -f
      BY DEF CeilTo
    <3> HIDE DEF f
    <3>4. (-f) * d = -(f * d)
      BY <3>2
    <3> QED  BY <3>2, <3>3, <3>4
  <2> QED  BY <1>1, <2>2
<1>5. /\ BidOf(<<a, d>>, half, tick) = Clamp(ub, lo, hi)
      /\ BidOf(<<b, d>>, half, tick) = Clamp(db, lo, hi)
      /\ AskOf(<<a, d>>, half, tick) = Clamp(ua, lo, hi)
      /\ AskOf(<<b, d>>, half, tick) = Clamp(da, lo, hi)
  BY DEF BidOf, AskOf
<1>6. b + a = One * d
  BY <1>1
<1> HIDE DEF b, lo, hi, ub, db, ua, da
<1>7. ub + db <= One
  <2>1. (ub + db) * d <= One * d
    BY <1>1, <1>3, <1>6
  <2> QED  BY <1>1, <1>3, <2>1
<1>8. ua + da >= One
  <2>1. (ua + da) * d >= One * d
    BY <1>1, <1>4, <1>6
  <2> QED  BY <1>1, <1>4, <2>1
<1>9. Clamp(ub, lo, hi) + Clamp(db, lo, hi) <= One
  <2>1. /\ Clamp(ub, lo, hi) \in lo..hi /\ Clamp(db, lo, hi) \in lo..hi
        /\ Clamp(ub, lo, hi) = lo \/ Clamp(ub, lo, hi) <= ub
        /\ Clamp(db, lo, hi) = lo \/ Clamp(db, lo, hi) <= db
    BY <1>2, <1>3, ClampBounds
  <2> QED  BY <1>1, <1>2, <1>3, <1>7, <2>1
<1>10. Clamp(ua, lo, hi) + Clamp(da, lo, hi) >= One
  <2>1. /\ Clamp(ua, lo, hi) \in lo..hi /\ Clamp(da, lo, hi) \in lo..hi
        /\ Clamp(ua, lo, hi) = hi \/ Clamp(ua, lo, hi) >= ua
        /\ Clamp(da, lo, hi) = hi \/ Clamp(da, lo, hi) >= da
    BY <1>2, <1>4, ClampBounds
  <2> QED  BY <1>1, <1>2, <1>4, <1>8, <2>1
<1> QED  BY <1>5, <1>9, <1>10 DEF b
LEMMA QuotesSound ==
  ASSUME NEW m \in ModelType, Valid(m), NEW delta \in Int, NEW secs \in Int,
         NEW half \in Nat, NEW tick \in Ticks, NEW books
  PROVE  NotArbitrable(Quotes(m, delta, delta, FALSE, secs, half, tick, books))
<1> DEFINE quotes == Quotes(m, delta, delta, FALSE, secs, half, tick, books)
           fair(side) == FairValueOf(m, side, delta, secs)
<1>1. SUFFICES ASSUME quotes["Up"] # None, quotes["Down"] # None
               PROVE  /\ quotes["Up"].bid + quotes["Down"].bid <= One
                      /\ quotes["Up"].ask + quotes["Down"].ask >= One
  BY DEF NotArbitrable
<1>2. InputDelta(m, delta, delta, FALSE) = delta
  BY DEF InputDelta
<1>3. \A side \in Sides : quotes[side] # None =>
        /\ fair(side) # None
        /\ quotes[side] = Quote(fair(side), secs, half, tick, books[side])
  BY <1>2 DEF Quotes
<1>4. \A f, book : Quote(f, secs, half, tick, book) # None =>
        /\ BandLo(tick) <= BandHi(tick)
        /\ Quote(f, secs, half, tick, book).bid = BidOf(f, half, tick)
        /\ Quote(f, secs, half, tick, book).ask = AskOf(f, half, tick)
  BY DEF Quote
<1>5. PICK a \in Int, d \in Nat \ {0} :
        fair("Up") = <<a, d>> /\ fair("Down") = <<One * d - a, d>>
  BY <1>1, <1>3, FairValuesComplement DEF Sides
<1> HIDE DEF quotes, fair
<1>6. /\ quotes["Up"] = Quote(<<a, d>>, secs, half, tick, books["Up"])
      /\ quotes["Down"] = Quote(<<One * d - a, d>>, secs, half, tick, books["Down"])
  BY <1>1, <1>3, <1>5 DEF Sides
<1>7. BandLo(tick) <= BandHi(tick)
  BY <1>1, <1>4, <1>6
<1>8. /\ quotes["Up"].bid = BidOf(<<a, d>>, half, tick)
      /\ quotes["Up"].ask = AskOf(<<a, d>>, half, tick)
      /\ quotes["Down"].bid = BidOf(<<One * d - a, d>>, half, tick)
      /\ quotes["Down"].ask = AskOf(<<One * d - a, d>>, half, tick)
  BY <1>1, <1>4, <1>6
<1> QED  BY <1>7, <1>8, ComplementaryQuotes

\* Whatever valid curve is installed, the quotes of both books together leave no
\* riskless profit: the fair values are complements, and rounding and clamping keep
\* the sums on the safe side (maker.rs 173-251).
THEOREM QuotesNotArbitrableCorrect == InputSpec => []QuotesNotArbitrable
<1>1. ASSUME InputInit PROVE QuotesNotArbitrable
  <2>1. SUFFICES ASSUME Is("curve"), NEW delta \in input.deltas,
                        NEW half \in input.halves, NEW tick \in Ticks, NEW secs \in input.secs
                 PROVE  NotArbitrable(Quotes(input.model, delta, delta, FALSE, secs, half,
                                             tick, [side \in Sides |-> input.book]))
    BY DEF QuotesNotArbitrable
  <2>2. /\ input.model \in ModelType /\ Valid(input.model)
        /\ secs \in Int /\ delta \in Int /\ half \in Nat
    BY <1>1, <2>1, InputsAssumption DEF InputInit, Is
  <2> QED  BY <2>2, QuotesSound
<1>2. QuotesNotArbitrable /\ [UNCHANGED input]_input => QuotesNotArbitrable'
  BY DEF QuotesNotArbitrable, Is
<1> QED  BY <1>1, <1>2, PTL DEF InputSpec

-----------------------------------------------------------------------------
(* What is computed from recent trades                                     *)

Buffer == Seq([t : Nat, p : Int])

LEMMA BufferTyped ==
  ASSUME NEW buffer \in Buffer, buffer # <<>>
  PROVE  /\ Len(buffer) \in Nat \ {0}
         /\ \A i \in 1..Len(buffer) :
              buffer[i] \in [t : Nat, p : Int] /\ buffer[i].t \in Nat /\ buffer[i].p \in Int
<1> DEFINE Sample == [t : Nat, p : Int]
<1>1. buffer \in Seq(Sample)
  BY DEF Buffer
<1>2. \A x \in Sample : x.t \in Nat /\ x.p \in Int
  OBVIOUS
<1> HIDE DEF Sample
<1>3. Len(buffer) \in Nat /\ \A i \in 1..Len(buffer) : buffer[i] \in Sample
  BY <1>1
<1>4. Len(buffer) # 0
  BY <1>1
<1>5. QED BY <1>2, <1>3, <1>4 DEF Sample

\* The whole way of a price is no shorter than the way from its start to its end.
LEMMA WayCoversNet ==
  ASSUME NEW buffer \in Buffer, buffer # <<>>
  PROVE  /\ SumFunction(Moves(buffer)) \in Nat
         /\ AbsOf(buffer[Len(buffer)].p - buffer[1].p) <= SumFunction(Moves(buffer))
<1> DEFINE n == Len(buffer) - 1
           f == Moves(buffer)
           Gone(k) == SumFunctionOnSet(f, 1..k)
           p == [i \in 1..n + 1 |-> buffer[i].p]
           K == {k \in Nat : k <= n => AbsOf(p[k + 1] - p[1]) <= Gone(k)}
<1>1. n \in Nat /\ Len(buffer) = n + 1 /\ \A i \in 1..n + 1 : p[i] \in Int
  BY BufferTyped
<1>2. DOMAIN f = 1..n /\ \A i \in 1..n : f[i] = AbsOf(p[i + 1] - p[i]) /\ f[i] \in Nat
  <2>1. DOMAIN f = 1..n /\ \A i \in 1..n : f[i] = AbsOf(p[i + 1] - p[i])
    BY <1>1 DEF Moves
  <2> HIDE DEF f, n, p
  <2>2. \A i \in 1..n : AbsOf(p[i + 1] - p[i]) \in Nat
    BY <1>1 DEF AbsOf
  <2>3. QED BY <2>1, <2>2
<1> HIDE DEF f, n, p
<1>3. \A k \in Nat : k <= n => IsFiniteSet(1..k) /\ \A i \in 1..k : f[i] \in Nat
  <2> TAKE k \in Nat
  <2> HAVE k <= n
  <2>1. IsFiniteSet(1..k)
    BY FS_Interval
  <2>2. \A i \in 1..k : i \in 1..n
    BY <1>1
  <2>3. QED BY <1>2, <2>1, <2>2
<1>4. 0 \in K
  <2>1. Gone(0) = 0
    BY SumEmpty
  <2>2. p[0 + 1] - p[1] = 0
    BY <1>1
  <2>3. QED BY <2>1, <2>2 DEF AbsOf
<1>5. ASSUME NEW k \in Nat, k \in K PROVE k + 1 \in K
  <2> SUFFICES ASSUME k + 1 <= n PROVE AbsOf(p[(k + 1) + 1] - p[1]) <= Gone(k + 1)
    OBVIOUS
  <2>1. AbsOf(p[k + 1] - p[1]) <= Gone(k)
    <3>1. k <= n
      BY <1>1
    <3> HIDE DEF Gone
    <3>2. QED BY <1>5, <3>1
  <2>2. Gone(k) \in Int /\ Gone(k + 1) = f[k + 1] + Gone(k)
    <3>1. 1..k + 1 = (1..k) \cup {k + 1} /\ k + 1 \notin 1..k
      OBVIOUS
    <3>2. \A i \in 1..k + 1 : f[i] \in Int
      BY <1>1, <1>3
    <3>3. IsFiniteSet(1..k)
      BY FS_Interval
    <3> DEFINE S == 1..k
               x == k + 1
    <3>4. x \notin S /\ IsFiniteSet(S) /\ \A y \in S \cup {x} : f[y] \in Int
      BY <3>1, <3>2, <3>3
    <3>5. 1..k + 1 = S \cup {x}
      BY <3>1
    <3> HIDE DEF S, x
    <3>6. /\ SumFunctionOnSet(f, S) \in Int
          /\ SumFunctionOnSet(f, S \cup {x}) = f[x] + SumFunctionOnSet(f, S)
      BY <3>4, SumAdd
    <3>7. QED BY <3>5, <3>6 DEF S, x
  <2>3. f[k + 1] = AbsOf(p[(k + 1) + 1] - p[k + 1])
    BY <1>2
  <2>4. p[(k + 1) + 1] \in Int /\ p[k + 1] \in Int /\ p[1] \in Int
    BY <1>1
  <2> HIDE DEF Gone
  <2>5. \A a, b, c, d \in Int : AbsOf(b - a) <= d => AbsOf(c - a) <= AbsOf(c - b) + d
    BY DEF AbsOf
  <2>6. QED BY <2>1, <2>2, <2>3, <2>4, <2>5
<1> HIDE DEF K
<1>6. n \in K
  BY <1>1, <1>4, <1>5, NatSetInduction
<1>7. SumFunction(f) = Gone(n) /\ Gone(n) \in Nat
  BY <1>1, <1>2, <1>3, SumNat DEF SumFunction
<1>8. AbsOf(p[n + 1] - p[1]) <= Gone(n)
  BY <1>1, <1>6 DEF K
<1>9. QED BY <1>1, <1>7, <1>8 DEF f, p, n

\* Some price is the lowest, and some the highest.
LEMMA PriceRange ==
  ASSUME NEW n \in Nat, NEW p, \A i \in 1..n + 1 : p[i] \in Int
  PROVE  \E low, high \in 1..n + 1 : \A i \in 1..n + 1 : p[low] <= p[i] /\ p[i] <= p[high]
<1> DEFINE Ranged(k) == \E low, high \in 1..k + 1 :
                          \A i \in 1..k + 1 : p[low] <= p[i] /\ p[i] <= p[high]
           K == {k \in Nat : k <= n => Ranged(k)}
<1>1. 0 \in K
  <2>1. 1 \in 1..0 + 1 /\ p[1] \in Int /\ \A i \in 1..0 + 1 : i = 1
    OBVIOUS
  <2>2. QED BY <2>1
<1>2. ASSUME NEW k \in Nat, k \in K PROVE k + 1 \in K
  <2> SUFFICES ASSUME k + 1 <= n PROVE Ranged(k + 1)
    OBVIOUS
  <2>1. PICK low \in 1..k + 1, high \in 1..k + 1 :
          \A i \in 1..k + 1 : p[low] <= p[i] /\ p[i] <= p[high]
    BY <1>2
  <2> DEFINE last == (k + 1) + 1
             lower == IF p[last] < p[low] THEN last ELSE low
             higher == IF p[last] > p[high] THEN last ELSE high
  <2>2. lower \in 1..last /\ higher \in 1..last
    OBVIOUS
  <2>3. ASSUME NEW i \in 1..last PROVE p[lower] <= p[i] /\ p[i] <= p[higher]
    <3>1. p[i] \in Int /\ p[last] \in Int /\ p[low] \in Int /\ p[high] \in Int
      OBVIOUS
    <3>2. CASE i \in 1..k + 1
      <4>1. p[low] <= p[i] /\ p[i] <= p[high]
        BY <2>1, <3>2
      <4>2. QED BY <3>1, <4>1
    <3>3. CASE i = last
      <4>1. p[low] <= p[high]
        BY <2>1
      <4>2. QED BY <3>1, <3>3, <4>1
    <3>4. QED BY <3>2, <3>3
  <2> HIDE DEF lower, higher
  <2>4. QED BY <2>2, <2>3
<1> HIDE DEF K
<1>3. n \in K
  BY <1>1, <1>2, NatSetInduction
<1>4. QED BY <1>3 DEF K

\* What the loop of twap keeps: the intervals counted so far lie side by side in the
\* span, and their prices are prices.
WeightsSound(acc, start, newest, low, high) ==
  /\ acc \in [cursor : Int, sum : Int, weight : Int]
  /\ acc.cursor <= newest
  /\ 0 <= acc.weight /\ acc.weight <= acc.cursor - start
  /\ low * acc.weight <= acc.sum /\ acc.sum <= high * acc.weight

LEMMA WeighedSound ==
  ASSUME NEW acc, NEW start \in Int, NEW newest \in Int, NEW low \in Int, NEW high \in Int,
         NEW from \in [t : Nat, p : Int], NEW to \in [t : Nat, p : Int],
         low <= from.p, from.p <= high,
         WeightsSound(acc, start, newest, low, high)
  PROVE  WeightsSound(Weighed(acc, from, to, newest), start, newest, low, high)
<1> DEFINE begin == Greater(from.t, acc.cursor)
           end == Lesser(to.t, newest)
           width == end - begin
           new == [cursor |-> end, sum |-> acc.sum + from.p * width,
                   weight |-> acc.weight + width]
<1>1. /\ acc.cursor \in Int /\ acc.sum \in Int /\ acc.weight \in Int
      /\ from.t \in Int /\ from.p \in Int /\ to.t \in Int
  BY DEF WeightsSound
<1>2. begin \in Int /\ end \in Int /\ begin >= acc.cursor /\ end <= newest
  BY <1>1 DEF Greater, Lesser
<1>3. CASE Weighed(acc, from, to, newest) = acc
  BY <1>3
<1>4. CASE Weighed(acc, from, to, newest) # acc
  <2>1. begin < end /\ Weighed(acc, from, to, newest)
                         = [cursor |-> end, sum |-> acc.sum + from.p * (end - begin),
                            weight |-> acc.weight + end - begin]
    BY <1>2, <1>4 DEF Weighed
  <2>2. acc.weight + end - begin = acc.weight + width
    BY <1>1, <1>2
  <2>3. Weighed(acc, from, to, newest) = new
    BY <2>1, <2>2
  <2>4. width \in Nat
    BY <1>2, <2>1
  <2>5. acc.weight + width <= end - start
    BY <1>1, <1>2 DEF WeightsSound
  <2> HIDE DEF width
  <2>6. \A a, b, w \in Int, u \in Nat : a <= b => a * u <= b * u /\ a * (w + u) = a * w + a * u
                                                  /\ a * u \in Int /\ a * w \in Int
    OBVIOUS
  <2>7. /\ low * (acc.weight + width) <= acc.sum + from.p * width
        /\ acc.sum + from.p * width <= high * (acc.weight + width)
    <3>1. /\ low * width <= from.p * width /\ low * (acc.weight + width) = low * acc.weight + low * width
          /\ low * width \in Int /\ from.p * width \in Int /\ low * acc.weight \in Int
      BY <1>1, <2>4, <2>6
    <3>2. /\ from.p * width <= high * width
          /\ high * (acc.weight + width) = high * acc.weight + high * width
          /\ high * width \in Int /\ high * acc.weight \in Int
      BY <1>1, <2>4, <2>6
    <3>3. low * acc.weight <= acc.sum /\ acc.sum <= high * acc.weight
      BY DEF WeightsSound
    <3>4. QED BY <1>1, <3>1, <3>2, <3>3
  <2>8. from.p * width \in Int /\ acc.weight + width \in Int /\ 0 <= acc.weight + width
    BY <1>1, <2>4 DEF WeightsSound
  <2> HIDE DEF end, begin
  <2>9. new \in [cursor : Int, sum : Int, weight : Int]
    BY <1>1, <1>2, <2>8
  <2>10. WeightsSound(new, start, newest, low, high)
    BY <1>2, <2>5, <2>7, <2>8, <2>9 DEF WeightsSound
  <2>11. QED BY <2>3, <2>10
<1>5. QED BY <1>3, <1>4

\* The loop of twap, round by round.
LEMMA WeighedRounds ==
  ASSUME NEW buffer \in Buffer, buffer # <<>>, NEW span \in Nat
  PROVE  LET newest == buffer[Len(buffer)].t
         IN  /\ WeighedUpTo(buffer, span, 0)
                  = [cursor |-> Greater(newest - span, 0), sum |-> 0, weight |-> 0]
             /\ \A i \in 1..Len(buffer) - 1 :
                  WeighedUpTo(buffer, span, i)
                    = Weighed(WeighedUpTo(buffer, span, i - 1), buffer[i], buffer[i + 1], newest)
<1> DEFINE n == Len(buffer) - 1
           newest == buffer[Len(buffer)].t
           Acc == [cursor : Int, sum : Int, weight : Int]
           base == [cursor |-> Greater(newest - span, 0), sum |-> 0, weight |-> 0]
           Round(a, i) == Weighed(a, buffer[i], buffer[i + 1], newest)
           Body(g) == [i \in 0..n |-> IF i = 0 THEN base ELSE Round(g[i - 1], i)]
           loop == CHOOSE g : g = Body(g)
           step == [r \in (1..n) \X Acc |-> Round(r[2], r[1])]
<1>1. /\ n \in Nat /\ newest \in Int
      /\ \A i \in 1..n + 1 : buffer[i].t \in Int /\ buffer[i].p \in Int
  BY BufferTyped
<1>2. base \in Acc
  BY <1>1 DEF Greater
<1>3. \A i \in 1..n, a \in Acc : Round(a, i) \in Acc
  <2> TAKE i \in 1..n, a \in Acc
  <2> DEFINE begin == Greater(buffer[i].t, a.cursor)
             end == Lesser(buffer[i + 1].t, newest)
  <2>1. buffer[i].t \in Int /\ buffer[i].p \in Int /\ buffer[i + 1].t \in Int
    BY <1>1
  <2>2. begin \in Int /\ end \in Int
    BY <1>1, <2>1 DEF Greater, Lesser
  <2>3. Round(a, i) = a
        \/ Round(a, i) = [cursor |-> end, sum |-> a.sum + buffer[i].p * (end - begin),
                          weight |-> a.weight + end - begin]
    BY DEF Weighed
  <2> HIDE DEF begin, end, Round
  <2>4. a.sum + buffer[i].p * (end - begin) \in Int /\ a.weight + end - begin \in Int
    <3>1. a.sum \in Int /\ a.weight \in Int
      OBVIOUS
    <3>2. buffer[i].p * (end - begin) \in Int /\ end - begin \in Int
      BY <2>1, <2>2
    <3>3. QED BY <2>2, <3>1, <3>2
  <2>5. QED BY <2>2, <2>3, <2>4
<1>4. \A i \in 1..n, a \in Acc : step[<<i, a>>] \in Acc
  <2> HIDE DEF Acc, Round
  <2>1. \A i \in 1..n, a \in Acc : step[<<i, a>>] = Round(a, i)
    OBVIOUS
  <2>2. QED BY <1>3, <2>1
<1>5. \E g : g = Body(g)
  <2> HIDE DEF n, Acc, Round, base, step
  <2>1. PICK g \in [0..n -> Acc] : g[0] = base /\ \A k \in 1..n : g[k] = step[<<k, g[k - 1]>>]
    <3>1. \E g : IsLoop(g, n, Acc, base, step)
      BY <1>1, <1>2, <1>4, LoopExists
    <3>2. QED BY <3>1 DEF IsLoop
  <2>2. \A k \in 1..n : g[k] = Round(g[k - 1], k)
    <3> TAKE k \in 1..n
    <3>1. g[k - 1] \in Acc
      <4>1. k - 1 \in 0..n
        BY <1>1
      <4>2. QED BY <2>1, <4>1
    <3>2. step[<<k, g[k - 1]>>] = Round(g[k - 1], k)
      BY <3>1 DEF step
    <3>3. QED BY <2>1, <3>2
  <2>3. g = Body(g)
    <3>1. \A k \in 0..n : g[k] = IF k = 0 THEN base ELSE Round(g[k - 1], k)
      BY <1>1, <2>1, <2>2
    <3>2. QED BY <2>1, <3>1
  <2>4. QED BY <2>3
<1>6. loop = Body(loop)
  BY <1>5
<1>7. \A i : WeighedUpTo(buffer, span, i) = loop[i]
  BY DEF WeighedUpTo
<1> HIDE DEF loop, Round, base
<1>8. loop[0] = base /\ \A i \in 1..n : loop[i] = Round(loop[i - 1], i)
  BY <1>1, <1>6
<1>9. QED BY <1>1, <1>7, <1>8 DEF Round, base

\* After every round the intervals counted lie side by side in the span.
LEMMA WeightsAreSound ==
  ASSUME NEW buffer \in Buffer, buffer # <<>>, NEW span \in Nat,
         NEW low \in Int, NEW high \in Int,
         \A i \in 1..Len(buffer) : low <= buffer[i].p /\ buffer[i].p <= high
  PROVE  LET newest == buffer[Len(buffer)].t
         IN  WeightsSound(WeighedUpTo(buffer, span, Len(buffer) - 1),
                          Greater(newest - span, 0), newest, low, high)
<1> DEFINE n == Len(buffer) - 1
           newest == buffer[Len(buffer)].t
           start == Greater(newest - span, 0)
           Sound(i) == WeightsSound(WeighedUpTo(buffer, span, i), start, newest, low, high)
           K == {k \in Nat : k <= n => Sound(k)}
<1>1. /\ n \in Nat /\ Len(buffer) = n + 1 /\ newest \in Nat
      /\ \A i \in 1..n + 1 : buffer[i] \in [t : Nat, p : Int]
  BY BufferTyped
<1>2. start \in Int /\ start <= newest
  BY <1>1 DEF Greater
<1>3. /\ WeighedUpTo(buffer, span, 0) = [cursor |-> start, sum |-> 0, weight |-> 0]
      /\ \A i \in 1..n : WeighedUpTo(buffer, span, i)
                           = Weighed(WeighedUpTo(buffer, span, i - 1),
                                     buffer[i], buffer[i + 1], newest)
  BY WeighedRounds
<1> HIDE DEF n, newest, start
<1>4. 0 \in K
  BY <1>1, <1>2, <1>3 DEF WeightsSound
<1>5. ASSUME NEW k \in Nat, k \in K PROVE k + 1 \in K
  <2> SUFFICES ASSUME k + 1 <= n PROVE Sound(k + 1)
    OBVIOUS
  <2>1. /\ k + 1 \in 1..n /\ (k + 1) - 1 = k /\ k <= n
        /\ k + 1 \in 1..n + 1 /\ (k + 1) + 1 \in 1..n + 1
    BY <1>1
  <2>2. Sound(k)
    BY <1>5, <2>1
  <2>3. low <= buffer[k + 1].p /\ buffer[k + 1].p <= high
    BY <1>1, <2>1
  <2>4. buffer[k + 1] \in [t : Nat, p : Int] /\ buffer[(k + 1) + 1] \in [t : Nat, p : Int]
    BY <1>1, <2>1
  <2>5. newest \in Int
    BY <1>1
  <2>6. WeightsSound(Weighed(WeighedUpTo(buffer, span, k),
                             buffer[k + 1], buffer[(k + 1) + 1], newest),
                     start, newest, low, high)
    BY <1>2, <2>2, <2>3, <2>4, <2>5, WeighedSound
  <2>7. QED BY <1>3, <2>1, <2>6
<1> HIDE DEF K
<1>6. n \in K
  BY <1>1, <1>4, <1>5, NatSetInduction
<1>7. QED BY <1>1, <1>6 DEF K, n, newest, start

\* An average is one, and a trend strength a share, for every buffer.
LEMMA BufferIsSound ==
  ASSUME NEW buffer \in Buffer, NEW span \in Nat
  PROVE  BufferSound(buffer, span)
<1> DEFINE prices == {s.p : s \in ToSet(buffer)}
           average == Twap(buffer, span)
           trend == TrendStrength(buffer)
<1>1. ASSUME trend # None PROVE trend[1] \in 0..trend[2]
  <2>1. buffer # <<>>
    BY <1>1 DEF TrendStrength
  <2> DEFINE net == AbsOf(buffer[Len(buffer)].p - buffer[1].p)
             gross == SumFunction(Moves(buffer))
  <2>2. gross \in Nat /\ net <= gross
    BY <2>1, WayCoversNet
  <2>3. net \in Nat
    <3>1. buffer[Len(buffer)].p \in Int /\ buffer[1].p \in Int
      BY <2>1, BufferTyped
    <3>2. QED BY <3>1 DEF AbsOf
  <2>4. trend = <<1, 1>> \/ trend = <<net, gross>>
    BY <1>1 DEF TrendStrength
  <2> HIDE DEF net, gross, trend
  <2>5. QED BY <2>2, <2>3, <2>4
<1>2. ASSUME average # None
      PROVE  /\ average[2] \in 1..span
             /\ \E p \in prices : p * average[2] <= average[1]
             /\ \E p \in prices : average[1] <= p * average[2]
  <2> DEFINE n == Len(buffer) - 1
             newest == buffer[Len(buffer)].t
             start == Greater(newest - span, 0)
             result == WeighedUpTo(buffer, span, n)
             p == [i \in 1..n + 1 |-> buffer[i].p]
  <2>1. /\ ~(Len(buffer) < 2) /\ result.weight # 0
        /\ average = <<result.sum, result.weight>>
    BY <1>2 DEF Twap
  <2>2. buffer # <<>>
    BY <2>1
  <2>3. /\ n \in Nat /\ Len(buffer) = n + 1 /\ newest \in Nat
        /\ \A i \in 1..n + 1 : buffer[i].p \in Int
    BY <2>2, BufferTyped
  <2> HIDE DEF n
  <2>4. PICK low \in 1..n + 1, high \in 1..n + 1 :
          \A i \in 1..n + 1 : p[low] <= p[i] /\ p[i] <= p[high]
    <3>1. \A i \in 1..n + 1 : p[i] \in Int
      BY <2>3
    <3> HIDE DEF p
    <3>2. QED BY <2>3, <3>1, PriceRange
  <2>5. p[low] \in Int /\ p[high] \in Int /\ p[low] = buffer[low].p /\ p[high] = buffer[high].p
    BY <2>3
  <2>6. \A i \in 1..Len(buffer) : p[low] <= buffer[i].p /\ buffer[i].p <= p[high]
    BY <2>3, <2>4
  <2>7. p[low] \in prices /\ p[high] \in prices
    <3>1. DOMAIN buffer = 1..n + 1
      BY <2>3 DEF Buffer
    <3>2. QED BY <2>5, <3>1 DEF ToSet
  <2> HIDE DEF p, prices
  <2>8. WeightsSound(result, start, newest, p[low], p[high])
    BY <2>2, <2>5, <2>6, WeightsAreSound DEF n
  <2> HIDE DEF result, newest, average
  <2>9. /\ result.cursor \in Int /\ result.weight \in Int /\ result.sum \in Int
        /\ result.weight >= 0 /\ result.weight <= result.cursor - start
        /\ result.cursor <= newest
        /\ p[low] * result.weight <= result.sum /\ result.sum <= p[high] * result.weight
    BY <2>8 DEF WeightsSound
  <2>10. result.weight \in 1..span
    <3>1. start \in Int /\ start >= newest - span
      BY <2>3 DEF Greater
    <3> HIDE DEF start
    <3>2. QED BY <2>1, <2>3, <2>9, <3>1
  <2>11. average[1] = result.sum /\ average[2] = result.weight
    BY <2>1
  <2>12. QED BY <2>7, <2>9, <2>10, <2>11
<1>3. QED BY <1>1, <1>2 DEF BufferSound

\* Averages and trends are averages and shares for every buffer of trades, whatever
\* the order of its timestamps (twap and trend_strength, types.rs).
THEOREM BuffersSoundCorrect == InputSpec => []BuffersSound
<1>1. InputInit => BuffersSound
  BY BufferIsSound, InputsAssumption DEF InputInit, BuffersSound, Is, Buffer
<1>2. BuffersSound /\ [UNCHANGED input]_input => BuffersSound'
  BY DEF BuffersSound, Is
<1>3. QED BY <1>1, <1>2, PTL DEF InputSpec

-----------------------------------------------------------------------------
(* The configuration                                                       *)

Limits == {"maxCost", "maxOpen", "dailyLimit", "maxLosses"}
Commands ==
  {"threshold", "maxAsk", "maxSpread", "shares", "minMomentum", "maxSlippage", "minTrend"}
Figures == {"threshold", "maxSlippage", "maxAsk", "shares"}

\* What is found in the environment is a number, or nothing, or no number.
NumbersFound(env) ==
  \A field \in Limits \cup Figures :
    /\ env[field] \in Int \cup {Unset, Garbled}
    /\ Default[field] \in Int

\* What the proofs about the ledger and about entries assume of their constants
\* (LimitsAssumption, InputsAssumption).
LimitsValid(cfg) ==
  /\ \A field \in Limits : cfg[field] \in Nat \ {0}
  /\ cfg.maxCost <= cfg.maxOpen
  /\ ConfigTypeOk(cfg)

\* The start-up validation refuses every other environment (from_env).
LEMMA StartedValid ==
  ASSUME NEW env, NumbersFound(env), Started(env) # None
  PROVE  LimitsValid(Started(env)) /\ Started(env).maxAsk \in 1..One - 1
<1> DEFINE cfg == Settings(env)
<1>1. ~Refused(env, cfg) /\ Started(env) = cfg
  BY DEF Started
<1>2. \A field \in Limits \cup Figures : Parsed(env[field], Default[field]) \in Int
  BY DEF NumbersFound, Parsed
<1>3. /\ cfg.maxCost = Parsed(env.maxCost, Default.maxCost)
      /\ cfg.maxOpen = Parsed(env.maxOpen, Default.maxOpen)
      /\ cfg.dailyLimit = Parsed(env.dailyLimit, Default.dailyLimit)
      /\ cfg.maxLosses = Parsed(env.maxLosses, Default.maxLosses)
      /\ cfg.threshold = Parsed(env.threshold, Default.threshold)
      /\ cfg.maxAsk = Parsed(env.maxAsk, Default.maxAsk)
      /\ cfg.shares = Parsed(env.shares, Default.shares)
      /\ cfg.maxSlippage = Within(Parsed(env.maxSlippage, Default.maxSlippage),
                                  1..MostSlippage, Default.maxSlippage)
      /\ cfg.useTwap \in BOOLEAN
  BY DEF Settings
<1>4. /\ {cfg.maxCost, cfg.maxOpen, cfg.dailyLimit, cfg.maxLosses} \subseteq Int
      /\ {cfg.threshold, cfg.maxAsk, cfg.shares, cfg.maxSlippage} \subseteq Int
  <2>1. Default.maxSlippage \in Int
    BY DEF NumbersFound, Figures
  <2>2. QED BY <1>2, <1>3, <2>1 DEF Limits, Figures, Within
<1> HIDE DEF cfg
<1>5. /\ cfg.maxCost > 0 /\ cfg.maxOpen > 0 /\ cfg.dailyLimit > 0 /\ cfg.maxAsk > 0
      /\ cfg.maxLosses >= 1 /\ cfg.maxCost <= cfg.maxOpen /\ cfg.maxAsk < One
  BY <1>1, <1>4, PriceAssumption DEF Refused
<1>6. QED BY <1>1, <1>3, <1>4, <1>5, PriceAssumption DEF LimitsValid, ConfigTypeOk, Limits

\* A command changes a setting that is no limit, to a number (set_param).
LEMMA CommandKeeps ==
  ASSUME NEW cfg, LimitsValid(cfg), NEW field \in Commands, NEW value \in Int
  PROVE  /\ LimitsValid(SetParam(cfg, field, value))
         /\ \A limit \in Limits : SetParam(cfg, field, value)[limit] = cfg[limit]
<1> DEFINE new == [cfg EXCEPT ![field] = value]
<1>1. \A f \in Limits \cup {"useTwap"} : new[f] = cfg[f]
  BY DEF Limits, Commands
<1>2. \A f \in Figures : new[f] = cfg[f] \/ new[f] = value
  OBVIOUS
<1>3. SetParam(cfg, field, value) \in {new, cfg}
  BY DEF SetParam
<1> HIDE DEF new
<1>4. LimitsValid(new)
  BY <1>1, <1>2 DEF LimitsValid, ConfigTypeOk, Limits, Figures
<1>5. QED BY <1>1, <1>3, <1>4 DEF Limits

\* A process that starts has limits as the ledger's theorems assume them, and
\* keeps them for its life, whatever commands the operator sends (config.rs
\* 187-225, telegram.rs 136-203 and 401-420).
THEOREM LimitsForLife ==
  ASSUME NEW env, NumbersFound(env), Started(env) # None,
         NEW c, c[0] = Started(env),
         \A n \in Nat : \E field \in Commands, value \in Int :
                         c[n + 1] = SetParam(c[n], field, value)
  PROVE  \A n \in Nat : /\ LimitsValid(c[n])
                        /\ \A limit \in Limits : c[n][limit] = Started(env)[limit]
<1> DEFINE S == {n \in Nat : /\ LimitsValid(c[n])
                             /\ \A limit \in Limits : c[n][limit] = Started(env)[limit]}
<1>1. 0 \in S
  BY StartedValid
<1>2. ASSUME NEW n \in Nat, n \in S PROVE n + 1 \in S
  <2>1. PICK field \in Commands, value \in Int : c[n + 1] = SetParam(c[n], field, value)
    OBVIOUS
  <2>2. LimitsValid(c[n]) /\ \A limit \in Limits : c[n][limit] = Started(env)[limit]
    BY <1>2
  <2>3. /\ LimitsValid(SetParam(c[n], field, value))
        /\ \A limit \in Limits : SetParam(c[n], field, value)[limit] = c[n][limit]
    BY <2>2, CommandKeeps
  <2>4. LimitsValid(c[n + 1]) /\ \A limit \in Limits : c[n + 1][limit] = Started(env)[limit]
    BY <2>1, <2>2, <2>3
  <2>5. QED BY <2>4
<1> HIDE DEF S
<1>3. Nat \subseteq S
  BY <1>1, <1>2, NatSetInduction
<1>4. QED BY <1>3 DEF S
=============================================================================
