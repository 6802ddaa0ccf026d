--------------------------- MODULE LiveEntry_proofs ---------------------------
(***************************************************************************)
(* Safety of the live-entry path for every value of the constants.         *)
(***************************************************************************)
EXTENDS LiveEntry, SumTheorems, SequenceTheorems, FiniteSetTheorems, TLAPS

-----------------------------------------------------------------------------
(* Sequences of records                                                    *)

\* Changing one field of one row of a table keeps its type and its length.
LEMMA JournalUpdate ==
  ASSUME NEW s \in Seq(Attempt), NEW i \in DOMAIN s, NEW v \in Status
  PROVE  /\ [s EXCEPT ![i].status = v] \in Seq(Attempt)
         /\ Len([s EXCEPT ![i].status = v]) = Len(s)
<1>1. s[i] \in Attempt
  OBVIOUS
<1>2. [s[i] EXCEPT !.status = v] \in Attempt
  BY <1>1 DEF Attempt
<1>3. [s EXCEPT ![i].status = v] = [s EXCEPT ![i] = [s[i] EXCEPT !.status = v]]
  OBVIOUS
<1>4. QED BY <1>2, <1>3, ExceptSeq

LEMMA OrderState ==
  ASSUME NEW s \in Seq(Order), NEW i \in DOMAIN s,
         NEW v \in {"unsent", "sent", "filled", "dead"}
  PROVE  /\ [s EXCEPT ![i].state = v] \in Seq(Order)
         /\ Len([s EXCEPT ![i].state = v]) = Len(s)
<1>1. s[i] \in Order
  OBVIOUS
<1>2. [s[i] EXCEPT !.state = v] \in Order
  BY <1>1 DEF Order
<1>3. [s EXCEPT ![i].state = v] = [s EXCEPT ![i] = [s[i] EXCEPT !.state = v]]
  OBVIOUS
<1>4. QED BY <1>2, <1>3, ExceptSeq

LEMMA OrderFill ==
  ASSUME NEW s \in Seq(Order), NEW i \in DOMAIN s, NEW c \in 1..MaxTrade
  PROVE  /\ [s EXCEPT ![i].state = "filled", ![i].cost = c] \in Seq(Order)
         /\ Len([s EXCEPT ![i].state = "filled", ![i].cost = c]) = Len(s)
<1>1. s[i] \in Order /\ c \in 0..MaxTrade
  BY LimitsAssumption
<1>2. [s[i] EXCEPT !.state = "filled", !.cost = c] \in Order
  BY <1>1 DEF Order
<1>3. [s EXCEPT ![i].state = "filled", ![i].cost = c]
        = [s EXCEPT ![i] = [s[i] EXCEPT !.state = "filled", !.cost = c]]
  OBVIOUS
<1> DEFINE new == [s[i] EXCEPT !.state = "filled", !.cost = c]
<1> HIDE DEF new
<1>4. /\ [s EXCEPT ![i] = new] \in Seq(Order)
      /\ Len([s EXCEPT ![i] = new]) = Len(s)
  <2>1. new \in Order /\ i \in 1..Len(s)
    BY <1>2 DEF new
  <2>2. QED BY <2>1, ExceptSeq
<1>5. QED BY <1>3, <1>4 DEF new

\* Clock arithmetic stays in the natural numbers.
LEMMA ClockNat ==
  ASSUME NEW t \in Nat
  PROVE  WindowOf(t) \in Nat /\ DayOf(t) \in Nat /\ (WindowOf(t) + 1) * WindowLen \in Nat
BY TimeAssumption DEF WindowOf, DayOf

\* Days follow one another.
LEMMA DayMonotone ==
  ASSUME NEW s \in Nat, NEW t \in Nat, s <= t
  PROVE  DayOf(s) <= DayOf(t)
<1>1. DayLen \in Nat \ {0}
  BY TimeAssumption
<1>2. QED BY <1>1 DEF DayOf

\* A function on 1..n is a sequence of length n.
LEMMA FunctionIsSeq ==
  ASSUME NEW S, NEW n \in Nat, NEW f \in [1..n -> S]
  PROVE  f \in Seq(S) /\ Len(f) = n
<1>1. f \in Seq(S)
  BY SeqDef
<1>2. DOMAIN f = 1..n /\ DOMAIN f = 1..Len(f) /\ Len(f) \in Nat
  BY <1>1, LenProperties
<1>3. QED BY <1>1, <1>2

\* Settling a window keeps the type and the length of the trade table.
LEMMA SettledType ==
  ASSUME TypeOK, NEW w, NEW winners
  PROVE  Settled(w, winners) \in Seq(Trade) /\ Len(Settled(w, winners)) = Len(trades)
<1> DEFINE Row(k) == IF k \in RowsOf(w) /\ trades[k].state = "open"
                     THEN [trades[k] EXCEPT !.state = Outcome(k \in winners), !.settledAt = now]
                     ELSE trades[k]
<1>1. ASSUME NEW k \in DOMAIN trades PROVE Row(k) \in Trade
  <2>1. trades[k] \in Trade /\ now \in Nat
    BY DEF TypeOK
  <2>2. Outcome(k \in winners) \in {"won", "lost"}
    BY DEF Outcome
  <2>3. [trades[k] EXCEPT !.state = Outcome(k \in winners), !.settledAt = now] \in Trade
    BY <2>1, <2>2 DEF Trade
  <2>4. QED BY <2>1, <2>3
<1>2. Len(trades) \in Nat /\ DOMAIN trades = 1..Len(trades)
  BY DEF TypeOK
<1>3. Settled(w, winners) = [k \in 1..Len(trades) |-> Row(k)]
  BY <1>2 DEF Settled
<1> HIDE DEF Row
<1>4. Settled(w, winners) \in [1..Len(trades) -> Trade]
  BY <1>1, <1>2, <1>3
<1>5. QED BY <1>2, <1>4, FunctionIsSeq

\* What a settlement does to one row of the table.
LEMMA SettledRow ==
  ASSUME TypeOK, NEW w, NEW winners, NEW k \in DOMAIN trades
  PROVE  /\ Settled(w, winners)[k].window = trades[k].window
         /\ Settled(w, winners)[k].dry = trades[k].dry
         /\ Settled(w, winners)[k].cost = trades[k].cost
         /\ IF trades[k].window = w /\ trades[k].state = "open"
            THEN /\ Settled(w, winners)[k].state \in {"won", "lost"}
                 /\ Settled(w, winners)[k].settledAt = now
            ELSE Settled(w, winners)[k] = trades[k]
<1>1. trades[k] \in Trade
  BY DEF TypeOK
<1>2. k \in RowsOf(w) <=> trades[k].window = w
  BY DEF RowsOf
<1>3. Outcome(k \in winners) \in {"won", "lost"}
  BY DEF Outcome
<1> DEFINE o == Outcome(k \in winners)
<1> HIDE DEF o
<1>4. /\ [trades[k] EXCEPT !.state = o, !.settledAt = now].window = trades[k].window
      /\ [trades[k] EXCEPT !.state = o, !.settledAt = now].dry = trades[k].dry
      /\ [trades[k] EXCEPT !.state = o, !.settledAt = now].cost = trades[k].cost
      /\ [trades[k] EXCEPT !.state = o, !.settledAt = now].state = o
      /\ [trades[k] EXCEPT !.state = o, !.settledAt = now].settledAt = now
  BY <1>1 DEF Trade
<1>5. Settled(w, winners)[k] =
        IF trades[k].window = w /\ trades[k].state = "open"
        THEN [trades[k] EXCEPT !.state = o, !.settledAt = now] ELSE trades[k]
  BY <1>2 DEF Settled, o
<1>6. o \in {"won", "lost"}
  BY <1>3 DEF o
<1>7. QED BY <1>4, <1>5, <1>6

-----------------------------------------------------------------------------
(* Types                                                                   *)

\* Every step of the bot and of the world keeps the types.
LEMMA TypeNext == Inv /\ [Next]_vars => TypeOK'
<1> SUFFICES ASSUME Inv, [Next]_vars PROVE TypeOK'
  OBVIOUS
<1>0. TypeOK /\ AttemptInv /\ JournalInv /\ EntryInv
  BY DEF Inv
<1> USE DEF TypeOK, world, durable, memory, call
<1>1. CASE SameWindow BY <1>0, <1>1 DEF SameWindow, Step
<1>2. ASSUME NEW read \in BOOLEAN, Rotate(read) PROVE TypeOK'
  BY <1>0, <1>2, ClockNat DEF Rotate, Step, Window, TradedIn
<1>3. ASSUME NEW ok \in BOOLEAN, Discover(ok) PROVE TypeOK'
  <2>1. cur \in Window
    BY <1>0, <1>3 DEF Discover, EntryInv
  <2>2. QED BY <1>0, <1>3, <2>1 DEF Discover, Step
<1>4. CASE NoSignal BY <1>0, <1>4 DEF NoSignal, Step
<1>5. CASE SignalTooLate BY <1>0, <1>5 DEF SignalTooLate, Step
<1>6. CASE TakeSignal BY <1>0, <1>6 DEF TakeSignal, Step
<1>7. CASE NoLimitPrice BY <1>0, <1>7 DEF NoLimitPrice, Step
<1>8. CASE PaperTrade
  <2>1. NewTrade(TRUE, MaxTrade) \in Trade
    BY <1>0, <1>8, ClockNat, LimitsAssumption
    DEF PaperTrade, NewTrade, Trade, EntryInv
  <2>2. Append(trades, NewTrade(TRUE, MaxTrade)) \in Seq(Trade)
    BY <1>0, <2>1, AppendProperties
  <2>3. trades' \in {trades, Append(trades, NewTrade(TRUE, MaxTrade))}
    BY <1>8, Zenon DEF PaperTrade
  <2>4. trades' \in Seq(Trade)
    BY <1>0, <2>2, <2>3
  <2>5. paused' \in BOOLEAN
    BY <1>0, <1>8 DEF PaperTrade
  <2>6. QED BY <1>0, <1>8, <2>4, <2>5 DEF PaperTrade, Step
<1>9. CASE Reserve
  <2>1. [window |-> cur, status |-> "submitted"] \in Attempt
    BY <1>0, <1>9 DEF Reserve, EntryInv, Attempt, Status
  <2>2. [state |-> "unsent", cost |-> 0] \in Order
    BY LimitsAssumption DEF Order
  <2>3. QED BY <1>0, <1>9, <2>1, <2>2 DEF Reserve, Step
<1>10. CASE ReserveBlocked BY <1>0, <1>10 DEF ReserveBlocked, Step
<1>11. CASE PlaceOrder BY <1>0, <1>11, ClockNat DEF PlaceOrder, Step
<1>12. CASE Post
  <2>1. att \in DOMAIN orders
    BY <1>0, <1>12 DEF Post, AttemptInv, Placing, JournalInv
  <2>2. [orders EXCEPT ![att].state = "sent"] \in Seq(Order)
    BY <1>0, <2>1, OrderState
  <2>3. QED BY <1>0, <1>12, <2>2 DEF Post, Step
<1>13. ASSUME NEW status \in Status, NEW pausedAfter \in BOOLEAN, Placing,
              Finish(status, pausedAfter)
       PROVE  journal' \in Seq(Attempt) /\ paused' \in BOOLEAN
  <2>1. att \in DOMAIN journal
    BY <1>0, <1>13 DEF AttemptInv
  <2>2. [journal EXCEPT ![att].status = status] \in Seq(Attempt)
    BY <1>0, <2>1, JournalUpdate
  <2>3. QED BY <1>0, <1>13, <2>2 DEF Finish
<1>14. ASSUME NEW status \in Status, NEW retriable \in BOOLEAN, Placing,
              FailPlacement(status, retriable)
       PROVE  TypeOK'
  <2>1. (paused \/ ~retriable) \in BOOLEAN
    OBVIOUS
  <2>2. journal' \in Seq(Attempt) /\ paused' \in BOOLEAN
    BY <1>13, <1>14, <2>1 DEF FailPlacement
  <2>3. QED BY <1>0, <1>14, <2>2 DEF FailPlacement, CallDone, Step
<1>15. CASE RefusedBeforePost
  BY <1>14, <1>15 DEF RefusedBeforePost, Placing, Status
<1>16. ASSUME NEW retriable \in BOOLEAN, Refused(retriable) PROVE TypeOK'
  BY <1>14, <1>16 DEF Refused, Placing, Status
<1>17. CASE Unclear BY <1>14, <1>17 DEF Unclear, Placing, Status
<1>18. CASE RecordFill
  <2>1. att \in DOMAIN orders
    BY <1>0, <1>18 DEF RecordFill, AttemptInv, Placing, JournalInv
  <2>2. orders[att] \in Order
    BY <1>0, <2>1
  <2>3. orders[att].cost \in Nat
    BY <2>2, LimitsAssumption DEF Order
  <2>4. PICK c \in orders[att].cost..MaxTrade : trades' = Append(trades, NewTrade(FALSE, c))
    BY <1>18 DEF RecordFill
  <2>5. c \in Nat
    BY <2>3, LimitsAssumption
  <2>6. NewTrade(FALSE, c) \in Trade
    BY <1>0, <1>18, <2>5, ClockNat DEF RecordFill, NewTrade, Trade, EntryInv
  <2>7. trades' \in Seq(Trade)
    BY <1>0, <2>4, <2>6, AppendProperties
  <2>8. QED BY <1>0, <1>18, <2>7 DEF RecordFill, Step
<1>19. CASE RecordFails BY <1>0, <1>19 DEF RecordFails, CallDone, Step
<1>20. CASE FinishFill
  <2>1. journal' \in Seq(Attempt) /\ paused' \in BOOLEAN
    BY <1>0, <1>13, <1>20 DEF FinishFill, Placing, Status
  <2>2. QED BY <1>0, <1>20, <2>1 DEF FinishFill, CallDone, Step
<1>21. ASSUME NEW w \in known, NEW winners, Resolve(w, winners) PROVE TypeOK'
  <2>1. trades' \in Seq(Trade)
    BY <1>0, <1>21, SettledType DEF Resolve
  <2>2. paused' \in BOOLEAN
    BY <1>0, <1>21 DEF Resolve, KillSwitch
  <2>3. QED BY <1>0, <1>21, <2>1, <2>2 DEF Resolve
<1>22. CASE Drained BY <1>0, <1>22 DEF Drained, Step
<1>23. CASE Tick BY <1>0, <1>23 DEF Tick
<1>24. ASSUME NEW i \in DOMAIN orders, ExchangeFill(i) PROVE TypeOK'
  <2>1. ASSUME NEW c \in 1..MaxTrade
        PROVE  [orders EXCEPT ![i].state = "filled", ![i].cost = c] \in Seq(Order)
    BY <1>0, OrderFill
  <2>2. QED BY <1>0, <1>24, <2>1 DEF ExchangeFill
<1>25. ASSUME NEW i \in DOMAIN orders, ExchangeDrop(i) PROVE TypeOK'
  <2>1. [orders EXCEPT ![i].state = "dead"] \in Seq(Order)
    BY <1>0, OrderState
  <2>2. QED BY <1>0, <1>25, <2>1 DEF ExchangeDrop
<1>26. CASE Pause BY <1>0, <1>26 DEF Pause
<1>27. CASE Resume BY <1>0, <1>27 DEF Resume
<1>28. CASE DryRunOn BY <1>0, <1>28 DEF DryRunOn
<1>29. CASE Crash BY <1>0, <1>29 DEF Crash, Blank, CallDone, Step
<1>30. ASSUME NEW dry \in BOOLEAN, Start(dry) PROVE TypeOK'
  BY <1>0, <1>30 DEF Start, Blank, CallDone, Step
<1>31. CASE UNCHANGED vars BY <1>0, <1>31 DEF vars
<1>32. QED
  BY <1>1, <1>2, <1>3, <1>4, <1>5, <1>6, <1>7, <1>8, <1>9, <1>10, <1>11, <1>12,
     <1>15, <1>16, <1>17, <1>18, <1>19, <1>20, <1>21, <1>22, <1>23, <1>24, <1>25,
     <1>26, <1>27, <1>28, <1>29, <1>30, <1>31
  DEF Next, MainLoop, World

-----------------------------------------------------------------------------
(* What a step leaves of the ledger                                        *)

\* A step that writes none of the three tables keeps the journal's invariant.
LEMMA JournalQuiet ==
  ASSUME JournalInv, UNCHANGED <<orders, journal, trades>>
  PROVE  JournalInv'
BY DEF JournalInv, Possible, Ambiguous, BookedBy

\* Rows are never removed, and neither the window, the kind nor the cost of a
\* row changes: a booked attempt stays booked.
Grows == /\ DOMAIN trades \subseteq DOMAIN trades'
         /\ \A k \in DOMAIN trades : /\ trades'[k].window = trades[k].window
                                      /\ trades'[k].dry = trades[k].dry
                                      /\ trades'[k].cost = trades[k].cost

\* Appending a trade, settling a window and leaving the table alone all do so.
LEMMA AppendGrows ==
  ASSUME TypeOK, NEW t \in Trade, trades' = Append(trades, t)
  PROVE  /\ Grows
         /\ DOMAIN trades' = DOMAIN trades \cup {Len(trades) + 1}
         /\ Len(trades) + 1 \notin DOMAIN trades
         /\ trades'[Len(trades) + 1] = t
<1>1. trades \in Seq(Trade)
  BY DEF TypeOK
<1>2. /\ Len(trades) \in Nat /\ DOMAIN trades = 1..Len(trades)
      /\ trades' \in Seq(Trade) /\ Len(trades') = Len(trades) + 1
      /\ \A k \in 1..Len(trades) : trades'[k] = trades[k]
      /\ trades'[Len(trades) + 1] = t
  BY <1>1, AppendProperties
<1>3. DOMAIN trades' = 1..(Len(trades) + 1)
  BY <1>2
<1>4. QED BY <1>2, <1>3 DEF Grows

LEMMA SettledGrows ==
  ASSUME TypeOK, NEW w, NEW winners, trades' \in {Settled(w, winners), trades}
  PROVE  /\ Grows
         /\ DOMAIN trades' = DOMAIN trades
<1>1. CASE trades' = trades
  BY <1>1 DEF Grows
<1>2. CASE trades' = Settled(w, winners)
  <2>1. DOMAIN trades' = DOMAIN trades
    BY <1>2 DEF Settled
  <2>2. QED BY <1>2, <2>1, SettledRow DEF Grows
<1>3. QED BY <1>1, <1>2

\* When the two other tables are untouched, growing trades keep the journal's
\* invariant.
LEMMA JournalGrows ==
  ASSUME JournalInv, UNCHANGED <<orders, journal>>, Grows
  PROVE  JournalInv'
<1>1. \A i, k : k \in DOMAIN trades /\ BookedBy(i, k) => k \in DOMAIN trades' /\ BookedBy(i, k)'
  BY DEF Grows, BookedBy
<1>2. QED BY <1>1 DEF JournalInv, Possible, Ambiguous

-----------------------------------------------------------------------------
(* The invariant, step by step                                             *)

\* The parts of Inv beside the types.
Ledger == AttemptInv /\ JournalInv /\ EntryInv

\* A reservation that passes the check finds every attempt reconciled.
LEMMA NoneAmbiguous ==
  ASSUME TypeOK, NEW w, NEW c, Check(Snapshot(w), c)
  PROVE  \A i \in DOMAIN journal : ~Ambiguous(i)
<1>1. Cardinality(AmbiguousRows) = 0
  BY DEF Check, Snapshot
<1>2. Len(journal) \in Nat /\ DOMAIN journal = 1..Len(journal)
  BY DEF TypeOK
<1>3. IsFiniteSet(1..Len(journal))
  BY <1>2, FS_Interval
<1>4. IsFiniteSet(AmbiguousRows)
  BY <1>2, <1>3, FS_Subset DEF AmbiguousRows
<1>5. AmbiguousRows = {}
  BY <1>1, <1>4, FS_EmptySet
<1>6. QED BY <1>5 DEF AmbiguousRows

\* A window has a live row as long as the table has it.
LEMMA LiveInSame ==
  ASSUME UNCHANGED <<trades, cur>>
  PROVE  LiveIn(cur)' <=> LiveIn(cur)
BY DEF LiveIn, LiveRows

\* The operator and the clock touch nothing the ledger speaks of.
LEMMA OutsideStep ==
  ASSUME Inv, UNCHANGED <<orders, journal, trades, cur, pc, att>>
  PROVE  Ledger'
<1>1. JournalInv'
  BY JournalQuiet DEF Inv
<1>2. AttemptInv' /\ EntryInv'
  BY LiveInSame DEF Inv, AttemptInv, Placing, EntryInv, BookedBy
<1>3. QED BY <1>1, <1>2 DEF Ledger

\* A step of the main loop that writes no table and is not placing an order.
LEMMA QuietStep ==
  ASSUME Inv, UNCHANGED <<orders, journal, trades>>, ~Placing',
         pc' \in {"down", "tick"} \/ cur' \in Window
  PROVE  Ledger'
<1>1. JournalInv'
  BY JournalQuiet DEF Inv
<1>2. AttemptInv' /\ EntryInv'
  BY DEF AttemptInv, EntryInv, Placing
<1>3. QED BY <1>1, <1>2 DEF Ledger

\* A process that starts or dies forgets everything but the tables.
LEMMA BlankStep ==
  ASSUME Inv, Blank, pc' \in {"down", "tick"}
  PROVE  Ledger'
BY QuietStep DEF Blank, world, durable, Placing

\* Closing an attempt with the status its outcome justifies.
LEMMA FinishStep ==
  ASSUME Inv, Placing, UNCHANGED <<orders, trades>>,
         NEW status \in {"rejected", "unknown", "filled"},
         journal' \in {journal, [journal EXCEPT ![att].status = status]},
         status = "rejected" => ~Possible(att),
         status = "filled" => \E k \in DOMAIN trades : BookedBy(att, k)
  PROVE  JournalInv'
<1>1. CASE journal' = journal
  BY <1>1, JournalQuiet DEF Inv
<1>2. CASE journal' = [journal EXCEPT ![att].status = status]
  <2>1. /\ att \in DOMAIN journal /\ att = Len(journal)
        /\ journal[att].status = "submitted"
    BY DEF Inv, AttemptInv
  <2>2. \A i \in DOMAIN journal : journal[i] \in Attempt
    BY DEF Inv, TypeOK
  <2>3. /\ DOMAIN journal' = DOMAIN journal /\ Len(journal') = Len(journal)
        /\ \A i \in DOMAIN journal : journal'[i].window = journal[i].window
        /\ \A i \in DOMAIN journal \ {att} : journal'[i].status = journal[i].status
        /\ journal'[att].status = status
    BY <1>2, <2>1, <2>2, JournalUpdate DEF Inv, TypeOK, Attempt, Status
  <2>4. ASSUME NEW i \in DOMAIN journal'
        PROVE  /\ journal'[i].status = "rejected" => ~Possible(i)'
               /\ journal'[i].status = "filled" => \E k \in DOMAIN trades' : BookedBy(i, k)'
               /\ Ambiguous(i)' => i = Len(journal')
    <3>1. CASE i = att
      BY <2>1, <2>3, <3>1 DEF Possible, BookedBy
    <3>2. CASE i # att
      BY <2>1, <2>3, <3>2 DEF Inv, JournalInv, Possible, BookedBy, Ambiguous
    <3>3. QED BY <3>1, <3>2
  <2>5. ASSUME NEW i \in DOMAIN journal', NEW j \in DOMAIN journal',
               i # j, journal'[i].window = journal'[j].window
        PROVE  "rejected" \in {journal'[i].status, journal'[j].status}
    BY <2>1, <2>3, <2>5 DEF Inv, JournalInv
  <2>6. Len(orders') = Len(journal')
    BY <2>3 DEF Inv, JournalInv
  <2>7. QED BY <2>4, <2>5, <2>6 DEF JournalInv
<1>3. QED BY <1>1, <1>2

\* Every step keeps the ledger's part of the invariant.
LEMMA LedgerNext == Inv /\ [Next]_vars => Ledger'
<1> SUFFICES ASSUME Inv, [Next]_vars PROVE Ledger'
  OBVIOUS
<1>0. TypeOK /\ AttemptInv /\ JournalInv /\ EntryInv
  BY DEF Inv
<1> USE DEF world, durable, memory, call
<1>1. CASE SameWindow
  <2>1. cur \in Window
    BY <1>0, <1>1, ClockNat DEF SameWindow, TypeOK, Window
  <2>2. QED BY <1>1, <2>1, QuietStep DEF SameWindow, Placing
<1>2. ASSUME NEW read \in BOOLEAN, Rotate(read) PROVE Ledger'
  <2>1. cur' \in Window
    BY <1>0, <1>2, ClockNat DEF Rotate, TypeOK, Window
  <2>2. QED BY <1>2, <2>1, QuietStep DEF Rotate, Placing
<1>3. ASSUME NEW ok \in BOOLEAN, Discover(ok) PROVE Ledger'
  BY <1>0, <1>3, QuietStep DEF Discover, Placing, EntryInv
<1>4. CASE NoSignal
  BY <1>0, <1>4, QuietStep DEF NoSignal, Placing, EntryInv
<1>5. CASE SignalTooLate
  BY <1>0, <1>5, QuietStep DEF SignalTooLate, Placing, EntryInv
<1>6. CASE TakeSignal
  BY <1>0, <1>6, QuietStep DEF TakeSignal, Placing, EntryInv
<1>7. CASE NoLimitPrice
  BY <1>0, <1>7, QuietStep DEF NoLimitPrice, Placing, EntryInv
<1>8. CASE PaperTrade
  <2>1. /\ pc = "paper" /\ pc' = "drain" /\ cur \in Window
        /\ UNCHANGED <<orders, journal, cur>>
    BY <1>0, <1>8 DEF PaperTrade, EntryInv
  <2>2. CASE trades' = trades
    BY <2>1, <2>2, QuietStep DEF Placing
  <2>3. CASE trades' = Append(trades, NewTrade(TRUE, MaxTrade))
    <3>1. NewTrade(TRUE, MaxTrade) \in Trade
      BY <1>0, <2>1, ClockNat, LimitsAssumption DEF NewTrade, Trade, TypeOK
    <3>2. JournalInv'
      BY <1>0, <2>1, <2>3, <3>1, AppendGrows, JournalGrows
    <3>3. AttemptInv' /\ EntryInv'
      BY <2>1 DEF AttemptInv, Placing, EntryInv
    <3>4. QED BY <3>2, <3>3 DEF Ledger
  <2>4. QED BY <1>8, <2>2, <2>3 DEF PaperTrade
<1>9. CASE Reserve
  <2> DEFINE row == [window |-> cur, status |-> "submitted"]
             order == [state |-> "unsent", cost |-> 0]
             n == Len(journal) + 1
  <2>1. row \in Attempt /\ order \in Order
    BY <1>0, <1>9, LimitsAssumption DEF Reserve, EntryInv, Attempt, Status, Order
  <2>2. /\ DOMAIN journal = 1..Len(journal) /\ Len(journal) \in Nat
        /\ DOMAIN journal' = 1..n /\ Len(journal') = n
        /\ \A i \in DOMAIN journal : journal'[i] = journal[i]
        /\ journal'[n] = row
    BY <1>0, <1>9, <2>1, AppendProperties DEF Reserve, TypeOK
  <2>3. /\ DOMAIN orders = 1..Len(journal)
        /\ Len(orders') = n
        /\ \A i \in DOMAIN journal : orders'[i] = orders[i]
        /\ orders'[n] = order
    BY <1>0, <1>9, <2>1, <2>2, AppendProperties DEF Reserve, TypeOK, JournalInv
  <2>4. \A i \in DOMAIN journal : ~Ambiguous(i)
    BY <1>0, <1>9, NoneAmbiguous DEF Reserve
  <2>5. ASSUME NEW i \in DOMAIN journal'
        PROVE  /\ journal'[i].status = "rejected" => ~Possible(i)'
               /\ journal'[i].status = "filled" => \E k \in DOMAIN trades' : BookedBy(i, k)'
               /\ Ambiguous(i)' => i = Len(journal')
    <3>1. CASE i = n
      BY <2>2, <3>1
    <3>2. CASE i \in DOMAIN journal
      <4>1. journal'[i] = journal[i] /\ orders'[i] = orders[i] /\ trades' = trades
        BY <1>9, <2>2, <2>3, <3>2 DEF Reserve
      <4>2. QED BY <1>0, <2>4, <3>2, <4>1
                DEF JournalInv, Possible, BookedBy, Ambiguous
    <3>3. QED BY <2>2, <3>1, <3>2
  <2>6. \A i \in DOMAIN journal : journal[i].window = cur => journal[i].status = "rejected"
    BY <1>9 DEF Reserve, WindowTaken
  <2>7. ASSUME NEW i \in DOMAIN journal', NEW j \in DOMAIN journal',
               i # j, journal'[i].window = journal'[j].window
        PROVE  "rejected" \in {journal'[i].status, journal'[j].status}
    <3>1. CASE i = n
      <4>1. j \in DOMAIN journal
        BY <2>2, <2>7, <3>1
      <4>2. QED BY <2>2, <2>6, <2>7, <3>1, <4>1
    <3>2. CASE j = n
      <4>1. i \in DOMAIN journal
        BY <2>2, <2>7, <3>2
      <4>2. QED BY <2>2, <2>6, <2>7, <3>2, <4>1
    <3>3. CASE i \in DOMAIN journal /\ j \in DOMAIN journal
      BY <1>0, <2>2, <2>7, <3>3 DEF JournalInv
    <3>4. QED BY <2>2, <3>1, <3>2, <3>3
  <2>8. JournalInv'
    BY <2>2, <2>3, <2>5, <2>7 DEF JournalInv
  <2>9. /\ att' = n /\ pc' = "place" /\ cur' = cur /\ cur \in Window
        /\ trades' = trades
    BY <1>0, <1>9 DEF Reserve, EntryInv
  <2>10. AttemptInv'
    BY <2>2, <2>3, <2>9 DEF AttemptInv
  <2>11. EntryInv'
    <3>1. ~LiveIn(cur)
      BY <1>9 DEF Reserve, Check, Snapshot
    <3>2. QED BY <2>9, <3>1, LiveInSame DEF EntryInv
  <2>12. QED BY <2>8, <2>10, <2>11 DEF Ledger
<1>10. CASE ReserveBlocked
  BY <1>0, <1>10, QuietStep DEF ReserveBlocked, Placing, EntryInv
<1>11. CASE PlaceOrder
  <2>1. JournalInv'
    BY <1>0, <1>11, JournalQuiet DEF PlaceOrder
  <2>2. AttemptInv'
    BY <1>0, <1>11 DEF PlaceOrder, AttemptInv, Placing
  <2>3. EntryInv'
    BY <1>0, <1>11, LiveInSame DEF PlaceOrder, EntryInv
  <2>4. QED BY <2>1, <2>2, <2>3 DEF Ledger
<1>12. CASE Post
  <2>1. /\ att \in DOMAIN journal /\ att = Len(journal)
        /\ journal[att].status = "submitted" /\ DOMAIN orders = DOMAIN journal
        /\ orders \in Seq(Order) /\ cur \in Window /\ ~LiveIn(cur)
    BY <1>0, <1>12 DEF Post, AttemptInv, Placing, JournalInv, EntryInv, TypeOK
  <2>2. /\ DOMAIN orders' = DOMAIN orders /\ Len(orders') = Len(orders)
        /\ \A i \in DOMAIN orders \ {att} : orders'[i] = orders[i]
        /\ UNCHANGED <<journal, trades, cur, att>> /\ pc' = "wait"
    BY <1>12, <2>1, OrderState DEF Post
  <2>3. JournalInv'
    BY <1>0, <2>1, <2>2 DEF JournalInv, Possible, Ambiguous, BookedBy
  <2>4. AttemptInv' /\ EntryInv'
    BY <1>0, <1>12, <2>1, <2>2, LiveInSame DEF Post, AttemptInv, EntryInv, Placing
  <2>5. QED BY <2>3, <2>4 DEF Ledger
<1>13. ASSUME NEW status \in {"rejected", "unknown"}, NEW retriable \in BOOLEAN,
              pc \in {"sign", "wait"}, FailPlacement(status, retriable),
              status = "rejected" => ~Possible(att)
       PROVE  Ledger'
  <2>1. /\ Placing /\ UNCHANGED <<orders, trades, cur>> /\ pc' = "tick"
        /\ journal' \in {journal, [journal EXCEPT ![att].status = status]}
    BY <1>13 DEF FailPlacement, Finish, Placing
  <2>2. JournalInv'
    BY <1>13, <2>1, FinishStep
  <2>3. AttemptInv' /\ EntryInv'
    BY <2>1 DEF AttemptInv, Placing, EntryInv
  <2>4. QED BY <2>2, <2>3 DEF Ledger
<1>14. CASE RefusedBeforePost
  BY <1>0, <1>13, <1>14 DEF RefusedBeforePost, AttemptInv, Placing, Possible
<1>15. ASSUME NEW retriable \in BOOLEAN, Refused(retriable) PROVE Ledger'
  BY <1>13, <1>15 DEF Refused, Possible
<1>16. CASE Unclear
  BY <1>13, <1>16 DEF Unclear
<1>17. CASE RecordFill
  <2>1. /\ att \in DOMAIN journal /\ DOMAIN orders = DOMAIN journal
        /\ journal[att].window = cur /\ cur \in Window
        /\ att = Len(journal) /\ journal[att].status = "submitted"
    BY <1>0, <1>17 DEF RecordFill, AttemptInv, Placing, JournalInv, EntryInv, TypeOK
  <2>2. orders[att] \in Order
    BY <1>0, <2>1 DEF TypeOK
  <2>3. orders[att].cost \in Nat
    BY <2>2, LimitsAssumption DEF Order
  <2>4. PICK c \in orders[att].cost..MaxTrade : trades' = Append(trades, NewTrade(FALSE, c))
    BY <1>17 DEF RecordFill
  <2>5. c \in Nat /\ orders[att].cost <= c
    BY <2>3, LimitsAssumption
  <2>6. /\ NewTrade(FALSE, c) \in Trade /\ NewTrade(FALSE, c).window = cur
        /\ ~NewTrade(FALSE, c).dry /\ NewTrade(FALSE, c).cost = c
    BY <1>0, <2>1, <2>5, ClockNat DEF NewTrade, Trade, TypeOK
  <2>7. UNCHANGED <<orders, journal, cur, att>> /\ pc' = "finish" /\ orders[att].state = "filled"
    BY <1>17 DEF RecordFill
  <2>8. /\ Grows /\ Len(trades) + 1 \in DOMAIN trades'
        /\ trades'[Len(trades) + 1] = NewTrade(FALSE, c)
    BY <1>0, <2>4, <2>6, AppendGrows
  <2>9. JournalInv'
    BY <1>0, <2>7, <2>8, JournalGrows
  <2>10. ASSUME NEW k, k = Len(trades) + 1 PROVE BookedBy(att, k)'
    <3>1. trades'[k].window = journal'[att'].window
      BY <2>1, <2>6, <2>7, <2>8, <2>10
    <3>2. /\ ~trades'[k].dry
          /\ orders'[att'].state = "filled" /\ orders'[att'].cost <= trades'[k].cost
      BY <2>5, <2>6, <2>7, <2>8, <2>10
    <3>3. QED BY <3>1, <3>2 DEF BookedBy
  <2>11. \E k \in DOMAIN trades' : BookedBy(att, k)'
    BY <2>8, <2>10
  <2>12. AttemptInv'
    BY <2>1, <2>7, <2>11 DEF AttemptInv
  <2>13. EntryInv'
    BY <2>1, <2>7 DEF EntryInv
  <2>14. QED BY <2>9, <2>12, <2>13 DEF Ledger
<1>18. CASE RecordFails
  BY <1>0, <1>18, QuietStep DEF RecordFails, Placing, EntryInv
<1>19. CASE FinishFill
  <2>1. /\ Placing /\ UNCHANGED <<orders, trades, cur>> /\ pc' = "drain"
        /\ journal' \in {journal, [journal EXCEPT ![att].status = "filled"]}
        /\ cur \in Window /\ pc = "finish"
    BY <1>0, <1>19 DEF FinishFill, Finish, Placing, EntryInv
  <2>2. JournalInv'
    BY <1>0, <2>1, FinishStep DEF AttemptInv
  <2>3. AttemptInv' /\ EntryInv'
    BY <2>1 DEF AttemptInv, Placing, EntryInv
  <2>4. QED BY <2>2, <2>3 DEF Ledger
<1>20. ASSUME NEW w \in known, NEW winners, Resolve(w, winners) PROVE Ledger'
  <2>1. /\ UNCHANGED <<orders, journal, pc, cur>> /\ pc = "drain"
        /\ trades' \in {Settled(w, winners), trades}
    BY <1>20 DEF Resolve
  <2>2. Grows /\ DOMAIN trades' = DOMAIN trades
    BY <1>0, <2>1, SettledGrows
  <2>3. JournalInv'
    BY <1>0, <2>1, <2>2, JournalGrows
  <2>4. AttemptInv' /\ EntryInv'
    BY <1>0, <2>1 DEF AttemptInv, Placing, EntryInv
  <2>5. QED BY <2>3, <2>4 DEF Ledger
<1>21. CASE Drained
  BY <1>0, <1>21, QuietStep DEF Drained, Placing, EntryInv
<1>22. CASE Tick BY <1>22, OutsideStep DEF Tick
<1>23. ASSUME NEW i \in DOMAIN orders, NEW order \in Order, orders[i].state = "sent",
              orders' = [orders EXCEPT ![i] = order], order.state # "unsent",
              UNCHANGED <<journal, trades, cur, pc, att>>
       PROVE  Ledger'
  <2>1. /\ DOMAIN orders' = DOMAIN orders /\ Len(orders') = Len(orders)
        /\ \A j \in DOMAIN orders \ {i} : orders'[j] = orders[j]
        /\ DOMAIN orders = DOMAIN journal
    BY <1>0, <1>23, ExceptSeq DEF TypeOK, JournalInv
  <2>2. ~(\E k \in DOMAIN trades : BookedBy(i, k)) /\ journal[i].status # "rejected"
    BY <1>0, <1>23, <2>1 DEF BookedBy, JournalInv, Possible
  <2>3. JournalInv'
    BY <1>0, <1>23, <2>1, <2>2 DEF JournalInv, Possible, Ambiguous, BookedBy
  <2>4. AttemptInv'
    BY <1>0, <1>23, <2>1, <2>2 DEF AttemptInv, Placing, BookedBy
  <2>5. EntryInv'
    BY <1>0, <1>23, LiveInSame DEF EntryInv
  <2>6. QED BY <2>3, <2>4, <2>5 DEF Ledger
<1>24. ASSUME NEW i \in DOMAIN orders, ExchangeFill(i) PROVE Ledger'
  <2>1. PICK c \in 1..MaxTrade :
          orders' = [orders EXCEPT ![i].state = "filled", ![i].cost = c]
    BY <1>24 DEF ExchangeFill
  <2>2. orders[i] \in Order
    BY <1>0 DEF TypeOK
  <2>3. c \in 0..MaxTrade
    BY LimitsAssumption
  <2> DEFINE order == [orders[i] EXCEPT !.state = "filled", !.cost = c]
  <2>4. order \in Order /\ order.state # "unsent"
    BY <2>2, <2>3 DEF Order
  <2>5. orders' = [orders EXCEPT ![i] = order]
    BY <2>1
  <2>6. QED BY <1>23, <1>24, <2>4, <2>5 DEF ExchangeFill
<1>25. ASSUME NEW i \in DOMAIN orders, ExchangeDrop(i) PROVE Ledger'
  <2>1. orders[i] \in Order
    BY <1>0 DEF TypeOK
  <2> DEFINE order == [orders[i] EXCEPT !.state = "dead"]
  <2>2. order \in Order /\ order.state # "unsent"
    BY <2>1 DEF Order
  <2>3. orders' = [orders EXCEPT ![i] = order]
    BY <1>25 DEF ExchangeDrop
  <2>4. QED BY <1>23, <1>25, <2>2, <2>3 DEF ExchangeDrop
<1>26. CASE Pause BY <1>26, OutsideStep DEF Pause
<1>27. CASE Resume BY <1>27, OutsideStep DEF Resume
<1>28. CASE DryRunOn BY <1>28, OutsideStep DEF DryRunOn
<1>29. CASE Crash BY <1>29, BlankStep DEF Crash
<1>30. ASSUME NEW dry \in BOOLEAN, Start(dry) PROVE Ledger'
  BY <1>30, BlankStep DEF Start
<1>31. CASE UNCHANGED vars BY <1>31, OutsideStep DEF vars
<1>32. QED
  BY <1>1, <1>2, <1>3, <1>4, <1>5, <1>6, <1>7, <1>8, <1>9, <1>10, <1>11, <1>12,
     <1>14, <1>15, <1>16, <1>17, <1>18, <1>19, <1>20, <1>21, <1>22, <1>24, <1>25,
     <1>26, <1>27, <1>28, <1>29, <1>30, <1>31
  DEF Next, MainLoop, World

-----------------------------------------------------------------------------
(* Every position has its attempt                                          *)

\* An attempt that has bought a position stays in the journal, not rejected, and
\* what the exchange took for it does not change.
KeepsBooked ==
  \A i \in DOMAIN journal : journal[i].status # "rejected" /\ orders[i].state = "filled" =>
    /\ i \in DOMAIN journal'
    /\ journal'[i].window = journal[i].window
    /\ journal'[i].status # "rejected"
    /\ orders'[i].state = "filled"
    /\ orders'[i].cost = orders[i].cost

\* A step that leaves the trades alone and keeps what was bought ...
LEMMA RowQuiet ==
  ASSUME Inv, trades' = trades, now' \in Nat, now <= now', KeepsBooked
  PROVE  RowInv'
<1>1. ASSUME NEW k \in DOMAIN trades
      PROVE  trades[k].settledAt \in Nat /\ trades[k].settledAt <= now
  <2>1. trades[k] \in Trade
    BY DEF Inv, TypeOK
  <2>2. QED BY <2>1 DEF Inv, RowInv, Trade
<1>2. \A k \in DOMAIN trades : trades[k].settledAt <= now'
  BY <1>1 DEF Inv, TypeOK
<1>3. ASSUME NEW k \in LiveRows
      PROVE  \E i \in DOMAIN journal' : journal'[i].status # "rejected" /\ BookedBy(i, k)'
  <2>1. PICK i \in DOMAIN journal : journal[i].status # "rejected" /\ BookedBy(i, k)
    BY DEF Inv, RowInv
  <2>2. i \in DOMAIN journal' /\ journal'[i].status # "rejected" /\ BookedBy(i, k)'
    BY <2>1 DEF KeepsBooked, BookedBy
  <2>3. QED BY <2>2
<1>4. LiveRows' = LiveRows
  BY DEF LiveRows
<1>5. \A k, m \in LiveRows' : trades'[k].window = trades'[m].window => k = m
  BY <1>4 DEF Inv, RowInv
<1>6. QED BY <1>2, <1>3, <1>4, <1>5 DEF RowInv

\* ... one that writes none of the tables among them.
LEMMA RowSame ==
  ASSUME Inv, UNCHANGED <<now, orders, journal, trades>>
  PROVE  RowInv'
BY RowQuiet DEF KeepsBooked, Inv, TypeOK

\* Closing an attempt that did not buy anything, or does not become rejected.
LEMMA RowFinish ==
  ASSUME Inv, Placing, UNCHANGED <<now, orders, trades>>,
         NEW status \in {"rejected", "unknown", "filled"},
         journal' \in {journal, [journal EXCEPT ![att].status = status]},
         status = "rejected" => ~Possible(att)
  PROVE  RowInv'
<1>1. att \in DOMAIN journal /\ journal \in Seq(Attempt) /\ journal[att] \in Attempt
  BY DEF Inv, TypeOK, AttemptInv
<1>2. KeepsBooked
  <2>1. CASE journal' = journal
    BY <2>1 DEF KeepsBooked
  <2>2. CASE journal' = [journal EXCEPT ![att].status = status]
    BY <1>1, <2>2 DEF KeepsBooked, Possible, Attempt
  <2>3. QED BY <2>1, <2>2
<1>3. QED BY <1>2, RowQuiet DEF Inv, TypeOK

\* A new live row is that of the attempt just filled, of a window that had none; a
\* paper row needs neither.
LEMMA RowAppend ==
  ASSUME Inv, NEW t \in Trade, trades' = Append(trades, t), t.settledAt = 0,
         UNCHANGED <<now, orders, journal>>,
         ~t.dry => \E i \in DOMAIN journal : /\ journal[i].status # "rejected"
                                             /\ journal[i].window = t.window
                                             /\ orders[i].state = "filled"
                                             /\ orders[i].cost <= t.cost,
         ~t.dry => ~LiveIn(t.window)
  PROVE  RowInv'
<1> DEFINE n == Len(trades) + 1
<1>1. /\ Grows /\ DOMAIN trades' = DOMAIN trades \cup {n} /\ trades'[n] = t
      /\ n \notin DOMAIN trades
  BY AppendGrows DEF Inv
<1>2. \A k \in DOMAIN trades : trades'[k] = trades[k]
  BY AppendProperties DEF Inv, TypeOK
<1> HIDE DEF n
<1>3. ASSUME NEW k \in LiveRows'
      PROVE  \E i \in DOMAIN journal : journal[i].status # "rejected" /\ BookedBy(i, k)'
  <2>1. CASE k = n
    BY <1>1, <1>3, <2>1 DEF LiveRows, BookedBy
  <2>2. CASE k \in DOMAIN trades
    <3>1. k \in LiveRows
      BY <1>2, <1>3, <2>2 DEF LiveRows
    <3>2. PICK i \in DOMAIN journal : journal[i].status # "rejected" /\ BookedBy(i, k)
      BY <3>1 DEF Inv, RowInv
    <3>3. BookedBy(i, k)'
      BY <1>2, <2>2, <3>2 DEF BookedBy
    <3>4. QED BY <3>2, <3>3
  <2>3. QED BY <1>1, <1>3, <2>1, <2>2 DEF LiveRows
<1>4. \A k \in DOMAIN trades' : trades'[k].settledAt <= now
  BY <1>1, <1>2 DEF Inv, RowInv, TypeOK
<1>5. LiveRows' = LiveRows \cup (IF t.dry THEN {} ELSE {n})
  BY <1>1, <1>2 DEF LiveRows
<1>6. ASSUME ~t.dry, NEW k \in LiveRows PROVE trades[k].window # t.window
  BY <1>6 DEF LiveIn
<1>7. ASSUME NEW k \in LiveRows', NEW m \in LiveRows', trades'[k].window = trades'[m].window
      PROVE  k = m
  <2>1. \A j \in LiveRows : trades'[j] = trades[j]
    BY <1>2 DEF LiveRows
  <2>2. QED BY <1>1, <1>5, <1>6, <1>7, <2>1 DEF Inv, RowInv
<1>8. QED BY <1>3, <1>4, <1>7 DEF RowInv

\* A settlement keeps the rows' attempts and stamps them with the present.
LEMMA RowSettle ==
  ASSUME Inv, NEW w, NEW winners, trades' \in {Settled(w, winners), trades},
         UNCHANGED <<now, orders, journal>>
  PROVE  RowInv'
<1>1. Grows /\ DOMAIN trades' = DOMAIN trades
  BY SettledGrows DEF Inv
<1>2. LiveRows' = LiveRows
  BY <1>1 DEF LiveRows, Grows
<1>3. ASSUME NEW k \in LiveRows
      PROVE  \E i \in DOMAIN journal : journal[i].status # "rejected" /\ BookedBy(i, k)'
  <2>1. PICK i \in DOMAIN journal : journal[i].status # "rejected" /\ BookedBy(i, k)
    BY DEF Inv, RowInv
  <2>2. BookedBy(i, k)'
    BY <1>1, <2>1 DEF BookedBy, Grows, LiveRows
  <2>3. QED BY <2>1, <2>2
<1>4. \A k, m \in LiveRows : trades'[k].window = trades'[m].window => k = m
  BY <1>1 DEF Inv, RowInv, Grows, LiveRows
<1>5. ASSUME NEW k \in DOMAIN trades PROVE trades'[k].settledAt <= now
  <2>1. now \in Nat /\ trades[k].settledAt <= now
    BY DEF Inv, TypeOK, RowInv
  <2>2. trades'[k] = trades[k] \/ trades'[k].settledAt = now
    BY SettledRow DEF Inv
  <2>3. QED BY <2>1, <2>2
<1>6. QED BY <1>1, <1>2, <1>3, <1>4, <1>5 DEF RowInv

\* Every step keeps the attempts of the positions.
LEMMA RowNext == Inv /\ [Next]_vars => RowInv'
<1> SUFFICES ASSUME Inv, [Next]_vars PROVE RowInv'
  OBVIOUS
<1>0. TypeOK /\ AttemptInv /\ JournalInv /\ EntryInv
  BY DEF Inv
<1> USE DEF world, durable, memory, call
<1>1. CASE UNCHANGED <<now, orders, journal, trades>>
  BY <1>1, RowSame
<1>2. CASE PaperTrade
  <2>1. CASE trades' = trades
    BY <1>2, <2>1, RowSame DEF PaperTrade
  <2>2. CASE trades' = Append(trades, NewTrade(TRUE, MaxTrade))
    <3>1. /\ NewTrade(TRUE, MaxTrade) \in Trade
          /\ NewTrade(TRUE, MaxTrade).dry /\ NewTrade(TRUE, MaxTrade).settledAt = 0
      BY <1>0, <1>2, ClockNat, LimitsAssumption DEF PaperTrade, NewTrade, Trade, TypeOK, EntryInv
    <3>2. QED BY <1>2, <2>2, <3>1, RowAppend DEF PaperTrade
  <2>3. QED BY <1>2, <2>1, <2>2 DEF PaperTrade
<1>3. CASE Reserve
  <2>1. /\ [window |-> cur, status |-> "submitted"] \in Attempt
        /\ [state |-> "unsent", cost |-> 0] \in Order
    BY <1>0, <1>3, LimitsAssumption DEF Reserve, EntryInv, Attempt, Status, Order
  <2>2. \A i \in DOMAIN journal : i \in DOMAIN journal' /\ journal'[i] = journal[i]
    BY <1>0, <1>3, <2>1, AppendProperties DEF Reserve, TypeOK
  <2>3. \A i \in DOMAIN journal : orders'[i] = orders[i]
    BY <1>0, <1>3, <2>1, AppendProperties DEF Reserve, TypeOK, JournalInv
  <2>4. KeepsBooked
    BY <2>2, <2>3 DEF KeepsBooked
  <2>5. QED BY <1>0, <1>3, <2>4, RowQuiet DEF Reserve, TypeOK
<1>4. CASE Post
  <2>1. /\ att \in DOMAIN orders /\ orders[att].state = "unsent"
        /\ DOMAIN orders = DOMAIN journal
    BY <1>0, <1>4 DEF Post, AttemptInv, Placing, JournalInv, TypeOK
  <2>2. KeepsBooked
    BY <1>4, <2>1 DEF Post, KeepsBooked
  <2>3. QED BY <1>0, <1>4, <2>2, RowQuiet DEF Post, TypeOK
<1>5. ASSUME NEW status \in {"rejected", "unknown"}, NEW retriable \in BOOLEAN,
             pc \in {"sign", "wait"}, FailPlacement(status, retriable),
             status = "rejected" => ~Possible(att)
      PROVE  RowInv'
  <2>1. /\ Placing /\ UNCHANGED <<now, orders, trades>>
        /\ journal' \in {journal, [journal EXCEPT ![att].status = status]}
    BY <1>5 DEF FailPlacement, Finish, Placing
  <2>2. QED BY <1>5, <2>1, RowFinish
<1>6. CASE RefusedBeforePost
  BY <1>0, <1>5, <1>6 DEF RefusedBeforePost, AttemptInv, Placing, Possible
<1>7. ASSUME NEW retriable \in BOOLEAN, Refused(retriable) PROVE RowInv'
  BY <1>5, <1>7 DEF Refused, Possible
<1>8. CASE Unclear
  BY <1>5, <1>8 DEF Unclear
<1>9. CASE RecordFill
  <2>1. /\ att \in DOMAIN journal /\ att \in DOMAIN orders /\ journal[att].window = cur
        /\ cur \in Window /\ journal[att].status = "submitted" /\ ~LiveIn(cur)
    BY <1>0, <1>9 DEF RecordFill, AttemptInv, Placing, JournalInv, EntryInv, TypeOK
  <2>2. orders[att] \in Order
    BY <1>0, <2>1 DEF TypeOK
  <2>3. orders[att].cost \in Nat
    BY <2>2, LimitsAssumption DEF Order
  <2>4. PICK c \in orders[att].cost..MaxTrade : trades' = Append(trades, NewTrade(FALSE, c))
    BY <1>9 DEF RecordFill
  <2>5. c \in Nat /\ orders[att].cost <= c
    BY <2>3, LimitsAssumption
  <2>6. /\ NewTrade(FALSE, c) \in Trade /\ NewTrade(FALSE, c).window = cur
        /\ NewTrade(FALSE, c).cost = c /\ NewTrade(FALSE, c).settledAt = 0
    BY <1>0, <2>1, <2>5, ClockNat DEF NewTrade, Trade, TypeOK
  <2>7. UNCHANGED <<now, orders, journal>> /\ orders[att].state = "filled"
    BY <1>9 DEF RecordFill
  <2>8. QED BY <2>1, <2>4, <2>5, <2>6, <2>7, RowAppend
<1>10. CASE FinishFill
  <2>1. /\ Placing /\ UNCHANGED <<now, orders, trades>>
        /\ journal' \in {journal, [journal EXCEPT ![att].status = "filled"]}
    BY <1>10 DEF FinishFill, Finish, Placing
  <2>2. QED BY <2>1, RowFinish
<1>11. ASSUME NEW w \in known, NEW winners, Resolve(w, winners) PROVE RowInv'
  BY <1>11, RowSettle DEF Resolve
<1>12. CASE Tick
  <2>1. now' \in Nat /\ now <= now'
    BY <1>0, <1>12 DEF Tick, TypeOK
  <2>2. QED BY <1>12, <2>1, RowQuiet DEF Tick, KeepsBooked
<1>13. ASSUME NEW i \in DOMAIN orders, ExchangeFill(i) PROVE RowInv'
  <2>1. KeepsBooked
    BY <1>0, <1>13 DEF ExchangeFill, KeepsBooked, TypeOK, JournalInv
  <2>2. QED BY <1>0, <1>13, <2>1, RowQuiet DEF ExchangeFill, TypeOK
<1>14. ASSUME NEW i \in DOMAIN orders, ExchangeDrop(i) PROVE RowInv'
  <2>1. KeepsBooked
    BY <1>0, <1>14 DEF ExchangeDrop, KeepsBooked, TypeOK, JournalInv
  <2>2. QED BY <1>0, <1>14, <2>1, RowQuiet DEF ExchangeDrop, TypeOK
<1>15. QED
  BY <1>1, <1>2, <1>3, <1>4, <1>6, <1>7, <1>8, <1>9, <1>10, <1>11, <1>12, <1>13, <1>14
  DEF Next, MainLoop, World, vars, SameWindow, Rotate, Discover, NoSignal,
      SignalTooLate, TakeSignal, NoLimitPrice, ReserveBlocked, PlaceOrder,
      RecordFails, Drained, Pause, Resume, DryRunOn, Crash, Start, Blank

-----------------------------------------------------------------------------
(* Settled windows are over                                                *)

\* The steps at which the main loop cannot add a row to the ledger.
Idle == {"down", "tick", "drain"}

\* A window whose end has come is not the window of the clock.
LEMMA WindowOver ==
  ASSUME NEW w \in Nat, NEW t \in Nat, (w + 1) * WindowLen <= t
  PROVE  WindowOf(t) # w
<1>1. WindowLen \in Nat \ {0}
  BY TimeAssumption
<1>2. SUFFICES ASSUME t \div WindowLen = w PROVE FALSE
  BY DEF WindowOf
<1>3. t = WindowLen * w + (t % WindowLen) /\ t % WindowLen \in 0..(WindowLen - 1)
  BY <1>1, <1>2
<1>4. (w + 1) * WindowLen = WindowLen * w + WindowLen
  BY <1>1
<1>5. QED BY <1>1, <1>3, <1>4

\* A step that writes no trade and stays idle, or goes on with a window it has not
\* settled.
LEMMA SettleQuiet ==
  ASSUME Inv, trades' = trades, now' \in Nat, now <= now',
         pc' \in Idle \/ (cur' = cur /\ pc \notin Idle)
  PROVE  SettleInv'
<1>1. SettledTogether'
  BY DEF Inv, SettleInv, SettledTogether
<1>2. ASSUME NEW k \in DOMAIN trades, trades[k].state # "open"
      PROVE  /\ (trades[k].window + 1) * WindowLen <= now'
             /\ trades[k].window = cur' => pc' \in Idle
  <2>1. (trades[k].window + 1) * WindowLen <= now /\ (trades[k].window = cur => pc \in Idle)
    BY <1>2 DEF Inv, SettleInv, Idle
  <2>2. (trades[k].window + 1) * WindowLen \in Nat
    <3>1. trades[k] \in Trade
      BY DEF Inv, TypeOK
    <3>2. trades[k].window \in Nat /\ WindowLen \in Nat
      BY <3>1, TimeAssumption DEF Trade, Window
    <3>3. QED BY <3>2
  <2>3. now \in Nat
    BY DEF Inv, TypeOK
  <2>4. QED BY <2>1, <2>2, <2>3
<1>3. QED BY <1>1, <1>2 DEF SettleInv, Idle

\* The loop leaves its idle steps only for the window of the clock.
LEMMA SettleEnter ==
  ASSUME Inv, UNCHANGED <<trades, now>>, cur' = WindowOf(now)
  PROVE  SettleInv'
<1>1. SettledTogether'
  BY DEF Inv, SettleInv, SettledTogether
<1>2. ASSUME NEW k \in DOMAIN trades, trades[k].state # "open"
      PROVE  (trades[k].window + 1) * WindowLen <= now /\ trades[k].window # cur'
  <2>1. (trades[k].window + 1) * WindowLen <= now
    BY <1>2 DEF Inv, SettleInv
  <2>2. trades[k] \in Trade /\ now \in Nat
    BY DEF Inv, TypeOK
  <2>3. trades[k].window \in Nat
    BY <2>2 DEF Trade, Window
  <2>4. QED BY <2>1, <2>2, <2>3, WindowOver
<1>3. QED BY <1>1, <1>2 DEF SettleInv

\* A new row is open, and so is every other row of the window it is entered for.
LEMMA SettleAppend ==
  ASSUME Inv, NEW t \in Trade, trades' = Append(trades, t), t.window = cur,
         t.state = "open", UNCHANGED <<now, cur>>, pc \notin Idle
  PROVE  SettleInv'
<1> DEFINE n == Len(trades) + 1
<1>1. /\ DOMAIN trades' = DOMAIN trades \cup {n} /\ trades'[n] = t
      /\ \A k \in DOMAIN trades : trades'[k] = trades[k]
  BY AppendGrows, AppendProperties DEF Inv, TypeOK
<1> HIDE DEF n
<1>2. \A k \in DOMAIN trades : trades[k].window = cur => trades[k].state = "open"
  BY DEF Inv, SettleInv, Idle
<1>3. SettledTogether'
  BY <1>1, <1>2 DEF Inv, SettleInv, SettledTogether
<1>4. \A k \in DOMAIN trades' : trades'[k].state # "open" =>
        (trades'[k].window + 1) * WindowLen <= now /\ trades'[k].window # cur
  BY <1>1, <1>2 DEF Inv, SettleInv
<1>5. QED BY <1>3, <1>4 DEF SettleInv

\* A resolution settles the rows of a window that is over, and all of them.
LEMMA SettleUpdate ==
  ASSUME Inv, NEW w, NEW winners, trades' = Settled(w, winners),
         (w + 1) * WindowLen <= now, now' = now, pc' = "drain"
  PROVE  SettleInv'
<1>1. DOMAIN trades' = DOMAIN trades
  BY DEF Settled
<1>2. ASSUME NEW k \in DOMAIN trades
      PROVE  /\ trades'[k].window = trades[k].window
             /\ trades[k].window = w => trades'[k].state # "open"
             /\ trades[k].window # w => trades'[k].state = trades[k].state
  BY SettledRow DEF Inv
<1>3. ASSUME NEW k \in DOMAIN trades, NEW m \in DOMAIN trades,
             trades'[k].window = trades'[m].window, trades'[k].state = "open"
      PROVE  trades'[m].state = "open"
  <2>1. trades[k].window # w /\ trades[m].window = trades[k].window /\ trades[k].state = "open"
    BY <1>2, <1>3
  <2>2. trades[m].state = "open"
    BY <2>1 DEF Inv, SettleInv, SettledTogether
  <2>3. QED BY <1>2, <2>1, <2>2
<1>4. ASSUME NEW k \in DOMAIN trades, trades'[k].state # "open"
      PROVE  (trades'[k].window + 1) * WindowLen <= now
  <2>1. CASE trades[k].window = w
    BY <1>2, <2>1
  <2>2. CASE trades[k].window # w
    <3>1. trades[k].state # "open"
      BY <1>2, <1>4, <2>2
    <3>2. QED BY <1>2, <3>1 DEF Inv, SettleInv
  <2>3. QED BY <2>1, <2>2
<1>5. SettledTogether'
  BY <1>1, <1>3 DEF SettledTogether
<1>6. QED BY <1>1, <1>4, <1>5 DEF SettleInv

\* Every step keeps the settled windows settled and over.
LEMMA SettleNext == Inv /\ [Next]_vars => SettleInv'
<1> SUFFICES ASSUME Inv, [Next]_vars PROVE SettleInv'
  OBVIOUS
<1>0. now \in Nat /\ trades \in Seq(Trade)
  BY DEF Inv, TypeOK
<1> USE DEF world, durable, memory, call
<1>1. ASSUME UNCHANGED <<now, trades>>,
             pc' \in Idle \/ (cur' = cur /\ pc \notin Idle)
      PROVE  SettleInv'
  BY <1>0, <1>1, SettleQuiet
<1>2. CASE SameWindow
  BY <1>2, SettleEnter DEF SameWindow
<1>3. ASSUME NEW read \in BOOLEAN, Rotate(read) PROVE SettleInv'
  BY <1>3, SettleEnter DEF Rotate
<1>4. CASE PaperTrade
  <2>1. /\ pc = "paper" /\ pc' = "drain" /\ UNCHANGED <<now, cur>> /\ cur \in Window
    BY <1>4 DEF PaperTrade, Inv, EntryInv
  <2>2. CASE trades' = trades
    BY <1>1, <2>1, <2>2 DEF Idle
  <2>3. CASE trades' = Append(trades, NewTrade(TRUE, MaxTrade))
    <3>1. /\ NewTrade(TRUE, MaxTrade) \in Trade
          /\ NewTrade(TRUE, MaxTrade).window = cur /\ NewTrade(TRUE, MaxTrade).state = "open"
      BY <1>0, <2>1, ClockNat, LimitsAssumption DEF NewTrade, Trade
    <3>2. QED BY <2>1, <2>3, <3>1, SettleAppend DEF Idle
  <2>4. QED BY <1>4, <2>2, <2>3 DEF PaperTrade
<1>5. CASE RecordFill
  <2>1. /\ pc = "wait" /\ UNCHANGED <<now, cur>> /\ cur \in Window /\ att \in DOMAIN orders
    BY <1>5 DEF RecordFill, Inv, AttemptInv, EntryInv, JournalInv, TypeOK, Placing
  <2>2. orders[att] \in Order
    BY <2>1 DEF Inv, TypeOK
  <2>3. PICK c \in orders[att].cost..MaxTrade : trades' = Append(trades, NewTrade(FALSE, c))
    BY <1>5 DEF RecordFill
  <2>4. c \in Nat
    BY <2>2, LimitsAssumption DEF Order
  <2>5. /\ NewTrade(FALSE, c) \in Trade
        /\ NewTrade(FALSE, c).window = cur /\ NewTrade(FALSE, c).state = "open"
    BY <1>0, <2>1, <2>4, ClockNat DEF NewTrade, Trade
  <2>6. QED BY <2>1, <2>3, <2>5, SettleAppend DEF Idle
<1>6. ASSUME NEW w \in known, NEW winners, Resolve(w, winners) PROVE SettleInv'
  <2>1. pc' = "drain" /\ now' = now /\ (w + 1) * WindowLen <= now
    BY <1>6 DEF Resolve
  <2>2. QED BY <1>1, <1>6, <2>1, SettleUpdate DEF Resolve, Idle
<1>7. CASE Tick
  BY <1>0, <1>7, SettleQuiet DEF Tick, Idle
<1>8. ASSUME UNCHANGED <<now, trades, pc, cur>> PROVE SettleInv'
  BY <1>1, <1>8
<1>9. CASE Pause \/ Resume \/ DryRunOn \/ UNCHANGED vars
  BY <1>8, <1>9 DEF Pause, Resume, DryRunOn, vars
<1>10. ASSUME NEW i \in DOMAIN orders, ExchangeFill(i) \/ ExchangeDrop(i) PROVE SettleInv'
  BY <1>8, <1>10 DEF ExchangeFill, ExchangeDrop
<1>11. QED
  BY <1>1, <1>2, <1>3, <1>4, <1>5, <1>6, <1>7, <1>9, <1>10
  DEF Next, MainLoop, World, Discover, NoSignal, SignalTooLate, TakeSignal,
      NoLimitPrice, Reserve, ReserveBlocked, PlaceOrder, Post, RefusedBeforePost,
      Refused, Unclear, FailPlacement, RecordFails, FinishFill, Drained, Crash,
      Start, Blank, Idle

-----------------------------------------------------------------------------
(* Between the reservation and the request                                 *)

\* The limits speak of the trades and of the day alone.
LEMMA LimitsStand ==
  ASSUME WithinLimits, trades' = trades, now' = now
  PROVE  WithinLimits'
<1>1. LiveRows' = LiveRows /\ OpenRows' = OpenRows /\ SettledRows' = SettledRows
  BY DEF LiveRows, OpenRows, SettledRows
<1>2. LossesBySettlement' = LossesBySettlement
  BY <1>1 DEF LossesBySettlement, LossRun
<1>3. OpenCost' = OpenCost
  BY <1>1 DEF OpenCost
<1>4. SettledToday' = SettledToday
  BY <1>1 DEF SettledToday
<1>5. PnlBySettlement' = PnlBySettlement
  BY <1>4 DEF PnlBySettlement
<1>6. QED BY <1>2, <1>3, <1>4, <1>5 DEF WithinLimits

\* After a midnight nothing has been settled on the day: no row is settled in the
\* future.
LEMMA NewDay ==
  ASSUME Inv, Tick, DayOf(now') # DayOf(now)
  PROVE  SettledToday' = {}
<1>1. now' = now + 1 /\ now \in Nat /\ UNCHANGED <<journal, trades>>
  BY DEF Tick, Inv, TypeOK, durable
<1>2. ASSUME NEW k \in DOMAIN trades PROVE DayOf(trades[k].settledAt) # DayOf(now')
  <2>1. trades[k].settledAt \in Nat /\ trades[k].settledAt <= now
    <3>1. trades[k] \in Trade
      BY DEF Inv, TypeOK
    <3>2. QED BY <3>1 DEF Inv, RowInv, Trade
  <2>2. DayOf(trades[k].settledAt) <= DayOf(now) /\ DayOf(now) < DayOf(now')
    <3>1. now' \in Nat /\ now <= now' /\ DayOf(now) \in Nat /\ DayOf(now') \in Nat
      BY <1>1, ClockNat
    <3>2. DayOf(now) <= DayOf(now')
      BY <1>1, <3>1, DayMonotone
    <3>3. DayOf(trades[k].settledAt) <= DayOf(now)
      BY <1>1, <2>1, DayMonotone
    <3>4. QED BY <3>1, <3>2, <3>3
  <2>3. DayOf(trades[k].settledAt) \in Nat /\ DayOf(now) \in Nat /\ DayOf(now') \in Nat
    BY <1>1, <2>1, ClockNat
  <2>4. QED BY <2>2, <2>3
<1>3. QED BY <1>1, <1>2 DEF SettledToday, SettledRows, OpenRows, LiveRows

\* Every step keeps what the request relies on: no resolution is handled while an
\* order is being placed, and a midnight clears the day.
LEMMA LimitNext == Inv /\ [Next]_vars => LimitInv'
<1> SUFFICES ASSUME Inv, [Next]_vars, pc' \in {"place", "sign"} PROVE WithinLimits'
  BY DEF LimitInv
<1> USE DEF world, durable, memory, call
<1>1. CASE Reserve
  <2>1. Check(Snapshot(cur), MaxTrade)
    BY <1>1 DEF Reserve
  <2>2. WithinLimits
    BY <2>1 DEF Check, Snapshot, WithinLimits
  <2>3. QED BY <1>1, <2>2, LimitsStand DEF Reserve
<1>2. CASE PlaceOrder
  BY <1>2, LimitsStand DEF PlaceOrder, Inv, LimitInv
<1>3. CASE Tick
  <2>1. WithinLimits /\ UNCHANGED trades
    BY <1>3 DEF Tick, Inv, LimitInv
  <2>2. CASE DayOf(now') = DayOf(now)
    <3>1. LiveRows' = LiveRows /\ OpenRows' = OpenRows /\ SettledRows' = SettledRows
      BY <2>1 DEF LiveRows, OpenRows, SettledRows
    <3>2. SettledToday' = SettledToday
      BY <2>1, <2>2, <3>1 DEF SettledToday
    <3>3. /\ LossesBySettlement' = LossesBySettlement /\ OpenCost' = OpenCost
          /\ PnlBySettlement' = PnlBySettlement
      BY <2>1, <3>1, <3>2 DEF LossesBySettlement, LossRun, OpenCost, PnlBySettlement
    <3>4. QED BY <2>1, <3>2, <3>3 DEF WithinLimits
  <2>3. CASE DayOf(now') # DayOf(now)
    <3>1. SettledToday' = {}
      BY <1>3, <2>3, NewDay
    <3>2. LiveRows' = LiveRows /\ OpenRows' = OpenRows /\ SettledRows' = SettledRows
      BY <2>1 DEF LiveRows, OpenRows, SettledRows
    <3>3. LossesBySettlement' = LossesBySettlement /\ OpenCost' = OpenCost
      BY <2>1, <3>2 DEF LossesBySettlement, LossRun, OpenCost
    <3>4. QED BY <2>1, <3>1, <3>3 DEF WithinLimits
  <2>4. QED BY <2>2, <2>3
<1>4. ASSUME pc' = pc, UNCHANGED <<trades, now>> PROVE WithinLimits'
  BY <1>4, LimitsStand DEF Inv, LimitInv
<1>5. ASSUME NEW i \in DOMAIN orders, ExchangeFill(i) \/ ExchangeDrop(i) PROVE WithinLimits'
  BY <1>4, <1>5 DEF ExchangeFill, ExchangeDrop
<1>6. CASE Pause \/ Resume \/ DryRunOn \/ UNCHANGED vars
  BY <1>4, <1>6 DEF Pause, Resume, DryRunOn, vars
<1>7. QED
  BY <1>1, <1>2, <1>3, <1>5, <1>6
  DEF Next, MainLoop, World, SameWindow, Rotate, Discover, NoSignal,
      SignalTooLate, TakeSignal, NoLimitPrice, PaperTrade, ReserveBlocked, Post,
      RefusedBeforePost, Refused, Unclear, FailPlacement, RecordFill, RecordFails,
      FinishFill, Resolve, Drained, Crash, Start

-----------------------------------------------------------------------------
(* The theorems                                                            *)

\* In every behaviour of the live-entry path the tables, the main loop's step
\* and what it remembers of its window agree (main.rs, db.rs, trading.rs).
THEOREM InvCorrect == Spec => []Inv
<1>1. Init => Inv
  <2> SUFFICES ASSUME Init PROVE Inv
    OBVIOUS
  <2>1. TypeOK
    BY EmptySeq DEF Init, TypeOK, Step
  <2>2. AttemptInv /\ JournalInv /\ EntryInv
    BY DEF Init, AttemptInv, Placing, JournalInv, EntryInv
  <2>3. RowInv /\ SettleInv
    BY DEF Init, RowInv, LiveRows, SettleInv, SettledTogether
  <2>4. LimitInv
    BY DEF Init, LimitInv
  <2>5. QED BY <2>1, <2>2, <2>3, <2>4 DEF Inv
<1>2. Inv /\ [Next]_vars => Inv'
  BY TypeNext, LedgerNext, RowNext, SettleNext, LimitNext DEF Ledger, Inv
<1>3. QED BY <1>1, <1>2, PTL DEF Spec

\* Every variable keeps its type, the table rows included.
COROLLARY TypeCorrect == Spec => []TypeOK
<1>1. Inv => TypeOK
  BY DEF Inv
<1>2. QED BY <1>1, InvCorrect, PTL

\* Any two orders of one window: at most one of them can have bought anything.
THEOREM OneLivePosition == Spec => []OneLivePositionPerWindow
<1>1. Inv => OneLivePositionPerWindow
  <2> SUFFICES ASSUME Inv, NEW i \in DOMAIN orders, NEW j \in DOMAIN orders,
                      i # j, Possible(i), Possible(j)
               PROVE  journal[i].window # journal[j].window
    BY DEF OneLivePositionPerWindow
  <2>1. DOMAIN orders = DOMAIN journal
    BY DEF Inv, TypeOK, JournalInv
  <2>2. journal[i].status # "rejected" /\ journal[j].status # "rejected"
    BY <2>1 DEF Inv, JournalInv
  <2>3. QED BY <2>1, <2>2 DEF Inv, JournalInv
<1>2. QED BY <1>1, InvCorrect, PTL

\* No executed order escapes the journal and the trade table.
THEOREM EveryOrderAccounted == Spec => []NoUnaccountedOrder
<1>1. Inv => NoUnaccountedOrder
  <2> SUFFICES ASSUME Inv, NEW i \in DOMAIN orders, Possible(i)
               PROVE  Ambiguous(i) \/ \E k \in DOMAIN trades : BookedBy(i, k)
    BY DEF NoUnaccountedOrder
  <2>1. DOMAIN orders = DOMAIN journal
    BY DEF Inv, TypeOK, JournalInv
  <2>2. journal[i] \in Attempt
    BY <2>1 DEF Inv, TypeOK
  <2>3. journal[i].status \in Status \ {"rejected"}
    BY <2>1, <2>2 DEF Inv, JournalInv, Attempt
  <2>4. QED BY <2>1, <2>3 DEF Inv, JournalInv, Ambiguous, Status
<1>2. QED BY <1>1, InvCorrect, PTL

\* Only the last attempt can wait for reconciliation.
THEOREM LastAmbiguous == Spec => []OnlyLastAmbiguous
<1>1. Inv => OnlyLastAmbiguous
  BY DEF Inv, JournalInv, OnlyLastAmbiguous, AmbiguousRows
<1>2. QED BY <1>1, InvCorrect, PTL

\* Whatever a restarted process fails to read, a fill has one live row and the row
\* an executed order.
THEOREM FillsBookedOnce == Spec => []FillBookedOnce
<1>1. Inv => FillBookedOnce
  BY DEF Inv, RowInv, FillBookedOnce
<1>2. QED BY <1>1, InvCorrect, PTL

\* The last row of a window stands for all of them: none stays open behind it.
THEOREM RowsSettleTogether == Spec => []SettledTogether
<1>1. Inv => SettledTogether
  BY DEF Inv, SettleInv
<1>2. QED BY <1>1, InvCorrect, PTL

\* Only Post sends a request.
LEMMA OnlyPostPosts ==
  ASSUME Inv, [Next]_vars, Posts
  PROVE  Post
<1> USE DEF world, durable
<1>1. PICK i \in DOMAIN orders : orders[i].state = "unsent" /\ orders'[i].state = "sent"
  BY DEF Posts
<1>2. orders' # orders
  BY <1>1
<1>3. \A m \in DOMAIN orders : orders[m] \in Order
  BY DEF Inv, TypeOK
<1>4. CASE Reserve
  BY <1>1, <1>4, AppendProperties DEF Reserve, Inv, TypeOK
<1>5. ASSUME NEW m \in DOMAIN orders, ExchangeFill(m) PROVE FALSE
  BY <1>1, <1>3, <1>5 DEF ExchangeFill, Order
<1>6. ASSUME NEW m \in DOMAIN orders, ExchangeDrop(m) PROVE FALSE
  BY <1>1, <1>3, <1>6 DEF ExchangeDrop, Order
<1>7. QED
  BY <1>2, <1>4, <1>5, <1>6
  DEF Next, MainLoop, World, vars, SameWindow, Rotate, Discover, NoSignal,
      SignalTooLate, TakeSignal, NoLimitPrice, PaperTrade, ReserveBlocked,
      PlaceOrder, RefusedBeforePost, Refused, Unclear, FailPlacement,
      RecordFill, RecordFails, FinishFill, Resolve, Drained, Tick, Pause,
      Resume, DryRunOn, Crash, Start, Blank

\* Only Post sends an order, and then every other order that can have bought
\* something is a booked trade.
THEOREM NeverPostsUnreconciled == Spec => NoPostWhileUnreconciled
<1> DEFINE A == \A i \in DOMAIN orders :
       orders[i].state = "unsent" /\ orders'[i].state = "sent" =>
         \A j \in DOMAIN orders :
           j # i /\ Possible(j) =>
             ~Ambiguous(j) /\ \E k \in DOMAIN trades : BookedBy(j, k)
<1>1. Inv /\ [Next]_vars => [A]_vars
  <2> SUFFICES ASSUME Inv, [Next]_vars,
                      NEW i \in DOMAIN orders, orders[i].state = "unsent", orders'[i].state = "sent",
                      NEW j \in DOMAIN orders, j # i, Possible(j)
               PROVE  ~Ambiguous(j) /\ \E k \in DOMAIN trades : BookedBy(j, k)
    OBVIOUS
  <2>1. DOMAIN orders = DOMAIN journal
    BY DEF Inv, TypeOK, JournalInv
  <2>2. i = Len(journal)
    <3>1. Post
      BY OnlyPostPosts DEF Posts
    <3>2. orders[i] \in Order
      BY DEF Inv, TypeOK
    <3>3. QED BY <2>1, <3>1, <3>2 DEF Post, Inv, AttemptInv, Placing
  <2>3. journal[j] \in Attempt /\ ~Ambiguous(j) /\ journal[j].status # "rejected"
    BY <2>1, <2>2 DEF Inv, TypeOK, JournalInv
  <2>4. journal[j].status = "filled"
    BY <2>3 DEF Attempt, Status, Ambiguous
  <2>5. QED BY <2>1, <2>3, <2>4 DEF Inv, JournalInv
<1>2. QED BY <1>1, InvCorrect, PTL DEF Spec, NoPostWhileUnreconciled

-----------------------------------------------------------------------------
(* The ledger's totals                                                     *)

Costs(rows) == [k \in DOMAIN rows |-> rows[k].cost]

\* The rows of a well-typed ledger can be summed.
LEMMA RowsAreFinite ==
  ASSUME TypeOK
  PROVE  /\ IsFiniteSet(DOMAIN trades)
         /\ \A k \in DOMAIN trades : /\ Costs(trades)[k] \in Nat
                                     /\ Profits(trades)[k] \in Int
                                     /\ Profits(trades)[k] >= -Costs(trades)[k]
<1>1. Len(trades) \in Nat /\ DOMAIN trades = 1..Len(trades)
  BY DEF TypeOK
<1>2. IsFiniteSet(DOMAIN trades)
  BY <1>1, FS_Interval
<1>3. \A k \in DOMAIN trades : trades[k] \in Trade
  BY DEF TypeOK
<1>4. QED BY <1>2, <1>3, TimeAssumption DEF Trade, Costs, Profits, Profit

LEMMA Totals ==
  ASSUME TypeOK
  PROVE  /\ IsFiniteSet(OpenRows) /\ OpenRows \subseteq DOMAIN trades
         /\ IsFiniteSet(SettledToday) /\ SettledToday \subseteq DOMAIN trades
         /\ OpenCost \in Nat
         /\ PnlBySettlement \in Int
<1>1. OpenRows \subseteq DOMAIN trades /\ SettledToday \subseteq DOMAIN trades
  BY DEF OpenRows, LiveRows, SettledToday, SettledRows
<1>2. IsFiniteSet(OpenRows) /\ IsFiniteSet(SettledToday)
  BY <1>1, RowsAreFinite, FS_Subset
<1>3. OpenCost = SumFunctionOnSet(Costs(trades), OpenRows)
  BY DEF OpenCost, Costs
<1>4. OpenCost \in Nat
  <2>1. \A k \in OpenRows : Costs(trades)[k] \in Nat
    BY <1>1, RowsAreFinite
  <2>2. QED BY <1>2, <1>3, <2>1, SumNat
<1>5. PnlBySettlement \in Int
  <2>1. \A k \in SettledToday : Profits(trades)[k] \in Int
    BY <1>1, RowsAreFinite
  <2>2. QED BY <1>2, <2>1, SumSplit DEF PnlBySettlement
<1>6. QED BY <1>1, <1>2, <1>4, <1>5

\* A new row is open: it adds its cost when it is live, and settles nothing.
LEMMA AppendTotals ==
  ASSUME TypeOK, NEW t \in Trade, trades' = Append(trades, t), t.state = "open",
         now' = now
  PROVE  /\ LiveRows' = LiveRows \cup (IF t.dry THEN {} ELSE {Len(trades) + 1})
         /\ OpenCost' = OpenCost + (IF t.dry THEN 0 ELSE t.cost)
         /\ PnlBySettlement' = PnlBySettlement
<1> DEFINE n == Len(trades) + 1
<1>1. /\ DOMAIN trades' = DOMAIN trades \cup {n} /\ trades'[n] = t /\ n \notin DOMAIN trades
      /\ \A k \in DOMAIN trades : trades'[k] = trades[k]
  BY AppendGrows, AppendProperties DEF TypeOK
<1> HIDE DEF n
<1>2. LiveRows' = LiveRows \cup (IF t.dry THEN {} ELSE {n})
  BY <1>1 DEF LiveRows
<1>3. OpenRows' = OpenRows \cup (IF t.dry THEN {} ELSE {n})
  BY <1>1, <1>2 DEF OpenRows, LiveRows
<1>4. SettledToday' = SettledToday
  BY <1>1, <1>2 DEF SettledToday, SettledRows, OpenRows, LiveRows
<1>5. \A k \in DOMAIN trades : /\ Costs(trades')[k] = Costs(trades)[k]
                               /\ Profits(trades')[k] = Profits(trades)[k]
  BY <1>1 DEF Costs, Profits
<1>6. Costs(trades')[n] = t.cost /\ t.cost \in Nat
  BY <1>1 DEF Costs, Trade
<1>7. /\ OpenCost = SumFunctionOnSet(Costs(trades), OpenRows)
      /\ OpenCost' = SumFunctionOnSet(Costs(trades'), OpenRows')
      /\ PnlBySettlement = SumFunctionOnSet(Profits(trades), SettledToday)
      /\ PnlBySettlement' = SumFunctionOnSet(Profits(trades'), SettledToday')
  BY DEF OpenCost, PnlBySettlement, Costs
<1>8. OpenCost = SumFunctionOnSet(Costs(trades'), OpenRows)
  BY <1>5, <1>7, Totals, RowsAreFinite, SumSame
<1>9. PnlBySettlement' = PnlBySettlement
  <2>1. \A k \in SettledToday : Profits(trades)[k] \in Int /\ Profits(trades)[k] = Profits(trades')[k]
    BY <1>5, Totals, RowsAreFinite
  <2>2. QED BY <1>4, <1>7, <2>1, Totals, SumSame
<1>10. OpenCost' = OpenCost + (IF t.dry THEN 0 ELSE t.cost)
  <2>1. CASE t.dry
    BY <1>3, <1>7, <1>8, <2>1, Totals
  <2>2. CASE ~t.dry
    <3>1. n \notin OpenRows /\ OpenRows' = OpenRows \cup {n}
      BY <1>1, <1>3, <2>2, Totals
    <3>2. \A k \in OpenRows \cup {n} : Costs(trades')[k] \in Int
      BY <1>5, <1>6, Totals, RowsAreFinite
    <3>3. SumFunctionOnSet(Costs(trades'), OpenRows \cup {n})
            = Costs(trades')[n] + SumFunctionOnSet(Costs(trades'), OpenRows)
      BY <3>1, <3>2, Totals, SumAdd
    <3>4. OpenCost' = t.cost + OpenCost
      BY <1>6, <1>7, <1>8, <3>1, <3>3
    <3>5. QED BY <1>6, <2>2, <3>4, Totals
  <2>3. QED BY <2>1, <2>2
<1>11. QED BY <1>2, <1>9, <1>10 DEF n

\* Settling a window turns the cost of its live row, if that is open, into its
\* profit.
LEMMA SettleTotals ==
  ASSUME TypeOK, \A k, m \in LiveRows : trades[k].window = trades[m].window => k = m,
         NEW w, NEW winners, trades' = Settled(w, winners), now' = now
  PROVE  /\ LiveRows' = LiveRows
         /\ OpenCost' \in 0..OpenCost
         /\ PnlBySettlement' \in Int
         /\ PnlBySettlement' - PnlBySettlement >= OpenCost' - OpenCost
<1>1. Grows /\ DOMAIN trades' = DOMAIN trades
  BY SettledGrows
<1>2. now \in Nat
  BY DEF TypeOK
<1>3. LiveRows' = LiveRows
  BY <1>1 DEF LiveRows, Grows
<1>4. /\ OpenCost = SumFunctionOnSet(Costs(trades), OpenRows)
      /\ OpenCost' = SumFunctionOnSet(Costs(trades'), OpenRows')
      /\ PnlBySettlement = SumFunctionOnSet(Profits(trades), SettledToday)
      /\ PnlBySettlement' = SumFunctionOnSet(Profits(trades'), SettledToday')
  BY DEF OpenCost, PnlBySettlement, Costs
<1>5. OpenRows \subseteq LiveRows /\ SettledToday \subseteq LiveRows /\ LiveRows \subseteq DOMAIN trades
  BY DEF OpenRows, SettledToday, SettledRows, LiveRows
<1>6. IsFiniteSet(SettledToday) /\ IsFiniteSet(OpenRows)
  BY Totals
<1>7. CASE ~\E k \in OpenRows : trades[k].window = w
  <2>1. \A j \in LiveRows : trades'[j] = trades[j]
    BY <1>5, <1>7, SettledRow DEF OpenRows
  <2>2. OpenRows' = OpenRows
    BY <1>3, <2>1 DEF OpenRows
  <2>3. SettledToday' = SettledToday
    BY <1>3, <2>1, <2>2 DEF SettledToday, SettledRows
  <2>4. \A j \in LiveRows : /\ Costs(trades)[j] \in Int
                            /\ Costs(trades)[j] = Costs(trades')[j]
                            /\ Profits(trades)[j] \in Int
                            /\ Profits(trades)[j] = Profits(trades')[j]
    BY <1>1, <1>5, <2>1, RowsAreFinite DEF Costs, Profits
  <2>5. OpenCost' = OpenCost /\ PnlBySettlement' = PnlBySettlement
    BY <1>4, <1>5, <1>6, <2>2, <2>3, <2>4, SumSame
  <2>6. QED BY <1>3, <2>5, Totals
<1>8. ASSUME NEW k \in OpenRows, trades[k].window = w
       PROVE  /\ OpenCost' \in 0..OpenCost
              /\ PnlBySettlement' \in Int
              /\ PnlBySettlement' - PnlBySettlement >= OpenCost' - OpenCost
  <2>0. /\ k \in LiveRows /\ k \in DOMAIN trades /\ trades[k].state = "open"
        /\ \A j \in LiveRows \ {k} : trades'[j] = trades[j]
    <3>1. k \in LiveRows /\ k \in DOMAIN trades /\ trades[k].state = "open"
      BY <1>5 DEF OpenRows
    <3>2. \A j \in LiveRows \ {k} : trades[j].window # w
      BY <1>8, <3>1
    <3>3. QED BY <1>5, <3>1, <3>2, SettledRow
  <2>1. /\ trades'[k].cost = trades[k].cost
        /\ trades'[k].state \in {"won", "lost"} /\ trades'[k].settledAt = now
    BY <1>8, <2>0, SettledRow
  <2>2. /\ OpenRows' = OpenRows \ {k} /\ k \notin SettledToday
        /\ SettledToday' = SettledToday \cup {k}
    <3>1. OpenRows' = OpenRows \ {k}
      BY <1>3, <2>0, <2>1 DEF OpenRows
    <3>2. SettledRows' = SettledRows \cup {k} /\ k \notin SettledRows
      BY <1>3, <1>8, <2>0, <3>1 DEF SettledRows
    <3>3. \A j \in SettledRows : trades'[j] = trades[j]
      BY <2>0, <3>2 DEF SettledRows
    <3>4. QED BY <2>1, <3>1, <3>2, <3>3 DEF SettledToday
  <2>3. \A j \in LiveRows \ {k} : /\ Costs(trades)[j] \in Nat
                                  /\ Costs(trades)[j] = Costs(trades')[j]
                                  /\ Profits(trades)[j] \in Int
                                  /\ Profits(trades)[j] = Profits(trades')[j]
    BY <1>1, <1>5, <2>0, RowsAreFinite DEF Costs, Profits
  <2>4. SumFunctionOnSet(Profits(trades'), SettledToday) = PnlBySettlement
    BY <1>4, <1>5, <1>6, <2>2, <2>3, SumSame
  <2>5. /\ IsFiniteSet(OpenRows \ {k})
        /\ SumFunctionOnSet(Costs(trades'), OpenRows \ {k})
             = SumFunctionOnSet(Costs(trades), OpenRows \ {k})
    <3>1. IsFiniteSet(OpenRows \ {k})
      BY <1>6, FS_Subset
    <3>2. \A j \in OpenRows \ {k} : Costs(trades)[j] \in Int /\ Costs(trades)[j] = Costs(trades')[j]
      BY <1>5, <2>3
    <3>3. QED BY <3>1, <3>2, SumSame
  <2> DEFINE c == trades[k].cost
             p == Profits(trades')[k]
  <2>6. c \in Nat /\ p \in Int /\ p >= -c
    <3>1. p = (IF trades'[k].state = "won" THEN Payout ELSE 0) - c
      BY <1>1, <2>0, <2>1 DEF Profits, Profit
    <3>2. trades[k] \in Trade
      BY <2>0 DEF TypeOK
    <3>3. c \in Nat
      BY <3>2 DEF Trade
    <3>4. QED BY <3>1, <3>3, TimeAssumption
  <2>7. OpenCost = c + OpenCost'
    <3>1. \A j \in OpenRows : Costs(trades)[j] \in Int
      BY Totals, RowsAreFinite
    <3>2. OpenCost = Costs(trades)[k] + SumFunctionOnSet(Costs(trades), OpenRows \ {k})
      BY <1>4, <1>6, <1>8, <3>1, SumSplit
    <3>3. QED BY <1>4, <2>0, <2>2, <2>5, <3>2 DEF Costs
  <2>8. OpenCost' \in Nat
    <3>1. \A j \in OpenRows \ {k} : Costs(trades)[j] \in Nat
      BY <1>5, <2>3
    <3>2. QED BY <1>4, <2>2, <2>5, <3>1, SumNat
  <2>9. PnlBySettlement' = p + PnlBySettlement
    <3>1. \A j \in SettledToday \cup {k} : Profits(trades')[j] \in Int
      BY <1>5, <2>2, <2>3, <2>6
    <3>2. SumFunctionOnSet(Profits(trades'), SettledToday \cup {k})
            = p + SumFunctionOnSet(Profits(trades'), SettledToday)
      BY <1>6, <2>2, <3>1, SumAdd
    <3>3. QED BY <1>4, <2>2, <2>4, <3>2
  <2> HIDE DEF c, p
  <2>10. OpenCost' \in 0..OpenCost /\ OpenCost' - OpenCost = -c
    <3>1. \A x, y, z \in Nat : x = z + y => y \in 0..x /\ y - x = -z
      OBVIOUS
    <3>2. OpenCost \in Nat
      BY Totals
    <3>3. QED BY <2>6, <2>7, <2>8, <3>1, <3>2
  <2>11. PnlBySettlement' \in Int /\ PnlBySettlement' - PnlBySettlement = p
    BY <2>6, <2>9, Totals
  <2>12. QED BY <2>6, <2>10, <2>11
<1>9. QED BY <1>3, <1>7, <1>8

-----------------------------------------------------------------------------
(* The ledger implements the spending guard                                *)

\* Steps that leave the journal's doubts and the ledger as they are: the abstract
\* state stands still ...
LEMMA Stutters ==
  ASSUME UNCHANGED <<journal, trades>>, now' = now
  PROVE  UNCHANGED Guard!guardVars
<1>1. Pending' = Pending
  BY DEF Pending, Unbooked, Ambiguous, LiveIn, LiveRows
<1>2. OpenCost' = OpenCost
  BY DEF OpenCost, OpenRows, LiveRows
<1>3. PnlBySettlement' = PnlBySettlement
  BY DEF PnlBySettlement, SettledToday, SettledRows, OpenRows, LiveRows
<1>4. QED BY <1>1, <1>2, <1>3 DEF Guard!guardVars

\* ... and when only the journal moves, only the pending amount can change.
LEMMA LedgerStands ==
  ASSUME trades' = trades, now' = now
  PROVE  LiveRows' = LiveRows /\ OpenCost' = OpenCost /\ PnlBySettlement' = PnlBySettlement
<1>1. LiveRows' = LiveRows
  BY DEF LiveRows
<1>2. OpenCost' = OpenCost
  BY DEF OpenCost, OpenRows, LiveRows
<1>3. PnlBySettlement' = PnlBySettlement
  BY DEF PnlBySettlement, SettledToday, SettledRows, OpenRows, LiveRows
<1>4. QED BY <1>1, <1>2, <1>3

\* While an attempt is being placed nothing else is pending, and it is pending
\* until its window has a live row.
LEMMA PlacingPending ==
  ASSUME Inv, Placing
  PROVE  /\ \A i \in DOMAIN journal : Unbooked(i) => i = att
         /\ pc # "finish" => Unbooked(att) /\ Pending = MaxTrade
         /\ pc = "finish" => ~Unbooked(att) /\ Pending = 0
<1>1. /\ att \in DOMAIN journal /\ Ambiguous(att) /\ att = Len(journal)
      /\ journal[att].window = cur
      /\ \A i \in DOMAIN journal : Ambiguous(i) => i = att
  BY DEF Inv, AttemptInv, JournalInv, Ambiguous
<1>2. \A i \in DOMAIN journal : Unbooked(i) => i = att
  BY <1>1 DEF Unbooked
<1>3. ASSUME pc # "finish" PROVE Unbooked(att)
  <2>1. ~LiveIn(cur)
    BY <1>3 DEF Inv, EntryInv, Placing
  <2>2. QED BY <1>1, <2>1 DEF Unbooked
<1>4. ASSUME pc = "finish" PROVE ~Unbooked(att)
  BY <1>1, <1>4 DEF Inv, AttemptInv, Placing, Unbooked, BookedBy, LiveIn, LiveRows
<1>5. QED BY <1>1, <1>2, <1>3, <1>4 DEF Pending

\* Closing the attempt being placed releases what was pending, or changes nothing.
LEMMA ClosingReleases ==
  ASSUME Inv, Placing, UNCHANGED <<now, trades>>, NEW status \in Status,
         journal' \in {journal, [journal EXCEPT ![att].status = status]}
  PROVE  Guard!Release \/ UNCHANGED Guard!guardVars
<1>1. CASE journal' = journal
  BY <1>1, Stutters
<1>2. CASE journal' = [journal EXCEPT ![att].status = status]
  <2>1. PICK a : a = att
    OBVIOUS
  <2>2. a \in DOMAIN journal /\ Ambiguous(a) /\ journal[a] \in Attempt
    BY <2>1 DEF Inv, TypeOK, AttemptInv, Ambiguous
  <2>3. /\ DOMAIN journal' = DOMAIN journal
        /\ journal'[a].window = journal[a].window
        /\ \A i \in DOMAIN journal \ {a} : journal'[i] = journal[i]
    BY <1>2, <2>1, <2>2 DEF Attempt
  <2>4. LiveRows' = LiveRows /\ OpenCost' = OpenCost /\ PnlBySettlement' = PnlBySettlement
    BY LedgerStands
  <2>5. \A i \in DOMAIN journal \ {a} : ~Unbooked(i)'
    <3>1. \A i \in DOMAIN journal \ {a} : ~Unbooked(i)
      BY <2>1, PlacingPending
    <3>2. QED BY <2>3, <2>4, <3>1 DEF Unbooked, LiveIn, Ambiguous
  <2>6. CASE Unbooked(a)'
    <3>1. Unbooked(a)
      BY <2>2, <2>3, <2>4, <2>6 DEF Unbooked, LiveIn, Ambiguous
    <3>2. Pending' = Pending
      BY <2>2, <2>3, <2>6, <3>1 DEF Pending
    <3>3. QED BY <2>4, <3>2 DEF Guard!guardVars
  <2>7. CASE ~Unbooked(a)'
    <3>1. Pending' = 0
      BY <2>3, <2>5, <2>7 DEF Pending
    <3>2. QED BY <2>4, <3>1 DEF Guard!Release
  <2>8. QED BY <2>6, <2>7
<1>3. QED BY <1>1, <1>2

\* A reservation takes the cap of one order, within both limits.
LEMMA ReserveImplements == Inv /\ Reserve => Guard!Reserve
<1> SUFFICES ASSUME Inv, Reserve PROVE Guard!Reserve
  OBVIOUS
<1>0. PICK n : n = Len(journal) + 1
  OBVIOUS
<1> DEFINE row == [window |-> cur, status |-> "submitted"]
<1>1. row \in Attempt /\ journal \in Seq(Attempt)
  BY DEF Inv, TypeOK, EntryInv, Reserve, Attempt, Status
<1>2. n \in DOMAIN journal' /\ journal'[n] = row
  BY <1>0, <1>1, AppendProperties DEF Reserve
<1>3. LiveRows' = LiveRows /\ OpenCost' = OpenCost /\ PnlBySettlement' = PnlBySettlement
  BY LedgerStands DEF Reserve
<1>4. Check(Snapshot(cur), MaxTrade)
  BY DEF Reserve
<1>5. /\ OpenCost + MaxTrade <= MaxOpen
      /\ PnlBySettlement - OpenCost - MaxTrade >= -DailyLimit
      /\ ~\E k \in LiveRows : trades[k].window = cur
  BY <1>4 DEF Check, Snapshot, LiveIn
<1>6. Pending = 0
  BY <1>4, NoneAmbiguous DEF Inv, Pending, Unbooked
<1>7. Unbooked(n)'
  BY <1>2, <1>3, <1>5 DEF Unbooked, LiveIn, Ambiguous, Reserve, memory
<1>8. Pending' = MaxTrade
  BY <1>2, <1>7 DEF Pending
<1>9. QED BY <1>3, <1>5, <1>6, <1>8 DEF Guard!Reserve

\* Recording a fill turns the pending amount into at most as much open cost.
LEMMA FillImplements == Inv /\ RecordFill => Guard!Fill
<1> SUFFICES ASSUME Inv, RecordFill PROVE Guard!Fill
  OBVIOUS
<1>1. /\ Placing /\ pc # "finish" /\ att \in DOMAIN journal /\ journal[att].window = cur
      /\ cur \in Window /\ UNCHANGED <<journal, now>>
  BY DEF RecordFill, Inv, AttemptInv, EntryInv, Placing, world
<1>2. orders[att] \in Order
  BY <1>1 DEF Inv, TypeOK, JournalInv
<1>3. PICK c \in orders[att].cost..MaxTrade : trades' = Append(trades, NewTrade(FALSE, c))
  BY DEF RecordFill
<1>4. c \in Nat /\ c <= MaxTrade
  BY <1>2, LimitsAssumption DEF Order
<1> DEFINE t == NewTrade(FALSE, c)
<1>5. t \in Trade /\ t.window = cur /\ t.cost = c /\ ~t.dry /\ t.state = "open"
  BY <1>1, <1>4, ClockNat DEF NewTrade, Trade, Inv, TypeOK
<1> HIDE DEF t
<1>6. /\ LiveRows' = LiveRows \cup {Len(trades) + 1}
      /\ OpenCost' = OpenCost + c /\ PnlBySettlement' = PnlBySettlement
  BY <1>1, <1>3, <1>5, AppendTotals DEF Inv, t
<1>7. trades'[Len(trades) + 1].window = cur
  BY <1>3, <1>5, AppendGrows DEF Inv, t
<1>8. ~Unbooked(att)'
  BY <1>1, <1>6, <1>7 DEF Unbooked, LiveIn, RecordFill, call, memory
<1>9. \A i \in DOMAIN journal \ {att} : ~Unbooked(i)'
  <2>1. \A i \in DOMAIN journal \ {att} : ~Ambiguous(i)
    BY <1>1 DEF Inv, AttemptInv, JournalInv
  <2>2. QED BY <1>1, <2>1 DEF Unbooked, Ambiguous
<1>10. Pending' = 0
  BY <1>1, <1>8, <1>9 DEF Pending, RecordFill, call, memory
<1>11. Pending = MaxTrade /\ OpenCost \in Nat
  BY <1>1, PlacingPending, Totals DEF Inv
<1>12. OpenCost' \in OpenCost..(OpenCost + Pending) /\ Pending > 0
  BY <1>4, <1>6, <1>11, LimitsAssumption
<1>13. QED BY <1>6, <1>10, <1>12 DEF Guard!Fill

\* A paper row is none of the guard's business.
LEMMA PaperImplements == Inv /\ PaperTrade => UNCHANGED Guard!guardVars
<1> SUFFICES ASSUME Inv, PaperTrade PROVE UNCHANGED Guard!guardVars
  OBVIOUS
<1>1. UNCHANGED <<journal, now>> /\ cur \in Window
  BY DEF PaperTrade, world, Inv, EntryInv
<1>2. CASE trades' = trades
  BY <1>1, <1>2, Stutters
<1>3. CASE trades' = Append(trades, NewTrade(TRUE, MaxTrade))
  <2> DEFINE t == NewTrade(TRUE, MaxTrade)
  <2>1. t \in Trade /\ t.dry /\ t.state = "open"
    BY <1>1, ClockNat, LimitsAssumption DEF NewTrade, Trade, Inv, TypeOK
  <2>0. trades' = Append(trades, t)
    BY <1>3
  <2> HIDE DEF t
  <2>2. LiveRows' = LiveRows /\ OpenCost' = OpenCost /\ PnlBySettlement' = PnlBySettlement
    <3>1. /\ LiveRows' = LiveRows \cup (IF t.dry THEN {} ELSE {Len(trades) + 1})
          /\ OpenCost' = OpenCost + (IF t.dry THEN 0 ELSE t.cost)
          /\ PnlBySettlement' = PnlBySettlement
      BY <1>1, <2>0, <2>1, AppendTotals DEF Inv
    <3>2. OpenCost \in Nat
      BY Totals DEF Inv
    <3>3. QED BY <2>1, <3>1, <3>2
  <2>3. \A k \in DOMAIN trades : trades'[k] = trades[k]
    BY <2>0, <2>1, AppendProperties DEF Inv, TypeOK
  <2>4. Pending' = Pending
    BY <1>1, <2>2, <2>3 DEF Pending, Unbooked, LiveIn, Ambiguous, LiveRows
  <2>5. QED BY <2>2, <2>4 DEF Guard!guardVars
<1>4. QED BY <1>2, <1>3 DEF PaperTrade

\* A settlement frees open cost and loses no more than it.
LEMMA ResolveImplements ==
  ASSUME Inv, NEW w, NEW winners, Resolve(w, winners)
  PROVE  Guard!Settle \/ UNCHANGED Guard!guardVars
<1>1. UNCHANGED <<journal, now>> /\ trades' \in {Settled(w, winners), trades}
  BY DEF Resolve, world
<1>2. CASE trades' = trades
  BY <1>1, <1>2, Stutters
<1>3. CASE trades' = Settled(w, winners)
  <2>1. /\ LiveRows' = LiveRows
        /\ OpenCost' \in 0..OpenCost
        /\ PnlBySettlement' \in Int
        /\ PnlBySettlement' - PnlBySettlement >= OpenCost' - OpenCost
    BY <1>1, <1>3, SettleTotals DEF Inv, RowInv
  <2>2. \A j \in DOMAIN trades : trades'[j].window = trades[j].window
    BY <1>3, SettledGrows DEF Inv, Grows
  <2>3. Pending' = Pending
    BY <1>1, <2>1, <2>2 DEF Pending, Unbooked, LiveIn, Ambiguous, LiveRows
  <2>4. QED BY <2>1, <2>3 DEF Guard!Settle
<1>4. QED BY <1>1, <1>2, <1>3

\* A tick of the clock is a midnight or nothing.
LEMMA TickImplements == Inv /\ Tick => Guard!Midnight \/ UNCHANGED Guard!guardVars
<1> SUFFICES ASSUME Inv, Tick PROVE Guard!Midnight \/ UNCHANGED Guard!guardVars
  OBVIOUS
<1>1. now' = now + 1 /\ now \in Nat /\ UNCHANGED <<journal, trades>>
  BY DEF Tick, Inv, TypeOK, durable
<1>2. Pending' = Pending /\ OpenCost' = OpenCost
  BY <1>1 DEF Pending, Unbooked, LiveIn, Ambiguous, LiveRows, OpenCost, OpenRows
<1>3. CASE DayOf(now') = DayOf(now)
  <2>1. SettledToday' = SettledToday
    BY <1>1, <1>3 DEF SettledToday, SettledRows, OpenRows, LiveRows
  <2>2. PnlBySettlement' = PnlBySettlement
    BY <1>1, <2>1 DEF PnlBySettlement
  <2>3. QED BY <1>2, <2>2 DEF Guard!guardVars
<1>4. CASE DayOf(now') # DayOf(now)
  <2>2. SettledToday' = {}
    BY <1>4, NewDay
  <2>3. PnlBySettlement' = 0
    BY <2>2, SumEmpty DEF PnlBySettlement
  <2>4. QED BY <1>2, <2>3 DEF Guard!Midnight
<1>5. QED BY <1>3, <1>4

\* Every step of the detailed system is a step of the guard or none.
LEMMA GuardStep == Inv /\ [Next]_vars => [Guard!Next]_(Guard!guardVars)
<1> SUFFICES ASSUME Inv, [Next]_vars PROVE Guard!Next \/ UNCHANGED Guard!guardVars
  OBVIOUS
<1> USE DEF world, durable, memory, call
<1>1. CASE UNCHANGED <<now, journal, trades>>
  BY <1>1, Stutters
<1>2. CASE Reserve
  BY <1>2, ReserveImplements DEF Guard!Next
<1>3. CASE RecordFill
  BY <1>3, FillImplements DEF Guard!Next
<1>4. CASE PaperTrade
  BY <1>4, PaperImplements
<1>5. ASSUME NEW w \in known, NEW winners, Resolve(w, winners)
      PROVE  Guard!Next \/ UNCHANGED Guard!guardVars
  BY <1>5, ResolveImplements DEF Guard!Next
<1>6. CASE Tick
  BY <1>6, TickImplements DEF Guard!Next
<1>7. ASSUME NEW status \in Status, Placing, UNCHANGED <<now, trades>>,
             journal' \in {journal, [journal EXCEPT ![att].status = status]}
      PROVE  Guard!Next \/ UNCHANGED Guard!guardVars
  BY <1>7, ClosingReleases DEF Guard!Next
<1>8. CASE FinishFill
  BY <1>7, <1>8 DEF FinishFill, Finish, Placing, Status
<1>9. CASE RefusedBeforePost
  BY <1>7, <1>9 DEF RefusedBeforePost, FailPlacement, Finish, Placing, Status
<1>10. ASSUME NEW retriable \in BOOLEAN, Refused(retriable)
       PROVE  Guard!Next \/ UNCHANGED Guard!guardVars
  BY <1>7, <1>10 DEF Refused, FailPlacement, Finish, Placing, Status
<1>11. CASE Unclear
  BY <1>7, <1>11 DEF Unclear, FailPlacement, Finish, Placing, Status
<1>12. QED
  BY <1>1, <1>2, <1>3, <1>4, <1>5, <1>6, <1>8, <1>9, <1>10, <1>11
  DEF Next, MainLoop, World, vars, SameWindow, Rotate, Discover, NoSignal,
      SignalTooLate, TakeSignal, NoLimitPrice, ReserveBlocked, PlaceOrder, Post,
      RecordFails, Drained, Pause, Resume, DryRunOn, Crash, Start, Blank,
      ExchangeFill, ExchangeDrop

\* The journal, the ledger and the exchange together implement the abstract
\* spending guard, for every value of the limits and of the clock's constants.
THEOREM GuardImplemented == Spec => ImplementsGuard
<1>1. Init => Guard!Init
  <2> SUFFICES ASSUME Init PROVE Guard!Init
    OBVIOUS
  <2>1. OpenRows = {} /\ SettledToday = {}
    BY DEF Init, OpenRows, LiveRows, SettledToday, SettledRows
  <2>2. OpenCost = 0 /\ PnlBySettlement = 0
    BY <2>1, SumEmpty DEF OpenCost, PnlBySettlement
  <2>3. Pending = 0
    BY DEF Init, Pending
  <2>4. QED BY <2>2, <2>3 DEF Guard!Init
<1>2. QED BY <1>1, GuardStep, InvCorrect, PTL DEF Spec, Guard!Spec, ImplementsGuard

-----------------------------------------------------------------------------
(* What the guard's bounds mean for the money that is really at risk       *)

GuardFacts == INSTANCE SpendingGuard_proofs WITH
  pending <- Pending, open <- OpenCost, pnl <- PnlBySettlement

\* The ledger keeps both bounds of the guard it implements.
THEOREM GuardKept == Spec => [](Guard!AtRiskCapped /\ Guard!LossCapped)
<1>1. GuardFacts!Spec => [](GuardFacts!AtRiskCapped /\ GuardFacts!LossCapped)
  BY GuardFacts!GuardSafe, LimitsAssumption, PTL
<1>2. GuardFacts!Init <=> Guard!Init
  BY DEF GuardFacts!Init, Guard!Init
<1>3. [GuardFacts!Next]_(GuardFacts!guardVars) <=> [Guard!Next]_(Guard!guardVars)
  BY Zenon DEF GuardFacts!Next, Guard!Next, GuardFacts!guardVars, Guard!guardVars,
     GuardFacts!Reserve, Guard!Reserve, GuardFacts!Release, Guard!Release,
     GuardFacts!Fill, Guard!Fill, GuardFacts!Settle, Guard!Settle,
     GuardFacts!Midnight, Guard!Midnight
<1>4. /\ GuardFacts!AtRiskCapped <=> Guard!AtRiskCapped
      /\ GuardFacts!LossCapped <=> Guard!LossCapped
  BY DEF GuardFacts!AtRiskCapped, Guard!AtRiskCapped, GuardFacts!LossCapped,
     Guard!LossCapped, GuardFacts!WorstCase, Guard!WorstCase
<1>5. QED
  BY <1>1, <1>2, <1>3, <1>4, GuardImplemented, PTL DEF ImplementsGuard, Guard!Spec, GuardFacts!Spec

\* An order that the exchange holds for the bot is pending, or an open row carries
\* at least its cost.
LEMMA HeldIsCovered ==
  ASSUME Inv, NEW i \in DOMAIN orders, Held(i) # 0
  PROVE  /\ i \in DOMAIN journal /\ journal[i].status # "rejected"
         /\ Held(i) \in Nat
         /\ Unbooked(i) => Held(i) <= MaxTrade
         /\ ~Unbooked(i) => \E k \in OpenRows : BookedBy(i, k) /\ Held(i) <= trades[k].cost
<1>1. DOMAIN orders = DOMAIN journal
  BY DEF Inv, TypeOK, JournalInv
<1>2. orders[i] \in Order /\ orders[i].cost \in Nat /\ orders[i].cost <= MaxTrade
  <2>1. orders[i] \in Order
    BY DEF Inv, TypeOK
  <2>2. QED BY <2>1, LimitsAssumption DEF Order
<1>3. Possible(i) /\ journal[i].status # "rejected"
  <2>1. orders[i].state \in {"sent", "filled"}
    BY DEF Held
  <2>2. QED BY <1>1, <2>1 DEF Possible, Inv, JournalInv
<1>4. /\ Held(i) \in {MaxTrade, orders[i].cost}
      /\ orders[i].state = "filled" => /\ Held(i) = orders[i].cost
                                       /\ ~\E k \in SettledRows : BookedBy(i, k)
  BY DEF Held
<1>5. Held(i) \in Nat /\ Held(i) <= MaxTrade
  BY <1>2, <1>4, LimitsAssumption
<1>6. ASSUME ~Unbooked(i)
      PROVE  \E k \in OpenRows : BookedBy(i, k) /\ Held(i) <= trades[k].cost
  <2>1. \E k \in DOMAIN trades : BookedBy(i, k)
    <3>1. CASE Ambiguous(i)
      <4>1. PICK k \in LiveRows : trades[k].window = journal[i].window
        BY <1>6, <3>1 DEF Unbooked, LiveIn
      <4>2. PICK j \in DOMAIN journal : journal[j].status # "rejected" /\ BookedBy(j, k)
        BY DEF Inv, RowInv
      <4>3. journal[j].window = journal[i].window
        BY <4>1, <4>2 DEF BookedBy
      <4>4. j = i
        BY <1>1, <1>3, <4>2, <4>3 DEF Inv, JournalInv
      <4>5. QED BY <4>1, <4>2, <4>4 DEF LiveRows
    <3>2. CASE ~Ambiguous(i)
      <4>1. journal[i] \in Attempt
        BY <1>1 DEF Inv, TypeOK
      <4>2. journal[i].status = "filled"
        BY <1>3, <3>2, <4>1 DEF Attempt, Status, Ambiguous
      <4>3. QED BY <1>1, <4>2 DEF Inv, JournalInv
    <3>3. QED BY <3>1, <3>2
  <2>2. PICK k \in DOMAIN trades : BookedBy(i, k)
    BY <2>1
  <2>3. orders[i].state = "filled" /\ orders[i].cost <= trades[k].cost /\ k \in LiveRows
    BY <2>2 DEF BookedBy, LiveRows
  <2>4. k \in OpenRows /\ Held(i) = orders[i].cost
    BY <1>4, <2>2, <2>3 DEF SettledRows
  <2>5. QED BY <2>2, <2>3, <2>4
<1>7. QED BY <1>1, <1>3, <1>5, <1>6

\* What the exchange holds is at most what the ledger counts as open or pending:
\* every held order has a row, or the pending amount, of its own.
LEMMA ExposureCovered ==
  ASSUME Inv
  PROVE  /\ TrueExposure \in Int /\ OpenCost \in Nat /\ Pending \in Nat
         /\ TrueExposure <= OpenCost + Pending
<1> DEFINE f == [i \in DOMAIN orders |-> Held(i)]
           U == {i \in DOMAIN orders : Held(i) # 0}
           T == OpenRows \cup {0}
           g == [k \in T |-> IF k = 0 THEN Pending ELSE trades[k].cost]
           h == [i \in U |-> IF Unbooked(i) THEN 0 ELSE CHOOSE k \in OpenRows :
                               BookedBy(i, k) /\ Held(i) <= trades[k].cost]
<1>1. /\ IsFiniteSet(DOMAIN orders) /\ DOMAIN orders = DOMAIN journal
      /\ 0 \notin DOMAIN trades
  <2>1. Len(orders) \in Nat /\ DOMAIN orders = 1..Len(orders) /\ DOMAIN trades = 1..Len(trades)
    BY DEF Inv, TypeOK
  <2>2. IsFiniteSet(1..Len(orders))
    BY <2>1, FS_Interval
  <2>3. QED BY <2>1, <2>2 DEF Inv, TypeOK, JournalInv
<1>2. OpenCost \in Nat /\ IsFiniteSet(OpenRows) /\ OpenRows \subseteq DOMAIN trades
  BY Totals DEF Inv
<1>3. Pending \in Nat
  BY LimitsAssumption DEF Pending
<1>4. \A i \in DOMAIN orders : f[i] \in Int /\ (i \notin U => f[i] <= 0)
  BY HeldIsCovered
<1>5. \A k \in OpenRows : trades[k].cost \in Nat
  <2>1. \A k \in DOMAIN trades : trades[k] \in Trade
    BY DEF Inv, TypeOK
  <2>2. QED BY <1>2, <2>1 DEF Trade
<1>6. \A k \in T : g[k] \in Nat
  BY <1>3, <1>5
<1>7. ASSUME NEW i \in U
      PROVE  /\ Unbooked(i) => h[i] = 0
             /\ ~Unbooked(i) => /\ h[i] \in OpenRows /\ BookedBy(i, h[i])
                                /\ Held(i) <= trades[h[i]].cost
  BY HeldIsCovered
<1>8. h \in [U -> T]
  BY <1>7
<1>9. ASSUME NEW i \in U, NEW j \in U, h[i] = h[j] PROVE i = j
  <2>1. /\ i \in DOMAIN journal /\ journal[i].status # "rejected"
        /\ j \in DOMAIN journal /\ journal[j].status # "rejected"
    BY HeldIsCovered
  <2>2. CASE Unbooked(i) \/ Unbooked(j)
    <3>1. Unbooked(i) /\ Unbooked(j)
      BY <1>1, <1>2, <1>7, <1>9, <2>2
    <3>2. QED BY <2>1, <3>1 DEF Unbooked, Inv, JournalInv
  <2>3. CASE ~Unbooked(i) /\ ~Unbooked(j)
    <3>1. journal[i].window = journal[j].window
      BY <1>7, <1>9, <2>3 DEF BookedBy
    <3>2. QED BY <2>1, <3>1 DEF Inv, JournalInv
  <2>4. QED BY <2>2, <2>3
<1>10. ASSUME NEW i \in U PROVE f[i] <= g[h[i]]
  <2>1. CASE Unbooked(i)
    <3>1. Pending = MaxTrade /\ Held(i) <= MaxTrade
      BY <1>1, <2>1, HeldIsCovered DEF Pending
    <3>2. QED BY <1>7, <2>1, <3>1
  <2>2. CASE ~Unbooked(i)
    <3>1. h[i] # 0 /\ h[i] \in OpenRows /\ Held(i) <= trades[h[i]].cost
      BY <1>1, <1>2, <1>7, <2>2
    <3>2. QED BY <3>1
  <2>3. QED BY <2>1, <2>2
<1>11. IsFiniteSet(T) /\ 0 \notin OpenRows
  BY <1>1, <1>2, FS_AddElement
<1>12. TrueExposure = SumFunctionOnSet(f, DOMAIN orders)
  BY DEF TrueExposure, SumFunction
<1>13. SumFunctionOnSet(g, T) = Pending + OpenCost
  <2>1. SumFunctionOnSet(g, OpenRows \cup {0}) = g[0] + SumFunctionOnSet(g, OpenRows)
    <3> HIDE DEF g
    <3>1. \A k \in OpenRows \cup {0} : g[k] \in Int
      BY <1>6
    <3>2. QED BY <1>2, <1>11, <3>1, SumAdd
  <2>2. \A k \in OpenRows : Costs(trades)[k] \in Int /\ Costs(trades)[k] = g[k]
    BY <1>2, <1>5, <1>11 DEF Costs
  <2>3. SumFunctionOnSet(g, OpenRows) = SumFunctionOnSet(Costs(trades), OpenRows)
    <3> HIDE DEF g
    <3>1. QED BY <1>2, <2>2, SumSame
  <2>4. OpenCost = SumFunctionOnSet(Costs(trades), OpenRows)
    BY DEF OpenCost, Costs
  <2>5. QED BY <2>1, <2>3, <2>4
<1>14. U \in SUBSET DOMAIN orders
  OBVIOUS
<1> HIDE DEF f, g, h, T, U
<1>15. SumFunctionOnSet(f, DOMAIN orders) <= SumFunctionOnSet(g, T)
  BY <1>1, <1>4, <1>6, <1>8, <1>9, <1>10, <1>11, <1>14, SumInjection
<1>16. SumFunctionOnSet(f, DOMAIN orders) \in Int
  BY <1>1, <1>4, SumSplit
<1>17. QED BY <1>2, <1>3, <1>12, <1>13, <1>15, <1>16

\* The real exposure never exceeds the cap, lost and unrecorded fills included.
THEOREM ExposureIsCapped == Spec => []ExposureCapped
<1>1. Inv /\ Guard!AtRiskCapped => ExposureCapped
  <2> SUFFICES ASSUME Inv, Guard!AtRiskCapped PROVE ExposureCapped
    OBVIOUS
  <2>1. OpenCost + Pending <= MaxOpen
    BY DEF Guard!AtRiskCapped
  <2>2. QED BY <2>1, ExposureCovered, LimitsAssumption DEF ExposureCapped
<1>2. QED BY <1>1, InvCorrect, GuardKept, PTL

\* Losing everything held leaves the day within its budget, or within what was
\* open when the day began.
THEOREM DayBudgetIsKept == Spec => []DayBudgetKept
<1>1. Inv /\ Guard!LossCapped => DayBudgetKept
  <2> SUFFICES ASSUME Inv, Guard!LossCapped PROVE DayBudgetKept
    OBVIOUS
  <2> DEFINE worst == PnlBySettlement - OpenCost - Pending
             real == PnlBySettlement - TrueExposure
  <2>1. worst >= -DailyLimit \/ worst >= -MaxOpen
    BY DEF Guard!LossCapped, Guard!WorstCase
  <2>2. worst \in Int /\ real \in Int /\ worst <= real
    BY ExposureCovered, Totals DEF Inv
  <2>3. real >= -DailyLimit \/ real >= -MaxOpen
    <3> HIDE DEF worst, real
    <3>1. QED BY <2>1, <2>2, LimitsAssumption
  <2>4. QED BY <2>3 DEF DayBudgetKept
<1>2. QED BY <1>1, InvCorrect, GuardKept, PTL

\* A request goes out only while the run of losses, the open cost and the day's
\* budget still allow it, however long ago they were checked.
THEOREM PostsWithinLimits == Spec => PostWithinLimits
<1>1. Inv /\ [Next]_vars => [Posts => WithinLimits]_vars
  <2> SUFFICES ASSUME Inv, [Next]_vars, Posts PROVE WithinLimits
    OBVIOUS
  <2>1. Post
    BY OnlyPostPosts
  <2>2. QED BY <2>1 DEF Post, Inv, LimitInv
<1>2. QED BY <1>1, InvCorrect, PTL DEF Spec, PostWithinLimits

=============================================================================
