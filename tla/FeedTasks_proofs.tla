-------------------------- MODULE FeedTasks_proofs ----------------------------
(***************************************************************************)
(* The two tasks that keep the feeds honest: no gap of the tape of Recorder *)
(* is unmarked, for any lengths of the queue and of a batch and any number *)
(* of frames; and the bounds of RtdsWatchdog hold for any thresholds and   *)
(* any time a send takes.                                                  *)
(***************************************************************************)
EXTENDS Recorder, RtdsWatchdog, SequenceTheorems, TLAPS

-----------------------------------------------------------------------------
(* Rows without an unmarked gap                                            *)

\* Rows stay linked when a row that follows the last one is appended.
LEMMA AppendLinked ==
  ASSUME NEW s \in Seq(Row), NEW r \in Row, Linked(s),
         s # <<>> => Follows(s[Len(s)], r)
  PROVE  Linked(Append(s, r))
<1> SUFFICES ASSUME NEW i \in 1..Len(Append(s, r)) - 1
             PROVE  Follows(Append(s, r)[i], Append(s, r)[i + 1])
  BY DEF Linked
<1>1. Len(s) \in Nat /\ i \in 1..Len(s) /\ Len(Append(s, r)) = Len(s) + 1
  OBVIOUS
<1>2. Append(s, r)[i] = s[i]
  BY <1>1
<1>3. CASE i = Len(s)
  BY <1>1, <1>2, <1>3
<1>4. CASE i # Len(s)
  <2>1. i \in 1..Len(s) - 1 /\ Append(s, r)[i + 1] = s[i + 1]
    BY <1>1, <1>4
  <2> QED
    BY <1>2, <2>1 DEF Linked
<1> QED
  BY <1>3, <1>4

\* Rows keep their order when they are grouped otherwise, and when one is handed on.
LEMMA Regrouped ==
  ASSUME NEW s \in Seq(Row), NEW t \in Seq(Row), NEW u \in Seq(Row)
  PROVE  (s \o t) \o u = s \o (t \o u)
BY ConcatAssociative

LEMMA HandedOver ==
  ASSUME NEW s \in Seq(Row), NEW t \in Seq(Row), t # <<>>
  PROVE  Append(s, Head(t)) \o Tail(t) = s \o t
OBVIOUS

\* The parts of linked rows are linked.
LEMMA ConcatParts ==
  ASSUME NEW s \in Seq(Row), NEW t \in Seq(Row), Linked(s \o t)
  PROVE  Linked(s) /\ Linked(t)
<1>1. /\ Len(s) \in Nat /\ Len(t) \in Nat /\ Len(s \o t) = Len(s) + Len(t)
      /\ \A i \in 1..Len(s) : (s \o t)[i] = s[i]
      /\ \A i \in 1..Len(t) : (s \o t)[Len(s) + i] = t[i]
  BY ConcatProperties
<1>2. Linked(s)
  BY <1>1 DEF Linked
<1>3. ASSUME NEW i \in 1..Len(t) - 1 PROVE Follows(t[i], t[i + 1])
  <2>1. Len(s) + i \in 1..Len(s \o t) - 1
    BY <1>1
  <2>2. Follows((s \o t)[Len(s) + i], (s \o t)[Len(s) + i + 1])
    BY <2>1 DEF Linked
  <2> QED
    BY <1>1, <2>2
<1> QED
  BY <1>2, <1>3 DEF Linked

\* Linked parts are linked together if the second begins with a marker.
LEMMA ConcatLinked ==
  ASSUME NEW s \in Seq(Row), NEW t \in Seq(Row), Linked(s), Linked(t),
         t # <<>> => t[1].kind # "frame"
  PROVE  Linked(s \o t)
<1> SUFFICES ASSUME NEW i \in 1..Len(s \o t) - 1
             PROVE  Follows((s \o t)[i], (s \o t)[i + 1])
  BY DEF Linked
<1>1. /\ Len(s) \in Nat /\ Len(t) \in Nat /\ Len(s \o t) = Len(s) + Len(t)
      /\ \A k \in 1..Len(s) : (s \o t)[k] = s[k]
      /\ \A k \in 1..Len(t) : (s \o t)[Len(s) + k] = t[k]
  BY ConcatProperties
<1>2. CASE i < Len(s)
  BY <1>1, <1>2 DEF Linked
<1>3. CASE i = Len(s)
  <2>1. t # <<>> /\ (s \o t)[i + 1] = t[1]
    BY <1>1, <1>3
  <2> QED
    BY <2>1 DEF Follows
<1>4. CASE i > Len(s)
  <2>1. i - Len(s) \in 1..Len(t) - 1
    BY <1>1, <1>4
  <2>2. (s \o t)[i] = t[i - Len(s)] /\ (s \o t)[i + 1] = t[i - Len(s) + 1]
    BY <1>1, <2>1
  <2> QED
    BY <2>1, <2>2 DEF Linked
<1> QED
  BY <1>1, <1>2, <1>3, <1>4

\* A marker may be put before linked rows.
LEMMA MarkerLinked ==
  ASSUME NEW s \in Seq(Row), Linked(s)
  PROVE  Linked(<<Gap>> \o s)
<1>1. /\ <<Gap>> \in Seq(Row) /\ Len(<<Gap>>) = 1 /\ Len(s) \in Nat
      /\ Gap.kind # "frame"
  BY DEF Row, Gap
<1>2. /\ Len(<<Gap>> \o s) = 1 + Len(s) /\ (<<Gap>> \o s)[1] = Gap
      /\ \A i \in 1..Len(s) : (<<Gap>> \o s)[1 + i] = s[i]
  BY <1>1, ConcatProperties
<1> SUFFICES ASSUME NEW i \in 1..Len(<<Gap>> \o s) - 1
             PROVE  Follows((<<Gap>> \o s)[i], (<<Gap>> \o s)[i + 1])
  BY DEF Linked
<1>3. CASE i = 1
  BY <1>1, <1>2, <1>3 DEF Follows
<1>4. CASE i # 1
  <2>1. /\ i - 1 \in 1..Len(s) - 1
        /\ (<<Gap>> \o s)[i] = s[i - 1] /\ (<<Gap>> \o s)[i + 1] = s[(i - 1) + 1]
    BY <1>1, <1>2, <1>4
  <2> QED
    BY <2>1 DEF Linked
<1> QED
  BY <1>3, <1>4

\* The last of the rows does not depend on what is before it.
LEMMA ConcatLast ==
  ASSUME NEW s \in Seq(Row), NEW t \in Seq(Row), t # <<>>
  PROVE  s \o t # <<>> /\ (s \o t)[Len(s \o t)] = t[Len(t)]
<1>1. Len(s) \in Nat /\ Len(t) \in Nat /\ Len(t) \in 1..Len(t)
  OBVIOUS
<1>2. Len(s \o t) = Len(s) + Len(t) /\ (s \o t)[Len(s) + Len(t)] = t[Len(t)]
  BY <1>1, ConcatProperties
<1> QED
  BY <1>1, <1>2

-----------------------------------------------------------------------------
(* The invariant                                                           *)

LEMMA RecorderNumbers ==
  QueueLen \in Nat /\ QueueLen > 0 /\ BatchLen \in Nat /\ BatchLen > 1
  BY RecorderAssumption

\* What the CLOB task offers follows the rows that are on their way: the next
\* frame directly, any other only behind a marker.
LEMMA OfferStep ==
  ASSUME RecorderInv, NEW row \in Row, Offer(row), seen' = seen + 1,
         connected' \in BOOLEAN,
         UNCHANGED <<batch, lost, tape>>,
         row.kind = "frame" => connected /\ row.n = seen + 1
  PROVE  RecorderInv'
<1> DEFINE C(q) == IF lost > 0 THEN batch \o q ELSE tape \o (batch \o q)
<1> USE RecorderNumbers
<1>1. /\ TypeOK /\ Linked(tape) /\ Linked(Current)
      /\ Gap \in Row /\ Gap.kind = "gap"
      /\ queue \in Seq(Row) /\ batch \in Seq(Row) /\ tape \in Seq(Row)
  BY DEF RecorderInv, TypeOK, Row, Gap
<1>2. C(queue) = Current /\ C(queue') = Current'
  BY DEF Current, Stream, Held
<1>3. ASSUME NEW q \in Seq(Row), NEW r \in Row
      PROVE  C(Append(q, r)) = Append(C(q), r) /\ C(q) \in Seq(Row)
  <2>1. batch \o q \in Seq(Row) /\ batch \o Append(q, r) = Append(batch \o q, r)
    BY <1>1
  <2>2. /\ tape \o (batch \o q) \in Seq(Row)
        /\ tape \o Append(batch \o q, r) = Append(tape \o (batch \o q), r)
    BY <1>1, <2>1
  <2> QED
    BY <2>1, <2>2
<1>4. ASSUME NEW q \in Seq(Row), NEW r \in Row, Linked(C(q)),
             C(q) # <<>> => Follows(C(q)[Len(C(q))], r)
      PROVE  Linked(C(Append(q, r)))
  <2> HIDE DEF C
  <2> QED
    BY <1>3, <1>4, AppendLinked
<1>5. \A q \in Seq(Row), r \in Row : C(Append(q, r))[Len(C(Append(q, r)))] = r
  <2> HIDE DEF C
  <2> TAKE q \in Seq(Row), r \in Row
  <2>1. C(Append(q, r)) = Append(C(q), r) /\ C(q) \in Seq(Row)
    BY <1>3
  <2>2. Append(C(q), r)[Len(Append(C(q), r))] = r
    BY <2>1, AppendProperties
  <2> QED
    BY <2>1, <2>2
<1> HIDE DEF C
\* It is enough to see which rows came to stand behind the others.
<1>6. SUFFICES /\ queue' \in Seq(Row) /\ Len(queue') <= QueueLen
               /\ dropped' \in Nat
               /\ Linked(C(queue'))
               /\ dropped' = 0 => C(queue')[Len(C(queue'))] = row
  <2>1. TypeOK'
    BY <1>1, <1>6 DEF TypeOK
  <2>2. Linked(tape')
    BY <1>1
  <2>3. batch' # <<>> /\ lost' > 0 => batch'[1].kind = "gap"
    BY DEF RecorderInv
  <2>4. dropped' = 0 => Follows(row, Frame(seen' + 1))
    BY <1>1 DEF Follows, Frame, TypeOK
  <2> QED
    BY <1>2, <1>6, <2>1, <2>2, <2>3, <2>4 DEF RecorderInv
<1>7. CASE dropped = 0
  <2>1. C(queue) # <<>> => Follows(C(queue)[Len(C(queue))], row)
    BY <1>2, <1>7 DEF RecorderInv, Follows, Frame
  <2>2. CASE Len(queue) < QueueLen
    <3>1. queue' = Append(queue, row) /\ dropped' = 0
      BY <1>1, <1>7, <2>2 DEF Offer
    <3> QED
      BY <1>1, <1>2, <1>4, <1>5, <2>1, <2>2, <3>1
  <2>3. CASE ~(Len(queue) < QueueLen)
    <3>1. queue' = queue /\ dropped' \in Nat /\ dropped' # 0
      BY <1>1, <1>7, <2>3 DEF Offer, TypeOK
    <3> QED
      BY <1>1, <1>2, <3>1 DEF TypeOK
  <2> QED
    BY <2>2, <2>3
<1>8. CASE dropped # 0
  <2> DEFINE marked == Append(queue, Gap)
  <2>1. /\ marked \in Seq(Row) /\ Len(marked) = Len(queue) + 1
        /\ dropped > 0 /\ Len(queue) \in Nat
    BY <1>1, <1>8 DEF TypeOK
  <2>2. Linked(C(marked)) /\ C(marked)[Len(C(marked))] = Gap
    BY <1>1, <1>2, <1>4, <1>5 DEF Follows
  <2>3. CASE Len(marked) < QueueLen
    <3>1. queue' = Append(marked, row) /\ dropped' = 0
      BY <2>1, <2>3 DEF Offer
    <3>2. Linked(C(Append(marked, row)))
      BY <1>1, <1>4, <2>1, <2>2 DEF Follows
    <3>3. Append(marked, row) \in Seq(Row) /\ Len(Append(marked, row)) <= QueueLen
      BY <2>1, <2>3
    <3> QED
      BY <1>5, <2>1, <3>1, <3>2, <3>3
  <2>4. CASE Len(marked) = QueueLen
    <3>1. queue' = marked /\ dropped' = 1
      BY <2>1, <2>4 DEF Offer
    <3> QED
      BY <2>1, <2>2, <2>4, <3>1
  <2>5. CASE Len(marked) > QueueLen
    <3>1. queue' = queue /\ dropped' = dropped + 1
      BY <2>1, <2>5 DEF Offer
    <3> QED
      BY <1>1, <1>2, <2>1, <3>1 DEF TypeOK
  <2> QED
    BY <2>1, <2>3, <2>4, <2>5
<1> QED
  BY <1>7, <1>8

\* Every step preserves the inductive invariant.
LEMMA RecorderStep == RecorderInv /\ [Next]_vars => RecorderInv'
<1> SUFFICES ASSUME RecorderInv, [Next]_vars PROVE RecorderInv'
  OBVIOUS
<1> USE RecorderNumbers
<1>1. /\ TypeOK /\ Linked(tape) /\ Linked(Current)
      /\ queue \in Seq(Row) /\ batch \in Seq(Row) /\ tape \in Seq(Row)
      /\ Held \in Seq(Row) /\ Stream \in Seq(Row) /\ Current \in Seq(Row)
      /\ Gap \in Row /\ Gap.kind = "gap"
      /\ seen \in Nat /\ lost \in Nat /\ dropped \in Nat
  BY DEF RecorderInv, TypeOK, Current, Stream, Held, Row, Gap
<1>2. CASE Connect
  <2>1. Connected(seen') \in Row /\ Connected(seen').kind # "frame"
    BY <1>1, <1>2 DEF Connect, Connected, Row
  <2>2. /\ Offer(Connected(seen')) /\ seen' = seen + 1 /\ connected' \in BOOLEAN
        /\ UNCHANGED <<batch, lost, tape>>
        /\ connected' = TRUE
    BY <1>2 DEF Connect
  <2>3. Connected(seen').kind = "frame" => connected /\ Connected(seen').n = seen + 1
    BY <2>1, <2>2
  <2> QED
    BY <2>1, <2>2, <2>3, OfferStep
<1>3. CASE Receive
  <2>1. Frame(seen') \in Row /\ Frame(seen').kind = "frame" /\ Frame(seen').n = seen'
    BY <1>1, <1>3 DEF Receive, Frame, Row
  <2>2. /\ Offer(Frame(seen')) /\ seen' = seen + 1 /\ connected' \in BOOLEAN
        /\ UNCHANGED <<batch, lost, tape>>
        /\ connected
    BY <1>3 DEF Receive
  <2>3. Frame(seen').kind = "frame" => connected /\ Frame(seen').n = seen + 1
    BY <2>1, <2>2
  <2> QED
    BY <2>1, <2>2, <2>3, OfferStep
<1>4. CASE Disconnect
  <2>1. Frame(seen') \in Row /\ Frame(seen').kind = "frame" /\ Frame(seen').n = seen'
    BY <1>1, <1>4 DEF Disconnect, Frame, Row
  <2>2. /\ Offer(Frame(seen')) /\ seen' = seen + 1 /\ connected' \in BOOLEAN
        /\ UNCHANGED <<batch, lost, tape>>
        /\ connected
    BY <1>4 DEF Disconnect
  <2>3. Frame(seen').kind = "frame" => connected /\ Frame(seen').n = seen + 1
    BY <2>1, <2>2
  <2> QED
    BY <2>1, <2>2, <2>3, OfferStep
<1>5. CASE TakeFirst
  <2>1. /\ batch = <<>> /\ queue # <<>>
        /\ batch' = IF lost > 0 THEN <<Gap, Head(queue)>> ELSE <<Head(queue)>>
        /\ queue' = Tail(queue)
        /\ UNCHANGED <<connected, seen, dropped, lost, tape>>
        /\ Head(queue) \in Row /\ Tail(queue) \in Seq(Row)
    BY <1>1, <1>5 DEF TakeFirst
  <2>2. TypeOK'
    BY <1>1, <2>1 DEF TypeOK
  <2>3. Held = queue /\ queue = <<Head(queue)>> \o Tail(queue)
    BY <1>1, <2>1 DEF Held
  <2>4. CASE lost = 0
    <3>1. Current' = Current
      BY <2>1, <2>3, <2>4 DEF Current, Stream, Held
    <3> QED
      BY <1>1, <2>1, <2>2, <2>4, <3>1 DEF RecorderInv
  <2>5. CASE lost > 0
    <3>1. <<Gap, Head(queue)>> \o Tail(queue) = <<Gap>> \o (<<Head(queue)>> \o Tail(queue))
      BY <1>1, <2>1
    <3>2. Current' = <<Gap>> \o Current /\ Current = queue
      BY <2>1, <2>3, <2>5, <3>1 DEF Current, Stream, Held
    <3>3. Linked(Current')
      BY <1>1, <3>2, MarkerLinked
    <3>4. Current'[Len(Current')] = Current[Len(Current)]
      BY <1>1, <2>1, <3>2, ConcatLast
    <3>5. batch'[1].kind = "gap"
      BY <1>1, <2>1, <2>5
    <3> QED
      BY <1>1, <2>1, <2>2, <3>2, <3>3, <3>4, <3>5 DEF RecorderInv
  <2> QED
    BY <1>1, <2>4, <2>5
<1>6. CASE TakeMore
  <2>1. /\ batch # <<>> /\ queue # <<>> /\ Len(batch) < BatchLen
        /\ batch' = Append(batch, Head(queue)) /\ queue' = Tail(queue)
        /\ UNCHANGED <<connected, seen, dropped, lost, tape>>
        /\ Head(queue) \in Row /\ Tail(queue) \in Seq(Row)
    BY <1>1, <1>6 DEF TakeMore
  <2>2. TypeOK'
    BY <1>1, <2>1 DEF TypeOK
  <2>3. Held' = Held
    <3>1. batch \in Seq(Row) /\ queue \in Seq(Row) /\ queue # <<>>
      BY <1>1, <2>1
    <3>2. Append(batch, Head(queue)) \o Tail(queue) = batch \o queue
      BY <3>1, HandedOver, Zenon
    <3> QED
      BY <2>1, <3>2, Zenon DEF Held
  <2>4. Current' = Current
    BY <2>1, <2>3 DEF Current, Stream
  <2>5. batch'[1] = batch[1]
    BY <1>1, <2>1
  <2> QED
    BY <1>1, <2>1, <2>2, <2>4, <2>5 DEF RecorderInv
<1>7. CASE Write
  <2>1. /\ batch # <<>> /\ tape' = tape \o batch /\ batch' = <<>> /\ lost' = 0
        /\ UNCHANGED <<connected, seen, dropped, queue>>
    BY <1>7 DEF Write, Complete
  <2>2. TypeOK'
    BY <1>1, <2>1 DEF TypeOK
  <2>3. Current' = Stream /\ Stream = (tape \o batch) \o queue
    <3>1. (tape \o batch) \o queue = tape \o (batch \o queue)
      <4>1. tape \in Seq(Row) /\ batch \in Seq(Row) /\ queue \in Seq(Row)
        BY <1>1
      <4> QED
        BY <4>1, Regrouped, Zenon
    <3>2. <<>> \o queue = queue
      BY <1>1
    <3> QED
      BY <2>1, <3>1, <3>2 DEF Current, Stream, Held
  <2>4. Held # <<>> /\ Held[1] = batch[1]
    BY <1>1, <2>1 DEF Held
  <2>5. Linked(Stream)
    <3>1. CASE lost = 0
      BY <1>1, <3>1 DEF Current
    <3>2. CASE lost > 0
      BY <1>1, <2>1, <2>4, <3>2, ConcatLinked DEF Current, Stream, RecorderInv
    <3> QED
      BY <1>1, <3>1, <3>2
  <2>6. Linked(tape')
    <3>1. tape \o batch \in Seq(Row)
      BY <1>1
    <3> QED
      BY <1>1, <2>1, <2>3, <2>5, <3>1, ConcatParts
  <2>7. Current # <<>> /\ Current[Len(Current)] = Stream[Len(Stream)]
    BY <1>1, <2>4, ConcatLast DEF Current, Stream
  <2> QED
    BY <2>1, <2>2, <2>3, <2>5, <2>6, <2>7 DEF RecorderInv
<1>8. CASE WriteFails
  <2>1. /\ batch # <<>> /\ batch' = <<>> /\ lost' = lost + Len(batch)
        /\ UNCHANGED <<connected, seen, dropped, queue, tape>>
        /\ lost' > 0
    BY <1>1, <1>8 DEF WriteFails, Complete
  <2>2. TypeOK'
    BY <1>1, <2>1 DEF TypeOK
  <2>3. Current' = queue
    BY <1>1, <2>1 DEF Current, Held
  <2>4. Linked(Held)
    BY <1>1, ConcatParts DEF Current, Stream
  <2>5. Linked(queue)
    BY <1>1, <2>4, ConcatParts DEF Held
  <2>6. queue # <<>> =>
          Current # <<>> /\ Current[Len(Current)] = queue[Len(queue)]
    BY <1>1, ConcatLast DEF Current, Stream, Held
  <2> QED
    BY <1>1, <2>1, <2>2, <2>3, <2>5, <2>6 DEF RecorderInv
<1>9. CASE Crash
  <2>1. /\ ~connected' /\ dropped' = 0 /\ queue' = <<>> /\ batch' = <<>>
        /\ lost' = 0 /\ UNCHANGED <<seen, tape>> /\ connected' \in BOOLEAN
    BY <1>9 DEF Crash
  <2>2. TypeOK'
    BY <1>1, <2>1 DEF TypeOK
  <2>3. Current' = tape
    BY <1>1, <2>1 DEF Current, Stream, Held
  <2> QED
    BY <1>1, <2>1, <2>2, <2>3 DEF RecorderInv
<1>10. CASE UNCHANGED vars
  BY <1>10 DEF vars, RecorderInv, TypeOK, Current, Stream, Held, Linked
<1> QED
  BY <1>2, <1>3, <1>4, <1>5, <1>6, <1>7, <1>8, <1>9, <1>10 DEF Next

\* An empty tape and a process without a connection satisfy it.
LEMMA RecorderInitially == Init => RecorderInv
<1> SUFFICES ASSUME Init PROVE RecorderInv
  OBVIOUS
<1>1. TypeOK
  <2>1. <<>> \in Seq(Row) /\ Len(<<>>) = 0
    OBVIOUS
  <2>2. Len(queue) <= QueueLen /\ Len(batch) <= BatchLen
    BY <2>1, RecorderNumbers DEF Init
  <2>3. {seen, dropped, lost} \subseteq Nat
    BY DEF Init
  <2>4. connected \in BOOLEAN /\ {queue, batch, tape} \subseteq Seq(Row)
    BY <2>1 DEF Init
  <2> QED
    BY <2>2, <2>3, <2>4 DEF TypeOK
<1>2. Current = <<>>
  BY DEF Init, Current, Stream, Held
<1> QED
  BY <1>1, <1>2 DEF Init, RecorderInv, Linked

\* The inductive invariant: no unmarked gap on the tape or on the way to it but
\* the one a failed write left, which the next batch will mark.
THEOREM RecorderInvCorrect == Spec => []RecorderInv
  BY RecorderInitially, RecorderStep, PTL DEF Spec

\* Whatever was dropped by a full queue, a failed transaction or a crash lies
\* behind a row that says so (recorder.rs 1-3).
THEOREM GapsMarkedCorrect == Spec => []GapsMarked
<1>1. RecorderInv => GapsMarked
  BY DEF RecorderInv, GapsMarked
<1> QED
  BY <1>1, RecorderInvCorrect, PTL

-----------------------------------------------------------------------------
(* The watchdog of the RTDS feed                                           *)

\* The thresholds and the largest age counted are numbers.
LEMMA WatchdogNumbers ==
  /\ ResubAfter \in Nat /\ ResubAfter > 0
  /\ ReconnectAfter \in Nat /\ ReconnectAfter > 0
  /\ SendMax \in Nat
  /\ Limit \in Nat
  /\ 0 \in 0..Limit /\ 0 \in 0..SendMax
  BY WatchdogAssumption DEF Limit

\* A state without a connection satisfies the inductive invariant.
LEMMA WatchdogInitially == RtdsInit => WatchdogInv
  BY WatchdogNumbers DEF RtdsInit, WatchdogInv, WatchdogTypeOK

\* Every step preserves it.
LEMMA WatchdogStep == WatchdogInv /\ [RtdsNext]_rtds => WatchdogInv'
<1> SUFFICES ASSUME WatchdogInv, [RtdsNext]_rtds PROVE WatchdogInv'
  OBVIOUS
<1> USE WatchdogAssumption, WatchdogNumbers DEF WatchdogInv, WatchdogTypeOK
<1>1. CASE RtdsTick
  BY <1>1 DEF Limit, RtdsTick, Older, ReconnectDue, ResubscribeDue
<1>2. CASE TwapUpdate
  <2>1. conn' = "up" /\ silent' = 0 /\ quiet' = 0 /\ asked' = None
    BY <1>2 DEF TwapUpdate
  <2>2. WatchdogTypeOK'
    BY <1>2, <2>1 DEF TwapUpdate
  <2> QED
    BY <2>1, <2>2
<1>3. CASE Mute
  BY <1>3 DEF Mute
<1>4. ASSUME NEW served \in BOOLEAN, RtdsConnect(served) PROVE WatchdogInv'
  <2>1. conn' = "up" /\ silent' = 0 /\ quiet' = 0 /\ asked' = None
    BY <1>4 DEF RtdsConnect
  <2>2. WatchdogTypeOK'
    BY <1>4, <2>1 DEF RtdsConnect
  <2> QED
    BY <2>1, <2>2
<1>5. ASSUME NEW served \in BOOLEAN, Resubscribed(served) PROVE WatchdogInv'
  BY <1>5 DEF Resubscribed
<1>6. CASE Resubscribe
  BY <1>6 DEF Resubscribe, ReconnectDue, ResubscribeDue
<1>7. CASE Reconnect
  BY <1>7 DEF Reconnect, RtdsDown
<1>8. CASE RtdsEnds
  BY <1>8 DEF RtdsEnds, RtdsDown
<1>9. CASE UNCHANGED rtds
  BY <1>9 DEF rtds
<1> QED
  BY <1>1, <1>2, <1>3, <1>4, <1>5, <1>6, <1>7, <1>8, <1>9 DEF RtdsNext

\* The inductive invariant: both timers are true, and a silence beyond the first
\* threshold has a re-subscription behind it.
THEOREM WatchdogInvCorrect == RtdsSpec => []WatchdogInv
  BY WatchdogInitially, WatchdogStep, PTL DEF RtdsSpec

\* No connection outlives its TWAP feed by more than the second threshold and
\* one slow send (rtds.rs 205-222).
THEOREM SilenceBoundedCorrect == RtdsSpec => []SilenceBounded
<1>1. WatchdogInv => SilenceBounded
  BY WatchdogAssumption
  DEF WatchdogInv, WatchdogTypeOK, SilenceBounded, Limit
<1> QED
  BY <1>1, WatchdogInvCorrect, PTL

\* No connection is given up for its silence before a re-subscription was tried
\* on it (rtds.rs 202-204).
THEOREM EscalationCorrect == RtdsSpec => EscalatesInOrder
<1>1. WatchdogInv => [Reconnect => tried]_rtds
  BY WatchdogAssumption
  DEF WatchdogInv, WatchdogTypeOK, Reconnect, ReconnectDue, Limit
<1> QED
  BY <1>1, WatchdogInvCorrect, PTL DEF RtdsSpec, EscalatesInOrder

=============================================================================
