------------------------- MODULE WindowCapture_proofs -------------------------
(***************************************************************************)
(* The invariant of WindowCapture, and that every window is measured       *)
(* against prices of its own boundary and closed once, for every length of *)
(* a window and every age the code tolerates.                              *)
(***************************************************************************)
EXTENDS WindowCapture, TLAPS

\* A window begins at or before every time that lies in it.
LEMMA WindowTsType ==
  ASSUME NEW t \in Nat
  PROVE  WindowTs(t) \in Nat /\ WindowTs(t) <= t /\ t < WindowTs(t) + WindowLen
BY CaptureAssumption DEF WindowTs

LEMMA WindowsInOrder ==
  ASSUME NEW a \in Nat, NEW b \in Nat, a < b
  PROVE  WindowLen * a + WindowLen <= WindowLen * b
<1>1. WindowLen * b = WindowLen * a + WindowLen * (b - a)
  BY CaptureAssumption
<1>2. b - a \in Nat \ {0} /\ WindowLen \in Nat /\ WindowLen * a \in Nat
  BY CaptureAssumption
<1>3. ASSUME NEW d \in Nat \ {0} PROVE WindowLen * d >= WindowLen
  <2>1. WindowLen * d = WindowLen + WindowLen * (d - 1)
    BY CaptureAssumption
  <2>2. WindowLen * (d - 1) \in Nat
    BY CaptureAssumption
  <2> QED
    BY <2>1, <2>2, CaptureAssumption
<1>4. WindowLen * (b - a) >= WindowLen /\ WindowLen * (b - a) \in Nat
  BY <1>2, <1>3, CaptureAssumption
<1> QED
  BY <1>1, <1>2, <1>4

\* The windows are the multiples of their length.
LEMMA WindowTsMultiple ==
  ASSUME NEW t \in Nat
  PROVE  t \div WindowLen \in Nat /\ WindowTs(t) = WindowLen * (t \div WindowLen)
BY CaptureAssumption DEF WindowTs

\* The time in a later window is past the end of an earlier one.
LEMMA LaterWindow ==
  ASSUME NEW s \in Nat, NEW t \in Nat, s <= t, WindowTs(s) # WindowTs(t)
  PROVE  WindowTs(s) + WindowLen <= WindowTs(t)
<1> DEFINE a == s \div WindowLen
           b == t \div WindowLen
<1>1. a \in Nat /\ b \in Nat /\ WindowTs(s) = WindowLen * a /\ WindowTs(t) = WindowLen * b
  BY WindowTsMultiple
<1> HIDE DEF a, b
<1>2. CASE a < b
  BY <1>1, <1>2, WindowsInOrder
<1>3. CASE b < a
  <2>1. WindowTs(t) + WindowLen <= WindowTs(s)
    BY <1>1, <1>3, WindowsInOrder
  <2> QED
    BY <2>1, WindowTsType, CaptureAssumption
<1>4. a # b
  BY <1>1
<1> QED
  BY <1>1, <1>2, <1>3, <1>4

\* A window begins with its own name.
LEMMA WindowTsTwice ==
  ASSUME NEW w \in Window
  PROVE  w \in Nat /\ WindowTs(w) = w
<1>1. PICK t \in Time : w = WindowTs(t)
  BY DEF Window
<1>2. t \in Nat /\ w \in Nat /\ w <= t /\ t < w + WindowLen
  BY <1>1, WindowTsType, CaptureAssumption DEF Time
<1>3. WindowTs(w) # w => WindowTs(w) + WindowLen <= w
  BY <1>1, <1>2, LaterWindow
<1>4. WindowTs(w) \in Nat /\ w < WindowTs(w) + WindowLen
  BY <1>2, WindowTsType
<1> QED
  BY <1>2, <1>3, <1>4, CaptureAssumption

-----------------------------------------------------------------------------
(* The steps                                                               *)

\* The times and windows as numbers.
LEMMA Numbers ==
  ASSUME TypeOK
  PROVE  /\ clock \in Nat /\ now \in Nat /\ cur \in Nat
         /\ window # None => window \in Nat
         /\ last # None => last \in Nat
         /\ strike # None => strike \in Int
         /\ twap # None => twap \in Int
         /\ \A f \in Feed : /\ open[f] # None => open[f] \in Int
                           /\ spot[f] # None => spot[f] \in Int
BY WindowTsTwice, CaptureAssumption DEF TypeOK, Time, Observed

LEMMA InitCapture == Init => CaptureInv
<1> SUFFICES ASSUME Init PROVE CaptureInv
  OBVIOUS
<1>1. 0 \in Window
  BY WindowTsType, CaptureAssumption DEF Window, Time, WindowTs
<1>2. TypeOK
  <2>1. clock \in Time /\ now \in Time /\ cur \in Window
    BY <1>1, CaptureAssumption DEF Init, Time
  <2>2. /\ spot \in [Feed -> Observed \cup {None}] /\ open \in [Feed -> Observed \cup {None}]
        /\ openRow \in [Window -> Time \cup {None}] /\ closeRow \in [Window -> Time \cup {None}]
    BY DEF Init
  <2> QED
    BY <2>1, <2>2 DEF Init, TypeOK
<1>3. LoopInv /\ CloseInv
  BY <1>1 DEF Init, LoopInv, CloseInv
<1>4. OpenPriceAtBoundary /\ StrikeAtBoundary
  BY DEF Init, OpenPriceAtBoundary, StrikeAtBoundary
<1> QED
  BY <1>2, <1>3, <1>4 DEF CaptureInv

\* The feeds change only what the next capture will read.
LEMMA FeedStep ==
  ASSUME CaptureInv, TwapUpdate \/ RtdsDown \/ BinanceDown \/ \E f \in Feed : SpotUpdate(f)
  PROVE  CaptureInv'
<1> USE DEF CaptureInv
<1>1. UNCHANGED <<clock, pc, loop, ws, open, rows>>
  BY DEF TwapUpdate, RtdsDown, BinanceDown, SpotUpdate
<1>2. twap' \in Observed \cup {None} /\ spot' \in [Feed -> Observed \cup {None}]
  BY DEF TwapUpdate, RtdsDown, BinanceDown, SpotUpdate, Newer, Arriving, Forgotten, TypeOK
<1>3. TypeOK'
  BY <1>1, <1>2 DEF TypeOK, loop, ws, rows
<1>4. LoopInv' /\ CloseInv'
  BY <1>1 DEF LoopInv, CloseInv, Ended, loop, ws, rows
<1>5. OpenPriceAtBoundary' /\ StrikeAtBoundary'
  BY <1>1 DEF OpenPriceAtBoundary, StrikeAtBoundary, loop, ws
<1> QED
  BY <1>3, <1>4, <1>5

\* Time passes: an ended window stays ended.
LEMMA TickStep ==
  ASSUME CaptureInv, Tick
  PROVE  CaptureInv'
<1> USE DEF CaptureInv
<1>1. TypeOK'
  BY CaptureAssumption DEF Tick, TypeOK, Time, feeds, loop, ws, rows
<1>2. LoopInv'
  BY Numbers DEF Tick, LoopInv, feeds, loop, ws, rows
<1>3. CloseInv'
  BY Numbers, WindowTsTwice, CaptureAssumption DEF Tick, CloseInv, Ended, feeds, loop, ws, rows
<1>4. OpenPriceAtBoundary' /\ StrikeAtBoundary'
  BY DEF Tick, OpenPriceAtBoundary, StrikeAtBoundary, feeds, loop, ws, rows
<1> QED
  BY <1>1, <1>2, <1>3, <1>4

\* A new iteration: a window that it finds new has no closing row, and the one
\* it leaves is over by the time it reads.
LEMMA ReadStep ==
  ASSUME CaptureInv, ReadClocks
  PROVE  CaptureInv'
<1> USE DEF CaptureInv
<1>1. /\ pc = "top" /\ pc' = "close" /\ cur' = WindowTs(clock)
      /\ UNCHANGED <<feeds, last, ws, open, rows>>
  BY DEF ReadClocks
<1>2. /\ clock \in Nat /\ WindowLen \in Nat /\ MaxTick \in Nat /\ clock <= MaxTick
      /\ cur' \in Nat /\ cur' <= clock /\ clock < cur' + WindowLen
  BY <1>1, Numbers, WindowTsType, CaptureAssumption DEF TypeOK, Time
<1>3. now' = clock' /\ clock' \in Nat /\ clock <= clock' /\ clock' <= MaxTick
  BY <1>2 DEF ReadClocks
<1>4. TypeOK'
  BY <1>1, <1>2, <1>3 DEF TypeOK, Time, Window, feeds, ws, rows
<1>5. LoopInv'
  BY <1>1, <1>2, <1>3, Numbers DEF LoopInv, ws
<1>6. \A w \in Window : closeRow'[w] # None => Ended(w)'
  BY <1>1, <1>2, <1>3, WindowTsTwice DEF CloseInv, Ended, rows
<1>7. closeRow'[cur'] = None
  <2>1. cur' \in Window
    BY <1>4 DEF TypeOK
  <2>2. closeRow[cur'] # None => clock >= cur' + WindowLen
    BY <2>1 DEF CloseInv, Ended
  <2>3. ASSUME NEW w \in Nat, clock < w + WindowLen PROVE ~(clock >= w + WindowLen)
    BY <1>2, <2>3
  <2> QED
    BY <1>1, <1>2, <2>2, <2>3 DEF rows
<1>8. last # None /\ cur' # last => now' >= last + WindowLen
  <2> SUFFICES ASSUME last # None, cur' # last PROVE now' >= last + WindowLen
    OBVIOUS
  <2>1. last \in Nat /\ WindowTs(last) = last /\ last <= clock
    BY <1>1, WindowTsTwice DEF TypeOK, LoopInv
  <2>2. last + WindowLen <= cur'
    BY <1>1, <1>2, <2>1, LaterWindow
  <2> QED
    BY <1>2, <1>3, <2>1, <2>2
<1>9. CloseInv'
  BY <1>1, <1>6, <1>7, <1>8 DEF CloseInv, ws, rows
<1>10. OpenPriceAtBoundary' /\ StrikeAtBoundary'
  BY <1>1 DEF OpenPriceAtBoundary, StrikeAtBoundary, ws
<1> QED
  BY <1>4, <1>5, <1>9, <1>10

\* The close: only a row of the window that ended, and its flag, change.
LEMMA CloseStep ==
  ASSUME CaptureInv, NEW saved \in BOOLEAN, CloseCapture(saved)
  PROVE  CaptureInv'
<1> USE DEF CaptureInv
<1>1. /\ pc = "close" /\ pc' = "rotate" /\ resolveCaptured' = TRUE
      /\ last # None /\ last \in Window /\ now >= last + WindowLen
      /\ UNCHANGED <<clock, feeds, loop, window, strike, openCaptured, open, openRow>>
  BY DEF CloseCapture, CloseDue, TypeOK
<1>2. closeRow' = closeRow \/ closeRow' = [closeRow EXCEPT ![last] = now]
  BY DEF CloseCapture
<1>3. TypeOK'
  BY <1>1, <1>2 DEF TypeOK, feeds, loop
<1>4. LoopInv'
  BY <1>1 DEF LoopInv, loop
<1>5. \A w \in Window : closeRow'[w] # None => Ended(w)'
  <2> SUFFICES ASSUME NEW w \in Window, closeRow'[w] # None PROVE clock' >= w + WindowLen
    BY DEF Ended
  <2>1. CASE w = last
    BY <1>1, <2>1, Numbers, CaptureAssumption DEF LoopInv, loop
  <2>2. CASE w # last
    BY <1>1, <1>2, <2>2 DEF TypeOK, CloseInv, Ended
  <2> QED
    BY <2>1, <2>2
<1>6. cur # last => closeRow'[cur] = None
  BY <1>1, <1>2 DEF TypeOK, CloseInv
<1>7. CloseInv'
  BY <1>1, <1>5, <1>6 DEF CloseInv, loop
<1>8. OpenPriceAtBoundary' /\ StrikeAtBoundary'
  BY <1>1 DEF OpenPriceAtBoundary, StrikeAtBoundary
<1> QED
  BY <1>3, <1>4, <1>7, <1>8

\* No close is due: the window goes on, or was closed before.
LEMMA NoCloseStep ==
  ASSUME CaptureInv, NoClose
  PROVE  CaptureInv'
<1> USE DEF CaptureInv
<1>1. /\ pc = "close" /\ pc' = "rotate"
      /\ UNCHANGED <<clock, feeds, loop, ws, open, rows>>
  BY DEF NoClose
<1>2. TypeOK'
  BY <1>1 DEF TypeOK, feeds, loop, ws, rows
<1>3. LoopInv'
  BY <1>1 DEF LoopInv, loop, ws
<1>4. last # None /\ cur # last => resolveCaptured
  BY <1>1 DEF NoClose, CloseDue, CloseInv, TypeOK
<1>5. CloseInv'
  BY <1>1, <1>4 DEF CloseInv, Ended, loop, ws, rows
<1>6. OpenPriceAtBoundary' /\ StrikeAtBoundary'
  BY <1>1 DEF OpenPriceAtBoundary, StrikeAtBoundary, ws
<1> QED
  BY <1>2, <1>3, <1>5, <1>6

\* The rotation: an opening price is between the age its feed may have and the
\* grace of the window.
LEMMA RotateStep ==
  ASSUME CaptureInv, Rotate
  PROVE  CaptureInv'
<1> USE DEF CaptureInv
<1>1. /\ pc = "rotate" /\ cur # last /\ pc' = "discover"
      /\ window' = cur /\ strike' = None
      /\ openCaptured' = FALSE /\ resolveCaptured' = FALSE
      /\ open' = [f \in Feed |-> OpenPrice(f)]
      /\ UNCHANGED <<clock, feeds, loop, rows>>
  BY DEF Rotate
<1>2. cur \in Nat /\ cur # None /\ now \in Nat /\ cur <= now /\ now <= clock /\ clock \in Nat
  BY <1>1, Numbers, CaptureAssumption DEF LoopInv
<1>3. \A f \in Feed : open'[f] = OpenPrice(f) /\ (OpenPrice(f) = spot[f] \/ OpenPrice(f) = None)
  BY <1>1 DEF OpenPrice
<1>4. TypeOK'
  BY <1>1, <1>3 DEF TypeOK, feeds, loop, rows
<1>5. LoopInv'
  BY <1>1, <1>2 DEF LoopInv, loop
<1>6. CloseInv'
  BY <1>1 DEF CloseInv, Ended, loop, rows
<1>7. OpenPriceAtBoundary'
  <2> SUFFICES ASSUME NEW f \in Feed, open'[f] # None
      PROVE  cur - MaxAge(f) <= open'[f] /\ open'[f] <= cur + Grace
    BY <1>1, <1>2 DEF OpenPriceAtBoundary, MaxAge
  <2>1. OpenPrice(f) # None /\ open'[f] = OpenPrice(f)
    BY <1>3
  <2>2. /\ open'[f] = spot[f] /\ spot[f] # None
        /\ now - cur <= Grace /\ spot[f] <= now /\ now - spot[f] <= MaxAge(f)
    BY <2>1 DEF OpenPrice
  <2>3. spot[f] \in Int
    BY <2>2, CaptureAssumption DEF TypeOK, Observed
  <2>4. MaxAge(f) \in Nat /\ Grace \in Nat
    BY CaptureAssumption DEF MaxAge
  <2> QED
    BY <1>2, <2>2, <2>3, <2>4
<1>8. StrikeAtBoundary'
  BY <1>1 DEF StrikeAtBoundary
<1> QED
  BY <1>4, <1>5, <1>6, <1>7, <1>8

\* The steps that only move the loop on.
LEMMA LoopStep ==
  ASSUME CaptureInv, SameWindow \/ Discovered \/ NoOpen \/ Start
  PROVE  CaptureInv'
<1> USE DEF CaptureInv
<1>1. UNCHANGED <<clock, feeds, ws, open, rows>>
  BY DEF SameWindow, Discovered, NoOpen, Start, loop
<1>2. 0 \in Window /\ 0 \in Time
  BY WindowTsType, CaptureAssumption DEF Window, Time, WindowTs
<1>3. TypeOK'
  BY <1>1, <1>2 DEF SameWindow, Discovered, NoOpen, Start, EndIteration, TypeOK,
                    feeds, loop, ws, rows
<1>4. LoopInv'
  BY <1>1, Numbers DEF SameWindow, Discovered, NoOpen, Start, EndIteration, LoopInv, loop, ws
<1>5. CloseInv'
  BY <1>1 DEF SameWindow, Discovered, NoOpen, Start, EndIteration, CloseInv, Ended,
              loop, ws, rows
<1>6. OpenPriceAtBoundary' /\ StrikeAtBoundary'
  BY <1>1 DEF OpenPriceAtBoundary, StrikeAtBoundary, ws
<1> QED
  BY <1>3, <1>4, <1>5, <1>6

\* The open: the strike is within its limits.
LEMMA OpenStep ==
  ASSUME CaptureInv, NEW saved \in BOOLEAN, OpenCapture(saved)
  PROVE  CaptureInv'
<1> USE DEF CaptureInv
<1>1. /\ pc = "open" /\ pc' = "top" /\ cur' = 0 /\ now' = 0
      /\ strike' = Strike /\ openCaptured' = TRUE
      /\ UNCHANGED <<clock, feeds, last, window, resolveCaptured, open, closeRow>>
  BY DEF OpenCapture, EndIteration
<1>2. window = cur /\ last = cur /\ cur \in Nat /\ cur # None
  BY <1>1, Numbers, CaptureAssumption DEF LoopInv
<1>3. Strike = None \/ /\ Strike = twap /\ twap # None
                       /\ cur - Lookback <= Strike /\ Strike <= cur + Grace
  BY DEF Strike, FreshTwap
<1>4. 0 \in Window /\ 0 \in Time
  BY WindowTsType, CaptureAssumption DEF Window, Time, WindowTs
<1>5. openRow' \in [Window -> Time \cup {None}]
  BY DEF OpenCapture, TypeOK
<1>6. TypeOK'
  BY <1>1, <1>3, <1>4, <1>5 DEF TypeOK, feeds
<1>7. LoopInv'
  BY <1>1, <1>2, Numbers DEF LoopInv
<1>8. CloseInv'
  BY <1>1 DEF CloseInv, Ended
<1>9. OpenPriceAtBoundary' /\ StrikeAtBoundary'
  BY <1>1, <1>2, <1>3 DEF OpenPriceAtBoundary, StrikeAtBoundary
<1> QED
  BY <1>6, <1>7, <1>8, <1>9

\* A crash keeps the rows, and a process that knows no window owes none.
LEMMA CrashStep ==
  ASSUME CaptureInv, Crash
  PROVE  CaptureInv'
<1> USE DEF CaptureInv
<1>1. 0 \in Window /\ 0 \in Time
  BY WindowTsType, CaptureAssumption DEF Window, Time, WindowTs
<1>2. TypeOK'
  BY <1>1 DEF Crash, TypeOK, rows
<1>3. LoopInv' /\ CloseInv'
  BY Numbers DEF Crash, LoopInv, CloseInv, Ended, rows
<1>4. OpenPriceAtBoundary' /\ StrikeAtBoundary'
  BY DEF Crash, OpenPriceAtBoundary, StrikeAtBoundary
<1> QED
  BY <1>2, <1>3, <1>4

LEMMA CaptureNext == CaptureInv /\ [Next]_vars => CaptureInv'
<1> SUFFICES ASSUME CaptureInv, [Next]_vars PROVE CaptureInv'
  OBVIOUS
<1>1. CASE Next
  BY <1>1, FeedStep, TickStep, ReadStep, CloseStep, NoCloseStep, RotateStep, LoopStep,
     OpenStep, CrashStep DEF Next, MainLoop
<1>2. CASE UNCHANGED vars
  BY <1>2 DEF vars, feeds, loop, ws, rows, CaptureInv, TypeOK, LoopInv, CloseInv, Ended,
              OpenPriceAtBoundary, StrikeAtBoundary
<1> QED
  BY <1>1, <1>2

-----------------------------------------------------------------------------
(* Theorems                                                                *)

\* Where the loop is, which window the shared state belongs to and which rows
\* exist agree in every state.
THEOREM CaptureInvCorrect == Spec => []CaptureInv
<1>1. Init => CaptureInv
  BY InitCapture
<1>2. CaptureInv /\ [Next]_vars => CaptureInv'
  BY CaptureNext
<1> QED
  BY <1>1, <1>2, PTL DEF Spec

\* The opening price of a feed is a price of the boundary of its window.
COROLLARY OpenPriceCorrect == Spec => []OpenPriceAtBoundary
<1>1. CaptureInv => OpenPriceAtBoundary
  BY DEF CaptureInv
<1> QED
  BY <1>1, CaptureInvCorrect, PTL

\* So is the strike, however long the discovery took.
COROLLARY StrikeCorrect == Spec => []StrikeAtBoundary
<1>1. CaptureInv => StrikeAtBoundary
  BY DEF CaptureInv
<1> QED
  BY <1>1, CaptureInvCorrect, PTL

\* The loop leaves no window before it captured the close.
THEOREM CloseNotSkippedCorrect == Spec => CloseNotSkipped
<1> DEFINE A == window' # window /\ window # None /\ pc' # "down" => resolveCaptured
<1>1. CaptureInv /\ [Next]_vars => [A]_vars
  <2> SUFFICES ASSUME CaptureInv, Next PROVE A
    OBVIOUS
  <2>1. window' # window /\ pc' # "down" => Rotate
    BY DEF Next, MainLoop, ReadClocks, CloseCapture, NoClose, Rotate, SameWindow, Discovered,
           OpenCapture, NoOpen, TwapUpdate, SpotUpdate, RtdsDown, BinanceDown, Tick, Crash,
           Start, ws
  <2>2. Rotate /\ window # None => resolveCaptured
    BY DEF Rotate, CaptureInv, LoopInv, CloseInv
  <2> QED
    BY <2>1, <2>2
<1> QED
  BY <1>1, CaptureInvCorrect, PTL DEF Spec, CloseNotSkipped

\* No later step and no later process writes the close of a window again.
THEOREM CloseOnceCorrect == Spec => CloseOnce
<1> DEFINE A == \A w \in Window : closeRow[w] # None => closeRow'[w] = closeRow[w]
<1>1. CaptureInv /\ [Next]_vars => [A]_vars
  <2> SUFFICES ASSUME CaptureInv, Next PROVE A
    OBVIOUS
  <2>1. closeRow' = closeRow \/ \E saved \in BOOLEAN : CloseCapture(saved)
    BY DEF Next, MainLoop, ReadClocks, NoClose, Rotate, SameWindow, Discovered, OpenCapture,
           NoOpen, TwapUpdate, SpotUpdate, RtdsDown, BinanceDown, Tick, Crash, Start, rows
  <2>2. ASSUME NEW saved \in BOOLEAN, CloseCapture(saved) PROVE A
    <3>1. last = window /\ last # None /\ ~resolveCaptured
      BY <2>2 DEF CloseCapture, CloseDue, CaptureInv, LoopInv
    <3>2. closeRow[last] = None
      BY <3>1 DEF CaptureInv, CloseInv
    <3> QED
      BY <2>2, <3>2 DEF CloseCapture, CaptureInv, TypeOK
  <2> QED
    BY <2>1, <2>2
<1> QED
  BY <1>1, CaptureInvCorrect, PTL DEF Spec, CloseOnce

\* A window is measured against one reference.
THEOREM OneReferenceCorrect == Spec => OneReference
<1> DEFINE A == window' = window /\ window # None =>
                  /\ open' = open
                  /\ strike # None \/ openCaptured => strike' = strike
<1>1. CaptureInv /\ [Next]_vars => [A]_vars
  <2> SUFFICES ASSUME CaptureInv, Next PROVE A
    OBVIOUS
  <2>1. CASE UNCHANGED <<open, strike>>
    BY <2>1
  <2>2. CASE Rotate
    BY <2>2 DEF Rotate, CaptureInv, LoopInv
  <2>3. ASSUME NEW saved \in BOOLEAN, OpenCapture(saved) PROVE A
    BY <2>3 DEF OpenCapture, OpenDue, CaptureInv, LoopInv
  <2>4. CASE Crash
    BY <2>4 DEF Crash
  <2> QED
    BY <2>1, <2>2, <2>3, <2>4 DEF Next, MainLoop, ReadClocks, CloseCapture, NoClose, SameWindow,
       Discovered, NoOpen, TwapUpdate, SpotUpdate, RtdsDown, BinanceDown, Tick, Start, ws
<1> QED
  BY <1>1, CaptureInvCorrect, PTL DEF Spec, OneReference

=============================================================================
