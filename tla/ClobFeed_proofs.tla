--------------------------- MODULE ClobFeed_proofs ---------------------------
(***************************************************************************)
(* Proofs about the CLOB feed: about MarketFeed for any number of windows, *)
(* and about TokenBook for every set of prices, every size and every       *)
(* number of versions and frames under way.                                *)
(***************************************************************************)
EXTENDS MarketFeed, TokenBook, SequenceTheorems, TLAPS

-----------------------------------------------------------------------------
(* MarketFeed                                                              *)

(* Sending a command makes it the latest one. *)
LEMMA CommandSent ==
  ASSUME cmds \in Seq(Window), NEW w \in Window, cmds' = Append(cmds, w), UNCHANGED tokens
  PROVE  Latest' = w
BY DEF Latest

(* The last element of a sequence is that of its tail, or its head. *)
LEMMA LastOfTail ==
  ASSUME NEW S, NEW s \in Seq(S), s # <<>>
  PROVE  s[Len(s)] = IF Tail(s) = <<>> THEN Head(s) ELSE Tail(s)[Len(Tail(s))]
<1> DEFINE n == Len(Tail(s))
<1>1. /\ Tail(s) \in Seq(S)
      /\ n = Len(s) - 1
      /\ \A i \in 1..n : Tail(s)[i] = s[i + 1]
  BY HeadTailProperties
<1>2. Len(s) \in Nat /\ n \in Nat
  BY <1>1, LenProperties
<1>3. n + 1 = Len(s)
  BY <1>1, <1>2
<1>4. CASE Tail(s) = <<>>
  <2>1. n = 0
    BY <1>4, EmptySeq
  <2>2. Len(s) = 1
    <3> HIDE DEF n
    <3>1. QED BY <1>3, <2>1
  <2>3. QED BY <1>4, <2>2
<1>5. CASE Tail(s) # <<>>
  <2>1. n \in Nat \ {0}
    BY <1>1, <1>5, EmptySeq
  <2>2. n \in 1..n
    <3> HIDE DEF n
    <3>1. QED BY <2>1
  <2>3. QED BY <1>1, <1>3, <1>5, <2>2
<1>6. QED BY <1>4, <1>5

(* Handling the first command does not change which one is the latest. *)
LEMMA Handled ==
  ASSUME cmds \in Seq(Window), cmds # <<>>, cmds' = Tail(cmds), tokens' = Head(cmds)
  PROVE  /\ Latest' = Latest
         /\ cmds' \in Seq(Window)
         /\ tokens' \in Window
<1>1. cmds' \in Seq(Window) /\ Head(cmds) \in Window
  BY HeadTailProperties
<1>2. cmds[Len(cmds)] = IF Tail(cmds) = <<>> THEN Head(cmds) ELSE Tail(cmds)[Len(Tail(cmds))]
  BY LastOfTail
<1>3. QED BY <1>1, <1>2 DEF Latest

(* FeedInv is inductive: the commands arrive in the order of the windows, and *)
(* each handled command, each lost connection and each rotation clears.       *)
LEMMA FeedKept == FeedInv /\ [FeedNext]_feedVars => FeedInv'
<1> SUFFICES ASSUME FeedInv, [FeedNext]_feedVars PROVE FeedInv'
  OBVIOUS
<1> USE WindowAssumption DEF FeedInv, FeedTypeOK, Window, Side, NoBooks
<1>1. CASE Rotate
  BY <1>1 DEF Rotate, feed, Latest
<1>2. CASE Discover
  <2>1. Latest' = cur
    BY <1>2, CommandSent DEF Discover, feed
  <2>2. QED BY <1>2, <2>1 DEF Discover, feed
<1>3. CASE Publish
  BY <1>3 DEF Publish, feed, Latest
<1>4. CASE NotFound
  BY <1>4 DEF NotFound, feed, Latest
<1>5. ASSUME NEW sent \in BOOLEAN, Connect(sent) PROVE FeedInv'
  BY <1>5 DEF Connect, loop, Latest
<1>6. ASSUME NEW sent \in BOOLEAN, Subscribe(sent) PROVE FeedInv'
  <2>1. Latest' = Latest /\ cmds' \in Seq(Window) /\ tokens' \in Window
    BY <1>6, Handled DEF Subscribe
  <2>2. Head(cmds) \in Window
    BY <1>6, HeadTailProperties DEF Subscribe
  <2>3. subs' \subseteq Window /\ conn' \in {"clearing", "lost"}
    BY <1>6, <2>2 DEF Subscribe
  <2>4. QED BY <1>6, <2>1, <2>3 DEF Subscribe, loop
<1>7. CASE ClearBooks
  BY <1>7 DEF ClearBooks, loop, Latest
<1>8. CASE Lose
  BY <1>8 DEF Lose, loop, Latest
<1>9. CASE Disconnect
  BY <1>9 DEF Disconnect, loop, Latest
<1>10. ASSUME NEW w \in Window, NEW s \in Side, BookEvent(w, s) PROVE FeedInv'
  BY <1>10 DEF BookEvent, Shown, loop, feed, Latest
<1>11. ASSUME NEW w \in Window, Resolution(w) PROVE FeedInv'
  BY <1>11 DEF Resolution, loop, feed, Latest
<1>12. CASE NextWindow
  BY <1>12 DEF NextWindow, loop, feed, Latest
<1>13. CASE UNCHANGED feedVars
  BY <1>13 DEF feedVars, Latest
<1>14. QED
  BY <1>1, <1>2, <1>3, <1>4, <1>5, <1>6, <1>7, <1>8, <1>9, <1>10, <1>11, <1>12,
     <1>13 DEF FeedNext

(* The latest command, the market in use and the books agree as FeedInv says. *)
THEOREM FeedInvCorrect == FeedSpec => []FeedInv
<1>1. FeedInit => FeedInv
  BY WindowAssumption
  DEF FeedInit, FeedInv, FeedTypeOK, Window, Side, NoBooks, Latest
<1>2. QED BY <1>1, FeedKept, PTL DEF FeedSpec

(* Once its command has been handled, the market in use is the subscribed one. *)
LEMMA SettledTokens ==
  FeedInv /\ market # None /\ Settled => tokens = market
BY DEF FeedInv, Settled, Latest

(* The strategy sees no price of another window once the feed has handled the *)
(* command of its market, for any number of windows and lost connections.     *)
THEOREM OwnBooksCorrect == FeedSpec => []OwnBooks
<1>1. FeedInv => OwnBooks
  BY SettledTokens DEF FeedInv, OwnBooks, Settled
<1>2. QED BY <1>1, FeedInvCorrect, PTL

(* No late event of an earlier window marks the market in use as resolved. *)
THEOREM OwnResolutionCorrect == FeedSpec => OwnResolution
<1>1. FeedInv /\ [FeedNext]_feedVars =>
        [market # None /\ Settled /\ resolved' # resolved => resolved' \in {None, market}]_feedVars
  <2> SUFFICES ASSUME FeedInv, FeedNext, market # None, Settled, resolved' # resolved
               PROVE  resolved' \in {None, market}
    BY DEF feedVars
  <2>1. tokens = market
    BY SettledTokens
  <2>2. CASE Rotate
    BY <2>2 DEF Rotate
  <2>3. ASSUME NEW w \in Window, Resolution(w) PROVE resolved' = market
    BY <2>1, <2>3 DEF Resolution
  <2>4. QED
    BY <2>2, <2>3 DEF FeedNext, Discover, Publish, NotFound, Connect, Subscribe, ClearBooks,
       Lose, Disconnect, BookEvent, NextWindow
<1>2. QED BY <1>1, FeedInvCorrect, PTL DEF FeedSpec, OwnResolution

-----------------------------------------------------------------------------
(* TokenBook                                                               *)

\* A sent frame that is well formed keeps the frames under way well formed.
LEMMA Sent ==
  ASSUME TypeOK, WireInv, NEW frame \in Frame, Send(frame),
         \A v \in DOMAIN past : v \in DOMAIN past',
         frame.version \in DOMAIN past',
         frame.kind = "price_change" => frame.version > 1
  PROVE  wire' \in Seq(Frame) /\ WireInv'
<1>1. /\ wire' = Append(wire, frame)
      /\ wire' \in Seq(Frame)
      /\ DOMAIN wire' = 1..(Len(wire) + 1)
      /\ \A i \in 1..Len(wire) : wire'[i] = wire[i]
      /\ wire'[Len(wire) + 1] = frame
  BY AppendProperties, LenProperties DEF Send, TypeOK
<1>2. ASSUME NEW i \in DOMAIN wire'
      PROVE  /\ wire'[i].version \in DOMAIN past'
             /\ wire'[i].kind = "price_change" => wire'[i].version > 1
  <2>1. CASE i \in DOMAIN wire
    BY <2>1, <1>1, LenProperties DEF WireInv, TypeOK
  <2>2. CASE i = Len(wire) + 1
    BY <2>2, <1>1
  <2>3. QED BY <1>1, <2>1, <2>2, LenProperties DEF TypeOK
<1>3. QED BY <1>1, <1>2 DEF WireInv

\* Taking the first frame keeps the rest well formed.
LEMMA Taken ==
  ASSUME TypeOK, WireInv, wire # <<>>, wire' = Tail(wire), UNCHANGED past
  PROVE  /\ wire' \in Seq(Frame) /\ WireInv'
         /\ Head(wire) \in Frame
         /\ Head(wire).version \in DOMAIN past
         /\ Head(wire).kind = "price_change" => Head(wire).version > 1
<1>1. /\ wire' \in Seq(Frame)
      /\ \A i \in DOMAIN wire' : i + 1 \in DOMAIN wire /\ wire'[i] = wire[i + 1]
  BY HeadTailProperties, LenProperties DEF TypeOK
<1>2. 1 \in DOMAIN wire /\ Head(wire) = wire[1] /\ Head(wire) \in Frame
  BY HeadTailProperties, LenProperties, EmptySeq DEF TypeOK
<1>3. QED BY <1>1, <1>2 DEF WireInv

\* A version of the server's book is well formed.
LEMMA PastVersion ==
  ASSUME TypeOK, PastInv, NEW v \in DOMAIN past
  PROVE  /\ past[v] \in Book /\ v \in 1..MaxVersion
         /\ past[v].at \in 1..v
         /\ Refresh(past[v]) = past[v]
         /\ past[v] = [asks |-> past[v].asks, bids |-> past[v].bids, at |-> past[v].at]
<1>1. past[v] \in Book /\ v \in 1..Len(past)
  BY LenProperties, ElementOfSeq DEF TypeOK
<1>2. QED BY <1>1, LadderAssumption DEF PastInv, Refresh, Book, Stamp

\* What update_level makes of two versions and a ladder is a ladder.
LEMMA UpdateType ==
  ASSUME NEW old \in Ladder, NEW new \in Ladder, NEW b \in Ladder
  PROVE  UpdateLevel(old, new, b) \in Ladder
BY DEF UpdateLevel, Ladder

\* A delta takes the ladder it was made from, and the one that it leads to, to the
\* one that it leads to: it can be missed by nobody who had the version before,
\* and coming twice it does nothing.
LEMMA UpdateExact ==
  ASSUME NEW old \in Ladder, NEW new \in Ladder, NEW b \in Ladder,
         b = old \/ b = new
  PROVE  UpdateLevel(old, new, b) = new
BY DEF UpdateLevel, Ladder

\* The empty ladder of an unknown book.
LEMMA EmptyType == Empty \in [asks : Ladder, bids : Ladder, at : {0}]
BY LadderAssumption DEF Empty, Ladder, Bare

\* The local book has ladders and a time of its own.
LEMMA BookType ==
  ASSUME TypeOK
  PROVE  book.asks \in Ladder /\ book.bids \in Ladder /\ book.at \in 0..MaxVersion
BY EmptyType, LadderAssumption DEF TypeOK, Book, Stamp

\* What a step of the local book has to give, for a frame of version v.
Accepts(b, v, whole) ==
  /\ b \in Book \cup {Empty}
  /\ b.at > 0 => /\ b.at = past[v].at
                 /\ BestAsk(b) = BestAsk(past[v])
                 /\ BestBid(b) = BestBid(past[v])
                 /\ whole => b.asks = past[v].asks /\ b.bids = past[v].bids

\* A dropped book is accepted whatever the frame was.
LEMMA DroppedBook ==
  ASSUME NEW v, NEW whole PROVE Accepts(Empty, v, whole)
BY EmptyType DEF Accepts, Empty

\* A snapshot that is not skipped is the version it was made of.
LEMMA SnapshotTaken ==
  ASSUME TypeOK, PastInv, NEW v \in DOMAIN past
  PROVE  /\ Skipped(v) => TakeSnapshot(book, v) = book
         /\ ~Skipped(v) => Accepts(TakeSnapshot(book, v), v, TRUE)
BY PastVersion DEF Skipped, TakeSnapshot, Accepts

\* A delta that is not skipped leaves a book with the reported best prices, and the
\* version it was made of if the book was the version before, or that version.
LEMMA ChangesApplied ==
  ASSUME Inv, NEW v \in DOMAIN past, v > 1
  PROVE  /\ Skipped(v) => ApplyChanges(book, v) = book
         /\ ~Skipped(v) => Accepts(ApplyChanges(book, v), v,
                                   intact /\ v \in {applied, applied + 1})
<1> USE DEF Inv
<1>1. CASE Skipped(v)
  BY <1>1 DEF Skipped, ApplyChanges
<1>2. CASE ~Skipped(v) /\ book.at = 0
  <2>1. ApplyChanges(book, v) = book
    BY <1>2 DEF ApplyChanges
  <2>2. QED BY <1>2, <2>1 DEF Accepts, TypeOK
<1>3. CASE ~Skipped(v) /\ book.at # 0
  <2> DEFINE asks == UpdateLevel(past[v - 1].asks, past[v].asks, book.asks)
             bids == UpdateLevel(past[v - 1].bids, past[v].bids, book.bids)
             updated == [asks |-> asks, bids |-> bids, at |-> past[v].at]
             new == Refresh(updated)
             whole == intact /\ v \in {applied, applied + 1}
  <2>1. /\ v - 1 \in DOMAIN past
        /\ past[v] \in Book /\ past[v - 1] \in Book
        /\ past[v].at \in Stamp
    <3>1. v - 1 \in DOMAIN past
      BY LenProperties DEF TypeOK
    <3>2. QED BY <3>1, PastVersion DEF Book
  <2>2. asks \in Ladder /\ bids \in Ladder
    BY <2>1, BookType, UpdateType DEF Book
  <2>3. updated \in Book
    BY <2>1, <2>2 DEF Book
  <2>4. ApplyChanges(book, v)
          = IF BestAsk(new) = BestAsk(past[v]) /\ BestBid(new) = BestBid(past[v])
            THEN new ELSE Empty
    BY <1>3 DEF ApplyChanges, Skipped
  <2>5. ASSUME whole PROVE asks = past[v].asks /\ bids = past[v].bids
    <3>1. applied \in DOMAIN past /\ book.asks = past[applied].asks
                                  /\ book.bids = past[applied].bids
      BY <1>3, <2>5, BookType DEF BookInv, LadderExact, Usable
    <3>2. applied = v \/ applied = v - 1
      BY <2>5, <3>1, LenProperties DEF TypeOK
    <3>3. QED BY <2>1, <3>1, <3>2, UpdateExact DEF Book
  <2>6. new = updated \/ new = Empty
    BY DEF Refresh
  <2> HIDE DEF asks, bids, new
  <2>7. CASE ApplyChanges(book, v) = Empty
    BY <2>7, <1>3, DroppedBook
  <2>8. CASE new = updated /\ ApplyChanges(book, v) = new
                           /\ BestAsk(new) = BestAsk(past[v])
                           /\ BestBid(new) = BestBid(past[v])
    <3>1. new.at = past[v].at /\ new.asks = asks /\ new.bids = bids /\ new \in Book
      BY <2>8, <2>3
    <3>2. QED BY <3>1, <2>8, <2>5, <1>3 DEF Accepts
  <2>9. QED BY <2>4, <2>6, <2>7, <2>8
<1>4. QED BY <1>1, <1>2, <1>3

\* A step of the local book keeps the invariant: it skips the frame, or accepts it.
LEMMA BookStep ==
  ASSUME Inv, NEW v \in DOMAIN past, NEW whole \in BOOLEAN, UNCHANGED past,
         \/ Skipped(v) /\ UNCHANGED <<book, applied, intact>>
         \/ Accepts(book', v, whole) /\ applied' = v /\ intact' = whole
  PROVE  /\ book' \in Book \cup {Empty} /\ applied' \in 0..MaxVersion
         /\ intact' \in BOOLEAN
         /\ BookInv'
<1>1. CASE UNCHANGED <<book, applied, intact>>
  BY <1>1 DEF Inv, TypeOK, BookInv, BestPricesReal, LadderExact, Usable, BestAsk, BestBid, Levels
<1>2. CASE Accepts(book', v, whole) /\ applied' = v /\ intact' = whole
  <2>1. v \in 0..MaxVersion
    BY PastVersion DEF Inv
  <2>2. QED BY <1>2, <2>1 DEF Accepts, BookInv, BestPricesReal, LadderExact, Usable
<1>3. QED BY <1>1, <1>2

\* A dropped book keeps the invariant.
LEMMA BookDropped ==
  ASSUME book' = Empty
  PROVE  book' \in Book \cup {Empty} /\ BookInv'
BY DEF Empty, BookInv, BestPricesReal, LadderExact, Usable

\* Every step keeps the invariant.
LEMMA BookNext == Inv /\ [Next]_vars => Inv'
<1> SUFFICES ASSUME Inv, [Next]_vars PROVE Inv'
  OBVIOUS
<1> USE DEF Inv
<1>1. ASSUME NEW sent \in BOOLEAN, Change(sent) PROVE Inv'
  <2>1. PICK asks \in Ladder, bids \in Ladder, at \in {past[Now].at, past[Now].at + 1} :
          LET new == [asks |-> asks, bids |-> bids, at |-> at] IN
          ~Crossed(new) /\ past' = Append(past, new)
    BY <1>1 DEF Change
  <2> DEFINE new == [asks |-> asks, bids |-> bids, at |-> at]
  <2>2. Now \in DOMAIN past /\ Now \in Nat /\ Now < MaxVersion
    BY <1>1, LenProperties DEF Change, Now, PastInv, TypeOK
  <2>3. past[Now].at \in 1..Now
    BY <2>2, PastVersion
  <2>4. at \in 1..(Now + 1) /\ at \in Stamp
    BY <2>2, <2>3, LadderAssumption DEF Stamp
  <2>5. new \in Book
    BY <2>4 DEF Book
  <2> HIDE DEF new
  <2>6. /\ past' \in Seq(Book)
        /\ Len(past') = Now + 1
        /\ DOMAIN past' = 1..(Now + 1)
        /\ DOMAIN past = 1..Now
        /\ \A v \in DOMAIN past : past'[v] = past[v]
        /\ past'[Now + 1] = new
    BY <2>1, <2>5, AppendProperties, LenProperties DEF TypeOK, Now, new
  <2>7. PastInv'
    <3>1. ASSUME NEW v \in DOMAIN past' PROVE past'[v].at <= v /\ ~Crossed(past'[v])
      <4>1. CASE v \in DOMAIN past
        BY <4>1, <2>6 DEF PastInv
      <4>2. CASE v = Now + 1
        BY <4>2, <2>1, <2>4, <2>6, <2>2 DEF new
      <4>3. QED BY <4>1, <4>2, <2>6, <2>2
    <3>2. Len(past') \in 1..MaxVersion
      BY <2>2, <2>6, LadderAssumption
    <3>3. QED BY <3>1, <3>2 DEF PastInv
  <2>8. wire' \in Seq(Frame) /\ WireInv'
    <3>1. CASE sent
      <4>1. [kind |-> "price_change", version |-> Now + 1] \in Frame
        BY <2>2, LadderAssumption DEF Frame
      <4>2. Send([kind |-> "price_change", version |-> Now + 1])
        BY <1>1, <3>1 DEF Change
      <4>3. Now + 1 > 1
        BY <2>2, <2>6
      <4>4. QED BY <4>1, <4>2, <4>3, <2>6, <2>2, Sent
    <3>2. CASE ~sent
      BY <1>1, <3>2, <2>6, <2>2 DEF Change, WireInv, TypeOK
    <3>3. QED BY <3>1, <3>2
  <2>9. BookInv'
    <3>1. UNCHANGED <<book, applied, intact>>
      BY <1>1 DEF Change
    <3>2. Usable => applied \in DOMAIN past /\ past'[applied] = past[applied] /\ applied \in DOMAIN past'
      BY <2>6, <2>2 DEF BookInv
    <3>3. QED BY <3>1, <3>2 DEF BookInv, BestPricesReal, LadderExact, Usable, BestAsk, BestBid, Levels
  <2>10. QED BY <1>1, <2>6, <2>7, <2>8, <2>9 DEF Change, TypeOK
<1> DEFINE Same == UNCHANGED <<past, book, applied, intact>>
<1>2. ASSUME Same, wire' \in Seq(Frame), WireInv' PROVE Inv'
  BY <1>2 DEF TypeOK, PastInv, BookInv, BestPricesReal, LadderExact, Usable,
              Crossed, BestAsk, BestBid, Levels
<1>3. CASE Snapshot
  <2>1. Now \in DOMAIN past /\ Now \in 1..MaxVersion
    BY LenProperties DEF Now, PastInv, TypeOK
  <2>2. [kind |-> "book", version |-> Now] \in Frame
    BY <2>1 DEF Frame
  <2>3. QED BY <1>2, <1>3, <2>1, <2>2, Sent DEF Snapshot
<1>4. ASSUME NEW v \in DOMAIN past, Repeat(v) PROVE Inv'
  <2>1. PICK kind \in {"book", "price_change"} :
          (kind = "price_change" => v > 1) /\ Send([kind |-> kind, version |-> v])
    BY <1>4 DEF Repeat
  <2>2. [kind |-> kind, version |-> v] \in Frame
    BY PastVersion DEF Frame
  <2>3. QED BY <1>2, <1>4, <2>1, <2>2, Sent DEF Repeat
<1>5. CASE Handle
  <2> DEFINE v == Head(wire).version
             taken == Head(wire).kind = "book"
             whole == taken \/ (intact /\ v \in {applied, applied + 1})
  <2>1. /\ wire' \in Seq(Frame) /\ WireInv' /\ UNCHANGED past
        /\ v \in DOMAIN past /\ Head(wire) \in Frame
        /\ ~taken => v > 1
    BY <1>5, Taken DEF Handle, Frame
  <2>2. CASE Skipped(v)
    <3>1. UNCHANGED <<book, applied, intact>>
      BY <1>5, <2>1, <2>2, SnapshotTaken, ChangesApplied DEF Handle
    <3>2. QED BY <3>1, <2>1, <1>2
  <2>3. CASE ~Skipped(v)
    <3>1. Accepts(book', v, whole)
      <4>1. CASE taken
        BY <1>5, <2>1, <2>3, <4>1, SnapshotTaken DEF Handle, Accepts
      <4>2. CASE ~taken
        BY <1>5, <2>1, <2>3, <4>2, ChangesApplied DEF Handle, Accepts
      <4>3. QED BY <4>1, <4>2
    <3>2. applied' = v /\ intact' = whole /\ whole \in BOOLEAN
      BY <1>5, <2>3 DEF Handle, TypeOK
    <3> HIDE DEF v, whole
    <3>3. /\ book' \in Book \cup {Empty} /\ applied' \in 0..MaxVersion
          /\ intact' \in BOOLEAN /\ BookInv'
      BY <2>1, <3>1, <3>2, BookStep
    <3>4. QED BY <2>1, <3>3 DEF TypeOK, PastInv, Crossed, BestAsk, BestBid, Levels
  <2>4. QED BY <2>2, <2>3
<1>6. CASE HandleUnreadable
  BY <1>6, Taken, BookDropped
     DEF HandleUnreadable, TypeOK, PastInv, Crossed, BestAsk, BestBid, Levels
<1>7. CASE Reconnect
  <2>1. Now \in DOMAIN past /\ Now \in 1..MaxVersion
    BY LenProperties DEF Now, PastInv, TypeOK
  <2>2. wire' \in Seq(Frame) /\ WireInv'
    BY <1>7, <2>1 DEF Reconnect, Frame, WireInv
  <2>3. QED BY <1>7, <2>2, BookDropped
            DEF Reconnect, TypeOK, PastInv, Crossed, BestAsk, BestBid, Levels
<1>8. CASE UNCHANGED vars
  BY <1>8, <1>2 DEF vars, TypeOK, WireInv
<1>9. QED BY <1>1, <1>3, <1>4, <1>5, <1>6, <1>7, <1>8 DEF Next

\* The model starts with the invariant.
LEMMA BookInit == Init => Inv
<1> SUFFICES ASSUME Init PROVE Inv
  OBVIOUS
<1>1. PICK asks \in Ladder, bids \in Ladder :
        past = <<[asks |-> asks, bids |-> bids, at |-> 1]>> /\ ~Crossed(past[1])
  BY DEF Init
<1>2. past \in Seq(Book) /\ DOMAIN past = {1} /\ Len(past) = 1 /\ past[1].at = 1
  BY <1>1, LadderAssumption DEF Book, Stamp
<1>3. wire \in Seq(Frame) /\ DOMAIN wire = {1}
      /\ wire[1] = [kind |-> "book", version |-> 1]
  BY LadderAssumption DEF Init, Frame
<1>4. book = Empty /\ applied = 0 /\ intact = FALSE
  BY DEF Init
<1>5. TypeOK
  <2>1. applied \in 0..MaxVersion /\ intact \in BOOLEAN /\ book \in Book \cup {Empty}
    <3>1. MaxVersion \in Nat
      BY LadderAssumption
    <3>2. applied \in 0..MaxVersion
      BY <1>4, <3>1
    <3>3. QED BY <1>4, <3>2
  <2>2. QED BY <1>2, <1>3, <2>1 DEF TypeOK
<1>6. PastInv
  BY <1>1, <1>2, LadderAssumption DEF PastInv
<1>7. WireInv
  BY <1>2, <1>3 DEF WireInv
<1>8. BookInv
  BY <1>4 DEF BookInv, BestPricesReal, LadderExact, Usable, Empty
<1>9. QED BY <1>5, <1>6, <1>7, <1>8 DEF Inv

\* The local book is what its frames made of it: the server never crosses, a frame
\* carries a version that was, and a usable book is the version accepted last.
THEOREM TokenBookInv == Spec => []Inv
BY BookInit, BookNext, PTL DEF Spec

\* The best prices of a usable book were the server's, whatever was lost, repeated
\* or unreadable (apply_changes and refresh_book, market_ws.rs).
THEOREM BestPricesAreReal == Spec => []BestPricesReal
<1>1. Inv => BestPricesReal
  BY DEF Inv, BookInv
<1>2. QED BY <1>1, TokenBookInv, PTL

\* The whole ladder is the server's as long as the accepted deltas follow each other
\* (update_level and the "book" event, market_ws.rs).
THEOREM LadderIsExact == Spec => []LadderExact
<1>1. Inv => LadderExact
  BY DEF Inv, BookInv
<1>2. QED BY <1>1, TokenBookInv, PTL

\* An accepted frame never takes the book back in time (the two comparisons of
\* timestamps in handle_clob_message and apply_changes, market_ws.rs).
THEOREM BookNeverBack == Spec => NeverBack
<1> DEFINE Step == book.at > 0 /\ book'.at > 0 => book'.at >= book.at
<1>1. Inv /\ [Next]_vars => [Step]_vars
  <2> SUFFICES ASSUME Inv, [Next]_vars PROVE Step \/ UNCHANGED vars
    OBVIOUS
  <2>1. CASE UNCHANGED book
    BY <2>1, BookType DEF Inv
  <2>2. CASE book' = Empty
    BY <2>2 DEF Empty
  <2>3. CASE Handle
    <3> DEFINE v == Head(wire).version
               taken == Head(wire).kind = "book"
    <3>1. v \in DOMAIN past /\ (~taken => v > 1)
      BY <2>3, Taken DEF Handle, Inv, Frame
    <3>2. past[v].at \in Int /\ book.at \in Int
      BY <3>1, PastVersion, BookType DEF Inv, Book, Stamp
    <3>3. CASE Skipped(v)
      <4>1. book' = book
        BY <2>3, <3>1, <3>3, SnapshotTaken, ChangesApplied DEF Handle, Inv
      <4>2. QED BY <4>1, <3>2
    <3>4. CASE ~Skipped(v)
      <4>1. book'.at > 0 => book'.at = past[v].at
        BY <2>3, <3>1, <3>4, SnapshotTaken, ChangesApplied DEF Handle, Inv, Accepts
      <4>2. QED BY <4>1, <3>2, <3>4 DEF Skipped
    <3>5. QED BY <3>3, <3>4
  <2>4. QED BY <2>1, <2>2, <2>3
            DEF Next, Change, Snapshot, Repeat, HandleUnreadable, Reconnect, vars
<1>2. QED BY <1>1, TokenBookInv, PTL DEF Spec, NeverBack

=============================================================================
