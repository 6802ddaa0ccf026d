------------------------------ MODULE TokenBook ------------------------------
(***************************************************************************)
(* The local copy of one token's order book (src/src/market_ws.rs,         *)
(* TokenBook in src/src/types.rs) and the server it copies from.  A book   *)
(* is built from a snapshot and kept with deltas; frames can be lost,      *)
(* repeated late or be unreadable, and connections break.                  *)
(*                                                                         *)
(* The server's book goes through versions; a frame names the version it   *)
(* was made for, so what it carries is computed from the versions.         *)
(***************************************************************************)
EXTENDS Integers, Sequences, FiniteSets, FiniteSetsExt

CONSTANTS
  Price,       \* the prices of the ladder, a set of positive numbers
  MaxSize,     \* bound: the largest size offered at a price
  MaxVersion,  \* bound: versions of the server's book
  MaxWire      \* bound: frames under way

ASSUME LadderAssumption ==
  /\ Price \subseteq Nat \ {0}
  /\ {MaxSize, MaxVersion, MaxWire} \subseteq Nat \ {0}

VARIABLES
  past,     \* the versions of the server's book, the last one is the present
  wire,     \* the frames under way, first come first
  book,     \* the local TokenBook
  \* kept for the properties
  applied,  \* the version of the frame it accepted last
  intact    \* since the snapshot, every accepted delta followed the last one

vars == <<past, wire, book, applied, intact>>

-----------------------------------------------------------------------------
(* Ladders                                                                 *)

\* The size at each price; 0 is a price without a level.
Ladder == [Price -> 0..MaxSize]
Bare == [p \in Price |-> 0]

Levels(ladder) == {p \in Price : ladder[p] > 0}

\* 0 stands for no price at all.
BestAsk(b) == IF Levels(b.asks) = {} THEN 0 ELSE Min(Levels(b.asks))
BestBid(b) == IF Levels(b.bids) = {} THEN 0 ELSE Max(Levels(b.bids))

Crossed(b) == BestAsk(b) # 0 /\ BestAsk(b) < BestBid(b)

\* TokenBook::default.
Empty == [asks |-> Bare, bids |-> Bare, at |-> 0]

Stamp == 1..MaxVersion
Book == [asks: Ladder, bids: Ladder, at: Stamp]
Frame == [kind: {"book", "price_change"}, version: 1..MaxVersion]

TypeOK ==
  /\ past \in Seq(Book)
  /\ wire \in Seq(Frame)
  /\ book \in Book \cup {Empty}
  /\ applied \in 0..MaxVersion
  /\ intact \in BOOLEAN

-----------------------------------------------------------------------------
(* What the feed does with a frame                                         *)

\* refresh_book: a crossed ladder is dropped.
Refresh(b) == IF Crossed(b) THEN Empty ELSE b

\* Seeded fault: a level that was taken away stays.
UpdateLevelKeeping(old, new, b) ==
  [p \in Price |-> IF new[p] # old[p] /\ new[p] > 0 THEN new[p] ELSE b[p]]

\* update_level for every level in which a version differs from the one before.
UpdateLevel(old, new, b) == [p \in Price |-> IF new[p] # old[p] THEN new[p] ELSE b[p]]

\* Seeded fault: the best prices that the server reports are not compared.
ApplyChangesUnchecked(b, v) ==
  IF b.at = 0 \/ past[v].at < b.at THEN b
  ELSE Refresh([asks |-> UpdateLevel(past[v - 1].asks, past[v].asks, b.asks),
                bids |-> UpdateLevel(past[v - 1].bids, past[v].bids, b.bids),
                at   |-> past[v].at])

\* apply_changes: the ladder keeps the result only if its best prices are the
\* ones that the frame reports.
ApplyChanges(b, v) ==
  IF b.at = 0 \/ past[v].at < b.at THEN b
  ELSE LET new == Refresh([asks |-> UpdateLevel(past[v - 1].asks, past[v].asks, b.asks),
                           bids |-> UpdateLevel(past[v - 1].bids, past[v].bids, b.bids),
                           at   |-> past[v].at])
       IN  IF BestAsk(new) = BestAsk(past[v]) /\ BestBid(new) = BestBid(past[v])
           THEN new ELSE Empty

\* Seeded fault: an old snapshot is taken like a new one.
TakeSnapshotAnyTime(b, v) == Refresh(past[v])

\* The "book" event.
TakeSnapshot(b, v) == IF past[v].at < b.at THEN b ELSE Refresh(past[v])

Skipped(v) == past[v].at < book.at

-----------------------------------------------------------------------------
(* Steps                                                                   *)

Now == Len(past)
Send(frame) == Len(wire) < MaxWire /\ wire' = Append(wire, frame)

\* The server's book changes in at most two levels, and never crosses.
Change(sent) ==
  /\ Now < MaxVersion
  /\ \E asks, bids \in Ladder, at \in {past[Now].at, past[Now].at + 1} :
       LET new == [asks |-> asks, bids |-> bids, at |-> at] IN
       /\ Cardinality({p \in Price : asks[p] # past[Now].asks[p]})
            + Cardinality({p \in Price : bids[p] # past[Now].bids[p]}) \in 1..2
       /\ ~Crossed(new)
       /\ past' = Append(past, new)
  /\ IF sent THEN Send([kind |-> "price_change", version |-> Now + 1]) ELSE wire' = wire
  /\ UNCHANGED <<book, applied, intact>>

\* A snapshot of the present, which the server also sends after a trade.
Snapshot ==
  /\ Send([kind |-> "book", version |-> Now])
  /\ UNCHANGED <<past, book, applied, intact>>

\* A frame of an earlier time comes once more.
Repeat(v) ==
  /\ past[v].at < past[Now].at
  /\ \E kind \in {"book", "price_change"} :
       /\ kind = "price_change" => v > 1
       /\ Send([kind |-> kind, version |-> v])
  /\ UNCHANGED <<past, book, applied, intact>>

\* handle_clob_message, for a frame that concerns this token.
Handle ==
  /\ wire # <<>>
  /\ wire' = Tail(wire)
  /\ LET v == Head(wire).version
         taken == Head(wire).kind = "book"
     IN  /\ book' = IF taken THEN TakeSnapshot(book, v) ELSE ApplyChanges(book, v)
         /\ applied' = IF Skipped(v) THEN applied ELSE v
         /\ intact' = IF Skipped(v) THEN intact
                      ELSE taken \/ (intact /\ v \in {applied, applied + 1})
  /\ UNCHANGED past

\* A price or a size that does not parse: the book is dropped, unless the frame
\* would have been skipped before its levels were read.
HandleUnreadable ==
  /\ wire # <<>>
  /\ ~Skipped(Head(wire).version)
  /\ wire' = Tail(wire)
  /\ book' = Empty
  /\ UNCHANGED <<past, applied, intact>>

\* The connection breaks: the book is cleared, and the new connection begins
\* with a snapshot.
Reconnect ==
  /\ book' = Empty
  /\ wire' = <<[kind |-> "book", version |-> Now]>>
  /\ UNCHANGED <<past, applied, intact>>

Init ==
  /\ \E asks, bids \in Ladder :
       /\ past = <<[asks |-> asks, bids |-> bids, at |-> 1]>>
       /\ ~Crossed(past[1])
  /\ wire = <<[kind |-> "book", version |-> 1]>>
  /\ book = Empty
  /\ applied = 0
  /\ intact = FALSE

Next ==
  \/ \E sent \in BOOLEAN : Change(sent)
  \/ Snapshot
  \/ \E v \in DOMAIN past : Repeat(v)
  \/ Handle
  \/ HandleUnreadable
  \/ Reconnect

Spec == Init /\ [][Next]_vars

-----------------------------------------------------------------------------
(* Properties                                                              *)

Usable == book.at > 0

\* Whatever was lost, repeated or unreadable, the best prices of a usable book
\* were the server's best prices when the last accepted frame was made (the
\* check of the reported best prices in apply_changes).
BestPricesReal ==
  Usable => /\ BestAsk(book) = BestAsk(past[applied])
            /\ BestBid(book) = BestBid(past[applied])

\* As long as the deltas accepted since the snapshot came one after the other, the
\* whole ladder is the server's, cancelled levels included, whatever came late,
\* twice or unreadable besides (README: the nested price_changes update both price
\* ladders; fresh snapshots are required before incremental data).
LadderExact ==
  Usable /\ intact => book.asks = past[applied].asks /\ book.bids = past[applied].bids

\* A frame of an earlier time never takes a usable book back (the test comment:
\* an old snapshot must not resurrect deleted liquidity).
NeverBack == [][book.at > 0 /\ book'.at > 0 => book'.at >= book.at]_vars

-----------------------------------------------------------------------------
(* What every step keeps                                                   *)

\* No version of the server's book is crossed, and none has a time that was not
\* yet reached.
PastInv ==
  /\ Len(past) \in 1..MaxVersion
  /\ \A v \in DOMAIN past : past[v].at <= v /\ ~Crossed(past[v])

\* A frame under way carries a version that was, a delta one with a version before.
WireInv ==
  \A i \in DOMAIN wire :
    /\ wire[i].version \in DOMAIN past
    /\ wire[i].kind = "price_change" => wire[i].version > 1

\* A usable book has the time and the best prices of the version accepted last,
\* and its ladders as long as no delta is missing.
BookInv ==
  /\ Usable => applied \in DOMAIN past /\ book.at = past[applied].at
  /\ BestPricesReal
  /\ LadderExact

Inv == TypeOK /\ PastInv /\ WireInv /\ BookInv

=============================================================================
