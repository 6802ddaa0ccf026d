------------------------------ MODULE MarketFeed ------------------------------
(***************************************************************************)
(* Which window's market data the strategy looks at: the task that keeps   *)
(* the CLOB connection (src/src/market_ws.rs), the rotation and discovery  *)
(* of the main loop (src/src/main.rs) and the state they share             *)
(* (MarketState and WindowState.market, src/src/types.rs).                 *)
(*                                                                         *)
(* A window stands for the two tokens of its market, and a book only for   *)
(* the window whose prices it shows.  The Subscribe commands cross a       *)
(* channel, and nothing else tells the feed that a window is over.         *)
(***************************************************************************)
EXTENDS Naturals, Sequences

CONSTANTS
  None,        \* no window, no market, an empty book
  MaxWindow    \* bound: the last window of a behaviour

ASSUME WindowAssumption == MaxWindow \in Nat \ {0} /\ None \notin Nat

VARIABLES
  \* the outside world
  clock,       \* the window that time is in
  subs,        \* windows the server sends events of on this connection
  \* the main loop
  pc,          \* where it is in its preparation of a window
  cur,         \* last_window_ts
  market,      \* ws.market: the window whose tokens the strategy would buy
  \* the channel and the CLOB task
  cmds,        \* Subscribe commands in the channel
  conn,        \* where the CLOB task is
  tokens,      \* shared_tokens
  \* the shared MarketState
  books,       \* up_book and down_book
  resolved     \* the window whose event set ms.resolved

loop == <<pc, cur, market>>
feed == <<conn, tokens, subs>>
feedVars == <<clock, subs, pc, cur, market, cmds, conn, tokens, books, resolved>>

Window == 1..MaxWindow
Side == {"up", "down"}
NoBooks == [s \in Side |-> None]

FeedTypeOK ==
  /\ clock \in Window
  /\ subs \subseteq Window
  /\ pc \in {"loop", "discover", "publish"}
  /\ {cur, market, tokens, resolved} \subseteq Window \cup {None}
  /\ cmds \in Seq(Window)
  /\ conn \in {"down", "up", "clearing", "lost"}
  /\ books \in [Side -> Window \cup {None}]

-----------------------------------------------------------------------------
(* The main loop                                                           *)

\* A new window: everything scoped to a window is reset.
Rotate ==
  /\ pc = "loop"
  /\ cur # clock
  /\ cur' = clock
  /\ market' = None
  /\ books' = NoBooks
  /\ resolved' = None
  /\ pc' = "discover"
  /\ UNCHANGED <<clock, feed, cmds>>

\* fetch_market found the market: the feed is told first ...
Discover ==
  /\ pc = "discover"
  /\ cmds' = Append(cmds, cur)
  /\ pc' = "publish"
  /\ UNCHANGED <<clock, feed, cur, market, books, resolved>>

\* ... and the strategy afterwards.
Publish ==
  /\ pc = "publish"
  /\ market' = cur
  /\ pc' = "loop"
  /\ UNCHANGED <<clock, feed, cmds, cur, books, resolved>>

\* fetch_market gave up: the window is skipped.
NotFound ==
  /\ pc = "discover"
  /\ pc' = "loop"
  /\ UNCHANGED <<clock, feed, cmds, cur, market, books, resolved>>

-----------------------------------------------------------------------------
(* The CLOB task                                                           *)

\* A connection begins with a request for the tokens of the last command.  Whether
\* it could be sent is ignored: the task goes on to read.
Connect(sent) ==
  /\ conn = "down"
  /\ conn' = "up"
  /\ subs' = IF sent THEN {tokens} \ {None} ELSE {}
  /\ books' = IF tokens = None THEN books ELSE NoBooks
  /\ UNCHANGED <<clock, loop, cmds, tokens, resolved>>

\* Seeded fault: the tokens are remembered only once the request was sent.
SubscribeSentFirst(sent) ==
  /\ conn = "up"
  /\ cmds # <<>>
  /\ cmds' = Tail(cmds)
  /\ IF sent THEN /\ tokens' = Head(cmds)
                  /\ subs' = subs \cup {Head(cmds)}
                  /\ conn' = "clearing"
             ELSE /\ conn' = "lost"
                  /\ UNCHANGED <<subs, tokens>>
  /\ UNCHANGED <<clock, loop, books, resolved>>

\* A command: the tokens change before the request is sent, and a failure to
\* send it ends the connection.  The server is never told to forget a window.
Subscribe(sent) ==
  /\ conn = "up"
  /\ cmds # <<>>
  /\ cmds' = Tail(cmds)
  /\ tokens' = Head(cmds)
  /\ IF sent THEN subs' = subs \cup {Head(cmds)} /\ conn' = "clearing"
             ELSE subs' = subs /\ conn' = "lost"
  /\ UNCHANGED <<clock, loop, books, resolved>>

\* Seeded fault: the books are kept.
KeepBooks ==
  /\ conn = "clearing"
  /\ conn' = "up"
  /\ UNCHANGED <<clock, loop, cmds, subs, tokens, books, resolved>>

\* The books are cleared after the request.
ClearBooks ==
  /\ conn = "clearing"
  /\ books' = NoBooks
  /\ conn' = "up"
  /\ UNCHANGED <<clock, loop, cmds, subs, tokens, resolved>>

\* The socket closes, fails or stays silent.
Lose ==
  /\ conn = "up"
  /\ conn' = "lost"
  /\ UNCHANGED <<clock, loop, cmds, subs, tokens, books, resolved>>

\* Seeded fault: the books outlive the connection.
DisconnectQuietly ==
  /\ conn = "lost"
  /\ conn' = "down"
  /\ subs' = {}
  /\ UNCHANGED <<clock, loop, cmds, tokens, books, resolved>>

\* A lost connection clears the books.  (So does an attempt to connect that
\* fails, but then they are empty.)
Disconnect ==
  /\ conn = "lost"
  /\ conn' = "down"
  /\ subs' = {}
  /\ books' = NoBooks
  /\ UNCHANGED <<clock, loop, cmds, tokens, resolved>>

\* The outcomes of one book or price_change event for a side: a snapshot shows
\* the window, or nothing when it cannot be parsed or is crossed; a delta
\* changes what is there or empties it; an old event changes nothing.
Shown(w, s) == {w, None, books[s]}

BookEvent(w, s) ==
  /\ conn = "up"
  /\ w \in subs
  /\ w = tokens
  /\ \E b \in Shown(w, s) : books' = [books EXCEPT ![s] = b]
  /\ UNCHANGED <<clock, loop, cmds, feed, resolved>>

\* Seeded fault: every resolution sets the flag.
ResolutionOfAny(w) ==
  /\ conn = "up"
  /\ w \in subs
  /\ w < clock
  /\ tokens # None
  /\ resolved' = w
  /\ UNCHANGED <<clock, loop, cmds, feed, books>>

\* The market of w, a window that is over, has resolved.  The event is also
\* forwarded to the main loop, whoever it belongs to.
Resolution(w) ==
  /\ conn = "up"
  /\ w \in subs
  /\ w < clock
  /\ w = tokens
  /\ resolved' = w
  /\ UNCHANGED <<clock, loop, cmds, feed, books>>

-----------------------------------------------------------------------------

NextWindow ==
  /\ clock < MaxWindow
  /\ clock' = clock + 1
  /\ UNCHANGED <<feed, loop, cmds, books, resolved>>

FeedInit ==
  /\ clock = 1
  /\ subs = {}
  /\ pc = "loop"
  /\ cur = None
  /\ market = None
  /\ cmds = <<>>
  /\ conn = "down"
  /\ tokens = None
  /\ books = NoBooks
  /\ resolved = None

FeedNext ==
  \/ Rotate
  \/ Discover
  \/ Publish
  \/ NotFound
  \/ \E sent \in BOOLEAN : Connect(sent)
  \/ \E sent \in BOOLEAN : Subscribe(sent)
  \/ ClearBooks
  \/ Lose
  \/ Disconnect
  \/ \E w \in Window, s \in Side : BookEvent(w, s)
  \/ \E w \in Window : Resolution(w)
  \/ NextWindow

\* A connection whose first request failed: reading from it fails, or 30 s without
\* an answer to a PING end it.
Mute == conn = "up" /\ tokens # None /\ tokens \notin subs

\* Both tasks keep running.  A connection can be made, and the first request sent,
\* sooner or later, and the random choice of select! does not pass over a waiting
\* command for ever.
Fairness ==
  /\ WF_feedVars(Rotate)
  /\ WF_feedVars(Discover \/ NotFound)
  /\ WF_feedVars(Publish)
  /\ SF_feedVars(Connect(TRUE))
  /\ WF_feedVars(Mute /\ Lose)
  /\ SF_feedVars(\E sent \in BOOLEAN : Subscribe(sent))
  /\ WF_feedVars(ClearBooks)
  /\ WF_feedVars(Disconnect)

FeedSpec == FeedInit /\ [][FeedNext]_feedVars /\ Fairness

-----------------------------------------------------------------------------
(* Properties                                                              *)

\* The command for the market in use has been handled to its end.
Settled == cmds = <<>> /\ conn \in {"up", "down"}

\* The inductive invariant behind OwnBooks and OwnResolution: the command sent
\* last names the market in use, and while no clearing is under way the books
\* show only the tokens of the command handled last.
Latest == IF cmds = <<>> THEN tokens ELSE cmds[Len(cmds)]

FeedInv ==
  /\ FeedTypeOK
  /\ pc = "discover" => market = None
  /\ pc \in {"discover", "publish"} => cur \in Window
  /\ pc = "publish" => market = None /\ Latest = cur
  /\ market # None => Latest = market
  /\ conn \in {"up", "down"} => \A s \in Side : books[s] \in {None, tokens}
  /\ conn = "down" => books = NoBooks

\* From then on the strategy sees no price of another window, through any
\* number of lost connections, failed requests and skipped windows (the
\* clearing of the books in run_clob_ws).
OwnBooks ==
  market # None /\ Settled => \A s \in Side : books[s] \in {None, market}

\* From then on no event of an earlier window marks the market as resolved
\* (the test foreign_resolution_does_not_mark_current_window_resolved).
OwnResolution ==
  [][market # None /\ Settled /\ resolved' # resolved => resolved' \in {None, market}]_feedVars

\* The market in use is subscribed sooner or later, although its command can
\* meet a connection that is down, or break the one that is up, and the request
\* of the connection after it can be lost as well (market_ws.rs 76, 147).
SubscribedInTheEnd ==
  \A w \in Window : market = w ~> (w \in subs \/ market # w)

=============================================================================
