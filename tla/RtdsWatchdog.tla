----------------------------- MODULE RtdsWatchdog -----------------------------
(***************************************************************************)
(* The watchdog of the RTDS connection (src/src/rtds.rs): a TWAP feed that *)
(* has fallen silent is subscribed to again on the open connection, and if *)
(* that does not help the connection is replaced.                          *)
(*                                                                         *)
(* Time is counted in ticks and only as the age of something, so that the  *)
(* behaviours need no end.  A tick is long against the 250 ms in which the *)
(* loop looks at its timers: time does not pass while it has to act.       *)
(***************************************************************************)
EXTENDS Naturals

CONSTANTS
  None,            \* no re-subscription yet
  ResubAfter,      \* TWAP_RESUBSCRIBE_AFTER_MS
  ReconnectAfter,  \* TWAP_RECONNECT_AFTER_MS
  SendMax          \* the longest time the sending of a frame may take

ASSUME WatchdogAssumption ==
  /\ {ResubAfter, ReconnectAfter} \subseteq Nat \ {0}
  /\ SendMax \in Nat
  /\ ResubAfter < ReconnectAfter
  /\ None \notin Nat

VARIABLES
  live,        \* the server serves the TWAP subscription of this connection
  conn,        \* "down", "up", or "sending" a re-subscription
  quiet,       \* true age of the last reading, or of the connection
  silent,      \* last_twap_at.elapsed()
  asked,       \* last_resubscribe_at.elapsed()
  sending,     \* age of the frame that is being sent
  tried,       \* a re-subscription went out on this silence
  held         \* btc_price holds a TWAP reading

rtds == <<live, conn, quiet, silent, asked, sending, tried, held>>

\* Bound: ages are counted up to here, which is one more than they should reach.
Limit == ReconnectAfter + SendMax + 1

WatchdogTypeOK ==
  /\ live \in BOOLEAN /\ tried \in BOOLEAN /\ held \in BOOLEAN
  /\ conn \in {"down", "up", "sending"}
  /\ quiet \in 0..Limit /\ silent \in 0..Limit
  /\ asked \in (0..Limit) \cup {None}
  /\ sending \in 0..SendMax

-----------------------------------------------------------------------------

\* Seeded fault: the second threshold is measured from the last attempt.
ReconnectDueSinceAsked == conn = "up" /\ asked # None /\ asked >= ReconnectAfter

\* The second threshold of the watchdog ...
ReconnectDue == conn = "up" /\ silent >= ReconnectAfter

\* Seeded fault: an attempt is due when the connection is given up.
ResubscribeDueLate ==
  conn = "up" /\ silent >= ReconnectAfter /\ asked = None

\* ... and the first, which is also the least time between two attempts.
ResubscribeDue ==
  /\ conn = "up"
  /\ silent >= ResubAfter
  /\ asked # None => asked >= ResubAfter

Older(age) == IF age = Limit THEN Limit ELSE age + 1

\* Time passes unless the loop has something to do or a frame must be out.
RtdsTick ==
  /\ conn # "down"
  /\ ~ReconnectDue /\ ~ResubscribeDue
  /\ conn = "sending" => sending < SendMax
  /\ quiet' = Older(quiet)
  /\ silent' = Older(silent)
  /\ asked' = IF asked = None THEN None ELSE Older(asked)
  /\ sending' = IF conn = "sending" THEN sending + 1 ELSE 0
  /\ UNCHANGED <<live, conn, tried, held>>

\* A new connection: both timers start, the TWAP subscription is sent once; it
\* may not go out, and the server may not serve it.
RtdsConnect(served) ==
  /\ conn = "down"
  /\ conn' = "up"
  /\ live' = served
  /\ quiet' = 0 /\ silent' = 0
  /\ asked' = None /\ sending' = 0
  /\ tried' = FALSE
  /\ UNCHANGED held

\* The server stops serving the subscription without a word.
Mute ==
  /\ live
  /\ live' = FALSE
  /\ UNCHANGED <<conn, quiet, silent, asked, sending, tried, held>>

\* A usable reading.  Older and repeated ones do not count as a sign of life.
TwapUpdate ==
  /\ conn = "up" /\ live
  /\ held' = TRUE
  /\ quiet' = 0 /\ silent' = 0
  /\ asked' = None
  /\ tried' = FALSE
  /\ UNCHANGED <<live, conn, sending>>

Resubscribe ==
  /\ ResubscribeDue /\ ~ReconnectDue
  /\ conn' = "sending"
  /\ sending' = 0
  /\ tried' = TRUE
  /\ UNCHANGED <<live, quiet, silent, asked, held>>

\* The frame is out or could not be sent: both count as an attempt, and the
\* server may or may not serve a repeated subscription.
Resubscribed(served) ==
  /\ conn = "sending"
  /\ conn' = "up"
  /\ live' = (live \/ served)
  /\ asked' = 0
  /\ sending' = 0
  /\ UNCHANGED <<quiet, silent, tried, held>>

\* run_rtds_feed forgets the readings of a connection that has ended.
RtdsDown ==
  /\ conn' = "down"
  /\ live' = FALSE
  /\ held' = FALSE
  /\ UNCHANGED <<quiet, silent, asked, sending, tried>>

\* The second threshold.
Reconnect == ReconnectDue /\ RtdsDown

\* The connection breaks or closes, or the server refuses the subscription.
RtdsEnds == conn = "up" /\ RtdsDown

RtdsInit ==
  /\ live = FALSE
  /\ conn = "down"
  /\ quiet = 0 /\ silent = 0
  /\ asked = None /\ sending = 0
  /\ tried = FALSE /\ held = FALSE

RtdsNext ==
  \/ RtdsTick \/ TwapUpdate \/ Mute
  \/ \E served \in BOOLEAN : RtdsConnect(served) \/ Resubscribed(served)
  \/ Resubscribe \/ Reconnect \/ RtdsEnds

\* Time passes, the loop acts when something is due, and a connection is made
\* sooner or later.  The server serves a subscription some time if it is asked
\* for one on ever new connections, and one that it serves again and again
\* delivers.  A repeated subscription need not help.
RtdsFairness ==
  /\ WF_rtds(RtdsTick)
  /\ WF_rtds(Resubscribe)
  /\ WF_rtds(\E served \in BOOLEAN : Resubscribed(served))
  /\ WF_rtds(Reconnect)
  /\ SF_rtds(RtdsConnect(TRUE))
  /\ SF_rtds(TwapUpdate)

RtdsSpec == RtdsInit /\ [][RtdsNext]_rtds /\ RtdsFairness

-----------------------------------------------------------------------------
(* Properties                                                              *)

\* The inductive invariant: the timers are true, a silence past the first
\* threshold has an attempt behind it, and one past the second is over once
\* the frame on its way is out.
WatchdogInv ==
  /\ WatchdogTypeOK
  /\ conn # "down" =>
       /\ silent = quiet
       /\ asked # None => tried
       /\ conn = "sending" => tried /\ silent < ReconnectAfter + sending
       /\ conn = "up" => silent <= ReconnectAfter + SendMax
       /\ silent > ResubAfter => tried

\* No connection outlives its TWAP feed by more than the second threshold and
\* one slow attempt to re-subscribe (rtds.rs 205-222).
SilenceBounded == conn # "down" => quiet <= ReconnectAfter + SendMax

\* The watchdog escalates: a silence that ends the connection has first seen a
\* new subscription on it (rtds.rs 202-204).
EscalatesInOrder == [][Reconnect => tried]_rtds

\* Whatever the feed does, a reading is held again and again.
TwapRecovers == ~held ~> held
=============================================================================
