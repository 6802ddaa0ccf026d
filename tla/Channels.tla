------------------------------- MODULE Channels -------------------------------
(***************************************************************************)
(* The two bounded channels between the main loop (src/src/main.rs) and    *)
(* the CLOB task (src/src/market_ws.rs): commands to subscribe one way,    *)
(* resolutions the other.  Each task waits for room in the channel it      *)
(* sends on and takes from the other only at one point of its loop; the    *)
(* main loop has several ways to start over before it gets there.          *)
(*                                                                         *)
(* What an iteration decides, and what becomes of an order, is open here   *)
(* (LiveEntry, Strategy), and so is the pause of 3 s after a failure; what *)
(* is in the books is MarketFeed's.                                        *)
(***************************************************************************)
EXTENDS Integers, SequencesExt

CONSTANTS
  None,
  CommandRoom,     \* capacity of the command channel, 16
  ResolutionRoom,  \* capacity of the resolution channel, 16
  MaxAttempts,     \* MAX_ENTRY_ATTEMPTS
  Lag,             \* windows after its end within which the exchange tells a
                   \* resolution, when it tells it at all
  MaxWindow,       \* bound: windows a behaviour lasts
  MaxOrders        \* bound: what the operator does in a behaviour

ASSUME ChannelsAssumption ==
  /\ {CommandRoom, ResolutionRoom, MaxAttempts} \subseteq Nat \ {0}
  /\ {Lag, MaxWindow, MaxOrders} \subseteq Nat
  /\ None \notin Nat

VARIABLES
  window,      \* the clock: the window of the moment
  phase,       \* and how far it is: more than 120 s left, to 30 s, less
  pc,          \* where the main loop is
  cur,         \* current_ts of the iteration, also last_window_ts
  seen,        \* secs_left of the iteration
  tradable,    \* ws.market is known, and the opening price of the window
  entered, paused, attempts,   \* of the window state
  priceable,   \* the configuration admits a limit price
  orders,      \* what the operator did so far
  commands,    \* the command channel: windows to subscribe to
  results,     \* the resolution channel: windows that are resolved
  connected,
  subscribed,  \* the windows the connection is subscribed to
  tokens,      \* shared_tokens: the window it is to be subscribed to
  frame,       \* resolutions of the message that is being handled
  told         \* windows whose resolution it received, as long as it matters

clock == <<window, phase>>
iteration == <<pc, cur, seen>>
gates == <<tradable, entered, paused, attempts>>
operator == <<priceable, orders>>
task == <<connected, subscribed, tokens, frame, told>>
channelVars == <<clock, iteration, gates, operator, commands, results, task>>

Phases == <<"early", "entry", "late">>

-----------------------------------------------------------------------------
(* The main loop                                                           *)

\* Clock and window of an iteration are read once; a new window is rotated to.
Top(found) ==
  /\ pc = "top"
  /\ cur' = window /\ seen' = phase
  /\ IF cur = window
     THEN pc' = "evaluate" /\ UNCHANGED gates
     ELSE /\ pc' = IF found THEN "send" ELSE "evaluate"
          /\ tradable' = FALSE /\ entered' = FALSE
          /\ attempts' = 0
          /\ UNCHANGED paused
  /\ UNCHANGED <<clock, operator, commands, results, task>>

\* The command, as soon as there is room for it.  A window that was rotated to
\* more than 2 s after it began has no opening price.
SendCommand ==
  /\ pc = "send"
  /\ Len(commands) < CommandRoom
  /\ commands' = Append(commands, cur)
  /\ tradable' = (seen = "early")
  /\ pc' = "evaluate"
  /\ UNCHANGED <<clock, cur, seen, entered, paused, attempts, operator,
                 results, task>>

\* A signal is possible between 120 and 30 seconds, once nothing forbids it.
MaySignal ==
  /\ ~paused /\ ~entered /\ attempts < MaxAttempts /\ tradable
  /\ priceable /\ seen = "entry"

Decide(signal) ==
  /\ pc = "evaluate"
  /\ signal => MaySignal
  /\ pc' = IF signal THEN "attempt" ELSE "drain"
  /\ UNCHANGED <<clock, cur, seen, gates, operator, commands, results, task>>

\* The taker branch, with how it ends, and which ends pause.  Only a fill goes on
\* to the resolutions; every other end starts the loop over.
TakerBranch(outcome, pausing) ==
  /\ pc = "attempt"
  /\ outcome \in IF window # cur \/ phase = "late" THEN {"too late"}
                 ELSE IF ~priceable THEN {"no limit"}
                 ELSE {"blocked", "failed", "unclear", "filled"}
  /\ pc' = IF outcome = "filled" THEN "drain" ELSE "top"
  /\ paused' = (paused \/ outcome \in pausing)
  /\ entered' = (outcome \in {"unclear", "filled"})
  /\ attempts' = attempts + IF outcome \in {"failed", "unclear"} THEN 1 ELSE 0
  /\ UNCHANGED <<clock, cur, seen, tradable, operator, commands, results, task>>

\* Seeded fault: an entry that is blocked pauses nothing.
AttemptUnpaused(outcome) == TakerBranch(outcome, {"unclear"})

Attempt(outcome) == TakerBranch(outcome, {"blocked", "unclear"})

\* The resolutions, until there are none; one of them may turn the kill switch.
Drain(kill) ==
  /\ pc = "drain"
  /\ IF results = <<>>
     THEN pc' = "top" /\ UNCHANGED <<results, paused>>
     ELSE /\ results' = Tail(results)
          /\ paused' = (paused \/ kill)
          /\ UNCHANGED pc
  /\ UNCHANGED <<clock, cur, seen, tradable, entered, attempts, operator,
                 commands, task>>

\* /pause, /resume and the settings that a limit price depends on.
Operator ==
  /\ orders < MaxOrders
  /\ orders' = orders + 1
  /\ \/ paused' = ~paused /\ UNCHANGED priceable
     \/ priceable' = ~priceable /\ UNCHANGED paused
  /\ UNCHANGED <<clock, iteration, tradable, entered, attempts, commands, results,
                 task>>

-----------------------------------------------------------------------------
(* The CLOB task                                                           *)

\* Seeded fault: a new connection subscribes to all windows there were.
ConnectToAll(sent) ==
  /\ ~connected
  /\ connected' = TRUE
  /\ subscribed' = IF tokens = None \/ ~sent THEN {} ELSE 0..cur - 1
  /\ UNCHANGED <<clock, iteration, gates, operator, commands, results, tokens, frame, told>>

\* A new connection asks for the current tokens, and stays if that fails.
Connect(sent) ==
  /\ ~connected
  /\ connected' = TRUE
  /\ subscribed' = IF sent THEN {tokens} \ {None} ELSE {}
  /\ UNCHANGED <<clock, iteration, gates, operator, commands, results, tokens, frame, told>>

\* The select! of the connection waits; a message is handled to its end first.
Waits == connected /\ frame = {}

\* A message: an array of resolutions.  The exchange resolves a window some time
\* after its end and tells the connections subscribed to it, once.
Receive ==
  /\ Waits
  /\ \E some \in SUBSET {w \in subscribed \ told : w < window /\ w >= window - Lag} :
       some # {} /\ frame' = some /\ told' = told \cup some
  /\ UNCHANGED <<clock, iteration, gates, operator, commands, results, connected,
                 subscribed, tokens>>

\* A resolution of the message, as soon as there is room for it.
Forward ==
  /\ Len(results) < ResolutionRoom
  /\ frame # {}
  /\ results' = Append(results, Min(frame)) /\ frame' = frame \ {Min(frame)}
  /\ UNCHANGED <<clock, iteration, gates, operator, commands, connected, subscribed,
                 tokens, told>>

\* Only the resolution of the window it is to be subscribed to can still come.
Dropped ==
  /\ connected' = FALSE /\ subscribed' = {}
  /\ told' = told \cap {tokens'}

\* A command; the tokens are remembered before the request, which may fail.
TakeCommand(sent) ==
  /\ Waits
  /\ commands # <<>>
  /\ commands' = Tail(commands)
  /\ tokens' = Head(commands)
  /\ IF sent THEN subscribed' = subscribed \cup {Head(commands)}
                  /\ UNCHANGED <<connected, told>>
     ELSE Dropped
  /\ UNCHANGED <<clock, iteration, gates, operator, results, frame>>

\* An error, the end of the stream or 30 s of silence.
Disconnect ==
  /\ Waits
  /\ UNCHANGED <<clock, iteration, gates, operator, commands, results, tokens, frame>>
  /\ Dropped

-----------------------------------------------------------------------------
(* Surroundings                                                            *)

\* A phase lasts half a minute at least: an iteration that does not wait for
\* room sees the one it began in or the next, and by the end of it the CLOB task
\* has done what it could.
PhaseMayEnd ==
  /\ \/ cur = window /\ seen = phase
     \/ pc = "send" /\ Len(commands) = CommandRoom
  /\ Waits => commands = <<>>
  /\ frame # {} => Len(results) = ResolutionRoom

Tick ==
  /\ PhaseMayEnd
  /\ IF phase = "late" THEN window < MaxWindow /\ window' = window + 1 /\ phase' = "early"
     ELSE window' = window /\ phase' = IF phase = "early" THEN "entry" ELSE "late"
  /\ UNCHANGED <<iteration, gates, operator, commands, results, task>>

ChannelsInit ==
  /\ window = 0 /\ phase = "early"
  /\ pc = "top" /\ cur = None /\ seen = "early"
  /\ tradable = FALSE /\ entered = FALSE /\ paused = FALSE
  /\ attempts = 0
  /\ priceable = TRUE /\ orders = 0
  /\ commands = <<>> /\ results = <<>>
  /\ connected = FALSE /\ subscribed = {} /\ tokens = None /\ frame = {} /\ told = {}

MainStep ==
  \/ \E found \in BOOLEAN : Top(found)
  \/ SendCommand
  \/ \E signal \in BOOLEAN : Decide(signal)
  \/ \E outcome \in {"too late", "no limit", "blocked", "failed", "unclear", "filled"} :
       Attempt(outcome)
  \/ \E kill \in BOOLEAN : Drain(kill)

ChannelsNext ==
  \/ MainStep
  \/ Operator
  \/ \E sent \in BOOLEAN : Connect(sent)
  \/ Receive
  \/ Forward
  \/ \E sent \in BOOLEAN : TakeCommand(sent)
  \/ Disconnect
  \/ Tick

\* Each task is scheduled, connecting succeeds in the end, and a select! with a
\* command ready takes it in the end.  The clock owes nothing.
ChannelsFairness ==
  /\ WF_channelVars(MainStep)
  /\ WF_channelVars(Forward)
  /\ WF_channelVars(\E sent \in BOOLEAN : Connect(sent))
  /\ SF_channelVars(\E sent \in BOOLEAN : TakeCommand(sent))

ChannelsSpec == ChannelsInit /\ [][ChannelsNext]_channelVars /\ ChannelsFairness

-----------------------------------------------------------------------------
(* Properties                                                              *)

\* The two tasks never wait for each other: the main loop for room for a
\* command (main.rs 529) while the CLOB task waits for room for a resolution
\* (market_ws.rs 333), which only the main loop makes.  True as long as
\* ResolutionRoom > Lag.
NoCircularWait ==
  ~ /\ pc = "send" /\ Len(commands) = CommandRoom
    /\ frame # {} /\ Len(results) = ResolutionRoom

\* A resolution that was forwarded is handled in the end, however often the
\* taker branch starts the loop over (main.rs 1009, 1107, 1129, 1202), and
\* before time closes the entry window for it.
ResolutionHandled == results # <<>> ~> results = <<>>

-----------------------------------------------------------------------------
(* What bounds the resolutions that come between two drains                *)

\* The type invariant of the state of both tasks, their channels and the clock.
ChannelsTypeOK ==
  /\ window \in Nat /\ cur \in Nat \cup {None}
  /\ {phase, seen} \subseteq ToSet(Phases)
  /\ pc \in {"top", "send", "evaluate", "attempt", "drain"}
  /\ pc # "top" => cur # None
  /\ {tradable, entered, paused, priceable, connected} \subseteq BOOLEAN
  /\ {attempts, orders} \subseteq Nat
  /\ {commands, results} \subseteq Seq(Nat)
  /\ tokens \in Nat \cup {None}
  /\ {subscribed, frame, told} \subseteq SUBSET Nat

\* The resolutions that were received and not handled.
Pending == frame \cup ToSet(results)

\* The windows a resolution may still come for, or did.
Known == subscribed \cup ({tokens} \ {None}) \cup Pending

\* A window is a command, a subscription and a resolution in turn, and the main
\* loop sends commands in the order of the windows.
InOrder ==
  /\ cur # None => cur <= window
  /\ \A x \in Known \cup ToSet(commands) :
       cur # None /\ x <= cur /\ (pc = "send" => x < cur)
  /\ \A i \in DOMAIN commands :
       /\ \A x \in Known : x < commands[i]
       /\ \A j \in 1..i - 1 : commands[j] < commands[i]
  /\ \A x \in Pending : x < window

\* A resolution is pending once, and is not told again while it is.
ToldOnce ==
  /\ connected \/ (frame = {} /\ subscribed = {})
  /\ \A x \in Pending : x \in subscribed \cup {tokens} => x \in told
  /\ \A i \in DOMAIN results :
       /\ results[i] \notin frame
       /\ \A j \in DOMAIN results : results[i] = results[j] => i = j

OrderInv == ChannelsTypeOK /\ InOrder /\ ToldOnce

\* No command and no reconnect takes the subscription of the CLOB task back to an
\* earlier window (market_ws.rs 68-89, 130-155).
SubscribesForward == [][tokens' # tokens => tokens = None \/ tokens < tokens']_channelVars

\* The main loop came from a drain, or is on its way to an attempt, which starts
\* it over without one: no other way out of an iteration avoids the drain, and no
\* iteration that rotates to a window makes an attempt.
Undrained ==
  \/ pc \in {"top", "attempt"}
  \/ pc = "evaluate" /\ tradable /\ seen = "entry"

\* How long ago the windows ended whose resolution is pending.
Recent ==
  /\ \A x \in frame : x >= window - Lag
  /\ \A x \in Pending :
       x >= IF Undrained /\ cur = window THEN window - Lag
            ELSE IF Undrained THEN window - 1 - Lag
            ELSE cur - 1 - Lag

ChannelsInv == OrderInv /\ Recent
=============================================================================
