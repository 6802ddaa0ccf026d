----------------------------- MODULE SharedLocks -----------------------------
(***************************************************************************)
(* The read-write locks that the tasks of the bot share, and the order in  *)
(* which each task takes and drops its guards (src/src/main.rs,            *)
(* telegram.rs, rtds.rs, binance_ws.rs, market_ws.rs).  What the guards    *)
(* protect is left out.                                                    *)
(*                                                                         *)
(* A tokio RwLock serves its waiters first come, first served: a reader    *)
(* that arrives after a waiting writer waits behind it, even when the      *)
(* guards now held are all read guards.                                    *)
(***************************************************************************)
EXTENDS Naturals, Sequences, SequencesExt

CONSTANTS
  Task,         \* the tasks that take part
  Reconfigure   \* whether the operator changes a parameter while the bot runs

ASSUME TaskAssumption ==
  /\ Task \subseteq {"main", "telegram", "rtds", "binance_ws", "clob", "summary", "shutdown"}
  /\ Reconfigure \in BOOLEAN

VARIABLES
  todo,    \* what is left of the routine a task is in, <<>> when it is in none
  held,    \* the guards a task holds, in the order it took them
  queue    \* the waiters of a lock, first come first

vars == <<todo, held, queue>>

Lock == {"config", "window", "btc", "binance", "market"}

Read(l) == [kind |-> "read", lock |-> l]
Write(l) == [kind |-> "write", lock |-> l]
Drop == [kind |-> "drop", lock |-> "last"]   \* guards are dropped last first

-----------------------------------------------------------------------------
(* The routines                                                            *)

\* A read guard is kept over what is done under it.
Under(l, body) == <<Read(l)>> \o body \o <<Drop>>

Reads(l) == Under(l, <<>>)
Writes(l) == <<Write(l), Drop>>

\* telegram::notify keeps its guard while the message is sent.
Notify == Reads("config")

\* The strategy is evaluated under one guard of every lock.
Evaluate ==
  Under("window", Under("config", Under("btc", Under("binance", Reads("market")))))

\* The two snapshots of the taker branch.
TradeContext == Under("window", Reads("market")) \o Under("binance", Reads("btc"))

\* Seeded fault: the sampler writes while it still holds the guard it looked with.
SampleHolding == Under("window", Writes("window"))

\* The sampler looks, lets go, and writes afterwards.
Sample == Reads("window") \o Writes("window")

Rotation == Writes("window") \o Writes("market") \o Writes("btc") \o Writes("binance")

\* What the kill switch does: nothing; the daily limit finds the bot paused
\* already; one limit pauses it; the run of losses pauses it and the daily limit
\* then looks as well.
KillSwitch ==
  {<<>>, Writes("window"), Writes("window") \o Notify,
   Writes("window") \o Notify \o Writes("window")}

\* A settled trade: one guard of the configuration is kept from the message to
\* the end of the kill switch.
Resolution(killswitch) == Under("config", Notify \o killswitch)

\* A command: the chat is checked, the answer is built, the answer is sent.
Command(body) == Reads("config") \o body \o Reads("config")

Status == Under("config", Under("btc", Reads("window")))

Routines == [t \in Task |->
  CASE t = "main"       -> {Rotation, Evaluate, Sample, TradeContext, Notify}
                           \cup {Resolution(k) : k \in KillSwitch}
    [] t = "telegram"   -> {Command(Status), Command(Reads("config")),
                            Command(Writes("window"))}
                           \cup (IF Reconfigure THEN {Command(Writes("config"))} ELSE {})
    [] t = "rtds"       -> {Writes("btc")}
    [] t = "binance_ws" -> {Writes("binance")}
    [] t = "clob"       -> {Writes("market")}
    [] OTHER            -> {Notify}]

-----------------------------------------------------------------------------
(* The locks                                                               *)

Guards(l, kinds) ==
  {t \in Task : \E i \in DOMAIN held[t] : held[t][i].lock = l /\ held[t][i].kind \in kinds}

\* Whether the guards now held leave room for one more.
Admits(l, kind) ==
  IF kind = "read" THEN Guards(l, {"write"}) = {} ELSE Guards(l, {"read", "write"}) = {}

Waiting(t) == \E l \in Lock : t \in ToSet(queue[l])

Acquires(t) == todo[t] # <<>> /\ Head(todo[t]).kind \in {"read", "write"}

Take(t) ==
  /\ held' = [held EXCEPT ![t] = Append(@, Head(todo[t]))]
  /\ todo' = [todo EXCEPT ![t] = Tail(@)]

\* A task begins one of its routines.
Begin(t) ==
  /\ todo[t] = <<>>
  /\ \E r \in Routines[t] : todo' = [todo EXCEPT ![t] = r]
  /\ UNCHANGED <<held, queue>>

\* A lock that nobody waits for, and that has room, is taken at once.
Acquire(t) ==
  /\ Acquires(t)
  /\ queue[Head(todo[t]).lock] = <<>>
  /\ Admits(Head(todo[t]).lock, Head(todo[t]).kind)
  /\ Take(t)
  /\ UNCHANGED queue

\* Everyone else goes to the end of the queue.
Enqueue(t) ==
  /\ Acquires(t)
  /\ ~Waiting(t)
  /\ LET l == Head(todo[t]).lock IN
       /\ queue[l] # <<>> \/ ~Admits(l, Head(todo[t]).kind)
       /\ queue' = [queue EXCEPT ![l] = Append(@, t)]
  /\ UNCHANGED <<todo, held>>

\* The first waiter is served as soon as there is room for it.
Grant(l) ==
  /\ queue[l] # <<>>
  /\ Admits(l, Head(todo[Head(queue[l])]).kind)
  /\ Take(Head(queue[l]))
  /\ queue' = [queue EXCEPT ![l] = Tail(@)]

Release(t) ==
  /\ todo[t] # <<>>
  /\ Head(todo[t]).kind = "drop"
  /\ held' = [held EXCEPT ![t] = Front(@)]
  /\ todo' = [todo EXCEPT ![t] = Tail(@)]
  /\ UNCHANGED queue

Init ==
  /\ todo = [t \in Task |-> <<>>]
  /\ held = [t \in Task |-> <<>>]
  /\ queue = [l \in Lock |-> <<>>]

Step(t) == Acquire(t) \/ Enqueue(t) \/ Release(t)

Next ==
  \/ \E t \in Task : Begin(t) \/ Step(t)
  \/ \E l \in Lock : Grant(l)

\* Tasks are scheduled fairly, every request under a guard ends (the sending of
\* a message included), and a lock serves the waiter it has room for.  Nothing
\* makes a task begin a routine.
Fairness ==
  /\ \A t \in Task : WF_vars(Step(t))
  /\ \A l \in Lock : WF_vars(Grant(l))

Spec == Init /\ [][Next]_vars /\ Fairness

-----------------------------------------------------------------------------
(* Properties                                                              *)

\* t waits, in some queue, for u to drop a guard or to be served first.
WaitsFor(t, u) ==
  \E l \in Lock : \E i \in DOMAIN queue[l] :
    /\ queue[l][i] = t
    /\ \/ u \in ToSet(SubSeq(queue[l], 1, i - 1))
       \/ u \in Guards(l, IF Head(todo[t]).kind = "read" THEN {"write"}
                                                         ELSE {"read", "write"})

\* No set of tasks waits for each other (the rule above build_signal_context in
\* main.rs: overlapping read guards can deadlock behind a queued writer).
NoDeadlock ==
  \A S \in SUBSET {t \in Task : Waiting(t)} :
    S # {} => \E t \in S : \A u \in S : ~WaitsFor(t, u)

\* Every task that waits for a lock is served.
EveryWaiterServed == \A t \in Task : Waiting(t) ~> ~Waiting(t)

-----------------------------------------------------------------------------
(* The discipline that keeps the tasks from a deadlock, as long as nobody  *)
(* reconfigures                                                            *)

\* A guard that a task may keep while it asks for another: one to read; other than
\* that of the configuration, main has several, which it takes after that of the
\* window, and telegram one, over which it looks at the window.
MayKeep(t, kept, guard) ==
  /\ kept.kind = "read"
  /\ kept.lock # "config" =>
       /\ kept.lock # guard.lock
       /\ t = "main" => guard.lock # "window"
       /\ t # "main" => t = "telegram" /\ kept.lock = "btc" /\ guard = Read("window")

\* What a task may ask for with these guards in hand: the configuration is only
\* read, and the window is of no concern to the feeds.
MayAsk(t, guards, guard) ==
  /\ guard # Write("config")
  /\ guard.lock = "window" => t \in {"main", "telegram"}
  /\ \A i \in DOMAIN guards : MayKeep(t, guards[i], guard)

Disciplined == \A t \in Task : Acquires(t) => MayAsk(t, held[t], Head(todo[t]))

\* Whoever waits in a queue waits for this lock, once; and nobody waits for the
\* configuration.
QueueInv ==
  /\ \A l \in Lock : \A i \in DOMAIN queue[l] :
       /\ Acquires(queue[l][i])
       /\ Head(todo[queue[l][i]]).lock = l
       /\ \A j \in DOMAIN queue[l] : queue[l][i] = queue[l][j] => i = j
  /\ queue["config"] = <<>>

=============================================================================
