---------------------------- MODULE Waiting_proofs ----------------------------
(***************************************************************************)
(* Who waits for whom.  The tasks never wait for each other's locks in a   *)
(* circle, whichever of them take part, as long as nobody changes the      *)
(* configuration; and main loop and CLOB task never wait for room in each  *)
(* other's channel, as long as the exchange does not tell resolutions too  *)
(* late.  The locks first.                                                 *)
(*                                                                         *)
(* A routine is a sequence of requests and drops.  What a task holds after *)
(* each of them is found as one finds the assertions of a program, from    *)
(* its parts: Does(t, before, ops, after) says that these operations lead  *)
(* from these guards to those and never break the discipline.              *)
(***************************************************************************)
EXTENDS SharedLocks, Channels, SumTheorems, SequenceTheorems, FiniteSetTheorems, TLAPS

\* The guards a routine may take while nobody reconfigures.
GuardOp == [kind : {"read", "write"}, lock : Lock] \ {Write("config")}
Op == GuardOp \cup {Drop}
Guarded == Seq(GuardOp)

\* One operation of t, which holds some guards before and others after it.
DoesOne(t, before, op, after) ==
  \/ op \in GuardOp /\ MayAsk(t, before, op) /\ after = Append(before, op)
  \/ op = Drop /\ before # <<>> /\ after = Front(before)

\* A sequence of operations of t, with the guards it holds between any two of them.
Follows(t, states, ops) ==
  \A i \in 1..Len(ops) : DoesOne(t, states[i], ops[i], states[i + 1])

Does(t, before, ops, after) ==
  \E states \in [1..Len(ops) + 1 -> Guarded] :
    /\ states[1] = before
    /\ states[Len(ops) + 1] = after
    /\ Follows(t, states, ops)

-----------------------------------------------------------------------------
(* The rules                                                               *)

LEMMA NothingDone ==
  ASSUME NEW t, NEW h \in Guarded
  PROVE  Does(t, h, <<>>, h)
<1> DEFINE states == [i \in 1..1 |-> h]
<1>1. Len(<<>>) = 0
  OBVIOUS
<1>2. states \in [1..Len(<<>>) + 1 -> Guarded] /\ states[1] = h /\ states[Len(<<>>) + 1] = h
  BY <1>1
<1>3. Follows(t, states, <<>>)
  BY <1>1 DEF Follows
<1> HIDE DEF states
<1>4. QED BY <1>2, <1>3 DEF Does

LEMMA OneDone ==
  ASSUME NEW t, NEW h \in Guarded, NEW op, NEW g \in Guarded, DoesOne(t, h, op, g)
  PROVE  Does(t, h, <<op>>, g)
<1> DEFINE states == [i \in 1..2 |-> IF i = 1 THEN h ELSE g]
<1>1. Len(<<op>>) = 1 /\ <<op>>[1] = op
  OBVIOUS
<1>2. states \in [1..Len(<<op>>) + 1 -> Guarded] /\ states[1] = h /\ states[Len(<<op>>) + 1] = g
  BY <1>1
<1>3. Follows(t, states, <<op>>)
  BY <1>1 DEF Follows
<1> HIDE DEF states
<1>4. QED BY <1>2, <1>3 DEF Does

\* One sequence after the other.
LEMMA BothDone ==
  ASSUME NEW t, NEW a \in Seq(Op), NEW b \in Seq(Op), NEW f, NEW g, NEW h,
         Does(t, f, a, g), Does(t, g, b, h)
  PROVE  Does(t, f, a \o b, h)
<1>1. PICK x \in [1..Len(a) + 1 -> Guarded] :
        x[1] = f /\ x[Len(a) + 1] = g /\ Follows(t, x, a)
  BY DEF Does
<1>2. PICK y \in [1..Len(b) + 1 -> Guarded] :
        y[1] = g /\ y[Len(b) + 1] = h /\ Follows(t, y, b)
  BY DEF Does
<1> DEFINE m == Len(a)
           n == Len(b)
           z == [i \in 1..m + n + 1 |-> IF i <= m THEN x[i] ELSE y[i - m]]
<1>3. m \in Nat /\ n \in Nat
  OBVIOUS
<1>4. /\ Len(a \o b) = m + n
      /\ \A i \in 1..m : (a \o b)[i] = a[i]
      /\ \A i \in 1..n : (a \o b)[m + i] = b[i]
  BY ConcatProperties
<1>5. DOMAIN x = 1..m + 1 /\ DOMAIN y = 1..n + 1
  OBVIOUS
<1>6. /\ z \in [1..m + n + 1 -> Guarded]
      /\ \A i \in 1..m + 1 : z[i] = x[i]
      /\ \A i \in 1..n + 1 : z[m + i] = y[i]
  <2> DEFINE k == m
             l == n
  <2>0. k \in Nat /\ l \in Nat
    BY <1>3
  <2>1. x \in [1..k + 1 -> Guarded] /\ y \in [1..l + 1 -> Guarded] /\ x[k + 1] = y[1]
    BY <1>1, <1>2
  <2>2. z = [i \in 1..k + l + 1 |-> IF i <= k THEN x[i] ELSE y[i - k]]
    OBVIOUS
  <2>3. SUFFICES /\ z \in [1..k + l + 1 -> Guarded]
                 /\ \A i \in 1..k + 1 : z[i] = x[i]
                 /\ \A i \in 1..l + 1 : z[k + i] = y[i]
    OBVIOUS
  <2> HIDE DEF k, l, z
  <2>4. \A i \in 1..k + l + 1 : i <= k => i \in 1..k + 1
    BY <2>0
  <2>5. \A i \in 1..k + l + 1 : ~(i <= k) => i - k \in 1..l + 1
    BY <2>0
  <2>6. z \in [1..k + l + 1 -> Guarded]
    BY <2>1, <2>2, <2>4, <2>5
  <2>7. ASSUME NEW i \in 1..k + 1 PROVE z[i] = x[i]
    <3>1. i \in 1..k + l + 1 /\ (i <= k \/ (i = k + 1 /\ i - k = 1 /\ ~(i <= k)))
      BY <2>0
    <3>2. QED BY <3>1, <2>1, <2>2
  <2>8. ASSUME NEW i \in 1..l + 1 PROVE z[k + i] = y[i]
    <3>1. k + i \in 1..k + l + 1 /\ ~(k + i <= k) /\ (k + i) - k = i
      BY <2>0
    <3>2. QED BY <3>1, <2>2
  <2>9. QED BY <2>6, <2>7, <2>8
<1> HIDE DEF m, n, z
<1>7. \A i \in 1..m : DoesOne(t, x[i], a[i], x[i + 1])
  BY <1>1 DEF Follows, m
<1>8. \A i \in 1..n : DoesOne(t, y[i], b[i], y[i + 1])
  BY <1>2 DEF Follows, n
<1>9. ASSUME NEW i \in 1..m + n
      PROVE  DoesOne(t, z[i], (a \o b)[i], z[i + 1])
  <2>1. CASE i \in 1..m
    <3>1. i \in 1..m + 1 /\ i + 1 \in 1..m + 1
      BY <1>3, <2>1
    <3>2. QED BY <1>4, <1>6, <1>7, <2>1, <3>1
  <2>2. CASE i \notin 1..m
    <3> DEFINE j == i - m
    <3>1. j \in 1..n /\ j \in 1..n + 1 /\ j + 1 \in 1..n + 1 /\ m + j = i /\ m + (j + 1) = i + 1
      BY <1>3, <2>2
    <3> HIDE DEF j
    <3>2. z[i] = y[j] /\ z[i + 1] = y[j + 1] /\ (a \o b)[i] = b[j]
      BY <1>4, <1>6, <3>1
    <3>3. QED BY <1>8, <3>1, <3>2
  <2>3. QED BY <2>1, <2>2
<1>10. z[1] = f /\ z[m + n + 1] = h
  <2>1. 1 \in 1..m + 1 /\ n + 1 \in 1..n + 1 /\ m + (n + 1) = m + n + 1
    BY <1>3
  <2>2. QED BY <2>1, <1>1, <1>2, <1>6 DEF n
<1>11. QED BY <1>4, <1>6, <1>9, <1>10 DEF Does, Follows

\* The first operation of a sequence, and the rest.
LEMMA FirstDone ==
  ASSUME NEW t, NEW ops \in Seq(Op), ops # <<>>, NEW h, NEW g, Does(t, h, ops, g)
  PROVE  /\ h \in Guarded
         /\ \E next \in Guarded :
              DoesOne(t, h, Head(ops), next) /\ Does(t, next, Tail(ops), g)
<1>1. PICK x \in [1..Len(ops) + 1 -> Guarded] :
        x[1] = h /\ x[Len(ops) + 1] = g /\ Follows(t, x, ops)
  BY DEF Does
<1> DEFINE n == Len(Tail(ops))
           y == [i \in 1..n + 1 |-> x[i + 1]]
<1>2. /\ Tail(ops) \in Seq(Op) /\ n + 1 = Len(ops) /\ n \in Nat
      /\ \A i \in 1..n : Tail(ops)[i] = ops[i + 1]
      /\ Head(ops) = ops[1]
  BY HeadTailProperties, EmptySeq, LenProperties
<1>3. x \in [1..n + 2 -> Guarded] /\ x[1] = h /\ x[n + 2] = g
      /\ \A i \in 1..n + 1 : DoesOne(t, x[i], ops[i], x[i + 1])
  BY <1>1, <1>2 DEF Follows
<1> HIDE DEF n
<1>4. /\ \A i \in 1..n + 1 : i + 1 \in 1..n + 2
      /\ \A i \in 1..n : i + 1 \in 1..n + 1 /\ i \in 1..n + 1
      /\ 1 \in 1..n + 1 /\ 1 \in 1..n + 2 /\ n + 1 \in 1..n + 1 /\ (n + 1) + 1 = n + 2
  BY <1>2
<1>5. y \in [1..n + 1 -> Guarded] /\ y[1] = x[2] /\ y[n + 1] = g
  BY <1>3, <1>4
<1>6. \A i \in 1..n : DoesOne(t, y[i], Tail(ops)[i], y[i + 1])
  BY <1>2, <1>3, <1>4
<1>7. x[2] \in Guarded /\ h \in Guarded
  BY <1>3, <1>4
<1> HIDE DEF y
<1>8. Does(t, x[2], Tail(ops), g)
  BY <1>5, <1>6 DEF Does, Follows, n
<1>9. DoesOne(t, h, Head(ops), x[2])
  BY <1>2, <1>3, <1>4
<1>10. QED BY <1>7, <1>8, <1>9

\* The guard taken last is dropped first.
LEMMA FrontOfAppend ==
  ASSUME NEW S, NEW s \in Seq(S), NEW e \in S
  PROVE  Front(Append(s, e)) = s
<1> DEFINE w == Append(s, e)
<1>1. w \in Seq(S) /\ Len(w) = Len(s) + 1 /\ \A i \in 1..Len(s) : w[i] = s[i]
  BY AppendProperties
<1>2. Len(s) \in Nat /\ s = [i \in 1..Len(s) |-> s[i]]
  OBVIOUS
<1> HIDE DEF w
<1>3. SubSeq(w, 1, Len(s)) = [i \in 1..Len(s) |-> w[i]]
  BY <1>1, <1>2
<1>4. Front(w) = SubSeq(w, 1, Len(s))
  BY <1>1, <1>2 DEF Front
<1>5. QED BY <1>1, <1>2, <1>3, <1>4 DEF w

\* Reading under a guard, and writing.
LEMMA UnderDone ==
  ASSUME NEW t, NEW h \in Guarded, NEW l \in Lock, NEW body \in Seq(Op),
         MayAsk(t, h, Read(l)),
         Does(t, Append(h, Read(l)), body, Append(h, Read(l)))
  PROVE  Under(l, body) \in Seq(Op) /\ Does(t, h, Under(l, body), h)
<1> DEFINE g == Append(h, Read(l))
<1>1. Read(l) \in GuardOp /\ g \in Guarded /\ g # <<>> /\ Front(g) = h
  <2>1. Read(l) \in GuardOp
    BY DEF GuardOp, Read, Write
  <2>2. g \in Guarded /\ g # <<>>
    BY <2>1, AppendProperties DEF Guarded
  <2>3. QED BY <2>1, <2>2, FrontOfAppend DEF Guarded
<1>2. DoesOne(t, h, Read(l), g) /\ DoesOne(t, g, Drop, h)
  BY <1>1 DEF DoesOne
<1> HIDE DEF g
<1>3. Does(t, h, <<Read(l)>>, g) /\ Does(t, g, <<Drop>>, h)
  BY <1>1, <1>2, OneDone
<1>4. <<Read(l)>> \in Seq(Op) /\ <<Drop>> \in Seq(Op)
  BY <1>1 DEF Op
<1>5. <<Read(l)>> \o body \in Seq(Op) /\ Does(t, h, <<Read(l)>> \o body, g)
  BY <1>3, <1>4, BothDone, ConcatProperties DEF g
<1>6. QED BY <1>3, <1>4, <1>5, BothDone, ConcatProperties DEF Under

LEMMA ReadsDone ==
  ASSUME NEW t, NEW h \in Guarded, NEW l \in Lock, MayAsk(t, h, Read(l))
  PROVE  Reads(l) \in Seq(Op) /\ Does(t, h, Reads(l), h)
<1>1. Append(h, Read(l)) \in Guarded /\ l \in Lock
  <2>1. Read(l) \in GuardOp
    BY DEF GuardOp, Read, Write
  <2>2. QED BY <2>1, AppendProperties DEF Guarded
<1>2. Does(t, Append(h, Read(l)), <<>>, Append(h, Read(l)))
  BY <1>1, NothingDone
<1>3. <<>> \in Seq(Op)
  OBVIOUS
<1>4. QED BY <1>2, <1>3, UnderDone DEF Reads

LEMMA OneAndOne ==
  ASSUME NEW a, NEW b
  PROVE  <<a>> \o <<b>> = <<a, b>>
<1> DEFINE S == {a, b}
           u == <<a>>
           v == <<b>>
           w == <<a, b>>
<1>1. /\ u \in Seq(S) /\ Len(u) = 1 /\ u[1] = a
      /\ v \in Seq(S) /\ Len(v) = 1 /\ v[1] = b
      /\ w \in Seq(S) /\ Len(w) = 2 /\ w[1] = a /\ w[2] = b
  OBVIOUS
<1> HIDE DEF S, u, v, w
<1>2. /\ u \o v \in Seq(S) /\ Len(u \o v) = Len(u) + Len(v)
      /\ \A i \in 1..Len(u) : (u \o v)[i] = u[i]
      /\ \A i \in 1..Len(v) : (u \o v)[Len(u) + i] = v[i]
  BY <1>1, ConcatProperties
<1>3. (u \o v)[1] = a /\ (u \o v)[2] = b
  BY <1>1, <1>2
<1>4. ASSUME NEW i \in 1..Len(w) PROVE (u \o v)[i] = w[i]
  <2>1. i = 1 \/ i = 2
    BY <1>1
  <2>2. QED BY <1>1, <1>3, <2>1
<1>5. u \o v = w
  BY <1>1, <1>2, <1>4, SeqEqual
<1>6. QED BY <1>5 DEF u, v, w

LEMMA WritesDone ==
  ASSUME NEW t, NEW h \in Guarded, NEW l \in Lock, l # "config", MayAsk(t, h, Write(l))
  PROVE  Writes(l) \in Seq(Op) /\ Does(t, h, Writes(l), h)
<1> DEFINE g == Append(h, Write(l))
<1>1. Write(l) \in GuardOp /\ g \in Guarded /\ g # <<>> /\ Front(g) = h
  BY AppendProperties, FrontOfAppend DEF GuardOp, Write, Guarded
<1>2. DoesOne(t, h, Write(l), g) /\ DoesOne(t, g, Drop, h)
  BY <1>1 DEF DoesOne
<1> HIDE DEF g
<1>3. Does(t, h, <<Write(l)>>, g) /\ Does(t, g, <<Drop>>, h)
  BY <1>1, <1>2, OneDone
<1>4. <<Write(l)>> \in Seq(Op) /\ <<Drop>> \in Seq(Op)
  BY <1>1 DEF Op
<1>5. <<Write(l)>> \o <<Drop>> = <<Write(l), Drop>>
  BY OneAndOne
<1>6. QED BY <1>3, <1>4, <1>5, BothDone, ConcatProperties DEF Writes

-----------------------------------------------------------------------------
(* The routines                                                            *)

\* Operations after which a task holds what it held before.
Keeps(t, h, ops) == ops \in Seq(Op) /\ Does(t, h, ops, h)

LEMMA KeepsBoth ==
  ASSUME NEW t, NEW h, NEW a, NEW b, Keeps(t, h, a), Keeps(t, h, b)
  PROVE  Keeps(t, h, a \o b)
BY BothDone, ConcatProperties DEF Keeps

LEMMA KeepsNothing ==
  ASSUME NEW t, NEW h \in Guarded
  PROVE  Keeps(t, h, <<>>)
<1>1. <<>> \in Seq(Op)
  OBVIOUS
<1>2. QED BY <1>1, NothingDone DEF Keeps

\* With nothing in hand anything may be asked for, and with one guard more what may
\* be asked for with the others and with it.
LEMMA AskFirst ==
  ASSUME NEW t, NEW l \in Lock, l = "window" => t \in {"main", "telegram"}
  PROVE  /\ <<>> \in Guarded
         /\ MayAsk(t, <<>>, Read(l))
         /\ l # "config" => MayAsk(t, <<>>, Write(l))
<1>1. <<>> \in Guarded /\ DOMAIN <<>> = {}
  BY DEF Guarded
<1>2. QED BY <1>1 DEF MayAsk, Read, Write

LEMMA AskOver ==
  ASSUME NEW t, NEW h \in Guarded, NEW k \in Lock, NEW guard,
         MayAsk(t, h, guard), MayKeep(t, Read(k), guard)
  PROVE  Append(h, Read(k)) \in Guarded /\ MayAsk(t, Append(h, Read(k)), guard)
<1> DEFINE g == Append(h, Read(k))
<1>1. Read(k) \in GuardOp
  BY DEF GuardOp, Read, Write
<1>2. /\ g \in Guarded /\ DOMAIN g = 1..Len(h) + 1 /\ DOMAIN h = 1..Len(h) /\ Len(h) \in Nat
      /\ \A i \in 1..Len(h) : g[i] = h[i]
      /\ g[Len(h) + 1] = Read(k)
  BY <1>1, AppendProperties, LenProperties DEF Guarded
<1> HIDE DEF g
<1>3. ASSUME NEW i \in DOMAIN g PROVE MayKeep(t, g[i], guard)
  <2>1. i \in DOMAIN h \/ i = Len(h) + 1
    BY <1>2
  <2>2. QED BY <1>2, <2>1 DEF MayAsk
<1>4. QED BY <1>2, <1>3 DEF MayAsk, g

\* Reading, and writing, with nothing in hand.
LEMMA KeepsFree ==
  ASSUME NEW t, NEW l \in Lock, l = "window" => t \in {"main", "telegram"}
  PROVE  /\ Keeps(t, <<>>, Reads(l))
         /\ l # "config" => Keeps(t, <<>>, Writes(l))
BY AskFirst, ReadsDone, WritesDone DEF Keeps

\* Reading the configuration over a guard of it, as notify does.
LEMMA KeepsConfig ==
  ASSUME NEW t, NEW l \in Lock, l = "window" => t \in {"main", "telegram"}
  PROVE  LET h == Append(<<>>, Read("config"))
         IN  /\ h \in Guarded
             /\ MayAsk(t, h, Read(l))
             /\ l # "config" => MayAsk(t, h, Write(l))
<1>1. "config" \in Lock
  BY DEF Lock
<1>2. \A guard : MayKeep(t, Read("config"), guard)
  BY DEF MayKeep, Read
<1>3. QED BY <1>1, <1>2, AskFirst, AskOver

LEMMA EvaluateKeeps == Keeps("main", <<>>, Evaluate)
<1> DEFINE h1 == Append(<<>>, Read("window"))
           h2 == Append(h1, Read("config"))
           h3 == Append(h2, Read("btc"))
           h4 == Append(h3, Read("binance"))
<1>0. /\ {"window", "config", "btc", "binance", "market"} \subseteq Lock
      /\ <<>> \in Guarded
  BY AskFirst DEF Lock
<1>1. \A l \in {"window", "config", "btc", "binance", "market"} : MayAsk("main", <<>>, Read(l))
  BY <1>0, AskFirst
<1>2. /\ h1 \in Guarded
      /\ \A l \in {"config", "btc", "binance", "market"} : MayAsk("main", h1, Read(l))
  <2>1. \A l \in {"config", "btc", "binance", "market"} : MayKeep("main", Read("window"), Read(l))
    BY DEF MayKeep, Read
  <2>2. QED BY <1>0, <1>1, <2>1, AskOver
<1> HIDE DEF h1
<1>3. /\ h2 \in Guarded
      /\ \A l \in {"btc", "binance", "market"} : MayAsk("main", h2, Read(l))
  <2>1. \A l \in {"btc", "binance", "market"} : MayKeep("main", Read("config"), Read(l))
    BY DEF MayKeep, Read
  <2>2. QED BY <1>0, <1>2, <2>1, AskOver
<1> HIDE DEF h2
<1>4. /\ h3 \in Guarded
      /\ \A l \in {"binance", "market"} : MayAsk("main", h3, Read(l))
  <2>1. \A l \in {"binance", "market"} : MayKeep("main", Read("btc"), Read(l))
    BY DEF MayKeep, Read
  <2>2. QED BY <1>0, <1>3, <2>1, AskOver
<1> HIDE DEF h3
<1>5. h4 \in Guarded /\ MayAsk("main", h4, Read("market"))
  <2>1. MayKeep("main", Read("binance"), Read("market"))
    BY DEF MayKeep, Read
  <2>2. QED BY <1>0, <1>4, <2>1, AskOver
<1> HIDE DEF h4
<1>6. Keeps("main", h4, Reads("market"))
  BY <1>0, <1>5, ReadsDone DEF Keeps
<1>7. Keeps("main", h3, Under("binance", Reads("market")))
  BY <1>0, <1>4, <1>6, UnderDone DEF Keeps, h4
<1>8. Keeps("main", h2, Under("btc", Under("binance", Reads("market"))))
  BY <1>0, <1>3, <1>7, UnderDone DEF Keeps, h3
<1>9. Keeps("main", h1, Under("config", Under("btc", Under("binance", Reads("market")))))
  BY <1>0, <1>2, <1>8, UnderDone DEF Keeps, h2
<1>10. QED BY <1>0, <1>1, <1>9, UnderDone DEF Keeps, Evaluate, h1

LEMMA TradeContextKeeps == Keeps("main", <<>>, TradeContext)
<1>1. ASSUME NEW k \in Lock, NEW l \in Lock, MayKeep("main", Read(k), Read(l))
      PROVE  Keeps("main", <<>>, Under(k, Reads(l)))
  <2> DEFINE h == Append(<<>>, Read(k))
  <2>1. MayAsk("main", <<>>, Read(k)) /\ MayAsk("main", <<>>, Read(l)) /\ <<>> \in Guarded
    BY AskFirst
  <2>2. h \in Guarded /\ MayAsk("main", h, Read(l))
    BY <1>1, <2>1, AskOver
  <2> HIDE DEF h
  <2>3. Keeps("main", h, Reads(l))
    BY <2>2, ReadsDone DEF Keeps
  <2>4. QED BY <2>1, <2>3, UnderDone DEF Keeps, h
<1>2. /\ MayKeep("main", Read("window"), Read("market"))
      /\ MayKeep("main", Read("binance"), Read("btc"))
      /\ {"window", "market", "binance", "btc"} \subseteq Lock
  BY DEF MayKeep, Read, Lock
<1>3. QED BY <1>1, <1>2, KeepsBoth DEF TradeContext

LEMMA ResolutionKeeps ==
  ASSUME NEW killswitch \in KillSwitch
  PROVE  Keeps("main", <<>>, Resolution(killswitch))
<1> DEFINE h == Append(<<>>, Read("config"))
<1>1. /\ h \in Guarded /\ <<>> \in Guarded
      /\ MayAsk("main", <<>>, Read("config"))
      /\ MayAsk("main", h, Read("config")) /\ MayAsk("main", h, Write("window"))
      /\ {"config", "window"} \subseteq Lock
  BY KeepsConfig, AskFirst DEF Lock
<1> HIDE DEF h
<1>2. Keeps("main", h, Notify) /\ Keeps("main", h, Writes("window"))
  BY <1>1, ReadsDone, WritesDone DEF Keeps, Notify
<1>3. Keeps("main", h, killswitch)
  BY <1>1, <1>2, KeepsBoth, KeepsNothing DEF KillSwitch
<1>4. Keeps("main", h, Notify \o killswitch)
  BY <1>2, <1>3, KeepsBoth
<1>5. QED BY <1>1, <1>4, UnderDone DEF Keeps, Resolution, h

LEMMA StatusKeeps == Keeps("telegram", <<>>, Status)
<1> DEFINE h1 == Append(<<>>, Read("config"))
           h2 == Append(h1, Read("btc"))
<1>1. /\ h1 \in Guarded /\ <<>> \in Guarded
      /\ MayAsk("telegram", <<>>, Read("config"))
      /\ MayAsk("telegram", h1, Read("btc")) /\ MayAsk("telegram", h1, Read("window"))
      /\ {"config", "btc", "window"} \subseteq Lock
  BY KeepsConfig, AskFirst DEF Lock
<1> HIDE DEF h1
<1>2. h2 \in Guarded /\ MayAsk("telegram", h2, Read("window"))
  <2>1. MayKeep("telegram", Read("btc"), Read("window"))
    BY DEF MayKeep, Read
  <2>2. QED BY <1>1, <2>1, AskOver
<1> HIDE DEF h2
<1>3. Keeps("telegram", h2, Reads("window"))
  BY <1>1, <1>2, ReadsDone DEF Keeps
<1>4. Keeps("telegram", h1, Under("btc", Reads("window")))
  BY <1>1, <1>3, UnderDone DEF Keeps, h2
<1>5. QED BY <1>1, <1>4, UnderDone DEF Keeps, Status, h1

\* Each routine keeps the discipline and ends with nothing in hand.
LEMMA RoutinesKeep ==
  ASSUME Reconfigure = FALSE, NEW t \in Task, NEW r \in Routines[t]
  PROVE  Keeps(t, <<>>, r)
<1>1. /\ Keeps(t, <<>>, Notify)
      /\ Keeps(t, <<>>, Writes("btc"))
      /\ Keeps(t, <<>>, Writes("binance"))
      /\ Keeps(t, <<>>, Writes("market"))
  BY KeepsFree DEF Notify, Lock
<1>2. "window" \in Lock
  BY DEF Lock
<1>3. CASE t = "main"
  <2>1. r \in {Rotation, Evaluate, Sample, TradeContext, Notify}
             \cup {Resolution(k) : k \in KillSwitch}
    BY <1>3 DEF Routines
  <2>2. Keeps(t, <<>>, Reads("window")) /\ Keeps(t, <<>>, Writes("window"))
    BY <1>2, <1>3, KeepsFree
  <2>3. Keeps(t, <<>>, Sample)
    BY <2>2, KeepsBoth DEF Sample
  <2>4. Keeps(t, <<>>, Rotation)
    <3>1. Keeps(t, <<>>, Writes("window") \o Writes("market"))
      BY <1>1, <2>2, KeepsBoth
    <3>2. Keeps(t, <<>>, Writes("window") \o Writes("market") \o Writes("btc"))
      BY <1>1, <3>1, KeepsBoth
    <3>3. QED BY <1>1, <3>2, KeepsBoth DEF Rotation
  <2>5. QED
    BY <1>1, <1>3, <2>1, <2>3, <2>4, EvaluateKeeps, TradeContextKeeps, ResolutionKeeps
<1>4. CASE t = "telegram"
  <2>1. r \in {Command(Status), Command(Reads("config")), Command(Writes("window"))}
    BY <1>4 DEF Routines
  <2>2. Keeps(t, <<>>, Reads("config")) /\ Keeps(t, <<>>, Writes("window"))
    BY <1>1, <1>2, <1>4, KeepsFree DEF Notify
  <2>3. \A body : Keeps(t, <<>>, body) => Keeps(t, <<>>, Command(body))
    BY <2>2, KeepsBoth DEF Command
  <2>4. QED BY <1>4, <2>1, <2>2, <2>3, StatusKeeps
<1>5. CASE t \notin {"main", "telegram"}
  <2>1. r \in {Writes("btc"), Writes("binance"), Writes("market"), Notify}
    BY <1>5 DEF Routines
  <2>2. QED BY <1>1, <2>1
<1>6. QED BY <1>3, <1>4, <1>5

-----------------------------------------------------------------------------
(* What every step keeps                                                   *)

TasksInv ==
  /\ todo \in [Task -> Seq(Op)]
  /\ held \in [Task -> Guarded]
  /\ \A t \in Task : Does(t, held[t], todo[t], <<>>)

LockInv ==
  /\ TasksInv
  /\ queue \in [Lock -> Seq(Task)]
  /\ QueueInv

\* An operation is a request or a drop.
LEMMA Kinds ==
  /\ Drop.kind = "drop"
  /\ \A g \in GuardOp : g.kind \in {"read", "write"} /\ g.lock \in Lock /\ g # Drop
BY DEF Drop, GuardOp

\* What the first operation left of a task makes of its guards.
LEMMA FirstLeft ==
  ASSUME TasksInv, NEW t \in Task, todo[t] # <<>>
  PROVE  /\ Head(todo[t]) \in Op
         /\ Tail(todo[t]) \in Seq(Op)
         /\ Acquires(t) =>
              /\ Head(todo[t]) \in GuardOp
              /\ MayAsk(t, held[t], Head(todo[t]))
              /\ Append(held[t], Head(todo[t])) \in Guarded
              /\ Does(t, Append(held[t], Head(todo[t])), Tail(todo[t]), <<>>)
         /\ Head(todo[t]).kind = "drop" =>
              /\ Front(held[t]) \in Guarded
              /\ Does(t, Front(held[t]), Tail(todo[t]), <<>>)
<1>1. todo[t] \in Seq(Op) /\ Does(t, held[t], todo[t], <<>>)
  BY DEF TasksInv
<1>2. Head(todo[t]) \in Op /\ Tail(todo[t]) \in Seq(Op)
  BY <1>1, HeadTailProperties
<1>3. PICK next \in Guarded :
        DoesOne(t, held[t], Head(todo[t]), next) /\ Does(t, next, Tail(todo[t]), <<>>)
  BY <1>1, FirstDone
<1>4. Acquires(t) => Head(todo[t]) # Drop
  BY Kinds DEF Acquires
<1>5. Head(todo[t]).kind = "drop" => Head(todo[t]) \notin GuardOp
  BY Kinds
<1>6. QED BY <1>2, <1>3, <1>4, <1>5 DEF DoesOne

\* A task that has done everything holds nothing.
LEMMA NothingLeft ==
  ASSUME TasksInv, NEW t \in Task, todo[t] = <<>>
  PROVE  held[t] = <<>>
<1>1. Does(t, held[t], <<>>, <<>>)
  BY DEF TasksInv
<1>2. Len(<<>>) + 1 = 1
  OBVIOUS
<1>3. QED BY <1>1, <1>2 DEF Does

\* A task that goes one operation on.
LEMMA GoneOn ==
  ASSUME TasksInv, NEW t \in Task, NEW h \in Guarded, NEW s \in Seq(Op), Does(t, h, s, <<>>),
         held' = [held EXCEPT ![t] = h], todo' = [todo EXCEPT ![t] = s]
  PROVE  TasksInv'
BY DEF TasksInv

LEMMA Taken ==
  ASSUME TasksInv, NEW t \in Task, Acquires(t), Take(t)
  PROVE  TasksInv'
BY FirstLeft, GoneOn DEF Take, Acquires

\* A step of a task that waits nowhere changes no queue.
LEMMA QueuesKept ==
  ASSUME TasksInv, QueueInv, NEW t \in Task, NEW s, todo' = [todo EXCEPT ![t] = s],
         queue \in [Lock -> Seq(Task)], UNCHANGED queue,
         \A l \in Lock : \A i \in DOMAIN queue[l] : queue[l][i] # t
  PROVE  QueueInv'
<1>1. \A l \in Lock : \A i \in DOMAIN queue[l] :
        queue[l][i] \in Task /\ todo'[queue[l][i]] = todo[queue[l][i]]
  <2>1. ASSUME NEW l \in Lock, NEW i \in DOMAIN queue[l] PROVE queue[l][i] \in Task
    BY ElementOfSeq, LenProperties
  <2>2. QED BY <2>1 DEF TasksInv
<1>2. QED BY <1>1 DEF QueueInv, Acquires

\* Nobody has to wait for the configuration.
LEMMA ConfigAdmits ==
  ASSUME LockInv, NEW t \in Task, Acquires(t), Head(todo[t]).lock = "config"
  PROVE  queue["config"] = <<>> /\ Admits("config", Head(todo[t]).kind)
<1>1. Head(todo[t]) \in GuardOp
  BY FirstLeft DEF LockInv, Acquires
<1>2. \A g \in GuardOp : g.lock = "config" => g.kind = "read"
  BY DEF GuardOp, Write
<1>3. Guards("config", {"write"}) = {}
  <2>1. SUFFICES ASSUME NEW u \in Task, NEW i \in DOMAIN held[u],
                        held[u][i].lock = "config", held[u][i].kind = "write"
                 PROVE  FALSE
    BY DEF Guards
  <2>2. held[u] \in Seq(GuardOp)
    BY DEF LockInv, TasksInv, Guarded
  <2>3. held[u][i] \in GuardOp
    BY <2>2, ElementOfSeq, LenProperties
  <2>4. QED BY <1>2, <2>1, <2>3
<1>4. QED BY <1>1, <1>2, <1>3 DEF Admits, LockInv, QueueInv

\* A task with these operations left asks for this lock.
Asks(ops, l) == ops # <<>> /\ Head(ops).kind \in {"read", "write"} /\ Head(ops).lock = l

LEMMA LockInit == Init => LockInv
<1> SUFFICES ASSUME Init PROVE LockInv
  OBVIOUS
<1>1. <<>> \in Seq(Op) /\ <<>> \in Guarded /\ <<>> \in Seq(Task) /\ DOMAIN <<>> = {}
  BY DEF Guarded
<1>2. TasksInv
  BY <1>1, NothingDone DEF Init, TasksInv
<1>3. queue \in [Lock -> Seq(Task)] /\ QueueInv
  BY <1>1 DEF Init, QueueInv, Lock
<1>4. QED BY <1>2, <1>3 DEF LockInv

\* Whoever is in the queue of a lock asks for that lock next.
LEMMA Asking ==
  ASSUME LockInv, NEW l \in Lock, NEW i \in DOMAIN queue[l]
  PROVE  /\ queue[l][i] \in Task
         /\ Asks(todo[queue[l][i]], l)
         /\ Acquires(queue[l][i])
         /\ Head(todo[queue[l][i]]).lock = l
         /\ l # "config"
<1>1. queue[l][i] \in Task
  BY ElementOfSeq, LenProperties DEF LockInv
<1>2. DOMAIN <<>> = {}
  OBVIOUS
<1>3. QED BY <1>1, <1>2 DEF LockInv, QueueInv, Asks, Acquires

LEMMA BeginKeeps ==
  ASSUME LockInv, Reconfigure = FALSE, NEW t \in Task, Begin(t)
  PROVE  LockInv'
<1>1. PICK r \in Routines[t] : todo' = [todo EXCEPT ![t] = r]
  BY DEF Begin
<1>2. r \in Seq(Op) /\ Does(t, <<>>, r, <<>>)
  BY RoutinesKeep DEF Keeps
<1>3. held[t] = <<>> /\ held' = [held EXCEPT ![t] = <<>>] /\ <<>> \in Guarded
  BY NothingLeft DEF Begin, LockInv, TasksInv, Guarded
<1>4. TasksInv'
  BY <1>1, <1>2, <1>3, GoneOn DEF LockInv
<1>5. \A l \in Lock : \A i \in DOMAIN queue[l] : queue[l][i] # t
  BY Asking DEF Begin, Acquires
<1>6. QueueInv'
  BY <1>1, <1>5, QueuesKept DEF LockInv, Begin
<1>7. QED BY <1>4, <1>6 DEF LockInv, Begin

LEMMA AcquireKeeps ==
  ASSUME LockInv, NEW t \in Task, Acquire(t)
  PROVE  LockInv'
<1>1. TasksInv'
  BY Taken DEF Acquire, LockInv
<1>2. \A l \in Lock : \A i \in DOMAIN queue[l] : queue[l][i] # t
  <2>1. SUFFICES ASSUME NEW l \in Lock, NEW i \in DOMAIN queue[l], queue[l][i] = t PROVE FALSE
    OBVIOUS
  <2>2. queue[l] = <<>> /\ DOMAIN <<>> = {}
    BY <2>1, Asking DEF Acquire
  <2>3. QED BY <2>1, <2>2
<1>3. QueueInv'
  BY <1>2, QueuesKept DEF LockInv, Acquire, Take
<1>4. QED BY <1>1, <1>3 DEF LockInv, Acquire

LEMMA EnqueueKeeps ==
  ASSUME LockInv, NEW t \in Task, Enqueue(t)
  PROVE  LockInv'
<1> DEFINE l == Head(todo[t]).lock
<1>1. Acquires(t) /\ l \in Lock /\ l # "config"
  BY FirstLeft, Kinds, ConfigAdmits DEF LockInv, Acquires, Enqueue
<1>2. TasksInv'
  BY DEF LockInv, TasksInv, Enqueue
<1>3. queue' = [queue EXCEPT ![l] = Append(queue[l], t)]
  BY DEF Enqueue
<1>4. /\ Append(queue[l], t) \in Seq(Task)
      /\ DOMAIN queue[l] = 1..Len(queue[l]) /\ Len(queue[l]) \in Nat
      /\ DOMAIN Append(queue[l], t) = 1..Len(queue[l]) + 1
      /\ \A i \in 1..Len(queue[l]) : Append(queue[l], t)[i] = queue[l][i]
      /\ Append(queue[l], t)[Len(queue[l]) + 1] = t
  <2>1. queue[l] \in Seq(Task)
    BY <1>1 DEF LockInv
  <2> DEFINE q == queue[l]
  <2> HIDE DEF q, l
  <2>2. q \in Seq(Task)
    BY <2>1 DEF q
  <2>3. DOMAIN q = 1..Len(q) /\ Len(q) \in Nat
    BY <2>2, LenProperties
  <2>4. /\ Append(q, t) \in Seq(Task) /\ Len(Append(q, t)) = Len(q) + 1
        /\ \A i \in 1..Len(q) : Append(q, t)[i] = q[i]
        /\ Append(q, t)[Len(q) + 1] = t
    BY <2>2, AppendProperties
  <2>5. DOMAIN Append(q, t) = 1..Len(q) + 1
    BY <2>4, LenProperties
  <2>6. QED BY <2>3, <2>4, <2>5 DEF q
<1>5. \A i \in DOMAIN queue[l] : queue[l][i] # t
  BY <1>1 DEF Enqueue, Waiting, ToSet
<1>6. UNCHANGED todo
  BY DEF Enqueue
<1> HIDE DEF l
<1>7. ASSUME NEW m \in Lock, NEW i \in DOMAIN queue'[m]
      PROVE  /\ Asks(todo'[queue'[m][i]], m)
             /\ \A j \in DOMAIN queue'[m] : queue'[m][i] = queue'[m][j] => i = j
  <2>1. CASE m # l
    <3>1. queue'[m] = queue[m]
      BY <1>3, <2>1 DEF LockInv
    <3>2. \A j, k \in DOMAIN queue[m] : queue[m][j] = queue[m][k] => j = k
      BY DEF LockInv, QueueInv
    <3>3. QED BY <1>6, <1>7, <3>1, <3>2, Asking
  <2>2. CASE m = l
    <3>1. queue'[m] = Append(queue[l], t)
      BY <1>1, <1>3, <2>2 DEF LockInv
    <3>2. \A j \in DOMAIN queue'[m] :
            \/ j \in DOMAIN queue[l] /\ queue'[m][j] = queue[l][j]
            \/ j = Len(queue[l]) + 1 /\ queue'[m][j] = t
      BY <1>4, <3>1
    <3>3. \A j, k \in DOMAIN queue[l] : queue[l][j] = queue[l][k] => j = k
      BY <1>1 DEF LockInv, QueueInv
    <3>4. \A j \in DOMAIN queue[l] : Asks(todo[queue[l][j]], l)
      BY <1>1, Asking
    <3>5. \A j \in DOMAIN queue'[m] : queue'[m][i] = queue'[m][j] => i = j
      BY <1>5, <3>2, <3>3
    <3>6. Asks(todo[t], l)
      BY <1>1 DEF Asks, Acquires, l
    <3>7. Asks(todo'[queue'[m][i]], m)
      BY <1>6, <1>7, <2>2, <3>2, <3>4, <3>6
    <3>8. QED BY <3>5, <3>7
  <2>3. QED BY <2>1, <2>2
<1>8. queue'["config"] = <<>> /\ queue' \in [Lock -> Seq(Task)]
  BY <1>1, <1>3, <1>4 DEF LockInv, QueueInv
<1>9. QueueInv'
  BY <1>7, <1>8 DEF QueueInv, Asks, Acquires
<1>10. QED BY <1>2, <1>8, <1>9 DEF LockInv

LEMMA GrantKeeps ==
  ASSUME LockInv, NEW l \in Lock, Grant(l)
  PROVE  LockInv'
<1> DEFINE t == Head(queue[l])
           rest == Tail(queue[l])
<1>1. /\ queue[l] \in Seq(Task) /\ queue[l] # <<>> /\ Len(queue[l]) \in Nat
      /\ DOMAIN queue[l] = 1..Len(queue[l]) /\ 1 \in DOMAIN queue[l]
      /\ t = queue[l][1]
      /\ rest \in Seq(Task)
      /\ \A i \in DOMAIN rest : i + 1 \in DOMAIN queue[l] /\ i + 1 # 1 /\ rest[i] = queue[l][i + 1]
      /\ DOMAIN rest \subseteq Nat
  BY HeadTailProperties, LenProperties, EmptySeq DEF LockInv, Grant
<1>2. t \in Task /\ Acquires(t) /\ Head(todo[t]).lock = l /\ l # "config"
  BY <1>1, Asking
<1>3. TasksInv'
  BY <1>2, Taken DEF LockInv, Grant
<1>4. queue' = [queue EXCEPT ![l] = rest] /\ todo' = [todo EXCEPT ![t] = Tail(todo[t])]
  BY DEF Grant, Take
<1> HIDE DEF t, rest
<1>5. ASSUME NEW m \in Lock, NEW i \in DOMAIN queue'[m]
      PROVE  /\ Asks(todo'[queue'[m][i]], m)
             /\ \A j \in DOMAIN queue'[m] : queue'[m][i] = queue'[m][j] => i = j
  <2>1. \A u \in Task : u # t => todo'[u] = todo[u]
    BY <1>4 DEF LockInv, TasksInv
  <2>2. \A j, k \in DOMAIN queue[m] : queue[m][j] = queue[m][k] => j = k
    BY DEF LockInv, QueueInv
  <2>3. CASE m # l
    <3>1. queue'[m] = queue[m]
      BY <1>4, <2>3 DEF LockInv
    <3>2. /\ queue[m][i] \in Task /\ Asks(todo[queue[m][i]], m)
          /\ Head(todo[queue[m][i]]).lock = m
      BY <1>5, <3>1, Asking
    <3>3. queue[m][i] # t
      BY <1>2, <2>3, <3>2
    <3>4. QED BY <2>1, <2>2, <3>1, <3>2, <3>3
  <2>4. CASE m = l
    <3>1. queue'[m] = rest
      BY <1>4, <2>4 DEF LockInv
    <3>2. i + 1 \in DOMAIN queue[l] /\ i + 1 # 1 /\ rest[i] = queue[l][i + 1]
      BY <1>1, <1>5, <3>1
    <3>3. /\ rest[i] \in Task /\ Asks(todo[rest[i]], l)
      BY <3>2, Asking
    <3>4. rest[i] # t
      BY <1>1, <2>2, <2>4, <3>2
    <3>5. ASSUME NEW j \in DOMAIN rest, rest[i] = rest[j] PROVE i = j
      <4>1. i \in Nat /\ j \in Nat
        BY <1>1, <1>5, <3>1
      <4>2. i + 1 = j + 1
        BY <1>1, <2>2, <2>4, <3>2, <3>5
      <4>3. QED BY <4>1, <4>2
    <3>6. QED BY <2>1, <2>4, <3>1, <3>3, <3>4, <3>5
  <2>5. QED BY <2>3, <2>4
<1>6. queue'["config"] = <<>> /\ queue' \in [Lock -> Seq(Task)]
  BY <1>1, <1>2, <1>4 DEF LockInv, QueueInv
<1>7. QueueInv'
  BY <1>5, <1>6 DEF QueueInv, Asks, Acquires
<1>8. QED BY <1>3, <1>6, <1>7 DEF LockInv

LEMMA ReleaseKeeps ==
  ASSUME LockInv, NEW t \in Task, Release(t)
  PROVE  LockInv'
<1>1. TasksInv'
  BY FirstLeft, GoneOn DEF LockInv, Release
<1>2. \A l \in Lock : \A i \in DOMAIN queue[l] : queue[l][i] # t
  BY Asking DEF Release, Acquires
<1>3. QueueInv'
  BY <1>2, QueuesKept DEF LockInv, Release
<1>4. QED BY <1>1, <1>3 DEF LockInv, Release

\* The discipline and the queues, for any of the tasks.
THEOREM LockInvCorrect ==
  ASSUME Reconfigure = FALSE
  PROVE  Spec => []LockInv
<1>1. ASSUME LockInv, [Next]_vars PROVE LockInv'
  <2>1. CASE UNCHANGED vars
    BY <1>1, <2>1 DEF vars, LockInv, TasksInv, QueueInv, Acquires
  <2>2. CASE Next
    BY <1>1, <2>2, BeginKeeps, AcquireKeeps, EnqueueKeeps, GrantKeeps, ReleaseKeeps
    DEF Next, Step
  <2>3. QED BY <1>1, <2>1, <2>2
<1>2. QED BY <1>1, LockInit, PTL DEF Spec

\* Every request is within the discipline.
LEMMA RequestsDisciplined == LockInv => Disciplined
BY FirstLeft DEF LockInv, Disciplined, Acquires

-----------------------------------------------------------------------------
(* No deadlock                                                             *)

\* Of the tasks of a set that wait in one queue, one is not behind another.
LEMMA FirstOfThem ==
  ASSUME LockInv, NEW S, NEW l \in Lock, NEW t \in S, t \in ToSet(queue[l])
  PROVE  \E i \in DOMAIN queue[l] :
           /\ queue[l][i] \in S
           /\ \A u \in ToSet(SubSeq(queue[l], 1, i - 1)) : u \notin S
<1>1. queue[l] \in Seq(Task) /\ DOMAIN queue[l] = 1..Len(queue[l]) /\ Len(queue[l]) \in Nat
  BY LenProperties DEF LockInv
<1> DEFINE places == {i \in DOMAIN queue[l] : queue[l][i] \in S}
<1>2. places \in SUBSET Nat /\ places # {}
  BY <1>1 DEF ToSet
<1>3. PICK i \in places : \A j \in places : i <= j
  BY <1>2, Least
<1>4. ASSUME NEW u \in ToSet(SubSeq(queue[l], 1, i - 1)) PROVE u \notin S
  <2>1. i \in 1..Len(queue[l]) /\ i - 1 \in Nat /\ i - 1 <= Len(queue[l])
    BY <1>1, <1>3
  <2>2. SubSeq(queue[l], 1, i - 1) = [j \in 1..i - 1 |-> queue[l][j]]
    BY <1>1, <2>1
  <2>3. PICK j \in 1..i - 1 : u = queue[l][j]
    BY <1>4, <2>2 DEF ToSet
  <2>4. j \in DOMAIN queue[l] /\ ~(i <= j)
    BY <1>1, <2>1
  <2>5. QED BY <1>3, <2>3, <2>4
<1>5. QED BY <1>3, <1>4

\* A set of tasks of which each waits for another one of them.
Circle(S) ==
  /\ S \subseteq {t \in Task : Waiting(t)}
  /\ \A t \in S : \E u \in S : WaitsFor(t, u)

\* One of the circle holds each lock for which one of the circle waits: whoever comes
\* first in the queue waits for a guard.
LEMMA HeldInCircle ==
  ASSUME LockInv, NEW S, Circle(S), NEW l \in Lock, NEW t \in S, t \in ToSet(queue[l])
  PROVE  \E first, u \in S :
           /\ Asks(todo[first], l)
           /\ u \in Guards(l, IF Head(todo[first]).kind = "read" THEN {"write"}
                                                              ELSE {"read", "write"})
<1>1. PICK i \in DOMAIN queue[l] :
        /\ queue[l][i] \in S
        /\ \A u \in ToSet(SubSeq(queue[l], 1, i - 1)) : u \notin S
  BY FirstOfThem
<1> DEFINE first == queue[l][i]
<1>2. Asks(todo[first], l)
  BY Asking
<1>3. PICK u \in S : WaitsFor(first, u)
  BY <1>1 DEF Circle
<1>4. PICK m \in Lock : \E j \in DOMAIN queue[m] :
        /\ queue[m][j] = first
        /\ \/ u \in ToSet(SubSeq(queue[m], 1, j - 1))
           \/ u \in Guards(m, IF Head(todo[first]).kind = "read" THEN {"write"}
                                                              ELSE {"read", "write"})
  BY <1>3 DEF WaitsFor
<1>5. m = l
  <2>1. PICK j \in DOMAIN queue[m] : queue[m][j] = first
    BY <1>4
  <2>2. Asks(todo[first], m)
    BY <2>1, Asking
  <2>3. QED BY <1>2, <2>2 DEF Asks
<1>6. \A j \in DOMAIN queue[l] : queue[l][j] = first => j = i
  BY DEF LockInv, QueueInv
<1>7. QED BY <1>1, <1>2, <1>4, <1>5, <1>6

\* A task of the circle that holds a lock other than the configuration is main, which
\* waits for a third lock, or telegram, which looks at the window.
LEMMA HoldersOfCircle ==
  ASSUME LockInv, NEW S, Circle(S), NEW l \in Lock, l # "config",
         NEW kinds, NEW u \in S, u \in Guards(l, kinds)
  PROVE  /\ "read" \in kinds
         /\ \/ /\ u = "main"
               /\ \E m \in Lock \ {l, "window"} : Asks(todo[u], m) /\ u \in ToSet(queue[m])
            \/ /\ u = "telegram" /\ l = "btc"
               /\ Head(todo[u]) = Read("window")
               /\ u \in ToSet(queue["window"])
<1>1. PICK m \in Lock : u \in ToSet(queue[m])
  BY DEF Circle, Waiting
<1>2. PICK j \in DOMAIN queue[m] : queue[m][j] = u
  BY <1>1 DEF ToSet
<1>3. u \in Task /\ Asks(todo[u], m) /\ Acquires(u)
  BY <1>2, Asking
<1>4. MayAsk(u, held[u], Head(todo[u]))
  BY <1>3, RequestsDisciplined DEF Disciplined
<1>5. PICK i \in DOMAIN held[u] : held[u][i].lock = l /\ held[u][i].kind \in kinds
  BY DEF Guards
<1>6. MayKeep(u, held[u][i], Head(todo[u]))
  BY <1>4 DEF MayAsk
<1>7. Head(todo[u]).lock = m /\ Read("window").lock = "window"
  BY <1>3 DEF Asks, Read
<1>8. QED BY <1>1, <1>3, <1>5, <1>6, <1>7 DEF MayKeep

\* Telegram holds nothing another one waits for while it waits itself: what it looks
\* at is only written by main, which would have to ask for it.
LEMMA TelegramOutside ==
  ASSUME LockInv, NEW S, Circle(S), NEW l \in Lock, l # "config", NEW kinds,
         "telegram" \in S
  PROVE  "telegram" \notin Guards(l, kinds)
<1> SUFFICES ASSUME "telegram" \in Guards(l, kinds) PROVE FALSE
  OBVIOUS
<1>1. Head(todo["telegram"]) = Read("window") /\ "telegram" \in ToSet(queue["window"])
  BY HoldersOfCircle
<1>2. "window" \in Lock
  BY DEF Lock
<1>3. PICK first \in S, u \in S :
        /\ Asks(todo[first], "window")
        /\ u \in Guards("window", IF Head(todo[first]).kind = "read" THEN {"write"}
                                                                 ELSE {"read", "write"})
  BY <1>1, <1>2, HeldInCircle
<1>4. first \in Task /\ Acquires(first)
  BY <1>3 DEF Asks, Acquires, Circle
<1>5. first \in {"main", "telegram"}
  BY <1>3, <1>4, RequestsDisciplined DEF Disciplined, MayAsk, Asks
<1>6. Head(todo[first]).kind # "read"
  BY <1>2, <1>3, HoldersOfCircle
<1>7. first = "main"
  BY <1>1, <1>5, <1>6 DEF Read
<1>8. u = "main" /\ \E m \in Lock \ {"window"} : Asks(todo[u], m)
  BY <1>2, <1>3, HoldersOfCircle
<1>9. QED BY <1>3, <1>7, <1>8 DEF Asks

\* Nor does main, because nobody else of the circle holds what it waits for.
LEMMA MainOutside ==
  ASSUME LockInv, NEW S, Circle(S), NEW l \in Lock, l # "config", NEW kinds, "main" \in S
  PROVE  "main" \notin Guards(l, kinds)
<1> SUFFICES ASSUME "main" \in Guards(l, kinds) PROVE FALSE
  OBVIOUS
<1>1. PICK m \in Lock \ {l, "window"} :
        Asks(todo["main"], m) /\ "main" \in ToSet(queue[m])
  BY HoldersOfCircle
<1>2. m # "config"
  BY <1>1, Asking DEF ToSet
<1>3. PICK u \in S : \E ks : u \in Guards(m, ks)
  BY <1>1, HeldInCircle
<1>4. u # "telegram"
  BY <1>1, <1>2, <1>3, TelegramOutside
<1>5. u = "main" /\ \E k \in Lock \ {m, "window"} : Asks(todo[u], k)
  BY <1>1, <1>2, <1>3, <1>4, HoldersOfCircle
<1>6. QED BY <1>1, <1>5 DEF Asks

\* While nobody reconfigures, the tasks never wait for each other in a circle,
\* whichever of them run (main.rs, telegram.rs, and the feeds).
THEOREM NoDeadlockCorrect ==
  ASSUME Reconfigure = FALSE
  PROVE  Spec => []NoDeadlock
<1>1. ASSUME LockInv PROVE NoDeadlock
  <2>1. SUFFICES ASSUME NEW S \in SUBSET {t \in Task : Waiting(t)}, NEW t \in S,
                        \A x \in S : \E u \in S : WaitsFor(x, u)
                 PROVE  FALSE
    BY DEF NoDeadlock
  <2>2. Circle(S)
    BY <2>1 DEF Circle
  <2>3. PICK l \in Lock : t \in ToSet(queue[l])
    BY DEF Waiting
  <2>4. l # "config"
    BY <1>1, <2>3, Asking DEF ToSet
  <2>5. PICK u \in S : \E kinds : u \in Guards(l, kinds)
    BY <1>1, <2>2, <2>3, HeldInCircle
  <2>6. u \in {"main", "telegram"}
    BY <1>1, <2>2, <2>4, <2>5, HoldersOfCircle
  <2>7. QED BY <1>1, <2>2, <2>4, <2>5, <2>6, MainOutside, TelegramOutside
<1>2. QED BY <1>1, LockInvCorrect, PTL

-----------------------------------------------------------------------------
(* The channels: sequences                                                 *)

LEMMA ElementsOfAppend ==
  ASSUME NEW s \in Seq(Nat), NEW e \in Nat
  PROVE  /\ Append(s, e) \in Seq(Nat)
         /\ Len(Append(s, e)) = Len(s) + 1
         /\ \A i \in DOMAIN Append(s, e) :
              \/ i \in DOMAIN s /\ Append(s, e)[i] = s[i]
              \/ i = Len(s) + 1 /\ Append(s, e)[i] = e
         /\ ToSet(Append(s, e)) = ToSet(s) \cup {e}
<1> DEFINE t == Append(s, e)
<1>1. /\ t \in Seq(Nat) /\ Len(t) = Len(s) + 1
      /\ \A i \in 1..Len(s) : t[i] = s[i]
      /\ t[Len(s) + 1] = e
  BY AppendProperties
<1>2. DOMAIN t = 1..Len(s) + 1 /\ DOMAIN s = 1..Len(s) /\ Len(s) \in Nat
  BY <1>1
<1> HIDE DEF t
<1>3. ToSet(t) = ToSet(s) \cup {e}
  BY <1>1, <1>2 DEF ToSet
<1>4. \A i \in DOMAIN t : (i \in DOMAIN s /\ t[i] = s[i]) \/ (i = Len(s) + 1 /\ t[i] = e)
  <2>1. \A i \in 1..Len(s) + 1 : i \in 1..Len(s) \/ i = Len(s) + 1
    BY <1>2
  <2>2. QED BY <1>1, <1>2, <2>1
<1>5. QED BY <1>1, <1>3, <1>4 DEF t

LEMMA ElementsOfTail ==
  ASSUME NEW s \in Seq(Nat), s # <<>>
  PROVE  /\ Tail(s) \in Seq(Nat) /\ Head(s) \in Nat
         /\ 1 \in DOMAIN s /\ Head(s) = s[1] /\ Head(s) \in ToSet(s)
         /\ \A i \in DOMAIN Tail(s) : i \in Nat \ {0} /\ i + 1 \in DOMAIN s /\ Tail(s)[i] = s[i + 1]
         /\ ToSet(Tail(s)) \subseteq ToSet(s)
<1> DEFINE t == Tail(s)
<1>1. /\ t \in Seq(Nat) /\ Head(s) \in Nat /\ Len(t) = Len(s) - 1
      /\ \A i \in 1..Len(t) : t[i] = s[i + 1]
  BY HeadTailProperties
<1>2. DOMAIN t = 1..Len(t) /\ DOMAIN s = 1..Len(s) /\ Len(s) \in Nat \ {0} /\ Head(s) = s[1]
  BY <1>1
<1> HIDE DEF t
<1>3. \A i \in DOMAIN t : i \in Nat \ {0} /\ i + 1 \in DOMAIN s /\ t[i] = s[i + 1]
  <2>1. \A i \in 1..Len(t) : i \in Nat \ {0} /\ i + 1 \in 1..Len(s)
    BY <1>1, <1>2
  <2>2. QED BY <1>1, <1>2, <2>1
<1>4. ToSet(t) \subseteq ToSet(s)
  BY <1>3 DEF ToSet
<1>5. 1 \in DOMAIN s /\ Head(s) \in ToSet(s)
  BY <1>2 DEF ToSet
<1>6. QED BY <1>1, <1>2, <1>3, <1>4, <1>5 DEF t

\* So many different numbers do not fit between a and b.
LEMMA TooMany ==
  ASSUME NEW s \in Seq(Nat), NEW e \in Nat, NEW a \in Int, NEW b \in Int, a <= b + 1,
         \A i, j \in DOMAIN s : s[i] = s[j] => i = j,
         e \notin ToSet(s), ToSet(s) \cup {e} \subseteq a..b
  PROVE  Len(s) <= b - a
<1> SUFFICES ASSUME Len(s) > b - a PROVE FALSE
  OBVIOUS
<1> DEFINE S == 1..Len(s) + 1
           f == [i \in S |-> IF i <= Len(s) THEN s[i] ELSE e]
<1>1. IsFiniteSet(S) /\ Cardinality(S) = Len(s) + 1
  <2>1. Len(s) \in Nat
    OBVIOUS
  <2>2. QED BY <2>1, FS_Interval
<1>2. IsFiniteSet(a..b) /\ Cardinality(a..b) = b - a + 1
  BY FS_Interval
<1>3. DOMAIN s = 1..Len(s) /\ Len(s) \in Nat
  OBVIOUS
<1>4. f \in [S -> a..b]
  <2>1. ASSUME NEW i \in S, i <= Len(s) PROVE s[i] \in a..b
    <3>1. s[i] \in ToSet(s)
      BY <1>3, <2>1 DEF ToSet
    <3>2. QED BY <3>1
  <2>2. QED BY <2>1
<1>5. Cardinality(a..b) < Cardinality(S)
  BY <1>1, <1>2, <1>3
<1>6. PICK i, j \in S : i # j /\ f[i] = f[j]
  <2> HIDE DEF S, f
  <2>1. QED BY <1>1, <1>2, <1>4, <1>5, FS_PigeonHole
<1>7. ASSUME NEW k \in S, k > Len(s) PROVE f[k] = e /\ k = Len(s) + 1
  <2>1. k \in Nat /\ Len(s) \in Nat /\ k <= Len(s) + 1
    BY <1>3
  <2>2. ~ (k <= Len(s)) /\ k = Len(s) + 1
    BY <1>7, <2>1
  <2>3. QED BY <2>2
<1>8. ASSUME NEW k \in S, k <= Len(s) PROVE k \in DOMAIN s /\ f[k] = s[k] /\ f[k] # e
  <2>1. k \in DOMAIN s /\ f[k] = s[k]
    BY <1>3, <1>8
  <2>2. QED BY <2>1 DEF ToSet
<1>9. i \in Nat /\ j \in Nat /\ Len(s) \in Nat
  BY <1>3
<1> HIDE DEF S, f
<1>10. i <= Len(s) /\ j <= Len(s)
  <2>1. ~ (i > Len(s) /\ j > Len(s))
    BY <1>6, <1>7
  <2>2. ~ (i > Len(s) /\ j <= Len(s))
    BY <1>6, <1>7, <1>8
  <2>3. ~ (i <= Len(s) /\ j > Len(s))
    BY <1>6, <1>7, <1>8
  <2>4. QED BY <1>9, <2>1, <2>2, <2>3
<1>11. QED BY <1>6, <1>8, <1>10

-----------------------------------------------------------------------------
(* The channels: what bounds the resolutions that come between two drains  *)

LEMMA PhasesAre == ToSet(Phases) = {"early", "entry", "late"}
<1>1. DOMAIN Phases = 1..3 /\ Phases[1] = "early" /\ Phases[2] = "entry" /\ Phases[3] = "late"
  BY DEF Phases
<1>2. QED BY <1>1 DEF ToSet

LEMMA ChannelsInitInv == ChannelsInit => OrderInv /\ Recent
<1> SUFFICES ASSUME ChannelsInit PROVE OrderInv /\ Recent
  OBVIOUS
<1> USE DEF ChannelsInit
<1>1. ToSet(<<>>) = {} /\ DOMAIN <<>> = {} /\ <<>> \in Seq(Nat)
  BY DEF ToSet
<1>2. ChannelsTypeOK
  <2>1. {phase, seen} \subseteq ToSet(Phases)
    BY PhasesAre
  <2>2. {tradable, entered, paused, priceable, connected} \subseteq BOOLEAN
    OBVIOUS
  <2>3. {attempts, orders} \subseteq Nat /\ window \in Nat
    OBVIOUS
  <2>4. {commands, results} \subseteq Seq(Nat)
    BY <1>1
  <2>5. {subscribed, frame, told} \subseteq SUBSET Nat
    OBVIOUS
  <2>6. QED BY <2>1, <2>2, <2>3, <2>4, <2>5 DEF ChannelsTypeOK
<1>3. Known = {} /\ Pending = {}
  BY <1>1 DEF Known, Pending
<1>4. InOrder
  BY <1>1, <1>3 DEF InOrder
<1>5. ToldOnce
  BY <1>1, <1>3 DEF ToldOnce
<1>6. Recent
  BY <1>3 DEF Recent
<1>7. QED BY <1>2, <1>4, <1>5, <1>6 DEF OrderInv

\* The numbers the bounds are made of.
LEMMA Numbers ==
  ASSUME OrderInv
  PROVE  /\ window \in Nat /\ Lag \in Nat /\ ResolutionRoom \in Nat /\ None \notin Nat
         /\ \A x \in Pending : x \in Nat /\ cur \in Nat /\ x <= cur /\ cur <= window
         /\ Pending \subseteq Nat /\ frame \subseteq Pending /\ Pending \subseteq Known
         /\ Known \subseteq Nat /\ ToSet(commands) \subseteq Nat
<1>1. /\ window \in Nat /\ cur \in Nat \cup {None} /\ subscribed \subseteq Nat
      /\ frame \subseteq Nat /\ tokens \in Nat \cup {None}
      /\ commands \in Seq(Nat) /\ results \in Seq(Nat)
  BY DEF OrderInv, ChannelsTypeOK
<1>2. ToSet(results) \subseteq Nat /\ ToSet(commands) \subseteq Nat
  BY <1>1 DEF ToSet
<1>3. Lag \in Nat /\ ResolutionRoom \in Nat /\ None \notin Nat
  BY ChannelsAssumption
<1>4. Pending \subseteq Nat /\ frame \subseteq Pending /\ Pending \subseteq Known /\ Known \subseteq Nat
  BY <1>1, <1>2 DEF Pending, Known
<1>5. \A x \in Pending : cur \in Nat /\ x <= cur /\ cur <= window
  BY <1>1, <1>4 DEF OrderInv, InOrder
<1>6. QED BY <1>1, <1>2, <1>3, <1>4, <1>5

\* What is pending stays so, and nothing is said of the commands and the connection,
\* when the main loop goes on.
LEMMA TopKeeps ==
  ASSUME OrderInv, NEW found \in BOOLEAN, Top(found)
  PROVE  OrderInv' /\ (Recent => Recent')
<1>1. UNCHANGED <<clock, operator, commands, results, task>> /\ pc = "top" /\ cur' = window
  BY DEF Top
<1>2. /\ UNCHANGED <<window, phase, priceable, orders, commands, results>>
      /\ UNCHANGED <<connected, subscribed, tokens, frame, told>>
  BY <1>1 DEF clock, operator, task
<1>3. Pending' = Pending /\ Known' = Known
  BY <1>2 DEF Pending, Known
<1>4. ChannelsTypeOK'
  <2>1. pc' \in {"send", "evaluate"} /\ seen' = phase
    BY DEF Top
  <2>2. {tradable', entered', paused'} \subseteq BOOLEAN /\ attempts' \in Nat
    <3>1. {tradable, entered, paused} \subseteq BOOLEAN /\ attempts \in Nat
      BY DEF OrderInv, ChannelsTypeOK
    <3>2. CASE UNCHANGED gates
      BY <3>1, <3>2 DEF gates
    <3>3. CASE tradable' = FALSE /\ entered' = FALSE /\ attempts' = 0 /\ paused' = paused
      BY <3>1, <3>3
    <3>4. QED BY <3>2, <3>3 DEF Top
  <2>3. QED BY <1>1, <1>2, <2>1, <2>2, ChannelsAssumption DEF OrderInv, ChannelsTypeOK
<1>5. InOrder'
  <2>1. window \in Nat /\ cur \in Nat \cup {None} /\ None \notin Nat
    BY Numbers DEF OrderInv, ChannelsTypeOK
  <2>2. \A x \in Known \cup ToSet(commands) : x \in Nat /\ cur \in Nat /\ x <= cur /\ cur <= window
    BY <2>1, Numbers DEF OrderInv, InOrder
  <2>3. pc' = "send" => cur # window
    BY DEF Top
  <2>4. \A x \in Known \cup ToSet(commands) : x <= window /\ (pc' = "send" => x < window)
    BY <2>1, <2>2, <2>3
  <2>5. QED BY <1>1, <1>2, <1>3, <2>1, <2>4 DEF OrderInv, InOrder
<1>6. ToldOnce'
  BY <1>2, <1>3 DEF OrderInv, ToldOnce
<1>7. ASSUME Recent PROVE Recent'
  <2>1. \A x \in Pending : x >= IF cur = window THEN window - Lag ELSE window - 1 - Lag
    BY <1>7, <1>1 DEF OrderInv, Recent, Undrained
  <2>2. CASE cur = window
    <3>1. \A x \in Pending : x >= window - Lag
      BY <2>1, <2>2
    <3>2. \A x \in Pending : x >= window - Lag /\ x >= window - 1 - Lag
      BY <3>1, Numbers
    <3>3. QED BY <1>7, <1>1, <1>2, <1>3, <3>2 DEF OrderInv, Recent
  <2>3. CASE cur # window
    <3>1. \A x \in Pending : x >= window - 1 - Lag
      BY <2>1, <2>3
    <3>2. ~Undrained'
      BY <2>3 DEF Top, Undrained
    <3>3. QED BY <1>7, <1>1, <1>2, <1>3, <3>1, <3>2 DEF OrderInv, Recent
  <2>4. QED BY <2>2, <2>3
<1>8. QED BY <1>4, <1>5, <1>6, <1>7 DEF OrderInv

\* A step of the main loop that neither sends nor takes.
LEMMA GoingOn ==
  ASSUME OrderInv, UNCHANGED <<window, cur, commands, results>>,
         UNCHANGED <<connected, subscribed, tokens, frame, told>>,
         pc' = "send" => pc = "send"
  PROVE  InOrder' /\ ToldOnce' /\ Pending' = Pending
<1>1. Pending' = Pending /\ Known' = Known
  BY DEF Pending, Known
<1>2. InOrder'
  BY <1>1 DEF OrderInv, InOrder
<1>3. ToldOnce'
  BY <1>1 DEF OrderInv, ToldOnce
<1>4. QED BY <1>1, <1>2, <1>3

\* What is pending on the way to an attempt is recent enough to be so at a drain.
LEMMA RecentEnough ==
  ASSUME OrderInv, Recent
  PROVE  \A x \in Pending : x >= cur - 1 - Lag
<1> SUFFICES ASSUME NEW x \in Pending PROVE x >= cur - 1 - Lag
  OBVIOUS
<1>1. x \in Nat /\ cur \in Nat /\ cur <= window /\ window \in Nat /\ Lag \in Nat
  BY Numbers
<1>2. x >= window - Lag \/ x >= window - 1 - Lag \/ x >= cur - 1 - Lag
  BY DEF OrderInv, Recent
<1>3. QED BY <1>1, <1>2

LEMMA SendKeeps ==
  ASSUME OrderInv, SendCommand
  PROVE  OrderInv' /\ (Recent => Recent')
<1>1. /\ pc = "send" /\ commands' = Append(commands, cur) /\ pc' = "evaluate"
      /\ tradable' = (seen = "early")
      /\ UNCHANGED <<cur, seen, entered, paused, attempts, results>>
  BY DEF SendCommand
<1>2. /\ UNCHANGED <<window, phase, priceable, orders>>
      /\ UNCHANGED <<connected, subscribed, tokens, frame, told>>
  BY DEF SendCommand, clock, operator, task
<1>3. Pending' = Pending /\ Known' = Known
  BY <1>1, <1>2 DEF Pending, Known
<1>4. commands \in Seq(Nat) /\ cur \in Nat /\ window \in Nat /\ cur <= window
  BY <1>1, ChannelsAssumption DEF OrderInv, ChannelsTypeOK, InOrder
<1>5. /\ commands' \in Seq(Nat) /\ ToSet(commands') = ToSet(commands) \cup {cur}
      /\ \A i \in DOMAIN commands' :
           \/ i \in DOMAIN commands /\ commands'[i] = commands[i]
           \/ i = Len(commands) + 1 /\ commands'[i] = cur
  BY <1>1, <1>4, ElementsOfAppend
<1>6. \A x \in Known \cup ToSet(commands) : x \in Nat /\ x < cur
  BY <1>1, Numbers DEF OrderInv, InOrder
<1>7. ChannelsTypeOK'
  <2>1. {tradable', entered', paused', priceable', connected'} \subseteq BOOLEAN
    BY <1>1, <1>2 DEF OrderInv, ChannelsTypeOK
  <2>2. {commands', results'} \subseteq Seq(Nat)
    BY <1>1, <1>5 DEF OrderInv, ChannelsTypeOK
  <2>3. {subscribed', frame', told'} \subseteq SUBSET Nat
    BY <1>2 DEF OrderInv, ChannelsTypeOK
  <2>4. cur' # None
    BY <1>1, <1>4, ChannelsAssumption
  <2>5. QED BY <1>1, <1>2, <2>1, <2>2, <2>3, <2>4 DEF OrderInv, ChannelsTypeOK
<1>8. InOrder'
  <2>1. \A x \in Known' \cup ToSet(commands') : cur' # None /\ x <= cur'
    BY <1>1, <1>3, <1>4, <1>5, <1>6, ChannelsAssumption
  <2>2. \A i \in DOMAIN commands' : \A x \in Known' : x < commands'[i]
    BY <1>3, <1>5, <1>6 DEF OrderInv, InOrder
  <2>3. \A i \in DOMAIN commands' : \A j \in 1..i - 1 : commands'[j] < commands'[i]
    <3>1. SUFFICES ASSUME NEW i \in DOMAIN commands', NEW j \in 1..i - 1
                   PROVE  commands'[j] < commands'[i]
      OBVIOUS
    <3>2. DOMAIN commands = 1..Len(commands) /\ Len(commands) \in Nat
      BY <1>4
    <3>3. i \in 1..Len(commands) + 1 /\ j \in DOMAIN commands /\ j # Len(commands) + 1
      BY <1>5, <3>1, <3>2
    <3>4. j \in DOMAIN commands'
      BY <1>1, <1>4, <3>2, <3>3, ElementsOfAppend
    <3>5. commands'[j] = commands[j]
      BY <1>5, <3>3, <3>4
    <3>6. CASE i \in DOMAIN commands /\ commands'[i] = commands[i]
      BY <3>1, <3>5, <3>6 DEF OrderInv, InOrder
    <3>7. CASE commands'[i] = cur
      BY <1>6, <3>3, <3>5, <3>7 DEF ToSet
    <3>8. QED BY <1>5, <3>6, <3>7
  <2>4. \A x \in Pending' : x < window'
    BY <1>2, <1>3 DEF OrderInv, InOrder
  <2>5. QED BY <1>1, <1>2, <1>4, <2>1, <2>2, <2>3, <2>4 DEF InOrder
<1>9. ToldOnce'
  BY <1>1, <1>2, <1>3 DEF OrderInv, ToldOnce
<1>10. ASSUME Recent PROVE Recent'
  <2>1. ~Undrained'
    BY <1>1 DEF Undrained
  <2>2. QED BY <1>10, <1>1, <1>2, <1>3, <2>1, RecentEnough DEF OrderInv, Recent
<1>11. QED BY <1>7, <1>8, <1>9, <1>10 DEF OrderInv

LEMMA DecideKeeps ==
  ASSUME OrderInv, NEW signal \in BOOLEAN, Decide(signal)
  PROVE  OrderInv' /\ (Recent => Recent')
<1>1. /\ pc = "evaluate"
      /\ signal => MaySignal
      /\ pc' = IF signal THEN "attempt" ELSE "drain"
      /\ UNCHANGED <<window, phase, cur, seen, commands, results>>
      /\ UNCHANGED <<connected, subscribed, tokens, frame, told>>
      /\ UNCHANGED <<tradable, entered, paused, attempts, priceable, orders>>
  BY DEF Decide, clock, gates, operator, task
<1>2. InOrder' /\ ToldOnce' /\ Pending' = Pending
  BY <1>1, GoingOn
<1>3. ChannelsTypeOK'
  BY <1>1 DEF OrderInv, ChannelsTypeOK
<1>4. ASSUME Recent PROVE Recent'
  <2>1. CASE signal
    <3>1. Undrained /\ Undrained'
      BY <1>1, <2>1 DEF Undrained, MaySignal
    <3>2. QED BY <1>4, <1>1, <1>2, <3>1 DEF OrderInv, Recent
  <2>2. CASE ~signal
    <3>1. ~Undrained'
      BY <1>1, <2>2 DEF Undrained
    <3>2. QED BY <1>4, <1>1, <1>2, <3>1, RecentEnough DEF OrderInv, Recent
  <2>3. QED BY <2>1, <2>2
<1>5. QED BY <1>2, <1>3, <1>4 DEF OrderInv

LEMMA AttemptKeeps ==
  ASSUME OrderInv, NEW outcome, NEW pausing, TakerBranch(outcome, pausing)
  PROVE  OrderInv' /\ (Recent => Recent')
<1>1. /\ pc = "attempt" /\ pc' = IF outcome = "filled" THEN "drain" ELSE "top"
      /\ UNCHANGED <<window, phase, cur, seen, commands, results>>
      /\ UNCHANGED <<connected, subscribed, tokens, frame, told>>
      /\ UNCHANGED <<tradable, priceable, orders>>
  BY DEF TakerBranch, clock, operator, task
<1>2. InOrder' /\ ToldOnce' /\ Pending' = Pending
  BY <1>1, GoingOn
<1>3. ChannelsTypeOK'
  <2>1. paused' \in BOOLEAN /\ entered' \in BOOLEAN
    <3>1. paused' = (paused \/ outcome \in pausing)
      BY DEF TakerBranch
    <3>2. entered' = (outcome \in {"unclear", "filled"})
      BY DEF TakerBranch
    <3>3. QED BY <3>1, <3>2
  <2>2. attempts' \in Nat
    <3>1. attempts \in Nat
      BY DEF OrderInv, ChannelsTypeOK
    <3>2. attempts' = attempts + IF outcome \in {"failed", "unclear"} THEN 1 ELSE 0
      BY DEF TakerBranch
    <3>3. QED BY <3>1, <3>2
  <2>3. QED BY <1>1, <2>1, <2>2 DEF OrderInv, ChannelsTypeOK
<1>4. ASSUME Recent PROVE Recent'
  <2>1. CASE outcome = "filled"
    <3>1. ~Undrained'
      BY <1>1, <2>1 DEF Undrained
    <3>2. QED BY <1>4, <1>1, <1>2, <3>1, RecentEnough DEF OrderInv, Recent
  <2>2. CASE outcome # "filled"
    <3>1. Undrained /\ Undrained'
      BY <1>1, <2>2 DEF Undrained
    <3>2. QED BY <1>4, <1>1, <1>2, <3>1 DEF OrderInv, Recent
  <2>3. QED BY <2>1, <2>2
<1>5. QED BY <1>2, <1>3, <1>4 DEF OrderInv

LEMMA DrainKeeps ==
  ASSUME OrderInv, NEW kill \in BOOLEAN, Drain(kill)
  PROVE  OrderInv' /\ (Recent => Recent')
<1>1. /\ pc = "drain"
      /\ UNCHANGED <<window, phase, cur, seen, commands, tradable, entered, attempts>>
      /\ UNCHANGED <<connected, subscribed, tokens, frame, told, priceable, orders>>
  BY DEF Drain, clock, operator, task
<1>2. results \in Seq(Nat) /\ paused \in BOOLEAN
  BY DEF OrderInv, ChannelsTypeOK
<1>3. CASE results = <<>>
  <2>1. pc' = "top" /\ UNCHANGED <<results, paused>>
    BY <1>3 DEF Drain
  <2>2. InOrder' /\ ToldOnce' /\ Pending' = Pending
    BY <1>1, <2>1, GoingOn
  <2>3. ChannelsTypeOK'
    BY <1>1, <2>1 DEF OrderInv, ChannelsTypeOK
  <2>4. Pending = frame
    <3>1. ToSet(results) = {}
      BY <1>3 DEF ToSet
    <3>2. QED BY <3>1 DEF Pending
  <2>5. ASSUME Recent PROVE Recent'
    <3>1. \A x \in Pending : x >= window - Lag /\ x >= window - 1 - Lag
      BY <2>4, <2>5, Numbers DEF Recent
    <3>2. Undrained'
      BY <2>1 DEF Undrained
    <3>3. QED BY <1>1, <2>2, <2>4, <3>1, <3>2 DEF Recent
  <2>6. QED BY <2>2, <2>3, <2>5 DEF OrderInv
<1>4. CASE results # <<>>
  <2>1. results' = Tail(results) /\ pc' = pc /\ paused' = (paused \/ kill)
    BY <1>4 DEF Drain
  <2>2. /\ results' \in Seq(Nat) /\ ToSet(results') \subseteq ToSet(results)
        /\ \A i \in DOMAIN results' :
             i \in Nat \ {0} /\ i + 1 \in DOMAIN results /\ results'[i] = results[i + 1]
    BY <1>2, <1>4, <2>1, ElementsOfTail
  <2>3. Pending' \subseteq Pending /\ Known' \subseteq Known
    BY <1>1, <2>2 DEF Pending, Known
  <2>4. ChannelsTypeOK'
    <3>1. paused' \in BOOLEAN
      BY <1>2, <2>1
    <3>2. QED BY <1>1, <2>1, <2>2, <3>1 DEF OrderInv, ChannelsTypeOK
  <2>5. InOrder'
    BY <1>1, <2>1, <2>3 DEF OrderInv, InOrder
  <2>6. ToldOnce'
    <3>1. \A x \in Pending' : x \in subscribed' \cup {tokens'} => x \in told'
      BY <1>1, <2>3 DEF OrderInv, ToldOnce
    <3>2. \A i \in DOMAIN results' : results'[i] \notin frame'
      BY <1>1, <2>2 DEF OrderInv, ToldOnce
    <3>3. \A i, j \in DOMAIN results' : results'[i] = results'[j] => i = j
      BY <2>2 DEF OrderInv, ToldOnce
    <3>4. QED BY <1>1, <3>1, <3>2, <3>3 DEF OrderInv, ToldOnce
  <2>7. ASSUME Recent PROVE Recent'
    <3>1. ~Undrained'
      BY <1>1, <2>1 DEF Undrained
    <3>2. QED BY <1>1, <2>3, <2>7, <3>1, RecentEnough DEF Recent
  <2>8. QED BY <2>4, <2>5, <2>6, <2>7 DEF OrderInv
<1>5. QED BY <1>3, <1>4

LEMMA OperatorKeeps ==
  ASSUME OrderInv, Operator
  PROVE  OrderInv' /\ (Recent => Recent')
<1>1. /\ UNCHANGED <<window, phase, pc, cur, seen, tradable, entered, attempts>>
      /\ UNCHANGED <<commands, results, connected, subscribed, tokens, frame, told>>
  BY DEF Operator, clock, iteration, task
<1>2. InOrder' /\ ToldOnce' /\ Pending' = Pending
  BY <1>1, GoingOn
<1>3. ChannelsTypeOK'
  <2>1. paused \in BOOLEAN /\ priceable \in BOOLEAN /\ orders \in Nat
    BY DEF OrderInv, ChannelsTypeOK
  <2>2. paused' \in BOOLEAN
    <3>1. CASE paused' = ~paused
      BY <3>1
    <3>2. CASE paused' = paused
      BY <2>1, <3>2
    <3>3. QED BY <3>1, <3>2 DEF Operator
  <2>3. priceable' \in BOOLEAN
    <3>1. CASE priceable' = ~priceable
      BY <3>1
    <3>2. CASE priceable' = priceable
      BY <2>1, <3>2
    <3>3. QED BY <3>1, <3>2 DEF Operator
  <2>4. orders' \in Nat
    <3>1. orders' = orders + 1
      BY DEF Operator
    <3>2. QED BY <2>1, <3>1
  <2>5. QED BY <1>1, <2>2, <2>3, <2>4 DEF OrderInv, ChannelsTypeOK
<1>4. ASSUME Recent PROVE Recent'
  <2>1. Undrained' <=> Undrained
    BY <1>1 DEF Undrained
  <2>2. QED BY <1>4, <1>1, <1>2, <2>1 DEF OrderInv, Recent
<1>5. QED BY <1>2, <1>3, <1>4 DEF OrderInv

\* Nothing that the CLOB task does moves the main loop: what is pending may grow by
\* what is recent.
LEMMA StillRecent ==
  ASSUME OrderInv, Recent, UNCHANGED <<window, pc, cur, seen, tradable>>,
         \A x \in Pending' : x \in Pending \/ (x \in Nat /\ x >= window - Lag /\ x \in Known),
         \A x \in frame' : x \in frame \/ x >= window - Lag
  PROVE  Recent'
<1>1. Undrained' <=> Undrained
  BY DEF Undrained
<1>2. ASSUME NEW x \in Nat, x >= window - Lag, x \in Known
      PROVE  x >= window - 1 - Lag /\ x >= cur - 1 - Lag
  <2>1. window \in Nat /\ Lag \in Nat /\ cur \in Nat /\ cur <= window
    BY <1>2, Numbers DEF OrderInv, ChannelsTypeOK, InOrder
  <2>2. QED BY <1>2, <2>1
<1>3. ASSUME NEW x \in Pending'
      PROVE  x >= IF Undrained /\ cur = window THEN window - Lag
                  ELSE IF Undrained THEN window - 1 - Lag
                  ELSE cur - 1 - Lag
  <2>1. CASE x \in Pending
    BY <2>1 DEF OrderInv, Recent
  <2>2. CASE x \in Nat /\ x >= window - Lag /\ x \in Known
    BY <1>2, <2>2
  <2>3. QED BY <1>3, <2>1, <2>2
<1>4. QED BY <1>1, <1>3 DEF OrderInv, Recent

LEMMA ConnectKeeps ==
  ASSUME OrderInv, NEW sent \in BOOLEAN, Connect(sent)
  PROVE  OrderInv' /\ (Recent => Recent')
<1>1. /\ ~connected /\ connected' = TRUE /\ subscribed' \subseteq {tokens} \ {None}
      /\ UNCHANGED <<commands, results, tokens, frame, told>>
      /\ UNCHANGED <<window, phase, pc, cur, seen, tradable, entered, paused, attempts,
                     priceable, orders>>
  BY DEF Connect, clock, iteration, gates, operator
<1>2. Pending' = Pending /\ Known' \subseteq Known
  BY <1>1 DEF Pending, Known
<1>3. ChannelsTypeOK'
  BY <1>1 DEF OrderInv, ChannelsTypeOK
<1>4. InOrder'
  BY <1>1, <1>2 DEF OrderInv, InOrder
<1>5. ToldOnce'
  BY <1>1, <1>2 DEF OrderInv, ToldOnce
<1>6. ASSUME Recent PROVE Recent'
  BY <1>6, <1>1, <1>2, StillRecent
<1>7. QED BY <1>3, <1>4, <1>5, <1>6 DEF OrderInv

LEMMA ReceiveKeeps ==
  ASSUME OrderInv, Receive
  PROVE  OrderInv' /\ (Recent => Recent')
<1>1. /\ connected /\ frame = {}
      /\ UNCHANGED <<commands, results, connected, subscribed, tokens>>
      /\ UNCHANGED <<window, phase, pc, cur, seen, tradable, entered, paused, attempts,
                     priceable, orders>>
  BY DEF Receive, Waits, clock, iteration, gates, operator
<1>2. PICK some \in SUBSET {w \in subscribed \ told : w < window /\ w >= window - Lag} :
        frame' = some /\ told' = told \cup some
  BY DEF Receive
<1>3. \A x \in frame' : /\ x \in Nat /\ x \in Known /\ x < window /\ x >= window - Lag
                        /\ x \in told' /\ x \notin told /\ x \in subscribed
  BY <1>2, Numbers DEF Known
<1>4. Pending' = Pending \cup frame' /\ Known' = Known
  BY <1>1, <1>3 DEF Pending, Known
<1>5. ChannelsTypeOK'
  BY <1>1, <1>2, <1>3 DEF OrderInv, ChannelsTypeOK
<1>6. InOrder'
  BY <1>1, <1>3, <1>4 DEF OrderInv, InOrder
<1>7. ToldOnce'
  <2>1. \A x \in Pending' : x \in subscribed' \cup {tokens'} => x \in told'
    BY <1>1, <1>2, <1>3, <1>4 DEF OrderInv, ToldOnce
  <2>2. \A i \in DOMAIN results : results[i] \in Pending
    BY DEF Pending, ToSet
  <2>3. \A i \in DOMAIN results' : results'[i] \notin frame'
    BY <1>1, <1>3, <2>2 DEF OrderInv, ToldOnce
  <2>4. QED BY <1>1, <2>1, <2>3 DEF OrderInv, ToldOnce
<1>8. ASSUME Recent PROVE Recent'
  BY <1>8, <1>1, <1>3, <1>4, StillRecent
<1>9. QED BY <1>5, <1>6, <1>7, <1>8 DEF OrderInv

LEMMA ForwardKeeps ==
  ASSUME OrderInv, Forward
  PROVE  OrderInv' /\ (Recent => Recent')
<1> DEFINE least == Min(frame)
<1>1. /\ frame # {} /\ results' = Append(results, least) /\ frame' = frame \ {least}
      /\ UNCHANGED <<commands, connected, subscribed, tokens, told>>
      /\ UNCHANGED <<window, phase, pc, cur, seen, tradable, entered, paused, attempts,
                     priceable, orders>>
  BY DEF Forward, clock, iteration, gates, operator
<1>2. results \in Seq(Nat) /\ frame \subseteq Nat
  BY DEF OrderInv, ChannelsTypeOK
<1>3. least \in frame
  <2>1. \E x \in frame : \A y \in frame : x <= y
    BY <1>1, <1>2, Least
  <2>2. QED BY <2>1 DEF Min
<1> HIDE DEF least
<1>4. /\ results' \in Seq(Nat) /\ ToSet(results') = ToSet(results) \cup {least}
      /\ \A i \in DOMAIN results' :
           \/ i \in DOMAIN results /\ results'[i] = results[i]
           \/ i = Len(results) + 1 /\ results'[i] = least
  BY <1>1, <1>2, <1>3, ElementsOfAppend
<1>5. Pending' = Pending /\ Known' = Known
  BY <1>1, <1>3, <1>4 DEF Pending, Known
<1>6. ChannelsTypeOK'
  BY <1>1, <1>2, <1>4 DEF OrderInv, ChannelsTypeOK
<1>7. InOrder'
  BY <1>1, <1>5 DEF OrderInv, InOrder
<1>8. ToldOnce'
  <2>1. \A x \in Pending' : x \in subscribed' \cup {tokens'} => x \in told'
    BY <1>1, <1>5 DEF OrderInv, ToldOnce
  <2>2. \A i \in DOMAIN results : results[i] \notin frame /\ results[i] # least
    BY <1>3 DEF OrderInv, ToldOnce
  <2>3. \A i \in DOMAIN results' : results'[i] \notin frame'
    BY <1>1, <1>4, <2>2
  <2>4. \A i, j \in DOMAIN results' : results'[i] = results'[j] => i = j
    BY <1>4, <2>2 DEF OrderInv, ToldOnce
  <2>5. connected'
    BY <1>1 DEF OrderInv, ToldOnce
  <2>6. QED BY <2>1, <2>3, <2>4, <2>5 DEF ToldOnce
<1>9. ASSUME Recent PROVE Recent'
  BY <1>9, <1>1, <1>5, StillRecent
<1>10. QED BY <1>6, <1>7, <1>8, <1>9 DEF OrderInv

LEMMA TakeCommandKeeps ==
  ASSUME OrderInv, NEW sent \in BOOLEAN, TakeCommand(sent)
  PROVE  OrderInv' /\ (Recent => Recent')
<1> DEFINE taken == Head(commands)
<1>1. /\ connected /\ frame = {} /\ commands # <<>>
      /\ commands' = Tail(commands) /\ tokens' = taken
      /\ UNCHANGED <<results, frame>>
      /\ UNCHANGED <<window, phase, pc, cur, seen, tradable, entered, paused, attempts,
                     priceable, orders>>
  BY DEF TakeCommand, Waits, clock, iteration, gates, operator
<1>2. commands \in Seq(Nat) /\ subscribed \subseteq Nat /\ told \subseteq Nat
  BY DEF OrderInv, ChannelsTypeOK
<1>3. /\ commands' \in Seq(Nat) /\ ToSet(commands') \subseteq ToSet(commands)
      /\ taken \in Nat /\ taken \in ToSet(commands)
      /\ 1 \in DOMAIN commands /\ taken = commands[1]
      /\ \A i \in DOMAIN commands' :
           i \in Nat \ {0} /\ i + 1 \in DOMAIN commands /\ commands'[i] = commands[i + 1]
  BY <1>1, <1>2, ElementsOfTail
<1> HIDE DEF taken
<1>4. \/ subscribed' = subscribed \cup {taken} /\ connected' = connected /\ told' = told
      \/ connected' = FALSE /\ subscribed' = {} /\ told' = told \cap {taken}
  BY <1>1 DEF TakeCommand, Dropped, taken
<1>5. Pending' = Pending /\ Known' \subseteq Known \cup {taken}
  BY <1>1, <1>4 DEF Pending, Known
<1>6. \A x \in Known : x \in Nat /\ x < taken
  BY <1>3, Numbers DEF OrderInv, InOrder
<1>7. ChannelsTypeOK'
  <2>1. connected' \in BOOLEAN /\ subscribed' \subseteq Nat /\ told' \subseteq Nat
    BY <1>1, <1>2, <1>3, <1>4
  <2>2. QED BY <1>1, <1>3, <2>1 DEF OrderInv, ChannelsTypeOK
<1>8. InOrder'
  <2>1. Known' \cup ToSet(commands') \subseteq Known \cup ToSet(commands)
    BY <1>3, <1>5
  <2>2. \A i \in DOMAIN commands' : taken < commands'[i] /\ \A x \in Known : x < commands'[i]
    <3>1. SUFFICES ASSUME NEW i \in DOMAIN commands'
                   PROVE  taken < commands'[i] /\ \A x \in Known : x < commands'[i]
      OBVIOUS
    <3>2. i + 1 \in DOMAIN commands /\ 1 \in 1..i + 1 - 1 /\ commands'[i] = commands[i + 1]
      BY <1>3, <3>1
    <3>3. QED BY <1>3, <3>2 DEF OrderInv, InOrder
  <2>3. \A i \in DOMAIN commands' : \A x \in Known' : x < commands'[i]
    BY <1>5, <2>2
  <2>4. \A i \in DOMAIN commands' : \A j \in 1..i - 1 : commands'[j] < commands'[i]
    <3>1. SUFFICES ASSUME NEW i \in DOMAIN commands', NEW j \in 1..i - 1
                   PROVE  commands'[j] < commands'[i]
      OBVIOUS
    <3>2. DOMAIN commands' = 1..Len(commands')
      BY <1>3
    <3>3. i \in Nat /\ j \in Nat /\ j \in DOMAIN commands' /\ j + 1 \in 1..i + 1 - 1
      BY <1>3, <3>1, <3>2
    <3>4. /\ i + 1 \in DOMAIN commands /\ commands'[i] = commands[i + 1]
          /\ commands'[j] = commands[j + 1]
      BY <1>3, <3>1, <3>3
    <3>5. QED BY <3>3, <3>4 DEF OrderInv, InOrder
  <2>5. QED BY <1>1, <1>5, <2>1, <2>3, <2>4 DEF OrderInv, InOrder
<1>9. ToldOnce'
  <2>1. \A x \in Pending : x # taken
    BY <1>6, Numbers
  <2>2. \A x \in Pending' : x \in subscribed' \cup {tokens'} => x \in told'
    BY <1>1, <1>4, <1>5, <2>1 DEF OrderInv, ToldOnce
  <2>3. connected' \/ (frame' = {} /\ subscribed' = {})
    BY <1>1, <1>4
  <2>4. QED BY <1>1, <2>2, <2>3 DEF OrderInv, ToldOnce
<1>10. ASSUME Recent PROVE Recent'
  BY <1>10, <1>1, <1>5, StillRecent
<1>11. QED BY <1>7, <1>8, <1>9, <1>10 DEF OrderInv

LEMMA DisconnectKeeps ==
  ASSUME OrderInv, Disconnect
  PROVE  OrderInv' /\ (Recent => Recent')
<1>1. /\ frame = {}
      /\ UNCHANGED <<commands, results, tokens, frame>>
      /\ UNCHANGED <<window, phase, pc, cur, seen, tradable, entered, paused, attempts,
                     priceable, orders>>
      /\ connected' = FALSE /\ subscribed' = {} /\ told' = told \cap {tokens}
  BY DEF Disconnect, Dropped, Waits, clock, iteration, gates, operator
<1>2. Pending' = Pending /\ Known' \subseteq Known
  BY <1>1 DEF Pending, Known
<1>3. ChannelsTypeOK'
  BY <1>1 DEF OrderInv, ChannelsTypeOK
<1>4. InOrder'
  BY <1>1, <1>2 DEF OrderInv, InOrder
<1>5. ToldOnce'
  BY <1>1, <1>2 DEF OrderInv, ToldOnce
<1>6. ASSUME Recent PROVE Recent'
  BY <1>6, <1>1, <1>2, StillRecent
<1>7. QED BY <1>3, <1>4, <1>5, <1>6 DEF OrderInv

\* Resolutions that came this recently fit into their channel.
LEMMA RoomForAll ==
  ASSUME OrderInv, Recent, ResolutionRoom > Lag, frame # {}, \A x \in Pending : x < cur
  PROVE  Len(results) < ResolutionRoom
<1>1. PICK e \in frame : TRUE
  OBVIOUS
<1>2. /\ window \in Nat /\ cur \in Nat /\ Lag \in Nat /\ ResolutionRoom \in Nat
      /\ e \in Nat /\ Pending \subseteq Nat
  BY <1>1, Numbers
<1>3. results \in Seq(Nat) /\ ToSet(results) \cup {e} \subseteq Pending
  BY <1>1 DEF OrderInv, ChannelsTypeOK, Pending
<1>4. Pending \subseteq (cur - 1 - Lag)..(cur - 1)
  BY <1>2, RecentEnough
<1>5. \A i, j \in DOMAIN results : results[i] = results[j] => i = j
  BY DEF OrderInv, ToldOnce
<1>6. e \notin ToSet(results)
  BY <1>1 DEF OrderInv, ToldOnce, ToSet
<1>7. Len(results) <= (cur - 1) - (cur - 1 - Lag)
  <2>1. cur - 1 - Lag \in Int /\ cur - 1 \in Int /\ cur - 1 - Lag <= cur - 1 + 1
    BY <1>2
  <2>2. ToSet(results) \cup {e} \subseteq (cur - 1 - Lag)..(cur - 1)
    BY <1>3, <1>4
  <2>3. QED BY <1>2, <1>3, <1>5, <1>6, <2>1, <2>2, TooMany
<1>8. Len(results) \in Nat
  BY <1>3
<1>9. QED BY <1>2, <1>7, <1>8

LEMMA TickKeeps ==
  ASSUME OrderInv, Tick
  PROVE  OrderInv' /\ (ResolutionRoom > Lag /\ Recent => Recent')
<1>1. /\ cur = window \/ pc = "send"
      /\ frame # {} => Len(results) = ResolutionRoom
  BY DEF Tick, PhaseMayEnd
<1>2. /\ UNCHANGED <<pc, cur, seen, tradable, entered, paused, attempts, priceable, orders>>
      /\ UNCHANGED <<commands, results, connected, subscribed, tokens, frame, told>>
  BY DEF Tick, iteration, gates, operator, task
<1>3. window \in Nat /\ window' \in {window, window + 1} /\ phase' \in ToSet(Phases)
  <2>1. window \in Nat
    BY DEF OrderInv, ChannelsTypeOK
  <2>2. QED BY <2>1, PhasesAre DEF Tick
<1>4. Pending' = Pending /\ Known' = Known
  BY <1>2 DEF Pending, Known
<1>5. ASSUME ResolutionRoom > Lag, Recent PROVE frame = {}
  <2>1. SUFFICES ASSUME frame # {} PROVE FALSE
    OBVIOUS
  <2>2. \A x \in Pending : x < cur
    BY <1>1, Numbers DEF OrderInv, InOrder
  <2>3. Len(results) < ResolutionRoom
    BY <1>5, <2>1, <2>2, RoomForAll
  <2>4. QED BY <1>1, <2>1, <2>3, Numbers
<1>6. ChannelsTypeOK'
  BY <1>2, <1>3 DEF OrderInv, ChannelsTypeOK
<1>7. InOrder'
  <2>1. cur' # None => cur' <= window'
    BY <1>2, <1>3, ChannelsAssumption DEF OrderInv, ChannelsTypeOK, InOrder
  <2>2. \A x \in Pending' : x < window'
    BY <1>3, <1>4, Numbers DEF OrderInv, InOrder
  <2>3. QED BY <1>2, <1>4, <2>1, <2>2 DEF OrderInv, InOrder
<1>8. ToldOnce'
  BY <1>2, <1>4 DEF OrderInv, ToldOnce
<1>9. ASSUME ResolutionRoom > Lag, Recent PROVE Recent'
  <2>1. Undrained' <=> Undrained
    BY <1>2 DEF Undrained
  <2>2. CASE Undrained
    <3>1. cur = window
      BY <1>1, <2>2 DEF Undrained
    <3>2. \A x \in Pending : x >= window - Lag
      BY <1>9, <2>2, <3>1 DEF OrderInv, Recent
    <3>3. CASE window' = window
      BY <1>2, <1>4, <1>5, <1>9, <2>1, <2>2, <3>1, <3>2, <3>3 DEF Recent
    <3>4. CASE window' = window + 1
      <4>1. \A x \in Pending : x >= window' - 1 - Lag
        BY <3>2, <3>4, Numbers
      <4>2. cur' # window'
        BY <1>2, <1>3, <3>1, <3>4
      <4>3. QED BY <1>2, <1>4, <1>5, <1>9, <2>1, <2>2, <4>1, <4>2 DEF Recent
    <3>5. QED BY <1>3, <3>3, <3>4
  <2>3. CASE ~Undrained
    BY <1>2, <1>4, <1>5, <1>9, <2>1, <2>3, RecentEnough DEF Recent
  <2>4. QED BY <2>2, <2>3
<1>10. QED BY <1>6, <1>7, <1>8, <1>9 DEF OrderInv

LEMMA ChannelsStep ==
  ASSUME OrderInv, [ChannelsNext]_channelVars
  PROVE  OrderInv' /\ (ResolutionRoom > Lag /\ Recent => Recent')
<1>1. CASE MainStep
  BY <1>1, TopKeeps, SendKeeps, DecideKeeps, AttemptKeeps, DrainKeeps DEF MainStep, Attempt
<1>2. CASE Operator \/ Receive \/ Forward \/ Disconnect
  BY <1>2, OperatorKeeps, ReceiveKeeps, ForwardKeeps, DisconnectKeeps
<1>3. CASE \E sent \in BOOLEAN : Connect(sent) \/ TakeCommand(sent)
  BY <1>3, ConnectKeeps, TakeCommandKeeps
<1>4. CASE Tick
  BY <1>4, TickKeeps
<1>5. CASE UNCHANGED channelVars
  <2>1. /\ UNCHANGED <<window, phase, pc, cur, seen, tradable, entered, paused, attempts,
                       priceable, orders>>
        /\ UNCHANGED <<commands, results, connected, subscribed, tokens, frame, told>>
    BY <1>5 DEF channelVars, clock, iteration, gates, operator, task
  <2>2. InOrder' /\ ToldOnce' /\ Pending' = Pending
    BY <2>1, GoingOn
  <2>3. ChannelsTypeOK'
    BY <2>1 DEF OrderInv, ChannelsTypeOK
  <2>4. Recent => Recent'
    BY <2>1, <2>2 DEF Recent, Undrained
  <2>5. QED BY <2>2, <2>3, <2>4 DEF OrderInv
<1>6. QED BY <1>1, <1>2, <1>3, <1>4, <1>5 DEF ChannelsNext

\* However late the exchange tells them, resolutions are in the channel once and
\* commands in the order of their windows, through all reconnects.
THEOREM OrderInvCorrect == ChannelsSpec => []OrderInv
<1>1. ASSUME OrderInv, [ChannelsNext]_channelVars PROVE OrderInv'
  BY <1>1, ChannelsStep
<1>2. ChannelsInit => OrderInv
  BY ChannelsInitInv
<1>3. QED BY <1>1, <1>2, PTL DEF ChannelsSpec

\* No command or reconnect takes the subscription of the CLOB task back to an
\* earlier window (market_ws.rs 68-89, 130-155).
THEOREM SubscribesForwardCorrect == ChannelsSpec => SubscribesForward
<1>1. ASSUME OrderInv, ChannelsNext, tokens' # tokens, tokens # None
      PROVE  tokens < tokens'
  <2>1. PICK sent \in BOOLEAN : TakeCommand(sent)
    <3>1. ~MainStep
      BY <1>1 DEF MainStep, Top, SendCommand, Decide, Attempt, TakerBranch, Drain, task
    <3>2. /\ ~Operator /\ ~Receive /\ ~Forward /\ ~Disconnect /\ ~Tick
          /\ ~\E sent \in BOOLEAN : Connect(sent)
      BY <1>1 DEF Operator, Connect, Receive, Forward, Disconnect, Tick, task
    <3>3. QED BY <1>1, <3>1, <3>2 DEF ChannelsNext
  <2>2. commands # <<>> /\ tokens' = Head(commands)
    BY <2>1 DEF TakeCommand
  <2>3. commands \in Seq(Nat)
    BY <1>1 DEF OrderInv, ChannelsTypeOK
  <2>4. 1 \in DOMAIN commands /\ tokens' = commands[1]
    BY <2>2, <2>3, ElementsOfTail
  <2>5. tokens \in Known
    BY <1>1 DEF Known
  <2>6. QED BY <1>1, <2>4, <2>5 DEF OrderInv, InOrder
<1>2. ASSUME OrderInv, [ChannelsNext]_channelVars
      PROVE  [tokens' # tokens => tokens = None \/ tokens < tokens']_channelVars
  BY <1>1, <1>2
<1>3. QED BY <1>2, OrderInvCorrect, PTL DEF ChannelsSpec, SubscribesForward

\* As long as the exchange tells a resolution within fewer windows than the channel
\* has room for, only those of so many windows come between two drains: the
\* invariant of the channels.
THEOREM ChannelsInvCorrect ==
  ASSUME ResolutionRoom > Lag
  PROVE  ChannelsSpec => []ChannelsInv
<1>1. ASSUME ChannelsInv, [ChannelsNext]_channelVars PROVE ChannelsInv'
  BY <1>1, ChannelsStep DEF ChannelsInv
<1>2. ChannelsInit => ChannelsInv
  BY ChannelsInitInv DEF ChannelsInv
<1>3. QED BY <1>1, <1>2, PTL DEF ChannelsSpec

\* As long as the exchange tells a resolution, when it tells it at all, within fewer
\* windows than the channel has room for, main loop and CLOB task never wait for
\* room in each other's channel (main.rs 529, market_ws.rs 333).
THEOREM NoCircularWaitCorrect ==
  ASSUME ResolutionRoom > Lag
  PROVE  ChannelsSpec => []NoCircularWait
<1>1. ASSUME ChannelsInv PROVE NoCircularWait
  <2>1. SUFFICES ASSUME pc = "send", frame # {}, Len(results) = ResolutionRoom PROVE FALSE
    BY DEF NoCircularWait
  <2>2. \A x \in Pending : x < cur
    BY <1>1, <2>1, Numbers DEF ChannelsInv, OrderInv, InOrder
  <2>3. Len(results) < ResolutionRoom
    BY <1>1, <2>1, <2>2, RoomForAll DEF ChannelsInv
  <2>4. QED BY <1>1, <2>1, <2>3, Numbers DEF ChannelsInv
<1>2. QED BY <1>1, ChannelsInvCorrect, PTL

=============================================================================
