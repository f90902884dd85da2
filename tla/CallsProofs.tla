----------------------------- MODULE CallsProofs -----------------------------
(***************************************************************************)
(* What MCCalls states of the sources that answer or follow somebody, for  *)
(* any number of chunks, calls, retries, ticks, objects and versions, any  *)
(* sizes of queues and any number of failures.                             *)
(***************************************************************************)
EXTENDS MCCalls, SequenceLemmas

(***************************************************************************)
(* The pipe.                                                               *)
(***************************************************************************)
Pipe == INSTANCE AsyncPipe

\* The instances have their own copies of its operators.
LEMMA PipeNames ==
    /\ I!None = 0 /\ I!Done = -1 /\ I!Failed = -2 /\ S!None = 0 /\ S!Done = -1 /\ S!Failed = -2
    /\ \A V : I!Pipes(V) = Pipe!Pipes(V) /\ S!Pipes(V) = Pipe!Pipes(V)
    /\ I!NewPipe = Pipe!NewPipe /\ S!NewPipe = Pipe!NewPipe
    /\ \A p : /\ I!Refuses(p) <=> Pipe!Refuses(p)
              /\ S!Refuses(p) <=> Pipe!Refuses(p)
              /\ I!Ask(p) = Pipe!Ask(p) /\ S!Ask(p) = Pipe!Ask(p)
              /\ I!Took(p) = Pipe!Took(p) /\ S!Took(p) = Pipe!Took(p)
              /\ I!Close(p) = Pipe!Close(p) /\ S!Close(p) = Pipe!Close(p) /\ S!Throw(p) = Pipe!Throw(p)
    /\ \A p, v : I!Send(p, v) = Pipe!Send(p, v) /\ S!Send(p, v) = Pipe!Send(p, v)
BY DEF I!None, I!Done, I!Failed, S!None, S!Done, S!Failed, Pipe!None, Pipe!Done, Pipe!Failed,
   I!Pipes, S!Pipes, Pipe!Pipes, I!NewPipe, S!NewPipe, Pipe!NewPipe, I!Refuses, S!Refuses, Pipe!Refuses,
   I!Resolve, S!Resolve, Pipe!Resolve, I!Ask, S!Ask, Pipe!Ask, I!Took, S!Took, Pipe!Took,
   I!Close, S!Close, Pipe!Close, S!Throw, Pipe!Throw, I!Send, S!Send, Pipe!Send

\* What is read from the type of a pipe.
LEMMA PipeTypes ==
    ASSUME NEW V, NEW p \in Pipe!Pipes(V)
    PROVE  /\ p.closed \in BOOLEAN /\ p.reading \in BOOLEAN /\ p.thrown \in BOOLEAN
           /\ p.value \in V \cup {0} /\ p.result \in V \cup {0, -1, -2}
           /\ Pipe!Refuses(p) <=> p.closed \/ p.thrown \/ p.value # 0
BY DEF Pipe!Pipes, Pipe!None, Pipe!Done, Pipe!Failed, Pipe!Refuses

\* What each operation leaves, field by field.
LEMMA PipeNew ==
    ASSUME NEW V
    PROVE  LET q == Pipe!Ask(Pipe!NewPipe)
           IN q \in Pipe!Pipes(V) /\ ~q.closed /\ q.reading /\ ~q.thrown /\ q.value = 0 /\ q.result = 0
BY DEF Pipe!Pipes, Pipe!None, Pipe!Done, Pipe!Failed, Pipe!NewPipe, Pipe!Ask, Pipe!Resolve

\* A value that is sent goes to the reader, or waits.
LEMMA PipeSend ==
    ASSUME NEW V, NEW p \in Pipe!Pipes(V), NEW v \in V
    PROVE  LET q == Pipe!Send(p, v)
           IN /\ q \in Pipe!Pipes(V) /\ (q.closed <=> p.closed) /\ (q.thrown <=> p.thrown) /\ ~q.reading
              /\ q.value = IF p.reading THEN p.value ELSE v
              /\ q.result = IF p.reading THEN v ELSE p.result
BY DEF Pipe!Pipes, Pipe!None, Pipe!Done, Pipe!Failed, Pipe!Send, Pipe!Resolve

\* A reader gets the value that waits, the end or the error, or waits itself.
LEMMA PipeAsk ==
    ASSUME NEW V, NEW p \in Pipe!Pipes(V)
    PROVE  LET q == Pipe!Ask(p)
           IN /\ q \in Pipe!Pipes(V)
              /\ q.closed <=> p.closed \/ (p.value = 0 /\ p.thrown)
              /\ q.reading <=> ~p.closed /\ p.value = 0 /\ ~p.thrown
              /\ q.thrown <=> p.thrown /\ (p.closed \/ p.value # 0)
              /\ q.value = IF p.closed THEN p.value ELSE 0
              /\ q.result = IF p.closed THEN -1 ELSE IF p.value # 0 THEN p.value ELSE IF p.thrown THEN -2 ELSE 0
BY DEF Pipe!Pipes, Pipe!None, Pipe!Done, Pipe!Failed, Pipe!Ask, Pipe!Resolve

\* The answer is taken.
LEMMA PipeTook ==
    ASSUME NEW V, NEW p \in Pipe!Pipes(V)
    PROVE  LET q == Pipe!Took(p)
           IN /\ q \in Pipe!Pipes(V) /\ (q.closed <=> p.closed) /\ (q.thrown <=> p.thrown) /\ (q.reading <=> p.reading)
              /\ q.value = p.value /\ q.result = 0
BY DEF Pipe!Pipes, Pipe!None, Pipe!Done, Pipe!Failed, Pipe!Took

\* Closing drops the value that waits and ends the iteration of a reader.
LEMMA PipeClose ==
    ASSUME NEW V, NEW p \in Pipe!Pipes(V)
    PROVE  LET q == Pipe!Close(p)
           IN /\ q \in Pipe!Pipes(V) /\ q.closed /\ ~q.thrown /\ ~q.reading
              /\ q.value = 0 /\ q.result = IF p.reading THEN -1 ELSE p.result
BY DEF Pipe!Pipes, Pipe!None, Pipe!Done, Pipe!Failed, Pipe!Close

\* An error goes to the reader, or waits.
LEMMA PipeThrow ==
    ASSUME NEW V, NEW p \in Pipe!Pipes(V)
    PROVE  LET q == Pipe!Throw(p)
           IN /\ q \in Pipe!Pipes(V)
              /\ q.closed <=> p.closed \/ p.reading
              /\ q.reading <=> p.closed /\ p.reading
              /\ q.thrown <=> p.thrown \/ (~p.closed /\ ~p.reading)
              /\ q.value = p.value
              /\ q.result = IF ~p.closed /\ p.reading THEN -2 ELSE p.result
BY DEF Pipe!Pipes, Pipe!None, Pipe!Done, Pipe!Failed, Pipe!Throw, Pipe!Resolve

(***************************************************************************)
(* The interval.                                                           *)
(***************************************************************************)
Tick == 1 .. Ticks
IntervalTypes ==
  /\ peer \in [timer: {"set", "spent", "undefined"}, ticks: 0 .. Ticks]
  /\ channel \in Pipe!Pipes(Tick)
  /\ app \in [pc: {"await", "busy", "end"}, held: SUBSET Tick]
  /\ phase \in {"run", "stop"} /\ faults \in 0 .. MaxFaults

\* A tick is on its way to the application, or with it, or the timer is set.
OnItsWay == channel.result > 0 \/ channel.value > 0
IntervalInv ==
  /\ IntervalTypes
  /\ \A t, u \in app.held : t = u
  /\ app.held # {} => ~OnItsWay /\ peer.timer # "set"
  /\ OnItsWay => peer.timer # "set"
  /\ channel.result > 0 => channel.value = 0
  /\ channel.result # -2 /\ ~channel.thrown
  /\ app.pc = "busy" => channel.result = 0
  /\ channel.reading => channel.result = 0 /\ app.pc = "await"
  /\ phase = "stop" => peer.timer = "undefined"

\* Nothing has ticked.
LEMMA IntervalInit == ASSUME I!Init PROVE IntervalInv
<1>1. channel = Pipe!Ask(Pipe!NewPipe)  BY PipeNames DEF I!Init
<1>2. /\ channel \in Pipe!Pipes(Tick) /\ channel.value = 0 /\ channel.result = 0 /\ ~channel.thrown
  BY <1>1, PipeNew
<1>3. QED
  BY <1>2, SizesAssumption DEF I!Init, I!SharedInit, IntervalInv, IntervalTypes, OnItsWay

\* The timer is set again only once the tick before it was released.
LEMMA IntervalStep == ASSUME IntervalInv, I!Next PROVE IntervalInv'
<1>0. /\ channel.value \in Tick \cup {0} /\ channel.result \in Tick \cup {0, -1, -2}
      /\ Pipe!Refuses(channel) <=> channel.closed \/ channel.thrown \/ channel.value # 0
  BY PipeTypes DEF IntervalInv, IntervalTypes
<1> USE DEF IntervalInv, IntervalTypes, OnItsWay
<1>1. CASE I!OnTimer
  <2>1. peer'.ticks \in Tick /\ peer'.timer = "spent" /\ peer' \in [timer: {"set", "spent", "undefined"}, ticks: 0 .. Ticks]
    BY <1>1, SizesAssumption DEF I!OnTimer, Tick
  <2>2. CASE channel' = channel  BY <1>1, <2>1, <2>2 DEF I!OnTimer
  <2>3. CASE channel' = Pipe!Send(channel, peer'.ticks) /\ channel.value = 0
    <3>1. /\ channel' \in Pipe!Pipes(Tick) /\ (channel'.thrown <=> channel.thrown) /\ ~channel'.reading
          /\ channel'.value = IF channel.reading THEN channel.value ELSE peer'.ticks
          /\ channel'.result = IF channel.reading THEN peer'.ticks ELSE channel.result
      BY <2>1, <2>3, PipeSend
    <3>2. /\ channel.result \in {0, -1} /\ app.held = {} /\ phase = "run"
          /\ app' = app /\ phase' = phase /\ faults' = faults
      <4>1. channel.result \in Tick => channel.result > 0  BY DEF Tick
      <4>2. QED  BY <1>0, <1>1, <4>1 DEF I!OnTimer
    <3>0. peer'.ticks > 0 /\ peer'.ticks # -2  BY <2>1 DEF Tick
    <3>3. CASE channel.reading
      BY <2>1, <2>3, <3>0, <3>1, <3>2, <3>3
    <3>4. CASE ~channel.reading
      BY <2>1, <2>3, <3>0, <3>1, <3>2, <3>4
    <3>5. QED  BY <3>3, <3>4
  <2>4. QED  BY <1>0, <1>1, <2>2, <2>3, PipeNames DEF I!OnTimer
<1>2. CASE I!Yield
  <2>1. /\ channel' \in Pipe!Pipes(Tick) /\ (channel'.thrown <=> channel.thrown) /\ (channel'.reading <=> channel.reading)
        /\ channel'.value = channel.value /\ channel'.result = 0
    BY <1>2, PipeNames, PipeTook DEF I!Yield
  <2>2. QED  BY <1>0, <1>2, <2>1, PipeNames DEF I!Yield, Tick
<1>3. CASE I!AskNext
  <2>1. /\ channel' \in Pipe!Pipes(Tick) /\ ~channel'.thrown
        /\ channel'.value = IF channel.closed THEN channel.value ELSE 0
        /\ channel'.result = IF channel.closed THEN -1 ELSE IF channel.value # 0 THEN channel.value ELSE 0
        /\ channel'.reading => channel'.result = 0
    <3>1. /\ channel' = Pipe!Ask(channel) /\ channel \in Pipe!Pipes(Tick) /\ ~channel.thrown
      BY <1>3, PipeNames DEF I!AskNext
    <3>2. QED  BY <3>1, PipeAsk
  <2>2. QED  BY <1>0, <1>3, <2>1 DEF I!AskNext, Tick
<1>4. CASE I!Released
  BY <1>4 DEF I!Released, I!Rearmed
<1>5. CASE I!Stop
  <2>1. /\ channel' \in Pipe!Pipes(Tick) /\ ~channel'.thrown /\ ~channel'.reading
        /\ channel'.value = 0 /\ channel'.result = IF channel.reading THEN -1 ELSE channel.result
    BY <1>5, PipeNames, PipeClose DEF I!Stop
  <2>2. peer' = [peer EXCEPT !.timer = "undefined"] /\ phase' = "stop" /\ app' = app /\ faults' = faults
    BY <1>5 DEF I!Stop
  <2>3. peer' \in [timer: {"set", "spent", "undefined"}, ticks: 0 .. Ticks] /\ peer'.timer = "undefined"
    BY <2>2
  <2>4. IntervalTypes'  BY <2>1, <2>2, <2>3
  <2>5. QED  BY <2>1, <2>2, <2>3, <2>4
<1>6. QED  BY <1>1, <1>2, <1>3, <1>4, <1>5 DEF I!Next, I!Progress

\* So there is never more than one tick between the timer and the application.
LEMMA IntervalImplies == ASSUME IntervalInv PROVE I!TypeOK /\ I!Ordered
<1> USE DEF IntervalInv, IntervalTypes
<1>1. I!TypeOK  BY PipeNames DEF I!TypeOK, I!SharedTypeOK, Tick
<1>2. Cardinality(app.held) = IF app.held = {} THEN 0 ELSE 1
  <2>1. CASE app.held = {}  BY <2>1, FS_EmptySet
  <2>2. CASE app.held # {}
    <3>1. PICK t \in app.held : TRUE  BY <2>2
    <3>2. app.held = {t}  BY <3>1
    <3>3. Cardinality({t}) = 1  BY FS_Singleton
    <3>4. QED  BY <2>2, <3>2, <3>3
  <2>3. QED  BY <2>1, <2>2
<1>3. I!Ordered
  <2> DEFINE n == Cardinality(app.held)
  <2>1. n = IF app.held = {} THEN 0 ELSE 1  BY <1>2
  <2>2. I!Ordered <=> (/\ n + (IF channel.result > 0 \/ channel.value > 0 THEN 1 ELSE 0)
                            + (IF peer.timer = "set" THEN 1 ELSE 0) <= 1
                       /\ phase = "stop" => peer.timer # "set")
    <3>1. I!Cardinality(app.held) = n  BY DEF I!Cardinality, Cardinality
    <3>2. QED  BY <3>1 DEF I!Ordered
  <2> HIDE DEF n
  <2>3. QED  BY <2>1, <2>2 DEF OnItsWay
<1>4. QED  BY <1>1, <1>3

(***************************************************************************)
(* The two sources of packages/kubernetes.                                 *)
(***************************************************************************)
KubePeers == [objs: W!States, watch: {"off", "connecting", "on"}, events: Seq(W!Events)]
KubeChannels == [kind: {"watch", "poll"}, queue: Seq(W!Events), chains: Seq(Seq(W!Events)),
                 request: BOOLEAN, cache: W!States, backlog: BOOLEAN]
KubeApps == [view: W!States, pc: {"ask", "busy", "end"}, odd: BOOLEAN]
KubeTypes ==
  /\ peer \in KubePeers /\ channel \in KubeChannels /\ app \in KubeApps
  /\ channel.kind = "watch" => Len(channel.queue) <= QueueSize
  /\ phase \in {"run", "stop"} /\ faults \in 0 .. MaxFaults

\* The events that a poll found are about different objects, and those that are
\* not about a new one are about one in the cache.  Between two of them the
\* application's view is the cache; while it is busy with the first event, the
\* view is what the cache becomes.
Different(s) == \A i, j \in DOMAIN s : i # j => s[i].o # s[j].o
Known(s, c) == \A i \in DOMAIN s : s[i].phase # "ADDED" => c[s[i].o] # 0
PollInv ==
  channel.kind = "poll" =>
    /\ peer.watch = "off" /\ peer.events = <<>> /\ channel.chains = <<>> /\ ~channel.request
    /\ Different(channel.queue) /\ Known(channel.queue, channel.cache) /\ ~app.odd
    /\ app.pc = "busy" => channel.queue # <<>> /\ app.view = W!Remembered(Head(channel.queue))
    /\ app.pc # "busy" => app.view = channel.cache
KubeInv == KubeTypes /\ PollInv

Told(f, X) == {f[o] : o \in X}

\* What a list of objects is turned into: an event for each.
LEMMA EventsOf ==
    ASSUME IsFiniteSet(Objects), NEW X \in SUBSET Objects, NEW f \in [X -> W!Events], \A o \in X : f[o].o = o
    PROVE  LET s == W!SetToSeq(Told(f, X))
           IN /\ s \in Seq(W!Events) /\ Different(s)
              /\ \A i \in DOMAIN s : s[i].o \in X /\ s[i] = f[s[i].o]
<1> DEFINE T == Told(f, X)
           N == Cardinality(T)
           s == SetToSeq(T)
<1>1. IsFiniteSet(T)
  <2>1. IsFiniteSet(X)  BY FS_Subset
  <2>2. f \in Surjection(X, T)
    <3>1. f \in [X -> T] /\ \A t \in T : \E o \in X : f[o] = t  BY DEF Told
    <3>2. QED  BY <3>1 DEF Surjection
  <2> HIDE DEF T
  <2>3. QED  BY <2>1, <2>2, FS_Surjection
<1>2. W!SetToSeq(T) = s
  BY DEF W!SetToSeq, SetToSeq, W!IsInjective, IsInjective, W!Cardinality, Cardinality
<1>3. N \in Nat /\ ExistsBijection(1..N, T)  BY <1>1, FS_CardinalityType
<1>4. s \in [1..N -> T] /\ IsInjective(s)
  <2>1. PICK g \in Bijection(1..N, T) : TRUE  BY <1>3 DEF ExistsBijection
  <2>2. g \in [1..N -> T] /\ IsInjective(g)  BY <2>1 DEF Bijection, Injection
  <2>3. QED  BY <2>2 DEF SetToSeq
<1> HIDE DEF s
<1>5. \A i \in 1..N : s[i] \in W!Events /\ s[i].o \in X /\ s[i] = f[s[i].o]  BY <1>4 DEF Told
<1>6. DOMAIN s = 1..N  BY <1>4
<1> HIDE DEF N, T
<1>7. s \in Seq(W!Events)
  <2>1. s \in [1..N -> W!Events]  BY <1>4, <1>5, <1>6
  <2>2. QED  BY <1>3, <2>1
<1>8. Different(s)
  <2>1. ASSUME NEW i \in DOMAIN s, NEW j \in DOMAIN s, s[i].o = s[j].o PROVE i = j
    <3>1. s[i] = s[j]  BY <1>5, <1>6, <2>1
    <3>2. QED  BY <1>4, <3>1 DEF IsInjective
  <2>2. QED  BY <2>1 DEF Different
<1>9. QED  BY <1>2, <1>5, <1>6, <1>7, <1>8 DEF T

\* Nothing is watched, nothing is remembered.
LEMMA KubeInit == ASSUME W!Init PROVE KubeInv
<1>1. PICK k \in {"watch", "poll"} :
        /\ phase = "run" /\ faults = 0
        /\ peer = [objs |-> W!Nothing, watch |-> IF k = "watch" THEN "connecting" ELSE "off", events |-> <<>>]
        /\ channel = [kind |-> k, queue |-> <<>>, chains |-> <<>>, request |-> FALSE, cache |-> W!Nothing,
                    backlog |-> FALSE]
        /\ app = [view |-> W!Nothing, pc |-> "ask", odd |-> FALSE]
  BY DEF W!Init, W!SharedInit
<1>2. W!Nothing \in W!States  BY SizesAssumption DEF W!Nothing, W!States
<1>3. <<>> \in Seq(W!Events) /\ <<>> \in Seq(Seq(W!Events)) /\ Len(<<>>) = 0 /\ DOMAIN <<>> = {}
  OBVIOUS
<1>4. KubeTypes  BY <1>1, <1>2, <1>3, SizesAssumption DEF KubeTypes, KubePeers, KubeChannels, KubeApps
<1>5. PollInv  BY <1>1, <1>3 DEF PollInv, Different, Known
<1>6. QED  BY <1>4, <1>5 DEF KubeInv

\* The fields of an event.
LEMMA EventType == \A p \in {"ADDED", "MODIFIED", "DELETED"}, o \in Objects, v \in 0 .. Versions :
                      /\ W!Event(p, o, v) \in W!Events
                      /\ W!Event(p, o, v).o = o /\ W!Event(p, o, v).phase = p /\ W!Event(p, o, v).v = v
BY DEF W!Event, W!Events

\* A list becomes one event for each object; what a poll finds, one for each
\* that differs from what the source remembers.
LEMMA KubeListed ==
    ASSUME IsFiniteSet(Objects), KubeTypes
    PROVE  /\ W!Listed \in Seq(W!Events)
           /\ W!Differences \in Seq(W!Events) /\ Different(W!Differences) /\ Known(W!Differences, channel.cache)
<1> DEFINE X == {x \in Objects : peer.objs[x] # 0}
           Y == {x \in Objects : peer.objs[x] = 0 /\ channel.cache[x] # 0}
           f == [o \in X |-> W!Event("ADDED", o, peer.objs[o])]
           g == [o \in X |-> W!Event(W!Found(o), o, peer.objs[o])]
           h == [o \in Y |-> W!Event("DELETED", o, channel.cache[o])]
<1>1. \A o \in Objects : peer.objs[o] \in 0 .. Versions /\ channel.cache[o] \in 0 .. Versions
  BY DEF KubeTypes, KubePeers, KubeChannels, W!States
<1>2. f \in [X -> W!Events] /\ \A o \in X : f[o].o = o  BY <1>1, EventType
<1>3. g \in [X -> W!Events] /\ \A o \in X : g[o].o = o /\ (g[o].phase # "ADDED" => channel.cache[o] # 0)
  BY <1>1, EventType DEF W!Found
<1>4. h \in [Y -> W!Events] /\ \A o \in Y : h[o].o = o  BY <1>1, EventType
<1>5. W!Listed = W!SetToSeq(Told(f, X))
  <2>1. Told(f, X) = {W!Event("ADDED", o, peer.objs[o]) : o \in X}  BY DEF Told
  <2>2. QED  BY <2>1 DEF W!Listed
<1> DEFINE a == W!SetToSeq(Told(g, X))
           b == W!SetToSeq(Told(h, Y))
           d == W!Differences
<1>6. d = a \o b
  <2>1. Told(g, X) = {W!Event(W!Found(o), o, peer.objs[o]) : o \in X}  BY DEF Told
  <2>2. Told(h, Y) = {W!Event("DELETED", o, channel.cache[o]) : o \in Y}  BY DEF Told
  <2>3. QED  BY <2>1, <2>2 DEF W!Differences
<1>7. X \in SUBSET Objects /\ Y \in SUBSET Objects /\ X \cap Y = {}  OBVIOUS
<1>12. \A o \in Y : channel.cache[o] # 0  OBVIOUS
<1> HIDE DEF f, g, h, X, Y
<1>8. W!Listed \in Seq(W!Events)  BY <1>2, <1>5, <1>7, EventsOf
<1>9. /\ a \in Seq(W!Events) /\ Different(a) /\ \A i \in DOMAIN a : a[i].o \in X /\ a[i] = g[a[i].o]
  BY <1>3, <1>7, EventsOf
<1>10. /\ b \in Seq(W!Events) /\ Different(b) /\ \A i \in DOMAIN b : b[i].o \in Y /\ b[i] = h[b[i].o]
  BY SMTT(30), <1>4, <1>7, EventsOf
<1> HIDE DEF a, b, d
<1>11. PICK m \in Nat, n \in Nat :
         /\ d \in Seq(W!Events) /\ DOMAIN a = 1 .. m /\ DOMAIN b = 1 .. n /\ DOMAIN d = 1 .. m + n
         /\ \A j \in 1 .. m + n : d[j] = IF j <= m THEN a[j] ELSE b[j - m]
  <2>1. Len(a) \in Nat /\ Len(b) \in Nat /\ DOMAIN a = 1 .. Len(a) /\ DOMAIN b = 1 .. Len(b)
    BY <1>9, <1>10
  <2>2. /\ a \o b \in Seq(W!Events) /\ DOMAIN (a \o b) = 1 .. Len(a) + Len(b)
        /\ \A j \in 1 .. Len(a) + Len(b) : (a \o b)[j] = IF j <= Len(a) THEN a[j] ELSE b[j - Len(a)]
    BY <1>9, <1>10, ConcatElements
  <2>3. QED  BY Zenon, <1>6, <2>1, <2>2
<1>13. \A j \in DOMAIN d : \/ j \in DOMAIN a /\ d[j] = a[j]
                           \/ j - m \in DOMAIN b /\ j \notin DOMAIN a /\ d[j] = b[j - m]
  BY <1>11
<1>14. Different(d)
  <2>1. ASSUME NEW i \in DOMAIN d, NEW j \in DOMAIN d, i # j PROVE d[i].o # d[j].o
    <3>1. CASE i \in DOMAIN a /\ d[i] = a[i] /\ j \in DOMAIN a /\ d[j] = a[j]
      BY <1>9, <2>1, <3>1 DEF Different
    <3>2. CASE i \in DOMAIN a /\ d[i] = a[i] /\ j - m \in DOMAIN b /\ d[j] = b[j - m]
      BY <1>7, <1>9, <1>10, <3>2
    <3>3. CASE j \in DOMAIN a /\ d[j] = a[j] /\ i - m \in DOMAIN b /\ d[i] = b[i - m]
      BY <1>7, <1>9, <1>10, <3>3
    <3>4. CASE i - m \in DOMAIN b /\ d[i] = b[i - m] /\ j - m \in DOMAIN b /\ d[j] = b[j - m]
      <4>1. i \in Int /\ j \in Int /\ m \in Int  BY <1>11
      <4>2. i - m # j - m  BY <2>1, <4>1
      <4>3. QED  BY <1>10, <3>4, <4>2 DEF Different
    <3>5. QED  BY <1>13, <3>1, <3>2, <3>3, <3>4
  <2>2. QED  BY <2>1 DEF Different
<1>15. Known(d, channel.cache)
  <2>1. ASSUME NEW i \in DOMAIN d, d[i].phase # "ADDED" PROVE channel.cache[d[i].o] # 0
    <3>1. CASE i \in DOMAIN a /\ d[i] = a[i]  BY <1>3, <1>9, <2>1, <3>1
    <3>2. CASE i - m \in DOMAIN b /\ d[i] = b[i - m]  BY <1>10, <1>12, <3>2
    <3>3. QED  BY <1>13, <3>1, <3>2
  <2>2. QED  BY <2>1 DEF Known
<1>16. QED  BY <1>8, <1>11, <1>14, <1>15 DEF d

\* Each field of what changes is again what it must be.
LEMMA KubeKinds ==
    ASSUME NEW c \in KubeChannels
    PROVE  /\ c.kind \in {"watch", "poll"} /\ c.queue \in Seq(W!Events)
           /\ c.chains \in Seq(Seq(W!Events)) /\ c.cache \in W!States
BY DEF KubeChannels

\* The API server begins or ends a watch.
LEMMA KubeWatched ==
    ASSUME NEW p \in KubePeers, NEW w \in {"off", "connecting", "on"}, NEW e \in Seq(W!Events), NEW n,
           n = [p EXCEPT !.watch = w, !.events = e]
    PROVE  n \in KubePeers
BY DEF KubePeers

\* What the application makes of an event,
LEMMA KubeApply ==
    ASSUME KubeTypes, NEW e \in W!Events
    PROVE  /\ W!Apply(e) \in KubeApps /\ W!Apply(e).pc = "busy"
           /\ W!Apply(e).view = [app.view EXCEPT ![e.o] = IF e.phase = "DELETED" THEN 0 ELSE e.v]
           /\ W!Apply(e).odd <=> app.odd \/ (e.phase # "ADDED" /\ app.view[e.o] = 0)
<1> DEFINE v == [app.view EXCEPT ![e.o] = IF e.phase = "DELETED" THEN 0 ELSE e.v]
           b == app.odd \/ (e.phase # "ADDED" /\ app.view[e.o] = 0)
<1>1. v \in W!States
  <2>1. (IF e.phase = "DELETED" THEN 0 ELSE e.v) \in 0 .. Versions  BY SizesAssumption DEF W!Events
  <2>2. QED  BY <2>1 DEF KubeTypes, KubeApps, W!States
<1>2. W!Apply(e) = [app EXCEPT !.view = v, !.pc = "busy", !.odd = b]  BY DEF W!Apply
<1>3. b \in BOOLEAN /\ app \in KubeApps  BY DEF KubeTypes
<1> HIDE DEF v, b
<1>4. W!Apply(e) \in KubeApps /\ W!Apply(e).pc = "busy" /\ W!Apply(e).view = v /\ (W!Apply(e).odd <=> b)
  BY <1>1, <1>2, <1>3 DEF KubeApps
<1>5. QED  BY <1>4 DEF v, b

\* and what the source remembers of it.
LEMMA KubeRemembered ==
    ASSUME KubeTypes, NEW e \in W!Events
    PROVE  /\ W!Remembered(e) \in W!States
           /\ W!Remembered(e) = [channel.cache EXCEPT ![e.o] = IF e.phase = "DELETED" THEN 0 ELSE e.v]
           /\ \A o \in Objects : o # e.o => W!Remembered(e)[o] = channel.cache[o]
<1>1. (IF e.phase = "DELETED" THEN 0 ELSE e.v) \in 0 .. Versions /\ e.o \in Objects
  BY SizesAssumption DEF W!Events
<1>2. channel.cache \in [Objects -> 0 .. Versions]  BY DEF KubeTypes, KubeChannels, W!States
<1>3. QED  BY <1>1, <1>2 DEF W!Remembered, W!States

\* An object is made, changed or deleted.
LEMMA KubeChange == ASSUME KubeInv, W!Change PROVE KubeInv'
<1>1. PICK o \in Objects, v \in 0 .. Versions :
        /\ v # peer.objs[o] /\ W!Fault /\ UNCHANGED <<channel, app, phase>>
        /\ peer' = [peer EXCEPT !.objs[o] = v,
                      !.events = IF peer.watch # "on" THEN @
                                 ELSE Append(@, IF v = 0 THEN W!Event("DELETED", o, peer.objs[o])
                                                ELSE IF peer.objs[o] = 0 THEN W!Event("ADDED", o, v)
                                                ELSE W!Event("MODIFIED", o, v))]
  BY Zenon DEF W!Change
<1>2. faults' \in 0 .. MaxFaults  BY <1>1, SizesAssumption DEF W!Fault, KubeInv, KubeTypes
<1> DEFINE e == IF v = 0 THEN W!Event("DELETED", o, peer.objs[o])
                ELSE IF peer.objs[o] = 0 THEN W!Event("ADDED", o, v) ELSE W!Event("MODIFIED", o, v)
           s == IF peer.watch # "on" THEN peer.events ELSE Append(peer.events, e)
<1>3. peer \in KubePeers /\ peer.objs \in [Objects -> 0 .. Versions] /\ peer.events \in Seq(W!Events)
  BY DEF KubeInv, KubeTypes, KubePeers, W!States
<1>4. e \in W!Events  BY <1>3, EventType
<1> HIDE DEF e
<1>5. s \in Seq(W!Events)  BY <1>3, <1>4, AppendProperties
<1>6. [peer.objs EXCEPT ![o] = v] \in W!States  BY <1>3 DEF W!States
<1>7. peer' = [peer EXCEPT !.objs = [peer.objs EXCEPT ![o] = v], !.events = s]
  BY <1>1, <1>3 DEF KubePeers, e
<1> HIDE DEF s
<1>8. peer' \in KubePeers /\ peer'.watch = peer.watch /\ peer'.events = s
  BY <1>3, <1>5, <1>6, <1>7 DEF KubePeers
<1>9. peer.watch # "on" => s = peer.events  BY DEF s
<1>10. QED  BY <1>1, <1>2, <1>8, <1>9 DEF KubeInv, KubeTypes, PollInv, W!Remembered

\* The watch is open, and tells of all there is.
LEMMA KubeConnected == ASSUME IsFiniteSet(Objects), KubeInv, W!Connected PROVE KubeInv'
<1> DEFINE s == Append(channel.chains, <<>>)
<1>1. W!Listed \in Seq(W!Events)  BY KubeListed DEF KubeInv
<1>2. s \in Seq(Seq(W!Events))
  <2>1. channel.chains \in Seq(Seq(W!Events)) /\ <<>> \in Seq(W!Events)
    BY KubeKinds DEF KubeInv, KubeTypes
  <2>2. QED  BY <2>1, AppendProperties
<1>3. /\ peer' = [peer EXCEPT !.watch = "on", !.events = W!Listed] /\ channel' = [channel EXCEPT !.request = TRUE, !.chains = s]
      /\ UNCHANGED <<app, phase, faults>> /\ peer.watch = "connecting"
  BY DEF W!Connected
<1> HIDE DEF s
<1>4. peer' \in KubePeers /\ channel' \in KubeChannels /\ channel'.kind = channel.kind /\ channel'.queue = channel.queue
  <2>1. peer \in KubePeers /\ channel \in KubeChannels  BY DEF KubeInv, KubeTypes
  <2>2. peer' \in KubePeers  BY Zenon, <1>1, <1>3, <2>1, KubeWatched
  <2>3. QED  BY <1>2, <1>3, <2>1, <2>2 DEF KubeChannels
<1>5. channel.kind # "poll"  BY <1>3 DEF KubeInv, PollInv
<1>6. QED  BY <1>3, <1>4, <1>5 DEF KubeInv, KubeTypes, PollInv

\* An event is chained to those before it.
LEMMA KubeOnEvent == ASSUME KubeInv, W!OnEvent PROVE KubeInv'
<1>1. /\ peer.watch = "on" /\ peer.events # <<>> /\ UNCHANGED <<app, phase, faults>>
      /\ peer' = [peer EXCEPT !.events = Tail(@)]
      /\ channel' = [channel EXCEPT !.chains[Len(channel.chains)] = Append(@, Head(peer.events))]
  BY DEF W!OnEvent
<1>2. /\ peer \in KubePeers /\ channel \in KubeChannels /\ channel.chains \in Seq(Seq(W!Events))
      /\ peer.events \in Seq(W!Events)
  BY DEF KubeInv, KubeTypes, KubePeers, KubeChannels
<1>3. Head(peer.events) \in W!Events /\ Tail(peer.events) \in Seq(W!Events)  BY <1>1, <1>2, HeadTailProperties
<1>4. peer' \in KubePeers  BY <1>1, <1>2, <1>3 DEF KubePeers
<1> DEFINE n == Len(channel.chains)
           s == [channel.chains EXCEPT ![n] = Append(@, Head(peer.events))]
<1>5. s \in Seq(Seq(W!Events))
  <2>1. n \in Nat /\ DOMAIN channel.chains = 1 .. n  BY <1>2
  <2>2. ASSUME NEW i \in 1 .. n PROVE s[i] \in Seq(W!Events)
    <3>1. channel.chains[i] \in Seq(W!Events)  BY <1>2, <2>1, <2>2
    <3>2. Append(channel.chains[i], Head(peer.events)) \in Seq(W!Events)  BY <1>3, <3>1, AppendProperties
    <3>3. QED  BY <2>1, <3>1, <3>2
  <2>3. s \in [1 .. n -> Seq(W!Events)]  BY <2>1, <2>2
  <2>4. QED  BY <2>1, <2>3
<1>6. channel' \in KubeChannels /\ channel'.kind = channel.kind /\ channel'.queue = channel.queue
  <2>1. channel' = [channel EXCEPT !.chains = s]  BY <1>1, <1>2 DEF KubeChannels
  <2> HIDE DEF s
  <2>2. QED  BY <1>2, <1>5, <2>1 DEF KubeChannels
<1>7. channel.kind # "poll"  BY <1>1 DEF KubeInv, PollInv
<1>8. QED  BY <1>1, <1>4, <1>6, <1>7 DEF KubeInv, KubeTypes, PollInv

\* One of the chains puts its next event into the queue.
LEMMA KubeEnqueue == ASSUME KubeInv, W!Enqueue PROVE KubeInv'
<1>1. PICK i \in DOMAIN channel.chains :
        /\ channel.chains[i] # <<>> /\ UNCHANGED <<peer, app, phase, faults>>
        /\ channel' = [channel EXCEPT !.chains[i] = Tail(@),
                         !.queue = IF W!HasRoom THEN Append(@, Head(channel.chains[i])) ELSE @]
  BY Zenon DEF W!Enqueue
<1>2. /\ channel \in KubeChannels /\ channel.chains \in Seq(Seq(W!Events)) /\ channel.queue \in Seq(W!Events)
  BY DEF KubeInv, KubeTypes, KubeChannels
<1>3. Len(channel.chains) \in Nat /\ DOMAIN channel.chains = 1 .. Len(channel.chains)  BY <1>2
<1>4. channel.chains[i] \in Seq(W!Events)  BY <1>2, <1>3
<1>5. Head(channel.chains[i]) \in W!Events /\ Tail(channel.chains[i]) \in Seq(W!Events)
  BY <1>1, <1>4, HeadTailProperties
<1> DEFINE q == IF W!HasRoom THEN Append(channel.queue, Head(channel.chains[i])) ELSE channel.queue
           s == [channel.chains EXCEPT ![i] = Tail(@)]
<1>6. q \in Seq(W!Events) /\ (channel.kind = "watch" => Len(q) <= QueueSize)
  <2>1. /\ Append(channel.queue, Head(channel.chains[i])) \in Seq(W!Events)
        /\ Len(Append(channel.queue, Head(channel.chains[i]))) = Len(channel.queue) + 1
    BY <1>2, <1>5, AppendProperties
  <2>2. Len(channel.queue) \in Nat /\ QueueSize \in Nat  BY <1>2, SizesAssumption
  <2>3. CASE W!HasRoom
    <3>1. q = Append(channel.queue, Head(channel.chains[i]))  BY <2>3
    <3> HIDE DEF q
    <3>2. QED  BY <2>1, <2>2, <2>3, <3>1 DEF W!HasRoom
  <2>4. CASE ~W!HasRoom  BY <1>2, <2>4 DEF KubeInv, KubeTypes
  <2>5. QED  BY <2>3, <2>4
<1>7. s \in Seq(Seq(W!Events))  BY <1>2, <1>3, <1>5
<1>8. channel' = [channel EXCEPT !.queue = q, !.chains = s]
  <2>1. CASE W!HasRoom  BY <1>1, <1>2, <2>1 DEF KubeChannels
  <2>2. CASE ~W!HasRoom  BY <1>1, <1>2, <2>2 DEF KubeChannels
  <2>3. QED  BY <2>1, <2>2
<1> HIDE DEF q, s
<1>9. channel' \in KubeChannels /\ channel'.kind = channel.kind /\ channel'.queue = q
  BY <1>2, <1>6, <1>7, <1>8 DEF KubeChannels
<1>11. channel.kind # "poll"
  <2>1. channel.chains # <<>>  BY <1>3
  <2>2. QED  BY <2>1 DEF KubeInv, PollInv
<1>12. QED  BY <1>1, <1>6, <1>9, <1>11 DEF KubeInv, KubeTypes, PollInv

\* The watch ends, and is begun anew unless the source has stopped.
LEMMA KubeWatchEnds == ASSUME KubeInv, W!WatchEnds PROVE KubeInv'
<1> DEFINE late == channel.backlog \/ \E i \in DOMAIN channel.chains : W!Waits(i)
<1>1. /\ peer' = [peer EXCEPT !.watch = W!Restart, !.events = <<>>]
      /\ channel' = [channel EXCEPT !.request = FALSE, !.backlog = late]
      /\ UNCHANGED <<app, phase>> /\ W!Fault /\ peer.watch = "on"
  BY DEF W!WatchEnds
<1>2. faults' \in 0 .. MaxFaults  BY <1>1, SizesAssumption DEF W!Fault, KubeInv, KubeTypes
<1>3. peer' \in KubePeers
  <2>1. W!Restart \in {"off", "connecting", "on"} /\ <<>> \in Seq(W!Events)  BY DEF W!Restart
  <2>2. QED  BY Zenon, <1>1, <2>1, KubeWatched DEF KubeInv, KubeTypes
<1>4. channel' \in KubeChannels /\ channel'.kind = channel.kind /\ channel'.queue = channel.queue
  <2>1. late \in BOOLEAN
    <3>1. channel.backlog \in BOOLEAN  BY DEF KubeInv, KubeTypes, KubeChannels
    <3>2. QED  BY Zenon, <3>1
  <2> HIDE DEF late
  <2>2. QED  BY <1>1, <2>1 DEF KubeInv, KubeTypes, KubeChannels
<1>5. channel.kind # "poll"  BY <1>1 DEF KubeInv, PollInv
<1>6. QED  BY <1>1, <1>2, <1>3, <1>4, <1>5 DEF KubeInv, KubeTypes, PollInv

\* The queue without its first event.
LEMMA KubeTail ==
    ASSUME KubeInv, channel.queue # <<>>
    PROVE  LET q == Tail(channel.queue) e == Head(channel.queue)
           IN /\ channel.queue \in Seq(W!Events) /\ channel \in KubeChannels
              /\ e \in W!Events /\ e = channel.queue[1] /\ 1 \in DOMAIN channel.queue
              /\ q \in Seq(W!Events) /\ (channel.kind = "watch" => Len(q) <= QueueSize)
              /\ \A i \in DOMAIN q : /\ i + 1 \in DOMAIN channel.queue /\ i + 1 # 1 /\ q[i] = channel.queue[i + 1]
                                     /\ i \in Nat
<1>1. /\ channel.queue \in Seq(W!Events) /\ channel \in KubeChannels
      /\ channel.kind = "watch" => Len(channel.queue) <= QueueSize
  BY DEF KubeInv, KubeTypes, KubeChannels
<1> DEFINE q == Tail(channel.queue)
<1>2. /\ Head(channel.queue) \in W!Events /\ q \in Seq(W!Events) /\ Len(q) = Len(channel.queue) - 1
      /\ \A i \in 1 .. Len(q) : q[i] = channel.queue[i + 1]
  BY <1>1, HeadTailProperties
<1>3. Len(channel.queue) \in Nat \ {0} /\ DOMAIN channel.queue = 1 .. Len(channel.queue) /\ QueueSize \in Nat
  BY <1>1, EmptySeq, SizesAssumption
<1>4. DOMAIN q = 1 .. Len(q)  BY <1>2
<1>5. Head(channel.queue) = channel.queue[1]  BY <1>1
<1> HIDE DEF q
<1>6. \A i \in DOMAIN q : /\ i + 1 \in DOMAIN channel.queue /\ i + 1 # 1 /\ q[i] = channel.queue[i + 1] /\ i \in Nat
  BY <1>2, <1>3, <1>4
<1>7. channel.kind = "watch" => Len(q) <= QueueSize  BY <1>1, <1>2, <1>3
<1>8. QED  BY <1>1, <1>2, <1>3, <1>5, <1>6, <1>7 DEF q

\* The application is handed what was watched.
LEMMA KubeYieldWatched == ASSUME KubeInv, W!YieldWatched PROVE KubeInv'
<1>1. /\ channel.kind = "watch" /\ channel.queue # <<>> /\ UNCHANGED <<peer, phase, faults>>
      /\ app' = [W!Apply(Head(channel.queue)) EXCEPT !.pc = "ask"]
      /\ channel' = [channel EXCEPT !.queue = Tail(@)]
  BY DEF W!YieldWatched, W!Watching
<1>2. /\ Head(channel.queue) \in W!Events /\ Tail(channel.queue) \in Seq(W!Events) /\ channel \in KubeChannels
      /\ Len(Tail(channel.queue)) <= QueueSize
  BY <1>1, KubeTail
<1>3. app' \in KubeApps
  <2>1. W!Apply(Head(channel.queue)) \in KubeApps  BY <1>2, KubeApply DEF KubeInv
  <2>2. QED  BY <1>1, <2>1 DEF KubeApps
<1>4. channel' \in KubeChannels /\ channel'.kind = "watch" /\ channel'.queue = Tail(channel.queue)
  <2>1. channel' = [channel EXCEPT !.queue = Tail(channel.queue)]  BY <1>1
  <2>2. QED  BY <1>1, <1>2, <2>1 DEF KubeChannels
<1>5. QED  BY <1>1, <1>2, <1>3, <1>4 DEF KubeInv, KubeTypes, PollInv

\* What was found since the last poll is queued.
LEMMA KubePoll == ASSUME IsFiniteSet(Objects), KubeInv, W!Poll PROVE KubeInv'
<1>1. /\ channel' = [channel EXCEPT !.queue = W!Differences] /\ UNCHANGED <<peer, app, phase, faults>>
      /\ app.pc = "ask" /\ channel.kind # "watch"
  BY DEF W!Poll, W!Watching
<1>2. W!Differences \in Seq(W!Events) /\ Different(W!Differences) /\ Known(W!Differences, channel.cache)
  BY KubeListed DEF KubeInv
<1>3. /\ channel' \in KubeChannels /\ channel'.queue = W!Differences /\ channel'.kind = channel.kind
      /\ channel'.cache = channel.cache /\ channel'.chains = channel.chains /\ (channel'.request <=> channel.request)
  BY <1>1, <1>2 DEF KubeInv, KubeTypes, KubeChannels
<1>4. QED  BY <1>1, <1>2, <1>3 DEF KubeInv, KubeTypes, PollInv

\* The application is handed what was found, which is then remembered.
LEMMA KubeYieldPolled == ASSUME KubeInv, W!YieldPolled PROVE KubeInv'
<1> DEFINE e == Head(channel.queue)
<1>1. /\ channel.kind = "poll" /\ app.pc = "ask" /\ channel.queue # <<>> /\ UNCHANGED <<peer, channel, phase, faults>>
      /\ app' = W!Apply(e)
  <2>1. channel.kind # "watch" /\ app.pc = "ask" /\ channel.queue # <<>> /\ UNCHANGED <<peer, channel, phase, faults>>
        /\ app' = W!Apply(e)
    BY DEF W!YieldPolled, W!Watching
  <2>2. channel.kind \in {"watch", "poll"}  BY KubeKinds DEF KubeInv, KubeTypes
  <2>3. QED  BY <2>1, <2>2
<1>2. e \in W!Events /\ e = channel.queue[1] /\ 1 \in DOMAIN channel.queue  BY <1>1, KubeTail
<1> HIDE DEF e
<1>3. app.view = channel.cache /\ Known(channel.queue, channel.cache) /\ ~app.odd
  BY <1>1 DEF KubeInv, PollInv
<1>4. /\ app' \in KubeApps /\ app'.pc = "busy"
      /\ app'.view = [app.view EXCEPT ![e.o] = IF e.phase = "DELETED" THEN 0 ELSE e.v]
      /\ app'.odd <=> app.odd \/ (e.phase # "ADDED" /\ app.view[e.o] = 0)
  BY <1>1, <1>2, KubeApply DEF KubeInv
<1>5. ~app'.odd  BY <1>2, <1>3, <1>4 DEF Known
<1>6. app'.view = W!Remembered(Head(channel.queue))  BY <1>3, <1>4 DEF W!Remembered, e
<1>7. channel' = channel /\ peer' = peer /\ phase' = phase /\ faults' = faults  BY <1>1
<1>8. KubeTypes'  BY <1>4, <1>7 DEF KubeInv, KubeTypes
<1>9. PollInv'  BY <1>1, <1>4, <1>5, <1>6, <1>7 DEF KubeInv, PollInv, W!Remembered
<1>10. QED  BY <1>8, <1>9 DEF KubeInv

\* The application has released what it had.
LEMMA KubeAskNext == ASSUME KubeInv, W!AskNext PROVE KubeInv'
<1> DEFINE e == Head(channel.queue)
           q == IF phase = "run" THEN Tail(channel.queue) ELSE <<>>
           c == W!Remembered(e)
<1>1. /\ channel.kind = "poll" /\ app.pc = "busy" /\ UNCHANGED <<peer, phase, faults>>
      /\ app' = [app EXCEPT !.pc = "ask"] /\ channel' = [channel EXCEPT !.cache = c, !.queue = q]
  <2>1. /\ channel.kind # "watch" /\ app.pc = "busy" /\ UNCHANGED <<peer, phase, faults>>
        /\ app' = [app EXCEPT !.pc = "ask"] /\ channel' = [channel EXCEPT !.cache = c, !.queue = q]
    BY DEF W!AskNext, W!Watching, KubeInv, KubeTypes, KubeChannels
  <2>2. channel.kind \in {"watch", "poll"}  BY KubeKinds DEF KubeInv, KubeTypes
  <2>3. QED  BY <2>1, <2>2
<1>2. /\ channel.queue # <<>> /\ app.view = c /\ Different(channel.queue) /\ Known(channel.queue, channel.cache) /\ ~app.odd
  BY <1>1 DEF KubeInv, PollInv
<1>3. /\ channel.queue \in Seq(W!Events) /\ channel \in KubeChannels
      /\ e \in W!Events /\ e = channel.queue[1] /\ 1 \in DOMAIN channel.queue
      /\ Tail(channel.queue) \in Seq(W!Events)
      /\ \A i \in DOMAIN Tail(channel.queue) :
           /\ i + 1 \in DOMAIN channel.queue /\ i + 1 # 1 /\ Tail(channel.queue)[i] = channel.queue[i + 1] /\ i \in Nat
  BY <1>2, KubeTail
<1>4. c \in W!States /\ \A o \in Objects : o # e.o => c[o] = channel.cache[o]
  BY <1>3, KubeRemembered DEF KubeInv
<1>5. /\ q \in Seq(W!Events)
      /\ \A i \in DOMAIN q : /\ i + 1 \in DOMAIN channel.queue /\ i + 1 # 1 /\ q[i] = channel.queue[i + 1] /\ i \in Nat
                             /\ channel.queue[i + 1].o \in Objects
  <2>1. <<>> \in Seq(W!Events) /\ DOMAIN <<>> = {}  OBVIOUS
  <2>2. \A i \in DOMAIN channel.queue : channel.queue[i] \in W!Events  BY <1>3
  <2>3. \A x \in W!Events : x.o \in Objects  BY DEF W!Events
  <2>4. CASE phase = "run"  BY <1>3, <2>2, <2>3, <2>4
  <2>5. CASE phase # "run"  BY <2>1, <2>5
  <2>6. QED  BY <2>4, <2>5
<1> HIDE DEF e, q, c
<1>6. /\ channel' \in KubeChannels /\ channel'.kind = channel.kind /\ channel'.queue = q /\ channel'.cache = c
      /\ channel'.chains = channel.chains /\ (channel'.request <=> channel.request)
  BY <1>1, <1>3, <1>4, <1>5 DEF KubeChannels
<1>7. Different(q)
  <2>1. ASSUME NEW i \in DOMAIN q, NEW j \in DOMAIN q, i # j PROVE q[i].o # q[j].o
    <3>1. i \in Nat /\ j \in Nat  BY <1>5
    <3>2. i + 1 # j + 1  BY <2>1, <3>1
    <3>3. QED  BY <1>2, <1>5, <3>2 DEF Different
  <2>2. QED  BY <2>1 DEF Different
<1>8. Known(q, c)
  <2>1. ASSUME NEW i \in DOMAIN q, q[i].phase # "ADDED" PROVE c[q[i].o] # 0
    <3>1. q[i] = channel.queue[i + 1] /\ i + 1 \in DOMAIN channel.queue /\ i + 1 # 1 /\ q[i].o \in Objects  BY <1>5
    <3>2. q[i].o # e.o  BY <1>2, <1>3, <3>1 DEF Different
    <3>3. channel.cache[q[i].o] # 0  BY <1>2, <2>1, <3>1 DEF Known
    <3>4. QED  BY <1>4, <3>1, <3>2, <3>3
  <2>2. QED  BY <2>1 DEF Known
<1>9. app' \in KubeApps /\ app'.view = c /\ ~app'.odd /\ app'.pc = "ask"
  BY <1>1, <1>2 DEF KubeInv, KubeTypes, KubeApps
<1>10. peer' = peer /\ phase' = phase /\ faults' = faults  BY <1>1
<1>11. KubeTypes'  BY <1>1, <1>6, <1>9, <1>10 DEF KubeInv, KubeTypes
<1>12. PollInv'  BY <1>1, <1>6, <1>7, <1>8, <1>9, <1>10 DEF KubeInv, PollInv
<1>13. QED  BY <1>11, <1>12 DEF KubeInv

\* The source stops.
LEMMA KubeStop == ASSUME KubeInv, W!Stop PROVE KubeInv'
<1> DEFINE rest == [i \in DOMAIN channel.chains |-> IF W!Waits(i) THEN Tail(channel.chains[i]) ELSE channel.chains[i]]
           s == IF W!HasRoom THEN channel.chains ELSE rest
<1>1. /\ phase' = "stop" /\ UNCHANGED <<app, faults>>
      /\ peer' = IF channel.request THEN [peer EXCEPT !.watch = "off", !.events = <<>>] ELSE peer
      /\ channel' = [channel EXCEPT !.request = FALSE, !.chains = s]
  BY DEF W!Stop
<1>2. <<>> \in Seq(W!Events)  OBVIOUS
<1>3. s \in Seq(Seq(W!Events)) /\ (channel.chains = <<>> => s = <<>>)
  <2>1. channel.chains \in Seq(Seq(W!Events))  BY KubeKinds DEF KubeInv, KubeTypes
  <2>2. Len(channel.chains) \in Nat /\ DOMAIN channel.chains = 1 .. Len(channel.chains)  BY <2>1
  <2>3. ASSUME NEW i \in DOMAIN channel.chains PROVE rest[i] \in Seq(W!Events)
    <3>1. channel.chains[i] \in Seq(W!Events)  BY <2>1, <2>2
    <3>2. W!Waits(i) => Tail(channel.chains[i]) \in Seq(W!Events)
      BY <3>1, HeadTailProperties DEF W!Waits
    <3>3. QED  BY <3>1, <3>2
  <2>4. rest \in [1 .. Len(channel.chains) -> Seq(W!Events)]  BY <2>2, <2>3
  <2>5. channel.chains = <<>> => rest = <<>>  OBVIOUS
  <2> HIDE DEF rest
  <2>6. rest \in Seq(Seq(W!Events))  BY <2>2, <2>4
  <2>7. QED  BY <2>1, <2>5, <2>6
<1> HIDE DEF s
<1>4. /\ channel' \in KubeChannels /\ channel'.kind = channel.kind /\ channel'.queue = channel.queue
      /\ channel'.cache = channel.cache /\ channel'.chains = s /\ ~channel'.request
  BY <1>1, <1>3 DEF KubeInv, KubeTypes, KubeChannels
<1>5. peer' \in KubePeers /\ (channel.kind = "poll" => peer' = peer)
  <2>1. channel.kind = "poll" => ~channel.request  BY DEF KubeInv, PollInv
  <2>2. QED  BY Zenon, <1>1, <1>2, <2>1, KubeWatched DEF KubeInv, KubeTypes
<1>6. KubeTypes'  BY <1>1, <1>4, <1>5 DEF KubeInv, KubeTypes
<1>7. PollInv'  BY <1>1, <1>3, <1>4, <1>5 DEF KubeInv, PollInv, W!Remembered
<1>8. QED  BY <1>6, <1>7 DEF KubeInv

\* Its iteration ends.
LEMMA KubeEnd == ASSUME KubeInv, W!End PROVE KubeInv'
<1>1. UNCHANGED <<peer, channel, phase, faults>> /\ app.pc = "ask" /\ app' = [app EXCEPT !.pc = "end"]  BY DEF W!End
<1>2. app' \in KubeApps /\ app'.pc = "end" /\ app'.view = app.view /\ (app'.odd <=> app.odd)
  BY <1>1 DEF KubeInv, KubeTypes, KubeApps
<1>3. QED  BY <1>1, <1>2 DEF KubeInv, KubeTypes, PollInv

\* No step of the sources breaks the invariant.
LEMMA KubeStep == ASSUME IsFiniteSet(Objects), KubeInv, W!Next PROVE KubeInv'
BY KubeChange, KubeConnected, KubeOnEvent, KubeEnqueue, KubeWatchEnds, KubeYieldWatched, KubePoll,
   KubeYieldPolled, KubeAskNext, KubeStop, KubeEnd DEF W!Next, W!Progress

\* What the invariant is for.
LEMMA KubeImplies == ASSUME KubeInv PROVE W!TypeOK /\ W!Ordered
<1>1. W!TypeOK
  BY DEF KubeInv, KubeTypes, KubePeers, KubeChannels, KubeApps, W!TypeOK, W!SharedTypeOK, W!Watching
<1>2. W!Ordered
  <2>1. channel.kind # "watch" => channel.kind = "poll"  BY KubeKinds DEF KubeInv, KubeTypes
  <2>2. QED  BY <2>1 DEF KubeInv, PollInv, W!Ordered, W!Watching
<1>3. QED  BY <1>1, <1>2

(***************************************************************************)
(* The unary calls.                                                        *)
(***************************************************************************)
Callers == [pc: {"connect", "send", "wait"} \cup U!Ends, try: 1 .. Retries + 1]
UnaryChannels == [kind: {"grpc", "admission"}, queue: Seq(U!Requests), parked: Seq(U!Requests),
                  open: SUBSET U!Requests]
UnaryApps == [busy: SUBSET U!Requests, made: [Calls -> Nat], silent: SUBSET Calls]
UnaryTypes ==
  /\ peer \in [Calls -> Callers] /\ channel \in UnaryChannels /\ app \in UnaryApps
  /\ Len(channel.queue) <= QueueSize
  /\ phase \in {"run", "stop", "end"} /\ faults \in 0 .. CallFaults

\* The requests that wait at the source, no two of which are the same, those
\* that it or the application holds, and how many a caller has sent at most.
Waiting == channel.queue \o channel.parked
Unlike == {p \in U!Requests \X U!Requests : p[1] # p[2]}
Held == ToSet(Waiting) \cup app.busy
NotSent == {"connect", "send", "refused"}
SentBy(p) == [c \in Calls |-> IF p[c].pc \in NotSent THEN p[c].try - 1 ELSE p[c].try]
Sent == SentBy(peer)

\* What a caller has sent, it sent once: its handler has run for some of it,
\* and some is held.
Of(c, H) == {r \in H : r[1] = c}
Within(H, made, sent) ==
  /\ \A c \in Calls : made[c] + Cardinality(Of(c, H)) <= sent[c]
  /\ \A r \in H : r[2] <= sent[r[1]]
Results == {"value", "error", "unimplemented"}
UnaryInv ==
  /\ UnaryTypes
  /\ channel.parked # <<>> => ~U!HasRoom
  /\ SortedBy(Waiting, Unlike) /\ app.busy \cap ToSet(Waiting) = {}
  /\ Within(Held, app.made, Sent)
  /\ \A c \in Calls : peer[c].pc \in Results => app.made[c] > 0

\* The requests of one caller are finitely many.
LEMMA OfFinite ==
    ASSUME NEW c \in Calls, NEW H \in SUBSET U!Requests
    PROVE  IsFiniteSet(Of(c, H)) /\ Cardinality(Of(c, H)) \in Nat
<1>1. IsFiniteSet({c}) /\ IsFiniteSet(1 .. Retries + 1)
  <2>1. IsFiniteSet({c})  BY FS_Singleton
  <2>2. 1 \in Int /\ Retries + 1 \in Int  BY SizesAssumption
  <2>3. IsFiniteSet(1 .. Retries + 1)  BY <2>2, FS_Interval
  <2>4. QED  BY <2>1, <2>3
<1>2. IsFiniteSet({c} \X (1 .. Retries + 1))  BY <1>1, FS_Product
<1>3. Of(c, H) \in SUBSET ({c} \X (1 .. Retries + 1))  BY DEF Of, U!Requests
<1>4. QED  BY <1>2, <1>3, FS_Subset, FS_CardinalityType

Attempts == [Calls -> 0 .. Retries + 1]

\* A request that is sent for the first time,
LEMMA WithinSent ==
    ASSUME NEW H \in SUBSET U!Requests, NEW made \in [Calls -> Nat], NEW sent \in Attempts, Within(H, made, sent),
           NEW new \in Attempts, NEW c \in Calls, new[c] = sent[c] + 1, \A d \in Calls : d # c => new[d] = sent[d]
    PROVE  <<c, new[c]>> \notin H /\ Within(H \cup {<<c, new[c]>>}, made, new)
<1> DEFINE r == <<c, new[c]>>
           G == H \cup {r}
<1>1. \A d \in Calls : sent[d] \in Nat /\ new[d] \in Nat /\ made[d] \in Nat /\ sent[d] <= new[d]
  BY DEF Attempts
<1>2. r \notin H
  <2>1. r \in H => new[c] <= sent[c]  BY DEF Within
  <2>2. QED  BY <1>1, <2>1
<1>3. r \in U!Requests
  <2>1. new[c] \in 1 .. Retries + 1
    <3>1. new[c] \in 0 .. Retries + 1 /\ new[c] # 0  BY <1>1 DEF Attempts
    <3>2. QED  BY <3>1, SizesAssumption
  <2>2. QED  BY <2>1 DEF U!Requests
<1>4. ASSUME NEW d \in Calls PROVE made[d] + Cardinality(Of(d, G)) <= new[d]
  <2>1. made[d] + Cardinality(Of(d, H)) <= sent[d] /\ Cardinality(Of(d, H)) \in Nat /\ IsFiniteSet(Of(d, H))
    BY OfFinite DEF Within
  <2>2. CASE d = c
    <3>1. Of(d, G) = Of(d, H) \cup {r} /\ r \notin Of(d, H)  BY <1>2, <2>2 DEF Of
    <3>2. Cardinality(Of(d, G)) = Cardinality(Of(d, H)) + 1  BY <2>1, <3>1, FS_AddElement
    <3>3. QED  BY <1>1, <2>1, <2>2, <3>2
  <2>3. CASE d # c
    <3>1. Of(d, G) = Of(d, H)  BY <2>3 DEF Of
    <3>2. QED  BY <2>1, <2>3, <3>1
  <2>4. QED  BY <2>2, <2>3
<1>5. ASSUME NEW q \in G PROVE q[2] <= new[q[1]]
  <2>1. CASE q = r  BY <1>1, <2>1
  <2>2. CASE q \in H
    <3>1. q[2] <= sent[q[1]] /\ q[1] \in Calls /\ q[2] \in Nat  BY <2>2 DEF Within, U!Requests
    <3>2. QED  BY <1>1, <3>1
  <2>3. QED  BY <2>1, <2>2
<1>6. QED  BY <1>2, <1>4, <1>5 DEF Within

\* one that has been handled,
LEMMA WithinRan ==
    ASSUME NEW H \in SUBSET U!Requests, NEW made \in [Calls -> Nat], NEW sent \in Attempts, Within(H, made, sent),
           NEW r \in H
    PROVE  Within(H \ {r}, [made EXCEPT ![r[1]] = @ + 1], sent)
<1> DEFINE G == H \ {r}
           new == [made EXCEPT ![r[1]] = @ + 1]
<1>1. r[1] \in Calls /\ \A d \in Calls : made[d] \in Nat /\ sent[d] \in Nat  BY DEF U!Requests, Attempts
<1>2. ASSUME NEW d \in Calls PROVE new[d] + Cardinality(Of(d, G)) <= sent[d]
  <2>1. made[d] + Cardinality(Of(d, H)) <= sent[d] /\ Cardinality(Of(d, H)) \in Nat /\ IsFiniteSet(Of(d, H))
    BY OfFinite DEF Within
  <2>2. CASE d = r[1]
    <3>1. Of(d, G) = Of(d, H) \ {r} /\ r \in Of(d, H)  BY <2>2 DEF Of
    <3>2. Cardinality(Of(d, H) \ {r}) = Cardinality(Of(d, H)) - 1  BY <2>1, <3>1, FS_RemoveElement
    <3>3. new[d] = made[d] + 1  BY <1>1, <2>2
    <3>4. QED
      <4> DEFINE n == Cardinality(Of(d, H))
      <4>1. Cardinality(Of(d, G)) = n - 1  BY <3>1, <3>2
      <4>2. n \in Nat /\ made[d] + n <= sent[d]  BY <2>1
      <4> HIDE DEF n, G, new
      <4>3. QED  BY <1>1, <3>3, <4>1, <4>2
  <2>3. CASE d # r[1]
    <3>1. Of(d, G) = Of(d, H) /\ new[d] = made[d]  BY <1>1, <2>3 DEF Of
    <3>2. QED  BY <2>1, <3>1
  <2>4. QED  BY <2>2, <2>3
<1>3. \A q \in G : q[2] <= sent[q[1]]  BY DEF Within
<1>4. QED  BY <1>2, <1>3 DEF Within

\* and requests that are given up: a caller that does not count one as sent any
\* more has one less that is held.
LEMMA WithinLess ==
    ASSUME NEW H \in SUBSET U!Requests, NEW made \in [Calls -> Nat], NEW sent \in Attempts, Within(H, made, sent),
           NEW G \in SUBSET H, NEW new \in Attempts,
           \A c \in Calls : sent[c] <= new[c] \/ (new[c] = sent[c] - 1 /\ <<c, sent[c]>> \in H \ G)
    PROVE  Within(G, made, new)
<1>1. \A d \in Calls : sent[d] \in Nat /\ new[d] \in Nat /\ made[d] \in Nat  BY DEF Attempts
<1>2. ASSUME NEW d \in Calls PROVE made[d] + Cardinality(Of(d, G)) <= new[d]
  <2>1. /\ made[d] + Cardinality(Of(d, H)) <= sent[d] /\ Cardinality(Of(d, H)) \in Nat /\ IsFiniteSet(Of(d, H))
        /\ Cardinality(Of(d, G)) \in Nat
    BY OfFinite DEF Within
  <2>2. CASE sent[d] <= new[d]
    <3>1. Of(d, G) \in SUBSET Of(d, H)  BY DEF Of
    <3>2. Cardinality(Of(d, G)) <= Cardinality(Of(d, H))  BY <2>1, <3>1, FS_Subset
    <3>3. QED  BY <1>1, <2>1, <2>2, <3>2
  <2>3. CASE new[d] = sent[d] - 1 /\ <<d, sent[d]>> \in H \ G
    <3> DEFINE r == <<d, sent[d]>>
               F == Of(d, H) \ {r}
    <3>1. r \in Of(d, H) /\ Of(d, G) \in SUBSET F  BY <2>3 DEF Of
    <3> HIDE DEF r
    <3>2. IsFiniteSet(F) /\ Cardinality(F) = Cardinality(Of(d, H)) - 1  BY <2>1, <3>1, FS_RemoveElement
    <3> HIDE DEF F
    <3>3. Cardinality(Of(d, G)) <= Cardinality(F)  BY <3>1, <3>2, FS_Subset
    <3>4. QED  BY <1>1, <2>1, <2>3, <3>2, <3>3
  <2>4. QED  BY <2>2, <2>3
<1>3. ASSUME NEW q \in G PROVE q[2] <= new[q[1]]
  <2>1. q[2] <= sent[q[1]] /\ q[1] \in Calls /\ q[2] \in Nat /\ q = <<q[1], q[2]>>  BY DEF Within, U!Requests
  <2>2. CASE sent[q[1]] <= new[q[1]]  BY <1>1, <2>1, <2>2
  <2>3. CASE new[q[1]] = sent[q[1]] - 1 /\ <<q[1], sent[q[1]]>> \in H \ G
    <3>1. q[2] # sent[q[1]]  BY <2>1, <2>3
    <3>2. QED  BY <1>1, <2>1, <2>3, <3>1
  <2>4. QED  BY <2>1, <2>2, <2>3
<1>4. QED  BY <1>2, <1>3 DEF Within

\* More requests leave room for those there are.
LEMMA WithinMore ==
    ASSUME NEW H \in SUBSET U!Requests, NEW made \in [Calls -> Nat], NEW sent \in Attempts, Within(H, made, sent),
           NEW new \in Attempts, \A c \in Calls : sent[c] <= new[c]
    PROVE  Within(H, made, new)
<1>1. \A d \in Calls : sent[d] \in Nat /\ new[d] \in Nat /\ made[d] \in Nat  BY DEF Attempts
<1>2. \A d \in Calls : Cardinality(Of(d, H)) \in Nat  BY OfFinite
<1>3. \A q \in H : q[1] \in Calls /\ q[2] \in Nat  BY DEF U!Requests
<1>4. QED  BY <1>1, <1>2, <1>3 DEF Within

\* No caller has sent anything.
LEMMA UnaryInit == ASSUME U!Init PROVE UnaryInv
<1>1. /\ phase = "run" /\ faults = 0 /\ peer = [c \in Calls |-> [pc |-> "connect", try |-> 1]]
      /\ channel.queue = <<>> /\ channel.parked = <<>> /\ channel \in UnaryChannels
      /\ app = [busy |-> {}, made |-> [c \in Calls |-> 0], silent |-> {}]
  <2>1. PICK k \in {"grpc", "admission"} :
          channel = [kind |-> k, queue |-> <<>>, parked |-> <<>>, open |-> {}]
    BY DEF U!Init
  <2>2. <<>> \in Seq(U!Requests)  OBVIOUS
  <2>3. QED  BY <2>1, <2>2 DEF U!Init, U!SharedInit, UnaryChannels
<1>2. 1 \in 1 .. Retries + 1 /\ 0 \in 0 .. CallFaults /\ 0 <= QueueSize  BY SizesAssumption
<1>3. app \in UnaryApps /\ peer \in [Calls -> Callers] /\ Len(channel.queue) = 0
  BY <1>1, <1>2 DEF UnaryApps, Callers
<1>4. Waiting = <<>> /\ Held = {} /\ ToSet(Waiting) = {}
  <2>1. <<>> \o <<>> = <<>>  BY ConcatEmptySeq, EmptySeq
  <2>2. Waiting = <<>>  BY <1>1, <2>1 DEF Waiting
  <2>3. DOMAIN <<>> = {}  OBVIOUS
  <2>4. ToSet(Waiting) = {}  BY <2>2, <2>3 DEF ToSet
  <2>5. QED  BY <1>1, <2>2, <2>4 DEF Held
<1>5. \A c \in Calls : app.made[c] = 0 /\ Sent[c] = 0 /\ Of(c, Held) = {} /\ peer[c].pc = "connect"
  BY <1>1, <1>4 DEF Sent, SentBy, Of, NotSent
<1>6. Within(Held, app.made, Sent)
  <2>1. Cardinality({}) = 0  BY FS_EmptySet
  <2>2. \A c \in Calls : app.made[c] + Cardinality(Of(c, Held)) <= Sent[c]
    <3>1. \A c \in Calls : Cardinality(Of(c, Held)) = 0  BY <1>5, <2>1
    <3>2. QED  BY <1>5, <3>1
  <2>3. QED  BY <1>4, <2>2 DEF Within
<1>7. SortedBy(Waiting, Unlike)
  <2>1. DOMAIN <<>> = {}  OBVIOUS
  <2>2. QED  BY <1>4, <2>1 DEF SortedBy
<1>8. QED  BY <1>1, <1>2, <1>3, <1>4, <1>5, <1>6, <1>7 DEF UnaryInv, UnaryTypes, Results

\* How often each caller has sent.
LEMMA SentTyped == \A p \in [Calls -> Callers] : SentBy(p) \in Attempts
<1>1. \A n \in 1 .. Retries + 1 : n \in 0 .. Retries + 1 /\ n - 1 \in 0 .. Retries + 1  BY SizesAssumption
<1>2. \A p \in [Calls -> Callers] : \A c \in Calls : p[c].try \in 1 .. Retries + 1  BY DEF Callers
<1>3. QED  BY <1>1, <1>2 DEF SentBy, Attempts

\* What is read from the types.
LEMMA UnaryTyped ==
    ASSUME UnaryTypes
    PROVE  /\ channel.queue \in Seq(U!Requests) /\ channel.parked \in Seq(U!Requests) /\ Waiting \in Seq(U!Requests)
           /\ ToSet(Waiting) = ToSet(channel.queue) \cup ToSet(channel.parked)
           /\ Held \in SUBSET U!Requests /\ app.busy \in SUBSET U!Requests /\ app.made \in [Calls -> Nat]
           /\ Sent \in Attempts
           /\ \A c \in Calls : peer[c] \in Callers /\ peer[c].try \in 1 .. Retries + 1
<1>1. channel.queue \in Seq(U!Requests) /\ channel.parked \in Seq(U!Requests)  BY DEF UnaryTypes, UnaryChannels
<1>2. Waiting \in Seq(U!Requests)  BY <1>1, ConcatProperties DEF Waiting
<1>3. ToSet(Waiting) = ToSet(channel.queue) \cup ToSet(channel.parked)  BY <1>1, ToSetConcat DEF Waiting
<1>4. app.busy \in SUBSET U!Requests /\ app.made \in [Calls -> Nat]  BY DEF UnaryTypes, UnaryApps
<1>5. ToSet(Waiting) \in SUBSET U!Requests
  <2>1. \A i \in DOMAIN Waiting : Waiting[i] \in U!Requests  BY <1>2
  <2>2. QED  BY <2>1 DEF ToSet
<1>6. \A c \in Calls : peer[c] \in Callers /\ peer[c].try \in 1 .. Retries + 1  BY DEF UnaryTypes, Callers
<1>7. Sent \in Attempts  BY SentTyped DEF UnaryTypes, Sent
<1>8. QED  BY <1>1, <1>2, <1>3, <1>4, <1>5, <1>6, <1>7 DEF Held

\* A caller learns something, or tries again, and has sent no less.
LEMMA UnaryCaller ==
    ASSUME UnaryInv, NEW c \in Calls, NEW n \in Callers, peer' = [peer EXCEPT ![c] = n],
           IF n.pc \in NotSent THEN Sent[c] <= n.try - 1 ELSE Sent[c] <= n.try,
           n.pc \in Results => peer[c].pc \in Results,
           channel' = channel, app' = app, phase' = phase, faults' \in 0 .. CallFaults
    PROVE  UnaryInv'
<1>1. UnaryTypes'  BY DEF UnaryInv, UnaryTypes
<1>2. Waiting' = Waiting /\ Held' = Held  BY DEF Waiting, Held
<1>3. /\ Held \in SUBSET U!Requests /\ app.made \in [Calls -> Nat] /\ Sent \in Attempts
  BY UnaryTyped DEF UnaryInv
<1>4. Sent' \in Attempts  BY <1>1, SentTyped DEF UnaryTypes, Sent
<1>5. \A d \in Calls : Sent[d] <= Sent'[d]
  <2>1. peer'[c] = n /\ \A d \in Calls : d # c => peer'[d] = peer[d]  BY DEF UnaryInv, UnaryTypes
  <2>2. \A d \in Calls : d # c => Sent'[d] = Sent[d]  BY <2>1 DEF Sent, SentBy
  <2>3. Sent[c] <= Sent'[c]  BY <2>1 DEF Sent, SentBy
  <2>4. \A d \in Calls : Sent[d] \in Nat  BY <1>3 DEF Attempts
  <2>5. QED  BY <2>2, <2>3, <2>4
<1>6. Within(Held, app.made, Sent')
  <2>1. Within(Held, app.made, Sent)  BY DEF UnaryInv
  <2>2. QED  BY <1>3, <1>4, <1>5, <2>1, WithinMore
<1>7. \A d \in Calls : peer'[d].pc \in Results => app.made[d] > 0
  BY DEF UnaryInv, UnaryTypes
<1>8. QED  BY <1>1, <1>2, <1>6, <1>7 DEF UnaryInv, U!HasRoom

\* A caller that only learns something keeps its number of attempts.
LEMMA NowCaller ==
    ASSUME UnaryInv, NEW c \in Calls, NEW s \in {"connect", "send", "wait"} \cup U!Ends
    PROVE  LET n == [pc |-> s, try |-> peer[c].try]
           IN n \in Callers /\ n.pc = s /\ n.try = peer[c].try /\ U!Now(c, s) = [peer EXCEPT ![c] = n]
<1>1. peer \in [Calls -> Callers] /\ peer[c] \in Callers  BY DEF UnaryInv, UnaryTypes
<1>2. [peer[c] EXCEPT !.pc = s] = [pc |-> s, try |-> peer[c].try]  BY <1>1 DEF Callers
<1>3. QED  BY <1>1, <1>2 DEF Callers, U!Now

\* What a caller has sent is its attempt, or one less.
LEMMA SentOf ==
    ASSUME UnaryInv, NEW c \in Calls
    PROVE  /\ Sent[c] = IF peer[c].pc \in NotSent THEN peer[c].try - 1 ELSE peer[c].try
           /\ peer[c].try \in Nat \ {0} /\ peer[c].try <= Retries + 1
BY SizesAssumption DEF Sent, SentBy, UnaryInv, UnaryTypes, Callers

\* A caller connects.
LEMMA UnaryConnect == ASSUME UnaryInv, U!Connect PROVE UnaryInv'
<1>1. PICK c \in Calls :
        /\ peer[c].pc = "connect" /\ UNCHANGED <<channel, app, phase>>
        /\ \/ peer' = U!Now(c, "send") /\ U!NoFault
           \/ peer' = U!Now(c, "notready") /\ U!Fault
  BY DEF U!Connect
<1>2. faults' \in 0 .. CallFaults
  BY <1>1, SizesAssumption DEF U!Fault, U!NoFault, UnaryInv, UnaryTypes
<1>3. Sent[c] = peer[c].try - 1 /\ peer[c].try \in Nat  BY <1>1, SentOf DEF NotSent
<1>4. CASE peer' = U!Now(c, "send")
  <2> DEFINE n == [pc |-> "send", try |-> peer[c].try]
  <2>1. n \in Callers /\ n.pc = "send" /\ n.try = peer[c].try /\ peer' = [peer EXCEPT ![c] = n]
    BY <1>4, NowCaller
  <2> HIDE DEF n
  <2>2. /\ IF n.pc \in NotSent THEN Sent[c] <= n.try - 1 ELSE Sent[c] <= n.try
        /\ n.pc \notin Results
    BY <1>3, <2>1 DEF NotSent, Results
  <2>3. QED  BY <1>1, <1>2, <2>1, <2>2, UnaryCaller
<1>5. CASE peer' = U!Now(c, "notready")
  <2> DEFINE n == [pc |-> "notready", try |-> peer[c].try]
  <2>1. n \in Callers /\ n.pc = "notready" /\ n.try = peer[c].try /\ peer' = [peer EXCEPT ![c] = n]
    BY <1>5, NowCaller DEF U!Ends
  <2> HIDE DEF n
  <2>2. /\ IF n.pc \in NotSent THEN Sent[c] <= n.try - 1 ELSE Sent[c] <= n.try
        /\ n.pc \notin Results
    BY <1>3, <2>1 DEF NotSent, Results
  <2>3. QED  BY <1>1, <1>2, <2>1, <2>2, UnaryCaller
<1>6. QED  BY <1>1, <1>4, <1>5

\* A caller no longer waits; its request goes on.
LEMMA UnaryDeadline == ASSUME UnaryInv, U!Deadline PROVE UnaryInv'
<1>1. PICK c \in Calls :
        /\ peer[c].pc = "wait" /\ UNCHANGED <<channel, app, phase>> /\ U!Fault /\ peer' = U!Now(c, "deadline")
  BY DEF U!Deadline
<1>2. faults' \in 0 .. CallFaults  BY <1>1, SizesAssumption DEF U!Fault, UnaryInv, UnaryTypes
<1>3. Sent[c] = peer[c].try /\ peer[c].try \in Nat  BY <1>1, SentOf DEF NotSent
<1> DEFINE n == [pc |-> "deadline", try |-> peer[c].try]
<1>4. n \in Callers /\ n.pc = "deadline" /\ n.try = peer[c].try /\ peer' = [peer EXCEPT ![c] = n]
  BY <1>1, NowCaller DEF U!Ends
<1>5. QED  BY <1>1, <1>2, <1>3, <1>4, UnaryCaller DEF NotSent, Results

\* A caller finds nobody and tries again, or gives up.
LEMMA UnaryUnavailable == ASSUME UnaryInv, U!Unavailable PROVE UnaryInv'
<1>1. PICK c \in Calls :
        /\ peer[c].pc \in {"send", "wait"} /\ UNCHANGED <<channel, app, phase>> /\ U!Fault /\ peer' = U!Retry(c)
  BY DEF U!Unavailable
<1>2. faults' \in 0 .. CallFaults  BY <1>1, SizesAssumption DEF U!Fault, UnaryInv, UnaryTypes
<1>3. Sent[c] <= peer[c].try /\ peer[c].try \in Nat \ {0} /\ peer[c].try <= Retries + 1 /\ Sent[c] \in Nat
  BY <1>1, SentOf DEF NotSent
<1>4. CASE peer[c].try <= Retries
  <2> DEFINE n == [pc |-> "send", try |-> peer[c].try + 1]
  <2>1. n \in Callers /\ n.pc = "send" /\ n.try = peer[c].try + 1  BY <1>3, <1>4, SizesAssumption DEF Callers
  <2>2. peer' = [peer EXCEPT ![c] = n]
    BY <1>1, <1>4 DEF U!Retry, UnaryInv, UnaryTypes, Callers
  <2> HIDE DEF n
  <2>3. n.pc \in NotSent /\ Sent[c] <= n.try - 1 /\ n.pc \notin Results  BY <1>3, <2>1 DEF NotSent, Results
  <2>4. QED  BY <1>1, <1>2, <2>1, <2>2, <2>3, UnaryCaller
<1>5. CASE ~(peer[c].try <= Retries)
  <2> DEFINE n == [pc |-> "unavailable", try |-> peer[c].try]
  <2>1. n \in Callers /\ n.pc = "unavailable" /\ n.try = peer[c].try /\ peer' = [peer EXCEPT ![c] = n]
    BY <1>1, <1>5, NowCaller DEF U!Ends, U!Retry
  <2> HIDE DEF n
  <2>2. n.pc \notin NotSent /\ Sent[c] <= n.try /\ n.pc \notin Results  BY <1>3, <2>1 DEF NotSent, Results
  <2>3. QED  BY <1>1, <1>2, <2>1, <2>2, UnaryCaller
<1>6. QED  BY <1>4, <1>5

\* A request at the end of a sequence is at the end of the whole.
LEMMA RequestConcat ==
    \A s, t \in Seq(U!Requests), e \in U!Requests : s \o Append(t, e) = Append(s \o t, e)
BY AppendConcat

\* The request that is sent waits in the queue, or for room in it.
LEMMA UnaryWaits ==
    ASSUME UnaryInv, NEW r \in U!Requests, r \notin Held,
           channel' = IF U!HasRoom THEN [channel EXCEPT !.queue = Append(@, r), !.open = @ \cup {r}]
                                   ELSE [channel EXCEPT !.parked = Append(@, r), !.open = @ \cup {r}]
    PROVE  /\ channel' \in UnaryChannels /\ Len(channel'.queue) <= QueueSize
           /\ channel'.parked # <<>> => ~U!HasRoom'
           /\ Waiting' = Append(Waiting, r) /\ SortedBy(Waiting', Unlike)
           /\ ToSet(Waiting') = ToSet(Waiting) \cup {r}
<1>1. /\ channel.queue \in Seq(U!Requests) /\ channel.parked \in Seq(U!Requests) /\ Waiting \in Seq(U!Requests)
      /\ channel \in UnaryChannels /\ Len(channel.queue) <= QueueSize /\ Len(channel.queue) \in Nat /\ QueueSize \in Nat
  BY UnaryTyped, SizesAssumption DEF UnaryInv, UnaryTypes
<1>2. /\ Append(channel.queue, r) \in Seq(U!Requests) /\ Append(channel.parked, r) \in Seq(U!Requests)
      /\ Len(Append(channel.queue, r)) = Len(channel.queue) + 1
      /\ <<r>> \in Seq(U!Requests) /\ Append(channel.queue, r) = channel.queue \o <<r>>
      /\ Append(Waiting, r) = Waiting \o <<r>>
  BY <1>1, AppendProperties, AppendIsConcat
<1>3. SortedBy(Append(Waiting, r), Unlike) /\ ToSet(Append(Waiting, r)) = ToSet(Waiting) \cup {r}
  <2>1. ToSet(Append(Waiting, r)) = ToSet(Waiting) \cup {r}  BY <1>1, ToSetAppend
  <2>2. SortedBy(<<r>>, Unlike) /\ ToSet(<<r>>) = {r}
    <3>1. DOMAIN <<r>> = {1} /\ <<r>>[1] = r  OBVIOUS
    <3>2. QED  BY <3>1 DEF SortedBy, ToSet
  <2>3. \A a \in ToSet(Waiting) : <<a, r>> \in Unlike
    <3>1. ToSet(Waiting) \subseteq Held /\ Held \subseteq U!Requests
      BY UnaryTyped DEF Held, UnaryInv
    <3>2. QED  BY <3>1 DEF Unlike
  <2>4. SortedBy(Waiting \o <<r>>, Unlike)
    <3>1. SortedBy(Waiting, Unlike)  BY DEF UnaryInv
    <3>2. QED  BY <1>1, <1>2, <2>2, <2>3, <3>1, SortedConcat
  <2>5. QED  BY <1>2, <2>1, <2>4
<1>5. CASE U!HasRoom
  <2>1. channel.parked = <<>> /\ Len(channel.queue) < QueueSize  BY <1>5 DEF UnaryInv, U!HasRoom
  <2>2. /\ channel' \in UnaryChannels /\ channel'.queue = Append(channel.queue, r) /\ channel'.parked = channel.parked
    BY <1>1, <1>2, <1>5 DEF UnaryChannels
  <2>3. Waiting' = Append(Waiting, r)
    <3>1. channel.queue \o <<>> = channel.queue /\ Append(channel.queue, r) \o <<>> = Append(channel.queue, r)
      BY <1>1, <1>2, ConcatEmptySeq
    <3>2. QED  BY <2>1, <2>2, <3>1 DEF Waiting
  <2>4. Len(channel'.queue) <= QueueSize  BY <1>1, <1>2, <2>1, <2>2
  <2>5. channel'.parked = <<>>  BY <2>1, <2>2
  <2>6. QED  BY <1>3, <2>2, <2>3, <2>4, <2>5
<1>6. CASE ~U!HasRoom
  <2>1. /\ channel' \in UnaryChannels /\ channel'.parked = Append(channel.parked, r) /\ channel'.queue = channel.queue
    BY <1>1, <1>2, <1>6 DEF UnaryChannels
  <2>2. Waiting' = Append(Waiting, r)
    <3>1. channel.queue \o Append(channel.parked, r) = Append(channel.queue \o channel.parked, r)
      BY <1>1, RequestConcat
    <3>2. QED  BY <2>1, <3>1 DEF Waiting
  <2>3. ~U!HasRoom'  BY <1>6, <2>1 DEF U!HasRoom
  <2>4. QED  BY <1>1, <1>3, <2>1, <2>2, <2>3
<1>7. QED  BY <1>5, <1>6

\* A request enters the queue, waits beside it, or is refused.
LEMMA UnaryRequest == ASSUME UnaryInv, U!Request PROVE UnaryInv'
<1>1. PICK c \in Calls :
        LET r == <<c, peer[c].try>>
        IN /\ peer[c].pc = "send" /\ UNCHANGED <<app, phase, faults>>
           /\ \/ /\ peer' = U!Now(c, "wait")
                 /\ channel' = IF U!HasRoom
                                 THEN [channel EXCEPT !.queue = Append(@, r), !.open = @ \cup {r}]
                                 ELSE [channel EXCEPT !.parked = Append(@, r), !.open = @ \cup {r}]
              \/ peer' = U!Now(c, "refused") /\ UNCHANGED channel
  BY Zenon DEF U!Request
<1> DEFINE Sends == /\ peer' = U!Now(c, "wait")
                    /\ channel' = IF U!HasRoom
                         THEN [channel EXCEPT !.queue = Append(@, <<c, peer[c].try>>), !.open = @ \cup {<<c, peer[c].try>>}]
                         ELSE [channel EXCEPT !.parked = Append(@, <<c, peer[c].try>>), !.open = @ \cup {<<c, peer[c].try>>}]
<1>2. Sent[c] = peer[c].try - 1 /\ peer[c].try \in Nat \ {0} /\ peer[c].try <= Retries + 1
  BY <1>1, SentOf DEF NotSent
<1>3. CASE peer' = U!Now(c, "refused") /\ UNCHANGED channel
  <2> DEFINE n == [pc |-> "refused", try |-> peer[c].try]
  <2>1. n \in Callers /\ n.pc = "refused" /\ n.try = peer[c].try /\ peer' = [peer EXCEPT ![c] = n]
    BY <1>1, <1>3, NowCaller DEF U!Ends
  <2> HIDE DEF n
  <2>2. n.pc \in NotSent /\ Sent[c] <= n.try - 1 /\ n.pc \notin Results  BY <1>2, <2>1 DEF NotSent, Results
  <2>3. faults' \in 0 .. CallFaults  BY <1>1 DEF UnaryInv, UnaryTypes
  <2>4. QED  BY <1>1, <1>3, <2>1, <2>2, <2>3, UnaryCaller
<1>4. CASE Sends
  <2> DEFINE n == [pc |-> "wait", try |-> peer[c].try]
             r == <<c, peer[c].try>>
  <2>1. n \in Callers /\ n.pc = "wait" /\ n.try = peer[c].try /\ peer' = [peer EXCEPT ![c] = n]
    BY <1>1, <1>4, NowCaller DEF U!Ends
  <2> HIDE DEF n
  <2>2. /\ peer' \in [Calls -> Callers] /\ peer'[c] = n /\ \A d \in Calls : d # c => peer'[d] = peer[d]
    BY <2>1 DEF UnaryInv, UnaryTypes
  <2>3. /\ Held \in SUBSET U!Requests /\ app.made \in [Calls -> Nat] /\ Sent \in Attempts
    BY UnaryTyped DEF UnaryInv
  <2>4. Sent' \in Attempts  BY <2>2, SentTyped DEF Sent
  <2>5. Sent'[c] = peer[c].try /\ \A d \in Calls : d # c => Sent'[d] = Sent[d]
    BY <2>1, <2>2 DEF Sent, SentBy, NotSent
  <2>6. Sent'[c] = Sent[c] + 1  BY <1>2, <2>5
  <2>7. r \notin Held /\ Within(Held \cup {r}, app.made, Sent')
    <3>1. Within(Held, app.made, Sent)  BY DEF UnaryInv
    <3>2. <<c, Sent'[c]>> \notin Held /\ Within(Held \cup {<<c, Sent'[c]>>}, app.made, Sent')
      BY <2>3, <2>4, <2>5, <2>6, <3>1, WithinSent
    <3>3. QED  BY <2>5, <3>2
  <2>8. r \in U!Requests  BY <1>2, SizesAssumption DEF U!Requests
  <2>9. /\ channel' \in UnaryChannels /\ Len(channel'.queue) <= QueueSize
        /\ channel'.parked # <<>> => ~U!HasRoom'
        /\ SortedBy(Waiting', Unlike) /\ ToSet(Waiting') = ToSet(Waiting) \cup {r}
    <3>1. channel' = IF U!HasRoom THEN [channel EXCEPT !.queue = Append(@, r), !.open = @ \cup {r}]
                                  ELSE [channel EXCEPT !.parked = Append(@, r), !.open = @ \cup {r}]
      BY <1>4
    <3> HIDE DEF r
    <3>2. QED  BY Zenon, <2>7, <2>8, <3>1, UnaryWaits
  <2> HIDE DEF r
  <2>10. app' = app /\ phase' = phase /\ faults' = faults  BY <1>1
  <2>11. UnaryTypes'  BY <2>2, <2>9, <2>10 DEF UnaryInv, UnaryTypes
  <2>12. Held' = Held \cup {r}  BY <2>9, <2>10 DEF Held
  <2>13. app'.busy \cap ToSet(Waiting') = {}  BY <2>7, <2>9, <2>10 DEF UnaryInv, Held
  <2>14. \A d \in Calls : peer'[d].pc \in Results => app'.made[d] > 0
    BY <2>1, <2>2, <2>10 DEF UnaryInv, Results
  <2>15. Within(Held', app'.made, Sent')  BY <2>7, <2>10, <2>12
  <2>16. QED  BY <2>9, <2>11, <2>13, <2>14, <2>15 DEF UnaryInv
<1>5. QED  BY Zenon, <1>1, <1>3, <1>4

\* The first of the requests that wait is none of the others.
LEMMA UnlikeTail ==
    ASSUME NEW s \in Seq(U!Requests), s # <<>>, SortedBy(s, Unlike)
    PROVE  /\ Tail(s) \in Seq(U!Requests) /\ SortedBy(Tail(s), Unlike)
           /\ ToSet(s) = ToSet(Tail(s)) \cup {Head(s)} /\ Head(s) \notin ToSet(Tail(s))
<1> DEFINE t == Tail(s)
<1>1. /\ Len(s) \in Nat \ {0} /\ DOMAIN s = 1 .. Len(s) /\ Head(s) = s[1]
      /\ t \in Seq(U!Requests) /\ Len(t) = Len(s) - 1 /\ \A i \in 1 .. Len(t) : t[i] = s[i + 1]
  BY HeadTailProperties, EmptySeq
<1>2. DOMAIN t = 1 .. Len(t) /\ Len(t) \in Nat  BY <1>1
<1> HIDE DEF t
<1>3. \A i \in DOMAIN t : i \in Nat /\ i + 1 \in DOMAIN s /\ i + 1 > 1 /\ t[i] = s[i + 1]  BY <1>1, <1>2
<1>4. SortedBy(t, Unlike)
  <2>1. ASSUME NEW i \in DOMAIN t, NEW j \in DOMAIN t, i < j PROVE <<t[i], t[j]>> \in Unlike
    <3>1. i + 1 < j + 1  BY <1>3, <2>1
    <3>2. QED  BY <1>3, <3>1 DEF SortedBy
  <2>2. QED  BY <2>1 DEF SortedBy
<1>5. ASSUME NEW i \in DOMAIN t PROVE t[i] # Head(s)
  <2>1. 1 \in DOMAIN s /\ i + 1 \in DOMAIN s /\ 1 < i + 1  BY <1>1, <1>3
  <2>2. <<s[1], s[i + 1]>> \in Unlike  BY <2>1 DEF SortedBy
  <2>3. Head(s) = s[1] /\ t[i] = s[i + 1]  BY <1>1, <1>3
  <2>4. QED  BY <2>2, <2>3 DEF Unlike
<1>6. \A i \in DOMAIN s : i = 1 \/ (i - 1 \in DOMAIN t /\ t[i - 1] = s[i])
  <2>1. ASSUME NEW i \in DOMAIN s, i # 1 PROVE i - 1 \in DOMAIN t /\ t[i - 1] = s[i]
    <3>1. i \in 1 .. Len(s) /\ i - 1 \in 1 .. Len(t) /\ (i - 1) + 1 = i  BY <1>1, <2>1
    <3>2. QED  BY <1>2, <1>3, <3>1
  <2>2. QED  BY <2>1
<1>7. ToSet(s) = ToSet(t) \cup {Head(s)}
  <2>1. ToSet(s) \subseteq ToSet(t) \cup {Head(s)}  BY <1>1, <1>6 DEF ToSet
  <2>2. ToSet(t) \subseteq ToSet(s) /\ Head(s) \in ToSet(s)
    <3>1. 1 \in DOMAIN s  BY <1>1
    <3>2. QED  BY <1>1, <1>3, <3>1 DEF ToSet
  <2>3. QED  BY <2>1, <2>2
<1>8. Head(s) \notin ToSet(t)  BY <1>5 DEF ToSet
<1>9. QED  BY <1>1, <1>4, <1>7, <1>8 DEF t

\* The application is handed the first request; one that waits gets its place.
LEMMA UnaryYield == ASSUME UnaryInv, U!Yield PROVE UnaryInv'
<1> DEFINE q == channel.queue
           p == channel.parked
           f == U!First(p)
<1>1. /\ q # <<>> /\ app' = [app EXCEPT !.busy = @ \cup {Head(q)}]
      /\ channel' = [channel EXCEPT !.queue = Tail(@) \o f, !.parked = U!Rest(@)]
      /\ UNCHANGED <<peer, phase, faults>>
  BY DEF U!Yield
<1>2. /\ q \in Seq(U!Requests) /\ p \in Seq(U!Requests) /\ Waiting \in Seq(U!Requests) /\ channel \in UnaryChannels
      /\ Len(q) <= QueueSize /\ QueueSize \in Nat /\ app \in UnaryApps
  BY UnaryTyped, SizesAssumption DEF UnaryInv, UnaryTypes
<1>3. Head(q) \in U!Requests /\ Tail(q) \in Seq(U!Requests) /\ Len(Tail(q)) = Len(q) - 1 /\ Len(q) \in Nat \ {0}
  BY <1>1, <1>2, HeadTailProperties, EmptySeq
<1>4. /\ f \in Seq(U!Requests) /\ U!Rest(p) \in Seq(U!Requests) /\ (Tail(q) \o f) \o U!Rest(p) = Tail(q) \o p
      /\ p = <<>> => f = <<>> /\ U!Rest(p) = <<>>
      /\ p # <<>> => Len(f) = 1
      /\ p = <<>> => Len(f) = 0
  <2>1. CASE p = <<>>
    <3>1. f = <<>> /\ U!Rest(p) = <<>> /\ <<>> \in Seq(U!Requests) /\ Len(<<>>) = 0  BY <2>1 DEF U!First, U!Rest
    <3>2. Tail(q) \o <<>> = Tail(q)  BY <1>3, ConcatEmptySeq
    <3>3. QED  BY <2>1, <3>1, <3>2
  <2>2. CASE p # <<>>
    <3>1. f = <<Head(p)>> /\ U!Rest(p) = Tail(p) /\ Head(p) \in U!Requests /\ Tail(p) \in Seq(U!Requests)
      BY <1>2, <2>2, HeadTailProperties DEF U!First, U!Rest
    <3>2. Append(Tail(q), Head(p)) \o Tail(p) = Tail(q) \o p  BY <1>2, <1>3, <2>2, MoveHead
    <3>3. Append(Tail(q), Head(p)) = Tail(q) \o <<Head(p)>> /\ <<Head(p)>> \in Seq(U!Requests) /\ Len(<<Head(p)>>) = 1
      BY <1>3, <3>1, AppendIsConcat
    <3>4. QED  BY <2>2, <3>1, <3>2, <3>3
  <2>3. QED  BY <2>1, <2>2
<1>5. Head(Waiting) = Head(q) /\ Tail(Waiting) = Tail(q) \o p /\ Waiting # <<>>
  BY <1>1, <1>2, TailConcat DEF Waiting
<1> DEFINE t == Tail(q) \o f
<1>6. t \in Seq(U!Requests) /\ Len(t) = Len(q) - 1 + Len(f)
  <2>1. Tail(q) \in Seq(U!Requests) /\ f \in Seq(U!Requests) /\ Len(Tail(q)) = Len(q) - 1  BY <1>3, <1>4
  <2> HIDE DEF q, f
  <2>2. QED  BY <2>1, ConcatProperties
<1>7. channel' = [channel EXCEPT !.queue = t, !.parked = U!Rest(p)]  BY <1>1, <1>2 DEF UnaryChannels
<1> HIDE DEF t
<1>8. channel' \in UnaryChannels /\ channel'.queue = t /\ channel'.parked = U!Rest(p)
  BY <1>2, <1>4, <1>6, <1>7 DEF UnaryChannels
<1>9. Waiting' = Tail(Waiting)  BY <1>4, <1>5, <1>8 DEF Waiting, t
<1>10. /\ Tail(Waiting) \in Seq(U!Requests) /\ SortedBy(Tail(Waiting), Unlike)
       /\ ToSet(Waiting) = ToSet(Tail(Waiting)) \cup {Head(q)} /\ Head(q) \notin ToSet(Tail(Waiting))
  <2>1. SortedBy(Waiting, Unlike)  BY DEF UnaryInv
  <2>2. QED  BY <1>2, <1>5, <2>1, UnlikeTail
<1>11. app' \in UnaryApps /\ app'.busy = app.busy \cup {Head(q)} /\ app'.made = app.made
  BY <1>1, <1>2, <1>3 DEF UnaryApps
<1>12. Len(channel'.queue) <= QueueSize /\ (channel'.parked # <<>> => ~U!HasRoom')
  <2>1. CASE p = <<>>
    <3>1. Len(t) = Len(q) - 1 /\ U!Rest(p) = <<>>  BY <1>3, <1>4, <1>6, <2>1
    <3>2. QED  BY <1>2, <1>3, <1>8, <3>1
  <2>2. CASE p # <<>>
    <3>1. ~(Len(q) < QueueSize)  BY <2>2 DEF UnaryInv, U!HasRoom
    <3>2. Len(t) = Len(q)
      <4>1. Len(f) = 1 /\ Len(q) \in Nat /\ Len(t) = Len(q) - 1 + Len(f)  BY <1>3, <1>4, <1>6, <2>2
      <4> HIDE DEF q, f
      <4>2. QED  BY <4>1
    <3>3. QED  BY <1>2, <1>3, <1>8, <3>1, <3>2 DEF U!HasRoom
  <2>3. QED  BY <2>1, <2>2
<1>13. peer' = peer /\ phase' = phase /\ faults' = faults  BY <1>1
<1> HIDE DEF q, p, f
<1>14. UnaryTypes'  BY <1>8, <1>11, <1>12, <1>13 DEF UnaryInv, UnaryTypes
<1>15. Held' = Held  BY <1>9, <1>10, <1>11 DEF Held
<1>16. app'.busy \cap ToSet(Waiting') = {}  BY <1>9, <1>10, <1>11 DEF UnaryInv
<1>17. SortedBy(Waiting', Unlike)  BY <1>9, <1>10
<1>18. Within(Held', app'.made, Sent')  BY <1>11, <1>13, <1>15 DEF UnaryInv, Sent
<1>19. \A d \in Calls : peer'[d].pc \in Results => app'.made[d] > 0  BY <1>11, <1>13 DEF UnaryInv
<1>20. QED  BY <1>12, <1>14, <1>16, <1>17, <1>18, <1>19 DEF UnaryInv

\* An answer reaches a caller that waits for it, or nobody.
LEMMA UnaryAnswer ==
    ASSUME UnaryInv, NEW r \in U!Requests, NEW a \in {"value", "error", "unimplemented"}
    PROVE  LET p == U!Answer(peer, r, a)
           IN /\ p \in [Calls -> Callers] /\ SentBy(p) = Sent
              /\ \A c \in Calls : p[c] = peer[c] \/ c = r[1]
<1>1. r[1] \in Calls /\ peer \in [Calls -> Callers]  BY DEF U!Requests, UnaryInv, UnaryTypes
<1>2. CASE peer[r[1]].pc = "wait" /\ peer[r[1]].try = r[2]
  <2> DEFINE c == r[1]
             n == [pc |-> a, try |-> peer[c].try]
  <2>1. n \in Callers /\ n.pc = a /\ n.try = peer[c].try /\ U!Now(c, a) = [peer EXCEPT ![c] = n]
    BY <1>1, NowCaller DEF U!Ends
  <2> HIDE DEF n
  <2>2. U!Answer(peer, r, a) = [peer EXCEPT ![c] = n]  BY <1>2, <2>1 DEF U!Answer, U!Now
  <2> DEFINE p == [peer EXCEPT ![c] = n]
  <2>3. p \in [Calls -> Callers] /\ p[c] = n /\ \A d \in Calls : d # c => p[d] = peer[d]  BY <1>1, <2>1
  <2> HIDE DEF p
  <2>4. \A d \in Calls : (IF p[d].pc \in NotSent THEN p[d].try - 1 ELSE p[d].try)
                         = IF peer[d].pc \in NotSent THEN peer[d].try - 1 ELSE peer[d].try
    BY <1>2, <2>1, <2>3 DEF NotSent
  <2>5. SentBy(p) = Sent  BY <2>4 DEF Sent, SentBy
  <2>6. QED  BY <2>2, <2>3, <2>5 DEF p
<1>3. CASE ~(peer[r[1]].pc = "wait" /\ peer[r[1]].try = r[2])
  BY <1>1, <1>3 DEF U!Answer, Sent
<1>4. QED  BY <1>2, <1>3

\* A request is released: its caller learns what the handler did, unless it
\* waits no more.
LEMMA UnaryReleased == ASSUME UnaryInv, U!Released PROVE UnaryInv'
<1>1. PICK r \in app.busy : (U!GrpcReleased(r) \/ U!ReviewReleased(r)) /\ phase' = phase  BY DEF U!Released
<1>2. /\ Held \in SUBSET U!Requests /\ app.made \in [Calls -> Nat] /\ Sent \in Attempts
      /\ r \in U!Requests /\ r[1] \in Calls /\ app \in UnaryApps /\ channel \in UnaryChannels
      /\ peer \in [Calls -> Callers]
  BY UnaryTyped DEF UnaryInv, UnaryTypes, U!Requests
<1> DEFINE made == [app.made EXCEPT ![r[1]] = @ + 1]
<1>3. made \in [Calls -> Nat] /\ made[r[1]] > 0 /\ \A c \in Calls : app.made[c] > 0 => made[c] > 0
  BY <1>2
<1>4. /\ peer' \in [Calls -> Callers] /\ Sent' = Sent /\ \A c \in Calls : peer'[c] = peer[c] \/ c = r[1]
  <2>1. peer' = peer \/ \E a \in {"value", "error", "unimplemented"} : peer' = U!Answer(peer, r, a)
    BY <1>1 DEF U!GrpcReleased, U!ReviewReleased
  <2>2. QED  BY <1>2, <2>1, UnaryAnswer DEF Sent
<1>5. faults' \in 0 .. CallFaults
  BY <1>1, SizesAssumption DEF U!GrpcReleased, U!ReviewReleased, U!Fault, U!NoFault, UnaryInv, UnaryTypes
<1>6. /\ channel' \in UnaryChannels /\ channel'.queue = channel.queue /\ channel'.parked = channel.parked
  <2>1. channel' = [channel EXCEPT !.open = @ \ {r}]  BY <1>1 DEF U!GrpcReleased, U!ReviewReleased, U!Closed
  <2>2. QED  BY <1>2, <2>1 DEF UnaryChannels
<1>7. app' \in UnaryApps /\ app'.busy = app.busy \ {r} /\ app'.made = made
  <2>1. U!Ran(r) = [app EXCEPT !.busy = @ \ {r}, !.made = made]  BY <1>2 DEF U!Ran, UnaryApps
  <2> HIDE DEF made
  <2>2. U!Ran(r) \in UnaryApps /\ U!Ran(r).busy = app.busy \ {r} /\ U!Ran(r).made = made
    BY <1>2, <1>3, <2>1 DEF UnaryApps
  <2>3. app' = U!Ran(r) \/ app' = [U!Ran(r) EXCEPT !.silent = @ \cup {r[1]}]
    BY <1>1 DEF U!GrpcReleased, U!ReviewReleased
  <2>4. QED  BY <1>2, <2>2, <2>3 DEF UnaryApps
<1>8. Waiting' = Waiting  BY <1>6 DEF Waiting
<1>9. Held' = Held \ {r} /\ r \in Held /\ app'.busy \cap ToSet(Waiting') = {}
  BY <1>7, <1>8 DEF Held, UnaryInv
<1>10. Within(Held \ {r}, made, Sent)
  <2>1. Within(Held, app.made, Sent)  BY DEF UnaryInv
  <2>2. QED  BY <1>2, <1>9, <2>1, WithinRan
<1> HIDE DEF made
<1>11. Within(Held', app'.made, Sent')  BY <1>4, <1>7, <1>9, <1>10
<1>12. \A c \in Calls : peer'[c].pc \in Results => app'.made[c] > 0  BY <1>3, <1>4, <1>7 DEF UnaryInv
<1>13. UnaryTypes'  BY <1>1, <1>4, <1>5, <1>6, <1>7 DEF UnaryInv, UnaryTypes
<1>14. channel'.parked # <<>> => ~U!HasRoom'  BY <1>6 DEF UnaryInv, U!HasRoom
<1>15. QED  BY <1>8, <1>9, <1>11, <1>12, <1>13, <1>14 DEF UnaryInv

\* The server is disposed, and whoever waits is told.
LEMMA UnaryStop == ASSUME UnaryInv, U!Stop PROVE UnaryInv'
<1> DEFINE P == ToSet(channel.parked)
           Hit(c) == \E r \in P : r[1] = c /\ peer[c].pc = "wait" /\ peer[c].try = r[2]
<1>0. U!ToSet(channel.parked) = P  BY DEF U!ToSet, ToSet
<1>1. /\ phase' = "stop" /\ UNCHANGED <<app, faults>>
      /\ peer' = [c \in Calls |-> IF Hit(c) THEN [peer[c] EXCEPT !.pc = "refused"] ELSE peer[c]]
      /\ channel' = [channel EXCEPT !.parked = <<>>, !.open = @ \ P]
  BY <1>0 DEF U!Stop, U!Refused
<1>2. /\ channel.queue \in Seq(U!Requests) /\ channel.parked \in Seq(U!Requests) /\ channel \in UnaryChannels
      /\ ToSet(Waiting) = ToSet(channel.queue) \cup P
      /\ Held \in SUBSET U!Requests /\ app.made \in [Calls -> Nat] /\ Sent \in Attempts
      /\ peer \in [Calls -> Callers]
  BY UnaryTyped DEF UnaryInv, UnaryTypes
<1>3. /\ SortedBy(channel.queue, Unlike) /\ ToSet(channel.queue) \cap P = {}
  <2>1. SortedBy(channel.queue \o channel.parked, Unlike)  BY DEF UnaryInv, Waiting
  <2>2. /\ SortedBy(channel.queue, Unlike) /\ \A a \in ToSet(channel.queue), b \in P : <<a, b>> \in Unlike
    BY <1>2, <2>1, SortedConcat
  <2>3. QED  BY <2>2 DEF Unlike
<1>4. channel' \in UnaryChannels /\ channel'.queue = channel.queue /\ channel'.parked = <<>>
  <2>1. <<>> \in Seq(U!Requests)  OBVIOUS
  <2>2. QED  BY <1>1, <1>2, <2>1 DEF UnaryChannels
<1>5. Waiting' = channel.queue  BY <1>2, <1>4, ConcatEmptySeq DEF Waiting
<1>6. /\ peer' \in [Calls -> Callers]
      /\ \A c \in Calls : peer'[c].try = peer[c].try /\ peer'[c].pc = IF Hit(c) THEN "refused" ELSE peer[c].pc
  <2>1. \A c \in Calls : peer[c] \in Callers  BY <1>2
  <2>2. \A x \in Callers : /\ [x EXCEPT !.pc = "refused"] \in Callers /\ [x EXCEPT !.pc = "refused"].try = x.try
                           /\ [x EXCEPT !.pc = "refused"].pc = "refused"
    BY DEF Callers, U!Ends
  <2> HIDE DEF Hit
  <2>3. QED  BY <1>1, <2>1, <2>2
<1>7. Sent' \in Attempts  BY <1>6, SentTyped DEF Sent
<1>8. Held' = ToSet(channel.queue) \cup app.busy /\ Held' \in SUBSET Held
  BY <1>1, <1>2, <1>5 DEF Held
<1>9. P \cap Held' = {} /\ P \subseteq Held
  BY <1>2, <1>3, <1>8 DEF Held, UnaryInv
<1>10. ASSUME NEW c \in Calls
       PROVE  Sent[c] <= Sent'[c] \/ (Sent'[c] = Sent[c] - 1 /\ <<c, Sent[c]>> \in Held \ Held')
  <2>1. /\ Sent[c] = IF peer[c].pc \in NotSent THEN peer[c].try - 1 ELSE peer[c].try
        /\ Sent'[c] = IF peer'[c].pc \in NotSent THEN peer'[c].try - 1 ELSE peer'[c].try
        /\ Sent[c] \in Nat
    BY <1>2 DEF Sent, SentBy, Attempts
  <2>2. CASE Hit(c)
    <3>1. PICK r \in P : r[1] = c /\ peer[c].pc = "wait" /\ peer[c].try = r[2]  BY <2>2
    <3>2. r \in U!Requests  BY <1>2, <1>9
    <3>3. r = <<c, peer[c].try>>  BY <3>1, <3>2 DEF U!Requests
    <3>4. peer[c].pc \notin NotSent /\ "refused" \in NotSent  BY <3>1 DEF NotSent
    <3>5. peer'[c].pc = "refused" /\ peer'[c].try = peer[c].try  BY <1>6, <2>2
    <3>6. Sent[c] = peer[c].try /\ Sent'[c] = peer[c].try - 1  BY <2>1, <3>4, <3>5
    <3> HIDE DEF P, Hit
    <3>7. r \in Held \ Held'  BY <1>9
    <3>8. QED  BY <3>3, <3>6, <3>7
  <2>3. CASE ~Hit(c)
    <3>1. peer'[c].pc = peer[c].pc /\ peer'[c].try = peer[c].try  BY <1>6, <2>3
    <3>2. QED  BY <2>1, <3>1
  <2>4. QED  BY <2>2, <2>3
<1> HIDE DEF P
<1>11. Within(Held', app.made, Sent')
  <2> DEFINE G == Held'
             new == Sent'
  <2>1. /\ G \in SUBSET Held /\ new \in Attempts
        /\ \A c \in Calls : Sent[c] <= new[c] \/ (new[c] = Sent[c] - 1 /\ <<c, Sent[c]>> \in Held \ G)
    BY <1>7, <1>8, <1>10
  <2>2. Within(Held, app.made, Sent)  BY DEF UnaryInv
  <2> HIDE DEF G, new
  <2>3. Within(G, app.made, new)  BY <1>2, <2>1, <2>2, WithinLess
  <2>4. QED  BY <2>3 DEF G, new
<1>12. \A c \in Calls : peer'[c].pc \in Results => app.made[c] > 0
  BY <1>6 DEF UnaryInv, Results
<1>13. app' = app /\ faults' = faults /\ phase' = "stop"  BY <1>1
<1>14. UnaryTypes'  BY <1>4, <1>6, <1>13 DEF UnaryInv, UnaryTypes
<1>15. SortedBy(Waiting', Unlike) /\ app'.busy \cap ToSet(Waiting') = {}
  BY <1>2, <1>3, <1>5, <1>13 DEF UnaryInv
<1>16. Within(Held', app'.made, Sent')  BY <1>11, <1>13
<1>17. QED  BY <1>4, <1>12, <1>13, <1>14, <1>15, <1>16 DEF UnaryInv

\* The iteration is over.
LEMMA UnaryEnd == ASSUME UnaryInv, U!End PROVE UnaryInv'
<1>1. phase' = "end" /\ UNCHANGED <<peer, channel, app, faults>>  BY DEF U!End
<1>2. UnaryTypes'  BY <1>1 DEF UnaryInv, UnaryTypes
<1>3. Waiting' = Waiting /\ Held' = Held /\ Sent' = Sent  BY <1>1 DEF Waiting, Held, Sent
<1>4. QED  BY <1>1, <1>2, <1>3 DEF UnaryInv, U!HasRoom

\* No step of the unary calls breaks the invariant.
LEMMA UnaryStep == ASSUME UnaryInv, U!Next PROVE UnaryInv'
BY UnaryConnect, UnaryRequest, UnaryYield, UnaryUnavailable, UnaryDeadline, UnaryReleased, UnaryStop,
   UnaryEnd
DEF U!Next, U!Progress

\* What the invariant is for.
LEMMA UnaryImplies == ASSUME UnaryInv PROVE U!TypeOK /\ U!Faithful
<1>1. U!TypeOK
  BY DEF UnaryInv, UnaryTypes, UnaryChannels, UnaryApps, Callers, U!TypeOK, U!SharedTypeOK
<1>2. /\ Held \in SUBSET U!Requests /\ app.busy \in SUBSET U!Requests /\ app.made \in [Calls -> Nat]
      /\ app.busy \subseteq Held
  BY UnaryTyped DEF UnaryInv, Held
<1>3. ASSUME NEW c \in Calls
      PROVE  /\ peer[c].pc \in Results => app.made[c] > 0
             /\ peer[c].pc = "refused" /\ peer[c].try = 1 => app.made[c] = 0 /\ ~\E r \in app.busy : r[1] = c
             /\ app.made[c] + Cardinality(Of(c, app.busy)) <= peer[c].try
  <2>1. /\ app.made[c] + Cardinality(Of(c, Held)) <= Sent[c] /\ Cardinality(Of(c, Held)) \in Nat
        /\ IsFiniteSet(Of(c, Held)) /\ Cardinality(Of(c, app.busy)) \in Nat /\ app.made[c] \in Nat
    BY <1>2, OfFinite DEF UnaryInv, Within
  <2>2. /\ Sent[c] = IF peer[c].pc \in NotSent THEN peer[c].try - 1 ELSE peer[c].try
        /\ peer[c].try \in Nat \ {0}
    BY SentOf
  <2>3. Cardinality(Of(c, app.busy)) <= Cardinality(Of(c, Held))
    <3>1. Of(c, app.busy) \in SUBSET Of(c, Held)  BY <1>2 DEF Of
    <3>2. QED  BY <2>1, <3>1, FS_Subset
  <2>4. app.made[c] + Cardinality(Of(c, app.busy)) <= peer[c].try  BY <2>1, <2>2, <2>3
  <2>5. ASSUME peer[c].pc = "refused", peer[c].try = 1 PROVE app.made[c] = 0 /\ ~\E r \in app.busy : r[1] = c
    <3>1. Sent[c] = 0  BY <2>2, <2>5 DEF NotSent
    <3>2. app.made[c] = 0 /\ Cardinality(Of(c, Held)) = 0  BY <2>1, <3>1
    <3>3. Of(c, Held) = {}  BY <2>1, <3>2, FS_EmptySet
    <3>4. QED  BY <1>2, <3>2, <3>3 DEF Of
  <2>6. peer[c].pc \in Results => app.made[c] > 0  BY DEF UnaryInv
  <2>7. QED  BY <2>4, <2>5, <2>6
<1>4. \A c \in Calls : U!Cardinality({r \in app.busy : r[1] = c}) = Cardinality(Of(c, app.busy))
  BY DEF U!Cardinality, Cardinality, Of
<1>5. U!Faithful  BY <1>3, <1>4 DEF U!Faithful, Results
<1>6. QED  BY <1>1, <1>5

(***************************************************************************)
(* The stream.                                                             *)
(***************************************************************************)
StreamPeers == [pc: {"busy", "await", "end", "fail"}, got: Seq(S!Chunk), slow: BOOLEAN]
Wired == S!Chunk \cup {-1, -2}
StreamChannels == [out: Pipe!Pipes(S!Chunk), in: Pipe!Pipes(S!Chunk), wire: Seq(Wired), writing: S!Chunk \cup {0},
                   again: SUBSET S!Chunk, ended: BOOLEAN, cancelled: BOOLEAN, full: BOOLEAN]
StreamTypes ==
  /\ peer \in StreamPeers /\ channel \in StreamChannels
  /\ app \in [pc: {"run", "closed", "failed"}, next: 1 .. Chunks + 1]
  /\ phase \in {"run", "stop"} /\ faults \in 0 .. MaxFaults

\* Chunks are positive, nothing else that is in a pipe or on the wire is.
Less(a, b) == a > 0 /\ b > 0 => a < b
Earlier == {e \in Int \X Int : Less(e[1], e[2])}

\* What is on its way to the client, from what it was yielded to what the
\* handler sends next, is in the order in which it was sent.
Flow(G, ir, iv, H, or, ov, n) ==
  /\ \A a \in G : /\ Less(a, ir) /\ Less(a, iv) /\ Less(a, or) /\ Less(a, ov) /\ Less(a, n)
                  /\ \A b \in H : Less(a, b)
  /\ \A b \in H : Less(ir, b) /\ Less(iv, b) /\ Less(b, or) /\ Less(b, ov) /\ Less(b, n)
  /\ Less(ir, iv) /\ Less(ir, or) /\ Less(ir, ov) /\ Less(ir, n)
  /\ Less(iv, or) /\ Less(iv, ov) /\ Less(iv, n) /\ Less(or, ov) /\ Less(or, n) /\ Less(ov, n)
InOrder(got, ir, iv, wire, or, ov, n) ==
  /\ SortedBy(got, Earlier) /\ SortedBy(wire, Earlier)
  /\ Flow(ToSet(got), ir, iv, ToSet(wire), or, ov, n)

AllInOrder == InOrder(peer.got, channel.in.result, channel.in.value, channel.wire,
                      channel.out.result, channel.out.value, app.next)

\* None is missing: each has the number of those before it.  k chunks are on
\* the wire.
One(x) == IF x > 0 THEN 1 ELSE 0
NoneMissing(g, ir, wire, k, or, ov, n) ==
  /\ ir = 0 \/ ir = g + 1
  /\ \A j \in 1 .. k : wire[j] = g + One(ir) + j
  /\ or > 0 => or = g + One(ir) + k + 1
  /\ ov > 0 => ov = g + One(ir) + k + One(or) + 1
  /\ n = g + One(ir) + k + One(or) + One(ov) + 1
Yielded ==
  /\ \A i \in DOMAIN peer.got : peer.got[i] = i
  /\ channel.in.result > 0 => channel.in.result = Len(peer.got) + 1

\* A client that keeps up waits for a chunk whenever one arrives.
InOfPipes(pc, in) ==
  /\ in.value = 0 /\ ~in.thrown /\ (in.reading => in.result = 0 /\ ~in.closed)
  /\ in.closed <=> in.result \in {-1, -2} \/ pc \in {"end", "fail"}
  /\ pc = "busy" => ~in.reading /\ in.result = 0
OutOfPipes(pc, writing, out) ==
  /\ ~out.thrown /\ out.result # -2 /\ (out.reading => out.result = 0 /\ out.value = 0 /\ ~out.closed)
  /\ out.closed => pc = "closed" /\ out.value = 0
  /\ out.result = -1 => out.closed
  /\ writing # 0 => out.result = 0 /\ ~out.reading
Ended ==
  peer.pc = "end" \/ channel.in.result = -1 => app.pc = "closed" /\ Len(peer.got) = app.next - 1
Underway ==
  IF channel.cancelled THEN channel.wire # <<>> /\ Head(channel.wire) = -2
  ELSE IF channel.ended
  THEN /\ channel.wire # <<>> /\ channel.wire[Len(channel.wire)] = -1
       /\ channel.out.result = 0 /\ channel.out.value = 0 /\ app.pc = "closed"
       /\ NoneMissing(Len(peer.got), channel.in.result, channel.wire, Len(channel.wire) - 1, 0, 0, app.next)
  ELSE NoneMissing(Len(peer.got), channel.in.result, channel.wire, Len(channel.wire),
                   channel.out.result, channel.out.value, app.next)
KeptUp ==
  /\ InOfPipes(peer.pc, channel.in) /\ OutOfPipes(app.pc, channel.writing, channel.out)
  /\ Yielded /\ Ended /\ (~channel.in.closed => Underway)

StreamInv ==
  /\ StreamTypes
  /\ ~channel.full => channel.again = {} /\ AllInOrder
  /\ ~channel.full /\ ~peer.slow /\ phase = "run" => KeptUp

\* What is read from the types.
LEMMA StreamTyped ==
    ASSUME StreamTypes
    PROVE  /\ channel.out \in Pipe!Pipes(S!Chunk) /\ channel.in \in Pipe!Pipes(S!Chunk)
           /\ channel.wire \in Seq(Wired) /\ channel.wire \in Seq(Int)
           /\ channel.in.result \in S!Chunk \cup {0, -1, -2} /\ channel.in.value \in S!Chunk \cup {0}
           /\ channel.out.result \in S!Chunk \cup {0, -1, -2} /\ channel.out.value \in S!Chunk \cup {0}
           /\ channel.writing \in S!Chunk \cup {0}
           /\ peer.got \in Seq(S!Chunk) /\ peer.got \in Seq(Int) /\ app.next \in 1 .. Chunks + 1 /\ app.next \in Nat \ {0}
           /\ \A x \in S!Chunk : x \in Nat \ {0}
           /\ Chunks \in Nat \ {0}
<1>1. Chunks \in Nat \ {0}  BY SizesAssumption
<1>2. \A x \in S!Chunk : x \in Nat \ {0} /\ x \in Int  BY <1>1 DEF S!Chunk
<1>3. /\ channel.out \in Pipe!Pipes(S!Chunk) /\ channel.in \in Pipe!Pipes(S!Chunk)
      /\ channel.wire \in Seq(Wired) /\ channel.writing \in S!Chunk \cup {0} /\ peer.got \in Seq(S!Chunk)
      /\ app.next \in 1 .. Chunks + 1
  BY DEF StreamTypes, StreamPeers, StreamChannels
<1>4. Wired \subseteq Int /\ S!Chunk \subseteq Int  BY <1>2 DEF Wired
<1>5. channel.wire \in Seq(Int) /\ peer.got \in Seq(Int)
  <2>1. \A A, B : A \subseteq B => Seq(A) \subseteq Seq(B)  OBVIOUS
  <2>2. QED  BY <1>3, <1>4, <2>1
<1>6. QED  BY <1>1, <1>2, <1>3, <1>5, PipeTypes

\* What a conversation that begins has on its way.
LEMMA StreamInit == ASSUME S!Init PROVE StreamInv
<1>1. PICK full, slow \in BOOLEAN :
        /\ phase = "run" /\ faults = 0 /\ peer = [pc |-> "await", got |-> <<>>, slow |-> slow]
        /\ channel = [out |-> Pipe!Ask(Pipe!NewPipe), in |-> Pipe!Ask(Pipe!NewPipe), wire |-> <<>>, writing |-> 0,
                      again |-> {}, ended |-> FALSE, cancelled |-> FALSE, full |-> full]
        /\ app = [pc |-> "run", next |-> 1]
  BY PipeNames DEF S!Init, S!SharedInit
<1> DEFINE q == Pipe!Ask(Pipe!NewPipe)
<1>2. q \in Pipe!Pipes(S!Chunk) /\ ~q.closed /\ q.reading /\ ~q.thrown /\ q.value = 0 /\ q.result = 0
  BY PipeNew
<1> HIDE DEF q
<1>3. <<>> \in Seq(S!Chunk) /\ <<>> \in Seq(Wired) /\ Chunks \in Nat \ {0} /\ MaxFaults \in Nat
      /\ Len(<<>>) = 0 /\ DOMAIN <<>> = {}
  BY SizesAssumption
<1>4. StreamTypes
  BY <1>1, <1>2, <1>3 DEF StreamTypes, StreamPeers, StreamChannels, q
<1>5. /\ channel.in = q /\ channel.out = q /\ channel.wire = <<>> /\ peer.got = <<>> /\ app.next = 1 /\ channel.again = {}
      /\ ~channel.ended /\ ~channel.cancelled /\ channel.writing = 0 /\ peer.pc = "await" /\ app.pc = "run"
  BY <1>1 DEF q
<1>6. InOrder(<<>>, 0, 0, <<>>, 0, 0, 1)
  BY <1>3 DEF InOrder, SortedBy, ToSet, Flow, Less
<1>8. KeptUp
  <2>1. InOfPipes(peer.pc, channel.in) /\ OutOfPipes(app.pc, channel.writing, channel.out)
    BY <1>2, <1>5 DEF InOfPipes, OutOfPipes
  <2>2. Yielded  BY <1>2, <1>3, <1>5 DEF Yielded
  <2>3. Underway
    <3>1. /\ Len(peer.got) = 0 /\ channel.in.result = 0 /\ channel.out.result = 0 /\ channel.out.value = 0
          /\ Len(channel.wire) = 0 /\ app.next = 1
      BY <1>2, <1>3, <1>5
    <3>2. NoneMissing(0, 0, channel.wire, 0, 0, 0, 1)  BY DEF NoneMissing, One
    <3>3. QED  BY <1>5, <3>1, <3>2 DEF Underway
  <2>4. Ended  BY <1>2, <1>5 DEF Ended
  <2>5. QED  BY <2>1, <2>2, <2>3, <2>4 DEF KeptUp
<1>9. AllInOrder  BY <1>2, <1>5, <1>6 DEF AllInOrder
<1>10. QED  BY <1>4, <1>5, <1>8, <1>9 DEF StreamInv

\* What is dropped from the flow leaves it in order,
LEMMA FlowDrops ==
    ASSUME NEW G, NEW ir \in Int, NEW iv \in Int, NEW C, NEW or \in Int, NEW ov \in Int, NEW n \in Int,
           Flow(G, ir, iv, C, or, ov, n), G \subseteq Int, C \subseteq Int,
           NEW ir2 \in Int, NEW iv2 \in Int, NEW or2 \in Int, NEW ov2 \in Int, NEW D \in SUBSET C,
           ir2 = ir \/ ir2 <= 0, iv2 = iv \/ iv2 <= 0, or2 = or \/ or2 <= 0, ov2 = ov \/ ov2 <= 0
    PROVE  Flow(G, ir2, iv2, D, or2, ov2, n)
<1>1. \A a, b \in Int : a <= 0 \/ b <= 0 => Less(a, b)  BY DEF Less
<1>2. D \subseteq Int  OBVIOUS
<1>3. \A a \in G : /\ Less(a, ir2) /\ Less(a, iv2) /\ Less(a, or2) /\ Less(a, ov2) /\ Less(a, n)
                   /\ \A b \in D : Less(a, b)
  BY <1>1 DEF Flow
<1>4. \A b \in D : Less(ir2, b) /\ Less(iv2, b) /\ Less(b, or2) /\ Less(b, ov2) /\ Less(b, n)
  BY <1>1 DEF Flow
<1>5. /\ Less(ir2, iv2) /\ Less(ir2, or2) /\ Less(ir2, ov2) /\ Less(ir2, n)
      /\ Less(iv2, or2) /\ Less(iv2, ov2) /\ Less(iv2, n) /\ Less(or2, ov2) /\ Less(or2, n) /\ Less(ov2, n)
  BY <1>1 DEF Flow
<1>6. QED  BY <1>3, <1>4, <1>5 DEF Flow

\* and so does a value that moves on to the next place, or that is sent.
LEMMA FlowMoves ==
    ASSUME NEW G, NEW ir \in Int, NEW iv \in Int, NEW C, NEW or \in Int, NEW ov \in Int, NEW n \in Int,
           Flow(G, ir, iv, C, or, ov, n), G \subseteq Int, C \subseteq Int
    PROVE  /\ Flow(G \cup {ir}, 0, iv, C, or, ov, n) /\ Flow(G, iv, 0, C, or, ov, n)
           /\ Flow(G, ir, iv, C \cup {or}, 0, ov, n) /\ Flow(G, ir, iv, C, ov, 0, n)
           /\ n > 0 => Flow(G, ir, iv, C, or, n, n + 1) /\ Flow(G, ir, iv, C, n, 0, n + 1)
<1>1. \A a, b \in Int : a <= 0 \/ b <= 0 => Less(a, b)  BY DEF Less
<1>2. Flow(G \cup {ir}, 0, iv, C, or, ov, n)  BY <1>1 DEF Flow
<1>3. Flow(G, iv, 0, C, or, ov, n)  BY <1>1 DEF Flow
<1>4. Flow(G, ir, iv, C \cup {or}, 0, ov, n)  BY <1>1 DEF Flow
<1>5. Flow(G, ir, iv, C, ov, 0, n)  BY <1>1 DEF Flow
<1>6. ASSUME n > 0 PROVE Flow(G, ir, iv, C, or, n, n + 1) /\ Flow(G, ir, iv, C, n, 0, n + 1)
  <2>1. \A a \in Int : Less(a, n) => Less(a, n + 1)  BY <1>6 DEF Less
  <2>2. Less(n, n + 1) /\ n + 1 \in Int  BY DEF Less
  <2>3. QED  BY <1>1, <2>1, <2>2 DEF Flow
<1>7. QED  BY <1>2, <1>3, <1>4, <1>5, <1>6

\* The first of the wire moves on to the client.
LEMMA FlowArrives ==
    ASSUME NEW G, NEW ir \in Int, NEW iv \in Int, NEW C, NEW or \in Int, NEW ov \in Int, NEW n \in Int,
           Flow(G, ir, iv, C, or, ov, n), G \subseteq Int, C \subseteq Int,
           NEW x \in C, NEW D \in SUBSET C, \A b \in D : Less(x, b)
    PROVE  Flow(G, x, 0, D, or, ov, n) /\ Flow(G, ir, x, D, or, ov, n)
<1>1. \A a, b \in Int : a <= 0 \/ b <= 0 => Less(a, b)  BY DEF Less
<1>2. D \subseteq Int /\ x \in Int  OBVIOUS
<1>3. Flow(G, x, 0, D, or, ov, n)  BY <1>1, <1>2 DEF Flow
<1>4. Flow(G, ir, x, D, or, ov, n)  BY <1>1, <1>2 DEF Flow
<1>5. QED  BY <1>3, <1>4

\* The same for the numbers.
LEMMA NumbersMove ==
    ASSUME NEW g \in Nat, NEW ir \in Int, NEW wire, NEW k \in Nat, NEW or \in Int, NEW ov \in Int, NEW n \in Int, n > 0,
           NoneMissing(g, ir, wire, k, or, ov, n)
    PROVE  /\ ov = 0 => NoneMissing(g, ir, wire, k, or, n, n + 1)
           /\ or <= 0 /\ ov = 0 => NoneMissing(g, ir, wire, k, n, 0, n + 1)
           /\ or <= 0 => NoneMissing(g, ir, wire, k, ov, 0, n)
           /\ or <= 0 => \A z \in Int : z <= 0 => NoneMissing(g, ir, wire, k, z, ov, n)
           /\ ir > 0 => NoneMissing(g + 1, 0, wire, k, or, ov, n) /\ ir = g + 1
<1>1. ASSUME ov = 0 PROVE NoneMissing(g, ir, wire, k, or, n, n + 1)  BY <1>1 DEF NoneMissing, One
<1>2. ASSUME or <= 0, ov = 0 PROVE NoneMissing(g, ir, wire, k, n, 0, n + 1)  BY <1>2 DEF NoneMissing, One
<1>3. ASSUME or <= 0 PROVE NoneMissing(g, ir, wire, k, ov, 0, n)  BY <1>3 DEF NoneMissing, One
<1>4. ASSUME or <= 0, NEW z \in Int, z <= 0 PROVE NoneMissing(g, ir, wire, k, z, ov, n)  BY <1>4 DEF NoneMissing, One
<1>5. ASSUME ir > 0 PROVE NoneMissing(g + 1, 0, wire, k, or, ov, n) /\ ir = g + 1  BY <1>5 DEF NoneMissing, One
<1>6. QED  BY <1>1, <1>2, <1>3, <1>4, <1>5

\* None is missing after a chunk has gone on the wire, another thing has, or
\* one has come off it.
LEMMA NumbersOnWire ==
    ASSUME NEW g \in Nat, NEW ir \in Int, NEW wire \in Seq(Int), NEW k \in Nat, k <= Len(wire),
           NEW or \in Int, NEW ov \in Int, NEW n \in Int, n > 0,
           NoneMissing(g, ir, wire, k, or, ov, n)
    PROVE  /\ or > 0 /\ k = Len(wire) => NoneMissing(g, ir, Append(wire, or), k + 1, 0, ov, n)
           /\ \A x \in Int : NoneMissing(g, ir, Append(wire, x), k, or, ov, n)
           /\ ir = 0 /\ k > 0 => /\ Head(wire) = g + 1
                                 /\ NoneMissing(g, Head(wire), Tail(wire), k - 1, or, ov, n)
<1>1. Len(wire) \in Nat  OBVIOUS
<1>2. ASSUME NEW x \in Int, NEW j \in 1 .. Len(wire) PROVE Append(wire, x)[j] = wire[j]  OBVIOUS
<1>3. ASSUME or > 0, k = Len(wire) PROVE NoneMissing(g, ir, Append(wire, or), k + 1, 0, ov, n)
  <2>1. Append(wire, or)[k + 1] = or  BY <1>3
  <2>2. \A j \in 1 .. k : Append(wire, or)[j] = wire[j]  BY <1>2, <1>3
  <2>3. or = g + One(ir) + k + 1 /\ One(or) = 1 /\ One(0) = 0  BY <1>3 DEF NoneMissing, One
  <2>4. \A j \in 1 .. k + 1 : Append(wire, or)[j] = g + One(ir) + j
    <3>1. ASSUME NEW j \in 1 .. k + 1 PROVE Append(wire, or)[j] = g + One(ir) + j
      <4>1. CASE j = k + 1  BY SMTT(30), <2>1, <2>3, <4>1 DEF One
      <4>2. CASE j \in 1 .. k  BY <2>2, <4>2 DEF NoneMissing
      <4>3. QED  BY <4>1, <4>2
    <3>2. QED  BY <3>1
  <2> DEFINE w == Append(wire, or)
  <2>5. \A j \in 1 .. k + 1 : w[j] = g + One(ir) + j  BY <2>4
  <2> HIDE DEF w
  <2>6. NoneMissing(g, ir, w, k + 1, 0, ov, n)  BY <2>3, <2>5 DEF NoneMissing, One
  <2>7. QED  BY <2>6 DEF w
<1>4. ASSUME NEW x \in Int PROVE NoneMissing(g, ir, Append(wire, x), k, or, ov, n)
  <2> DEFINE w == Append(wire, x)
  <2>1. \A j \in 1 .. k : w[j] = wire[j]  BY <1>1, <1>2
  <2> HIDE DEF w
  <2>2. NoneMissing(g, ir, w, k, or, ov, n)  BY <2>1 DEF NoneMissing
  <2>3. QED  BY <2>2 DEF w
<1>5. ASSUME ir = 0, k > 0
      PROVE  Head(wire) = g + 1 /\ NoneMissing(g, Head(wire), Tail(wire), k - 1, or, ov, n)
  <2> DEFINE w == Tail(wire)
  <2>1. Head(wire) = wire[1] /\ \A j \in 1 .. Len(wire) - 1 : w[j] = wire[j + 1]  BY <1>1, <1>5, HeadTailProperties, EmptySeq
  <2>2. One(0) = 0 /\ One(g + 1) = 1  BY DEF One
  <2>3. Head(wire) = g + 1  BY <1>5, <2>1, <2>2 DEF NoneMissing
  <2> HIDE DEF w
  <2>4. ASSUME NEW j \in 1 .. k - 1 PROVE w[j] = g + 1 + j
    <3>1. j \in 1 .. Len(wire) - 1 /\ j + 1 \in 1 .. k  BY <1>1
    <3>2. wire[j + 1] = g + One(ir) + (j + 1)  BY <3>1 DEF NoneMissing
    <3>3. QED  BY <1>5, <2>1, <2>2, <3>1, <3>2
  <2>5. NoneMissing(g, g + 1, w, k - 1, or, ov, n)  BY <1>5, <2>2, <2>4 DEF NoneMissing, One
  <2>6. QED  BY <2>3, <2>5 DEF w
<1>6. QED  BY <1>3, <1>4, <1>5

\* What is larger than all that came before may be appended.
LEMMA SortedAppend ==
    ASSUME NEW s \in Seq(Int), NEW x \in Int, SortedBy(s, Earlier), \A a \in ToSet(s) : Less(a, x)
    PROVE  SortedBy(Append(s, x), Earlier) /\ ToSet(Append(s, x)) = ToSet(s) \cup {x}
<1>1. ToSet(Append(s, x)) = ToSet(s) \cup {x}  BY ToSetAppend
<1>2. <<x>> \in Seq(Int) /\ Append(s, x) = s \o <<x>>  BY AppendIsConcat
<1>3. SortedBy(<<x>>, Earlier) /\ ToSet(<<x>>) = {x}
  <2>1. DOMAIN <<x>> = {1} /\ <<x>>[1] = x  OBVIOUS
  <2>2. QED  BY <2>1 DEF SortedBy, ToSet
<1>4. \A a \in ToSet(s) : <<a, x>> \in Earlier
  <2>1. ToSet(s) \subseteq Int  BY DEF ToSet
  <2>2. QED  BY <2>1 DEF Earlier
<1>5. SortedBy(s \o <<x>>, Earlier)  BY <1>2, <1>3, <1>4, SortedConcat
<1>6. QED  BY <1>1, <1>2, <1>5

\* The first of a sorted sequence is before all others.
LEMMA SortedHead ==
    ASSUME NEW s \in Seq(Int), s # <<>>, SortedBy(s, Earlier)
    PROVE  /\ Tail(s) \in Seq(Int) /\ SortedBy(Tail(s), Earlier) /\ ToSet(Tail(s)) \subseteq ToSet(s)
           /\ Head(s) \in ToSet(s) /\ \A b \in ToSet(Tail(s)) : Less(Head(s), b)
<1> DEFINE t == Tail(s)
<1>1. /\ Len(s) \in Nat \ {0} /\ DOMAIN s = 1 .. Len(s) /\ Head(s) = s[1]
      /\ t \in Seq(Int) /\ Len(t) = Len(s) - 1 /\ \A i \in 1 .. Len(t) : t[i] = s[i + 1]
  BY HeadTailProperties, EmptySeq
<1>2. DOMAIN t = 1 .. Len(t) /\ Len(t) \in Nat  BY <1>1
<1> HIDE DEF t
<1>3. \A i \in DOMAIN t : i \in Nat /\ i + 1 \in DOMAIN s /\ i + 1 > 1 /\ t[i] = s[i + 1]  BY <1>1, <1>2
<1>4. SortedBy(t, Earlier)
  <2>1. ASSUME NEW i \in DOMAIN t, NEW j \in DOMAIN t, i < j PROVE <<t[i], t[j]>> \in Earlier
    <3>1. i + 1 < j + 1  BY <1>3, <2>1
    <3>2. QED  BY <1>3, <3>1 DEF SortedBy
  <2>2. QED  BY <2>1 DEF SortedBy
<1>5. ASSUME NEW b \in ToSet(t) PROVE b \in ToSet(s) /\ Less(Head(s), b)
  <2>1. PICK i \in DOMAIN t : b = t[i]  BY <1>5 DEF ToSet
  <2>2. <<s[1], s[i + 1]>> \in Earlier
    <3>1. 1 \in DOMAIN s /\ i + 1 \in DOMAIN s /\ 1 < i + 1  BY <1>1, <1>3
    <3>2. QED  BY <3>1 DEF SortedBy
  <2>3. QED  BY <1>1, <1>3, <2>1, <2>2 DEF Earlier, ToSet
<1>6. Head(s) \in ToSet(s)
  <2>1. 1 \in DOMAIN s  BY <1>1
  <2>2. QED  BY <1>1, <2>1 DEF ToSet
<1>7. QED  BY <1>1, <1>4, <1>5, <1>6 DEF t

\* The order stays when something moves on by one place.
LEMMA InOrderMoves ==
    ASSUME NEW got \in Seq(Int), NEW ir \in Int, NEW iv \in Int, NEW wire \in Seq(Int), NEW or \in Int, NEW ov \in Int,
           NEW n \in Int, n > 0, InOrder(got, ir, iv, wire, or, ov, n)
    PROVE  /\ InOrder(Append(got, ir), 0, iv, wire, or, ov, n) /\ InOrder(got, iv, 0, wire, or, ov, n)
           /\ InOrder(got, ir, iv, Append(wire, or), 0, ov, n) /\ InOrder(got, ir, iv, wire, ov, 0, n)
           /\ InOrder(got, ir, iv, Append(wire, -1), or, ov, n)
           /\ InOrder(got, ir, iv, wire, or, n, n + 1) /\ InOrder(got, ir, iv, wire, n, 0, n + 1)
<1> DEFINE G == ToSet(got)
           C == ToSet(wire)
<1>1. /\ G \subseteq Int /\ C \subseteq Int /\ Flow(G, ir, iv, C, or, ov, n)
      /\ SortedBy(got, Earlier) /\ SortedBy(wire, Earlier)
  BY DEF InOrder, ToSet
<1>2. /\ Flow(G \cup {ir}, 0, iv, C, or, ov, n) /\ Flow(G, iv, 0, C, or, ov, n)
      /\ Flow(G, ir, iv, C \cup {or}, 0, ov, n) /\ Flow(G, ir, iv, C, ov, 0, n)
      /\ Flow(G, ir, iv, C, or, n, n + 1) /\ Flow(G, ir, iv, C, n, 0, n + 1)
  <2> HIDE DEF G, C
  <2>1. QED  BY <1>1, FlowMoves
<1>3. SortedBy(Append(got, ir), Earlier) /\ ToSet(Append(got, ir)) = G \cup {ir}
  <2>1. \A a \in G : Less(a, ir)  BY <1>1 DEF Flow
  <2>2. QED  BY <1>1, <2>1, SortedAppend
<1>4. SortedBy(Append(wire, or), Earlier) /\ ToSet(Append(wire, or)) = C \cup {or}
  <2>1. \A a \in C : Less(a, or)  BY <1>1 DEF Flow
  <2>2. QED  BY <1>1, <2>1, SortedAppend
<1>5. SortedBy(Append(wire, -1), Earlier) /\ ToSet(Append(wire, -1)) = C \cup {-1}
  <2>1. \A a \in C : Less(a, -1)  BY DEF Less
  <2>2. -1 \in Int  OBVIOUS
  <2>3. QED  BY <1>1, <2>1, <2>2, SortedAppend
<1>6. Flow(G, ir, iv, C \cup {-1}, or, ov, n)
  <2>1. \A a \in Int : Less(a, -1) /\ Less(-1, a)  BY DEF Less
  <2> HIDE DEF G, C
  <2>2. QED  BY <1>1, <2>1 DEF Flow
<1>7. QED  BY <1>1, <1>2, <1>3, <1>4, <1>5, <1>6 DEF InOrder

\* The order stays when something is dropped on its way.
LEMMA InOrderDrops ==
    ASSUME NEW got \in Seq(Int), NEW ir \in Int, NEW iv \in Int, NEW wire \in Seq(Int), NEW or \in Int, NEW ov \in Int,
           NEW n \in Int, InOrder(got, ir, iv, wire, or, ov, n),
           NEW ir2 \in Int, NEW iv2 \in Int, NEW or2 \in Int, NEW ov2 \in Int,
           ir2 = ir \/ ir2 <= 0, iv2 = iv \/ iv2 <= 0, or2 = or \/ or2 <= 0, ov2 = ov \/ ov2 <= 0
    PROVE  /\ InOrder(got, ir2, iv2, wire, or2, ov2, n)
           /\ InOrder(got, ir2, iv2, <<-2>>, or2, ov2, n) /\ InOrder(got, ir2, iv2, <<-2, -1>>, or2, ov2, n)
<1> DEFINE G == ToSet(got)
           C == ToSet(wire)
<1>1. G \subseteq Int /\ C \subseteq Int /\ Flow(G, ir, iv, C, or, ov, n) /\ SortedBy(got, Earlier) /\ SortedBy(wire, Earlier)
  BY DEF InOrder, ToSet
<1>2. Flow(G, ir2, iv2, C, or2, ov2, n) /\ Flow(G, ir2, iv2, {}, or2, ov2, n)
  <2> HIDE DEF G, C
  <2>1. C \in SUBSET C /\ {} \in SUBSET C  OBVIOUS
  <2>2. Flow(G, ir2, iv2, C, or2, ov2, n)  BY <1>1, <2>1, FlowDrops
  <2>3. Flow(G, ir2, iv2, {}, or2, ov2, n)  BY <1>1, <2>1, FlowDrops
  <2>4. QED  BY <2>2, <2>3
<1>3. \A a \in Int : Less(a, -2) /\ Less(-2, a) /\ Less(a, -1) /\ Less(-1, a)  BY DEF Less
<1>4. Flow(G, ir2, iv2, {-2}, or2, ov2, n) /\ Flow(G, ir2, iv2, {-2, -1}, or2, ov2, n)
  <2> HIDE DEF G, C
  <2>1. QED  BY <1>1, <1>2, <1>3 DEF Flow
<1>5. /\ SortedBy(<<-2>>, Earlier) /\ ToSet(<<-2>>) = {-2}
      /\ SortedBy(<<-2, -1>>, Earlier) /\ ToSet(<<-2, -1>>) = {-2, -1}
  <2>1. /\ DOMAIN <<-2>> = {1} /\ <<-2>>[1] = -2
        /\ DOMAIN <<-2, -1>> = {1, 2} /\ <<-2, -1>>[1] = -2 /\ <<-2, -1>>[2] = -1
    OBVIOUS
  <2>2. SortedBy(<<-2>>, Earlier) /\ ToSet(<<-2>>) = {-2}  BY <2>1 DEF SortedBy, ToSet
  <2>3. ToSet(<<-2, -1>>) = {-2, -1}  BY <2>1 DEF ToSet
  <2>4. <<-2, -1>> \in Earlier  BY <1>3 DEF Earlier
  <2>5. \A i, j \in {1, 2} : i < j => i = 1 /\ j = 2  OBVIOUS
  <2>6. SortedBy(<<-2, -1>>, Earlier)  BY <2>1, <2>4, <2>5 DEF SortedBy
  <2>7. QED  BY <2>2, <2>3, <2>6
<1>6. QED  BY <1>1, <1>2, <1>4, <1>5 DEF InOrder

\* The order stays when something arrives, and is taken or dropped.
LEMMA InOrderArrives ==
    ASSUME NEW got \in Seq(Int), NEW ir \in Int, NEW iv \in Int, NEW wire \in Seq(Int), NEW or \in Int, NEW ov \in Int,
           NEW n \in Int, InOrder(got, ir, iv, wire, or, ov, n), wire # <<>>
    PROVE  /\ InOrder(got, Head(wire), 0, Tail(wire), or, ov, n) /\ InOrder(got, ir, Head(wire), Tail(wire), or, ov, n)
           /\ InOrder(got, ir, iv, Tail(wire), or, ov, n)
<1> DEFINE G == ToSet(got)
           C == ToSet(wire)
           D == ToSet(Tail(wire))
           x == Head(wire)
<1>1. G \subseteq Int /\ C \subseteq Int /\ Flow(G, ir, iv, C, or, ov, n) /\ SortedBy(got, Earlier) /\ SortedBy(wire, Earlier)
  BY DEF InOrder, ToSet
<1>2. /\ SortedBy(Tail(wire), Earlier) /\ D \in SUBSET C /\ x \in C /\ \A b \in D : Less(x, b)
  BY <1>1, SortedHead
<1>3. Flow(G, x, 0, D, or, ov, n) /\ Flow(G, ir, x, D, or, ov, n) /\ Flow(G, ir, iv, D, or, ov, n)
  <2> HIDE DEF G, C, D, x
  <2>1. Flow(G, x, 0, D, or, ov, n) /\ Flow(G, ir, x, D, or, ov, n)  BY <1>1, <1>2, FlowArrives
  <2>2. Flow(G, ir, iv, D, or, ov, n)  BY <1>1, <1>2, FlowDrops
  <2>3. QED  BY <2>1, <2>2
<1>4. QED  BY <1>1, <1>2, <1>3 DEF InOrder

\* The parts of the invariant, for a step that shows them one by one.
LEMMA StreamTogether ==
    ASSUME StreamTypes', ~channel'.full => channel'.again = {}, ~channel'.full => AllInOrder',
           ~channel'.full /\ ~peer'.slow /\ phase' = "run" => KeptUp'
    PROVE  StreamInv'
BY DEF StreamInv

\* What the lemmas about the order ask of the types.
LEMMA InOrderTyped ==
    ASSUME StreamTypes
    PROVE  /\ ToSet(peer.got) \subseteq Int /\ ToSet(channel.wire) \subseteq Int
           /\ channel.in.result \in Int /\ channel.in.value \in Int
           /\ channel.out.result \in Int /\ channel.out.value \in Int /\ app.next \in Int /\ app.next > 0
<1>1. \A s \in Seq(Int) : ToSet(s) \subseteq Int  BY DEF ToSet
<1>2. QED  BY SMTT(30), <1>1, StreamTyped

\* The same of the state.
LEMMA AllMove ==
    ASSUME StreamTypes, AllInOrder
    PROVE  /\ InOrder(Append(peer.got, channel.in.result), 0, channel.in.value, channel.wire, channel.out.result,
                      channel.out.value, app.next)
           /\ InOrder(peer.got, channel.in.value, 0, channel.wire, channel.out.result, channel.out.value, app.next)
           /\ InOrder(peer.got, channel.in.result, channel.in.value, Append(channel.wire, channel.out.result), 0,
                      channel.out.value, app.next)
           /\ InOrder(peer.got, channel.in.result, channel.in.value, channel.wire, channel.out.value, 0, app.next)
           /\ InOrder(peer.got, channel.in.result, channel.in.value, Append(channel.wire, -1), channel.out.result,
                      channel.out.value, app.next)
           /\ InOrder(peer.got, channel.in.result, channel.in.value, channel.wire, channel.out.result, app.next,
                      app.next + 1)
           /\ InOrder(peer.got, channel.in.result, channel.in.value, channel.wire, app.next, 0, app.next + 1)
<1> DEFINE got == peer.got
           ir == channel.in.result
           iv == channel.in.value
           wire == channel.wire
           or == channel.out.result
           ov == channel.out.value
           n == app.next
<1>1. /\ got \in Seq(Int) /\ ir \in Int /\ iv \in Int /\ wire \in Seq(Int) /\ or \in Int /\ ov \in Int
      /\ n \in Int /\ n > 0 /\ InOrder(got, ir, iv, wire, or, ov, n)
  BY StreamTyped, InOrderTyped DEF AllInOrder
<1> HIDE DEF got, ir, iv, wire, or, ov, n
<1>2. /\ InOrder(Append(got, ir), 0, iv, wire, or, ov, n)
      /\ InOrder(got, iv, 0, wire, or, ov, n)
      /\ InOrder(got, ir, iv, Append(wire, or), 0, ov, n)
      /\ InOrder(got, ir, iv, wire, ov, 0, n)
      /\ InOrder(got, ir, iv, Append(wire, -1), or, ov, n)
      /\ InOrder(got, ir, iv, wire, or, n, n + 1)
      /\ InOrder(got, ir, iv, wire, n, 0, n + 1)
  BY <1>1, InOrderMoves
<1>3. QED  BY <1>2 DEF got, ir, iv, wire, or, ov, n

\* InOrderDrops for the variables of the module.
LEMMA AllDrop ==
    ASSUME StreamTypes, AllInOrder, NEW ir2 \in Int, NEW iv2 \in Int, NEW or2 \in Int, NEW ov2 \in Int,
           ir2 = channel.in.result \/ ir2 <= 0, iv2 = channel.in.value \/ iv2 <= 0,
           or2 = channel.out.result \/ or2 <= 0, ov2 = channel.out.value \/ ov2 <= 0
    PROVE  /\ InOrder(peer.got, ir2, iv2, channel.wire, or2, ov2, app.next)
           /\ InOrder(peer.got, ir2, iv2, <<-2>>, or2, ov2, app.next)
           /\ InOrder(peer.got, ir2, iv2, <<-2, -1>>, or2, ov2, app.next)
<1> DEFINE got == peer.got
           ir == channel.in.result
           iv == channel.in.value
           wire == channel.wire
           or == channel.out.result
           ov == channel.out.value
           n == app.next
<1>1. /\ got \in Seq(Int) /\ ir \in Int /\ iv \in Int /\ wire \in Seq(Int) /\ or \in Int /\ ov \in Int
      /\ n \in Int /\ n > 0 /\ InOrder(got, ir, iv, wire, or, ov, n)
  BY StreamTyped, InOrderTyped DEF AllInOrder
<1>2. (ir2 = ir \/ ir2 <= 0) /\ (iv2 = iv \/ iv2 <= 0) /\ (or2 = or \/ or2 <= 0) /\ (ov2 = ov \/ ov2 <= 0)
  OBVIOUS
<1> HIDE DEF got, ir, iv, wire, or, ov, n
<1>3. /\ InOrder(got, ir2, iv2, wire, or2, ov2, n)
      /\ InOrder(got, ir2, iv2, <<-2>>, or2, ov2, n) /\ InOrder(got, ir2, iv2, <<-2, -1>>, or2, ov2, n)
  BY <1>1, <1>2, InOrderDrops
<1>4. QED  BY <1>3 DEF got, wire, n

\* InOrderArrives for the variables of the module.
LEMMA AllArrive ==
    ASSUME StreamTypes, AllInOrder, channel.wire # <<>>
    PROVE  /\ InOrder(peer.got, Head(channel.wire), 0, Tail(channel.wire), channel.out.result, channel.out.value,
                      app.next)
           /\ InOrder(peer.got, channel.in.result, Head(channel.wire), Tail(channel.wire), channel.out.result,
                      channel.out.value, app.next)
           /\ InOrder(peer.got, channel.in.result, channel.in.value, Tail(channel.wire), channel.out.result,
                      channel.out.value, app.next)
<1> DEFINE got == peer.got
           ir == channel.in.result
           iv == channel.in.value
           wire == channel.wire
           or == channel.out.result
           ov == channel.out.value
           n == app.next
<1>1. /\ got \in Seq(Int) /\ ir \in Int /\ iv \in Int /\ wire \in Seq(Int) /\ or \in Int /\ ov \in Int
      /\ n \in Int /\ n > 0 /\ InOrder(got, ir, iv, wire, or, ov, n)
  BY StreamTyped, InOrderTyped DEF AllInOrder
<1>2. wire # <<>>  OBVIOUS
<1> HIDE DEF got, ir, iv, wire, or, ov, n
<1>3. /\ InOrder(got, Head(wire), 0, Tail(wire), or, ov, n)
      /\ InOrder(got, ir, Head(wire), Tail(wire), or, ov, n)
      /\ InOrder(got, ir, iv, Tail(wire), or, ov, n)
  BY <1>1, <1>2, InOrderArrives
<1>4. QED  BY <1>3 DEF got, ir, iv, wire, or, ov, n

\* The handler sends a chunk.
LEMMA StreamHandlerSend == ASSUME StreamInv, S!HandlerSend PROVE StreamInv'
<1>1. /\ StreamTypes /\ app.pc = "run" /\ app.next <= Chunks /\ channel.out.value = 0
      /\ peer' = peer /\ phase' = phase /\ faults' = faults
  BY PipeNames DEF S!HandlerSend, StreamInv
<1>2. CASE Pipe!Refuses(channel.out)
  <2>1. app' = [app EXCEPT !.pc = "failed"] /\ channel' = channel  BY <1>2, PipeNames DEF S!HandlerSend
  <2>2. app' \in [pc: {"run", "closed", "failed"}, next: 1 .. Chunks + 1] /\ app'.next = app.next
    BY <1>1, <2>1 DEF StreamTypes
  <2>3. StreamTypes'  BY <1>1, <2>1, <2>2 DEF StreamTypes
  <2>4. ~KeptUp
    <3>1. channel.out.closed \/ channel.out.thrown
      BY <1>1, <1>2, StreamTyped, PipeTypes
    <3>2. QED  BY <1>1, <3>1 DEF KeptUp, OutOfPipes
  <2>5. QED  BY <1>1, <2>1, <2>2, <2>3, <2>4, StreamTogether DEF StreamInv, AllInOrder
<1>3. CASE ~Pipe!Refuses(channel.out)
  <2> DEFINE o == Pipe!Send(channel.out, app.next)
  <2>1. app' = [app EXCEPT !.next = @ + 1] /\ channel' = [channel EXCEPT !.out = o]
    BY <1>3, PipeNames DEF S!HandlerSend, S!Out
  <2>2. app.next \in S!Chunk /\ app.next + 1 \in 1 .. Chunks + 1  BY <1>1, StreamTyped DEF S!Chunk
  <2>3. /\ o \in Pipe!Pipes(S!Chunk) /\ (o.closed <=> channel.out.closed) /\ (o.thrown <=> channel.out.thrown) /\ ~o.reading
        /\ o.value = IF channel.out.reading THEN 0 ELSE app.next
        /\ o.result = IF channel.out.reading THEN app.next ELSE channel.out.result
    <3>1. channel.out \in Pipe!Pipes(S!Chunk)  BY <1>1, StreamTyped
    <3> DEFINE p == channel.out
               x == app.next
    <3>2. p.value = 0 /\ p \in Pipe!Pipes(S!Chunk) /\ x \in S!Chunk  BY <1>1, <2>2, <3>1
    <3> HIDE DEF p, x
    <3>3. LET q == Pipe!Send(p, x)
          IN /\ q \in Pipe!Pipes(S!Chunk) /\ (q.closed <=> p.closed) /\ (q.thrown <=> p.thrown) /\ ~q.reading
             /\ q.value = IF p.reading THEN 0 ELSE x
             /\ q.result = IF p.reading THEN x ELSE p.result
      BY <3>2, PipeSend
    <3>4. QED  BY <3>3 DEF p, x
  <2>4. ~channel.out.closed /\ ~channel.out.thrown  BY <1>1, <1>3, StreamTyped, PipeTypes
  <2> HIDE DEF o
  <2>5. /\ app' \in [pc: {"run", "closed", "failed"}, next: 1 .. Chunks + 1] /\ app'.next = app.next + 1
        /\ app'.pc = "run"
    BY <1>1, <2>1, <2>2 DEF StreamTypes
  <2>6. /\ channel' \in StreamChannels /\ channel'.out = o /\ channel'.in = channel.in /\ channel'.wire = channel.wire
        /\ channel'.writing = channel.writing /\ channel'.again = channel.again
        /\ (channel'.ended <=> channel.ended) /\ (channel'.cancelled <=> channel.cancelled)
        /\ (channel'.full <=> channel.full)
    BY <1>1, <2>1, <2>3 DEF StreamTypes, StreamChannels
  <2>7. StreamTypes'  BY <1>1, <2>5, <2>6 DEF StreamTypes
  <2>8. ASSUME ~channel'.full
        PROVE  AllInOrder'
    <3>1. AllInOrder  BY <2>6, <2>8 DEF StreamInv
    <3>2. /\ InOrder(peer.got, channel.in.result, channel.in.value, channel.wire,
                     channel.out.result, app.next, app.next + 1)
          /\ InOrder(peer.got, channel.in.result, channel.in.value, channel.wire, app.next, 0, app.next + 1)
      BY <1>1, <3>1, AllMove
    <3>3. QED  BY <1>1, <2>3, <2>5, <2>6, <3>2 DEF AllInOrder
  <2>9. ASSUME KeptUp PROVE KeptUp'
    <3>1. OutOfPipes(app'.pc, channel'.writing, channel'.out)
      BY SMTT(30), <1>1, <2>3, <2>4, <2>5, <2>6, <2>9, StreamTyped DEF KeptUp, OutOfPipes
    <3>2. channel.in.result # -1 /\ peer.pc # "end"  BY <1>1, <2>9 DEF KeptUp, Ended, Yielded
    <3>3. ASSUME NoneMissing(Len(peer.got), channel.in.result, channel.wire, Len(channel.wire),
                             channel.out.result, channel.out.value, app.next)
          PROVE  NoneMissing(Len(peer.got), channel.in.result, channel.wire, Len(channel.wire),
                             o.result, o.value, app.next + 1)
      <4> DEFINE g == Len(peer.got)
                 k == Len(channel.wire)
                 ir == channel.in.result
                 or == channel.out.result
                 n == app.next
                 w == channel.wire
      <4>1. /\ NoneMissing(g, ir, w, k, or, 0, n) /\ g \in Nat /\ k \in Nat
            /\ ir \in Int /\ or \in Int /\ n \in Int /\ n > 0
        BY <1>1, <3>3, InOrderTyped, StreamTyped
      <4>2. (o.result = or /\ o.value = n) \/ (o.result = n /\ o.value = 0 /\ or = 0)
        BY <2>3, <2>9 DEF KeptUp, OutOfPipes
      <4> HIDE DEF g, k, ir, or, n, w
      <4>3. /\ NoneMissing(g, ir, w, k, or, n, n + 1)
            /\ or <= 0 => NoneMissing(g, ir, w, k, n, 0, n + 1)
        BY <4>1, NumbersMove
      <4>4. NoneMissing(g, ir, w, k, o.result, o.value, n + 1)  BY <4>1, <4>2, <4>3
      <4>5. QED  BY <4>4 DEF g, k, ir, n, w
    <3>4. Underway => Underway'
      BY <1>1, <2>5, <2>6, <3>3 DEF Underway
    <3>5. QED  BY <1>1, <2>5, <2>6, <2>9, <3>1, <3>2, <3>4 DEF KeptUp, Ended, Yielded
  <2>10. QED  BY <1>1, <2>6, <2>7, <2>8, <2>9, StreamTogether DEF StreamInv
<1>4. QED  BY <1>2, <1>3

\* The handler closes the stream.
LEMMA StreamHandlerClose == ASSUME StreamInv, S!HandlerClose PROVE StreamInv'
<1> DEFINE o == IF channel.cancelled THEN channel.out ELSE Pipe!Close(channel.out)
<1>1. /\ StreamTypes /\ app.pc = "run" /\ channel.out.value = 0
      /\ peer' = peer /\ phase' = phase /\ faults' = faults
      /\ app' = [app EXCEPT !.pc = "closed"] /\ channel' = [channel EXCEPT !.out = o]
  BY PipeNames DEF S!HandlerClose, S!CloseStream, S!Out, StreamInv
<1>2. channel.out \in Pipe!Pipes(S!Chunk) /\ channel.out.result \in Int /\ channel.out.reading \in BOOLEAN
  BY <1>1, StreamTyped, InOrderTyped, PipeTypes
<1>3. /\ o \in Pipe!Pipes(S!Chunk) /\ o.value = 0 /\ (o.result = channel.out.result \/ o.result = -1)
      /\ channel.cancelled \/ (/\ o.closed /\ ~o.thrown /\ ~o.reading
                               /\ o.result = IF channel.out.reading THEN -1 ELSE channel.out.result)
      /\ channel.cancelled => o = channel.out
  <2>1. CASE channel.cancelled  BY <1>1, <1>2, <2>1
  <2>2. CASE ~channel.cancelled
    <3>1. o = Pipe!Close(channel.out)  BY <2>2
    <3> HIDE DEF o
    <3>2. QED  BY <1>2, <2>2, <3>1, PipeClose
  <2>3. QED  BY <2>1, <2>2
<1> HIDE DEF o
<1>4. /\ app' \in [pc: {"run", "closed", "failed"}, next: 1 .. Chunks + 1] /\ app'.next = app.next /\ app'.pc = "closed"
  BY <1>1 DEF StreamTypes
<1>5. /\ channel' \in StreamChannels /\ channel'.out = o /\ channel'.in = channel.in /\ channel'.wire = channel.wire
      /\ channel'.writing = channel.writing /\ channel'.again = channel.again
      /\ (channel'.ended <=> channel.ended) /\ (channel'.cancelled <=> channel.cancelled)
      /\ (channel'.full <=> channel.full)
  BY <1>1, <1>3 DEF StreamTypes, StreamChannels
<1>6. StreamTypes'  BY <1>1, <1>4, <1>5 DEF StreamTypes
<1>7. ASSUME ~channel'.full
      PROVE  AllInOrder'
  <2>1. AllInOrder  BY <1>5, <1>7 DEF StreamInv
  <2>2. o.result \in Int /\ (o.result = channel.out.result \/ o.result <= 0) /\ o.value = channel.out.value
    BY <1>1, <1>2, <1>3
  <2>3. InOrder(peer.got, channel.in.result, channel.in.value, channel.wire, o.result, o.value, app.next)
    BY <1>1, <1>2, <2>1, <2>2, InOrderTyped, AllDrop
  <2>4. QED  BY <1>1, <1>4, <1>5, <2>3 DEF AllInOrder
<1>8. ASSUME KeptUp PROVE KeptUp'
  <2>0. OutOfPipes(app.pc, channel.writing, channel.out) /\ InOfPipes(peer.pc, channel.in)  BY <1>8 DEF KeptUp
  <2>1. OutOfPipes(app'.pc, channel'.writing, channel'.out)
    BY <1>1, <1>2, <1>3, <1>4, <1>5, <2>0 DEF OutOfPipes
  <2>2. channel.in.result # -1 /\ peer.pc # "end"  BY <1>1, <1>8 DEF KeptUp, Ended, Yielded
  <2>3. Underway => Underway'
    <3>1. CASE channel.cancelled  BY <1>5, <3>1 DEF Underway
    <3>2. CASE ~channel.cancelled /\ channel.ended  BY <1>1, <3>2 DEF Underway
    <3>3. CASE ~channel.cancelled /\ ~channel.ended /\ Underway
      <4> DEFINE N(r) == NoneMissing(Len(peer.got), channel.in.result, channel.wire, Len(channel.wire), r, 0, app.next)
      <4>1. N(channel.out.result)  BY <1>1, <3>3 DEF Underway
      <4>2. channel.out.reading => channel.out.result = 0  BY <2>0 DEF OutOfPipes
      <4>3. N(0) => N(-1)
        <5>1. Len(peer.got) \in Nat /\ Len(channel.wire) \in Nat  BY <1>1, StreamTyped
        <5>2. QED  BY <1>1, <5>1, InOrderTyped, NumbersMove
      <4>4. N(o.result)
        <5> HIDE DEF N
        <5>1. QED  BY <1>3, <3>3, <4>1, <4>2, <4>3
      <4>5. QED  BY <1>1, <1>3, <1>4, <1>5, <3>3, <4>4 DEF Underway
    <3>4. QED  BY <3>1, <3>2, <3>3
  <2>4. QED  BY <1>1, <1>4, <1>5, <1>8, <2>1, <2>2, <2>3 DEF KeptUp, Ended, Yielded
<1>9. QED  BY <1>1, <1>5, <1>6, <1>7, <1>8, StreamTogether DEF StreamInv

\* The handler fails; its stream is left as it is.
LEMMA StreamHandlerFails == ASSUME StreamInv, S!HandlerFails PROVE StreamInv'
<1>1. /\ StreamTypes /\ app.pc = "run" /\ app' = [app EXCEPT !.pc = "failed"]
      /\ peer' = peer /\ channel' = channel /\ phase' = phase /\ faults' = faults + 1 /\ faults < MaxFaults
  BY DEF S!HandlerFails, S!Fault, StreamInv
<1>2. /\ app' \in [pc: {"run", "closed", "failed"}, next: 1 .. Chunks + 1] /\ app'.next = app.next /\ app'.pc = "failed"
  BY <1>1 DEF StreamTypes
<1>3. faults' \in 0 .. MaxFaults  BY <1>1, SizesAssumption DEF StreamTypes
<1>4. StreamTypes'  BY <1>1, <1>2, <1>3 DEF StreamTypes
<1>5. ASSUME KeptUp PROVE KeptUp'
  <2>1. OutOfPipes(app'.pc, channel'.writing, channel'.out)
    BY <1>1, <1>2, <1>5 DEF KeptUp, OutOfPipes
  <2>2. channel.in.result # -1 /\ peer.pc # "end"  BY <1>1, <1>5 DEF KeptUp, Ended, Yielded
  <2>3. Underway => Underway'  BY <1>1, <1>2 DEF Underway
  <2>4. QED  BY <1>1, <1>2, <1>5, <2>1, <2>2, <2>3 DEF KeptUp, Ended, Yielded
<1>6. QED  BY <1>1, <1>2, <1>4, <1>5, StreamTogether DEF StreamInv, AllInOrder

\* The server is disposed.
LEMMA StreamDispose == ASSUME StreamInv, S!Dispose PROVE StreamInv'
<1> DEFINE o == IF channel.ended \/ channel.cancelled THEN channel.out ELSE Pipe!Close(channel.out)
<1>1. /\ StreamTypes /\ phase' = "stop" /\ peer' = peer /\ app' = app /\ faults' = faults
      /\ channel' = channel \/ channel' = [channel EXCEPT !.out = o]
  BY PipeNames DEF S!Dispose, S!CloseStream, S!Out, StreamInv
<1>2. channel.out \in Pipe!Pipes(S!Chunk) /\ channel.out.result \in Int /\ channel.out.value \in Int
  BY <1>1, StreamTyped, InOrderTyped
<1>3. /\ o \in Pipe!Pipes(S!Chunk) /\ (o.value = channel.out.value \/ o.value = 0)
      /\ o.result = channel.out.result \/ o.result = -1
  <2>1. CASE o = channel.out  BY <1>2, <2>1
  <2>2. CASE o = Pipe!Close(channel.out)
    <3> HIDE DEF o
    <3>1. QED  BY <1>2, <2>2, PipeClose
  <2>3. QED  BY <2>1, <2>2
<1> HIDE DEF o
<1>4. /\ channel' \in StreamChannels /\ channel'.in = channel.in /\ channel'.wire = channel.wire
      /\ channel'.again = channel.again /\ (channel'.full <=> channel.full)
      /\ channel'.out = channel.out \/ channel'.out = o
  BY <1>1, <1>3 DEF StreamTypes, StreamChannels
<1>5. StreamTypes'  BY <1>1, <1>4 DEF StreamTypes
<1>6. ASSUME ~channel'.full
      PROVE  AllInOrder'
  <2>1. AllInOrder  BY <1>4, <1>6 DEF StreamInv
  <2>2. /\ o.result \in Int /\ (o.result = channel.out.result \/ o.result <= 0)
        /\ o.value \in Int /\ (o.value = channel.out.value \/ o.value <= 0)
    BY <1>2, <1>3
  <2>3. InOrder(peer.got, channel.in.result, channel.in.value, channel.wire, o.result, o.value, app.next)
    BY <1>1, <1>2, <2>1, <2>2, InOrderTyped, AllDrop
  <2>4. QED  BY <1>1, <1>4, <2>1, <2>3 DEF AllInOrder
<1>7. QED  BY <1>1, <1>4, <1>5, <1>6, StreamTogether DEF StreamInv

\* The client cancels the call.
LEMMA StreamCancel == ASSUME StreamInv, S!Cancel PROVE StreamInv'
<1>1. PICK e \in {<<-2>>, <<-2, -1>>} :
        /\ channel' = [channel EXCEPT !.cancelled = TRUE, !.wire = e]
        /\ peer' = peer /\ app' = app /\ phase' = phase /\ faults' = faults + 1 /\ faults < MaxFaults
  BY PipeNames DEF S!Cancel, S!Errors, S!Fault
<1>2. StreamTypes  BY DEF StreamInv
<1>3. e \in Seq(Wired) /\ e # <<>> /\ Head(e) = -2
  <2>1. -2 \in Wired /\ -1 \in Wired  BY DEF Wired
  <2>2. CASE e = <<-2>>  BY <2>1, <2>2
  <2>3. CASE e = <<-2, -1>>  BY <2>1, <2>3
  <2>4. QED  BY <1>1, <2>2, <2>3
<1>4. /\ channel' \in StreamChannels /\ channel'.out = channel.out /\ channel'.in = channel.in /\ channel'.wire = e
      /\ channel'.writing = channel.writing /\ channel'.again = channel.again /\ channel'.cancelled
      /\ (channel'.full <=> channel.full)
  BY <1>1, <1>2, <1>3 DEF StreamTypes, StreamChannels
<1>5. faults' \in 0 .. MaxFaults  BY <1>1, <1>2, SizesAssumption DEF StreamTypes
<1>6. StreamTypes'  BY <1>1, <1>2, <1>4, <1>5 DEF StreamTypes
<1>7. ASSUME ~channel'.full
      PROVE  AllInOrder'
  <2>1. AllInOrder  BY <1>4, <1>7 DEF StreamInv
  <2>2. InOrder(peer.got, channel.in.result, channel.in.value, e, channel.out.result, channel.out.value, app.next)
    <3>1. /\ InOrder(peer.got, channel.in.result, channel.in.value, <<-2>>,
                     channel.out.result, channel.out.value, app.next)
          /\ InOrder(peer.got, channel.in.result, channel.in.value, <<-2, -1>>,
                     channel.out.result, channel.out.value, app.next)
      BY <1>2, <2>1, InOrderTyped, AllDrop
    <3>2. QED  BY <1>1, <3>1
  <2>3. QED  BY <1>1, <1>4, <2>2 DEF AllInOrder
<1>8. ASSUME KeptUp PROVE KeptUp'
  <2>1. Underway'  BY <1>3, <1>4 DEF Underway
  <2>2. QED  BY <1>1, <1>4, <1>8, <2>1 DEF KeptUp, Ended, Yielded
<1>9. QED  BY <1>1, <1>4, <1>6, <1>7, <1>8, StreamTogether DEF StreamInv

\* The loop ends: it writes the end of the stream, unless the call is cancelled.
LEMMA LoopEndsFields ==
    ASSUME StreamTypes
    PROVE  LET c == S!LoopEnds
           IN /\ c \in StreamChannels /\ c.out = Pipe!Took(channel.out) /\ c.in = channel.in /\ c.ended
              /\ c.wire = IF channel.cancelled THEN channel.wire ELSE Append(channel.wire, -1)
              /\ c.writing = 0 /\ c.again = channel.again
              /\ (c.cancelled <=> channel.cancelled) /\ (c.full <=> channel.full)
<1> DEFINE w == IF channel.cancelled THEN channel.wire ELSE Append(channel.wire, -1)
           o == Pipe!Took(channel.out)
<1>1. S!LoopEnds = [channel EXCEPT !.out = o, !.ended = TRUE, !.writing = 0, !.wire = w]
  <2>1. S!Took(channel.out) = o /\ S!None = 0 /\ S!Done = -1  BY PipeNames
  <2>2. channel \in StreamChannels  BY DEF StreamTypes
  <2>3. S!Onto(channel.wire, S!Done) = w  BY <2>1 DEF S!Onto
  <2> HIDE DEF w, o
  <2>4. QED  BY <2>1, <2>2, <2>3 DEF S!LoopEnds, StreamChannels
<1>2. w \in Seq(Wired)
  <2>1. channel.wire \in Seq(Wired) /\ -1 \in Wired  BY StreamTyped DEF Wired
  <2>2. QED  BY <2>1
<1>3. o \in Pipe!Pipes(S!Chunk)  BY StreamTyped, PipeTook
<1> HIDE DEF w, o
<1>4. LET c == S!LoopEnds
      IN /\ c \in StreamChannels /\ c.out = o /\ c.in = channel.in /\ c.ended /\ c.wire = w
         /\ c.writing = 0 /\ c.again = channel.again
         /\ (c.cancelled <=> channel.cancelled) /\ (c.full <=> channel.full)
  <2>1. channel \in StreamChannels  BY DEF StreamTypes
  <2>2. QED  BY <1>1, <1>2, <1>3, <2>1 DEF StreamChannels
<1>5. QED  BY <1>4 DEF w, o

\* The loop of the server ends, after the last chunk or a cancellation.
LEMMA StreamLoopEnds ==
    ASSUME StreamInv, ~channel.ended, channel.out.result = -1 \/ channel.cancelled, channel.out.result # 0,
           channel' = S!LoopEnds, UNCHANGED <<peer, app, phase, faults>>
    PROVE  StreamInv'
<1>1. StreamTypes /\ peer' = peer /\ app' = app /\ phase' = phase /\ faults' = faults  BY DEF StreamInv
<1>2. /\ channel' \in StreamChannels /\ channel'.out = Pipe!Took(channel.out) /\ channel'.in = channel.in /\ channel'.ended
      /\ channel'.wire = IF channel.cancelled THEN channel.wire ELSE Append(channel.wire, -1)
      /\ channel'.writing = 0 /\ channel'.again = channel.again
      /\ (channel'.cancelled <=> channel.cancelled) /\ (channel'.full <=> channel.full)
  BY <1>1, LoopEndsFields
<1>3. /\ (channel'.out.closed <=> channel.out.closed) /\ (channel'.out.thrown <=> channel.out.thrown)
      /\ (channel'.out.reading <=> channel.out.reading)
      /\ channel'.out.value = channel.out.value /\ channel'.out.result = 0
  BY <1>1, <1>2, StreamTyped, PipeTook
<1>4. StreamTypes'  BY <1>1, <1>2 DEF StreamTypes
<1>5. ASSUME ~channel'.full PROVE AllInOrder'
  <2>1. AllInOrder  BY <1>2, <1>5 DEF StreamInv
  <2>2. CASE channel.cancelled
    <3>1. InOrder(peer.got, channel.in.result, channel.in.value, channel.wire, 0, channel.out.value, app.next)
      BY <1>1, <2>1, InOrderTyped, AllDrop
    <3>2. QED  BY <1>1, <1>2, <1>3, <2>2, <3>1 DEF AllInOrder
  <2>3. CASE ~channel.cancelled
    <3>1. channel.out.result = -1  BY <2>3
    <3>2. InOrder(peer.got, channel.in.result, channel.in.value, Append(channel.wire, channel.out.result),
                  0, channel.out.value, app.next)
      BY <1>1, <2>1, AllMove
    <3>3. QED  BY <1>1, <1>2, <1>3, <2>3, <3>1, <3>2 DEF AllInOrder
  <2>4. QED  BY <2>2, <2>3
<1>6. ASSUME KeptUp PROVE KeptUp'
  <2>0. OutOfPipes(app.pc, channel.writing, channel.out)  BY <1>6 DEF KeptUp
  <2>1. OutOfPipes(app'.pc, channel'.writing, channel'.out)  BY <1>1, <1>2, <1>3, <2>0 DEF OutOfPipes
  <2>2. ASSUME ~channel.cancelled, Underway PROVE Underway'
    <3> DEFINE w == Append(channel.wire, -1)
    <3>1. /\ channel.out.result = -1 /\ app.pc = "closed" /\ channel.out.value = 0
          /\ channel.wire \in Seq(Int) /\ Len(channel.wire) \in Nat /\ Len(peer.got) \in Nat
      BY <1>1, <2>0, <2>2, StreamTyped DEF OutOfPipes
    <3>2. w \in Seq(Int) /\ w # <<>> /\ Len(w) = Len(channel.wire) + 1 /\ w[Len(w)] = -1
      BY <3>1, AppendProperties
    <3>3. NoneMissing(Len(peer.got), channel.in.result, channel.wire, Len(channel.wire), -1, 0, app.next)
      BY <2>2, <3>1 DEF Underway
    <3> DEFINE g == Len(peer.got)
               k == Len(channel.wire)
               ir == channel.in.result
               n == app.next
    <3>4. /\ NoneMissing(g, ir, channel.wire, k, -1, 0, n) /\ g \in Nat /\ k \in Nat
          /\ ir \in Int /\ n \in Int /\ n > 0 /\ k <= Len(channel.wire)
      BY <1>1, <3>1, <3>3, InOrderTyped
    <3> HIDE DEF g, ir, n, k, w
    <3>5. NoneMissing(g, ir, channel.wire, k, 0, 0, n)  BY <3>4, NumbersMove
    <3>6. NoneMissing(g, ir, w, k, 0, 0, n)  BY <3>1, <3>4, <3>5, NumbersOnWire DEF w
    <3>7. k = Len(w) - 1  BY <3>1, <3>2 DEF k
    <3>8. channel'.wire = w  BY <1>2, <2>2 DEF w
    <3>9. NoneMissing(Len(peer.got), channel.in.result, channel'.wire, Len(channel'.wire) - 1, 0, 0, app.next)
      BY <3>6, <3>7, <3>8 DEF g, ir, n
    <3>10. QED  BY <1>1, <1>2, <1>3, <2>2, <3>1, <3>2, <3>8, <3>9 DEF Underway
  <2>3. ASSUME channel.cancelled, Underway PROVE Underway'  BY <1>2, <2>3 DEF Underway
  <2>4. QED  BY <1>1, <1>2, <1>6, <2>1, <2>2, <2>3 DEF KeptUp, Ended, Yielded
<1>7. QED  BY <1>1, <1>2, <1>4, <1>5, <1>6, StreamTogether DEF StreamInv

\* The loop of the server writes what it took.
LEMMA StreamWrite == ASSUME StreamInv, S!Write PROVE StreamInv'
<1>1. /\ StreamTypes /\ peer' = peer /\ app' = app /\ phase' = phase /\ faults' = faults
      /\ ~channel.ended /\ channel.out.result \in S!Chunk
  BY DEF S!Write, StreamInv
<1>2. channel.out.result > 0 /\ channel.out.result \in Int  BY <1>1, StreamTyped
<1>3. CASE channel.cancelled
  BY <1>1, <1>2, <1>3, StreamLoopEnds DEF S!Write
<1>4. CASE ~channel.cancelled
  <2> DEFINE o == Pipe!Took(channel.out)
             x == channel.out.result
             w == Append(channel.wire, x)
  <2>1. PICK accepted \in IF channel.full THEN BOOLEAN ELSE {TRUE} : channel' = S!LoopWrites(x, accepted)
    BY <1>4 DEF S!Write
  <2> DEFINE a == IF accepted THEN channel.again ELSE channel.again \cup {x}
  <2>2. channel' = [channel EXCEPT !.out = o, !.writing = x, !.wire = w, !.again = a]
    <3>1. S!Took(channel.out) = o /\ channel \in StreamChannels  BY <1>1, PipeNames DEF StreamTypes
    <3>2. S!Onto(channel.wire, x) = w  BY <1>4 DEF S!Onto
    <3> HIDE DEF w, o, x
    <3>3. QED  BY <2>1, <3>1, <3>2 DEF S!LoopWrites, StreamChannels
  <2>3. /\ o \in Pipe!Pipes(S!Chunk) /\ (o.closed <=> channel.out.closed) /\ (o.thrown <=> channel.out.thrown)
        /\ (o.reading <=> channel.out.reading) /\ o.value = channel.out.value /\ o.result = 0
    BY <1>1, StreamTyped, PipeTook
  <2>4. w \in Seq(Wired) /\ w # <<>> /\ Len(w) = Len(channel.wire) + 1 /\ channel.wire \in Seq(Int)
    <3>1. channel.wire \in Seq(Wired) /\ x \in Wired  BY <1>1, StreamTyped DEF Wired
    <3>2. channel.wire \in Seq(Int)  BY <1>1, StreamTyped
    <3>3. QED  BY <3>1, <3>2, AppendProperties
  <2>5. a \subseteq S!Chunk /\ (~channel.full => a = channel.again)
    BY <1>1, <2>1 DEF StreamTypes, StreamChannels
  <2>6. x \in S!Chunk /\ x > 0 /\ x \in Int  BY <1>1, <1>2
  <2> HIDE DEF o, x, w, a
  <2>7. /\ channel' \in StreamChannels /\ channel'.out = o /\ channel'.in = channel.in /\ channel'.wire = w
        /\ channel'.writing = x /\ channel'.again = a
        /\ (channel'.ended <=> channel.ended) /\ (channel'.cancelled <=> channel.cancelled)
        /\ (channel'.full <=> channel.full)
    BY <1>1, <2>2, <2>3, <2>4, <2>5, <2>6 DEF StreamTypes, StreamChannels
  <2>8. StreamTypes'  BY <1>1, <2>7 DEF StreamTypes
  <2>9. ASSUME ~channel'.full PROVE AllInOrder'
    <3>1. AllInOrder  BY <2>7, <2>9 DEF StreamInv
    <3>2. InOrder(peer.got, channel.in.result, channel.in.value, w, 0, channel.out.value, app.next)
      BY <1>1, <3>1, AllMove DEF w, x
    <3>3. QED  BY <1>1, <2>3, <2>7, <3>2 DEF AllInOrder
  <2>10. ASSUME KeptUp PROVE KeptUp'
    <3>1. OutOfPipes(app'.pc, channel'.writing, channel'.out)
      <4>1. OutOfPipes(app.pc, channel.writing, channel.out)  BY <2>10 DEF KeptUp
      <4>2. ~channel.out.reading  BY <1>2, <4>1 DEF OutOfPipes
      <4>3. QED  BY <1>1, <1>2, <2>3, <2>7, <4>1, <4>2 DEF OutOfPipes
    <3>2. ASSUME Underway PROVE Underway'
      <4> DEFINE g == Len(peer.got)
                 k == Len(channel.wire)
                 ir == channel.in.result
                 ov == channel.out.value
                 n == app.next
                 v == channel.wire
      <4>1. NoneMissing(g, ir, v, k, x, ov, n)  BY <1>1, <1>4, <3>2 DEF Underway, x
      <4>2. /\ g \in Nat /\ k \in Nat /\ ir \in Int /\ ov \in Int /\ n \in Int /\ n > 0 /\ v \in Seq(Int) /\ k = Len(v)
        BY <1>1, <2>4, InOrderTyped, StreamTyped
      <4>3. w = Append(v, x) /\ Len(w) = k + 1  BY <2>4 DEF w
      <4> HIDE DEF g, ir, n, k, ov, v
      <4>4. NoneMissing(g, ir, Append(v, x), k + 1, 0, ov, n)
        <5>1. k <= Len(v)  BY <4>2
        <5>2. QED  BY <2>6, <4>1, <4>2, <5>1, NumbersOnWire
      <4>5. NoneMissing(g, ir, w, Len(w), 0, ov, n)  BY <4>3, <4>4
      <4>6. NoneMissing(Len(peer'.got), channel'.in.result, channel'.wire, Len(channel'.wire),
                        channel'.out.result, channel'.out.value, app'.next)
        BY <1>1, <2>3, <2>7, <4>5 DEF g, ir, ov, n
      <4>7. QED  BY <1>1, <1>4, <2>7, <4>6 DEF Underway
    <3>3. QED  BY <1>1, <2>7, <2>10, <3>1, <3>2 DEF KeptUp, Ended, Yielded
  <2>11. QED  BY <1>1, <2>5, <2>7, <2>8, <2>9, <2>10, StreamTogether DEF StreamInv
<1>5. QED  BY <1>3, <1>4

\* The loop of the server ends the call.
LEMMA StreamEndLoop == ASSUME StreamInv, S!EndLoop PROVE StreamInv'
<1>1. ~channel.ended /\ channel.out.result = -1 /\ channel' = S!LoopEnds /\ UNCHANGED <<peer, app, phase, faults>>
  BY PipeNames DEF S!EndLoop
<1>2. QED  BY <1>1, StreamLoopEnds

\* Who asks a pipe for its next value gets the one that waits, or none.
LEMMA PipeAskMoves ==
    ASSUME NEW p \in Pipe!Pipes(S!Chunk)
    PROVE  LET q == Pipe!Ask(p)
           IN /\ q \in Pipe!Pipes(S!Chunk)
              /\ \/ q.result = p.value /\ q.value = 0
                 \/ q.result \in {0, -1, -2} /\ q.value = p.value
BY PipeAsk, PipeTypes

\* The loop asks for the next chunk, which a handler that waits may have sent.
LEMMA StreamWritten == ASSUME StreamInv, S!Written PROVE StreamInv'
<1> DEFINE o == Pipe!Ask(channel.out)
<1>1. /\ StreamTypes /\ peer' = peer /\ app' = app /\ phase' = phase /\ faults' = faults
      /\ ~channel.ended /\ channel.writing # 0 /\ channel' = [channel EXCEPT !.out = o, !.writing = 0]
  <2>1. channel \in StreamChannels  BY DEF StreamInv, StreamTypes
  <2>2. QED  BY <2>1, PipeNames DEF S!Written, StreamInv, StreamChannels
<1>2. channel.out \in Pipe!Pipes(S!Chunk)  BY <1>1, StreamTyped
<1>3. /\ o \in Pipe!Pipes(S!Chunk)
      /\ \/ o.result = channel.out.value /\ o.value = 0
         \/ o.result \in {0, -1, -2} /\ o.value = channel.out.value
      /\ o.closed <=> channel.out.closed \/ (channel.out.value = 0 /\ channel.out.thrown)
      /\ o.reading <=> ~channel.out.closed /\ channel.out.value = 0 /\ ~channel.out.thrown
      /\ o.thrown <=> channel.out.thrown /\ (channel.out.closed \/ channel.out.value # 0)
      /\ o.value = IF channel.out.closed THEN channel.out.value ELSE 0
      /\ o.result = IF channel.out.closed THEN -1 ELSE IF channel.out.value # 0 THEN channel.out.value
                    ELSE IF channel.out.thrown THEN -2 ELSE 0
  BY <1>2, PipeAsk, PipeAskMoves
<1> HIDE DEF o
<1>4. /\ channel' \in StreamChannels /\ channel'.out = o /\ channel'.in = channel.in /\ channel'.wire = channel.wire
      /\ channel'.writing = 0 /\ channel'.again = channel.again
      /\ (channel'.ended <=> channel.ended) /\ (channel'.cancelled <=> channel.cancelled)
      /\ (channel'.full <=> channel.full)
  BY <1>1, <1>3 DEF StreamTypes, StreamChannels
<1>5. StreamTypes'  BY <1>1, <1>4 DEF StreamTypes
<1>6. ASSUME ~channel'.full PROVE AllInOrder'
  <2>1. AllInOrder  BY <1>4, <1>6 DEF StreamInv
  <2>2. CASE o.result = channel.out.value /\ o.value = 0
    <3>1. InOrder(peer.got, channel.in.result, channel.in.value, channel.wire, channel.out.value, 0, app.next)
      BY <1>1, <2>1, AllMove
    <3>2. QED  BY <1>1, <1>4, <2>2, <3>1 DEF AllInOrder
  <2>3. CASE o.result \in {0, -1, -2} /\ o.value = channel.out.value
    <3>1. o.result \in Int /\ o.result <= 0  BY <2>3
    <3>2. InOrder(peer.got, channel.in.result, channel.in.value, channel.wire, o.result, channel.out.value, app.next)
      BY <1>1, <2>1, <3>1, InOrderTyped, AllDrop
    <3>3. QED  BY <1>1, <1>4, <2>3, <3>2 DEF AllInOrder
  <2>4. QED  BY <1>3, <2>2, <2>3
<1>7. ASSUME KeptUp PROVE KeptUp'
  <2>0. OutOfPipes(app.pc, channel.writing, channel.out)  BY <1>7 DEF KeptUp
  <2>1. channel.out.result = 0 /\ ~channel.out.thrown /\ (channel.out.closed => channel.out.value = 0)
    BY <1>1, <2>0 DEF OutOfPipes
  <2>2. OutOfPipes(app'.pc, channel'.writing, channel'.out)
    <3>1. channel.out.value \in S!Chunk \cup {0} /\ \A x \in S!Chunk : x \in Nat \ {0}  BY <1>1, StreamTyped
    <3>2. QED  BY <1>1, <1>3, <1>4, <2>0, <2>1, <3>1 DEF OutOfPipes
  <2>3. ASSUME Underway, ~channel.cancelled PROVE Underway'
    <3> DEFINE g == Len(peer.got)
               k == Len(channel.wire)
               ir == channel.in.result
               ov == channel.out.value
               n == app.next
               v == channel.wire
    <3>1. NoneMissing(g, ir, v, k, 0, ov, n)  BY <1>1, <2>1, <2>3 DEF Underway
    <3>2. g \in Nat /\ k \in Nat /\ ir \in Int /\ ov \in Int /\ n \in Int /\ n > 0
      BY <1>1, InOrderTyped, StreamTyped
    <3>3. (o.result = ov /\ o.value = 0) \/ (o.result \in {0, -1} /\ o.value = ov)
      BY <1>3, <2>1
    <3> HIDE DEF g, ir, n, k, ov, v
    <3>4. NoneMissing(g, ir, v, k, ov, 0, n) /\ NoneMissing(g, ir, v, k, -1, ov, n)  BY <3>1, <3>2, NumbersMove
    <3>5. NoneMissing(g, ir, v, k, o.result, o.value, n)
      <4>1. CASE o.result = ov /\ o.value = 0  BY <3>4, <4>1
      <4>2. CASE o.result = 0 /\ o.value = ov  BY <3>1, <4>2
      <4>3. CASE o.result = -1 /\ o.value = ov  BY <3>4, <4>3
      <4>4. QED  BY <3>3, <4>1, <4>2, <4>3
    <3>6. NoneMissing(Len(peer'.got), channel'.in.result, channel'.wire, Len(channel'.wire),
                      channel'.out.result, channel'.out.value, app'.next)
      BY <1>1, <1>4, <3>5 DEF g, k, ir, n, v
    <3>7. QED  BY <1>1, <1>4, <2>3, <3>6 DEF Underway
  <2>4. ASSUME Underway, channel.cancelled PROVE Underway'  BY <1>4, <2>4 DEF Underway
  <2>5. QED  BY <1>1, <1>4, <1>7, <2>2, <2>3, <2>4 DEF KeptUp, Ended, Yielded
<1>8. QED  BY <1>1, <1>4, <1>5, <1>6, <1>7, StreamTogether DEF StreamInv

\* A chunk whose write returned false is written once more.
LEMMA StreamWriteAgain == ASSUME StreamInv, S!WriteAgain PROVE StreamInv'
<1>1. /\ StreamTypes /\ channel \in StreamChannels
      /\ peer' = peer /\ app' = app /\ phase' = phase /\ faults' = faults
  BY DEF S!WriteAgain, StreamInv, StreamTypes
<1> DEFINE w(x) == S!Onto(channel.wire, x)
           a(x) == channel.again \ {x}
<1>2. PICK x \in channel.again :
        channel' \in {[channel EXCEPT !.again = a(x)], [S!LoopEnds EXCEPT !.again = a(x)],
                      [channel EXCEPT !.wire = w(x), !.again = a(x)]}
  <2>1. S!LoopEnds \in StreamChannels /\ S!LoopEnds.again = channel.again  BY <1>1, LoopEndsFields
  <2>2. PICK x \in channel.again :
          channel' = CASE channel.ended -> [channel EXCEPT !.again = @ \ {x}]
                       [] channel.cancelled /\ channel.writing = x -> [S!LoopEnds EXCEPT !.again = @ \ {x}]
                       [] OTHER -> [channel EXCEPT !.wire = w(x), !.again = @ \ {x}]
    BY Zenon, <1>1 DEF S!WriteAgain, StreamChannels
  <2> HIDE DEF w
  <2>3. QED  BY Zenon, <1>1, <2>1, <2>2 DEF StreamChannels
<1>3. channel.full  BY <1>2 DEF StreamInv
<1>4. w(x) \in Seq(Wired) /\ a(x) \subseteq S!Chunk
  <2>1. channel.wire \in Seq(Wired) /\ x \in Wired /\ channel.again \subseteq S!Chunk
    BY <1>1, <1>2, StreamTyped DEF Wired, StreamChannels
  <2>2. QED  BY <2>1 DEF S!Onto
<1> HIDE DEF w, a
<1>5. channel' \in StreamChannels /\ channel'.full
  <2>1. S!LoopEnds \in StreamChannels /\ S!LoopEnds.full  BY <1>1, <1>3, LoopEndsFields
  <2>2. QED  BY <1>1, <1>2, <1>3, <1>4, <2>1 DEF StreamChannels
<1>6. StreamTypes'  BY <1>1, <1>5 DEF StreamTypes
<1>7. QED  BY <1>5, <1>6, StreamTogether

\* The consumer in the client asks for the next chunk.
LEMMA StreamAskNext == ASSUME StreamInv, S!AskNext PROVE StreamInv'
<1> DEFINE i == Pipe!Ask(channel.in)
<1>1. /\ StreamTypes /\ peer.pc = "busy" /\ peer' = [peer EXCEPT !.pc = "await"]
      /\ app' = app /\ phase' = phase /\ faults' = faults /\ channel' = [channel EXCEPT !.in = i]
  <2>1. channel \in StreamChannels  BY DEF StreamInv, StreamTypes
  <2>2. QED  BY <2>1, PipeNames DEF S!AskNext, StreamInv, StreamChannels
<1>2. channel.in \in Pipe!Pipes(S!Chunk)  BY <1>1, StreamTyped
<1>3. /\ i \in Pipe!Pipes(S!Chunk)
      /\ \/ i.result = channel.in.value /\ i.value = 0
         \/ i.result \in {0, -1, -2} /\ i.value = channel.in.value
      /\ ~channel.in.closed /\ channel.in.value = 0 /\ ~channel.in.thrown
         => ~i.closed /\ i.reading /\ ~i.thrown /\ i.value = 0 /\ i.result = 0
  BY <1>2, PipeAsk, PipeAskMoves
<1> HIDE DEF i
<1>4. /\ channel' \in StreamChannels /\ channel'.out = channel.out /\ channel'.in = i /\ channel'.wire = channel.wire
      /\ channel'.writing = channel.writing /\ channel'.again = channel.again
      /\ (channel'.ended <=> channel.ended) /\ (channel'.cancelled <=> channel.cancelled)
      /\ (channel'.full <=> channel.full)
  BY <1>1, <1>3 DEF StreamTypes, StreamChannels
<1>5. peer' \in StreamPeers /\ peer'.pc = "await" /\ peer'.got = peer.got /\ (peer'.slow <=> peer.slow)
  BY <1>1 DEF StreamTypes, StreamPeers
<1>6. StreamTypes'  BY <1>1, <1>4, <1>5 DEF StreamTypes
<1>7. ASSUME ~channel'.full PROVE AllInOrder'
  <2>1. AllInOrder  BY <1>4, <1>7 DEF StreamInv
  <2>2. CASE i.result = channel.in.value /\ i.value = 0
    <3>1. InOrder(peer.got, channel.in.value, 0, channel.wire, channel.out.result, channel.out.value, app.next)
      BY <1>1, <2>1, AllMove
    <3>2. QED  BY <1>1, <1>4, <1>5, <2>2, <3>1 DEF AllInOrder
  <2>3. CASE i.result \in {0, -1, -2} /\ i.value = channel.in.value
    <3>1. i.result \in Int /\ i.result <= 0  BY <2>3
    <3>2. InOrder(peer.got, i.result, channel.in.value, channel.wire, channel.out.result, channel.out.value, app.next)
      BY <1>1, <2>1, <3>1, InOrderTyped, AllDrop
    <3>3. QED  BY <1>1, <1>4, <1>5, <2>3, <3>2 DEF AllInOrder
  <2>4. QED  BY <1>3, <2>2, <2>3
<1>8. ASSUME KeptUp PROVE KeptUp'
  <2>1. InOfPipes(peer.pc, channel.in)  BY <1>8 DEF KeptUp
  <2>2. /\ ~channel.in.closed /\ channel.in.value = 0 /\ ~channel.in.thrown /\ channel.in.result = 0
    BY <1>1, <2>1 DEF InOfPipes
  <2>3. InOfPipes(peer'.pc, channel'.in)  BY <1>3, <1>4, <1>5, <2>2 DEF InOfPipes
  <2>4. Underway => Underway'  BY <1>1, <1>3, <1>4, <1>5, <2>2 DEF Underway
  <2>5. QED  BY <1>1, <1>3, <1>4, <1>5, <1>8, <2>2, <2>3, <2>4 DEF KeptUp, Ended, Yielded
<1>9. QED  BY <1>1, <1>4, <1>5, <1>6, <1>7, <1>8, StreamTogether DEF StreamInv

\* The consumer in the client is yielded what it asked for.
LEMMA StreamYield == ASSUME StreamInv, S!Yield PROVE StreamInv'
<1> DEFINE x == channel.in.result
           i == Pipe!Took(channel.in)
           p == CASE x = -1 -> [peer EXCEPT !.pc = "end"]
                  [] x = -2 -> [peer EXCEPT !.pc = "fail"]
                  [] OTHER -> [peer EXCEPT !.pc = "busy", !.got = Append(@, x)]
<1>1. /\ StreamTypes /\ peer.pc = "await" /\ x # 0 /\ peer' = p
      /\ app' = app /\ phase' = phase /\ faults' = faults /\ channel' = [channel EXCEPT !.in = i]
  <2>1. channel \in StreamChannels  BY DEF StreamInv, StreamTypes
  <2>2. QED  BY <2>1, PipeNames DEF S!Yield, StreamInv, StreamChannels
<1>2. channel.in \in Pipe!Pipes(S!Chunk) /\ x \in S!Chunk \cup {0, -1, -2} /\ \A y \in S!Chunk : y \in Nat \ {0}
  BY <1>1, StreamTyped
<1>3. /\ i \in Pipe!Pipes(S!Chunk) /\ (i.closed <=> channel.in.closed) /\ (i.thrown <=> channel.in.thrown)
      /\ (i.reading <=> channel.in.reading) /\ i.value = channel.in.value /\ i.result = 0
  BY <1>2, PipeTook
<1> HIDE DEF i
<1>4. /\ channel' \in StreamChannels /\ channel'.out = channel.out /\ channel'.in = i /\ channel'.wire = channel.wire
      /\ channel'.writing = channel.writing /\ channel'.again = channel.again
      /\ (channel'.ended <=> channel.ended) /\ (channel'.cancelled <=> channel.cancelled)
      /\ (channel'.full <=> channel.full)
  BY <1>1, <1>3 DEF StreamTypes, StreamChannels
<1>5. CASE x \in {-1, -2}
  <2>1. /\ peer' \in StreamPeers /\ peer'.got = peer.got /\ (peer'.slow <=> peer.slow)
        /\ peer'.pc = IF x = -1 THEN "end" ELSE "fail"
    BY <1>1, <1>5 DEF StreamTypes, StreamPeers
  <2>2. StreamTypes'  BY <1>1, <1>4, <2>1 DEF StreamTypes
  <2>3. ASSUME ~channel'.full PROVE AllInOrder'
    <3>1. AllInOrder  BY <1>4, <2>3 DEF StreamInv
    <3>2. InOrder(peer.got, 0, channel.in.value, channel.wire, channel.out.result, channel.out.value, app.next)
      <4>1. StreamTypes /\ 0 \in Int /\ 0 <= 0  BY <1>1
      <4> HIDE DEF p, x
      <4>2. QED  BY <3>1, <4>1, InOrderTyped, AllDrop
    <3>3. QED  BY <1>1, <1>3, <1>4, <2>1, <3>2 DEF AllInOrder
  <2>4. ASSUME KeptUp PROVE KeptUp'
    <3>1. InOfPipes(peer.pc, channel.in)  BY <2>4 DEF KeptUp
    <3>2. channel.in.closed  BY <1>5, <3>1 DEF InOfPipes
    <3>3. InOfPipes(peer'.pc, channel'.in)
      BY <1>1, <1>3, <1>4, <1>5, <2>1, <3>1, <3>2 DEF InOfPipes
    <3>4. Ended'
      <4>1. Ended /\ app' = app  BY <1>1, <2>4 DEF KeptUp
      <4>2. QED  BY <1>3, <1>4, <1>5, <2>1, <4>1 DEF Ended
    <3>5. QED  BY <1>1, <1>3, <1>4, <2>1, <2>4, <3>2, <3>3, <3>4 DEF KeptUp, Yielded
  <2>5. QED  BY <1>1, <1>4, <2>1, <2>2, <2>3, <2>4, StreamTogether DEF StreamInv
<1>6. CASE x \in S!Chunk
  <2>1. x > 0 /\ x \in Int /\ peer.got \in Seq(S!Chunk) /\ peer.got \in Seq(Int) /\ Len(peer.got) \in Nat
    BY <1>1, <1>2, <1>6, StreamTyped
  <2> DEFINE h == Append(peer.got, x)
  <2>2. /\ h \in Seq(S!Chunk) /\ Len(h) = Len(peer.got) + 1 /\ DOMAIN h = 1 .. Len(h) /\ DOMAIN peer.got = 1 .. Len(peer.got)
        /\ h[Len(h)] = x /\ \A j \in DOMAIN peer.got : h[j] = peer.got[j]
    BY <1>6, <2>1, AppendProperties
  <2> HIDE DEF h
  <2>3. /\ peer' \in StreamPeers /\ peer'.got = h /\ (peer'.slow <=> peer.slow) /\ peer'.pc = "busy"
    <3>1. peer' = [peer EXCEPT !.pc = "busy", !.got = h]  BY <1>1, <2>1 DEF h, StreamTypes, StreamPeers
    <3>2. QED  BY <1>1, <2>2, <3>1 DEF StreamTypes, StreamPeers
  <2>4. StreamTypes'  BY <1>1, <1>4, <2>3 DEF StreamTypes
  <2>5. ASSUME ~channel'.full PROVE AllInOrder'
    <3>1. AllInOrder  BY <1>4, <2>5 DEF StreamInv
    <3>2. InOrder(h, 0, channel.in.value, channel.wire, channel.out.result, channel.out.value, app.next)
      BY <1>1, <3>1, AllMove DEF h
    <3>3. QED  BY <1>1, <1>3, <1>4, <2>3, <3>2 DEF AllInOrder
  <2>6. ASSUME KeptUp PROVE KeptUp'
    <3>1. InOfPipes(peer.pc, channel.in)  BY <2>6 DEF KeptUp
    <3>2. ~channel.in.closed /\ ~channel.in.reading  BY <1>1, <2>1, <3>1 DEF InOfPipes
    <3>3. InOfPipes(peer'.pc, channel'.in)  BY <1>3, <1>4, <2>3, <3>1, <3>2 DEF InOfPipes
    <3>4. Ended'  BY <1>3, <1>4, <2>3 DEF Ended
    <3>5. Yielded'
      <4>1. x = Len(peer.got) + 1 /\ \A j \in DOMAIN peer.got : peer.got[j] = j  BY <2>1, <2>6 DEF KeptUp, Yielded
      <4>2. \A j \in DOMAIN h : h[j] = j
        <5>1. \A j \in DOMAIN h : j \in DOMAIN peer.got \/ j = Len(h)  BY <2>1, <2>2
        <5>2. QED  BY <2>2, <4>1, <5>1
      <4>3. QED  BY <1>3, <1>4, <2>3, <4>2 DEF Yielded
    <3>6. ASSUME Underway PROVE Underway'
      <4> DEFINE g == Len(peer.got)
                 or == channel.out.result
                 ov == channel.out.value
                 n == app.next
                 v == channel.wire
                 M1(k, y, z) == NoneMissing(g, x, v, k, y, z, n)
                 M2(k, y, z) == NoneMissing(g + 1, 0, v, k, y, z, n)
      <4>1. g \in Nat /\ or \in Int /\ ov \in Int /\ n \in Int /\ n > 0 /\ x \in Int /\ x > 0
            /\ v \in Seq(Int) /\ Len(v) \in Nat
        BY <1>1, <2>1, InOrderTyped, StreamTyped
      <4>2. \A k \in Nat, y, z \in Int : M1(k, y, z) => M2(k, y, z)
        <5> HIDE DEF g, n, v, x
        <5>1. ASSUME NEW k \in Nat, NEW y \in Int, NEW z \in Int, NoneMissing(g, x, v, k, y, z, n)
              PROVE  NoneMissing(g + 1, 0, v, k, y, z, n)
          BY <4>1, <5>1, NumbersMove
        <5>2. QED  BY <5>1
      <4>3. /\ channel'.wire = v /\ channel'.out = channel.out /\ Len(peer'.got) = g + 1 /\ channel'.in.result = 0
            /\ app'.next = n /\ app'.pc = app.pc
        BY <1>1, <1>3, <1>4, <2>2, <2>3
      <4>4. CASE channel.cancelled  BY <1>4, <3>6, <4>4 DEF Underway
      <4>5. CASE ~channel.cancelled /\ channel.ended
        <5>1. v # <<>> /\ M1(Len(v) - 1, 0, 0)  BY <3>6, <4>5 DEF Underway
        <5>2. Len(v) - 1 \in Nat  BY <4>1, <5>1, EmptySeq
        <5>3. M2(Len(v) - 1, 0, 0)
          <6> DEFINE k == Len(v) - 1
          <6>1. k \in Nat /\ M1(k, 0, 0) /\ 0 \in Int  BY <5>1, <5>2
          <6> HIDE DEF M1, M2, v, k
          <6>2. M2(k, 0, 0)  BY <4>2, <6>1
          <6>3. QED  BY <6>2 DEF k
        <5>4. NoneMissing(Len(peer'.got), channel'.in.result, channel'.wire, Len(channel'.wire) - 1, 0, 0, app'.next)
          BY <4>3, <5>3
        <5>5. QED  BY <1>4, <3>6, <4>3, <4>5, <5>4 DEF Underway
      <4>6. CASE ~channel.cancelled /\ ~channel.ended
        <5>1. M1(Len(v), or, ov)  BY <3>6, <4>6 DEF Underway
        <5>2. M2(Len(v), or, ov)
          <6> HIDE DEF M1, M2, v, or, ov
          <6>1. QED  BY <4>1, <4>2, <5>1
        <5>3. NoneMissing(Len(peer'.got), channel'.in.result, channel'.wire, Len(channel'.wire),
                          channel'.out.result, channel'.out.value, app'.next)
          BY <4>3, <5>2
        <5>4. QED  BY <1>4, <3>6, <4>3, <4>6, <5>3 DEF Underway
      <4>7. QED  BY <4>4, <4>5, <4>6
    <3>7. QED  BY <1>1, <1>3, <1>4, <2>6, <3>2, <3>3, <3>4, <3>5, <3>6 DEF KeptUp
  <2>7. QED  BY <1>1, <1>4, <2>3, <2>4, <2>5, <2>6, StreamTogether DEF StreamInv
<1>7. QED  BY <1>1, <1>2, <1>5, <1>6

\* What the client does with what arrives.
LEMMA Arrival ==
    ASSUME NEW p \in Pipe!Pipes(S!Chunk), NEW x \in Wired,
           NEW q, q = CASE x = -1 -> Pipe!Close(p) [] x = -2 -> Pipe!Throw(p)
                        [] OTHER -> IF Pipe!Refuses(p) THEN p ELSE Pipe!Send(p, x)
    PROVE  /\ q \in Pipe!Pipes(S!Chunk)
           /\ \/ (q.result = p.result \/ q.result \in {-1, -2}) /\ (q.value = p.value \/ q.value = 0)
              \/ q.result = x /\ q.value = 0
              \/ q.result = p.result /\ q.value = x
           /\ p.closed /\ ~p.reading /\ ~p.thrown /\ p.value = 0
              => q.closed /\ ~q.reading /\ ~q.thrown /\ q.value = 0 /\ q.result = p.result
           /\ ~p.closed /\ p.reading /\ ~p.thrown /\ p.value = 0
              => /\ ~q.reading /\ ~q.thrown /\ q.value = 0 /\ q.result = x /\ (q.closed <=> x \in {-1, -2})
<1>1. CASE x = -1
  <2>1. q = Pipe!Close(p)  BY <1>1
  <2>2. /\ q \in Pipe!Pipes(S!Chunk) /\ q.closed /\ ~q.thrown /\ ~q.reading
        /\ q.value = 0 /\ q.result = IF p.reading THEN -1 ELSE p.result
    BY <2>1, PipeClose
  <2>3. QED  BY <1>1, <2>2, PipeTypes
<1>2. CASE x = -2
  <2>1. q = Pipe!Throw(p)  BY <1>2
  <2>2. /\ q \in Pipe!Pipes(S!Chunk)
        /\ q.closed <=> p.closed \/ p.reading
        /\ q.reading <=> p.closed /\ p.reading
        /\ q.thrown <=> p.thrown \/ (~p.closed /\ ~p.reading)
        /\ q.value = p.value
        /\ q.result = IF ~p.closed /\ p.reading THEN -2 ELSE p.result
    BY <2>1, PipeThrow
  <2>3. QED  BY <1>2, <2>2, PipeTypes
<1>3. CASE x \in S!Chunk /\ x # -1 /\ x # -2
  <2>1. CASE Pipe!Refuses(p)
    <3>1. q = p  BY <1>3, <2>1
    <3>2. p.closed \/ p.thrown \/ p.value # 0  BY <2>1, PipeTypes
    <3>3. QED  BY <1>3, <3>1, <3>2, PipeTypes
  <2>2. CASE ~Pipe!Refuses(p)
    <3>1. q = Pipe!Send(p, x)  BY <1>3, <2>2
    <3>2. ~p.closed /\ ~p.thrown /\ p.value = 0  BY <2>2, PipeTypes
    <3>3. /\ q \in Pipe!Pipes(S!Chunk) /\ (q.closed <=> p.closed) /\ (q.thrown <=> p.thrown) /\ ~q.reading
          /\ q.value = IF p.reading THEN p.value ELSE x
          /\ q.result = IF p.reading THEN x ELSE p.result
      BY <1>3, <3>1, PipeSend
    <3>4. QED  BY <1>3, <3>2, <3>3, PipeTypes
  <2>3. QED  BY <2>1, <2>2
<1>4. QED  BY <1>1, <1>2, <1>3 DEF Wired

\* What was written first arrives.
LEMMA StreamArrive == ASSUME StreamInv, S!Arrive PROVE StreamInv'
<1> DEFINE v == channel.wire
           x == Head(v)
           w == Tail(v)
           p == channel.in
           i == CASE x = -1 -> Pipe!Close(p) [] x = -2 -> Pipe!Throw(p)
                  [] OTHER -> IF Pipe!Refuses(p) THEN p ELSE Pipe!Send(p, x)
<1>1. /\ StreamTypes /\ v # <<>> /\ (peer.slow \/ p.reading \/ p.closed)
      /\ peer' = peer /\ app' = app /\ phase' = phase /\ faults' = faults
      /\ channel' = [channel EXCEPT !.wire = w, !.in = i]
  <2>1. channel \in StreamChannels  BY DEF StreamInv, StreamTypes
  <2>2. i = CASE x = S!Done -> S!OnEnd(p) [] x = S!Failed -> S!OnError(p) [] OTHER -> S!OnData(p, x)
    BY PipeNames DEF S!OnEnd, S!OnError, S!OnData
  <2> HIDE DEF i
  <2>3. QED  BY <2>1, <2>2 DEF S!Arrive, StreamInv, StreamChannels
<1>2. /\ p \in Pipe!Pipes(S!Chunk) /\ v \in Seq(Wired) /\ v \in Seq(Int) /\ x \in Wired /\ w \in Seq(Wired)
      /\ Len(v) \in Nat \ {0} /\ Len(w) = Len(v) - 1 /\ x = v[1] /\ \A j \in 1 .. Len(w) : w[j] = v[j + 1]
  <2>1. p \in Pipe!Pipes(S!Chunk) /\ v \in Seq(Wired) /\ v \in Seq(Int)  BY <1>1, StreamTyped
  <2>2. QED  BY <1>1, <2>1, HeadTailProperties, EmptySeq
<1>3. /\ i \in Pipe!Pipes(S!Chunk)
      /\ \/ (i.result = p.result \/ i.result \in {-1, -2}) /\ (i.value = p.value \/ i.value = 0)
         \/ i.result = x /\ i.value = 0
         \/ i.result = p.result /\ i.value = x
      /\ p.closed /\ ~p.reading /\ ~p.thrown /\ p.value = 0
         => i.closed /\ ~i.reading /\ ~i.thrown /\ i.value = 0 /\ i.result = p.result
      /\ ~p.closed /\ p.reading /\ ~p.thrown /\ p.value = 0
         => /\ ~i.reading /\ ~i.thrown /\ i.value = 0 /\ i.result = x /\ (i.closed <=> x \in {-1, -2})
  <2> HIDE DEF x, p
  <2>1. QED  BY <1>2, Arrival
<1> HIDE DEF i
<1>4. /\ channel' \in StreamChannels /\ channel'.out = channel.out /\ channel'.in = i /\ channel'.wire = w
      /\ channel'.writing = channel.writing /\ channel'.again = channel.again
      /\ (channel'.ended <=> channel.ended) /\ (channel'.cancelled <=> channel.cancelled)
      /\ (channel'.full <=> channel.full)
  <2> HIDE DEF w
  <2>1. QED  BY <1>1, <1>2, <1>3 DEF StreamTypes, StreamChannels
<1>5. StreamTypes'  BY <1>1, <1>4 DEF StreamTypes
<1>6. ASSUME ~channel'.full PROVE AllInOrder'
  <2> DEFINE or == channel.out.result
             ov == channel.out.value
             n == app.next
             got == peer.got
             ir == p.result
             iv == p.value
  <2>1. AllInOrder  BY <1>4, <1>6 DEF StreamInv
  <2>2. /\ InOrder(got, x, 0, w, or, ov, n) /\ InOrder(got, ir, x, w, or, ov, n) /\ InOrder(got, ir, iv, w, or, ov, n)
    BY <1>1, <2>1, AllArrive
  <2>3. /\ got \in Seq(Int) /\ w \in Seq(Int) /\ or \in Int /\ ov \in Int /\ n \in Int /\ ir \in Int /\ iv \in Int
    <3>1. v \in Seq(Int) /\ v # <<>>  BY <1>1, <1>2
    <3> HIDE DEF v
    <3>2. w \in Seq(Int)  BY <3>1, HeadTailProperties
    <3>3. QED  BY <1>1, <3>2, InOrderTyped, StreamTyped
  <2>4. i.result \in Int /\ i.value \in Int
    <3>1. \A y \in S!Chunk : y \in Int  BY <1>1, StreamTyped
    <3>2. i.result \in S!Chunk \cup {0, -1, -2} /\ i.value \in S!Chunk \cup {0}  BY <1>3, PipeTypes
    <3>3. QED  BY <3>1, <3>2
  <2> HIDE DEF or, ov, n, got, ir, iv, w, x
  <2>5. ASSUME (i.result = ir \/ i.result \in {-1, -2}) /\ (i.value = iv \/ i.value = 0)
        PROVE  InOrder(got, i.result, i.value, w, or, ov, n)
    <3>1. (i.result = ir \/ i.result <= 0) /\ (i.value = iv \/ i.value <= 0)  BY <2>4, <2>5
    <3> DEFINE y == i.result
               z == i.value
    <3>2. y \in Int /\ z \in Int /\ (y = ir \/ y <= 0) /\ (z = iv \/ z <= 0)  BY <2>4, <3>1
    <3> HIDE DEF y, z
    <3>3. InOrder(got, y, z, w, or, ov, n)  BY <2>2, <2>3, <3>2, InOrderDrops
    <3>4. QED  BY <3>3 DEF y, z
  <2>6. InOrder(got, i.result, i.value, w, or, ov, n)
    BY <1>3, <2>2, <2>5 DEF ir, iv
  <2>7. QED  BY <1>1, <1>4, <2>6 DEF AllInOrder, or, ov, n, got
<1>7. ASSUME KeptUp, ~peer.slow PROVE KeptUp'
  <2>0. InOfPipes(peer.pc, p) /\ Ended /\ Yielded  BY <1>7 DEF KeptUp
  <2>1. CASE p.closed
    <3>1. i.closed /\ ~i.reading /\ ~i.thrown /\ i.value = 0 /\ i.result = p.result
      BY <1>3, <2>0, <2>1 DEF InOfPipes
    <3>2. InOfPipes(peer'.pc, channel'.in)  BY <1>1, <1>4, <2>0, <2>1, <3>1 DEF InOfPipes
    <3>3. QED  BY <1>1, <1>4, <1>7, <2>0, <3>1, <3>2 DEF KeptUp, Ended, Yielded
  <2>2. CASE ~p.closed
    <3>1. /\ ~i.reading /\ ~i.thrown /\ i.value = 0 /\ i.result = x /\ (i.closed <=> x \in {-1, -2})
          /\ p.result = 0 /\ peer.pc # "busy" /\ peer.pc # "end" /\ peer.pc # "fail" /\ Underway
      BY <1>1, <1>3, <1>7, <2>0, <2>2 DEF InOfPipes, KeptUp
    <3>2. InOfPipes(peer'.pc, channel'.in)  BY <1>1, <1>4, <3>1 DEF InOfPipes
    <3> DEFINE g == Len(peer.got)
               or == channel.out.result
               ov == channel.out.value
               n == app.next
    <3>3. g \in Nat /\ or \in Int /\ ov \in Int /\ n \in Int /\ n > 0
      BY <1>1, InOrderTyped, StreamTyped
    <3>4. ASSUME NEW k \in Nat, k > 0, k <= Len(v), NEW y \in Int, NEW z \in Int, NoneMissing(g, 0, v, k, y, z, n)
          PROVE  x = g + 1 /\ NoneMissing(g, x, w, k - 1, y, z, n)
      <4>1. v \in Seq(Int) /\ 0 \in Int  BY <1>2
      <4> HIDE DEF g, n, v
      <4>2. Head(v) = g + 1 /\ NoneMissing(g, Head(v), Tail(v), k - 1, y, z, n)
        BY <3>3, <3>4, <4>1, NumbersOnWire
      <4>3. QED  BY <4>2
    <3> HIDE DEF x, w
    <3>5. CASE channel.cancelled
      <4>1. x = -2  BY <3>1, <3>5 DEF Underway, x
      <4>2. Ended' /\ Yielded'  BY <1>1, <1>4, <2>0, <3>1, <4>1 DEF Ended, Yielded
      <4>3. QED  BY <1>1, <1>4, <1>7, <3>1, <3>2, <4>1, <4>2 DEF KeptUp
    <3>6. CASE ~channel.cancelled /\ channel.ended
      <4>1. /\ v[Len(v)] = -1 /\ or = 0 /\ ov = 0 /\ app.pc = "closed"
            /\ NoneMissing(g, 0, v, Len(v) - 1, 0, 0, n)
        BY <3>1, <3>6 DEF Underway
      <4>2. CASE Len(v) = 1
        <5>1. x = -1  BY <1>2, <4>1, <4>2
        <5>2. n = g + 1  BY <3>3, <4>1, <4>2 DEF NoneMissing, One
        <5>3. Ended' /\ Yielded'  BY <1>1, <1>4, <2>0, <3>1, <3>3, <4>1, <5>1, <5>2 DEF Ended, Yielded
        <5>4. QED  BY <1>1, <1>4, <1>7, <3>1, <3>2, <5>1, <5>3 DEF KeptUp
      <4>3. CASE Len(v) # 1
        <5> DEFINE k == Len(v) - 1
        <5>1. k \in Nat /\ k > 0 /\ k <= Len(v) /\ k = Len(w)
          <6>1. Len(v) \in Nat \ {0} /\ Len(w) = Len(v) - 1  BY <1>2
          <6> HIDE DEF v
          <6>2. QED  BY <4>3, <6>1
        <5>2. x = g + 1 /\ NoneMissing(g, x, w, k - 1, 0, 0, n)
          <6>1. NoneMissing(g, 0, v, k, 0, 0, n) /\ 0 \in Int  BY <4>1
          <6> HIDE DEF k, v, g, n
          <6>2. QED  BY <3>4, <5>1, <6>1
        <5>3. w # <<>> /\ w[Len(w)] = -1
          <6>1. Len(w) \in 1 .. Len(w)  BY <5>1
          <6>2. w[Len(w)] = v[Len(w) + 1]  BY <1>2, <6>1
          <6>3. w # <<>>  BY <5>1, EmptySeq
          <6>4. QED  BY <1>2, <4>1, <6>2, <6>3
        <5>4. Underway'
          <6>1. NoneMissing(Len(peer'.got), channel'.in.result, channel'.wire, Len(channel'.wire) - 1, 0, 0, app'.next)
            <7>1. NoneMissing(g, i.result, w, Len(w) - 1, 0, 0, n)  BY <3>1, <5>1, <5>2
            <7>2. QED  BY <1>1, <1>4, <7>1
          <6>2. QED  BY <1>1, <1>4, <3>6, <4>1, <5>3, <6>1 DEF Underway
        <5>5. Ended' /\ Yielded'  BY <1>1, <1>4, <2>0, <3>1, <3>3, <5>2 DEF Ended, Yielded
        <5>6. QED  BY <1>1, <1>4, <1>7, <3>2, <5>4, <5>5 DEF KeptUp
      <4>4. QED  BY <4>2, <4>3
    <3>7. CASE ~channel.cancelled /\ ~channel.ended
      <4> DEFINE k == Len(v)
      <4>1. k \in Nat /\ k > 0 /\ k <= Len(v) /\ k - 1 = Len(w) /\ NoneMissing(g, 0, v, k, or, ov, n)
        BY <1>2, <3>1, <3>7 DEF Underway
      <4>2. x = g + 1 /\ NoneMissing(g, x, w, k - 1, or, ov, n)
        <5> HIDE DEF k, v, g, n, or, ov
        <5>1. QED  BY <3>3, <3>4, <4>1
      <4>3. Underway'
        <5>1. NoneMissing(Len(peer'.got), channel'.in.result, channel'.wire, Len(channel'.wire),
                          channel'.out.result, channel'.out.value, app'.next)
          <6>1. NoneMissing(g, i.result, w, Len(w), or, ov, n)  BY <3>1, <4>1, <4>2
          <6>2. QED  BY <1>1, <1>4, <6>1
        <5>2. QED  BY <1>4, <3>7, <5>1 DEF Underway
      <4>4. Ended' /\ Yielded'  BY <1>1, <1>4, <2>0, <3>1, <3>3, <4>2 DEF Ended, Yielded
      <4>5. QED  BY <1>1, <1>4, <1>7, <3>2, <4>3, <4>4 DEF KeptUp
    <3>8. QED  BY <3>5, <3>6, <3>7
  <2>3. QED  BY <2>1, <2>2
<1>8. QED  BY <1>1, <1>4, <1>5, <1>6, <1>7, StreamTogether DEF StreamInv

\* No step of the stream breaks the invariant.
LEMMA StreamStep == ASSUME StreamInv, S!Next PROVE StreamInv'
BY StreamHandlerSend, StreamHandlerClose, StreamHandlerFails, StreamCancel, StreamDispose, StreamWrite, StreamWritten,
   StreamWriteAgain, StreamEndLoop, StreamArrive, StreamYield, StreamAskNext
DEF S!Next, S!Progress

\* What the invariant is for.
LEMMA StreamImplies == ASSUME StreamInv PROVE S!TypeOK /\ S!Ordered /\ S!Whole
<1>1. StreamTypes  BY DEF StreamInv
<1>2. S!TypeOK
  BY <1>1, PipeNames DEF StreamTypes, StreamPeers, StreamChannels, Wired, S!TypeOK, S!SharedTypeOK
<1>3. \A j \in DOMAIN peer.got : peer.got[j] \in Int /\ peer.got[j] > 0
  <2>1. \A y \in S!Chunk : y \in Int /\ y > 0  BY <1>1, StreamTyped
  <2>2. peer.got \in Seq(S!Chunk)  BY <1>1, StreamTyped
  <2>3. QED  BY <2>1, <2>2
<1>4. S!Ordered
  <2>1. SUFFICES ASSUME ~channel.full PROVE S!Increasing(peer.got)  BY DEF S!Ordered
  <2>2. SortedBy(peer.got, Earlier)  BY <2>1 DEF StreamInv, AllInOrder, InOrder
  <2>3. QED  BY <1>3, <2>2 DEF SortedBy, Earlier, Less, S!Increasing
<1>5. S!Whole
  <2>1. SUFFICES ASSUME ~channel.full, ~peer.slow, peer.pc = "end", phase = "run"
                 PROVE  peer.got = [j \in 1 .. app.next - 1 |-> j]
    BY DEF S!Whole
  <2>2. Len(peer.got) = app.next - 1 /\ \A j \in DOMAIN peer.got : peer.got[j] = j
    BY <2>1 DEF StreamInv, KeptUp, Ended, Yielded
  <2>3. peer.got = [j \in 1 .. Len(peer.got) |-> peer.got[j]] /\ DOMAIN peer.got = 1 .. Len(peer.got)
    <3>1. peer.got \in Seq(Int)  BY <1>1, StreamTyped
    <3>2. QED  BY <3>1
  <2>4. QED  BY <2>2, <2>3
<1>6. QED  BY <1>2, <1>4, <1>5

(***************************************************************************)
(* Sums over finite sets: the fold by which a sum is defined takes the     *)
(* elements in an order that does not depend on what is added.             *)
(***************************************************************************)
Chosen(s) == CHOOSE x \in s : TRUE
SumAt(g, f, s) == IF s = {} THEN 0 ELSE f[Chosen(s)] + g[s \ {Chosen(s)}]
IsSum(g, f, T) == g = [s \in SUBSET T |-> SumAt(g, f, s)]
Differ(f, k, m, d, T) == \A x \in T : k[x] = f[x] + (IF x = m THEN d ELSE 0)
SumsApart(g, h, m, d, T) == \A s \in SUBSET T : g[s] \in Int /\ h[s] = g[s] + (IF m \in s THEN d ELSE 0)
Total(f, T) == (CHOOSE g : IsSum(g, f, T))[T]

\* The subsets of a finite set are finite; one element less is one less.
LEMMA SubsetSizes ==
    ASSUME NEW T, IsFiniteSet(T), NEW s \in SUBSET T
    PROVE  /\ IsFiniteSet(s) /\ Cardinality(s) \in Nat /\ Cardinality(s) <= Cardinality(T)
           /\ s # {} => /\ Chosen(s) \in s /\ s \ {Chosen(s)} \in SUBSET T
                        /\ Cardinality(s \ {Chosen(s)}) = Cardinality(s) - 1 /\ Cardinality(s) # 0
           /\ s = {} <=> Cardinality(s) = 0
<1>1. IsFiniteSet(s) /\ Cardinality(s) <= Cardinality(T)  BY FS_Subset
<1>2. Cardinality(s) \in Nat /\ (s = {} <=> Cardinality(s) = 0)  BY <1>1, FS_CardinalityType, FS_EmptySet
<1>3. ASSUME s # {}
      PROVE  Chosen(s) \in s /\ Cardinality(s \ {Chosen(s)}) = Cardinality(s) - 1
  <2>1. Chosen(s) \in s  BY <1>3 DEF Chosen
  <2>2. QED  BY <1>1, <2>1, FS_RemoveElement
<1>4. QED  BY <1>1, <1>2, <1>3

\* There is a function from the subsets to their sums.
LEMMA SumExists ==
    ASSUME NEW T, IsFiniteSet(T), NEW f \in [T -> Int]
    PROVE  \E g \in [SUBSET T -> Int] : IsSum(g, f, T)
<1> DEFINE Upto(g, n) == \A s \in SUBSET T : Cardinality(s) <= n => g[s] = SumAt(g, f, s)
           N == {n \in Nat : \E g \in [SUBSET T -> Int] : Upto(g, n)}
<1>1. 0 \in N
  <2> DEFINE g == [s \in SUBSET T |-> 0]
  <2>1. g \in [SUBSET T -> Int]  OBVIOUS
  <2>2. Upto(g, 0)
    <3>1. ASSUME NEW s \in SUBSET T, Cardinality(s) <= 0 PROVE g[s] = SumAt(g, f, s)
      <4> HIDE DEF g
      <4>1. Cardinality(s) \in Nat /\ (s = {} <=> Cardinality(s) = 0)  BY SubsetSizes
      <4>2. s = {}  BY <3>1, <4>1
      <4> USE DEF g
      <4>3. QED  BY <4>2 DEF SumAt
    <3>2. QED  BY <3>1
  <2> HIDE DEF Upto, g
  <2>3. QED  BY <2>1, <2>2
<1>2. ASSUME NEW n \in Nat, n \in N PROVE n + 1 \in N
  <2>1. PICK g \in [SUBSET T -> Int] : Upto(g, n)  BY <1>2
  <2> DEFINE h == [s \in SUBSET T |-> IF Cardinality(s) <= n THEN g[s] ELSE SumAt(g, f, s)]
  <2>2. \A s \in SUBSET T : SumAt(g, f, s) \in Int
    <3>1. ASSUME NEW s \in SUBSET T PROVE SumAt(g, f, s) \in Int
      <4>1. CASE s = {}  BY <4>1 DEF SumAt
      <4>2. CASE s # {}
        <5>1. Chosen(s) \in T /\ s \ {Chosen(s)} \in SUBSET T  BY <4>2, SubsetSizes
        <5>2. f[Chosen(s)] \in Int /\ g[s \ {Chosen(s)}] \in Int  BY <5>1
        <5>3. QED  BY <4>2, <5>2 DEF SumAt
      <4>3. QED  BY <4>1, <4>2
    <3>2. QED  BY <3>1
  <2>3. h \in [SUBSET T -> Int]  BY <2>2
  <2>4. Upto(h, n + 1)
    <3>1. ASSUME NEW s \in SUBSET T, Cardinality(s) <= n + 1 PROVE h[s] = SumAt(h, f, s)
      <4>1. h[s] = SumAt(g, f, s)  BY <2>1
      <4>2. CASE s = {}  BY <4>1, <4>2 DEF SumAt
      <4>3. CASE s # {}
        <5> DEFINE r == s \ {Chosen(s)}
        <5>1. r \in SUBSET T /\ Cardinality(r) = Cardinality(s) - 1 /\ Cardinality(s) \in Nat
          BY <4>3, SubsetSizes
        <5> HIDE DEF r
        <5>2. h[r] = g[r]  BY <3>1, <5>1
        <5> HIDE DEF h
        <5>3. QED  BY <4>1, <4>3, <5>2 DEF SumAt, r
      <4>4. QED  BY <4>2, <4>3
    <3>2. QED  BY <3>1
  <2> HIDE DEF Upto, h
  <2>5. QED  BY <2>3, <2>4
<1>3. Cardinality(T) \in N
  <2>1. Nat \subseteq N
    <3> HIDE DEF N
    <3>1. QED  BY <1>1, <1>2, Induction
  <2>2. QED  BY <2>1, FS_CardinalityType
<1>4. PICK g \in [SUBSET T -> Int] : Upto(g, Cardinality(T))  BY <1>3
<1>5. \A s \in SUBSET T : g[s] = SumAt(g, f, s)
  <2>1. ASSUME NEW s \in SUBSET T PROVE g[s] = SumAt(g, f, s)
    <3>1. Cardinality(s) <= Cardinality(T)  BY SubsetSizes
    <3>2. QED  BY <1>4, <3>1
  <2>2. QED  BY <2>1
<1>6. IsSum(g, f, T)
  <2>1. g = [s \in SUBSET T |-> g[s]]  OBVIOUS
  <2>2. QED  BY <1>5, <2>1 DEF IsSum
<1>7. QED  BY <1>6

\* What is added to one element is added to the sum of the sets that have it.
LEMMA SumsDiffer ==
    ASSUME NEW T, IsFiniteSet(T), NEW f \in [T -> Int], NEW k \in [T -> Int], NEW m, NEW d \in Int,
           Differ(f, k, m, d, T),
           NEW g, IsSum(g, f, T), NEW h, IsSum(h, k, T)
    PROVE  SumsApart(g, h, m, d, T)
<1> DEFINE Ok(s) == g[s] \in Int /\ h[s] = g[s] + (IF m \in s THEN d ELSE 0)
           N == {n \in Nat : \A s \in SUBSET T : Cardinality(s) = n => Ok(s)}
<1>0. \A s \in SUBSET T : g[s] = SumAt(g, f, s) /\ h[s] = SumAt(h, k, s)  BY DEF IsSum
<1>1. 0 \in N
  <2>1. ASSUME NEW s \in SUBSET T, Cardinality(s) = 0 PROVE Ok(s)
    <3>0. s = {} <=> Cardinality(s) = 0  BY SubsetSizes
    <3>1. s = {}  BY <2>1, <3>0
    <3>2. g[s] = 0 /\ h[s] = 0  BY <1>0, <3>1 DEF SumAt
    <3>3. QED  BY <3>1, <3>2
  <2> HIDE DEF Ok
  <2>2. QED  BY <2>1
<1>2. ASSUME NEW n \in Nat, n \in N PROVE n + 1 \in N
  <2>1. ASSUME NEW s \in SUBSET T, Cardinality(s) = n + 1 PROVE Ok(s)
    <3> DEFINE x == Chosen(s)
               r == s \ {x}
    <3>0. Cardinality(s) \in Nat /\ (s = {} <=> Cardinality(s) = 0)  BY SubsetSizes
    <3>1. s # {}  BY <2>1, <3>0
    <3>2. x \in s /\ x \in T /\ r \in SUBSET T /\ Cardinality(r) = n  BY <2>1, <3>1, SubsetSizes
    <3>3. Ok(r)
      <4> HIDE DEF Ok, r
      <4>1. QED  BY <1>2, <3>2
    <3>4. g[s] = f[x] + g[r] /\ h[s] = k[x] + h[r]  BY <1>0, <3>1 DEF SumAt
    <3>5. f[x] \in Int /\ k[x] = f[x] + (IF x = m THEN d ELSE 0)  BY <3>2 DEF Differ
    <3>6. CASE x = m
      <4>1. m \in s /\ m \notin r  BY <3>2, <3>6
      <4> HIDE DEF r, x
      <4>2. QED  BY <3>3, <3>4, <3>5, <3>6, <4>1
    <3>7. CASE x # m
      <4>1. m \in s <=> m \in r  BY <3>7
      <4> HIDE DEF r, x
      <4>2. QED  BY <3>3, <3>4, <3>5, <3>7, <4>1
    <3>8. QED  BY <3>6, <3>7
  <2> HIDE DEF Ok
  <2>2. QED  BY <2>1
<1>3. Nat \subseteq N
  <2> HIDE DEF N
  <2>1. QED  BY <1>1, <1>2, Induction
<1>4. ASSUME NEW s \in SUBSET T PROVE Ok(s)
  <2>1. Cardinality(s) \in N  BY <1>3, SubsetSizes
  <2> HIDE DEF Ok
  <2>2. QED  BY <2>1
<1>5. QED  BY <1>4 DEF SumsApart

\* There is only one.
LEMMA SumsAgree ==
    ASSUME NEW T, IsFiniteSet(T), NEW f \in [T -> Int], NEW g, IsSum(g, f, T), NEW h, IsSum(h, f, T)
    PROVE  \A s \in SUBSET T : g[s] \in Int /\ h[s] = g[s]
<1>1. Differ(f, f, 0, 0, T)  BY DEF Differ
<1>2. 0 \in Int  OBVIOUS
<1>3. SumsApart(g, h, 0, 0, T)  BY <1>1, <1>2, SumsDiffer
<1>4. QED  BY <1>3 DEF SumsApart

\* The total is an integer, and the value of every such function.
LEMMA TotalIs ==
    ASSUME NEW T, IsFiniteSet(T), NEW f \in [T -> Int]
    PROVE  /\ Total(f, T) \in Int
           /\ \A g : IsSum(g, f, T) => g[T] = Total(f, T)
<1> DEFINE c == CHOOSE g : IsSum(g, f, T)
<1>1. IsSum(c, f, T)
  <2>1. \E g : IsSum(g, f, T)  BY SumExists
  <2>2. QED  BY <2>1
<1> HIDE DEF c
<1>3. ASSUME NEW g, IsSum(g, f, T) PROVE g[T] = c[T] /\ c[T] \in Int
  <2>1. \A s \in SUBSET T : c[s] \in Int /\ g[s] = c[s]
    BY <1>1, <1>3, SumsAgree
  <2>2. T \in SUBSET T  OBVIOUS
  <2>3. QED  BY <2>1, <2>2
<1>4. Total(f, T) = c[T]  BY DEF Total, c
<1>5. Total(f, T) \in Int  BY <1>1, <1>3, <1>4
<1>6. QED  BY <1>3, <1>4, <1>5

\* What is added to one element is added to the total, if it has that element.
LEMMA TotalAdds ==
    ASSUME NEW T, IsFiniteSet(T), NEW f \in [T -> Int], NEW k \in [T -> Int], NEW m, NEW d \in Int,
           Differ(f, k, m, d, T)
    PROVE  Total(k, T) = Total(f, T) + (IF m \in T THEN d ELSE 0)
<1>1. PICK g \in [SUBSET T -> Int] : IsSum(g, f, T)  BY SumExists
<1>2. PICK h \in [SUBSET T -> Int] : IsSum(h, k, T)  BY SumExists
<1>3. T \in SUBSET T  OBVIOUS
<1>4. SumsApart(g, h, m, d, T)
  BY <1>1, <1>2, SumsDiffer
<1>5. h[T] = g[T] + (IF m \in T THEN d ELSE 0)  BY <1>3, <1>4 DEF SumsApart
<1>6. g[T] = Total(f, T) /\ h[T] = Total(k, T)  BY <1>1, <1>2, TotalIs
<1>7. QED  BY <1>5, <1>6

\* The total of nothing is zero.
LEMMA TotalZero ==
    ASSUME NEW T, IsFiniteSet(T), NEW f \in [T -> Int], \A x \in T : f[x] = 0
    PROVE  Total(f, T) = 0
<1> DEFINE g == [s \in SUBSET T |-> 0]
<1>1. ASSUME NEW s \in SUBSET T PROVE SumAt(g, f, s) = 0
  <2>1. CASE s = {}  BY <2>1 DEF SumAt
  <2>2. CASE s # {}
    <3>1. Chosen(s) \in T /\ s \ {Chosen(s)} \in SUBSET T  BY <2>2, SubsetSizes
    <3>2. QED  BY <2>2, <3>1 DEF SumAt
  <2>3. QED  BY <2>1, <2>2
<1>2. IsSum(g, f, T)  BY <1>1 DEF IsSum
<1>3. g[T] = 0  OBVIOUS
<1> HIDE DEF g
<1>4. QED  BY <1>2, <1>3, TotalIs

(***************************************************************************)
(* What the registry must show: each call weighed by how often it was      *)
(* completed.                                                              *)
(***************************************************************************)
Weighted(d, w, T) == Total([m \in T |-> d[m] * w[m]], T)
Ones == [m \in Calls |-> 1]
Times == [m \in Calls |-> m]
Amounts == [m \in Calls |-> Amount[m]]

\* The messages, and what their handlers measure.
LEMMA CallsTyped ==
    /\ IsFiniteSet(Calls) /\ Calls \subseteq 1 .. 3
    /\ Ones \in [Calls -> Int] /\ Times \in [Calls -> Int] /\ Amounts \in [Calls -> Int]
    /\ \A m \in Calls : Amount[m] \in Int
<1>1. DOMAIN Amount = 1 .. 3 /\ \A m \in 1 .. 3 : Amount[m] \in Int  BY DEF Amount
<1>2. Calls \subseteq 1 .. 3  BY <1>1, CallsAssumption
<1>3. IsFiniteSet(1 .. 3)
  <2>1. \A n \in Int : IsFiniteSet(1 .. n)  BY FS_Interval
  <2>2. 3 \in Int  OBVIOUS
  <2>3. QED  BY <2>1, <2>2, Zenon
<1>4. IsFiniteSet(Calls)  BY <1>2, <1>3, FS_Subset
<1>5. QED  BY <1>1, <1>2, <1>4 DEF Ones, Times, Amounts

\* A weighted sum is an integer.
LEMMA WeightedType ==
    ASSUME NEW T \in SUBSET Calls, NEW d \in [Calls -> Nat], NEW w \in [Calls -> Int]
    PROVE  Weighted(d, w, T) \in Int
<1>1. IsFiniteSet(T)  BY CallsTyped, FS_Subset
<1> DEFINE f == [m \in T |-> d[m] * w[m]]
<1>2. f \in [T -> Int]  OBVIOUS
<1> HIDE DEF f
<1>3. Total(f, T) \in Int  BY <1>1, <1>2, TotalIs
<1>4. QED  BY <1>3 DEF Weighted, f

\* Before anything is completed every sum is zero.
LEMMA WeightedZero ==
    ASSUME NEW T \in SUBSET Calls, NEW w \in [Calls -> Int], NEW d \in [Calls -> Nat], \A m \in Calls : d[m] = 0
    PROVE  Weighted(d, w, T) = 0
<1>1. IsFiniteSet(T)  BY CallsTyped, FS_Subset
<1> DEFINE f == [m \in T |-> d[m] * w[m]]
<1>2. f \in [T -> Int] /\ \A m \in T : f[m] = 0
  <2>1. \A m \in T : w[m] \in Int /\ d[m] = 0  OBVIOUS
  <2>2. \A m \in T : d[m] * w[m] = 0  BY <2>1
  <2>3. QED  BY <2>2
<1> HIDE DEF f
<1>3. Total(f, T) = 0  BY <1>1, <1>2, TotalZero
<1>4. QED  BY <1>3 DEF Weighted, f

\* One more completion adds its weight to the sums that count it.
LEMMA WeightedAdds ==
    ASSUME NEW T \in SUBSET Calls, NEW d \in [Calls -> Nat], NEW w \in [Calls -> Int], NEW m \in Calls
    PROVE  Weighted([d EXCEPT ![m] = @ + 1], w, T) = Weighted(d, w, T) + (IF m \in T THEN w[m] ELSE 0)
<1>1. IsFiniteSet(T)  BY CallsTyped, FS_Subset
<1> DEFINE e == [d EXCEPT ![m] = @ + 1]
           f == [x \in T |-> d[x] * w[x]]
           k == [x \in T |-> e[x] * w[x]]
<1>2. \A a, b \in Int : (a + 1) * b = a * b + b  OBVIOUS
<1>3. \A x \in T : d[x] \in Int /\ w[x] \in Int /\ e[x] \in Int /\ e[x] = IF x = m THEN d[x] + 1 ELSE d[x]  OBVIOUS
<1>4. w[m] \in Int  OBVIOUS
<1> HIDE DEF e
<1>5. f \in [T -> Int] /\ k \in [T -> Int]  BY <1>3
<1>6. ASSUME NEW x \in T PROVE k[x] = f[x] + (IF x = m THEN w[m] ELSE 0)
  <2>1. k[x] = e[x] * w[x] /\ f[x] = d[x] * w[x] /\ f[x] \in Int  BY <1>5
  <2> HIDE DEF k, f
  <2>2. CASE x = m
    <3>1. k[x] = (d[x] + 1) * w[x]  BY <1>3, <2>1, <2>2
    <3>2. k[x] = d[x] * w[x] + w[x]  BY <1>2, <1>3, <3>1
    <3>3. QED  BY <2>1, <2>2, <3>2
  <2>3. CASE x # m
    <3>1. k[x] = f[x]  BY <1>3, <2>1, <2>3
    <3>2. QED  BY <2>1, <2>3, <3>1
  <2>4. QED  BY <2>2, <2>3
<1> HIDE DEF f, k
<1>7. Differ(f, k, m, w[m], T)  BY <1>6 DEF Differ
<1>8. Total(k, T) = Total(f, T) + (IF m \in T THEN w[m] ELSE 0)  BY <1>1, <1>4, <1>5, <1>7, TotalAdds
<1>9. QED  BY <1>8 DEF Weighted, e, f, k

\* The sums that the property takes.
Made == [m \in Calls |-> app[m].made]

\* Tally weighs each completion alike.
LEMMA TallyIs ==
    ASSUME NEW l, NEW C, C \cap M!Having(l) \in SUBSET Calls, Made \in [Calls -> Nat]
    PROVE  M!Tally(l, C) = Weighted(Made, Ones, C \cap M!Having(l))
<1> DEFINE T == C \cap M!Having(l)
           F(g) == g = [s \in SUBSET T |-> IF s = {} THEN 0 ELSE app[CHOOSE x \in s : TRUE].made + g[s \ {CHOOSE x \in s : TRUE}]]
           f == [m \in T |-> Made[m] * Ones[m]]
<1>1. M!Tally(l, C) = (CHOOSE g : F(g))[T]  BY DEF M!Tally, M!Sum, M!FoldSet, M!MapThenFoldSet
<1>2. T \in SUBSET Calls  OBVIOUS
<1> HIDE DEF T
<1>3. IsFiniteSet(T)  BY <1>2, CallsTyped, FS_Subset
<1>4. \A m \in T : Made[m] = app[m].made /\ Made[m] \in Nat /\ Ones[m] = 1 /\ Made[m] * 1 = Made[m]  BY <1>2 DEF Made, Ones
<1>5. f \in [T -> Int] /\ \A m \in T : f[m] = app[m].made  BY <1>4
<1>6. ASSUME NEW g PROVE F(g) <=> IsSum(g, f, T)
  <2>1. ASSUME NEW s \in SUBSET T
        PROVE (IF s = {} THEN 0 ELSE app[CHOOSE x \in s : TRUE].made + g[s \ {CHOOSE x \in s : TRUE}]) = SumAt(g, f, s)
    <3>1. s # {} => Chosen(s) \in T  BY DEF Chosen
    <3>2. s # {} => f[Chosen(s)] = app[Chosen(s)].made  BY <1>5, <3>1
    <3> HIDE DEF f
    <3>3. QED  BY <3>2 DEF SumAt, Chosen
  <2> HIDE DEF f
  <2>2. QED  BY <2>1 DEF IsSum
<1> HIDE DEF f, F
<1>7. PICK g \in [SUBSET T -> Int] : IsSum(g, f, T)  BY <1>3, <1>5, SumExists
<1>8. F(CHOOSE h : F(h))  BY <1>6, <1>7
<1>9. (CHOOSE h : F(h))[T] = Total(f, T)  BY <1>3, <1>5, <1>6, <1>8, TotalIs
<1>10. QED  BY <1>1, <1>9 DEF Weighted, f, T

\* The counters weigh it by what was added to them.
LEMMA CounterIs ==
    ASSUME NEW l, Made \in [Calls -> Nat]
    PROVE  M!Sum(LAMBDA m : app[m].made * Amount[m], M!Up \cap M!Having(l)) = Weighted(Made, Amounts, M!Up \cap M!Having(l))
<1> DEFINE T == M!Up \cap M!Having(l)
           F(g) == g = [s \in SUBSET T |-> IF s = {} THEN 0 ELSE app[CHOOSE x \in s : TRUE].made * Amount[CHOOSE x \in s : TRUE]
                                                              + g[s \ {CHOOSE x \in s : TRUE}]]
           f == [m \in T |-> Made[m] * Amounts[m]]
<1>2. T \in SUBSET Calls  BY DEF M!Having, M!Up
<1>1. M!Sum(LAMBDA m : app[m].made * Amount[m], M!Up \cap M!Having(l)) = (CHOOSE g : F(g))[T]  BY DEF M!Sum, M!FoldSet, M!MapThenFoldSet
<1> HIDE DEF T
<1>3. IsFiniteSet(T)  BY <1>2, CallsTyped, FS_Subset
<1>4. \A m \in T : Made[m] = app[m].made /\ Made[m] \in Nat /\ Amounts[m] \in Int /\ Amounts[m] = Amount[m]
  BY <1>2, CallsTyped DEF Made, Amounts
<1>5. f \in [T -> Int] /\ \A m \in T : f[m] = app[m].made * Amount[m]  BY <1>4
<1>6. ASSUME NEW g PROVE F(g) <=> IsSum(g, f, T)
  <2>1. ASSUME NEW s \in SUBSET T
        PROVE (IF s = {} THEN 0 ELSE app[CHOOSE x \in s : TRUE].made * Amount[CHOOSE x \in s : TRUE]
                                     + g[s \ {CHOOSE x \in s : TRUE}]) = SumAt(g, f, s)
    <3>1. s # {} => Chosen(s) \in T  BY DEF Chosen
    <3>2. s # {} => f[Chosen(s)] = app[Chosen(s)].made * Amount[Chosen(s)]  BY <1>5, <3>1
    <3> HIDE DEF f
    <3>3. QED  BY <3>2 DEF SumAt, Chosen
  <2> HIDE DEF f
  <2>2. QED  BY <2>1 DEF IsSum
<1> HIDE DEF f, F
<1>7. PICK g \in [SUBSET T -> Int] : IsSum(g, f, T)  BY <1>3, <1>5, SumExists
<1>8. F(CHOOSE h : F(h))  BY <1>6, <1>7
<1>9. (CHOOSE h : F(h))[T] = Total(f, T)  BY <1>3, <1>5, <1>6, <1>8, TotalIs
<1>10. QED  BY Zenon, <1>1, <1>9 DEF Weighted, f, T

\* The timings weigh it by what was measured.
LEMMA TimesIs ==
    ASSUME NEW l, Made \in [Calls -> Nat]
    PROVE  M!Sum(LAMBDA m : app[m].made * M!Time(m), M!Having(l)) = Weighted(Made, Times, M!Having(l))
<1> DEFINE T == M!Having(l)
           F(g) == g = [s \in SUBSET T |-> IF s = {} THEN 0 ELSE app[CHOOSE x \in s : TRUE].made * (CHOOSE x \in s : TRUE)
                                                              + g[s \ {CHOOSE x \in s : TRUE}]]
           f == [m \in T |-> Made[m] * Times[m]]
<1>2. T \in SUBSET Calls  BY DEF M!Having, M!Up
<1>1. M!Sum(LAMBDA m : app[m].made * M!Time(m), M!Having(l)) = (CHOOSE g : F(g))[T]  BY DEF M!Sum, M!FoldSet, M!MapThenFoldSet, M!Time
<1> HIDE DEF T
<1>3. IsFiniteSet(T)  BY <1>2, CallsTyped, FS_Subset
<1>4. \A m \in T : Made[m] = app[m].made /\ Made[m] \in Nat /\ Times[m] \in Int /\ Times[m] = m
  BY <1>2, CallsTyped DEF Made, Times
<1>5. f \in [T -> Int] /\ \A m \in T : f[m] = app[m].made * m  BY <1>4
<1>6. ASSUME NEW g PROVE F(g) <=> IsSum(g, f, T)
  <2>1. ASSUME NEW s \in SUBSET T
        PROVE (IF s = {} THEN 0 ELSE app[CHOOSE x \in s : TRUE].made * (CHOOSE x \in s : TRUE)
                                     + g[s \ {CHOOSE x \in s : TRUE}]) = SumAt(g, f, s)
    <3>1. s # {} => Chosen(s) \in T  BY DEF Chosen
    <3>2. s # {} => f[Chosen(s)] = app[Chosen(s)].made * Chosen(s)  BY <1>5, <3>1
    <3> HIDE DEF f
    <3>3. QED  BY <3>2 DEF SumAt, Chosen
  <2> HIDE DEF f
  <2>2. QED  BY <2>1 DEF IsSum
<1> HIDE DEF f, F
<1>7. PICK g \in [SUBSET T -> Int] : IsSum(g, f, T)  BY <1>3, <1>5, SumExists
<1>8. F(CHOOSE h : F(h))  BY <1>6, <1>7
<1>9. (CHOOSE h : F(h))[T] = Total(f, T)  BY <1>3, <1>5, <1>6, <1>8, TotalIs
<1>10. QED  BY Zenon, <1>1, <1>9 DEF Weighted, f, T

(***************************************************************************)
(* The registry: one recording, and the three of a completed handling.     *)
(***************************************************************************)
Histograms == [count: Int, sum: Int, buckets: [1 .. 3 -> Int]]
Reports == [counter: [M!Labels -> Int], gauge: [M!Labels -> Int], timing: [M!Labels -> Histograms]]
Items == Calls \X {"counter", "gauge", "timing"}
Apply(prom, r, p) ==
  IF ~prom /\ p[2] = "counter" THEN [r EXCEPT !.counter[Label[p[1]]] = @ + Amount[p[1]]]
  ELSE M!Recorded(r, p[1], p[2])
Bumped(prom, n, by) == IF prom THEN M!Increment(n, by) ELSE n + by

\* One observation in a histogram.
LEMMA ObserveTyped ==
    ASSUME NEW h \in Histograms, NEW v \in Int
    PROVE  /\ M!Observe(h, v) \in Histograms
           /\ M!Observe(h, v).count = h.count + 1 /\ M!Observe(h, v).sum = h.sum + v
           /\ \A i \in 1 .. 3 : M!Observe(h, v).buckets[i] = h.buckets[i] + (IF M!ReachedFrom(i, v) THEN 1 ELSE 0)
<1>1. h.count \in Int /\ h.sum \in Int /\ h.buckets \in [1 .. 3 -> Int] /\ DOMAIN h.buckets = 1 .. 3
  BY DEF Histograms
<1> DEFINE b == [i \in 1 .. 3 |-> h.buckets[i] + (IF M!ReachedFrom(i, v) THEN 1 ELSE 0)]
<1>2. b \in [1 .. 3 -> Int] /\ \A i \in 1 .. 3 : b[i] = h.buckets[i] + (IF M!ReachedFrom(i, v) THEN 1 ELSE 0)
  BY <1>1
<1>3. M!Observe(h, v) = [count |-> h.count + 1, sum |-> h.sum + v, buckets |-> b]  BY <1>1 DEF M!Observe
<1> HIDE DEF b
<1>4. M!Observe(h, v) \in Histograms  BY <1>1, <1>2, <1>3 DEF Histograms
<1>5. QED  BY <1>2, <1>3, <1>4

\* The parts of a report.
LEMMA ReportFields ==
    ASSUME NEW r \in Reports
    PROVE  r.counter \in [M!Labels -> Int] /\ r.gauge \in [M!Labels -> Int] /\ r.timing \in [M!Labels -> Histograms]
BY DEF Reports

\* Only what is recorded changes.
LEMMA ApplyCounter ==
    ASSUME NEW prom \in BOOLEAN, NEW r \in Reports, NEW m \in Calls
    PROVE  LET q == Apply(prom, r, <<m, "counter">>)
           IN q \in Reports /\ q.timing = r.timing
              /\ q.counter = [r.counter EXCEPT ![Label[m]] = Bumped(prom, r.counter[Label[m]], Amount[m])]
<1> DEFINE b == Bumped(prom, r.counter[Label[m]], Amount[m])
           c == [r.counter EXCEPT ![Label[m]] = b]
           q == Apply(prom, r, <<m, "counter">>)
<1>1. Label[m] \in M!Labels  BY DEF M!Labels
<1>2. b \in Int  BY <1>1, CallsTyped, ReportFields DEF Bumped, M!Increment
<1>3. q = [r EXCEPT !.counter = c]  BY DEF Apply, M!Recorded, Bumped, Reports
<1> HIDE DEF b
<1>4. c \in [M!Labels -> Int]  BY <1>2, ReportFields
<1> HIDE DEF c, q
<1>5. q \in Reports /\ q.timing = r.timing /\ q.counter = c  BY <1>3, <1>4 DEF Reports
<1>6. QED  BY <1>5 DEF b, c, q

\* A gauge is set; no property counts it.
LEMMA ApplyGauge ==
    ASSUME NEW prom \in BOOLEAN, NEW r \in Reports, NEW m \in Calls
    PROVE  LET q == Apply(prom, r, <<m, "gauge">>)
           IN q \in Reports /\ q.timing = r.timing /\ q.counter = r.counter
<1> DEFINE c == [r.gauge EXCEPT ![Label[m]] = m]
           q == Apply(prom, r, <<m, "gauge">>)
<1>1. q = [r EXCEPT !.gauge = c]  BY DEF Apply, M!Recorded, Reports
<1>0. m \in Int /\ r.gauge \in [M!Labels -> Int]  BY CallsTyped, ReportFields
<1>2. c \in [M!Labels -> Int]  BY <1>0
<1> HIDE DEF c, q
<1>3. q \in Reports /\ q.timing = r.timing /\ q.counter = r.counter  BY <1>1, <1>2 DEF Reports
<1>4. QED  BY <1>3 DEF q

\* A timing is observed in the histogram of its label.
LEMMA ApplyTiming ==
    ASSUME NEW prom \in BOOLEAN, NEW r \in Reports, NEW m \in Calls
    PROVE  LET q == Apply(prom, r, <<m, "timing">>)
           IN q \in Reports /\ q.counter = r.counter
              /\ q.timing = [r.timing EXCEPT ![Label[m]] = M!Observe(r.timing[Label[m]], m)]
<1> DEFINE b == M!Observe(r.timing[Label[m]], m)
           c == [r.timing EXCEPT ![Label[m]] = b]
           q == Apply(prom, r, <<m, "timing">>)
<1>1. Label[m] \in M!Labels /\ m \in Int  BY CallsTyped DEF M!Labels
<1>2. b \in Histograms  BY <1>1, ObserveTyped, ReportFields
<1>3. q = [r EXCEPT !.timing = c]  BY DEF Apply, M!Recorded, M!Time, Reports
<1> HIDE DEF b
<1>4. c \in [M!Labels -> Histograms]  BY <1>2, ReportFields
<1> HIDE DEF c, q
<1>5. q \in Reports /\ q.counter = r.counter /\ q.timing = c  BY <1>3, <1>4 DEF Reports
<1>6. QED  BY <1>5 DEF b, c, q

\* A recording leaves a report.
LEMMA ApplyTyped ==
    ASSUME NEW prom \in BOOLEAN, NEW r \in Reports, NEW p \in Items
    PROVE  Apply(prom, r, p) \in Reports
<1>1. PICK m \in Calls, k \in {"counter", "gauge", "timing"} : p = <<m, k>>  BY DEF Items
<1>2. CASE k = "counter"  BY <1>1, <1>2, ApplyCounter
<1>3. CASE k = "gauge"  BY <1>1, <1>3, ApplyGauge
<1>4. CASE k = "timing"  BY <1>1, <1>4, ApplyTiming
<1>5. QED  BY <1>2, <1>3, <1>4

Thrice(prom, r, m) ==
  Apply(prom, Apply(prom, Apply(prom, r, <<m, "counter">>), <<m, "gauge">>), <<m, "timing">>)

\* The three measurements of one handling.
LEMMA ThriceIs ==
    ASSUME NEW prom \in BOOLEAN, NEW r \in Reports, NEW m \in Calls
    PROVE  LET q == Thrice(prom, r, m)
           IN /\ q \in Reports
              /\ q.counter = [r.counter EXCEPT ![Label[m]] = Bumped(prom, r.counter[Label[m]], Amount[m])]
              /\ q.timing = [r.timing EXCEPT ![Label[m]] = M!Observe(r.timing[Label[m]], m)]
<1> DEFINE r1 == Apply(prom, r, <<m, "counter">>)
           r2 == Apply(prom, r1, <<m, "gauge">>)
           r3 == Apply(prom, r2, <<m, "timing">>)
<1>1. /\ r1 \in Reports /\ r1.timing = r.timing
      /\ r1.counter = [r.counter EXCEPT ![Label[m]] = Bumped(prom, r.counter[Label[m]], Amount[m])]
  BY ApplyCounter
<1> HIDE DEF r1
<1>2. r2 \in Reports /\ r2.timing = r1.timing /\ r2.counter = r1.counter  BY <1>1, ApplyGauge
<1> HIDE DEF r2
<1>3. /\ r3 \in Reports /\ r3.counter = r2.counter
      /\ r3.timing = [r2.timing EXCEPT ![Label[m]] = M!Observe(r2.timing[Label[m]], m)]
  BY <1>2, ApplyTiming
<1> HIDE DEF r3
<1>4. Thrice(prom, r, m) = r3  BY DEF Thrice, r1, r2, r3
<1>5. QED  BY <1>1, <1>2, <1>3, <1>4

Countable(prom) == {m \in Calls : prom => Amount[m] >= 0}
Under(i) == {m \in Calls : M!ReachedFrom(i, m)}
Counts(r, d, prom) == \A l \in M!Labels :
  /\ r.counter[l] = Weighted(d, Amounts, Countable(prom) \cap M!Having(l))
  /\ r.timing[l].count = Weighted(d, Ones, M!Having(l))
  /\ r.timing[l].sum = Weighted(d, Times, M!Having(l))
  /\ \A i \in 1 .. 3 : r.timing[l].buckets[i] = Weighted(d, Ones, Under(i) \cap M!Having(l))

\* A completed handling is counted whole.
LEMMA CountsAfter ==
    ASSUME NEW prom \in BOOLEAN, NEW r \in Reports, NEW m \in Calls, NEW d \in [Calls -> Nat], Counts(r, d, prom)
    PROVE  Counts(Thrice(prom, r, m), [d EXCEPT ![m] = @ + 1], prom)
<1> DEFINE q == Thrice(prom, r, m)
           e == [d EXCEPT ![m] = @ + 1]
           X == Label[m]
<1>1. /\ q \in Reports
      /\ q.counter = [r.counter EXCEPT ![X] = Bumped(prom, r.counter[X], Amount[m])]
      /\ q.timing = [r.timing EXCEPT ![X] = M!Observe(r.timing[X], m)]
  BY ThriceIs
<1> HIDE DEF q
<1>2. Ones[m] = 1 /\ Times[m] = m /\ Amounts[m] = Amount[m] /\ m \in Int /\ Amount[m] \in Int
  BY CallsTyped DEF Ones, Times, Amounts
<1>3. ASSUME NEW T \in SUBSET Calls, NEW w \in [Calls -> Int]
      PROVE  Weighted(e, w, T) = Weighted(d, w, T) + (IF m \in T THEN w[m] ELSE 0) /\ Weighted(d, w, T) \in Int
  BY WeightedAdds, WeightedType
<1> HIDE DEF e
<1>4. ASSUME NEW l \in M!Labels
      PROVE  /\ q.counter[l] = Weighted(e, Amounts, Countable(prom) \cap M!Having(l))
             /\ q.timing[l].count = Weighted(e, Ones, M!Having(l))
             /\ q.timing[l].sum = Weighted(e, Times, M!Having(l))
             /\ \A i \in 1 .. 3 : q.timing[l].buckets[i] = Weighted(e, Ones, Under(i) \cap M!Having(l))
  <2> DEFINE C == Countable(prom) \cap M!Having(l)
             H == M!Having(l)
             B(i) == Under(i) \cap M!Having(l)
  <2>1. /\ C \in SUBSET Calls /\ H \in SUBSET Calls /\ (m \in H <=> l = X)
        /\ m \in C <=> l = X /\ (prom => Amount[m] >= 0)
        /\ \A i \in 1 .. 3 : B(i) \in SUBSET Calls /\ (m \in B(i) <=> l = X /\ M!ReachedFrom(i, m))
    BY DEF Countable, M!Having, Under
  <2>2. /\ r.counter[l] = Weighted(d, Amounts, C) /\ r.timing[l].count = Weighted(d, Ones, H)
        /\ r.timing[l].sum = Weighted(d, Times, H)
        /\ \A i \in 1 .. 3 : r.timing[l].buckets[i] = Weighted(d, Ones, B(i))
    BY DEF Counts
  <2> HIDE DEF C, H, B, X
  <2>3. /\ Weighted(e, Amounts, C) = Weighted(d, Amounts, C) + (IF m \in C THEN Amount[m] ELSE 0)
        /\ Weighted(e, Ones, H) = Weighted(d, Ones, H) + (IF m \in H THEN 1 ELSE 0)
        /\ Weighted(e, Times, H) = Weighted(d, Times, H) + (IF m \in H THEN m ELSE 0)
        /\ Weighted(d, Amounts, C) \in Int /\ Weighted(d, Ones, H) \in Int /\ Weighted(d, Times, H) \in Int
    BY <1>2, <1>3, <2>1, CallsTyped
  <2>4. \A i \in 1 .. 3 : /\ Weighted(e, Ones, B(i)) = Weighted(d, Ones, B(i)) + (IF m \in B(i) THEN 1 ELSE 0)
                          /\ Weighted(d, Ones, B(i)) \in Int
    BY <1>2, <1>3, <2>1, CallsTyped
  <2>5. r.counter \in [M!Labels -> Int] /\ r.timing \in [M!Labels -> Histograms]  BY ReportFields
  <2>6. CASE l = X
    <3>1. q.counter[l] = Bumped(prom, r.counter[l], Amount[m]) /\ q.timing[l] = M!Observe(r.timing[l], m)
      BY <1>1, <2>5, <2>6
    <3>2. /\ q.timing[l].count = r.timing[l].count + 1 /\ q.timing[l].sum = r.timing[l].sum + m
          /\ \A i \in 1 .. 3 :
               q.timing[l].buckets[i] = r.timing[l].buckets[i] + (IF M!ReachedFrom(i, m) THEN 1 ELSE 0)
      <4> DEFINE h == r.timing[l]
                 o == M!Observe(h, m)
      <4>1. h \in Histograms /\ q.timing[l] = o  BY <2>5, <3>1
      <4> HIDE DEF h
      <4>2. /\ o.count = h.count + 1 /\ o.sum = h.sum + m
            /\ \A i \in 1 .. 3 : o.buckets[i] = h.buckets[i] + (IF M!ReachedFrom(i, m) THEN 1 ELSE 0)
        BY <1>2, <4>1, ObserveTyped
      <4> HIDE DEF o
      <4>3. QED  BY <4>1, <4>2 DEF h
    <3>3. q.counter[l] = Weighted(e, Amounts, C)
      <4>1. q.counter[l] = IF prom /\ Amount[m] < 0 THEN r.counter[l] ELSE r.counter[l] + Amount[m]
        BY <3>1 DEF Bumped, M!Increment
      <4>2. QED  BY <1>2, <2>1, <2>2, <2>3, <2>6, <4>1
    <3>4. \A i \in 1 .. 3 : q.timing[l].buckets[i] = Weighted(e, Ones, B(i))
      BY <2>1, <2>2, <2>4, <2>6, <3>2
    <3>5. q.timing[l].count = Weighted(e, Ones, H) /\ q.timing[l].sum = Weighted(e, Times, H)
      BY <1>2, <2>1, <2>2, <2>3, <2>6, <3>2
    <3>6. QED  BY <3>3, <3>4, <3>5 DEF B, C, H
  <2>7. CASE l # X
    <3>1. q.counter[l] = r.counter[l] /\ q.timing[l] = r.timing[l]  BY <1>1, <2>5, <2>7
    <3>2. q.counter[l] = Weighted(e, Amounts, C) /\ q.timing[l].count = Weighted(e, Ones, H)
          /\ q.timing[l].sum = Weighted(e, Times, H)
      BY <2>1, <2>2, <2>3, <2>7, <3>1
    <3>3. \A i \in 1 .. 3 : q.timing[l].buckets[i] = Weighted(e, Ones, B(i))
      BY <2>1, <2>2, <2>4, <2>7, <3>1
    <3>4. QED  BY <3>2, <3>3 DEF B, C, H
  <2>8. QED  BY <2>6, <2>7
<1>5. QED  BY <1>4 DEF Counts, q, e

\* A new registry counts nothing.
LEMMA CountsNothing ==
    ASSUME NEW prom \in BOOLEAN, NEW d \in [Calls -> Nat], \A m \in Calls : d[m] = 0
    PROVE  M!NoReport \in Reports /\ Counts(M!NoReport, d, prom)
<1>1. Len(Buckets) + 1 = 3  BY DEF Buckets
<1>2. M!EmptyHistogram \in Histograms /\ M!EmptyHistogram.count = 0 /\ M!EmptyHistogram.sum = 0
      /\ \A i \in 1 .. 3 : M!EmptyHistogram.buckets[i] = 0
  <2>1. M!EmptyHistogram = [count |-> 0, sum |-> 0, buckets |-> [i \in 1 .. 3 |-> 0]]
    BY <1>1 DEF M!EmptyHistogram
  <2>2. QED  BY <2>1 DEF Histograms
<1>3. \A T \in SUBSET Calls, w \in [Calls -> Int] : Weighted(d, w, T) = 0  BY WeightedZero
<1>4. \A l \in M!Labels : /\ Countable(prom) \cap M!Having(l) \in SUBSET Calls /\ M!Having(l) \in SUBSET Calls
                          /\ \A i \in 1 .. 3 : Under(i) \cap M!Having(l) \in SUBSET Calls
  BY DEF Countable, M!Having
<1>5. M!NoReport \in Reports  BY <1>2 DEF M!NoReport, Reports
<1>6. \A l \in M!Labels : M!NoReport.counter[l] = 0 /\ M!NoReport.timing[l] = M!EmptyHistogram
  BY DEF M!NoReport
<1>7. QED  BY <1>2, <1>3, <1>4, <1>5, <1>6, CallsTyped DEF Counts

(***************************************************************************)
(* The fold by which a sequence is recorded: from the largest index down.  *)
(***************************************************************************)
Runs(f, prom, b, s) ==
  /\ f \in [0 .. Len(s) -> Reports] /\ f[0] = b
  /\ \A k \in 1 .. Len(s) : f[k] = Apply(prom, f[k - 1], s[k])
Leads(prom, b, s, x) == \E f : Runs(f, prom, b, s) /\ x = f[Len(s)]
FoldAt(g, prom, b, s, K) == IF K = {} THEN b ELSE Apply(prom, g[K \ {Max(K)}], s[Max(K)])
IsFold(g, prom, b, s) == g = [K \in SUBSET DOMAIN s |-> FoldAt(g, prom, b, s, K)]

\* No recording leaves the report as it is.
LEMMA LeadsNone ==
    ASSUME NEW prom, NEW b \in Reports
    PROVE  Leads(prom, b, <<>>, b)
<1> DEFINE f == [k \in 0 .. 0 |-> b]
<1>1. Len(<<>>) = 0  OBVIOUS
<1>2. Runs(f, prom, b, <<>>) /\ f[0] = b  BY <1>1 DEF Runs
<1> HIDE DEF f
<1>3. QED  BY <1>1, <1>2 DEF Leads

\* One recording more.
LEMMA LeadsAppend ==
    ASSUME NEW prom \in BOOLEAN, NEW b \in Reports, NEW s \in Seq(Items), NEW x, Leads(prom, b, s, x), NEW p \in Items
    PROVE  Append(s, p) \in Seq(Items) /\ x \in Reports /\ Leads(prom, b, Append(s, p), Apply(prom, x, p))
<1>1. PICK f : Runs(f, prom, b, s) /\ x = f[Len(s)]  BY DEF Leads
<1> DEFINE n == Len(s)
           t == Append(s, p)
           y == Apply(prom, x, p)
           h == [k \in 0 .. n + 1 |-> IF k <= n THEN f[k] ELSE y]
<1>2. n \in Nat /\ t \in Seq(Items) /\ Len(t) = n + 1 /\ t[n + 1] = p /\ \A k \in 1 .. n : t[k] = s[k]
  BY AppendProperties
<1>3. f \in [0 .. n -> Reports] /\ f[0] = b /\ x = f[n] /\ \A k \in 1 .. n : f[k] = Apply(prom, f[k - 1], s[k])
  BY <1>1 DEF Runs
<1> HIDE DEF n, t
<1>4. x \in Reports  BY <1>2, <1>3
<1>5. y \in Reports  BY <1>4, ApplyTyped
<1> HIDE DEF y
<1>6. h \in [0 .. n + 1 -> Reports] /\ h[0] = b /\ h[n + 1] = y /\ \A k \in 0 .. n : h[k] = f[k]
  BY <1>2, <1>3, <1>5
<1> HIDE DEF h
<1>7. ASSUME NEW k \in 1 .. n + 1 PROVE h[k] = Apply(prom, h[k - 1], t[k])
  <2>1. CASE k \in 1 .. n
    <3>1. k - 1 \in 0 .. n /\ k \in 0 .. n  BY <1>2, <2>1
    <3>2. QED  BY <1>2, <1>3, <1>6, <2>1, <3>1
  <2>2. CASE k \notin 1 .. n
    <3>1. k = n + 1 /\ k - 1 = n /\ n \in 0 .. n  BY <1>2, <2>2
    <3>2. h[k - 1] = x /\ t[k] = p /\ h[k] = y  BY <1>2, <1>3, <1>6, <3>1
    <3>3. QED  BY <3>2 DEF y
  <2>3. QED  BY <2>1, <2>2
<1>8. Runs(h, prom, b, t)  BY <1>2, <1>6, <1>7 DEF Runs
<1>9. Leads(prom, b, t, y)  BY <1>2, <1>6, <1>8 DEF Leads
<1>10. QED  BY <1>2, <1>4, <1>9 DEF t, y

\* Every sequence of recordings leads to some report.
LEMMA LeadsSome ==
    ASSUME NEW prom \in BOOLEAN, NEW b \in Reports, NEW s \in Seq(Items)
    PROVE  \E x \in Reports : Leads(prom, b, s, x)
<1> DEFINE T == {t \in Seq(Items) : \E x \in Reports : Leads(prom, b, t, x)}
<1>1. <<>> \in T
  <2>1. <<>> \in Seq(Items)  OBVIOUS
  <2>2. QED  BY <2>1, LeadsNone
<1>2. ASSUME NEW t \in Seq(Items), NEW p \in Items, t \in T PROVE Append(t, p) \in T
  <2>1. PICK x \in Reports : Leads(prom, b, t, x)  BY <1>2
  <2>2. Append(t, p) \in Seq(Items) /\ Leads(prom, b, Append(t, p), Apply(prom, x, p))  BY <2>1, LeadsAppend
  <2>3. Apply(prom, x, p) \in Reports  BY ApplyTyped
  <2>4. QED  BY <2>2, <2>3
<1>3. Seq(Items) \subseteq T
  <2> HIDE DEF T
  <2>1. QED  BY <1>1, <1>2, SequenceInduction
<1>4. QED  BY <1>3

\* The measurements of one handling, in their order.
Three(m) == [i \in DOMAIN M!Kinds |-> <<m, M!Kinds[i]>>]

\* The measurements of one handling are appended one by one.
LEMMA ThreeIs ==
    ASSUME NEW m \in Calls, NEW s \in Seq(Items)
    PROVE  s \o Three(m) = Append(Append(Append(s, <<m, "counter">>), <<m, "gauge">>), <<m, "timing">>)
<1>1. Three(m) = <<<<m, "counter">>, <<m, "gauge">>, <<m, "timing">>>>  BY DEF Three, M!Kinds
<1>2. QED  BY SMTT(30), <1>1

\* The recordings of one more handling.
LEMMA LeadsThree ==
    ASSUME NEW prom \in BOOLEAN, NEW b \in Reports, NEW s \in Seq(Items), NEW x, Leads(prom, b, s, x), NEW m \in Calls
    PROVE  s \o Three(m) \in Seq(Items) /\ x \in Reports /\ Leads(prom, b, s \o Three(m), Thrice(prom, x, m))
<1> DEFINE p1 == <<m, "counter">>
           p2 == <<m, "gauge">>
           p3 == <<m, "timing">>
           s1 == Append(s, p1)
           s2 == Append(s1, p2)
           s3 == Append(s2, p3)
           x1 == Apply(prom, x, p1)
           x2 == Apply(prom, x1, p2)
<1>1. p1 \in Items /\ p2 \in Items /\ p3 \in Items  BY DEF Items
<1>2. s \o Three(m) = s3 /\ Thrice(prom, x, m) = Apply(prom, x2, p3)  BY ThreeIs DEF Thrice
<1> HIDE DEF p1, p2, p3
<1>3. s1 \in Seq(Items) /\ x \in Reports /\ Leads(prom, b, s1, x1)  BY <1>1, LeadsAppend
<1> HIDE DEF s1, x1
<1>4. s2 \in Seq(Items) /\ Leads(prom, b, s2, x2)  BY <1>1, <1>3, LeadsAppend
<1> HIDE DEF s2, x2
<1>5. s3 \in Seq(Items) /\ Leads(prom, b, s3, Apply(prom, x2, p3))  BY <1>1, <1>4, LeadsAppend
<1>6. QED  BY <1>2, <1>3, <1>5

\* The largest place of some.
LEMMA PlacesMax ==
    ASSUME NEW s \in Seq(Items), NEW K \in SUBSET DOMAIN s
    PROVE  /\ IsFiniteSet(K) /\ Cardinality(K) \in Nat /\ Cardinality(K) <= Cardinality(DOMAIN s)
           /\ K # {} => /\ Max(K) \in DOMAIN s /\ s[Max(K)] \in Items /\ K \ {Max(K)} \in SUBSET DOMAIN s
                        /\ Cardinality(K \ {Max(K)}) = Cardinality(K) - 1
<1>1. DOMAIN s = 1 .. Len(s) /\ Len(s) \in Nat  OBVIOUS
<1>2. IsFiniteSet(DOMAIN s)
  <2>1. \A n \in Int : IsFiniteSet(1 .. n)  BY FS_Interval
  <2>2. Len(s) \in Int  BY <1>1
  <2>3. IsFiniteSet(1 .. Len(s))  BY <2>1, <2>2, Zenon
  <2>4. QED  BY <1>1, <2>3, Zenon
<1>3. IsFiniteSet(K) /\ Cardinality(K) \in Nat /\ Cardinality(K) <= Cardinality(DOMAIN s)
  BY <1>2, FS_Subset, FS_CardinalityType
<1>4. ASSUME K # {}
      PROVE  Max(K) \in K /\ Cardinality(K \ {Max(K)}) = Cardinality(K) - 1
  <2>1. K \in SUBSET Nat /\ \A n \in K : n <= Len(s)  BY <1>1
  <2>2. Max(K) \in K  BY <1>1, <1>4, <2>1, MaxProperties
  <2>3. QED  BY <1>3, <2>2, FS_RemoveElement
<1>5. QED  BY <1>3, <1>4

\* The fold has a value.
LEMMA FoldExists ==
    ASSUME NEW prom \in BOOLEAN, NEW b \in Reports, NEW s \in Seq(Items)
    PROVE  \E g \in [SUBSET DOMAIN s -> Reports] : IsFold(g, prom, b, s)
<1> DEFINE T == DOMAIN s
           At(g, K) == FoldAt(g, prom, b, s, K)
           Upto(g, n) == \A K \in SUBSET T : Cardinality(K) <= n => g[K] = At(g, K)
           N == {n \in Nat : \E g \in [SUBSET T -> Reports] : Upto(g, n)}
<1>0. ASSUME NEW g \in [SUBSET T -> Reports], NEW K \in SUBSET T
      PROVE  At(g, K) \in Reports
  <2>1. CASE K = {}  BY <2>1 DEF FoldAt
  <2>2. CASE K # {}
    <3>1. s[Max(K)] \in Items /\ K \ {Max(K)} \in SUBSET T  BY <2>2, PlacesMax
    <3>2. g[K \ {Max(K)}] \in Reports  BY <3>1
    <3>3. Apply(prom, g[K \ {Max(K)}], s[Max(K)]) \in Reports  BY <3>1, <3>2, ApplyTyped
    <3>4. QED  BY <2>2, <3>3 DEF FoldAt
  <2>3. QED  BY <2>1, <2>2
<1>1. 0 \in N
  <2> DEFINE g == [K \in SUBSET T |-> b]
  <2>1. g \in [SUBSET T -> Reports]  OBVIOUS
  <2>2. Upto(g, 0)
    <3>1. ASSUME NEW K \in SUBSET T, Cardinality(K) <= 0 PROVE g[K] = At(g, K)
      <4>1. IsFiniteSet(K) /\ Cardinality(K) \in Nat  BY PlacesMax
      <4>2. K = {}  BY <3>1, <4>1, FS_EmptySet
      <4>3. QED  BY <4>2 DEF FoldAt
    <3>2. QED  BY <3>1
  <2> HIDE DEF Upto, g
  <2>3. QED  BY <2>1, <2>2
<1>2. ASSUME NEW n \in Nat, n \in N PROVE n + 1 \in N
  <2>1. PICK g \in [SUBSET T -> Reports] : Upto(g, n)  BY <1>2
  <2> DEFINE h == [K \in SUBSET T |-> IF Cardinality(K) <= n THEN g[K] ELSE At(g, K)]
  <2>2. \A K \in SUBSET T : At(g, K) \in Reports
    <3> HIDE DEF At
    <3>1. QED  BY <1>0
  <2>3. h \in [SUBSET T -> Reports]
    <3> HIDE DEF At
    <3>1. QED  BY <2>2
  <2>4. Upto(h, n + 1)
    <3>1. ASSUME NEW K \in SUBSET T, Cardinality(K) <= n + 1 PROVE h[K] = At(h, K)
      <4>1. h[K] = At(g, K)
        <5> HIDE DEF At
        <5>1. QED  BY <2>1
      <4>2. CASE K = {}  BY <4>1, <4>2 DEF FoldAt
      <4>3. CASE K # {}
        <5> DEFINE R == K \ {Max(K)}
        <5>1. R \in SUBSET T /\ Cardinality(R) = Cardinality(K) - 1 /\ Cardinality(K) \in Nat
          BY <4>3, PlacesMax
        <5> HIDE DEF R, At
        <5>2. h[R] = g[R]  BY <3>1, <5>1
        <5> HIDE DEF h
        <5>3. QED  BY <4>1, <4>3, <5>2 DEF At, FoldAt, R
      <4>4. QED  BY <4>2, <4>3
    <3>2. QED  BY <3>1
  <2> HIDE DEF Upto, h
  <2>5. QED  BY <2>3, <2>4
<1>3. Cardinality(T) \in N
  <2>1. Nat \subseteq N
    <3> HIDE DEF N
    <3>1. QED  BY <1>1, <1>2, Induction
  <2>2. Cardinality(T) \in Nat  BY PlacesMax
  <2>3. QED  BY <2>1, <2>2
<1>4. PICK g \in [SUBSET T -> Reports] : Upto(g, Cardinality(T))  BY <1>3
<1>5. \A K \in SUBSET T : g[K] = At(g, K)
  <2>1. ASSUME NEW K \in SUBSET T PROVE g[K] = At(g, K)
    <3>1. Cardinality(K) <= Cardinality(T)  BY PlacesMax
    <3> HIDE DEF At
    <3>2. QED  BY <1>4, <3>1
  <2>2. QED  BY <2>1
<1>6. IsFold(g, prom, b, s)
  <2>1. g = [K \in SUBSET T |-> g[K]]  OBVIOUS
  <2> HIDE DEF At
  <2>2. g = [K \in SUBSET T |-> At(g, K)]  BY <1>5, <2>1
  <2>3. QED  BY <2>2 DEF IsFold, At
<1>7. QED  BY <1>6

\* It is what the recordings lead to.
LEMMA FoldLeads ==
    ASSUME NEW prom \in BOOLEAN, NEW b \in Reports, NEW s \in Seq(Items), NEW x, Leads(prom, b, s, x),
           NEW g, IsFold(g, prom, b, s)
    PROVE  g[DOMAIN s] = x
<1>1. PICK f : Runs(f, prom, b, s) /\ x = f[Len(s)]  BY DEF Leads
<1> DEFINE N == {n \in 0 .. Len(s) : g[1 .. n] = f[n]}
<1>2. Len(s) \in Nat /\ DOMAIN s = 1 .. Len(s)  OBVIOUS
<1>3. 0 \in N
  <2>1. 1 .. 0 = {} /\ {} \in SUBSET DOMAIN s  OBVIOUS
  <2>2. g[{}] = b  BY <2>1 DEF IsFold, FoldAt
  <2>3. f[0] = b  BY <1>1 DEF Runs
  <2>4. QED  BY <1>2, <2>1, <2>2, <2>3
<1>4. ASSUME NEW n \in 1 .. Len(s), n - 1 \in N PROVE n \in N
  <2> DEFINE K == 1 .. n
  <2>1. K \in SUBSET DOMAIN s /\ K # {} /\ K \in SUBSET Nat /\ n \in K /\ \A k \in K : k <= n  BY <1>2
  <2>2. Max(K) \in K /\ \A k \in K : k <= Max(K)
    <3> HIDE DEF K
    <3>1. n \in Nat  OBVIOUS
    <3>2. QED  BY <2>1, <3>1, MaxProperties
  <2>3. Max(K) = n  BY <2>1, <2>2
  <2>4. K \ {n} = 1 .. (n - 1)  OBVIOUS
  <2> HIDE DEF K
  <2>5. g[K] = Apply(prom, g[K \ {n}], s[n])  BY <2>1, <2>3 DEF IsFold, FoldAt
  <2>6. g[K \ {n}] = f[n - 1]  BY <1>4, <2>4
  <2>7. f[n] = Apply(prom, f[n - 1], s[n])  BY <1>1 DEF Runs
  <2>8. g[K] = f[n]  BY <2>5, <2>6, <2>7
  <2>9. n \in 0 .. Len(s)  BY <1>2
  <2>10. QED  BY <2>8, <2>9 DEF K
<1>5. 0 .. Len(s) \subseteq N
  <2> HIDE DEF N
  <2>1. QED  BY <1>2, <1>3, <1>4, BoundedInduction
<1>6. Len(s) \in N  BY <1>2, <1>5
<1>7. QED  BY <1>1, <1>2, <1>6

\* So both folds of the model record what the steps record.
LEMMA SendIs ==
    ASSUME channel.pending \in Seq(Items), channel.report \in Reports, M!Send,
           NEW x, Leads(FALSE, channel.report, channel.pending, x)
    PROVE  \/ faults' = faults /\ channel' = [channel EXCEPT !.pending = <<>>, !.report = x]
           \/ M!Fault /\ channel' = [channel EXCEPT !.pending = <<>>, !.lost = TRUE]
<1> DEFINE D == DOMAIN channel.pending
           F(g) == g = [K \in SUBSET D |-> IF K = {} THEN channel.report
                          ELSE IF channel.pending[Max(K)][2] = "counter"
                               THEN [g[K \ {Max(K)}] EXCEPT !.counter[Label[channel.pending[Max(K)][1]]]
                                                              = @ + Amount[channel.pending[Max(K)][1]]]
                               ELSE M!Recorded(g[K \ {Max(K)}], channel.pending[Max(K)][1], channel.pending[Max(K)][2])]
           c == CHOOSE g : F(g)
<1>1. \/ (faults' = faults /\ channel' = [channel EXCEPT !.pending = <<>>, !.report = (CHOOSE g : F(g))[D]])
      \/ (M!Fault /\ channel' = [channel EXCEPT !.pending = <<>>, !.lost = TRUE])
  BY Zenon DEF M!Send, M!NoFault, M!FoldLeft, M!MapThenFoldSet, M!Max, Max
<1>2. ASSUME NEW g PROVE F(g) <=> IsFold(g, FALSE, channel.report, channel.pending)
  BY DEF IsFold, FoldAt, Apply
<1> HIDE DEF F
<1>3. PICK g \in [SUBSET D -> Reports] : IsFold(g, FALSE, channel.report, channel.pending)  BY FoldExists
<1>4. F(c)  BY <1>2, <1>3
<1>5. IsFold(c, FALSE, channel.report, channel.pending)  BY <1>2, <1>4
<1> HIDE DEF c
<1>6. c[D] = x  BY <1>5, FoldLeads
<1>7. QED  BY Zenon, <1>1, <1>6 DEF c

(***************************************************************************)
(* Metrics.                                                                *)
(***************************************************************************)
Buffers == {SubSeq(M!Kinds, 1, n) : n \in 0 .. 3}
Handlers == [pc: {"handle", "done"}, try: 1 .. Retries + 1, buffer: Buffers, made: Nat]
MetricsChannels == [kind: {"prometheus", "statsd"}, report: Reports, pending: Seq(Items),
                    sockets: SUBSET Scrapers, lost: BOOLEAN]
MetricsTypes ==
  /\ peer \in [Scrapers -> {"away", "open"}] /\ channel \in MetricsChannels /\ app \in [Calls -> Handlers]
  /\ phase \in {"run", "stop", "end"} /\ faults \in 0 .. CallFaults

\* What a handler has noted is a prefix of what it will.
LEMMA BuffersTyped ==
    /\ <<>> \in Buffers /\ M!Kinds \in Seq({"counter", "gauge", "timing"}) /\ Len(M!Kinds) = 3
    /\ \A b \in Buffers : /\ Len(b) \in 0 .. 3 /\ b = SubSeq(M!Kinds, 1, Len(b))
                          /\ Len(b) = 3 => b = M!Kinds
                          /\ Len(b) < 3 => Append(b, M!Kinds[Len(b) + 1]) \in Buffers
<1> DEFINE K == M!Kinds
<1>1. K \in Seq({"counter", "gauge", "timing"}) /\ Len(K) = 3  BY DEF M!Kinds
<1> HIDE DEF K
<1>2. \A n \in 0 .. 3 : Len(SubSeq(K, 1, n)) = n  BY <1>1
<1>3. SubSeq(K, 1, 0) = <<>>  BY <1>1
<1>4. SubSeq(K, 1, 3) = K
  <2> DEFINE k == SubSeq(K, 1, 3)
  <2>1. k \in Seq({"counter", "gauge", "timing"}) /\ Len(k) = 3 /\ \A i \in 1 .. 3 : k[i] = K[i]  BY SMTT(30), <1>1
  <2> HIDE DEF k
  <2>2. k = K  BY <1>1, <2>1, SeqEqual
  <2>3. QED  BY <2>2 DEF k
<1>5. <<>> \in Buffers  BY <1>3 DEF Buffers, K
<1>6. ASSUME NEW b \in Buffers
      PROVE  /\ Len(b) \in 0 .. 3 /\ b = SubSeq(K, 1, Len(b)) /\ (Len(b) = 3 => b = K)
             /\ Len(b) < 3 => Append(b, K[Len(b) + 1]) \in Buffers
  <2>1. PICK n \in 0 .. 3 : b = SubSeq(K, 1, n)  BY DEF Buffers, K
  <2>2. Len(b) = n  BY <1>2, <2>1
  <2>3. ASSUME n < 3 PROVE Append(b, K[n + 1]) \in Buffers
    <3>1. n + 1 \in 1 .. Len(K) /\ n + 1 \in 0 .. 3 /\ (n + 1) - 1 = n  BY <1>1, <2>3
    <3>2. SubSeq(K, 1, n + 1) = Append(SubSeq(K, 1, (n + 1) - 1), K[n + 1])  BY <1>1, <3>1, SubSeqAppend
    <3>3. Append(b, K[n + 1]) = SubSeq(K, 1, n + 1)  BY <2>1, <3>1, <3>2
    <3>4. QED  BY <3>1, <3>3 DEF Buffers, K
  <2>4. QED  BY <1>4, <2>1, <2>2, <2>3
<1>7. QED  BY <1>1, <1>5, <1>6 DEF K

\* The registry shows what was completed; StatsD's server will, once it has
\* recorded what waits, unless something was lost.
Shown(ch, d) ==
  /\ ch.kind = "prometheus" => ch.pending = <<>> /\ Counts(ch.report, d, TRUE)
  /\ ch.kind = "statsd" /\ ~ch.lost =>
       \E x \in Reports : Leads(FALSE, ch.report, ch.pending, x) /\ Counts(x, d, FALSE)
Connected(p) == {s \in Scrapers : p[s] = "open"}
MetricsInv == MetricsTypes /\ Shown(channel, Made) /\ channel.sockets = Connected(peer)

\* The parts of the channel.
LEMMA ChannelFields ==
    ASSUME NEW ch \in MetricsChannels
    PROVE  /\ ch.kind \in {"prometheus", "statsd"} /\ ch.report \in Reports /\ ch.pending \in Seq(Items)
           /\ ch.sockets \in SUBSET Scrapers /\ ch.lost \in BOOLEAN
BY DEF MetricsChannels

\* A handling that is completed, with either kind.
LEMMA FlushIs ==
    ASSUME channel \in MetricsChannels, NEW m \in Calls, app[m].buffer = M!Kinds
    PROVE  /\ channel.kind = "prometheus" /\ channel.pending = <<>> =>
                M!Flush(m) = [channel EXCEPT !.report = Thrice(TRUE, channel.report, m)]
           /\ channel.kind = "statsd" => \/ M!Flush(m) = [channel EXCEPT !.pending = channel.pending \o Three(m)]
                                         \/ M!Flush(m) = [channel EXCEPT !.lost = TRUE]
<1>1. channel.report \in Reports /\ channel.pending \in Seq(Items)  BY ChannelFields
<1>2. ASSUME channel.kind = "prometheus"
      PROVE  M!Flush(m) = [channel EXCEPT !.report = Thrice(TRUE, channel.report, m)]
  <2> DEFINE B == DOMAIN app[m].buffer
             G(g) == g = [K \in SUBSET B |-> IF K = {} THEN channel.report
                                             ELSE M!Recorded(g[K \ {Max(K)}], m, app[m].buffer[Max(K)])]
             c == CHOOSE g : G(g)
             t == <<>> \o Three(m)
  <2>1. M!Flush(m) = [channel EXCEPT !.report = (CHOOSE g : G(g))[B]]
    BY <1>2 DEF M!Flush, M!Prometheus, M!FoldLeft, M!MapThenFoldSet, M!Max, Max
  <2>0. <<>> \in Seq(Items)  OBVIOUS
  <2>2. <<>> \in Seq(Items) /\ Leads(TRUE, channel.report, <<>>, channel.report)  BY <1>1, <2>0, LeadsNone
  <2>3. t \in Seq(Items) /\ Leads(TRUE, channel.report, t, Thrice(TRUE, channel.report, m))
    BY <1>1, <2>2, LeadsThree
  <2>4. t = Three(m)
    <3>1. Three(m) = <<<<m, "counter">>, <<m, "gauge">>, <<m, "timing">>>>  BY DEF Three, M!Kinds
    <3>2. QED  BY <3>1
  <2>5. DOMAIN t = B /\ \A i \in B : t[i] = <<m, app[m].buffer[i]>>  BY <2>4 DEF Three
  <2> HIDE DEF t
  <2>6. ASSUME NEW g PROVE G(g) <=> IsFold(g, TRUE, channel.report, t)
    <3>1. ASSUME NEW K \in SUBSET B
          PROVE (IF K = {} THEN channel.report ELSE M!Recorded(g[K \ {Max(K)}], m, app[m].buffer[Max(K)]))
                = FoldAt(g, TRUE, channel.report, t, K)
      <4>1. K # {} => Max(K) \in B  BY <2>3, <2>5, PlacesMax
      <4>2. K # {} => t[Max(K)][1] = m /\ t[Max(K)][2] = app[m].buffer[Max(K)]  BY <2>5, <4>1
      <4>3. QED  BY <4>2 DEF FoldAt, Apply
    <3>2. QED  BY <2>5, <3>1 DEF IsFold
  <2> HIDE DEF G, B
  <2>7. PICK g \in [SUBSET DOMAIN t -> Reports] : IsFold(g, TRUE, channel.report, t)  BY <1>1, <2>3, FoldExists
  <2>8. G(c)  BY <2>6, <2>7
  <2>9. IsFold(c, TRUE, channel.report, t)  BY <2>6, <2>8
  <2> HIDE DEF c
  <2>10. c[DOMAIN t] = Thrice(TRUE, channel.report, m)  BY <1>1, <2>3, <2>9, FoldLeads
  <2>11. QED  BY <2>1, <2>5, <2>10 DEF c
<1>3. ASSUME channel.kind = "statsd"
      PROVE  \/ M!Flush(m) = [channel EXCEPT !.pending = channel.pending \o Three(m)]
             \/ M!Flush(m) = [channel EXCEPT !.lost = TRUE]
  <2>1. M!Flush(m) = IF phase = "run"
                     THEN [channel EXCEPT !.pending = @ \o [i \in DOMAIN app[m].buffer |-> <<m, app[m].buffer[i]>>]]
                     ELSE [channel EXCEPT !.lost = TRUE]
    BY <1>3 DEF M!Flush, M!Prometheus, M!FoldLeft, M!MapThenFoldSet, M!Max, Max
  <2>2. [i \in DOMAIN app[m].buffer |-> <<m, app[m].buffer[i]>>] = Three(m)  BY DEF Three
  <2>3. QED  BY <2>1, <2>2
<1>4. QED  BY <1>2, <1>3

\* Shown stays when a handling is counted and recorded.
LEMMA ShownAfter ==
    ASSUME channel \in MetricsChannels, NEW m \in Calls, app[m].buffer = M!Kinds, NEW d \in [Calls -> Nat],
           Shown(channel, d)
    PROVE  /\ M!Flush(m) \in MetricsChannels /\ M!Flush(m).sockets = channel.sockets
           /\ Shown(M!Flush(m), [d EXCEPT ![m] = @ + 1])
<1> DEFINE q == M!Flush(m)
           e == [d EXCEPT ![m] = @ + 1]
<1>1. /\ channel.kind \in {"prometheus", "statsd"} /\ channel.report \in Reports /\ channel.pending \in Seq(Items)
      /\ channel.sockets \in SUBSET Scrapers /\ channel.lost \in BOOLEAN
  BY ChannelFields
<1>2. CASE channel.kind = "prometheus"
  <2> DEFINE r == Thrice(TRUE, channel.report, m)
  <2>1. channel.pending = <<>> /\ Counts(channel.report, d, TRUE)  BY <1>2 DEF Shown
  <2>2. q = [channel EXCEPT !.report = r]  BY <1>2, <2>1, FlushIs
  <2>3. r \in Reports /\ Counts(r, e, TRUE)  BY <1>1, <2>1, ThriceIs, CountsAfter
  <2> HIDE DEF r, q, e
  <2>4. q \in MetricsChannels /\ q.sockets = channel.sockets /\ q.kind = "prometheus" /\ q.pending = <<>> /\ q.report = r
    BY <1>1, <1>2, <2>1, <2>2, <2>3 DEF MetricsChannels
  <2>5. Shown(q, e)  BY <2>3, <2>4 DEF Shown
  <2>6. QED  BY <2>4, <2>5 DEF q, e
<1>3. CASE channel.kind = "statsd" /\ q = [channel EXCEPT !.pending = channel.pending \o Three(m)]
  <2> DEFINE t == channel.pending \o Three(m)
  <2>1. t \in Seq(Items)
    <3>1. Three(m) = <<<<m, "counter">>, <<m, "gauge">>, <<m, "timing">>>>  BY DEF Three, M!Kinds
    <3>2. <<m, "counter">> \in Items /\ <<m, "gauge">> \in Items /\ <<m, "timing">> \in Items  BY DEF Items
    <3>3. Three(m) \in Seq(Items)  BY <3>1, <3>2
    <3> HIDE DEF Items
    <3>4. QED  BY <1>1, <3>3, ConcatProperties
  <2>2. ASSUME NEW x \in Reports, Leads(FALSE, channel.report, channel.pending, x), Counts(x, d, FALSE)
        PROVE  Thrice(FALSE, x, m) \in Reports /\ Leads(FALSE, channel.report, t, Thrice(FALSE, x, m))
               /\ Counts(Thrice(FALSE, x, m), e, FALSE)
    BY <1>1, <2>2, LeadsThree, ThriceIs, CountsAfter
  <2> HIDE DEF t, q, e
  <2>3. /\ q \in MetricsChannels /\ q.sockets = channel.sockets /\ q.kind = "statsd" /\ q.report = channel.report
        /\ q.pending = t /\ (q.lost <=> channel.lost)
    BY <1>1, <1>3, <2>1 DEF MetricsChannels, t
  <2>4. ASSUME ~q.lost PROVE \E x \in Reports : Leads(FALSE, q.report, q.pending, x) /\ Counts(x, e, FALSE)
    <3>1. PICK x \in Reports : Leads(FALSE, channel.report, channel.pending, x) /\ Counts(x, d, FALSE)
      BY <1>3, <2>3, <2>4 DEF Shown
    <3>2. Thrice(FALSE, x, m) \in Reports /\ Leads(FALSE, channel.report, t, Thrice(FALSE, x, m))
          /\ Counts(Thrice(FALSE, x, m), e, FALSE)
      BY <2>2, <3>1
    <3>3. QED  BY <2>3, <3>2
  <2>5. Shown(q, e)  BY <2>3, <2>4 DEF Shown
  <2>6. QED  BY <2>3, <2>5 DEF q, e
<1>4. CASE channel.kind = "statsd" /\ q = [channel EXCEPT !.lost = TRUE]
  <2> HIDE DEF q, e
  <2>1. q \in MetricsChannels /\ q.sockets = channel.sockets /\ q.kind = "statsd" /\ q.lost
    BY <1>1, <1>4 DEF MetricsChannels
  <2>2. Shown(q, e)  BY <2>1 DEF Shown
  <2>3. QED  BY <2>1, <2>2 DEF q, e
<1>5. QED  BY <1>1, <1>2, <1>3, <1>4, FlushIs

\* Nothing is measured, nobody is connected.
LEMMA MetricsInit == ASSUME M!Init PROVE MetricsInv
<1>1. PICK k \in {"prometheus", "statsd"} :
        channel = [kind |-> k, report |-> M!NoReport, pending |-> <<>>, sockets |-> {}, lost |-> FALSE]
  BY DEF M!Init
<1>2. /\ phase = "run" /\ faults = 0 /\ peer = [s \in Scrapers |-> "away"]
      /\ app = [m \in Calls |-> [pc |-> "handle", try |-> 1, buffer |-> <<>>, made |-> 0]]
  BY DEF M!Init, M!SharedInit
<1>3. 1 \in 1 .. Retries + 1 /\ 0 \in 0 .. CallFaults  BY SizesAssumption
<1>4. app \in [Calls -> Handlers]  BY <1>2, <1>3, BuffersTyped DEF Handlers
<1>5. Made \in [Calls -> Nat] /\ \A m \in Calls : Made[m] = 0  BY <1>2 DEF Made
<1>6. M!NoReport \in Reports /\ Counts(M!NoReport, Made, TRUE) /\ Counts(M!NoReport, Made, FALSE)
  BY <1>5, CountsNothing
<1>7. <<>> \in Seq(Items)  OBVIOUS
<1>8. channel \in MetricsChannels  BY <1>1, <1>6, <1>7 DEF MetricsChannels
<1>9. Leads(FALSE, M!NoReport, <<>>, M!NoReport)  BY <1>6, LeadsNone
<1>10. Shown(channel, Made)  BY <1>1, <1>6, <1>9 DEF Shown
<1>11. channel.sockets = Connected(peer)  BY <1>1, <1>2 DEF Connected
<1>12. QED  BY <1>2, <1>3, <1>4, <1>8, <1>10, <1>11 DEF MetricsInv, MetricsTypes

\* One handler moves and completes nothing.
LEMMA HandlerMoves ==
    ASSUME MetricsInv, NEW m \in Calls, NEW n \in Handlers, n.made = app[m].made,
           app' = [app EXCEPT ![m] = n], peer' = peer, channel' = channel, phase' = phase, faults' \in 0 .. CallFaults
    PROVE  MetricsInv'
<1>1. app' \in [Calls -> Handlers] /\ \A c \in Calls : app'[c].made = app[c].made  BY DEF MetricsInv, MetricsTypes
<1>2. Made' = Made  BY <1>1 DEF Made
<1>3. Shown(channel, Made)'  BY <1>2 DEF MetricsInv
<1>4. QED  BY <1>1, <1>3 DEF MetricsInv, MetricsTypes, Connected

\* What the handlers measured stays as it is.
LEMMA ChannelMoves ==
    ASSUME MetricsInv, app' = app, channel' \in MetricsChannels, Shown(channel', Made),
           channel'.sockets = Connected(peer'), peer' \in [Scrapers -> {"away", "open"}],
           phase' \in {"run", "stop", "end"}, faults' \in 0 .. CallFaults
    PROVE  MetricsInv'
<1>1. Made' = Made  BY DEF Made
<1>2. QED  BY <1>1 DEF MetricsInv, MetricsTypes

\* No step of handlers, scrapers or the client breaks the invariant.
LEMMA MetricsStep == ASSUME MetricsInv, M!Next PROVE MetricsInv'
<1>0. /\ peer \in [Scrapers -> {"away", "open"}] /\ channel \in MetricsChannels /\ app \in [Calls -> Handlers]
      /\ phase \in {"run", "stop", "end"} /\ faults \in 0 .. CallFaults
      /\ Shown(channel, Made) /\ channel.sockets = Connected(peer)
  BY DEF MetricsInv, MetricsTypes
<1>f. /\ channel.kind \in {"prometheus", "statsd"} /\ channel.report \in Reports /\ channel.pending \in Seq(Items)
      /\ channel.sockets \in SUBSET Scrapers /\ channel.lost \in BOOLEAN
  BY <1>0, ChannelFields
<1>a. ASSUME NEW m \in Calls
      PROVE  /\ app[m] \in Handlers /\ app[m].try \in 1 .. Retries + 1 /\ app[m].buffer \in Buffers /\ app[m].made \in Nat
             /\ Made[m] = app[m].made
  BY <1>0 DEF Handlers, Made
<1>b. M!Fault => faults' \in 0 .. CallFaults  BY <1>0, SizesAssumption DEF M!Fault
<1>1. ASSUME NEW m \in Calls, M!Measure(m) PROVE MetricsInv'
  <2> DEFINE b == Append(app[m].buffer, M!Kinds[Len(app[m].buffer) + 1])
             n == [app[m] EXCEPT !.buffer = b]
  <2>0. Len(M!Kinds) = 3  BY BuffersTyped
  <2>1. Len(app[m].buffer) < 3 /\ app' = [app EXCEPT ![m].buffer = b]
    BY <1>1, <2>0 DEF M!Measure
  <2>2. b \in Buffers  BY <1>a, <2>1, BuffersTyped
  <2>3. peer' = peer /\ channel' = channel /\ phase' = phase /\ faults' = faults  BY <1>1 DEF M!Measure
  <2> HIDE DEF b
  <2>4. n \in Handlers /\ n.made = app[m].made /\ app' = [app EXCEPT ![m] = n]
    BY <1>0, <1>a, <2>1, <2>2 DEF Handlers
  <2> HIDE DEF n
  <2>5. QED  BY <1>0, <2>3, <2>4, HandlerMoves
<1>2. ASSUME NEW m \in Calls, M!Complete(m) PROVE MetricsInv'
  <2> DEFINE n == [app[m] EXCEPT !.pc = "done", !.buffer = <<>>, !.made = app[m].made + 1]
  <2>1. app[m].buffer = M!Kinds
    <3>1. Len(app[m].buffer) = Len(M!Kinds)  BY <1>2 DEF M!Complete
    <3>2. QED  BY <1>a, <3>1, BuffersTyped
  <2>2. channel' = M!Flush(m) /\ peer' = peer /\ phase' = phase /\ faults' = faults /\ app' = [app EXCEPT ![m] = n]
    BY <1>2 DEF M!Complete
  <2>3. n \in Handlers /\ n.made = app[m].made + 1
    <3>1. <<>> \in Buffers /\ app[m].made + 1 \in Nat  BY <1>a, BuffersTyped
    <3>2. QED  BY <1>a, <3>1 DEF Handlers
  <2> HIDE DEF n
  <2>4. app' \in [Calls -> Handlers]  BY <1>0, <2>2, <2>3
  <2>5. Made \in [Calls -> Nat]  BY <1>a DEF Made
  <2>6. Made' = [Made EXCEPT ![m] = @ + 1]
    <3>1. \A c \in Calls : app'[c].made = IF c = m THEN app[c].made + 1 ELSE app[c].made  BY <1>0, <2>2, <2>3
    <3>2. QED  BY <3>1 DEF Made
  <2>7. /\ M!Flush(m) \in MetricsChannels /\ M!Flush(m).sockets = channel.sockets
        /\ Shown(M!Flush(m), [Made EXCEPT ![m] = @ + 1])
    BY <1>0, <2>1, <2>5, ShownAfter
  <2>8. channel' \in MetricsChannels /\ channel'.sockets = channel.sockets /\ Shown(channel', Made')
    BY <2>2, <2>6, <2>7
  <2>9. QED  BY <1>0, <2>2, <2>4, <2>8 DEF MetricsInv, MetricsTypes, Connected
<1>3. ASSUME NEW m \in Calls, M!Throws(m) PROVE MetricsInv'
  <2> DEFINE n == IF app[m].try <= Retries THEN [app[m] EXCEPT !.try = app[m].try + 1, !.buffer = <<>>]
                  ELSE [app[m] EXCEPT !.pc = "done", !.buffer = <<>>]
  <2>1. app' = [app EXCEPT ![m] = n] /\ peer' = peer /\ channel' = channel /\ phase' = phase /\ faults' \in 0 .. CallFaults
    BY <1>3, <1>b DEF M!Throws
  <2>2. n \in Handlers /\ n.made = app[m].made
    <3>1. app[m].try <= Retries => app[m].try + 1 \in 1 .. Retries + 1  BY <1>a, SizesAssumption
    <3>2. QED  BY ZenonT(30), <1>a, <3>1, BuffersTyped DEF Handlers
  <2> HIDE DEF n
  <2>3. QED  BY <2>1, <2>2, HandlerMoves
<1>4. ASSUME NEW m \in Calls, M!Invalid(m) PROVE MetricsInv'
  <2> DEFINE n == [app[m] EXCEPT !.pc = "done", !.buffer = <<>>]
  <2>1. app' = [app EXCEPT ![m] = n] /\ peer' = peer /\ channel' = channel /\ phase' = phase /\ faults' \in 0 .. CallFaults
    <3>1. app' = [app EXCEPT ![m].pc = "done", ![m].buffer = <<>>]  BY <1>4 DEF M!Invalid
    <3>2. app' = [app EXCEPT ![m] = n]  BY <1>0, <1>a, <3>1
    <3>3. QED  BY <1>4, <1>b, <3>2 DEF M!Invalid
  <2>2. n \in Handlers /\ n.made = app[m].made  BY <1>a, BuffersTyped DEF Handlers
  <2> HIDE DEF n
  <2>3. QED  BY <2>1, <2>2, HandlerMoves
<1>5. ASSUME NEW m \in Calls, M!HandledAnew(m) PROVE MetricsInv'
  <2> DEFINE n == [app[m] EXCEPT !.pc = "handle", !.try = 1]
  <2>1. app' = [app EXCEPT ![m] = n] /\ peer' = peer /\ channel' = channel /\ phase' = phase /\ faults' \in 0 .. CallFaults
    <3>1. app' = [app EXCEPT ![m].pc = "handle", ![m].try = 1]  BY <1>5 DEF M!HandledAnew
    <3>2. app' = [app EXCEPT ![m] = n]  BY <1>0, <1>a, <3>1
    <3>3. QED  BY <1>5, <1>b, <3>2 DEF M!HandledAnew
  <2>2. n \in Handlers /\ n.made = app[m].made
    <3>1. 1 \in 1 .. Retries + 1  BY SizesAssumption
    <3>2. QED  BY <1>a, <3>1, BuffersTyped DEF Handlers
  <2> HIDE DEF n
  <2>3. QED  BY <2>1, <2>2, HandlerMoves
<1>6. ASSUME NEW s \in Scrapers, M!Connects(s) PROVE MetricsInv'
  <2>1. /\ peer' = [peer EXCEPT ![s] = "open"] /\ channel' = [channel EXCEPT !.sockets = channel.sockets \cup {s}]
        /\ app' = app /\ phase' = phase /\ faults' = faults
    BY <1>6 DEF M!Connects
  <2>2. channel' \in MetricsChannels /\ channel'.sockets = channel.sockets \cup {s} /\ Shown(channel', Made)
    BY <1>0, <1>f, <2>1 DEF MetricsChannels, Shown
  <2>3. channel'.sockets = Connected(peer') /\ peer' \in [Scrapers -> {"away", "open"}]
    BY <1>0, <2>1, <2>2 DEF Connected
  <2>4. QED  BY <1>0, <2>1, <2>2, <2>3, ChannelMoves
<1>7. ASSUME NEW s \in Scrapers, M!Leaves(s) PROVE MetricsInv'
  <2>1. /\ peer' = [peer EXCEPT ![s] = "away"] /\ channel' = [channel EXCEPT !.sockets = channel.sockets \ {s}]
        /\ app' = app /\ phase' = phase /\ faults' = faults
    BY <1>7 DEF M!Leaves
  <2>2. channel' \in MetricsChannels /\ channel'.sockets = channel.sockets \ {s} /\ Shown(channel', Made)
    BY <1>0, <1>f, <2>1 DEF MetricsChannels, Shown
  <2>3. channel'.sockets = Connected(peer') /\ peer' \in [Scrapers -> {"away", "open"}]
    BY <1>0, <2>1, <2>2 DEF Connected
  <2>4. QED  BY <1>0, <2>1, <2>2, <2>3, ChannelMoves
<1>8. CASE M!Dispose
  <2>1. /\ peer' = [s \in Scrapers |-> IF s \in channel.sockets THEN "away" ELSE peer[s]]
        /\ channel' = [channel EXCEPT !.sockets = {}] /\ app' = app /\ phase' = "stop" /\ faults' = faults
    BY <1>8 DEF M!Dispose
  <2>2. channel' \in MetricsChannels /\ channel'.sockets = {} /\ Shown(channel', Made)
    BY <1>0, <1>f, <2>1 DEF MetricsChannels, Shown
  <2>3. channel'.sockets = Connected(peer') /\ peer' \in [Scrapers -> {"away", "open"}]
    BY <1>0, <2>1, <2>2 DEF Connected
  <2>4. QED  BY <1>0, <2>1, <2>2, <2>3, ChannelMoves
<1>9. CASE M!Disposed
  <2>1. peer' = peer /\ channel' = channel /\ app' = app /\ phase' = "end" /\ faults' = faults  BY <1>9 DEF M!Disposed
  <2>2. QED  BY <1>0, <2>1, ChannelMoves
<1>10. CASE M!Send
  <2>1. peer' = peer /\ app' = app /\ phase' = phase /\ channel.pending # <<>>  BY Zenon, <1>10 DEF M!Send, M!FoldLeft, M!MapThenFoldSet
  <2>2. channel.kind = "statsd"  BY <1>0, <1>f, <2>1 DEF Shown
  <2>3. CASE channel.lost
    <3>1. \/ faults' = faults /\ \E x \in Reports : channel' = [channel EXCEPT !.pending = <<>>, !.report = x]
          \/ faults' \in 0 .. CallFaults /\ channel' = [channel EXCEPT !.pending = <<>>, !.lost = TRUE]
      <4>1. PICK x \in Reports : Leads(FALSE, channel.report, channel.pending, x)  BY <1>f, LeadsSome
      <4>2. QED  BY Zenon, <1>10, <1>b, <1>f, <4>1, SendIs
    <3>2. channel' \in MetricsChannels /\ channel'.sockets = channel.sockets /\ channel'.lost /\ channel'.kind = "statsd"
      <4>1. <<>> \in Seq(Items)  OBVIOUS
      <4>2. QED  BY Zenon, <1>0, <1>f, <2>2, <2>3, <3>1, <4>1 DEF MetricsChannels
    <3>3. Shown(channel', Made)  BY <3>2 DEF Shown
    <3>4. faults' \in 0 .. CallFaults  BY Zenon, <1>0, <3>1
    <3>5. QED  BY <1>0, <2>1, <3>2, <3>3, <3>4, ChannelMoves
  <2>4. CASE ~channel.lost
    <3>1. PICK x \in Reports : Leads(FALSE, channel.report, channel.pending, x) /\ Counts(x, Made, FALSE)
      BY <1>0, <2>2, <2>4 DEF Shown
    <3>2. \/ faults' = faults /\ channel' = [channel EXCEPT !.pending = <<>>, !.report = x]
          \/ faults' \in 0 .. CallFaults /\ channel' = [channel EXCEPT !.pending = <<>>, !.lost = TRUE]
      BY Zenon, <1>10, <1>b, <1>f, <3>1, SendIs
    <3>0. <<>> \in Seq(Items)  OBVIOUS
    <3>3. <<>> \in Seq(Items) /\ Leads(FALSE, x, <<>>, x)  BY <3>0, LeadsNone
    <3>4. /\ channel' \in MetricsChannels /\ channel'.sockets = channel.sockets /\ channel'.kind = "statsd"
          /\ channel'.pending = <<>> /\ (channel'.lost \/ channel'.report = x)
      BY ZenonT(30), <1>0, <1>f, <2>2, <3>2, <3>3 DEF MetricsChannels
    <3>5. Shown(channel', Made)  BY <3>1, <3>3, <3>4 DEF Shown
    <3>6. faults' \in 0 .. CallFaults  BY <1>0, <3>2
    <3>7. QED  BY <1>0, <2>1, <3>4, <3>5, <3>6, ChannelMoves
  <2>5. QED  BY SMTT(30), <1>f, <2>3, <2>4
<1>11. QED  BY <1>1, <1>2, <1>3, <1>4, <1>5, <1>6, <1>7, <1>8, <1>9, <1>10 DEF M!Next, M!Progress

\* What the invariant is for.
LEMMA MetricsImplies == ASSUME MetricsInv PROVE M!TypeOK /\ M!Ordered
<1>0. /\ peer \in [Scrapers -> {"away", "open"}] /\ channel \in MetricsChannels /\ app \in [Calls -> Handlers]
      /\ phase \in {"run", "stop", "end"} /\ faults \in 0 .. CallFaults
      /\ Shown(channel, Made) /\ channel.sockets = Connected(peer)
  BY DEF MetricsInv, MetricsTypes
<1>1. ASSUME NEW m \in Calls
      PROVE  /\ app[m].pc \in {"handle", "done"} /\ app[m].try \in 1 .. Retries + 1 /\ app[m].made \in Nat
             /\ M!IsPrefix(app[m].buffer, M!Kinds)
  <2>1. app[m].pc \in {"handle", "done"} /\ app[m].try \in 1 .. Retries + 1 /\ app[m].made \in Nat /\ app[m].buffer \in Buffers
    BY <1>0 DEF Handlers
  <2> DEFINE b == app[m].buffer
  <2>2. Len(b) \in 0 .. 3 /\ b = SubSeq(M!Kinds, 1, Len(b)) /\ Len(M!Kinds) = 3  BY <2>1, BuffersTyped
  <2> HIDE DEF b
  <2>3. Len(b) <= Len(M!Kinds)  BY <2>2
  <2>4. SubSeq(b, 1, Len(b)) = b
    <3>1. b \in Seq({"counter", "gauge", "timing"})
      <4> DEFINE K == M!Kinds
      <4>1. K \in Seq({"counter", "gauge", "timing"}) /\ Len(K) = 3 /\ b = SubSeq(K, 1, Len(b))  BY <2>2, BuffersTyped
      <4> HIDE DEF K
      <4>2. QED  BY <2>2, <4>1
    <3>2. Len(b) \in Nat  BY <2>2
    <3> DEFINE k == SubSeq(b, 1, Len(b))
    <3>3. k \in Seq({"counter", "gauge", "timing"}) /\ Len(k) = Len(b) /\ \A i \in 1 .. Len(b) : k[i] = b[i]  BY <3>1, <3>2
    <3> HIDE DEF k
    <3>4. k = b  BY <3>1, <3>3, SeqEqual
    <3>5. QED  BY <3>4 DEF k
  <2>5. M!IsPrefix(b, M!Kinds)  BY <2>2, <2>3, <2>4 DEF M!IsPrefix
  <2>6. QED  BY <2>1, <2>5 DEF b
<1>2. M!TypeOK  BY <1>0, <1>1, ChannelFields DEF M!TypeOK, M!SharedTypeOK
<1>3. M!Prometheus <=> channel.kind = "prometheus"  BY DEF M!Prometheus
<1>4. channel.kind \in {"prometheus", "statsd"} /\ channel.report \in Reports  BY <1>0, ChannelFields
<1> DEFINE prom == channel.kind = "prometheus"
<1>5. ASSUME M!Prometheus \/ (channel.pending = <<>> /\ ~channel.lost)
      PROVE  Counts(channel.report, Made, prom)
  <2>1. CASE prom
    <3>1. Counts(channel.report, Made, TRUE)  BY <1>0, <2>1 DEF Shown
    <3>2. prom = TRUE  BY <2>1
    <3> HIDE DEF prom
    <3>3. QED  BY <3>1, <3>2
  <2>2. CASE ~prom
    <3>1. PICK x \in Reports : Leads(FALSE, channel.report, <<>>, x) /\ Counts(x, Made, FALSE)
      BY <1>0, <1>3, <1>4, <1>5, <2>2 DEF Shown
    <3>2. x = channel.report
      <4>1. Len(<<>>) = 0  OBVIOUS
      <4>2. QED  BY <3>1, <4>1 DEF Leads, Runs
    <3>3. prom = FALSE  BY <2>2
    <3> HIDE DEF prom
    <3>4. QED  BY <3>1, <3>2, <3>3
  <2>3. QED  BY <2>1, <2>2
<1>6. Made \in [Calls -> Nat]  BY <1>0 DEF Made, Handlers
<1>7. M!Up = Countable(prom)  BY <1>3 DEF M!Up, Countable
<1>8. Len(Buckets) = 2 /\ DOMAIN Buckets = 1 .. 2  BY DEF Buckets
<1>9. \A i \in 1 .. 2 : Under(i) = {m \in Calls : M!Time(m) <= Buckets[i]}
  <2>1. Buckets[1] = 1 /\ Buckets[2] = 2  BY DEF Buckets
  <2>2. \A m \in Calls : m \in Int  BY CallsTyped
  <2>3. QED  BY <1>8, <2>1, <2>2 DEF Under, M!ReachedFrom, M!Time
<1>10. Under(3) = Calls  BY <1>8 DEF Under, M!ReachedFrom
<1> DEFINE ByAmount(l) == M!Sum(LAMBDA m : app[m].made * Amount[m], M!Up \cap M!Having(l))
           ByTime(l) == M!Sum(LAMBDA m : app[m].made * M!Time(m), M!Having(l))
<1>a. \A l : ByAmount(l) = Weighted(Made, Amounts, M!Up \cap M!Having(l))  BY Zenon, <1>6, CounterIs
<1>b. \A l : ByTime(l) = Weighted(Made, Times, M!Having(l))  BY Zenon, <1>6, TimesIs
<1>c. M!Tallied <=> (M!Prometheus \/ (channel.pending = <<>> /\ ~channel.lost) => \A l \in M!Labels :
        /\ channel.report.counter[l] = ByAmount(l)
        /\ LET h == channel.report.timing[l] IN
           /\ h.count = M!Tally(l, Calls) /\ h.buckets[Len(Buckets) + 1] = h.count
           /\ h.sum = ByTime(l)
           /\ \A i \in DOMAIN Buckets : h.buckets[i] = M!Tally(l, {m \in Calls : M!Time(m) <= Buckets[i]}))
  BY Zenon DEF M!Tallied
<1> HIDE DEF ByAmount, ByTime
<1>11. ASSUME M!Prometheus \/ (channel.pending = <<>> /\ ~channel.lost), NEW l \in M!Labels
       PROVE  /\ channel.report.counter[l] = ByAmount(l)
              /\ LET h == channel.report.timing[l] IN
                 /\ h.count = M!Tally(l, Calls) /\ h.buckets[Len(Buckets) + 1] = h.count
                 /\ h.sum = ByTime(l)
                 /\ \A i \in DOMAIN Buckets : h.buckets[i] = M!Tally(l, {m \in Calls : M!Time(m) <= Buckets[i]})
  <2>1. /\ channel.report.counter[l] = Weighted(Made, Amounts, M!Up \cap M!Having(l))
        /\ channel.report.timing[l].count = Weighted(Made, Ones, M!Having(l))
        /\ channel.report.timing[l].sum = Weighted(Made, Times, M!Having(l))
        /\ \A i \in 1 .. 3 : channel.report.timing[l].buckets[i] = Weighted(Made, Ones, Under(i) \cap M!Having(l))
    BY <1>5, <1>7, <1>11 DEF Counts
  <2>2. /\ ByAmount(l) = Weighted(Made, Amounts, M!Up \cap M!Having(l))
        /\ ByTime(l) = Weighted(Made, Times, M!Having(l))
    BY <1>a, <1>b
  <2>4. Calls \cap M!Having(l) = M!Having(l) /\ M!Having(l) \in SUBSET Calls  BY DEF M!Having
  <2>5. M!Tally(l, Calls) = Weighted(Made, Ones, M!Having(l))
    <3>1. M!Tally(l, Calls) = Weighted(Made, Ones, Calls \cap M!Having(l))  BY <1>6, <2>4, TallyIs
    <3>2. QED  BY <2>4, <3>1
  <2>6. ASSUME NEW i \in 1 .. 2
        PROVE  channel.report.timing[l].buckets[i] = M!Tally(l, {m \in Calls : M!Time(m) <= Buckets[i]})
    <3> DEFINE C == {m \in Calls : M!Time(m) <= Buckets[i]}
    <3>1. Under(i) = C  BY <1>9
    <3>2. C \cap M!Having(l) \in SUBSET Calls  OBVIOUS
    <3> HIDE DEF C
    <3>3. M!Tally(l, C) = Weighted(Made, Ones, C \cap M!Having(l))  BY <1>6, <3>2, TallyIs
    <3>4. channel.report.timing[l].buckets[i] = Weighted(Made, Ones, Under(i) \cap M!Having(l))  BY <2>1
    <3>5. QED  BY <3>1, <3>3, <3>4 DEF C
  <2>7. channel.report.timing[l].buckets[3] = channel.report.timing[l].count
    <3>1. Under(3) \cap M!Having(l) = M!Having(l)  BY <1>10, <2>4
    <3>2. channel.report.timing[l].buckets[3] = Weighted(Made, Ones, Under(3) \cap M!Having(l))  BY <2>1
    <3>3. QED  BY <2>1, <3>1, <3>2
  <2>8. Len(Buckets) + 1 = 3 /\ DOMAIN Buckets = 1 .. 2  BY <1>8
  <2>9. QED  BY <2>1, <2>2, <2>5, <2>6, <2>7, <2>8
<1>12. M!Tallied  BY <1>c, <1>11
<1>13. QED  BY <1>0, <1>2, <1>12 DEF M!Ordered, Connected

(***************************************************************************)
(* The module: the initial state chooses an adapter, which stays.          *)
(***************************************************************************)
AdapterInv ==
  \/ Is("stream") /\ StreamInv
  \/ Is("unary") /\ UnaryInv
  \/ Is("interval") /\ IntervalInv
  \/ Is("kubernetes") /\ KubeInv
  \/ Is("metrics") /\ MetricsInv

\* Each adapter begins in its invariant.
LEMMA AdapterInit == Init => AdapterInv
BY StreamInit, UnaryInit, IntervalInit, KubeInit, MetricsInit DEF Init, AdapterInv, Is

\* Each step is one of the adapter that was chosen.
LEMMA AdapterStep == AdapterInv /\ [Next]_all => AdapterInv'
<1> SUFFICES ASSUME AdapterInv, [Next]_all PROVE AdapterInv'  OBVIOUS
<1>1. CASE Next
  <2>0. adapter' = adapter  BY <1>1 DEF Next
  <2>1. CASE Is("stream")
    <3>1. StreamInv /\ S!Next  BY <1>1, <2>1 DEF AdapterInv, Next, Is
    <3>2. StreamInv'  BY <3>1, StreamStep
    <3>3. QED  BY <2>0, <2>1, <3>2 DEF AdapterInv, Is
  <2>2. CASE Is("unary")
    <3>1. UnaryInv /\ U!Next  BY <1>1, <2>2 DEF AdapterInv, Next, Is
    <3>2. UnaryInv'  BY <3>1, UnaryStep
    <3>3. QED  BY <2>0, <2>2, <3>2 DEF AdapterInv, Is
  <2>3. CASE Is("interval")
    <3>1. IntervalInv /\ I!Next  BY <1>1, <2>3 DEF AdapterInv, Next, Is
    <3>2. IntervalInv'  BY <3>1, IntervalStep
    <3>3. QED  BY <2>0, <2>3, <3>2 DEF AdapterInv, Is
  <2>4. CASE Is("kubernetes")
    <3>1. KubeInv /\ W!Next  BY <1>1, <2>4 DEF AdapterInv, Next, Is
    <3>2. KubeInv'  BY <3>1, KubeStep, ObjectsAssumption
    <3>3. QED  BY <2>0, <2>4, <3>2 DEF AdapterInv, Is
  <2>5. CASE Is("metrics")
    <3>1. MetricsInv /\ M!Next  BY <1>1, <2>5 DEF AdapterInv, Next, Is
    <3>2. MetricsInv'  BY <3>1, MetricsStep
    <3>3. QED  BY <2>0, <2>5, <3>2 DEF AdapterInv, Is
  <2>6. QED  BY <2>1, <2>2, <2>3, <2>4, <2>5 DEF AdapterInv
<1>2. CASE UNCHANGED all
  <2>1. /\ peer' = peer /\ channel' = channel /\ app' = app /\ phase' = phase /\ faults' = faults /\ adapter' = adapter
    BY <1>2 DEF all
  <2>2. StreamInv => StreamInv'  BY <2>1 DEF StreamInv, StreamTypes, AllInOrder, KeptUp, Yielded, Ended, Underway
  <2>3. UnaryInv => UnaryInv'  BY <2>1 DEF UnaryInv, UnaryTypes, Waiting, Held, Sent, U!HasRoom
  <2>4. IntervalInv => IntervalInv'  BY <2>1 DEF IntervalInv, IntervalTypes, OnItsWay
  <2>5. KubeInv => KubeInv'  BY <2>1 DEF KubeInv, KubeTypes, PollInv, W!Remembered
  <2>6. MetricsInv => MetricsInv'  BY <2>1 DEF MetricsInv, MetricsTypes, Made
  <2>7. QED  BY <2>1, <2>2, <2>3, <2>4, <2>5, <2>6 DEF AdapterInv, Is
<1>3. QED  BY <1>1, <1>2

\* The invariants imply what MCCalls states.
LEMMA AdapterImplies == AdapterInv => TypeOK /\ StreamIsWhole /\ ToldAsItIs
<1> SUFFICES ASSUME AdapterInv PROVE TypeOK /\ StreamIsWhole /\ ToldAsItIs  OBVIOUS
<1>1. CASE Is("stream") /\ StreamInv
  <2>1. adapter = "stream" /\ S!TypeOK /\ S!Ordered /\ S!Whole  BY <1>1, StreamImplies DEF Is
  <2>2. QED  BY <2>1 DEF TypeOK, StreamIsWhole, ToldAsItIs, Is
<1>2. CASE Is("unary") /\ UnaryInv
  <2>1. adapter = "unary" /\ U!TypeOK /\ U!Faithful  BY <1>2, UnaryImplies DEF Is
  <2>2. QED  BY <2>1 DEF TypeOK, StreamIsWhole, ToldAsItIs, Is
<1>3. CASE Is("interval") /\ IntervalInv
  <2>1. adapter = "interval" /\ I!TypeOK /\ I!Ordered  BY <1>3, IntervalImplies DEF Is
  <2>2. QED  BY <2>1 DEF TypeOK, StreamIsWhole, ToldAsItIs, Is
<1>4. CASE Is("kubernetes") /\ KubeInv
  <2>1. adapter = "kubernetes" /\ W!TypeOK /\ W!Ordered  BY <1>4, KubeImplies DEF Is
  <2>2. QED  BY <2>1 DEF TypeOK, StreamIsWhole, ToldAsItIs, Is
<1>5. CASE Is("metrics") /\ MetricsInv
  <2>1. adapter = "metrics" /\ M!TypeOK /\ M!Ordered  BY <1>5, MetricsImplies DEF Is
  <2>2. QED  BY <2>1 DEF TypeOK, StreamIsWhole, ToldAsItIs, Is
<1>6. QED  BY <1>1, <1>2, <1>3, <1>4, <1>5 DEF AdapterInv

\* So the invariant holds in every state.
LEMMA AdapterAlways == Spec => []AdapterInv
BY AdapterInit, AdapterStep, PTL DEF Spec

\* Whatever adapter is chosen, its variables keep their types: the queues of
\* the unary calls and of the Kubernetes sources do not exceed their capacity,
\* and nothing but chunks and the two ends is ever in a pipe or on the wire.
THEOREM CallsTypeCorrect == Spec => []TypeOK
BY AdapterAlways, AdapterImplies, PTL

\* GrpcInputSource and GrpcOutputSink: with a consumer on the other side of the
\* buffer the client of a streaming method is yielded what the handler sent,
\* in its order and none twice; a client that keeps up is yielded all of it if
\* the call ends well.
THEOREM StreamIsWholeHolds == Spec => []StreamIsWhole
BY AdapterAlways, AdapterImplies, PTL

\* The unary calls of grpc and the reviews of kubernetes, the interval, the
\* watch and the poll, the metrics: whoever is told is told what happened.
THEOREM ToldAsItIsHolds == Spec => []ToldAsItIs
BY AdapterAlways, AdapterImplies, PTL
==============================================================================
