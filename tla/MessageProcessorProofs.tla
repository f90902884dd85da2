------------------------ MODULE MessageProcessorProofs ------------------------
(***************************************************************************)
(* Proofs about MessageProcessor, for every number of messages, partitions *)
(* and failures, every assignment of keys and every size of the queues and *)
(* batches.                                                                *)
(***************************************************************************)
EXTENDS MessageProcessorProps, SequenceLemmas

-----------------------------------------------------------------------------
(* The inductive invariant.                                                *)

Dispatched == {c \in Contexts : c.sig[1] = c.msg}
Busy == proc.pc \in {"dispatch", "offer"}

QueueTypes ==
    /\ received \in 0..Messages
    /\ inLoop \in {"receive", "blocked", "drain", "done"}
    /\ inLoop = "blocked" => received # 0
    /\ lanes \in [low : Seq(Msg), high : Seq(Msg)]
    /\ Len(lanes.low) <= InputCapacity /\ Len(lanes.high) <= InputCapacity
    /\ output \in Seq(Dispatched) /\ Len(output) <= OutputCapacity
    /\ closed \in [input : BOOLEAN, output : BOOLEAN, late : BOOLEAN]

ProcTypes ==
    /\ proc = [pc |-> proc.pc, msg |-> proc.msg, sig |-> proc.sig, context |-> proc.context]
    /\ proc.pc \in {"idle", "dispatch", "offer", "done", "failed"}
    /\ Busy => proc.msg \in Msg /\ proc.sig \in Msg \X {1, 2} /\ proc.sig[1] = proc.msg
    /\ proc.pc = "offer" => /\ proc.context \in Dispatched
                            /\ proc.context.msg = proc.msg /\ proc.context.sig = proc.sig

\* A batch is put back with its contexts' signals, one for each message.
OutTypes ==
    /\ out \in [pc : {"idle", "linger", "sink", "skip", "requeue", "done", "failed"},
                batch : Seq(Dispatched), waited : BOOLEAN, repro : Nat, sigs : SUBSET (Msg \X {1, 2})]
    /\ Len(out.batch) <= MaxBatch
    /\ out.pc = "idle" => Len(out.batch) < MaxBatch /\ (out.repro # 0 => out.batch = <<>>)
    /\ out.pc \in {"linger", "sink", "skip", "requeue"} => out.batch # <<>>
    /\ out.pc = "skip" => Len(out.batch) = 1
    /\ out.pc \in {"skip", "requeue"} => out.repro # 0 /\ SignalsOf(out.batch) \subseteq out.sigs
    /\ out.pc \notin {"skip", "requeue"} => out.sigs = {}
    /\ \A s, t \in out.sigs : s[1] = t[1] => s = t

Repro == [at : Msg, seen : SUBSET Key, evict : SUBSET Key]
BookTypes ==
    /\ repros \in Seq(Repro) /\ out.repro <= Len(repros)
    /\ reproOf \in [Msg -> 0..Len(repros)]
    /\ released \in [Msg -> {"no", "ok", "nothing", "error", "unavailable"}]

StateTypes ==
    /\ cache \in [Key -> SUBSET Logs] /\ \A k \in Key : \A x, y \in cache[k] : x = y
    /\ store \in [Key -> Logs]
    /\ faults \in [handler : Nat, sink : Nat, other : Nat, drop : Nat, setting : Settings]

\* A signal that is not resolved is that of a message on its way to the sink.
Heard == out.sigs \cup SignalsOf(out.batch) \cup SignalsOf(output)
         \cup (IF Busy THEN {proc.sig} ELSE {})
SignalTypes == signals \subseteq Heard

Types == QueueTypes /\ ProcTypes /\ OutTypes /\ BookTypes /\ StateTypes /\ SignalTypes

\* The places of a message, in the input queue and elsewhere.
Of(m) == {c \in Dispatched : c.msg = m}
InQueue(m) == Occurs(lanes.low, {m}) + Occurs(lanes.high, {m})
InOutput(m) == Occurs(output, Of(m))
InBatch(m) == Occurs(out.batch, Of(m))
AtProc(m) == IF Busy /\ proc.msg = m THEN 1 ELSE 0
AtInput(m) == IF inLoop = "blocked" /\ received = m THEN 1 ELSE 0
OnTheWay(m) == InOutput(m) + InBatch(m) + AtProc(m) + AtInput(m)
At(m) == InQueue(m) + OnTheWay(m)

\* A message is in one place at most, and nowhere before it is received.
Placed == \A m \in Msg : At(m) <= 1 /\ (m > received => At(m) = 0)

\* Unless an error fails the application, the queues are closed after all was
\* released, and what was received is in a place until it is.
Faultless == faults.handler = 0 /\ faults.sink = 0
GoesOn == faults.setting.mode = "continue" \/ Faultless
Continued ==
    GoesOn =>
        /\ closed.output => closed.input
        /\ closed.input => inLoop = "done"
        /\ inLoop \in {"drain", "done"} => \A m \in 1..received : released[m] # "no"
        /\ "failed" \notin {proc.pc, out.pc}
        /\ \A m \in Msg : released[m] = "no" <=> At(m) = 1 \/ m > received

\* If no handler and no sink fails of itself, what is in a place is not stored,
\* and a message evicted is queued if it is in one.
Stores(s) == \A i \in DOMAIN s : s[i].does = "store"
IsStored(m) == m \in ToSet(store[KeyOf[m]])
Unstored ==
    Faultless =>
        /\ Stores(output) /\ Stores(out.batch)
        /\ proc.pc = "offer" => proc.context.does = "store"
        /\ \A m \in Msg : At(m) # 0 \/ m > received => ~IsStored(m)
        /\ \A m \in evicted : m \in 1..received /\ ~IsStored(m) /\ OnTheWay(m) = 0

ProcessorInv == Types /\ Placed /\ Continued /\ AcknowledgedIsStored /\ Unstored

-----------------------------------------------------------------------------
(* What dispatchToSink does with a batch.                                  *)

\* The contexts with an event are those of the sequence, none further back than
\* it was.
LEMMA StoredProperties ==
    ASSUME NEW C, NEW cs \in Seq(C)
    PROVE  /\ Stored(cs) \in Seq(C) /\ Len(Stored(cs)) <= Len(cs)
           /\ \A j \in DOMAIN Stored(cs) :
                 \E i \in DOMAIN cs : Stored(cs)[j] = cs[i] /\ cs[i].does = "store"
           /\ \A i \in DOMAIN cs :
                 cs[i].does = "store" => \E j \in DOMAIN Stored(cs) : j <= i /\ Stored(cs)[j] = cs[i]
           /\ ((\A i \in DOMAIN cs : cs[i].does = "store") => Stored(cs) = cs)
<1> DEFINE N == Len(cs)
           Q == Seq(C)
           add(n) == cs[n].does = "store"
           step == [n \in 1..N |-> [x \in Q |-> IF add(n) THEN Append(x, cs[n]) ELSE x]]
           Is(g) == g = [n \in 0..N |-> IF n = 0 THEN <<>>
                                        ELSE IF add(n) THEN Append(g[n - 1], cs[n])
                                        ELSE g[n - 1]]
           F == CHOOSE g : Is(g)
<1>0. Stored(cs) = F[N]  BY DEF Stored
<1>1. N \in Nat /\ DOMAIN cs = 1..N /\ \A n \in 1..N : cs[n] \in C  OBVIOUS
<1>2. <<>> \in Q /\ \A x \in Q : \A e \in C : Append(x, e) \in Q  OBVIOUS
<1>3. step \in [1..N -> [Q -> Q]]
  <2> HIDE DEF N, Q, add
  <2>1. QED  BY <1>1, <1>2
<1>4. \E f \in [0..N -> Q] : Recurs(f, N, <<>>, step)
  <2> HIDE DEF step, N, Q
  <2>1. QED  BY <1>1, <1>2, <1>3, Recursion
<1>5. PICK f \in [0..N -> Q] : Recurs(f, N, <<>>, step)  BY <1>4
<1>6. Is(f)
  <2> HIDE DEF N, Q, add
  <2>1. \A n \in 1..N : f[n - 1] \in Q  BY <1>1
  <2>2. \A n \in 1..N : f[n] = IF add(n) THEN Append(f[n - 1], cs[n]) ELSE f[n - 1]
    BY <1>5, <2>1 DEF Recurs
  <2>3. f[0] = <<>>  BY <1>5 DEF Recurs
  <2>4. \A n \in 0..N : n # 0 => n \in 1..N  BY <1>1
  <2>5. f = [n \in 0..N |-> f[n]]  OBVIOUS
  <2>6. QED  BY <2>2, <2>3, <2>4, <2>5
<1>7. Is(F)
  <2> HIDE DEF Is
  <2>1. QED  BY <1>6
<1> HIDE DEF F
<1>8. /\ F[0] = <<>>
      /\ \A n \in 1..N : F[n] = IF add(n) THEN Append(F[n - 1], cs[n]) ELSE F[n - 1]
  <2> HIDE DEF N, Q, add
  <2>1. \A n \in 1..N : n \in 0..N /\ n # 0  BY <1>1
  <2>2. 0 \in 0..N  BY <1>1
  <2>3. QED  BY <1>7, <2>1, <2>2
<1> DEFINE R(n) == /\ F[n] \in Q /\ Len(F[n]) <= n
                   /\ \A j \in 1..Len(F[n]) : \E i \in 1..n : F[n][j] = cs[i] /\ add(i)
                   /\ \A i \in 1..n : add(i) => \E j \in 1..Len(F[n]) : j <= i /\ F[n][j] = cs[i]
                   /\ ((\A i \in 1..n : add(i)) => Len(F[n]) = n /\ \A i \in 1..n : F[n][i] = cs[i])
           T == {n \in Nat : n \in 0..N => R(n)}
<1>9. 0 \in T
  <2>1. <<>> \in Q /\ Len(<<>>) = 0  OBVIOUS
  <2> HIDE DEF Q, N, add
  <2>2. R(0)  BY <1>8, <2>1
  <2>3. QED  BY <2>2
<1>10. ASSUME NEW n \in 1..N, n - 1 \in T PROVE n \in T
  <2> DEFINE m == n - 1
             g == F[m]
             L == Len(g)
             h == F[n]
  <2>1. m \in Nat /\ n \in Nat /\ m \in 0..N /\ n = m + 1 /\ \A i \in 1..n : i \in 1..m \/ i = n
    BY <1>1
  <2>2. R(m)
    <3> HIDE DEF R, m
    <3>1. QED  BY <1>10, <2>1 DEF m
  <2>3. h = IF add(n) THEN Append(g, cs[n]) ELSE g
    <3> HIDE DEF add
    <3>1. QED  BY <1>8
  <2>4. /\ g \in Q /\ L <= m
        /\ \A j \in 1..L : \E i \in 1..m : g[j] = cs[i] /\ add(i)
        /\ \A i \in 1..m : add(i) => \E j \in 1..L : j <= i /\ g[j] = cs[i]
        /\ ((\A i \in 1..m : add(i)) => L = m /\ \A i \in 1..m : g[i] = cs[i])
    <3> HIDE DEF m, add, Q
    <3>1. QED  BY <2>2
  <2>5. L \in Nat  BY <2>4
  <2>6. cs[n] \in C  BY <1>1
  <2>7. \A i \in 1..m : i \in 1..n  BY <2>1
  <2> HIDE DEF g, h, m, add
  <2>8. CASE ~add(n)
    <3>1. h = g  BY <2>3, <2>8
    <3>2. h \in Q /\ Len(h) <= n  BY <2>1, <2>4, <2>5, <3>1
    <3>3. \A j \in 1..Len(h) : \E i \in 1..n : h[j] = cs[i] /\ add(i)  BY <2>4, <2>7, <3>1
    <3>4. \A i \in 1..n : add(i) => \E j \in 1..Len(h) : j <= i /\ h[j] = cs[i]
      BY <2>1, <2>4, <2>8, <3>1
    <3>5. ~\A i \in 1..n : add(i)  BY <2>8
    <3>6. R(n)
      <4> HIDE DEF Q
      <4>1. QED  BY <3>2, <3>3, <3>4, <3>5 DEF h
    <3> HIDE DEF R
    <3>7. QED  BY <2>1, <3>6
  <2>9. CASE add(n)
    <3>1. h = Append(g, cs[n])  BY <2>3, <2>9
    <3>2. /\ h \in Q /\ Len(h) = L + 1 /\ h[L + 1] = cs[n] /\ \A j \in 1..L : h[j] = g[j]
      BY <2>4, <2>6, <3>1, AppendProperties
    <3>3. \A j \in 1..(L + 1) : j \in 1..L \/ j = L + 1  BY <2>5
    <3>4. Len(h) <= n  BY <2>1, <2>4, <2>5, <3>2
    <3>5. \A j \in 1..Len(h) : \E i \in 1..n : h[j] = cs[i] /\ add(i)
      <4> SUFFICES ASSUME NEW j \in 1..(L + 1) PROVE \E i \in 1..n : h[j] = cs[i] /\ add(i)
        BY <3>2
      <4>1. CASE j \in 1..L
        <5>1. PICK i \in 1..m : g[j] = cs[i] /\ add(i)  BY <2>4, <4>1
        <5>2. i \in 1..n /\ h[j] = cs[i]  BY <2>7, <3>2, <4>1, <5>1
        <5>3. QED  BY <5>1, <5>2
      <4>2. CASE j = L + 1
        <5>1. n \in 1..n /\ h[j] = cs[n]  BY <2>1, <3>2, <4>2
        <5>2. QED  BY <2>9, <5>1
      <4>3. QED  BY <3>3, <4>1, <4>2
    <3>6. ASSUME NEW i \in 1..n, add(i) PROVE \E j \in 1..Len(h) : j <= i /\ h[j] = cs[i]
      <4>1. CASE i = n
        <5>1. L + 1 <= n /\ L + 1 \in 1..Len(h)  BY <2>1, <2>4, <2>5, <3>2
        <5>2. QED  BY <3>2, <4>1, <5>1
      <4>2. CASE i \in 1..m
        <5>1. PICK j \in 1..L : j <= i /\ g[j] = cs[i]  BY <2>4, <3>6, <4>2
        <5>2. j \in 1..Len(h)  BY <2>5, <3>2
        <5>3. QED  BY <3>2, <5>1, <5>2
      <4>3. QED  BY <2>1, <4>1, <4>2
    <3>7. ASSUME \A i \in 1..n : add(i) PROVE Len(h) = n /\ \A i \in 1..n : h[i] = cs[i]
      <4>1. L = m /\ \A i \in 1..m : g[i] = cs[i]  BY <2>4, <2>7, <3>7
      <4>2. QED  BY <2>1, <3>2, <4>1
    <3>8. R(n)
      <4> HIDE DEF Q
      <4>1. QED  BY <3>2, <3>4, <3>5, <3>6, <3>7 DEF h
    <3> HIDE DEF R
    <3>9. QED  BY <2>1, <3>8
  <2>10. QED  BY <2>8, <2>9
<1>11. 0..N \subseteq T
  <2> HIDE DEF T, N
  <2>1. QED  BY <1>1, <1>9, <1>10, BoundedInduction
<1>12. R(N)
  <2>1. N \in 0..N  BY <1>1
  <2> HIDE DEF R, N
  <2>2. QED  BY <1>11, <2>1
<1> DEFINE r == F[N]
<1>13. /\ r \in Q /\ Len(r) <= N
       /\ \A j \in 1..Len(r) : \E i \in 1..N : r[j] = cs[i] /\ add(i)
       /\ \A i \in 1..N : add(i) => \E j \in 1..Len(r) : j <= i /\ r[j] = cs[i]
       /\ ((\A i \in 1..N : add(i)) => Len(r) = N /\ \A i \in 1..N : r[i] = cs[i])
  <2> HIDE DEF N, Q, add
  <2>1. QED  BY <1>12
<1>14. r = Stored(cs)  BY <1>0
<1> HIDE DEF r
<1>15. DOMAIN r = 1..Len(r)  BY <1>13
<1>16. (\A i \in 1..N : add(i)) => r = cs
  <2> SUFFICES ASSUME \A i \in 1..N : add(i) PROVE r = cs  OBVIOUS
  <2>1. Len(r) = N /\ \A i \in 1..N : r[i] = cs[i]  BY <1>13
  <2>2. \A x, y \in Q : Len(x) = Len(y) /\ (\A i \in 1..Len(x) : x[i] = y[i]) => x = y
    OBVIOUS
  <2>3. cs \in Q  OBVIOUS
  <2> HIDE DEF Q
  <2>4. QED  BY <1>13, <2>1, <2>2, <2>3
<1>17. QED
  <2>1. Stored(cs) \in Seq(C) /\ Len(Stored(cs)) <= Len(cs)  BY <1>13, <1>14
  <2>2. \A j \in DOMAIN r : \E i \in DOMAIN cs : r[j] = cs[i] /\ cs[i].does = "store"
    <3> HIDE DEF N
    <3>1. QED  BY <1>1, <1>13, <1>15, SMTT(20)
  <2>3. \A i \in DOMAIN cs :
          cs[i].does = "store" => \E j \in DOMAIN r : j <= i /\ r[j] = cs[i]
    <3> HIDE DEF N
    <3>1. QED  BY Zenon, <1>1, <1>13, <1>15
  <2>4. (\A i \in DOMAIN cs : cs[i].does = "store") => r = cs
    <3> HIDE DEF N
    <3>1. QED  BY <1>1, <1>16
  <2>5. QED  BY <1>14, <2>1, <2>2, <2>3, <2>4

\* The bounds and the keys are what they are taken for.
LEMMA ConstantsFacts ==
    /\ Messages \in Nat /\ MinBatch \in Nat /\ KeyOf \in [Msg -> Key] /\ Msg \in SUBSET Nat
    /\ InputCapacity \in Nat \ {0} /\ OutputCapacity \in Nat \ {0} /\ MaxBatch \in Nat \ {0}
    /\ Other \notin Msg
BY SizesAssumption DEF Msg, Other

\* What the events of some contexts add to a partition comes after what is there.
LEMMA ExtendedProperties ==
    ASSUME store \in [Key -> Logs], NEW k \in Key, NEW cs \in Seq(Contexts)
    PROVE  /\ Extended(cs, k) \in Logs /\ Len(store[k]) <= Len(Extended(cs, k))
           /\ \A p \in 1..Len(store[k]) : Extended(cs, k)[p] = store[k][p]
           /\ ToSet(Extended(cs, k))
                = ToSet(store[k]) \cup {cs[i].msg : i \in {j \in DOMAIN cs : KeyOf[cs[j].msg] = k}}
<1> DEFINE N == Len(cs)
           old == store[k]
           L == Len(old)
           add(n) == KeyOf[cs[n].msg] = k
           msg(n) == cs[n].msg
           step == [n \in 1..N |-> [x \in Logs |-> IF add(n) THEN Append(x, msg(n)) ELSE x]]
           Is(g) == g = [n \in 0..N |-> IF n = 0 THEN old
                                        ELSE IF add(n) THEN Append(g[n - 1], msg(n))
                                        ELSE g[n - 1]]
           F == CHOOSE g : Is(g)
<1>0. Extended(cs, k) = F[N]  BY DEF Extended
<1>1. N \in Nat /\ DOMAIN cs = 1..N /\ old \in Logs /\ L \in Nat  BY DEF Logs
<1>2. \A n \in 1..N : msg(n) \in Msg \cup {Other}
  <2>1. \A n \in 1..N : cs[n] \in Contexts  OBVIOUS
  <2>2. QED  BY <2>1 DEF Contexts
<1>3. \A x \in Logs : \A e \in Msg \cup {Other} : Append(x, e) \in Logs  BY DEF Logs
<1>4. step \in [1..N -> [Logs -> Logs]]
  <2> HIDE DEF N, add, msg
  <2>1. QED  BY <1>1, <1>2, <1>3
<1>5. \E f \in [0..N -> Logs] : Recurs(f, N, old, step)
  <2> HIDE DEF step, N, old
  <2>1. QED  BY <1>1, <1>4, Recursion
<1>6. PICK f \in [0..N -> Logs] : Recurs(f, N, old, step)  BY <1>5
<1>7. Is(f)
  <2> HIDE DEF N, add, msg, old
  <2>1. \A n \in 1..N : f[n - 1] \in Logs  BY <1>1
  <2>2. \A n \in 1..N : f[n] = IF add(n) THEN Append(f[n - 1], msg(n)) ELSE f[n - 1]
    BY <1>6, <2>1 DEF Recurs
  <2>3. f[0] = old  BY <1>6 DEF Recurs
  <2>4. \A n \in 0..N : n # 0 => n \in 1..N  BY <1>1
  <2>5. f = [n \in 0..N |-> f[n]]  OBVIOUS
  <2>6. QED  BY <2>2, <2>3, <2>4, <2>5
<1>8. Is(F)
  <2> HIDE DEF Is
  <2>1. QED  BY <1>7
<1> HIDE DEF F
<1>9. /\ F[0] = old
      /\ \A n \in 1..N : F[n] = IF add(n) THEN Append(F[n - 1], msg(n)) ELSE F[n - 1]
  <2> HIDE DEF N, add, msg, old
  <2>1. \A n \in 1..N : n \in 0..N /\ n # 0  BY <1>1
  <2>2. 0 \in 0..N  BY <1>1
  <2>3. QED  BY <1>8, <2>1, <2>2
<1> DEFINE new(n) == {msg(i) : i \in {j \in 1..n : add(j)}}
           R(n) == /\ F[n] \in Logs /\ L <= Len(F[n])
                   /\ \A p \in 1..L : F[n][p] = old[p]
                   /\ ToSet(F[n]) = ToSet(old) \cup new(n)
           T == {n \in Nat : n \in 0..N => R(n)}
<1>10. 0 \in T
  <2>1. new(0) = {}  OBVIOUS
  <2> HIDE DEF new, old, N
  <2>2. R(0)  BY <1>1, <1>9, <2>1
  <2>3. QED  BY <2>2
<1>11. ASSUME NEW n \in 1..N, n - 1 \in T PROVE n \in T
  <2> DEFINE m == n - 1
             g == F[m]
             h == F[n]
  <2>1. m \in Nat /\ n \in Nat /\ m \in 0..N /\ n = m + 1
        /\ \A i \in Nat : i \in 1..n <=> i \in 1..m \/ i = n
    BY <1>1
  <2>2. R(m)
    <3> HIDE DEF R, m
    <3>1. QED  BY <1>11, <2>1 DEF m
  <2>3. h = IF add(n) THEN Append(g, msg(n)) ELSE g
    <3> HIDE DEF add, msg
    <3>1. QED  BY <1>9
  <2>4. g \in Logs /\ L <= Len(g) /\ Len(g) \in Nat /\ (\A p \in 1..L : g[p] = old[p])
        /\ ToSet(g) = ToSet(old) \cup new(m)
    <3> HIDE DEF m, old, new
    <3>1. QED  BY <2>2 DEF Logs
  <2>5. msg(n) \in Msg \cup {Other}  BY <1>2
  <2>6. new(n) = IF add(n) THEN new(m) \cup {msg(n)} ELSE new(m)
    <3> HIDE DEF m, add, msg
    <3>1. \A i : i \in 1..n <=> i \in 1..m \/ i = n  BY <2>1
    <3>2. {j \in 1..n : add(j)} = IF add(n) THEN {j \in 1..m : add(j)} \cup {n} ELSE {j \in 1..m : add(j)}
      BY <3>1
    <3>3. QED  BY <3>2
  <2> HIDE DEF g, h, m, add, msg, new, old
  <2>7. CASE ~add(n)
    <3>1. h = g /\ new(n) = new(m)  BY <2>3, <2>6, <2>7
    <3>2. R(n)  BY <2>4, <3>1 DEF h
    <3> HIDE DEF R
    <3>3. QED  BY <2>1, <3>2
  <2>8. CASE add(n)
    <3>1. h = Append(g, msg(n)) /\ new(n) = new(m) \cup {msg(n)}  BY <2>3, <2>6, <2>8
    <3>2. /\ h \in Logs /\ Len(h) = Len(g) + 1 /\ \A j \in 1..Len(g) : h[j] = g[j]
      BY <2>4, <2>5, <3>1, AppendProperties DEF Logs
    <3>3. ToSet(h) = ToSet(g) \cup {msg(n)}
      <4>1. \A x \in Logs : \A e \in Msg \cup {Other} : ToSet(Append(x, e)) = ToSet(x) \cup {e}
        BY ToSetAppend DEF Logs
      <4>2. QED  BY <2>4, <2>5, <3>1, <4>1
    <3>4. \A p \in 1..L : p \in 1..Len(g)  BY <1>1, <2>4
    <3>5. L <= Len(h)  BY <1>1, <2>4, <3>2
    <3>6. R(n)  BY <2>4, <3>1, <3>2, <3>3, <3>4, <3>5 DEF h
    <3> HIDE DEF R
    <3>7. QED  BY <2>1, <3>6
  <2>9. QED  BY <2>7, <2>8
<1>12. 0..N \subseteq T
  <2> HIDE DEF T, N
  <2>1. QED  BY <1>1, <1>10, <1>11, BoundedInduction
<1>13. R(N)
  <2>1. N \in 0..N  BY <1>1
  <2> HIDE DEF R, N
  <2>2. QED  BY <1>12, <2>1
<1>14. QED
  <2> HIDE DEF N
  <2>1. QED  BY <1>0, <1>1, <1>13

\* Rounding down.
LEMMA DivFacts ==
    \A x \in Nat, s \in Nat \ {0} : x \div s \in Nat /\ s * (x \div s) \in 0..x
<1> SUFFICES ASSUME NEW x \in Nat, NEW s \in Nat \ {0}
             PROVE  x \div s \in Nat /\ s * (x \div s) \in 0..x
  OBVIOUS
<1> DEFINE q == x \div s
<1>1. q \in Nat  OBVIOUS
<1>2. s * q <= x  OBVIOUS
<1>3. s * q \in Nat  BY <1>1
<1>4. QED  BY <1>1, <1>2, <1>3

\* How many of the contexts with an event can be stored.
LEMMA GoodProperties ==
    ASSUME NEW N, N = Len(Stored(out.batch)), out.batch \in Seq(Contexts)
    PROVE  N \in Nat /\ Good \in 0..N
<1> DEFINE storing == Stored(out.batch)
           refused == {n \in 0..(N - 1) : ~Accepts(n, storing[n + 1])}
<1>1. N \in Nat  BY StoredProperties
<1>2. Good = IF refused = {} THEN N ELSE CHOOSE n \in refused : \A i \in refused : n <= i
  BY DEF Good
<1>3. refused \in SUBSET Nat /\ refused \subseteq 0..N  BY <1>1
<1> HIDE DEF refused
<1>4. refused # {} => \E n \in refused : \A i \in refused : n <= i
  BY <1>3, LeastElement
<1>5. CASE refused = {}  BY <1>1, <1>2, <1>5
<1>6. CASE refused # {}
  <2>1. Good \in refused  BY <1>2, <1>4, <1>6
  <2>2. QED  BY <1>1, <1>3, <2>1
<1>7. QED  BY <1>5, <1>6

\* The sizes of the chunks are numbers.
LEMMA SizesType ==
    ASSUME NEW total \in Nat
    PROVE  Sizes(total) \in [0..total -> Nat]
<1> DEFINE step == [n \in 1..total |-> [x \in Nat |-> x \div 2]]
           Is(g) == g = [j \in 0..total |-> IF j = 0 THEN total ELSE g[j - 1] \div 2]
           F == CHOOSE g : Is(g)
<1>0. Sizes(total) = F  BY DEF Sizes
<1>1. step \in [1..total -> [Nat -> Nat]]  OBVIOUS
<1>2. PICK f \in [0..total -> Nat] : Recurs(f, total, total, step)
  <2> HIDE DEF step
  <2>1. QED  BY <1>1, Recursion
<1>3. Is(f)
  <2>1. \A n \in 1..total : f[n - 1] \in Nat  OBVIOUS
  <2>2. \A n \in 1..total : f[n] = f[n - 1] \div 2  BY <1>2, <2>1 DEF Recurs
  <2>3. f[0] = total  BY <1>2 DEF Recurs
  <2>4. \A n \in 0..total : n # 0 => n \in 1..total  OBVIOUS
  <2>5. f = [n \in 0..total |-> f[n]]  OBVIOUS
  <2>6. QED  BY <2>2, <2>3, <2>4, <2>5
<1>4. Is(F)
  <2> HIDE DEF Is
  <2>1. QED  BY <1>3
<1> HIDE DEF F
<1>5. F[0] = total /\ \A n \in 1..total : F[n] = F[n - 1] \div 2  BY <1>4
<1> DEFINE T == {n \in Nat : n \in 0..total => F[n] \in Nat}
<1>6. 0 \in T  BY <1>5
<1>7. ASSUME NEW n \in 1..total, n - 1 \in T PROVE n \in T
  <2>1. F[n - 1] \in Nat  BY <1>7
  <2>2. F[n] \in Nat  BY <1>5, <2>1
  <2>3. QED  BY <2>2
<1>8. 0..total \subseteq T
  <2> HIDE DEF T
  <2>1. QED  BY <1>6, <1>7, BoundedInduction
<1>9. F = [n \in 0..total |-> F[n]]  BY <1>4
<1>10. \A n \in 0..total : F[n] \in Nat  BY <1>8
<1>11. QED  BY <1>0, <1>9, <1>10

\* The search stops where the store does, or before.
LEMMA KeptProperties ==
    ASSUME out.batch \in Seq(Contexts)
    PROVE  LET total == Len(Stored(out.batch))
           IN  total \in Nat /\ Good \in 0..total /\ Kept \in 0..Good /\ (Good = total => Kept = total)
<1> DEFINE total == Len(Stored(out.batch))
           good == Good
           aligned(n) == \A i \in 1..n : out.batch[i].does = "store"
           size == Sizes(total)
           next(x, j) == IF size[j] = 0 \/ ~aligned(x) THEN x
                         ELSE x + size[j] * ((good - x) \div size[j])
           S == 0..good
           step == [n \in 1..total |-> [x \in S |-> next(x, n)]]
           Is(g) == g = [j \in 0..total |-> IF j = 0 THEN 0
                            ELSE IF size[j] = 0 \/ ~aligned(g[j - 1]) THEN g[j - 1]
                            ELSE g[j - 1] + size[j] * ((good - g[j - 1]) \div size[j])]
           F == CHOOSE g : Is(g)
<1>0. Kept = IF good = total THEN total ELSE F[total]  BY DEF Kept
<1>1. total \in Nat /\ good \in 0..total  BY GoodProperties
<1>2. \A n \in 1..total : size[n] \in Nat
  <2>1. size \in [0..total -> Nat]  BY <1>1, SizesType
  <2> HIDE DEF size, total
  <2>2. QED  BY <1>1, <2>1
<1> HIDE DEF total, good, size, aligned
<1>3. \A n \in 1..total : \A x \in S : next(x, n) \in S
  <2> SUFFICES ASSUME NEW n \in 1..total, NEW x \in S PROVE next(x, n) \in S  OBVIOUS
  <2>1. size[n] \in Nat /\ good - x \in Nat /\ x \in Nat /\ good \in Nat  BY <1>1, <1>2
  <2>2. CASE size[n] = 0 \/ ~aligned(x)  BY <2>2
  <2>3. CASE ~(size[n] = 0 \/ ~aligned(x))
    <3>1. size[n] * ((good - x) \div size[n]) \in 0..(good - x)  BY <2>1, <2>3, DivFacts
    <3>2. next(x, n) = x + size[n] * ((good - x) \div size[n])  BY <2>3
    <3> HIDE DEF next
    <3>3. QED  BY <2>1, <3>1, <3>2
  <2>4. QED  BY <2>2, <2>3
<1>4. step \in [1..total -> [S -> S]]
  <2> HIDE DEF S, next
  <2>1. QED  BY <1>3
<1>5. 0 \in S  BY <1>1
<1>6. \E f \in [0..total -> S] : Recurs(f, total, 0, step)
  <2> HIDE DEF step, S
  <2>1. QED  BY <1>1, <1>4, <1>5, Recursion
<1>7. PICK f \in [0..total -> S] : Recurs(f, total, 0, step)  BY <1>6
<1>8. Is(f)
  <2>1. \A n \in 1..total : f[n - 1] \in S
    <3> HIDE DEF S
    <3>1. QED  BY <1>1
  <2>2. \A n \in 1..total : f[n] = next(f[n - 1], n)
    <3> HIDE DEF S, next
    <3>1. QED  BY <1>7, <2>1 DEF Recurs
  <2>3. f[0] = 0  BY <1>7 DEF Recurs
  <2>4. \A n \in 0..total : n # 0 => n \in 1..total  BY <1>1
  <2>5. f = [n \in 0..total |-> f[n]]  OBVIOUS
  <2> HIDE DEF S
  <2>6. QED  BY <2>2, <2>3, <2>4, <2>5
<1>9. Is(F)
  <2> HIDE DEF Is
  <2>1. QED  BY <1>8
<1> HIDE DEF F
<1>10. F[0] = 0 /\ \A n \in 1..total : F[n] = next(F[n - 1], n)
  <2>1. \A n \in 1..total : n \in 0..total /\ n # 0  BY <1>1
  <2>2. 0 \in 0..total  BY <1>1
  <2>3. QED  BY <1>9, <2>1, <2>2
<1> HIDE DEF next, S
<1> DEFINE T == {n \in Nat : n \in 0..total => F[n] \in S}
<1>11. 0 \in T  BY <1>5, <1>10
<1>12. ASSUME NEW n \in 1..total, n - 1 \in T PROVE n \in T
  <2>1. F[n - 1] \in S  BY <1>1, <1>12
  <2>2. F[n] \in S  BY <1>3, <1>10, <2>1
  <2>3. QED  BY <2>2
<1>13. 0..total \subseteq T
  <2> HIDE DEF T
  <2>1. QED  BY <1>1, <1>11, <1>12, BoundedInduction
<1>14. F[total] \in S  BY <1>1, <1>13
<1>15. Kept \in 0..good  BY <1>0, <1>1, <1>14 DEF S
<1>16. QED  BY <1>0, <1>1, <1>15 DEF total, good
-----------------------------------------------------------------------------
(* What the steps leave alone.                                             *)

\* The output loop's own variable.
LEMMA OutFrame ==
    ASSUME [Next]_vars
    PROVE  \/ out' = out
           \/ TakeOutput \/ Skip \/ Lingered \/ SinkBatch \/ Conflict \/ PutBack \/ SinkFails
           \/ OutputEnds
BY Zenon DEF Next, vars, InputLoop, ProcessingLoop, OutputLoop, Environment, Over, Receive,
   ResumeReceive, SourceEnds, CloseInput, Take, Handle, HandleNothing, HandlerThrows, Offer,
   ProcessingEnds, SinkRetries, Evict, EvictReturns, RunFails, OtherStores

\* The processing loop's.
LEMMA ProcFrame ==
    ASSUME [Next]_vars
    PROVE  \/ proc' = proc
           \/ Take \/ Handle \/ HandleNothing \/ HandlerThrows \/ Offer \/ ProcessingEnds
BY Zenon DEF Next, vars, InputLoop, ProcessingLoop, OutputLoop, Environment, Over, Receive,
   ResumeReceive, SourceEnds, CloseInput, TakeOutput, Skip, Lingered, SinkBatch, Conflict,
   PutBack, SinkRetries, SinkFails, OutputEnds, Evict, EvictReturns, RunFails, OtherStores

\* The source's.
LEMMA InputFrame ==
    ASSUME [Next]_vars
    PROVE  \/ received' = received /\ inLoop' = inLoop
           \/ Receive \/ ResumeReceive \/ SourceEnds \/ CloseInput
BY Zenon DEF Next, vars, ProcessingLoop, InputLoop, OutputLoop, Environment, Over, Take, Handle,
   HandleNothing, HandlerThrows, Offer, ProcessingEnds, TakeOutput, Skip, Lingered, SinkBatch,
   Conflict, PutBack, SinkRetries, SinkFails, OutputEnds, Evict, EvictReturns, RunFails,
   OtherStores

\* The queues.
LEMMA QueueFrame ==
    ASSUME [Next]_vars
    PROVE  /\ lanes' = lanes \/ Receive \/ ResumeReceive \/ Take \/ PutBack
           /\ output' = output \/ Offer \/ TakeOutput \/ Skip
           /\ closed' = closed \/ CloseInput \/ HandlerThrows \/ ProcessingEnds \/ PutBack
                \/ RunFails
BY Zenon DEF Next, vars, InputLoop, ProcessingLoop, OutputLoop, Environment, Over, Receive,
   ResumeReceive, SourceEnds, CloseInput, Take, Handle, HandleNothing, HandlerThrows, Offer,
   ProcessingEnds, TakeOutput, Skip, Lingered, SinkBatch, Conflict, PutBack, SinkRetries,
   SinkFails, OutputEnds, Evict, EvictReturns, RunFails, OtherStores

\* What is kept about each message, and the states.
LEMMA BookFrame ==
    ASSUME [Next]_vars
    PROVE  /\ released' = released \/ ResumeReceive \/ Take \/ HandlerThrows \/ Offer \/ SinkBatch
                \/ Conflict \/ PutBack \/ SinkFails
           /\ signals' = signals \/ Take \/ HandlerThrows \/ Offer \/ TakeOutput \/ Lingered
                \/ SinkBatch \/ PutBack \/ SinkFails
           /\ repros' = repros \/ Take \/ Skip \/ Conflict \/ PutBack
           /\ reproOf' = reproOf \/ Skip \/ Conflict \/ PutBack
           /\ evicted' = evicted \/ Evict
BY Zenon DEF Next, vars, InputLoop, ProcessingLoop, OutputLoop, Environment, Over, Receive,
   ResumeReceive, SourceEnds, CloseInput, Take, Handle, HandleNothing, HandlerThrows, Offer,
   ProcessingEnds, TakeOutput, Skip, Lingered, SinkBatch, Conflict, PutBack, SinkRetries,
   SinkFails, OutputEnds, Evict, EvictReturns, RunFails, OtherStores

\* The cached states, the store and the failures.
LEMMA StateFrame ==
    ASSUME [Next]_vars
    PROVE  /\ cache' = cache \/ Take \/ Handle \/ HandleNothing \/ HandlerThrows
           /\ store' = store \/ SinkBatch \/ Conflict \/ SinkRetries \/ SinkFails \/ OtherStores
           /\ faults' = faults \/ Handle \/ HandleNothing \/ HandlerThrows \/ SinkRetries
                \/ SinkFails \/ OtherStores
BY Zenon DEF Next, vars, InputLoop, ProcessingLoop, OutputLoop, Environment, Over, Receive,
   ResumeReceive, SourceEnds, CloseInput, Take, Handle, HandleNothing, HandlerThrows, Offer,
   ProcessingEnds, TakeOutput, Skip, Lingered, SinkBatch, Conflict, PutBack, SinkRetries,
   SinkFails, OutputEnds, Evict, EvictReturns, RunFails, OtherStores

-----------------------------------------------------------------------------
(* The types.                                                              *)

\* The ends of a sequence.
LEMMA SequenceEnds ==
    ASSUME NEW S
    PROVE  /\ \A s \in Seq(S) : Len(s) \in Nat /\ \A e \in S : Append(s, e) \in Seq(S)
                                                          /\ Len(Append(s, e)) = Len(s) + 1
           /\ \A s \in Seq(S) : s # <<>> => /\ Head(s) \in S /\ Tail(s) \in Seq(S)
                                            /\ Len(s) >= 1 /\ Len(Tail(s)) = Len(s) - 1
OBVIOUS

\* The queues hold messages and contexts, and no more than their capacity.
LEMMA QueueStep ==
    ASSUME Types, [Next]_vars
    PROVE  QueueTypes'
<1> USE ConstantsFacts
<1>1. Types /\ QueueTypes  BY DEF Types
<1>2. received' \in 0..Messages /\ inLoop' \in {"receive", "blocked", "drain", "done"}
      /\ (inLoop' = "blocked" => received' # 0)
  <2>1. CASE received' = received /\ inLoop' = inLoop  BY <1>1, <2>1 DEF QueueTypes
  <2>2. CASE Receive  BY <1>1, <2>2 DEF QueueTypes, Receive
  <2>3. CASE ResumeReceive  BY <1>1, <2>3 DEF QueueTypes, ResumeReceive
  <2>4. CASE SourceEnds  BY <1>1, <2>4 DEF QueueTypes, SourceEnds
  <2>5. CASE CloseInput  BY <1>1, <2>5 DEF QueueTypes, CloseInput
  <2>6. QED  BY <2>1, <2>2, <2>3, <2>4, <2>5, InputFrame
<1>3. /\ lanes' \in [low : Seq(Msg), high : Seq(Msg)]
      /\ Len(lanes.low)' <= InputCapacity /\ Len(lanes.high)' <= InputCapacity
  <2> DEFINE low == lanes.low
             high == lanes.high
             Fits(lane) == lane \in Seq(Msg) /\ Len(lane) <= InputCapacity
             Fine == lanes' = [low |-> low', high |-> high'] /\ Fits(low') /\ Fits(high')
  <2>1. lanes = [low |-> low, high |-> high] /\ Fits(low) /\ Fits(high)  BY <1>1 DEF QueueTypes
  <2>2. ASSUME NEW m \in Msg, Room("low"), Push("low", m) PROVE Fine
    <3>1. low' = Append(low, m) /\ high' = high /\ lanes' = [low |-> low', high |-> high']
      BY <2>1, <2>2 DEF Push
    <3>2. Len(low) < InputCapacity  BY <2>2 DEF Room
    <3> HIDE DEF low, high
    <3>3. Len(low) \in Nat /\ low' \in Seq(Msg) /\ Len(low') = Len(low) + 1
      BY <2>1, <3>1, SequenceEnds
    <3>4. QED  BY <2>1, <3>1, <3>2, <3>3
  <2>3. ASSUME NEW m \in Msg, Room("high"), Push("high", m) PROVE Fine
    <3>1. high' = Append(high, m) /\ low' = low /\ lanes' = [low |-> low', high |-> high']
      BY <2>1, <2>3 DEF Push
    <3>2. Len(high) < InputCapacity  BY <2>3 DEF Room
    <3> HIDE DEF low, high
    <3>3. Len(high) \in Nat /\ high' \in Seq(Msg) /\ Len(high') = Len(high) + 1
      BY <2>1, <3>1, SequenceEnds
    <3>4. QED  BY <2>1, <3>1, <3>2, <3>3
  <2>4. CASE lanes' = lanes  BY <2>1, <2>4
  <2>5. CASE Receive
    <3>1. received + 1 \in Msg  BY <1>1, <2>5 DEF Receive, QueueTypes, Msg
    <3>2. lanes' = lanes \/ (Room("low") /\ Push("low", received + 1))  BY <2>5 DEF Receive
    <3>3. QED  BY <2>2, <2>4, <3>1, <3>2
  <2>6. CASE ResumeReceive
    <3>1. received \in Msg  BY <1>1, <2>6 DEF ResumeReceive, QueueTypes, Msg
    <3>2. lanes' = lanes \/ (Room("low") /\ Push("low", received))  BY <2>6 DEF ResumeReceive
    <3>3. QED  BY <2>2, <2>4, <3>1, <3>2
  <2>7. CASE Take
    <3>1. lanes' = (IF high # <<>> THEN [lanes EXCEPT !.high = Tail(@)]
                                   ELSE [lanes EXCEPT !.low = Tail(@)]) /\ Pending # <<>>
      BY <2>7 DEF Take
    <3>2. CASE high # <<>>
      <4>1. high' = Tail(high) /\ low' = low /\ lanes' = [low |-> low', high |-> high']
        BY <2>1, <3>1, <3>2
      <4> HIDE DEF low, high
      <4>2. QED  BY <2>1, <3>2, <4>1, SequenceEnds
    <3>3. CASE high = <<>>
      <4>1. low' = Tail(low) /\ high' = high /\ lanes' = [low |-> low', high |-> high']
        BY <2>1, <3>1, <3>3
      <4>2. low # <<>>
        <5>1. high \o low # <<>>  BY <3>1 DEF Pending
        <5> HIDE DEF low, high
        <5>2. QED  BY <2>1, <3>3, <5>1
      <4> HIDE DEF low, high
      <4>3. QED  BY <2>1, <4>1, <4>2, SequenceEnds
    <3>4. QED  BY <3>2, <3>3
  <2>8. CASE PutBack
    <3>1. out.batch \in Seq(Dispatched) /\ out.batch # <<>>
      BY <2>8 DEF Types, OutTypes, PutBack
    <3>2. Head(out.batch) \in Dispatched  BY <3>1, SequenceEnds
    <3>3. Head(out.batch).msg \in Msg  BY <3>2 DEF Dispatched, Contexts
    <3>4. lanes' = lanes \/ (Room("high") /\ Push("high", Head(out.batch).msg))
      BY <2>8 DEF PutBack
    <3>5. QED  BY <2>3, <2>4, <3>3, <3>4
  <2>9. Fine  BY <2>4, <2>5, <2>6, <2>7, <2>8, QueueFrame
  <2>10. QED  BY <2>9
<1>4. output' \in Seq(Dispatched) /\ Len(output') <= OutputCapacity
  <2>1. output \in Seq(Dispatched) /\ Len(output) <= OutputCapacity  BY <1>1 DEF QueueTypes
  <2>2. CASE output' = output  BY <2>1, <2>2
  <2>3. CASE Offer
    <3>1. output' = output \/ (Len(output) < OutputCapacity /\ output' = Append(output, proc.context))
      BY <2>3 DEF Offer
    <3>2. proc.context \in Dispatched  BY <2>3 DEF Types, ProcTypes, Offer
    <3>3. QED  BY <2>1, <3>1, <3>2, SequenceEnds
  <2>4. CASE TakeOutput \/ Skip
    <3>1. output # <<>> /\ output' = Tail(output)  BY <2>4 DEF TakeOutput, Skip
    <3>2. QED  BY <2>1, <3>1, SequenceEnds
  <2>5. QED  BY <2>2, <2>3, <2>4, QueueFrame
<1>5. closed' \in [input : BOOLEAN, output : BOOLEAN, late : BOOLEAN]
  <2>1. closed \in [input : BOOLEAN, output : BOOLEAN, late : BOOLEAN]  BY <1>1 DEF QueueTypes
  <2>2. CASE PutBack
    <3>1. closed' = closed \/ closed' = [closed EXCEPT !.late = IF lanes.high = <<>>
                                                               THEN closed.input ELSE @]
      BY <2>2 DEF PutBack, Remade
    <3>2. QED  BY <2>1, <3>1
  <2>3. CASE CloseInput \/ HandlerThrows \/ ProcessingEnds \/ RunFails
    BY <2>1, <2>3 DEF CloseInput, HandlerThrows, ProcessingEnds, RunFails
  <2>4. QED  BY <2>1, <2>2, <2>3, QueueFrame
<1>6. QED  BY <1>2, <1>3, <1>4, <1>5 DEF QueueTypes

-----------------------------------------------------------------------------
(* The places.                                                             *)

\* How often an element of a set occurs at the ends of a sequence.
LEMMA OccursEnds ==
    ASSUME NEW S, NEW P
    PROVE  /\ Occurs(<<>>, P) = 0
           /\ \A s \in Seq(S) :
                /\ Occurs(s, P) \in Nat /\ (Occurs(s, P) = 0 <=> \A n \in DOMAIN s : s[n] \notin P)
                /\ \A e \in S : Occurs(Append(s, e), P) = Occurs(s, P) + (IF e \in P THEN 1 ELSE 0)
                /\ s # <<>> =>
                      Occurs(s, P) = Occurs(Tail(s), P) + (IF Head(s) \in P THEN 1 ELSE 0)
<1>1. Occurs(<<>>, P) = 0
  <2>1. <<>> \in Seq(S) /\ DOMAIN <<>> = {}  OBVIOUS
  <2>2. Occurs(<<>>, P) \in 0..Len(<<>>)  BY <2>1, OccursBounds
  <2>3. QED  BY <2>2
<1>2. ASSUME NEW s \in Seq(S)
      PROVE  Occurs(s, P) \in Nat /\ (Occurs(s, P) = 0 <=> \A n \in DOMAIN s : s[n] \notin P)
  <2>1. Occurs(s, P) \in 0..Len(s)  BY OccursBounds
  <2>2. Occurs(s, P) = 0 <=> \A n \in DOMAIN s : s[n] \notin P  BY OccursBounds
  <2>3. QED  BY <2>1, <2>2
<1>3. ASSUME NEW s \in Seq(S), s # <<>>
      PROVE  Occurs(s, P) = Occurs(Tail(s), P) + (IF Head(s) \in P THEN 1 ELSE 0)
  <2>1. Head(s) \in S /\ Tail(s) \in Seq(S) /\ <<>> \in Seq(S)  BY <1>3, SequenceEnds
  <2> DEFINE h == Append(<<>>, Head(s))
             t == Tail(s)
  <2>2. h \in Seq(S) /\ s = h \o t  BY <1>3, <2>1
  <2>3. Occurs(h, P) = IF Head(s) \in P THEN 1 ELSE 0
    <3>1. Occurs(h, P) = Occurs(<<>>, P) + (IF Head(s) \in P THEN 1 ELSE 0)
      BY <2>1, OccursAppend
    <3>2. QED  BY <1>1, <3>1
  <2>4. Occurs(t, P) \in Nat  BY <1>2, <2>1
  <2> HIDE DEF h
  <2>5. Occurs(h \o t, P) = Occurs(h, P) + Occurs(t, P)  BY <2>1, <2>2, OccursConcat
  <2> DEFINE one == IF Head(s) \in P THEN 1 ELSE 0
  <2>6. Occurs(s, P) = Occurs(h, P) + Occurs(t, P)  BY <2>2, <2>5
  <2>7. one \in Nat /\ Occurs(h, P) = one  BY <2>3
  <2> HIDE DEF t, one
  <2>8. Occurs(s, P) = Occurs(t, P) + one  BY <2>4, <2>6, <2>7
  <2>9. QED  BY <2>8 DEF t, one
<1>4. \A s \in Seq(S) : \A e \in S : Occurs(Append(s, e), P) = Occurs(s, P) + (IF e \in P THEN 1 ELSE 0)
  BY OccursAppend
<1>5. QED  BY <1>1, <1>2, <1>3, <1>4

\* The parts of a message's places are numbers.
LEMMA PlaceTypes ==
    ASSUME Types, NEW m \in Msg
    PROVE  /\ Occurs(lanes.low, {m}) \in Nat /\ Occurs(lanes.high, {m}) \in Nat
           /\ InQueue(m) \in Nat /\ InOutput(m) \in Nat /\ InBatch(m) \in Nat
           /\ AtProc(m) \in {0, 1} /\ AtInput(m) \in {0, 1} /\ OnTheWay(m) \in Nat
<1>1. lanes.low \in Seq(Msg) /\ lanes.high \in Seq(Msg) /\ output \in Seq(Dispatched)
  BY DEF Types, QueueTypes
<1>2. out.batch \in Seq(Dispatched)  BY DEF Types, OutTypes
<1>3. Occurs(lanes.low, {m}) \in Nat /\ Occurs(lanes.high, {m}) \in Nat  BY <1>1, OccursEnds
<1>4. InQueue(m) \in Nat  BY <1>3 DEF InQueue
<1>5. InOutput(m) \in Nat /\ InBatch(m) \in Nat  BY <1>1, <1>2, OccursEnds DEF InOutput, InBatch
<1>6. AtProc(m) \in {0, 1} /\ AtInput(m) \in {0, 1}  BY DEF AtProc, AtInput
<1>7. QED  BY <1>3, <1>4, <1>5, <1>6 DEF OnTheWay

\* Whoever has a context in a sequence of them has a place there.
LEMMA ContextPlaces ==
    ASSUME NEW cs \in Seq(Dispatched)
    PROVE  /\ \A c \in ToSet(cs) : c \in Dispatched /\ c.msg \in Msg /\ Occurs(cs, Of(c.msg)) # 0
                                   /\ c.sig \in Msg \X {1, 2} /\ c.sig[1] = c.msg
           /\ \A m \in Msg : Occurs(cs, Of(m)) # 0 => \E c \in ToSet(cs) : c.msg = m
           /\ \A s \in SignalsOf(cs) : s \in Msg \X {1, 2} /\ Occurs(cs, Of(s[1])) # 0
<1>1. ToSet(cs) = {cs[n] : n \in DOMAIN cs}  BY DEF ToSet
<1>2. \A n \in DOMAIN cs : cs[n] \in Dispatched  OBVIOUS
<1>3. ASSUME NEW c \in ToSet(cs)
      PROVE  c \in Dispatched /\ c.msg \in Msg /\ Occurs(cs, Of(c.msg)) # 0
             /\ c.sig \in Msg \X {1, 2} /\ c.sig[1] = c.msg
  <2>1. PICK n \in DOMAIN cs : c = cs[n]  BY <1>1
  <2>2. c \in Dispatched  BY <1>2, <2>1
  <2>3. c \in Of(c.msg)  BY <2>2 DEF Of
  <2>4. Occurs(cs, Of(c.msg)) # 0  BY <2>1, <2>3, OccursEnds
  <2>5. QED  BY <2>2, <2>4 DEF Dispatched, Contexts
<1>4. ASSUME NEW m \in Msg, Occurs(cs, Of(m)) # 0 PROVE \E c \in ToSet(cs) : c.msg = m
  <2> DEFINE P == Of(m)
  <2> HIDE DEF P
  <2>0. Occurs(cs, P) = 0 <=> \A n \in DOMAIN cs : cs[n] \notin P  BY OccursBounds
  <2>1. PICK n \in DOMAIN cs : cs[n] \in Of(m)  BY <1>4, <2>0 DEF P
  <2>2. cs[n] \in ToSet(cs) /\ cs[n].msg = m  BY <1>1, <2>1 DEF Of
  <2>3. QED  BY <2>2
<1>5. QED  BY <1>3, <1>4 DEF SignalsOf

\* A queued message has one signal that is not resolved at most, so that it can
\* be given one.
LEMMA Fresh ==
    ASSUME Types, Placed, Pending # <<>>
    PROVE  /\ Head(Pending) \in Msg /\ InQueue(Head(Pending)) # 0
           /\ FreshSignal(Head(Pending)) \in Msg \X {1, 2}
           /\ FreshSignal(Head(Pending))[1] = Head(Pending)
<1> DEFINE m == Head(Pending)
           low == lanes.low
           high == lanes.high
<1>1. low \in Seq(Msg) /\ high \in Seq(Msg)  BY DEF Types, QueueTypes
<1>2. m \in Msg /\ InQueue(m) # 0
  <2>1. Pending = high \o low  BY DEF Pending
  <2>2. (high # <<>> /\ m = high[1]) \/ (low # <<>> /\ m = low[1])
    <3> HIDE DEF low, high
    <3>1. QED  BY <1>1, <2>1
  <2>3. m \in Msg
    <3> HIDE DEF low, high, m
    <3>1. QED  BY <1>1, <2>2
  <2>4. Occurs(low, {m}) # 0 \/ Occurs(high, {m}) # 0
    <3>1. Occurs(high, {m}) = 0 <=> \A n \in DOMAIN high : high[n] \notin {m}  BY <1>1, OccursEnds
    <3>2. Occurs(low, {m}) = 0 <=> \A n \in DOMAIN low : low[n] \notin {m}  BY <1>1, OccursEnds
    <3> HIDE DEF low, high, m
    <3>3. high # <<>> => 1 \in DOMAIN high  BY <1>1
    <3>4. low # <<>> => 1 \in DOMAIN low  BY <1>1
    <3>5. QED  BY <2>2, <3>1, <3>2, <3>3, <3>4
  <2>5. Occurs(low, {m}) \in Nat /\ Occurs(high, {m}) \in Nat  BY <1>1, OccursEnds
  <2>6. QED  BY <2>3, <2>4, <2>5 DEF InQueue
<1> HIDE DEF m, low, high
<1>3. OnTheWay(m) = 0
  <2>1. InQueue(m) \in Nat /\ OnTheWay(m) \in Nat  BY <1>2, PlaceTypes
  <2>2. InQueue(m) + OnTheWay(m) <= 1  BY <1>2 DEF Placed, At
  <2>3. QED  BY <1>2, <2>1, <2>2
<1>4. Occurs(output, Of(m)) = 0 /\ Occurs(out.batch, Of(m)) = 0 /\ ~(Busy /\ proc.msg = m)
  <2>1. /\ InOutput(m) \in Nat /\ InBatch(m) \in Nat /\ AtProc(m) \in {0, 1} /\ AtInput(m) \in {0, 1}
    BY <1>2, PlaceTypes
  <2>2. InOutput(m) = 0 /\ InBatch(m) = 0 /\ AtProc(m) = 0  BY <1>3, <2>1 DEF OnTheWay
  <2>3. QED  BY <2>2 DEF InOutput, InBatch, AtProc
<1>5. \A s \in signals : s[1] = m => s \in out.sigs
  <2>1. \A s \in SignalsOf(output) : s[1] # m
    BY <1>4, ContextPlaces DEF Types, QueueTypes
  <2>2. \A s \in SignalsOf(out.batch) : s[1] # m
    BY <1>4, ContextPlaces DEF Types, OutTypes
  <2>3. Busy => proc.sig[1] # m  BY <1>4 DEF Types, ProcTypes
  <2>4. QED  BY <2>1, <2>2, <2>3 DEF Types, SignalTypes, Heard
<1>6. \E s \in {<<m, 1>>, <<m, 2>>} : s \notin signals
  <2>1. \A s, t \in out.sigs : s[1] = t[1] => s = t  BY DEF Types, OutTypes
  <2>2. <<m, 1>>[1] = m /\ <<m, 2>>[1] = m /\ <<m, 1>> # <<m, 2>>  OBVIOUS
  <2>3. QED  BY <1>5, <2>1, <2>2
<1>7. FreshSignal(m) \in {<<m, 1>>, <<m, 2>>}  BY <1>6 DEF FreshSignal
<1>8. FreshSignal(m) \in Msg \X {1, 2} /\ FreshSignal(m)[1] = m
  <2>1. <<m, 1>> \in Msg \X {1, 2} /\ <<m, 2>> \in Msg \X {1, 2}  BY <1>2
  <2>2. QED  BY <1>7, <2>1
<1>9. QED  BY <1>2, <1>8 DEF m

-----------------------------------------------------------------------------
(* The types, continued.                                                   *)

\* The message that is handled has its own signal, and its context has both.
LEMMA ProcStep ==
    ASSUME Types, Placed, [Next]_vars
    PROVE  ProcTypes'
<1>1. ProcTypes /\ StateTypes  BY DEF Types
<1>2. CASE proc' = proc  BY <1>1, <1>2 DEF ProcTypes, Busy
<1>3. CASE Take
  <2> DEFINE m == Head(Pending)
             sig == FreshSignal(m)
  <2>1. m \in Msg /\ sig \in Msg \X {1, 2} /\ sig[1] = m  BY <1>3, Fresh DEF Take
  <2>2. proc' = proc \/ proc' = [Idle EXCEPT !.pc = "dispatch", !.msg = m, !.sig = sig]
    BY <1>3 DEF Take
  <2> HIDE DEF m, sig
  <2>3. CASE proc' = [Idle EXCEPT !.pc = "dispatch", !.msg = m, !.sig = sig]
    <3>1. proc' = [pc |-> "dispatch", msg |-> m, sig |-> sig, context |-> <<>>]
      BY <2>3 DEF Idle
    <3>2. QED  BY <2>1, <3>1 DEF ProcTypes, Busy
  <2>4. QED  BY <1>2, <2>2, <2>3
<1>4. ASSUME NEW base \in Logs, NEW does \in {"store", "nothing", "error"}, proc.pc = "dispatch",
             proc' = [proc EXCEPT !.pc = "offer", !.context = Context(base, does)]
      PROVE  ProcTypes'
  <2> DEFINE c == Context(base, does)
  <2>1. proc.msg \in Msg /\ proc.sig \in Msg \X {1, 2} /\ proc.sig[1] = proc.msg
    BY <1>1, <1>4 DEF ProcTypes, Busy
  <2>2. c \in Dispatched /\ c.msg = proc.msg /\ c.sig = proc.sig
    BY <2>1 DEF Dispatched, Contexts, Context
  <2> HIDE DEF c
  <2>3. proc' = [pc |-> "offer", msg |-> proc.msg, sig |-> proc.sig, context |-> c]
    <3>1. proc = [pc |-> proc.pc, msg |-> proc.msg, sig |-> proc.sig, context |-> proc.context]
      BY <1>1 DEF ProcTypes
    <3>2. QED  BY <1>4, <3>1 DEF c
  <2>4. QED  BY <2>1, <2>2, <2>3 DEF ProcTypes, Busy
<1>5. CASE Handle
  <2>1. proc.pc = "dispatch" /\ proc.msg \in Msg  BY <1>1, <1>5 DEF Handle, ProcTypes, Busy
  <2>2. KeyOf[proc.msg] \in Key  BY <2>1, ConstantsFacts
  <2>3. cache[KeyOf[proc.msg]] \subseteq Logs /\ store[KeyOf[proc.msg]] \in Logs
    BY <1>1, <2>2 DEF StateTypes
  <2>4. PICK base \in cache[KeyOf[proc.msg]] \cup {store[KeyOf[proc.msg]]} :
            proc' = [proc EXCEPT !.pc = "offer", !.context = Context(base, "store")]
    BY Zenon, <1>5 DEF Handle
  <2>5. QED  BY Zenon, <1>4, <2>1, <2>3, <2>4
<1>6. CASE HandleNothing
  <2>1. proc.pc = "dispatch" /\ <<>> \in Logs  BY <1>6 DEF HandleNothing, NothingStored, Logs
  <2>2. PICK does \in {"nothing", "error"} :
            proc' = [proc EXCEPT !.pc = "offer", !.context = Context(<<>>, does)]
    BY <1>6 DEF HandleNothing
  <2>3. QED  BY Zenon, <1>4, <2>1, <2>2
<1>7. CASE HandlerThrows
  BY <1>7 DEF HandlerThrows, ProcTypes, Busy, Idle
<1>8. CASE Offer  BY <1>8 DEF Offer, ProcTypes, Busy, Idle
<1>9. CASE ProcessingEnds
  <2>1. proc' = [pc |-> "done", msg |-> proc.msg, sig |-> proc.sig, context |-> proc.context]
    BY <1>1, <1>9 DEF ProcessingEnds, ProcTypes
  <2>2. QED  BY <2>1 DEF ProcTypes, Busy
<1>10. QED  BY <1>2, <1>3, <1>5, <1>6, <1>7, <1>8, <1>9, ProcFrame

\* An element that occurs once is at one place.
LEMMA OccursAtOnePlace ==
    ASSUME NEW S, NEW s \in Seq(S), NEW P, Occurs(s, P) <= 1,
           NEW i \in DOMAIN s, NEW j \in DOMAIN s, s[i] \in P, s[j] \in P
    PROVE  i = j
<1> DEFINE D == {n \in DOMAIN s : s[n] \in P}
<1>1. IsFiniteSet(D) /\ Cardinality(D) <= 1
  <2>1. IsFiniteSet(DOMAIN s)
    <3>1. DOMAIN s = 1..Len(s) /\ Len(s) \in Nat  OBVIOUS
    <3>2. QED  BY <3>1, FS_Interval
  <2>2. IsFiniteSet(D)  BY <2>1, FS_Subset
  <2>3. QED  BY <2>2 DEF Occurs
<1>2. i \in D /\ j \in D  OBVIOUS
<1>3. SUFFICES ASSUME i # j PROVE FALSE  OBVIOUS
<1>4. IsFiniteSet({i, j}) /\ Cardinality({i, j}) = 2
  <2>1. IsFiniteSet({i}) /\ Cardinality({i}) = 1  BY FS_Singleton
  <2>2. IsFiniteSet({i} \cup {j}) /\ Cardinality({i} \cup {j}) = Cardinality({i}) + 1
    BY <1>3, <2>1, FS_AddElement
  <2>3. {i} \cup {j} = {i, j}  OBVIOUS
  <2>4. QED  BY <2>1, <2>2, <2>3
<1>5. Cardinality({i, j}) <= Cardinality(D)
  <2> HIDE DEF D
  <2>1. {i, j} \subseteq D  BY <1>2
  <2>2. QED  BY <1>1, <2>1, FS_Subset
<1>6. Cardinality(D) \in Nat  BY <1>1, FS_CardinalityType
<1>7. QED  BY <1>1, <1>4, <1>5, <1>6

\* The elements of a sequence of one.
LEMMA ToSetOne == \A e : ToSet(<<e>>) = {e}
<1> SUFFICES ASSUME NEW e PROVE ToSet(<<e>>) = {e}  OBVIOUS
<1>1. DOMAIN <<e>> = {1} /\ <<e>>[1] = e  OBVIOUS
<1>2. QED  BY <1>1 DEF ToSet

\* The signals of a sequence of contexts.
LEMMA SignalEnds ==
    ASSUME NEW S
    PROVE  /\ SignalsOf(<<>>) = {}
           /\ \A s \in Seq(S) :
                /\ \A c \in S : SignalsOf(Append(s, c)) = SignalsOf(s) \cup {c.sig}
                /\ s # <<>> => SignalsOf(s) = {Head(s).sig} \cup SignalsOf(Tail(s))
<1>1. SignalsOf(<<>>) = {}
  <2>1. ToSet(<<>>) = {}  BY DEF ToSet
  <2>2. QED  BY <2>1 DEF SignalsOf
<1>2. ASSUME NEW s \in Seq(S), NEW c \in S
      PROVE  SignalsOf(Append(s, c)) = SignalsOf(s) \cup {c.sig}
  <2>1. ToSet(Append(s, c)) = ToSet(s) \cup {c}  BY ToSetAppend
  <2>2. QED  BY <2>1 DEF SignalsOf
<1>3. ASSUME NEW s \in Seq(S), s # <<>>
      PROVE  SignalsOf(s) = {Head(s).sig} \cup SignalsOf(Tail(s))
  <2>1. Head(s) \in S /\ Tail(s) \in Seq(S) /\ <<>> \in Seq(S)  BY <1>3, SequenceEnds
  <2> DEFINE h == Append(<<>>, Head(s))
             t == Tail(s)
  <2>2. h \in Seq(S) /\ s = h \o t  BY <1>3, <2>1
  <2>3. ToSet(h) = {Head(s)}
    <3>1. h = <<Head(s)>>  OBVIOUS
    <3>2. QED  BY <3>1, ToSetOne
  <2> HIDE DEF h
  <2>4. ToSet(h \o t) = ToSet(h) \cup ToSet(t)  BY ZenonT(30), <2>1, <2>2, ToSetConcat
  <2> HIDE DEF t
  <2>5. ToSet(s) = {Head(s)} \cup ToSet(t)  BY <2>2, <2>3, <2>4
  <2>6. QED  BY <2>5 DEF SignalsOf, t
<1>4. QED  BY <1>1, <1>2, <1>3

\* The batch a loop goes on with.
LEMMA BatchAdded ==
    ASSUME NEW batch \in Seq(Dispatched), batch # <<>>, Len(batch) <= MaxBatch,
           NEW waited \in BOOLEAN, NEW rest, AddToBatch(batch, waited, rest)
    PROVE  /\ OutTypes' /\ out'.batch = batch /\ out'.repro = 0 /\ out'.sigs = {}
           /\ out'.pc \in {"idle", "linger", "sink"} /\ signals' \in {signals, signals \ SignalsOf(batch)}
<1>1. \/ out' = [pc |-> "linger", batch |-> batch, waited |-> TRUE, repro |-> 0, sigs |-> {}]
      \/ /\ out' = [pc |-> "idle", batch |-> batch, waited |-> waited, repro |-> 0, sigs |-> {}]
         /\ Len(batch) # MaxBatch
      \/ out' = [pc |-> "sink", batch |-> batch, waited |-> waited, repro |-> 0, sigs |-> {}]
  BY DEF AddToBatch, Empty
<1>2. signals' \in {signals, signals \ SignalsOf(batch)}  BY DEF AddToBatch, Resolve
<1>3. Len(batch) # MaxBatch => Len(batch) < MaxBatch  BY ConstantsFacts
<1>4. PICK pc \in {"idle", "linger", "sink"}, w \in BOOLEAN :
          /\ out' = [pc |-> pc, batch |-> batch, waited |-> w, repro |-> 0, sigs |-> {}]
          /\ pc = "idle" => Len(batch) < MaxBatch
  BY <1>1, <1>3
<1>5. OutTypes'  BY <1>4 DEF OutTypes
<1>6. QED  BY <1>2, <1>4, <1>5

\* The batch stays within its size, and knows the signals it is put back with.
LEMMA OutStep ==
    ASSUME Types, Placed, [Next]_vars
    PROVE  OutTypes'
<1> DEFINE batch == out.batch
           Fields(o) == o = [pc |-> o.pc, batch |-> o.batch, waited |-> o.waited,
                             repro |-> o.repro, sigs |-> o.sigs]
<1>1. /\ OutTypes /\ batch \in Seq(Dispatched) /\ Fields(out) /\ output \in Seq(Dispatched)
      /\ out.waited \in BOOLEAN /\ Len(batch) \in Nat /\ MaxBatch \in Nat \ {0}
  BY ConstantsFacts DEF Types, OutTypes, QueueTypes
<1>2. CASE out' = out  BY <1>1, <1>2 DEF OutTypes
<1>3. CASE TakeOutput
  <2> DEFINE c == Head(output)
             longer == Append(batch, c)
  <2>1. out.pc = "idle" /\ output # <<>> /\ AddToBatch(longer, out.waited, Tail(output))
    BY <1>3 DEF TakeOutput
  <2>2. c \in Dispatched /\ Len(batch) < MaxBatch  BY <1>1, <2>1, SequenceEnds DEF OutTypes
  <2> HIDE DEF c, batch
  <2>3. longer \in Seq(Dispatched) /\ Len(longer) = Len(batch) + 1  BY <1>1, <2>2, SequenceEnds
  <2>4. longer # <<>> /\ Len(longer) <= MaxBatch  BY <1>1, <2>2, <2>3
  <2> HIDE DEF longer
  <2>5. QED  BY <1>1, <2>1, <2>3, <2>4, BatchAdded
<1>4. CASE Skip
  <2> DEFINE c == Head(output)
  <2>1. out.pc = "idle" /\ output # <<>> /\ Skips(c)
        /\ out' = [out EXCEPT !.pc = "skip", !.batch = <<c>>, !.sigs = {c.sig}]
    BY <1>4 DEF Skip
  <2>2. c \in Dispatched /\ out.repro # 0  BY <1>1, <2>1, SequenceEnds DEF Skips
  <2>3. c.sig \in Msg \X {1, 2}  BY <2>2 DEF Dispatched, Contexts
  <2>4. out' = [pc |-> "skip", batch |-> <<c>>, waited |-> out.waited, repro |-> out.repro,
                sigs |-> {c.sig}]
    BY <1>1, <2>1
  <2>5. SignalsOf(<<c>>) = {c.sig}
    <3>1. ToSet(<<c>>) = {c}  BY ToSetOne
    <3>2. QED  BY <3>1 DEF SignalsOf
  <2>6. out.waited \in BOOLEAN /\ out.repro \in Nat  BY <1>1 DEF OutTypes
  <2> HIDE DEF c
  <2>7. <<c>> \in Seq(Dispatched) /\ Len(<<c>>) = 1 /\ <<c>> # <<>>  BY <2>2
  <2>8. QED  BY <1>1, <2>2, <2>3, <2>4, <2>5, <2>6, <2>7 DEF OutTypes
<1>5. CASE Lingered
  <2>1. out.pc = "linger" /\ AddToBatch(batch, TRUE, output)  BY <1>5 DEF Lingered
  <2>2. batch # <<>> /\ Len(batch) <= MaxBatch  BY <1>1, <2>1 DEF OutTypes
  <2> HIDE DEF batch
  <2>3. QED  BY <1>1, <2>1, <2>2, BatchAdded
<1>6. CASE SinkBatch
  <2>1. out' = [pc |-> "idle", batch |-> <<>>, waited |-> FALSE, repro |-> 0, sigs |-> {}]
    BY <1>6 DEF SinkBatch, Empty
  <2>2. QED  BY <1>1, <2>1 DEF OutTypes
<1>7. CASE Conflict
  <2> DEFINE total == Len(Stored(batch))
             rest == SubSeq(batch, Kept + 1, Len(batch))
  <2>1. batch \in Seq(Contexts)  BY <1>1 DEF Dispatched
  <2>2. total \in Nat /\ total <= Len(batch)
    <3> HIDE DEF batch
    <3>1. QED  BY <2>1, StoredProperties
  <2>3. Good \in 0..total /\ Kept \in 0..Good /\ Good < total
    BY <1>7, <2>1, KeptProperties DEF Conflict, IsConflict
  <2>4. Kept \in Nat /\ Kept < Len(batch)
    <3> HIDE DEF total, batch
    <3>1. QED  BY <1>1, <2>2, <2>3
  <2>5. /\ rest \in Seq(Dispatched) /\ Len(rest) = Len(batch) - Kept
        /\ \A i \in 1..Len(rest) : rest[i] = batch[Kept + i] /\ Kept + i \in DOMAIN batch
    <3> DEFINE kept == Kept
    <3> HIDE DEF batch, kept
    <3>1. kept \in Nat /\ kept < Len(batch)  BY <2>4 DEF kept
    <3>2. QED  BY <1>1, <3>1, SMTT(20) DEF kept
  <2>6. rest # <<>> /\ Len(rest) <= MaxBatch
    <3>1. Len(batch) <= MaxBatch  BY <1>1 DEF OutTypes
    <3> HIDE DEF batch, rest
    <3>2. QED  BY <1>1, <2>4, <2>5, <3>1
  <2>7. out' = [pc |-> "requeue", batch |-> rest, waited |-> FALSE, repro |-> Len(repros) + 1,
                sigs |-> SignalsOf(batch)]
    BY <1>7 DEF Conflict
  <2>8. Len(repros) \in Nat  BY DEF Types, BookTypes
  <2>9. SignalsOf(rest) \subseteq SignalsOf(batch)
    <3> HIDE DEF batch, rest
    <3>1. \A i \in DOMAIN rest : \E j \in DOMAIN batch : rest[i] = batch[j]  BY <2>5
    <3>2. QED  BY <3>1 DEF SignalsOf, ToSet
  <2>10. SignalsOf(batch) \subseteq Msg \X {1, 2}
    <3> HIDE DEF batch
    <3>1. QED  BY <1>1, ContextPlaces
  <2>11. ASSUME NEW s \in SignalsOf(batch), NEW t \in SignalsOf(batch), s[1] = t[1] PROVE s = t
    <3>1. PICK i \in DOMAIN batch : s = batch[i].sig  BY DEF SignalsOf, ToSet
    <3>2. PICK j \in DOMAIN batch : t = batch[j].sig  BY DEF SignalsOf, ToSet
    <3> DEFINE m == batch[i].msg
    <3>3. batch[i] \in Dispatched /\ batch[j] \in Dispatched  BY <1>1
    <3>4. m \in Msg /\ batch[i].msg = m /\ batch[j].msg = m
      BY <2>11, <3>1, <3>2, <3>3 DEF Dispatched, Contexts
    <3>5. batch[i] \in Of(m) /\ batch[j] \in Of(m)  BY <3>3, <3>4 DEF Of
    <3>6. Occurs(batch, Of(m)) <= 1
      <4>1. At(m) <= 1  BY <3>4 DEF Placed
      <4> HIDE DEF m
      <4>2. /\ InQueue(m) \in Nat /\ InOutput(m) \in Nat /\ InBatch(m) \in Nat
            /\ AtProc(m) \in {0, 1} /\ AtInput(m) \in {0, 1}
        BY <3>4, PlaceTypes
      <4>3. InBatch(m) <= 1  BY <4>1, <4>2 DEF At, OnTheWay
      <4>4. QED  BY <4>3 DEF InBatch
    <3> DEFINE P == Of(m)
    <3> HIDE DEF batch, m, P
    <3>7. Occurs(batch, P) <= 1 /\ batch[i] \in P /\ batch[j] \in P  BY <3>5, <3>6 DEF P
    <3>8. i = j  BY <1>1, <3>7, OccursAtOnePlace
    <3>9. QED  BY <3>1, <3>2, <3>8
  <2> HIDE DEF batch, rest
  <2>12. QED  BY <2>5, <2>6, <2>7, <2>8, <2>9, <2>10, <2>11 DEF OutTypes
<1>8. CASE PutBack
  <2>1. out.pc \in {"skip", "requeue"} /\ batch # <<>> /\ out.repro # 0
        /\ SignalsOf(batch) \subseteq out.sigs
    BY <1>1, <1>8 DEF PutBack, OutTypes
  <2>2. CASE Len(batch) > 1
    <3> DEFINE t == Tail(batch)
    <3>1. out' = [out EXCEPT !.batch = t]  BY <1>8, <2>2 DEF PutBack
    <3>2. out' = [pc |-> out.pc, batch |-> t, waited |-> out.waited, repro |-> out.repro,
                  sigs |-> out.sigs]
      BY <1>1, <3>1
    <3>3. t \in Seq(Dispatched) /\ Len(t) = Len(batch) - 1 /\ SignalsOf(t) \subseteq SignalsOf(batch)
      <4> HIDE DEF batch
      <4>1. QED  BY <1>1, <2>1, SequenceEnds, SignalEnds
    <3>4. t # <<>> /\ Len(t) <= MaxBatch
      <4>1. Len(batch) <= MaxBatch  BY <1>1 DEF OutTypes
      <4> HIDE DEF batch, t
      <4>2. QED  BY <1>1, <2>2, <3>3, <4>1
    <3>5. out.pc = "requeue"
      <4>1. out.pc = "skip" => Len(batch) = 1  BY <1>1 DEF OutTypes
      <4>2. Len(batch) # 1
        <5> HIDE DEF batch
        <5>1. Len(batch) \in Nat  BY <1>1
        <5>2. QED  BY <2>2, <5>1
      <4>3. out.pc \in {"skip", "requeue"}  BY <2>1
      <4>4. QED  BY <4>1, <4>2, <4>3
    <3>6. SignalsOf(t) \subseteq out.sigs  BY <2>1, <3>3
    <3> HIDE DEF t
    <3>7. QED  BY <1>1, <3>2, <3>3, <3>4, <3>5, <3>6 DEF OutTypes
  <2>3. CASE ~(Len(batch) > 1)
    <3>1. \E pc \in {"idle", "done"} :
             out' = [pc |-> pc, batch |-> <<>>, waited |-> FALSE, repro |-> out.repro, sigs |-> {}]
      BY <1>8, <2>3 DEF PutBack, Empty
    <3>2. QED  BY <1>1, <3>1 DEF OutTypes
  <2>4. QED  BY <2>2, <2>3
<1>9. CASE SinkFails
  <2>1. \E pc \in {"idle", "failed"} :
           out' = [pc |-> pc, batch |-> <<>>, waited |-> FALSE, repro |-> 0, sigs |-> {}]
    BY <1>9 DEF SinkFails, Empty
  <2>2. QED  BY <1>1, <2>1 DEF OutTypes
<1>10. CASE OutputEnds
  <2>1. out' = [pc |-> "done", batch |-> batch, waited |-> out.waited, repro |-> out.repro,
                sigs |-> out.sigs] /\ out.pc = "idle"
    BY <1>1, <1>10 DEF OutputEnds
  <2>2. QED  BY <1>1, <2>1 DEF OutTypes
<1>11. QED  BY <1>2, <1>3, <1>4, <1>5, <1>6, <1>7, <1>8, <1>9, <1>10, OutFrame

\* A conflict is at one of the batch's contexts, and parts what was processed
\* from the others.
LEMMA ProcessedProperties ==
    ASSUME Types, Conflict
    PROVE  /\ Kept \in Nat /\ Kept < Len(out.batch) /\ Kept + 1 \in DOMAIN out.batch
           /\ Processed \in Seq(Dispatched) /\ SubSeq(out.batch, Kept + 1, Len(out.batch)) \in Seq(Dispatched)
           /\ out.batch = Processed \o SubSeq(out.batch, Kept + 1, Len(out.batch))
           /\ Len(SubSeq(out.batch, Kept + 1, Len(out.batch))) = Len(out.batch) - Kept
           /\ Kept <= Len(Stored(out.batch))
<1> DEFINE batch == out.batch
           kept == Kept
           total == Len(Stored(batch))
           rest == SubSeq(batch, kept + 1, Len(batch))
<1>1. batch \in Seq(Dispatched) /\ Len(batch) \in Nat  BY DEF Types, OutTypes
<1>2. batch \in Seq(Contexts)  BY <1>1 DEF Dispatched
<1>3. total \in Nat /\ total <= Len(batch)
  <2> HIDE DEF batch
  <2>1. QED  BY <1>2, StoredProperties
<1>4. Good \in 0..total /\ kept \in 0..Good /\ Good < total
  BY <1>2, KeptProperties DEF Conflict, IsConflict
<1> HIDE DEF kept, total, batch
<1>5. kept \in Nat /\ kept < Len(batch) /\ kept <= total  BY <1>1, <1>3, <1>4
<1>6. kept \in 0..Len(batch) /\ Len(batch) \in kept..Len(batch) /\ kept + 1 \in DOMAIN batch
  BY <1>1, <1>5
<1>7. SubSeq(batch, 1, kept) \o rest = SubSeq(batch, 1, Len(batch))  BY Zenon, <1>1, <1>6, SubSeqConcat
<1>8. SubSeq(batch, 1, Len(batch)) = batch  BY <1>1
<1>9. /\ SubSeq(batch, 1, kept) \in Seq(Dispatched) /\ rest \in Seq(Dispatched)
      /\ Len(rest) = Len(batch) - kept
  BY <1>1, <1>5
<1>10. Processed = SubSeq(batch, 1, kept)  BY DEF Processed, kept, batch
<1> HIDE DEF rest
<1>11. /\ kept \in Nat /\ kept < Len(batch) /\ kept + 1 \in DOMAIN batch /\ Processed \in Seq(Dispatched)
       /\ rest \in Seq(Dispatched) /\ batch = Processed \o rest
       /\ Len(rest) = Len(batch) - kept /\ kept <= total
  BY Zenon, <1>5, <1>6, <1>7, <1>8, <1>9, <1>10
<1>12. QED  BY <1>11 DEF rest, kept, batch, total

\* How a message is released.
LEMMA ReleaseProperties ==
    ASSUME NEW outcomeOf, Release(outcomeOf)
    PROVE  \A m \in Msg : released'[m] = IF m \in DOMAIN outcomeOf /\ released[m] = "no"
                                         THEN outcomeOf[m] ELSE released[m]
BY DEF Release

\* Only a message whose context has an event, or had none to store, is released
\* without an error.
LEMMA OutcomesProperties ==
    ASSUME NEW cs \in Seq(Dispatched), NEW err \in BOOLEAN
    PROVE  /\ \A m \in Msg : m \in DOMAIN Outcomes(cs, err) <=> Occurs(cs, Of(m)) # 0
           /\ \A m \in DOMAIN Outcomes(cs, err) :
                /\ Outcomes(cs, err)[m] \in {"ok", "nothing", "error"}
                /\ Outcomes(cs, err)[m] = "ok" =>
                      ~err /\ \E c \in ToSet(cs) : c.msg = m /\ c.does = "store"
<1> DEFINE f == Outcomes(cs, err)
           from(m) == CHOOSE c \in ToSet(cs) : c.msg = m
           outcome(c) == IF err THEN "error" ELSE IF c.does = "store" THEN "ok" ELSE c.does
<1>1. f = [m \in {c.msg : c \in ToSet(cs)} |-> outcome(from(m))]  BY DEF Outcomes
<1> HIDE DEF f
<1>2. DOMAIN f = {c.msg : c \in ToSet(cs)} /\ \A m \in DOMAIN f : f[m] = outcome(from(m))
  <2> HIDE DEF outcome, from
  <2>1. QED  BY <1>1
<1>3. \A m \in Msg : m \in DOMAIN f <=> Occurs(cs, Of(m)) # 0  BY <1>2, ContextPlaces
<1>4. ASSUME NEW m \in DOMAIN f
      PROVE  /\ f[m] \in {"ok", "nothing", "error"}
             /\ f[m] = "ok" => ~err /\ \E c \in ToSet(cs) : c.msg = m /\ c.does = "store"
  <2> DEFINE c == from(m)
  <2>1. c \in ToSet(cs) /\ c.msg = m  BY <1>2
  <2>2. c \in Dispatched
    <3> HIDE DEF c
    <3>1. QED  BY <2>1, ContextPlaces
  <2>3. f[m] = outcome(c)  BY <1>2
  <2> HIDE DEF c
  <2>4. c.does \in {"store", "nothing", "error"}  BY <2>2 DEF Dispatched, Contexts
  <2>5. QED  BY <2>1, <2>3, <2>4
<1>5. QED  BY <1>3, <1>4 DEF f

\* The outcomes are those the source is told of, and every message keeps the one
\* it has.
LEMMA ReleasedType ==
    ASSUME Types, NEW outcomeOf, Release(outcomeOf),
           \A m \in DOMAIN outcomeOf : outcomeOf[m] \in {"ok", "nothing", "error", "unavailable"}
    PROVE  released' \in [Msg -> {"no", "ok", "nothing", "error", "unavailable"}]
<1> DEFINE R == {"no", "ok", "nothing", "error", "unavailable"}
<1>1. released' = [m \in Msg |-> IF m \in DOMAIN outcomeOf /\ released[m] = "no"
                                 THEN outcomeOf[m] ELSE released[m]]
  BY DEF Release
<1>2. released \in [Msg -> R]  BY DEF Types, BookTypes
<1>3. ASSUME NEW m \in Msg
      PROVE  (IF m \in DOMAIN outcomeOf /\ released[m] = "no" THEN outcomeOf[m] ELSE released[m]) \in R
  BY <1>2
<1>4. QED  BY <1>1, <1>3

\* Every step that releases something releases some messages with an outcome.
LEMMA ReleasedStep ==
    ASSUME Types, [Next]_vars
    PROVE  released' \in [Msg -> {"no", "ok", "nothing", "error", "unavailable"}]
<1> DEFINE O == {"ok", "nothing", "error", "unavailable"}
           Fine(f) == Release(f) /\ \A m \in DOMAIN f : f[m] \in O
<1>1. released \in [Msg -> {"no", "ok", "nothing", "error", "unavailable"}]  BY DEF Types, BookTypes
<1>2. CASE released' = released  BY <1>1, <1>2
<1>3. ASSUME NEW m, NEW o \in {"unavailable", "error"}, ReleaseOne(m, o) PROVE \E f : Fine(f)
  <2>1. Release([n \in {m} |-> o])  BY <1>3 DEF ReleaseOne
  <2>2. \A k \in DOMAIN [n \in {m} |-> o] : [n \in {m} |-> o][k] \in O  OBVIOUS
  <2> DEFINE f == [n \in {m} |-> o]
  <2> HIDE DEF f
  <2>3. Release(f) /\ \A k \in DOMAIN f : f[k] \in O  BY <2>1, <2>2 DEF f
  <2>4. QED  BY <2>3
<1>4. ASSUME NEW cs \in Seq(Dispatched), NEW err \in BOOLEAN, Release(Outcomes(cs, err))
      PROVE  \E f : Fine(f)
  <2> DEFINE f == Outcomes(cs, err)
  <2>1. \A m \in DOMAIN f : f[m] \in O  BY OutcomesProperties
  <2> HIDE DEF f
  <2>2. Release(f)  BY <1>4 DEF f
  <2>3. QED  BY <2>1, <2>2
<1>5. (\E f : Fine(f)) => released' \in [Msg -> {"no", "ok", "nothing", "error", "unavailable"}]
  BY ReleasedType
<1>6. out.batch \in Seq(Dispatched)  BY DEF Types, OutTypes
<1>7. CASE ResumeReceive \/ Take \/ HandlerThrows \/ Offer \/ PutBack
  <2>1. released' = released \/ \E m, o : o \in {"unavailable", "error"} /\ ReleaseOne(m, o)
    BY <1>7 DEF ResumeReceive, Take, HandlerThrows, Offer, PutBack
  <2> HIDE DEF Fine
  <2>2. QED  BY <1>2, <1>3, <1>5, <2>1
<1>8. CASE SinkBatch \/ SinkFails
  <2>1. \E err \in BOOLEAN : Release(Outcomes(out.batch, err))  BY <1>8 DEF SinkBatch, SinkFails
  <2> HIDE DEF Fine
  <2>2. QED  BY <1>4, <1>5, <1>6, <2>1
<1>9. CASE Conflict
  <2>1. Release(Outcomes(Processed, FALSE))  BY <1>9 DEF Conflict
  <2>2. Processed \in Seq(Dispatched)  BY <1>6, <1>9, ProcessedProperties
  <2> HIDE DEF Fine
  <2>3. QED  BY <1>4, <1>5, <2>1, <2>2
<1>10. QED  BY <1>2, <1>7, <1>8, <1>9, BookFrame

\* What a loop waits for, and which messages are set aside for it, is known.
LEMMA BookStep ==
    ASSUME Types, [Next]_vars
    PROVE  BookTypes'
<1> DEFINE Books(o) == /\ repros' \in Seq(Repro) /\ o <= Len(repros')
                       /\ reproOf' \in [Msg -> 0..Len(repros')]
<1>1. /\ BookTypes /\ repros \in Seq(Repro) /\ Len(repros) \in Nat /\ out.repro \in Nat
      /\ out.repro <= Len(repros) /\ reproOf \in [Msg -> 0..Len(repros)]
  BY DEF Types, BookTypes, OutTypes
<1>2. released' \in [Msg -> {"no", "ok", "nothing", "error", "unavailable"}]  BY ReleasedStep
<1>3. ASSUME NEW c \in Dispatched, NEW r \in Nat \ {0}, NEW contexts \in Seq(Repro),
             r <= Len(contexts), Len(repros) <= Len(contexts), SetAside(r, c, contexts)
      PROVE  Books(r)
  <2> DEFINE x == Wrap(contexts[r], c)
  <2>1. r \in 1..Len(contexts) /\ Len(contexts) \in Nat  BY <1>3
  <2>2. contexts[r] \in Repro  BY <1>3, <2>1
  <2>3. x \in Repro
    <3> DEFINE y == contexts[r]
               keys == IF c.does = "store" THEN {KeyOf[c.msg]} \ y.seen ELSE {}
    <3>1. c.msg \in Msg  BY DEF Dispatched, Contexts
    <3>2. KeyOf[c.msg] \in Key  BY <3>1, ConstantsFacts
    <3>3. keys \subseteq Key  BY <3>2
    <3>4. x = [y EXCEPT !.seen = @ \cup keys, !.evict = @ \cup keys]  BY DEF Wrap
    <3> HIDE DEF keys, y, x
    <3>5. QED  BY <2>2, <3>3, <3>4 DEF Repro, y
  <2>4. repros' = [contexts EXCEPT ![r] = x] /\ reproOf' = [reproOf EXCEPT ![c.msg] = r]
    BY <1>3 DEF SetAside
  <2> HIDE DEF x
  <2>5. repros' \in Seq(Repro) /\ Len(repros') = Len(contexts)  BY <1>3, <2>1, <2>3, <2>4
  <2>6. reproOf' \in [Msg -> 0..Len(contexts)]
    <3>1. \A m \in Msg : reproOf[m] \in 0..Len(contexts)  BY <1>1, <1>3, <2>1
    <3>2. r \in 0..Len(contexts)  BY <2>1
    <3>3. reproOf' = [m \in Msg |-> IF m = c.msg THEN r ELSE reproOf[m]]  BY <1>1, <2>4
    <3>4. QED  BY <3>1, <3>2, <3>3
  <2>7. QED  BY <1>3, <2>5, <2>6
<1>4. CASE repros' = repros /\ reproOf' = reproOf
  <2>1. out'.repro = out.repro \/ out'.repro = 0
    <3> DEFINE Nothing == out'.repro = 0
    <3>1. CASE out' = out  BY <3>1
    <3>2. CASE TakeOutput
      <4>1. AddToBatch(Append(out.batch, Head(output)), out.waited, Tail(output))
        BY <3>2 DEF TakeOutput
      <4>2. QED  BY <4>1 DEF AddToBatch, Empty
    <3>3. CASE Lingered
      <4>1. AddToBatch(out.batch, TRUE, output)  BY <3>3 DEF Lingered
      <4>2. QED  BY <4>1 DEF AddToBatch, Empty
    <3>4. CASE SinkBatch  BY <3>4 DEF SinkBatch, Empty
    <3>5. CASE SinkFails  BY <3>5 DEF SinkFails, Empty
    <3>6. out = [pc |-> out.pc, batch |-> out.batch, waited |-> out.waited, repro |-> out.repro,
                 sigs |-> out.sigs]
      BY DEF Types, OutTypes
    <3>7. CASE Skip  BY <3>6, <3>7 DEF Skip
    <3>8. CASE PutBack  BY <3>6, <3>8 DEF PutBack, Empty
    <3>9. CASE OutputEnds  BY <3>6, <3>9 DEF OutputEnds
    <3>10. CASE Conflict
      <4>1. repros' = [Append(repros, [at |-> out.batch[Kept + 1].msg, seen |-> {}, evict |-> {}])
                          EXCEPT ![Len(repros) + 1] = Wrap(@, out.batch[Kept + 1])]
        BY <3>10 DEF Conflict, SetAside
      <4> DEFINE r == [at |-> out.batch[Kept + 1].msg, seen |-> {}, evict |-> {}]
                 w == Wrap(Append(repros, r)[Len(repros) + 1], out.batch[Kept + 1])
      <4>2. repros' = [Append(repros, r) EXCEPT ![Len(repros) + 1] = w]  BY <4>1
      <4> HIDE DEF r, w
      <4>3. DOMAIN repros' = 1..(Len(repros) + 1) /\ DOMAIN repros = 1..Len(repros)
        BY <1>1, <4>2
      <4>4. QED  BY <1>1, <1>4, <4>3
    <3>11. QED
      BY <3>1, <3>2, <3>3, <3>4, <3>5, <3>7, <3>8, <3>9, <3>10, OutFrame
  <2>2. QED  BY <1>1, <1>2, <1>4, <2>1 DEF BookTypes
<1>5. out = [pc |-> out.pc, batch |-> out.batch, waited |-> out.waited, repro |-> out.repro,
             sigs |-> out.sigs]
  BY DEF Types, OutTypes
<1>6. CASE Take
  <2> DEFINE m == Head(Pending)
  <2>1. repros' = repros \/ repros' = [r \in DOMAIN repros |->
                                         IF r = reproOf[m] THEN [repros[r] EXCEPT !.evict = {}]
                                         ELSE repros[r]]
    BY <1>6 DEF Take
  <2>2. reproOf' = reproOf /\ out' = out  BY <1>6 DEF Take
  <2>3. CASE repros' # repros
    <3> DEFINE n == reproOf[m]
               step(r) == IF r = n THEN [repros[r] EXCEPT !.evict = {}] ELSE repros[r]
    <3>1. repros' = [r \in DOMAIN repros |-> step(r)]  BY <2>1, <2>3
    <3>2. \A r \in DOMAIN repros : step(r) \in Repro
      <4>1. \A r \in DOMAIN repros : repros[r] \in Repro  BY <1>1
      <4> HIDE DEF n
      <4>2. \A x \in Repro : [x EXCEPT !.evict = {}] \in Repro  BY DEF Repro
      <4>3. QED  BY <4>1, <4>2
    <3>3. DOMAIN repros = 1..Len(repros)  BY <1>1
    <3> HIDE DEF step
    <3>4. repros' \in Seq(Repro) /\ Len(repros') = Len(repros)
      <4>1. repros' = [r \in 1..Len(repros) |-> step(r)] /\ \A r \in 1..Len(repros) : step(r) \in Repro
        BY <3>1, <3>2, <3>3
      <4>2. QED  BY <1>1, <4>1
    <3>5. QED  BY <1>1, <1>2, <2>2, <3>4 DEF BookTypes
  <2>4. QED  BY <1>4, <2>2, <2>3
<1>7. CASE Skip
  <2> DEFINE c == Head(output)
  <2>1. SetAside(out.repro, c, repros) /\ Skips(c) /\ output # <<>>
        /\ out' = [out EXCEPT !.pc = "skip", !.batch = <<c>>, !.sigs = {c.sig}]
    BY <1>7 DEF Skip
  <2>2. c \in Dispatched  BY <2>1, SequenceEnds DEF Types, QueueTypes
  <2> HIDE DEF c
  <2>3. out'.repro = out.repro /\ out.repro # 0  BY <1>5, <2>1 DEF Skips
  <2>4. Books(out.repro)  BY <1>1, <1>3, <2>1, <2>2, <2>3
  <2>5. QED  BY <1>2, <2>3, <2>4 DEF BookTypes
<1>8. CASE Conflict
  <2> DEFINE c == out.batch[Kept + 1]
             r == [at |-> c.msg, seen |-> {}, evict |-> {}]
             longer == Append(repros, r)
  <2>1. SetAside(Len(repros) + 1, c, longer) /\ out'.repro = Len(repros) + 1
    BY <1>8 DEF Conflict
  <2>2. Kept + 1 \in DOMAIN out.batch /\ out.batch \in Seq(Dispatched)
    BY <1>8, ProcessedProperties DEF Types, OutTypes
  <2>3. c \in Dispatched  BY <2>2
  <2> HIDE DEF c
  <2>4. r \in Repro  BY <2>3 DEF Repro, Dispatched, Contexts
  <2> HIDE DEF r
  <2>5. longer \in Seq(Repro) /\ Len(longer) = Len(repros) + 1  BY <1>1, <2>4
  <2> HIDE DEF longer
  <2>6. Len(repros) + 1 \in Nat \ {0} /\ Len(repros) + 1 <= Len(longer) /\ Len(repros) <= Len(longer)
    BY <1>1, <2>5
  <2>7. Books(Len(repros) + 1)  BY <1>3, <2>1, <2>3, <2>5, <2>6
  <2>8. QED  BY <1>2, <2>1, <2>7 DEF BookTypes
<1>9. CASE PutBack
  <2>1. CASE Len(out.batch) > 1
    <3> DEFINE c == out.batch[2]
    <3>1. SetAside(out.repro, c, repros) /\ out' = [out EXCEPT !.batch = Tail(@)]
      BY <1>9, <2>1 DEF PutBack
    <3>2. c \in Dispatched  BY <2>1 DEF Types, OutTypes
    <3>3. out.repro # 0  BY <1>9 DEF PutBack, Types, OutTypes
    <3> HIDE DEF c
    <3>4. out'.repro = out.repro  BY <1>5, <3>1
    <3>5. Books(out.repro)  BY <1>1, <1>3, <3>1, <3>2, <3>3
    <3>6. QED  BY <1>2, <3>4, <3>5 DEF BookTypes
  <2>2. CASE ~(Len(out.batch) > 1)  BY <1>4, <1>9, <2>2 DEF PutBack
  <2>3. QED  BY <2>1, <2>2
<1>10. QED  BY <1>4, <1>6, <1>7, <1>8, <1>9, BookFrame

\* What is stored by a call of the sink is the first of the batch's events, and
\* it is added to what the partitions hold.
LEMMA StoredAfterProperties ==
    ASSUME Types, NEW n \in 0..Len(Stored(out.batch))
    PROVE  /\ StoredAfter(n) \in [Key -> Logs]
           /\ \A k \in Key : ToSet(store[k]) \subseteq ToSet(StoredAfter(n)[k])
           /\ \A i \in 1..n : Stored(out.batch)[i].msg \in ToSet(StoredAfter(n)[KeyOf[Stored(out.batch)[i].msg]])
           /\ \A k \in Key : \A m \in Msg :
                 m \in ToSet(StoredAfter(n)[k]) =>
                     m \in ToSet(store[k]) \/ \E i \in 1..n : Stored(out.batch)[i].msg = m
<1> DEFINE s == Stored(out.batch)
           cs == SubSeq(s, 1, n)
           f == StoredAfter(n)
<1>1. out.batch \in Seq(Contexts)  BY DEF Types, OutTypes, Dispatched
<1>2. s \in Seq(Contexts)  BY <1>1, StoredProperties
<1>3. f = [k \in Key |-> Extended(cs, k)]  BY DEF StoredAfter
<1>4. n \in 0..Len(s)  OBVIOUS
<1> HIDE DEF s
<1>5. cs \in Seq(Contexts) /\ DOMAIN cs = 1..n /\ \A i \in 1..n : cs[i] = s[i] /\ s[i] \in Contexts
  BY <1>2, <1>4
<1> HIDE DEF cs, f
<1>6. store \in [Key -> Logs]  BY DEF Types, StateTypes
<1>7. ASSUME NEW k \in Key
      PROVE  /\ f[k] \in Logs
             /\ ToSet(f[k]) = ToSet(store[k])
                               \cup {cs[i].msg : i \in {j \in DOMAIN cs : KeyOf[cs[j].msg] = k}}
  <2>1. f[k] = Extended(cs, k)  BY <1>3
  <2>2. Extended(cs, k) \in Logs  BY <1>5, <1>6, ExtendedProperties
  <2>3. ToSet(Extended(cs, k)) = ToSet(store[k])
                               \cup {cs[i].msg : i \in {j \in DOMAIN cs : KeyOf[cs[j].msg] = k}}
    BY <1>5, <1>6, ExtendedProperties
  <2>4. QED  BY <2>1, <2>2, <2>3
<1>8. \A i \in 1..n : s[i].msg \in Msg /\ KeyOf[s[i].msg] \in Key
  BY <1>5, ConstantsFacts DEF Contexts
<1>9. f \in [Key -> Logs]  BY <1>3, <1>7
<1>10. \A k \in Key : ToSet(store[k]) \subseteq ToSet(f[k])  BY <1>7
<1>11. ASSUME NEW i \in 1..n PROVE s[i].msg \in ToSet(f[KeyOf[s[i].msg]])
  <2> DEFINE k == KeyOf[s[i].msg]
  <2>1. k \in Key /\ i \in DOMAIN cs /\ cs[i].msg = s[i].msg  BY <1>5, <1>8
  <2>2. KeyOf[cs[i].msg] = k  BY <2>1
  <2> HIDE DEF k
  <2>3. s[i].msg \in ToSet(f[k])  BY <1>7, <2>1, <2>2
  <2>4. QED  BY <2>3 DEF k
<1>12. ASSUME NEW k \in Key, NEW m \in Msg, m \in ToSet(f[k])
       PROVE  m \in ToSet(store[k]) \/ \E i \in 1..n : s[i].msg = m
  BY <1>5, <1>7, <1>12
<1>13. QED  BY <1>9, <1>10, <1>11, <1>12 DEF s, f

\* The sink stores the events of the first contexts with one, or of all.
LEMMA StoreStep ==
    ASSUME Types, [Next]_vars
    PROVE  \/ store' = store
           \/ \E k \in Key : store' = [store EXCEPT ![k] = Append(@, Other)]
           \/ /\ SinkBatch \/ Conflict \/ SinkRetries \/ SinkFails
              /\ \E n \in 0..Len(Stored(out.batch)) : store' = StoredAfter(n)
<1>1. out.batch \in Seq(Contexts)  BY DEF Types, OutTypes, Dispatched
<1> DEFINE total == Len(Stored(out.batch))
<1>2. total \in Nat /\ Good \in 0..total /\ Kept \in 0..Good  BY <1>1, KeptProperties
<1>3. Kept \in 0..total /\ \A n \in 0..Good : n \in 0..total
  <2> HIDE DEF total
  <2>1. QED  BY <1>2
<1>4. CASE SinkBatch \/ Conflict
  <2>1. store' = StoredAfter(Kept)  BY <1>4 DEF SinkBatch, Conflict
  <2>2. QED  BY <1>3, <1>4, <2>1
<1>5. CASE SinkRetries \/ SinkFails
  <2>1. \E n \in 0..Good : store' = StoredAfter(n)  BY <1>5 DEF SinkRetries, SinkFails, SomeStored
  <2>2. QED  BY <1>3, <1>5, <2>1
<1>6. CASE OtherStores  BY <1>6 DEF OtherStores
<1>7. QED  BY <1>4, <1>5, <1>6, StateFrame

\* The states and the partitions are logs.
LEMMA StateStep ==
    ASSUME Types, [Next]_vars
    PROVE  StateTypes'
<1> DEFINE Cached1(c) == c \in [Key -> SUBSET Logs] /\ \A k \in Key : \A x, y \in c[k] : x = y
<1>1. StateTypes /\ Cached1(cache) /\ store \in [Key -> Logs]  BY DEF Types, StateTypes
<1>2. store' \in [Key -> Logs]
  <2>1. CASE store' = store  BY <1>1, <2>1
  <2>2. ASSUME NEW k \in Key, store' = [store EXCEPT ![k] = Append(@, Other)]
        PROVE  store' \in [Key -> Logs]
    <3>1. Append(store[k], Other) \in Logs  BY <1>1 DEF Logs
    <3>2. QED  BY <1>1, <2>2, <3>1
  <2>3. ASSUME NEW n \in 0..Len(Stored(out.batch)), store' = StoredAfter(n)
        PROVE  store' \in [Key -> Logs]
    BY <2>3, StoredAfterProperties
  <2>4. QED  BY <2>1, <2>2, <2>3, StoreStep
<1>3. ASSUME NEW k \in Key, NEW l \in Logs, cache' = Remember(k, l) PROVE Cached1(cache')
  <2>1. cache' = cache \/ cache' = [cache EXCEPT ![k] = {l}]  BY <1>3 DEF Remember
  <2>2. QED  BY <1>1, <2>1
<1>4. ASSUME proc.pc \in {"dispatch", "offer"}
      PROVE  proc.msg \in Msg /\ KeyOf[proc.msg] \in Key
  BY <1>4, ConstantsFacts DEF Types, ProcTypes, Busy
<1>5. ASSUME NothingStored PROVE Cached1(cache')
  <2> DEFINE k == KeyOf[proc.msg]
  <2>1. k \in Key  BY <1>4, <1>5 DEF NothingStored
  <2>2. cache' = cache \/ cache' = Remember(k, store[k])  BY <1>5 DEF NothingStored
  <2> HIDE DEF k
  <2>3. store[k] \in Logs  BY <1>1, <2>1
  <2>4. QED  BY <1>1, <1>3, <2>1, <2>2, <2>3
<1>6. Cached1(cache')
  <2>1. CASE cache' = cache  BY <1>1, <2>1
  <2>2. CASE Take
    <3>1. cache' = cache \/ cache' = [k \in Key |-> IF k \in Dropped(Head(Pending)) THEN {} ELSE cache[k]]
      BY <2>2 DEF Take
    <3>2. QED  BY <1>1, <3>1
  <2>3. CASE Handle
    <3> DEFINE k == KeyOf[proc.msg]
    <3>1. PICK state \in cache[k] \cup {store[k]} : cache' = Remember(k, Compute(state, proc.msg))
      BY <2>3 DEF Handle
    <3>2. k \in Key /\ proc.msg \in Msg  BY <1>4, <2>3 DEF Handle
    <3> HIDE DEF k
    <3>3. state \in Logs  BY <1>1, <3>2
    <3>4. Compute(state, proc.msg) \in Logs  BY <3>2, <3>3 DEF Compute, Logs
    <3>5. QED  BY <1>3, <3>1, <3>2, <3>4
  <2>4. CASE HandleNothing \/ HandlerThrows  BY Zenon, <1>5, <2>4 DEF HandleNothing, HandlerThrows
  <2>5. QED  BY <2>1, <2>2, <2>3, <2>4, StateFrame
<1>7. faults' \in [handler : Nat, sink : Nat, other : Nat, drop : Nat, setting : Settings]
  <2> DEFINE F == [handler : Nat, sink : Nat, other : Nat, drop : Nat, setting : Settings]
  <2>1. faults \in F  BY <1>1 DEF StateTypes
  <2>2. CASE faults' = faults  BY <2>1, <2>2
  <2>3. CASE Handle  BY <2>1, <2>3 DEF Handle, Load
  <2>4. CASE HandleNothing \/ HandlerThrows
    <3>1. faults' = [faults EXCEPT !.handler = @ + 1]
      BY Zenon, <2>4 DEF HandleNothing, HandlerThrows, NothingStored
    <3>2. QED  BY <2>1, <3>1
  <2>5. CASE SinkRetries \/ SinkFails
    <3>1. faults' = [faults EXCEPT !.sink = @ + 1]
      BY <2>5 DEF SinkRetries, SinkFails, SomeStored
    <3>2. QED  BY <2>1, <3>1
  <2>6. CASE OtherStores  BY <2>1, <2>6 DEF OtherStores
  <2>7. QED  BY <2>2, <2>3, <2>4, <2>5, <2>6, StateFrame
<1>8. QED  BY <1>2, <1>6, <1>7 DEF StateTypes

\* A signal that is not resolved stays one of those on the way.
LEMMA SignalStep ==
    ASSUME Types, Placed, [Next]_vars
    PROVE  SignalTypes'
<1> DEFINE own == IF Busy THEN {proc.sig} ELSE {}
           batch == out.batch
<1>1. /\ signals \subseteq out.sigs \cup SignalsOf(batch) \cup SignalsOf(output) \cup own
      /\ batch \in Seq(Dispatched) /\ output \in Seq(Dispatched)
      /\ (out.pc \notin {"skip", "requeue"} => out.sigs = {})
  BY DEF Types, SignalTypes, Heard, OutTypes, QueueTypes
<1>2. out = [pc |-> out.pc, batch |-> out.batch, waited |-> out.waited, repro |-> out.repro,
             sigs |-> out.sigs]
      /\ proc = [pc |-> proc.pc, msg |-> proc.msg, sig |-> proc.sig, context |-> proc.context]
  BY DEF Types, OutTypes, ProcTypes
<1>3. SignalTypes' <=> signals' \subseteq out'.sigs \cup SignalsOf(batch)' \cup SignalsOf(output)' \cup own'
  BY DEF SignalTypes, Heard
<1>4. output # <<>> => SignalsOf(output) = {Head(output).sig} \cup SignalsOf(Tail(output))
  BY <1>1, SignalEnds
<1>5. CASE signals' \subseteq signals /\ out' = out /\ output' = output /\ proc' = proc
  BY <1>1, <1>3, <1>5 DEF Busy
<1>6. CASE Take
  <2>1. CASE proc' = proc  BY <1>5, <1>6, <2>1 DEF Take, Idle
  <2> DEFINE sig == FreshSignal(Head(Pending))
  <2>2. CASE proc' = [Idle EXCEPT !.pc = "dispatch", !.msg = Head(Pending), !.sig = sig]
    <3>1. own' = {sig}  BY <2>2 DEF Busy, Idle
    <3>2. signals' \subseteq signals \cup {sig} /\ out' = out /\ output' = output /\ own = {}
      BY <1>6 DEF Take, Busy
    <3> HIDE DEF own, sig, batch
    <3>3. QED  BY <1>1, <1>3, <3>1, <3>2 DEF batch
  <2>3. QED  BY <1>6, <2>1, <2>2 DEF Take
<1>7. CASE Handle \/ HandleNothing
  <2>1. PICK c : proc' = [proc EXCEPT !.pc = "offer", !.context = c]
    BY Zenon, <1>7 DEF Handle, HandleNothing
  <2>2. own' = own  BY Zenon, <1>2, <1>7, <2>1 DEF Busy, Handle, HandleNothing, NothingStored
  <2>3. signals' = signals /\ out' = out /\ output' = output  BY Zenon, <1>7 DEF Handle, HandleNothing
  <2> HIDE DEF own
  <2>4. QED  BY <1>1, <1>3, <2>2, <2>3
<1>8. CASE HandlerThrows
  <2>1. signals' = signals \ {proc.sig} /\ out' = out /\ output' = output
    BY <1>8 DEF HandlerThrows, Resolve
  <2>2. own \subseteq {proc.sig}  OBVIOUS
  <2> HIDE DEF own
  <2>3. QED  BY <1>1, <1>3, <2>1, <2>2
<1>9. CASE Offer
  <2>1. out' = out /\ own \subseteq {proc.sig}  BY <1>9 DEF Offer
  <2>2. CASE Len(output) < OutputCapacity
    <3>1. output' = Append(output, proc.context) /\ signals' = signals  BY <1>9, <2>2 DEF Offer
    <3>2. proc.context \in Dispatched /\ proc.context.sig = proc.sig
      BY <1>9 DEF Offer, Types, ProcTypes
    <3>3. SignalsOf(output') = SignalsOf(output) \cup {proc.sig}
      <4>1. SignalsOf(Append(output, proc.context)) = SignalsOf(output) \cup {proc.context.sig}
        BY <1>1, <3>2, SignalEnds
      <4>2. QED  BY <3>1, <3>2, <4>1
    <3> HIDE DEF own
    <3>4. QED  BY <1>1, <1>3, <2>1, <3>1, <3>3
  <2>3. CASE ~(Len(output) < OutputCapacity)
    <3>1. output' = output /\ signals' = signals \ {proc.sig}  BY <1>9, <2>3 DEF Offer, Resolve
    <3> HIDE DEF own
    <3>2. QED  BY <1>1, <1>3, <2>1, <3>1
  <2>4. QED  BY <2>2, <2>3
<1>10. CASE ProcessingEnds
  <2>1. own = {} /\ signals' = signals /\ out' = out /\ output' = output
    BY <1>10 DEF ProcessingEnds, Busy
  <2> HIDE DEF own
  <2>2. QED  BY <1>1, <1>3, <2>1
<1>11. ASSUME own' = own, signals' \subseteq signals, SignalsOf(output)' \subseteq SignalsOf(output),
              signals' \cap (out.sigs \cup SignalsOf(batch) \cup (SignalsOf(output) \ SignalsOf(output)'))
                  \subseteq out'.sigs \cup SignalsOf(batch)'
       PROVE  SignalTypes'
  <2> HIDE DEF own
  <2>1. QED  BY <1>1, <1>3, <1>11
<1>12. ASSUME proc' = proc PROVE own' = own  BY <1>12 DEF Busy
<1>13. CASE TakeOutput
  <2> DEFINE c == Head(output)
             longer == Append(batch, c)
  <2>1. output # <<>> /\ AddToBatch(longer, out.waited, Tail(output)) /\ output' = Tail(output)
        /\ out.sigs = {} /\ proc' = proc
    BY <1>1, <1>13 DEF TakeOutput
  <2>2. c \in Dispatched  BY <1>1, <2>1, SequenceEnds
  <2>3. out'.batch = longer /\ signals' \subseteq signals  BY <2>1 DEF AddToBatch, Resolve, Empty
  <2> HIDE DEF c
  <2>4. SignalsOf(longer) = SignalsOf(batch) \cup {c.sig}  BY <1>1, <2>2, SignalEnds
  <2>5. SignalsOf(output) = {c.sig} \cup SignalsOf(output')  BY <1>4, <2>1 DEF c
  <2> HIDE DEF longer
  <2>6. QED  BY <1>11, <1>12, <2>1, <2>3, <2>4, <2>5
<1>14. CASE Skip
  <2> DEFINE c == Head(output)
  <2>1. output # <<>> /\ output' = Tail(output) /\ out.pc = "idle" /\ out.repro # 0 /\ proc' = proc
        /\ signals' = signals
        /\ out' = [out EXCEPT !.pc = "skip", !.batch = <<c>>, !.sigs = {c.sig}]
    BY <1>14 DEF Skip, Skips
  <2>2. batch = <<>> /\ out.sigs = {}  BY <2>1 DEF Types, OutTypes
  <2>3. SignalsOf(batch) = {}  BY <2>2, SignalEnds
  <2>4. out'.sigs = {c.sig}  BY <1>2, <2>1
  <2>5. SignalsOf(output) = {c.sig} \cup SignalsOf(output')  BY <1>4, <2>1
  <2> HIDE DEF c, batch
  <2>6. QED  BY <1>11, <1>12, <2>1, <2>2, <2>3, <2>4, <2>5
<1>15. CASE Lingered
  <2>1. AddToBatch(batch, TRUE, output) /\ output' = output /\ out.sigs = {} /\ proc' = proc
    BY <1>1, <1>15 DEF Lingered
  <2>2. out'.batch = batch /\ signals' \subseteq signals  BY <2>1 DEF AddToBatch, Resolve, Empty
  <2>3. QED  BY <1>11, <1>12, <2>1, <2>2
<1>16. CASE SinkBatch \/ SinkFails
  <2>1. signals' = signals \ SignalsOf(batch) /\ output' = output /\ out.sigs = {} /\ proc' = proc
    BY <1>1, <1>16 DEF SinkBatch, SinkFails, SomeStored, Resolve
  <2> HIDE DEF batch
  <2>2. QED  BY <1>11, <1>12, <2>1
<1>17. CASE Conflict
  <2>1. out'.sigs = SignalsOf(batch) /\ signals' = signals /\ output' = output /\ out.sigs = {}
        /\ proc' = proc
    BY <1>1, <1>17 DEF Conflict
  <2> HIDE DEF batch
  <2>2. QED  BY <1>11, <1>12, <2>1
<1>18. CASE PutBack
  <2>1. output' = output /\ SignalsOf(batch) \subseteq out.sigs /\ proc' = proc
    BY <1>18 DEF PutBack, Types, OutTypes
  <2>2. CASE Len(batch) > 1
    <3>1. out'.sigs = out.sigs /\ signals' = signals  BY <1>2, <1>18, <2>2 DEF PutBack
    <3> HIDE DEF batch
    <3>2. QED  BY <1>11, <1>12, <2>1, <3>1
  <2>3. CASE ~(Len(batch) > 1)
    <3>1. signals' = signals \ out.sigs  BY <1>18, <2>3 DEF PutBack, Resolve
    <3> HIDE DEF batch
    <3>2. QED  BY <1>11, <1>12, <2>1, <3>1
  <2>4. QED  BY <2>2, <2>3
<1>19. CASE OutputEnds
  <2>1. out'.batch = batch /\ out'.sigs = out.sigs /\ signals' = signals /\ output' = output
        /\ proc' = proc
    BY <1>2, <1>19 DEF OutputEnds
  <2>2. QED  BY <1>11, <1>12, <2>1
<1>20. QED
  BY <1>5, <1>6, <1>7, <1>8, <1>9, <1>10, <1>13, <1>14, <1>15, <1>16, <1>17, <1>18, <1>19,
     OutFrame, ProcFrame, QueueFrame, BookFrame

-----------------------------------------------------------------------------
(* How the messages go from place to place.                                *)

\* The messages of G leave all places and are released, the others stay where
\* they are or move on to one place; one evicted is not taken from the queue.
Leave(G) == \A m \in Msg : /\ At(m)' = IF m \in G THEN 0 ELSE At(m)
                           /\ m \in G => At(m) # 0
                           /\ m \in evicted /\ OnTheWay(m) = 0 => OnTheWay(m)' = 0
Let(G) == \A m \in Msg : released'[m] = "no" <=> released[m] = "no" /\ m \notin G

\* How often a message's context is at the ends of a sequence.
LEMMA ContextEnds ==
    ASSUME NEW m \in Msg
    PROVE  /\ Occurs(<<>>, Of(m)) = 0
           /\ \A cs \in Seq(Dispatched) :
                /\ Occurs(cs, Of(m)) \in Nat
                /\ \A c \in Dispatched :
                      Occurs(Append(cs, c), Of(m)) = Occurs(cs, Of(m)) + (IF m = c.msg THEN 1 ELSE 0)
                /\ cs # <<>> =>
                      Occurs(cs, Of(m)) = Occurs(Tail(cs), Of(m)) + (IF m = Head(cs).msg THEN 1 ELSE 0)
                /\ \A ds \in Seq(Dispatched) :
                      Occurs(cs \o ds, Of(m)) = Occurs(cs, Of(m)) + Occurs(ds, Of(m))
<1> DEFINE P == Of(m)
<1>1. \A c \in Dispatched : c \in P <=> m = c.msg  BY DEF Of
<1> HIDE DEF P
<1>2. /\ Occurs(<<>>, P) = 0
      /\ \A cs \in Seq(Dispatched) :
           /\ Occurs(cs, P) \in Nat
           /\ \A c \in Dispatched :
                 Occurs(Append(cs, c), P) = Occurs(cs, P) + (IF c \in P THEN 1 ELSE 0)
           /\ cs # <<>> =>
                 Occurs(cs, P) = Occurs(Tail(cs), P) + (IF Head(cs) \in P THEN 1 ELSE 0)
  BY OccursEnds
<1>3. \A cs, ds \in Seq(Dispatched) : Occurs(cs \o ds, P) = Occurs(cs, P) + Occurs(ds, P)
  BY OccursConcat
<1>4. \A cs \in Seq(Dispatched) : cs # <<>> => Head(cs) \in Dispatched  BY SequenceEnds
<1>5. /\ Occurs(<<>>, P) = 0
      /\ \A cs \in Seq(Dispatched) :
           /\ Occurs(cs, P) \in Nat
           /\ \A c \in Dispatched :
                 Occurs(Append(cs, c), P) = Occurs(cs, P) + (IF m = c.msg THEN 1 ELSE 0)
           /\ cs # <<>> =>
                 Occurs(cs, P) = Occurs(Tail(cs), P) + (IF m = Head(cs).msg THEN 1 ELSE 0)
  BY <1>1, <1>2, <1>4
<1>6. QED  BY <1>3, <1>5 DEF P

\* What the step leaves of a message's places.
LEMMA PlacesLeft ==
    ASSUME Types, NEW m \in Msg
    PROVE  /\ lanes' = lanes => InQueue(m)' = InQueue(m)
           /\ output' = output => InOutput(m)' = InOutput(m)
           /\ out'.batch = out.batch => InBatch(m)' = InBatch(m)
           /\ (Busy' <=> Busy) /\ (Busy => proc'.msg = proc.msg) => AtProc(m)' = AtProc(m)
           /\ (inLoop' = "blocked" <=> inLoop = "blocked") /\ received' = received =>
                  AtInput(m)' = AtInput(m)
<1>1. lanes' = lanes => InQueue(m)' = InQueue(m)  BY DEF InQueue
<1>2. output' = output => InOutput(m)' = InOutput(m)  BY DEF InOutput
<1>3. out'.batch = out.batch => InBatch(m)' = InBatch(m)  BY DEF InBatch
<1>4. ASSUME Busy' <=> Busy, Busy => proc'.msg = proc.msg PROVE AtProc(m)' = AtProc(m)
  BY <1>4 DEF AtProc
<1>5. ASSUME inLoop' = "blocked" <=> inLoop = "blocked", received' = received
      PROVE  AtInput(m)' = AtInput(m)
  BY <1>5 DEF AtInput
<1>6. QED  BY <1>1, <1>2, <1>3, <1>4, <1>5

\* How the places are added up, before and after a step.
LEMMA PlaceSums ==
    ASSUME Types, Placed, NEW m \in Msg
    PROVE  /\ At(m) = InQueue(m) + InOutput(m) + InBatch(m) + AtProc(m) + AtInput(m) /\ At(m) <= 1
           /\ At(m)' = InQueue(m)' + (InOutput(m)' + InBatch(m)' + AtProc(m)' + AtInput(m)')
           /\ OnTheWay(m) = InOutput(m) + InBatch(m) + AtProc(m) + AtInput(m)
           /\ OnTheWay(m)' = InOutput(m)' + InBatch(m)' + AtProc(m)' + AtInput(m)'
           /\ InQueue(m) \in Nat /\ InOutput(m) \in Nat /\ InBatch(m) \in Nat
           /\ AtProc(m) \in {0, 1} /\ AtInput(m) \in {0, 1}
<1>1. /\ InQueue(m) \in Nat /\ InOutput(m) \in Nat /\ InBatch(m) \in Nat
      /\ AtProc(m) \in {0, 1} /\ AtInput(m) \in {0, 1}
  BY PlaceTypes
<1>2. At(m) = InQueue(m) + InOutput(m) + InBatch(m) + AtProc(m) + AtInput(m)  BY <1>1 DEF At, OnTheWay
<1>3. OnTheWay(m) = InOutput(m) + InBatch(m) + AtProc(m) + AtInput(m)  BY DEF OnTheWay
<1>4. OnTheWay(m)' = InOutput(m)' + InBatch(m)' + AtProc(m)' + AtInput(m)'  BY DEF OnTheWay
<1>5. At(m)' = InQueue(m)' + (InOutput(m)' + InBatch(m)' + AtProc(m)' + AtInput(m)')
  BY DEF At, OnTheWay
<1>6. At(m) <= 1  BY DEF Placed
<1>7. QED  BY <1>1, <1>2, <1>3, <1>4, <1>5, <1>6

\* Nothing moves.
LEMMA Unmoved ==
    ASSUME Types, Placed, lanes' = lanes, output' = output, out'.batch = out.batch, Busy' <=> Busy,
           Busy => proc'.msg = proc.msg, inLoop' = "blocked" <=> inLoop = "blocked",
           received' = received, released' = released
    PROVE  Leave({}) /\ Let({})
<1>1. ASSUME NEW m \in Msg PROVE OnTheWay(m)' = OnTheWay(m) /\ At(m)' = At(m)
  <2>1. /\ InQueue(m)' = InQueue(m) /\ InOutput(m)' = InOutput(m) /\ InBatch(m)' = InBatch(m)
        /\ AtProc(m)' = AtProc(m) /\ AtInput(m)' = AtInput(m)
    BY PlacesLeft
  <2>2. QED  BY <2>1, PlaceSums
<1>2. QED  BY <1>1 DEF Leave, Let

\* A message pushed to a lane is there once more.
LEMMA PushedPlaces ==
    ASSUME Types, NEW lane \in {"low", "high"}, NEW n \in Msg, Push(lane, n), NEW m \in Msg
    PROVE  InQueue(m)' = InQueue(m) + (IF m = n THEN 1 ELSE 0)
<1> DEFINE low == lanes.low
           high == lanes.high
           P == {m}
           one == IF m = n THEN 1 ELSE 0
<1>1. lanes = [low |-> low, high |-> high] /\ low \in Seq(Msg) /\ high \in Seq(Msg)
  BY DEF Types, QueueTypes
<1>2. Occurs(low, P) \in Nat /\ Occurs(high, P) \in Nat  BY PlaceTypes
<1>3. InQueue(m) = Occurs(low, P) + Occurs(high, P)
      /\ InQueue(m)' = Occurs(lanes'.low, P) + Occurs(lanes'.high, P)
  BY DEF InQueue
<1>4. n \in P <=> m = n  OBVIOUS
<1>5. one \in {0, 1}  OBVIOUS
<1> HIDE DEF P
<1>6. \A s \in Seq(Msg) : Occurs(Append(s, n), P) = Occurs(s, P) + one
  <2>1. \A s \in Seq(Msg) : Occurs(Append(s, n), P) = Occurs(s, P) + (IF n \in P THEN 1 ELSE 0)
    BY OccursEnds
  <2>2. QED  BY <1>4, <2>1
<1>7. CASE lane = "low"
  <2>1. lanes'.low = Append(low, n) /\ lanes'.high = high  BY <1>1, <1>7 DEF Push
  <2> HIDE DEF low, high, one
  <2>2. Occurs(lanes'.low, P) = Occurs(low, P) + one /\ Occurs(lanes'.high, P) = Occurs(high, P)
    BY <1>1, <1>6, <2>1
  <2>3. InQueue(m)' = InQueue(m) + one  BY <1>2, <1>3, <1>5, <2>2
  <2>4. QED  BY <2>3 DEF one
<1>8. CASE lane = "high"
  <2>1. lanes'.high = Append(high, n) /\ lanes'.low = low  BY <1>1, <1>8 DEF Push
  <2> HIDE DEF low, high, one
  <2>2. Occurs(lanes'.high, P) = Occurs(high, P) + one /\ Occurs(lanes'.low, P) = Occurs(low, P)
    BY <1>1, <1>6, <2>1
  <2>3. InQueue(m)' = InQueue(m) + one  BY <1>2, <1>3, <1>5, <2>2
  <2>4. QED  BY <2>3 DEF one
<1>9. QED  BY <1>7, <1>8

\* The one released is no longer without an outcome.
LEMMA ReleaseOneProperties ==
    ASSUME NEW n \in Msg, NEW o \in {"unavailable", "error"}, ReleaseOne(n, o)
    PROVE  Let({n})
<1> DEFINE f == [k \in {n} |-> o]
<1>1. Release(f)  BY DEF ReleaseOne
<1>2. DOMAIN f = {n} /\ \A k \in DOMAIN f : f[k] # "no"  OBVIOUS
<1> HIDE DEF f
<1>3. \A m \in Msg : released'[m] = IF m \in DOMAIN f /\ released[m] = "no" THEN f[m] ELSE released[m]
  BY <1>1, ReleaseProperties
<1>4. QED  BY <1>2, <1>3 DEF Let

\* The input loop.
LEMMA ResumePlaces ==
    ASSUME Types, Placed, ResumeReceive
    PROVE  \E G : Leave(G) /\ Let(G)
<1>1. received \in Msg /\ inLoop = "blocked" /\ inLoop' = "receive"
  BY DEF ResumeReceive, Types, QueueTypes, Msg
<1>2. UNCHANGED <<output, out, proc, received>>  BY DEF ResumeReceive
<1>3. ASSUME NEW m \in Msg
      PROVE  /\ InOutput(m)' = InOutput(m) /\ InBatch(m)' = InBatch(m) /\ AtProc(m)' = AtProc(m)
             /\ AtInput(m) = (IF m = received THEN 1 ELSE 0) /\ AtInput(m)' = 0
  <2>1. Busy' <=> Busy  BY <1>2 DEF Busy
  <2>2. InOutput(m)' = InOutput(m) /\ InBatch(m)' = InBatch(m) /\ AtProc(m)' = AtProc(m)
    BY <1>2, <2>1, PlacesLeft
  <2>3. AtInput(m) = (IF m = received THEN 1 ELSE 0) /\ AtInput(m)' = 0  BY <1>1 DEF AtInput
  <2>4. QED  BY <2>2, <2>3
<1>4. CASE Push("low", received) /\ released' = released
  <2>1. ASSUME NEW m \in Msg
        PROVE  At(m)' = At(m) /\ (OnTheWay(m) = 0 => OnTheWay(m)' = 0)
    <3>1. InQueue(m)' = InQueue(m) + (IF m = received THEN 1 ELSE 0)
      BY <1>1, <1>4, PushedPlaces
    <3>2. QED  BY <1>3, <3>1, PlaceSums
  <2>2. Leave({}) /\ Let({})  BY <1>4, <2>1 DEF Leave, Let
  <2>3. QED  BY <2>2
<1>5. CASE ReleaseOne(received, "unavailable") /\ lanes' = lanes
  <2>1. ASSUME NEW m \in Msg
        PROVE  /\ At(m)' = IF m \in {received} THEN 0 ELSE At(m)
               /\ m \in {received} => At(m) # 0
               /\ OnTheWay(m) = 0 => OnTheWay(m)' = 0
    <3>1. InQueue(m)' = InQueue(m)  BY <1>5, PlacesLeft
    <3>2. QED  BY <1>3, <3>1, PlaceSums
  <2>2. Leave({received})  BY <2>1 DEF Leave
  <2>3. Let({received})  BY <1>1, <1>5, ReleaseOneProperties
  <2>4. QED  BY <2>2, <2>3
<1>6. QED  BY <1>4, <1>5 DEF ResumeReceive

\* What is taken from the input queue is there once less.
LEMMA TakenPlaces ==
    ASSUME Types, Take, NEW m \in Msg
    PROVE  InQueue(m) = InQueue(m)' + (IF m = Head(Pending) THEN 1 ELSE 0) /\ InQueue(m)' \in Nat
<1> DEFINE low == lanes.low
           high == lanes.high
           n == Head(Pending)
           P == {m}
           one == IF m = n THEN 1 ELSE 0
<1>1. lanes = [low |-> low, high |-> high] /\ low \in Seq(Msg) /\ high \in Seq(Msg)
  BY DEF Types, QueueTypes
<1>2. Pending # <<>> /\ Pending = high \o low  BY DEF Take, Pending
<1>3. InQueue(m) = Occurs(low, P) + Occurs(high, P)
      /\ InQueue(m)' = Occurs(lanes'.low, P) + Occurs(lanes'.high, P)
  BY DEF InQueue
<1>4. Occurs(low, P) \in Nat /\ Occurs(high, P) \in Nat  BY PlaceTypes
<1>5. (n \in P <=> m = n) /\ one \in {0, 1}  OBVIOUS
<1> HIDE DEF P
<1>6. \A s \in Seq(Msg) : s # <<>> =>
          /\ Occurs(s, P) = Occurs(Tail(s), P) + (IF Head(s) \in P THEN 1 ELSE 0)
          /\ Occurs(Tail(s), P) \in Nat /\ Occurs(s, P) \in Nat
  <2>1. \A s \in Seq(Msg) : s # <<>> => Tail(s) \in Seq(Msg)  BY SequenceEnds
  <2>2. QED  BY ZenonT(30), <2>1, OccursEnds
<1>7. CASE high # <<>>
  <2>1. lanes'.high = Tail(high) /\ lanes'.low = low  BY <1>1, <1>7 DEF Take
  <2>2. n = Head(high)
    <3> HIDE DEF low, high
    <3>1. QED  BY <1>1, <1>2, <1>7
  <2> HIDE DEF low, high
  <2>3. Occurs(high, P) = Occurs(lanes'.high, P) + one /\ Occurs(lanes'.high, P) \in Nat
    <3> HIDE DEF n
    <3>1. QED  BY <1>1, <1>5, <1>6, <1>7, <2>1, <2>2
  <2> HIDE DEF one
  <2>4. InQueue(m) = InQueue(m)' + one /\ InQueue(m)' \in Nat
    BY <1>3, <1>4, <1>5, <2>1, <2>3
  <2>5. QED  BY <2>4 DEF one
<1>8. CASE high = <<>>
  <2>1. lanes'.high = high /\ lanes'.low = Tail(low)  BY <1>1, <1>8 DEF Take
  <2>2. n = Head(low) /\ low # <<>>
    <3> HIDE DEF low, high
    <3>1. QED  BY <1>1, <1>2, <1>8
  <2> HIDE DEF low, high
  <2>3. Occurs(low, P) = Occurs(lanes'.low, P) + one /\ Occurs(lanes'.low, P) \in Nat
    <3> HIDE DEF n
    <3>1. QED  BY <1>1, <1>5, <1>6, <2>1, <2>2
  <2> HIDE DEF one
  <2>4. InQueue(m) = InQueue(m)' + one /\ InQueue(m)' \in Nat
    BY <1>3, <1>4, <1>5, <2>1, <2>3
  <2>5. QED  BY <2>4 DEF one
<1>9. QED  BY <1>7, <1>8

\* The processing loop.
LEMMA TakePlaces ==
    ASSUME Types, Placed, Take
    PROVE  \E G : Leave(G) /\ Let(G)
<1> DEFINE n == Head(Pending)
<1>1. n \in Msg /\ proc.pc = "idle"  BY Fresh DEF Take
<1>2. UNCHANGED <<output, out, received, inLoop>>  BY DEF Take
<1>3. ~Busy  BY <1>1 DEF Busy
<1>4. ASSUME NEW m \in Msg
      PROVE  /\ InQueue(m) = InQueue(m)' + (IF m = n THEN 1 ELSE 0) /\ InQueue(m)' \in Nat
             /\ InOutput(m)' = InOutput(m) /\ InBatch(m)' = InBatch(m) /\ AtInput(m)' = AtInput(m)
             /\ AtProc(m) = 0
  <2>1. InQueue(m) = InQueue(m)' + (IF m = n THEN 1 ELSE 0) /\ InQueue(m)' \in Nat  BY TakenPlaces
  <2>2. InOutput(m)' = InOutput(m) /\ InBatch(m)' = InBatch(m) /\ AtInput(m)' = AtInput(m)
    BY <1>2, PlacesLeft
  <2>3. AtProc(m) = 0  BY <1>3 DEF AtProc
  <2>4. QED  BY <2>1, <2>2, <2>3
<1>5. CASE IsEvicted(n)
  <2>1. ReleaseOne(n, "unavailable") /\ proc' = proc  BY <1>5 DEF Take
  <2>2. ~Busy'  BY <1>3, <2>1 DEF Busy
  <2> HIDE DEF n
  <2>3. ASSUME NEW m \in Msg
        PROVE  /\ At(m)' = IF m \in {n} THEN 0 ELSE At(m)
               /\ m \in {n} => At(m) # 0
               /\ OnTheWay(m) = 0 => OnTheWay(m)' = 0
    <3>1. AtProc(m)' = 0  BY <2>2 DEF AtProc
    <3>2. QED  BY <1>4, <3>1, PlaceSums
  <2>4. Leave({n})  BY <2>3 DEF Leave
  <2>5. Let({n})  BY <1>1, <2>1, ReleaseOneProperties
  <2>6. QED  BY <2>4, <2>5
<1>6. CASE ~IsEvicted(n)
  <2>1. released' = released /\ n \notin evicted
        /\ proc' = [Idle EXCEPT !.pc = "dispatch", !.msg = n, !.sig = FreshSignal(n)]
    BY <1>6 DEF Take, IsEvicted
  <2>2. Busy' /\ proc'.msg = n  BY <2>1 DEF Busy, Idle
  <2> HIDE DEF n
  <2>3. ASSUME NEW m \in Msg
        PROVE  At(m)' = At(m) /\ (m \in evicted /\ OnTheWay(m) = 0 => OnTheWay(m)' = 0)
    <3>1. AtProc(m)' = IF m = n THEN 1 ELSE 0  BY <2>2 DEF AtProc
    <3>2. At(m)' = At(m)  BY <1>4, <3>1, PlaceSums
    <3>3. m # n => OnTheWay(m)' = OnTheWay(m)  BY <1>4, <3>1, PlaceSums
    <3>4. m \in evicted => m # n  BY <2>1
    <3>5. QED  BY <3>2, <3>3, <3>4
  <2>4. Leave({}) /\ Let({})  BY <2>1, <2>3 DEF Leave, Let
  <2>5. QED  BY <2>4
<1>7. QED  BY <1>5, <1>6

\* A handler that fails the application gives its message up.
LEMMA ThrowPlaces ==
    ASSUME Types, Placed, HandlerThrows
    PROVE  \E G : Leave(G) /\ Let(G)
<1>1. proc.pc = "dispatch" /\ ReleaseOne(proc.msg, "unavailable")
      /\ proc' = [Idle EXCEPT !.pc = "failed"] /\ UNCHANGED <<output, out, received, inLoop, lanes>>
  BY DEF HandlerThrows, NothingStored
<1>2. Busy /\ ~Busy' /\ proc.msg \in Msg  BY <1>1 DEF Busy, Idle, Types, ProcTypes
<1>3. ASSUME NEW m \in Msg
      PROVE  /\ At(m)' = IF m \in {proc.msg} THEN 0 ELSE At(m)
             /\ m \in {proc.msg} => At(m) # 0
             /\ OnTheWay(m) = 0 => OnTheWay(m)' = 0
  <2>1. /\ InQueue(m)' = InQueue(m) /\ InOutput(m)' = InOutput(m) /\ InBatch(m)' = InBatch(m)
        /\ AtInput(m)' = AtInput(m)
    BY <1>1, PlacesLeft
  <2>2. AtProc(m) = (IF m = proc.msg THEN 1 ELSE 0) /\ AtProc(m)' = 0  BY <1>2 DEF AtProc
  <2>3. QED  BY <2>1, <2>2, PlaceSums
<1>4. Leave({proc.msg})  BY <1>3 DEF Leave
<1>5. Let({proc.msg})  BY <1>1, <1>2, ReleaseOneProperties
<1>6. QED  BY <1>4, <1>5

\* A context goes to the output queue, or its message is released.
LEMMA OfferPlaces ==
    ASSUME Types, Placed, Offer
    PROVE  \E G : Leave(G) /\ Let(G)
<1>1. proc.pc = "offer" /\ proc' = Idle /\ UNCHANGED <<out, received, inLoop, lanes>>  BY DEF Offer
<1>2. /\ Busy /\ ~Busy' /\ proc.msg \in Msg /\ proc.context \in Dispatched
      /\ proc.context.msg = proc.msg
  BY <1>1 DEF Busy, Idle, Types, ProcTypes
<1>3. ASSUME NEW m \in Msg
      PROVE  /\ InQueue(m)' = InQueue(m) /\ InBatch(m)' = InBatch(m) /\ AtInput(m)' = AtInput(m)
             /\ AtProc(m) = (IF m = proc.msg THEN 1 ELSE 0) /\ AtProc(m)' = 0
  <2>1. InQueue(m)' = InQueue(m) /\ InBatch(m)' = InBatch(m) /\ AtInput(m)' = AtInput(m)
    BY <1>1, PlacesLeft
  <2>2. AtProc(m) = (IF m = proc.msg THEN 1 ELSE 0) /\ AtProc(m)' = 0  BY <1>2 DEF AtProc
  <2>3. QED  BY <2>1, <2>2
<1>4. CASE Len(output) < OutputCapacity
  <2>1. output' = Append(output, proc.context) /\ released' = released  BY <1>4 DEF Offer
  <2>2. ASSUME NEW m \in Msg
        PROVE  At(m)' = At(m) /\ (OnTheWay(m) = 0 => OnTheWay(m)' = 0)
    <3>1. output \in Seq(Dispatched)  BY DEF Types, QueueTypes
    <3>2. Occurs(output', Of(m)) = Occurs(output, Of(m)) + (IF m = proc.msg THEN 1 ELSE 0)
      BY <1>2, <2>1, <3>1, ContextEnds
    <3>3. InOutput(m)' = InOutput(m) + (IF m = proc.msg THEN 1 ELSE 0)  BY <3>2 DEF InOutput
    <3>4. QED  BY <1>3, <3>3, PlaceSums
  <2>3. Leave({}) /\ Let({})  BY <2>1, <2>2 DEF Leave, Let
  <2>4. QED  BY <2>3
<1>5. CASE ~(Len(output) < OutputCapacity)
  <2>1. output' = output /\ ReleaseOne(proc.msg, "unavailable")  BY <1>5 DEF Offer
  <2>2. ASSUME NEW m \in Msg
        PROVE  /\ At(m)' = IF m \in {proc.msg} THEN 0 ELSE At(m)
               /\ m \in {proc.msg} => At(m) # 0
               /\ OnTheWay(m) = 0 => OnTheWay(m)' = 0
    <3>1. InOutput(m)' = InOutput(m)  BY <2>1, PlacesLeft
    <3>2. QED  BY <1>3, <3>1, PlaceSums
  <2>3. Leave({proc.msg})  BY <2>2 DEF Leave
  <2>4. Let({proc.msg})  BY <1>2, <2>1, ReleaseOneProperties
  <2>5. QED  BY <2>3, <2>4
<1>6. QED  BY <1>4, <1>5

\* The output loop takes a context to the batch it has, or to one of its own.
LEMMA MovedPlaces ==
    ASSUME Types, Placed, output # <<>>, output' = Tail(output),
           out'.batch = Append(out.batch, Head(output)),
           UNCHANGED <<lanes, proc, received, inLoop, released>>
    PROVE  Leave({}) /\ Let({})
<1> DEFINE c == Head(output)
<1>1. output \in Seq(Dispatched) /\ out.batch \in Seq(Dispatched)  BY DEF Types, QueueTypes, OutTypes
<1>2. c \in Dispatched /\ Tail(output) \in Seq(Dispatched)  BY <1>1, SequenceEnds
<1>3. Busy' <=> Busy  BY DEF Busy
<1> HIDE DEF c
<1>4. ASSUME NEW m \in Msg PROVE At(m)' = At(m) /\ OnTheWay(m)' = OnTheWay(m)
  <2>1. InQueue(m)' = InQueue(m) /\ AtProc(m)' = AtProc(m) /\ AtInput(m)' = AtInput(m)
    BY <1>3, PlacesLeft
  <2>2. Occurs(output, Of(m)) = Occurs(output', Of(m)) + (IF m = c.msg THEN 1 ELSE 0)
        /\ Occurs(output', Of(m)) \in Nat
    BY <1>1, <1>2, ContextEnds DEF c
  <2>3. Occurs(out'.batch, Of(m)) = Occurs(out.batch, Of(m)) + (IF m = c.msg THEN 1 ELSE 0)
    BY <1>1, <1>2, ContextEnds DEF c
  <2>4. /\ InOutput(m) = InOutput(m)' + (IF m = c.msg THEN 1 ELSE 0) /\ InOutput(m)' \in Nat
        /\ InBatch(m)' = InBatch(m) + (IF m = c.msg THEN 1 ELSE 0)
    BY <2>2, <2>3 DEF InOutput, InBatch
  <2>5. /\ At(m) = InQueue(m) + InOutput(m) + InBatch(m) + AtProc(m) + AtInput(m) /\ At(m) <= 1
        /\ At(m)' = InQueue(m)' + (InOutput(m)' + InBatch(m)' + AtProc(m)' + AtInput(m)')
        /\ OnTheWay(m) = InOutput(m) + InBatch(m) + AtProc(m) + AtInput(m)
        /\ OnTheWay(m)' = InOutput(m)' + InBatch(m)' + AtProc(m)' + AtInput(m)'
        /\ InQueue(m) \in Nat /\ InOutput(m) \in Nat /\ InBatch(m) \in Nat
        /\ AtProc(m) \in {0, 1} /\ AtInput(m) \in {0, 1}
    BY PlaceSums
  <2>6. CASE m = c.msg  BY SMTT(30), <2>1, <2>4, <2>5, <2>6
  <2>7. CASE m # c.msg  BY <2>1, <2>4, <2>5, <2>7
  <2>8. QED  BY <2>6, <2>7
<1>5. QED  BY <1>4 DEF Leave, Let

\* The contexts of cs leave the batch, and their messages are released.
LEMMA BatchPlaces ==
    ASSUME Types, Placed, NEW cs \in Seq(Dispatched), NEW ds \in Seq(Dispatched), NEW err \in BOOLEAN,
           out.batch = cs \o ds, out'.batch = ds, Release(Outcomes(cs, err)),
           UNCHANGED <<lanes, output, proc, received, inLoop>>
    PROVE  \E G : Leave(G) /\ Let(G)
<1> DEFINE f == Outcomes(cs, err)
           G == DOMAIN f
<1>1. Busy' <=> Busy  BY DEF Busy
<1>2. \A m \in Msg : m \in G <=> Occurs(cs, Of(m)) # 0  BY OutcomesProperties
<1>3. \A m \in G : f[m] # "no"
  <2>1. \A m \in G : f[m] \in {"ok", "nothing", "error"}  BY OutcomesProperties
  <2> HIDE DEF f
  <2>2. QED  BY <2>1
<1>4. Release(f)  OBVIOUS
<1> HIDE DEF f
<1>5. \A m \in Msg : released'[m] = IF m \in DOMAIN f /\ released[m] = "no" THEN f[m] ELSE released[m]
  BY <1>4, ReleaseProperties
<1>6. Let(G)  BY <1>3, <1>5 DEF Let
<1> HIDE DEF G
<1>7. ASSUME NEW m \in Msg
      PROVE  /\ At(m)' = (IF m \in G THEN 0 ELSE At(m)) /\ (m \in G => At(m) # 0)
             /\ OnTheWay(m) = 0 => OnTheWay(m)' = 0
  <2> DEFINE o == Occurs(cs, Of(m))
  <2>1. /\ InQueue(m)' = InQueue(m) /\ InOutput(m)' = InOutput(m)
        /\ AtProc(m)' = AtProc(m) /\ AtInput(m)' = AtInput(m)
    BY <1>1, PlacesLeft
  <2>2. Occurs(cs \o ds, Of(m)) = o + Occurs(ds, Of(m)) /\ o \in Nat /\ Occurs(ds, Of(m)) \in Nat
    BY ContextEnds
  <2>3. InBatch(m) = o + InBatch(m)' /\ InBatch(m)' \in Nat  BY <2>2 DEF InBatch
  <2>4. m \in G <=> o # 0  BY <1>2
  <2>5. o \in Nat  BY <2>2
  <2> HIDE DEF o
  <2>6. /\ At(m) = InQueue(m) + InOutput(m) + InBatch(m) + AtProc(m) + AtInput(m) /\ At(m) <= 1
        /\ At(m)' = InQueue(m)' + (InOutput(m)' + InBatch(m)' + AtProc(m)' + AtInput(m)')
        /\ OnTheWay(m) = InOutput(m) + InBatch(m) + AtProc(m) + AtInput(m)
        /\ OnTheWay(m)' = InOutput(m)' + InBatch(m)' + AtProc(m)' + AtInput(m)'
        /\ InQueue(m) \in Nat /\ InOutput(m) \in Nat /\ InBatch(m) \in Nat
        /\ AtProc(m) \in {0, 1} /\ AtInput(m) \in {0, 1}
    BY PlaceSums
  <2>7. CASE m \in G  BY <2>1, <2>3, <2>4, <2>5, <2>6, <2>7, SMTT(20)
  <2>8. CASE m \notin G  BY <2>1, <2>3, <2>4, <2>5, <2>6, <2>8
  <2>9. QED  BY <2>7, <2>8
<1>8. Leave(G)  BY <1>7 DEF Leave
<1>9. QED  BY <1>6, <1>8

\* A message is put back into the input queue; if that is closed and full, an
\* application that goes on has released everything.
LEMMA PutBackPlaces ==
    ASSUME Types, Placed, Continued, PutBack
    PROVE  \E G : Leave(G) /\ (GoesOn => Let(G))
<1> DEFINE batch == out.batch
           c == Head(batch)
           n == c.msg
<1>1. /\ batch \in Seq(Dispatched) /\ batch # <<>> /\ out.pc \in {"skip", "requeue"}
      /\ (out.pc = "skip" => Len(batch) = 1)
      /\ UNCHANGED <<output, proc, received, inLoop>>
      /\ out = [pc |-> out.pc, batch |-> out.batch, waited |-> out.waited, repro |-> out.repro,
                sigs |-> out.sigs]
  BY DEF PutBack, Types, OutTypes
<1>2. c \in Dispatched /\ Tail(batch) \in Seq(Dispatched)  BY <1>1, SequenceEnds
<1>3. n \in Msg  BY <1>2 DEF Dispatched, Contexts
<1>4. Busy' <=> Busy  BY <1>1 DEF Busy
<1>5. out'.batch = Tail(batch)
  <2>1. CASE Len(batch) > 1
    <3>1. out' = [out EXCEPT !.batch = Tail(batch)]  BY <2>1 DEF PutBack
    <3>2. QED  BY <1>1, <3>1
  <2>2. CASE ~(Len(batch) > 1)
    <3>1. out'.batch = <<>>  BY <2>2 DEF PutBack, Empty
    <3>2. Tail(batch) = <<>>
      <4> HIDE DEF batch
      <4>1. QED  BY <1>1, <2>2
    <3>3. QED  BY <3>1, <3>2
  <2>3. QED  BY <2>1, <2>2
<1> HIDE DEF batch, c
<1>6. ASSUME NEW m \in Msg
      PROVE  /\ InOutput(m)' = InOutput(m) /\ AtProc(m)' = AtProc(m) /\ AtInput(m)' = AtInput(m)
             /\ InBatch(m) = InBatch(m)' + (IF m = n THEN 1 ELSE 0) /\ InBatch(m)' \in Nat
  <2>1. InOutput(m)' = InOutput(m) /\ AtProc(m)' = AtProc(m) /\ AtInput(m)' = AtInput(m)
    BY <1>1, <1>4, PlacesLeft
  <2>2. Occurs(batch, Of(m)) = Occurs(Tail(batch), Of(m)) + (IF m = n THEN 1 ELSE 0)
        /\ Occurs(Tail(batch), Of(m)) \in Nat
    BY <1>1, <1>2, ContextEnds DEF c
  <2>3. InBatch(m) = Occurs(batch, Of(m)) /\ InBatch(m)' = Occurs(Tail(batch), Of(m))
    BY <1>5 DEF InBatch, batch
  <2>4. QED  BY <2>1, <2>2, <2>3
<1> HIDE DEF n
<1>7. CASE Push("high", n) /\ released' = released
  <2>1. ASSUME NEW m \in Msg
        PROVE  At(m)' = At(m) /\ (OnTheWay(m) = 0 => OnTheWay(m)' = 0)
    <3>1. InQueue(m)' = InQueue(m) + (IF m = n THEN 1 ELSE 0)  BY <1>3, <1>7, PushedPlaces
    <3>2. QED  BY <1>6, <3>1, PlaceSums
  <2>2. Leave({}) /\ Let({})  BY <1>7, <2>1 DEF Leave, Let
  <2>3. QED  BY <2>2
<1>8. CASE /\ Refused /\ lanes' = lanes
           /\ ReleaseOne(IF out.pc = "skip" THEN n ELSE Last(batch).msg, "error")
  <2>1. ASSUME NEW m \in Msg
        PROVE  /\ At(m)' = IF m \in {n} THEN 0 ELSE At(m)
               /\ m \in {n} => At(m) # 0
               /\ OnTheWay(m) = 0 => OnTheWay(m)' = 0
    <3>1. InQueue(m)' = InQueue(m)  BY <1>8, PlacesLeft
    <3>2. QED  BY <1>6, <3>1, PlaceSums
  <2>2. Leave({n})  BY <2>1 DEF Leave
  <2>3. ASSUME GoesOn PROVE FALSE
    <3>1. At(n) # 0
      <4>1. InBatch(n) # 0  BY <1>3, <1>6
      <4>2. QED  BY <1>3, <4>1, PlaceSums
    <3>2. n \in 1..received
      <4>1. n \in Nat /\ n >= 1 /\ received \in Nat  BY <1>3, ConstantsFacts DEF Msg, Types, QueueTypes
      <4>2. ~(n > received)  BY <1>3, <3>1 DEF Placed
      <4>3. QED  BY <4>1, <4>2
    <3>3. released[n] # "no"  BY <1>8, <2>3, <3>2 DEF Continued, Refused
    <3>4. At(n) = 1
      <4>1. At(n) <= 1 /\ At(n) \in Nat  BY <1>3, PlaceSums
      <4>2. QED  BY <3>1, <4>1
    <3>5. QED  BY <1>3, <2>3, <3>3, <3>4 DEF Continued
  <2>4. QED  BY <2>2, <2>3
<1>9. QED  BY <1>7, <1>8 DEF PutBack, batch, c, n

\* Every step but that of the source releases the messages that leave their
\* places, if the application goes on.
LEMMA PlacesStep ==
    ASSUME Types, Placed, Continued, [Next]_vars
    PROVE  Receive \/ (received' = received /\ \E G : Leave(G) /\ (GoesOn => Let(G)))
<1> DEFINE Good1 == \E G : Leave(G) /\ (GoesOn => Let(G))
<1>1. ASSUME \E G : Leave(G) /\ Let(G) PROVE Good1  BY <1>1
<1>2. out = [pc |-> out.pc, batch |-> out.batch, waited |-> out.waited, repro |-> out.repro,
             sigs |-> out.sigs]
      /\ proc = [pc |-> proc.pc, msg |-> proc.msg, sig |-> proc.sig, context |-> proc.context]
      /\ out.batch \in Seq(Dispatched) /\ output \in Seq(Dispatched)
  BY DEF Types, OutTypes, ProcTypes, QueueTypes
<1>3. received' = received \/ Receive
  BY InputFrame DEF ResumeReceive, SourceEnds, CloseInput
<1> SUFFICES Receive \/ Good1  BY <1>3
<1> HIDE DEF Good1
<1>4. ASSUME lanes' = lanes, output' = output, out'.batch = out.batch, Busy' <=> Busy,
             Busy => proc'.msg = proc.msg, inLoop' = "blocked" <=> inLoop = "blocked",
             received' = received, released' = released
      PROVE  Good1
  <2>1. Leave({}) /\ Let({})  BY <1>4, Unmoved
  <2>2. QED  BY <1>1, <2>1
<1>5. CASE UNCHANGED vars \/ Over \/ Evict \/ EvictReturns \/ RunFails \/ OtherStores \/ SinkRetries
  <2>1. UNCHANGED <<lanes, output, out, proc, inLoop, received, released>>
    BY <1>5 DEF vars, Over, Evict, EvictReturns, RunFails, OtherStores, SinkRetries
  <2>2. Busy' <=> Busy  BY <2>1 DEF Busy
  <2>3. QED  BY <1>4, <2>1, <2>2
<1>6. CASE SourceEnds \/ CloseInput
  <2>1. /\ UNCHANGED <<lanes, output, out, proc, received, released>>
        /\ inLoop' # "blocked" /\ inLoop # "blocked"
    BY <1>6 DEF SourceEnds, CloseInput
  <2>2. Busy' <=> Busy  BY <2>1 DEF Busy
  <2>3. QED  BY <1>4, <2>1, <2>2
<1>7. CASE Handle \/ HandleNothing
  <2>1. \E c : proc' = [proc EXCEPT !.pc = "offer", !.context = c]
    BY Zenon, <1>7 DEF Handle, HandleNothing
  <2>2. proc'.pc = "offer" /\ proc'.msg = proc.msg /\ proc.pc = "dispatch"
    BY Zenon, <1>2, <1>7, <2>1 DEF Handle, HandleNothing, NothingStored
  <2>3. UNCHANGED <<lanes, output, out, inLoop, received, released>>
    BY Zenon, <1>7 DEF Handle, HandleNothing
  <2>4. Busy' /\ Busy  BY <2>2 DEF Busy
  <2>5. QED  BY <1>4, <2>2, <2>3, <2>4
<1>8. CASE ProcessingEnds
  <2>1. UNCHANGED <<lanes, output, out, inLoop, received, released>> /\ ~Busy /\ ~Busy'
    BY <1>2, <1>8 DEF ProcessingEnds, Busy
  <2>2. QED  BY <1>4, <2>1
<1>9. CASE Lingered
  <2>1. AddToBatch(out.batch, TRUE, output) /\ UNCHANGED <<lanes, output, proc, inLoop, received, released>>
    BY <1>9 DEF Lingered
  <2>2. out'.batch = out.batch  BY <2>1 DEF AddToBatch, Empty
  <2>3. Busy' <=> Busy  BY <2>1 DEF Busy
  <2>4. QED  BY <1>4, <2>1, <2>2, <2>3
<1>10. CASE OutputEnds
  <2>1. out'.batch = out.batch /\ UNCHANGED <<lanes, output, proc, inLoop, received, released>>
    BY <1>2, <1>10 DEF OutputEnds
  <2>2. Busy' <=> Busy  BY <2>1 DEF Busy
  <2>3. QED  BY <1>4, <2>1, <2>2
<1>11. CASE TakeOutput \/ Skip
  <2> DEFINE c == Head(output)
  <2>1. /\ output # <<>> /\ output' = Tail(output)
        /\ UNCHANGED <<lanes, proc, inLoop, received, released>>
    BY <1>11 DEF TakeOutput, Skip
  <2>2. out'.batch = Append(out.batch, c)
    <3>1. CASE TakeOutput
      <4>1. AddToBatch(Append(out.batch, c), out.waited, Tail(output))  BY <3>1 DEF TakeOutput
      <4>2. QED  BY <4>1 DEF AddToBatch, Empty
    <3>2. CASE Skip
      <4>1. out' = [out EXCEPT !.pc = "skip", !.batch = <<c>>, !.sigs = {c.sig}]
            /\ out.pc = "idle" /\ out.repro # 0
        BY <3>2 DEF Skip, Skips
      <4>2. out.batch = <<>>  BY <4>1 DEF Types, OutTypes
      <4>3. out'.batch = <<c>>  BY <1>2, <4>1
      <4>4. QED  BY <4>2, <4>3
    <3>3. QED  BY <1>11, <3>1, <3>2
  <2>3. Leave({}) /\ Let({})  BY <2>1, <2>2, MovedPlaces
  <2>4. QED  BY <1>1, <2>3
<1>12. CASE SinkBatch \/ SinkFails
  <2>1. /\ \E err \in BOOLEAN : Release(Outcomes(out.batch, err))
        /\ UNCHANGED <<lanes, output, proc, inLoop, received>>
    BY <1>12 DEF SinkBatch, SinkFails
  <2>2. out'.batch = <<>>
    <3>1. CASE SinkBatch  BY <3>1 DEF SinkBatch, Empty
    <3>2. CASE SinkFails
      <4>1. out' = Empty \/ out' = [Empty EXCEPT !.pc = "failed"]  BY <3>2 DEF SinkFails
      <4>2. QED  BY <4>1 DEF Empty
    <3>3. QED  BY <1>12, <3>1, <3>2
  <2>3. out.batch = out.batch \o <<>> /\ <<>> \in Seq(Dispatched)  BY <1>2
  <2>4. \E G : Leave(G) /\ Let(G)  BY <1>2, <2>1, <2>2, <2>3, BatchPlaces
  <2>5. QED  BY <1>1, <2>4
<1>13. CASE Conflict
  <2> DEFINE rest == SubSeq(out.batch, Kept + 1, Len(out.batch))
  <2>1. Release(Outcomes(Processed, FALSE)) /\ UNCHANGED <<lanes, output, proc, inLoop, received>>
        /\ out'.batch = rest
    BY <1>13 DEF Conflict
  <2>2. Processed \in Seq(Dispatched) /\ rest \in Seq(Dispatched) /\ out.batch = Processed \o rest
    BY <1>13, ProcessedProperties
  <2> DEFINE cs == Processed
  <2> HIDE DEF rest, cs
  <2>3. \E G : Leave(G) /\ Let(G)
    <3>1. cs \in Seq(Dispatched) /\ out.batch = cs \o rest /\ Release(Outcomes(cs, FALSE))
      BY <2>1, <2>2 DEF cs
    <3>2. FALSE \in BOOLEAN  OBVIOUS
    <3>3. QED  BY <2>1, <2>2, <3>1, <3>2, BatchPlaces
  <2>4. QED  BY <1>1, <2>3
<1>14. CASE PutBack
  <2>1. QED  BY <1>14, PutBackPlaces DEF Good1
<1>15. CASE ResumeReceive \/ Take \/ HandlerThrows \/ Offer
  <2>1. \E G : Leave(G) /\ Let(G)
    BY <1>15, ResumePlaces, TakePlaces, ThrowPlaces, OfferPlaces
  <2>2. QED  BY <1>1, <2>1
<1>16. QED
  BY <1>5, <1>6, <1>7, <1>8, <1>9, <1>10, <1>11, <1>12, <1>13, <1>14, <1>15
     DEF Next, InputLoop, ProcessingLoop, OutputLoop, Environment

\* A message received is queued, or waits for room.
LEMMA ReceivePlaces ==
    ASSUME Types, Placed, Receive
    PROVE  /\ received + 1 \in Msg /\ received' = received + 1
           /\ \A m \in Msg : At(m)' = At(m) + (IF m = received + 1 THEN 1 ELSE 0)
           /\ \A m \in Msg : m # received + 1 => OnTheWay(m)' = OnTheWay(m)
<1> DEFINE n == received + 1
<1>1. n \in Msg /\ received' = n /\ inLoop = "receive"
  <2>1. received \in 0..Messages /\ Messages \in Nat  BY ConstantsFacts DEF Types, QueueTypes
  <2>2. received < Messages /\ received' = n /\ inLoop = "receive"  BY DEF Receive
  <2>3. QED  BY <2>1, <2>2 DEF Msg
<1>2. UNCHANGED <<output, out, proc>>  BY DEF Receive
<1>3. ASSUME NEW m \in Msg
      PROVE  /\ InOutput(m)' = InOutput(m) /\ InBatch(m)' = InBatch(m) /\ AtProc(m)' = AtProc(m)
             /\ AtInput(m) = 0
  <2>1. Busy' <=> Busy  BY <1>2 DEF Busy
  <2>2. InOutput(m)' = InOutput(m) /\ InBatch(m)' = InBatch(m) /\ AtProc(m)' = AtProc(m)
    BY <1>2, <2>1, PlacesLeft
  <2>3. AtInput(m) = 0  BY <1>1 DEF AtInput
  <2>4. QED  BY <2>2, <2>3
<1>4. CASE Push("low", n) /\ inLoop' = inLoop
  <2>1. ASSUME NEW m \in Msg
        PROVE  At(m)' = At(m) + (IF m = n THEN 1 ELSE 0) /\ OnTheWay(m)' = OnTheWay(m)
    <3>1. InQueue(m)' = InQueue(m) + (IF m = n THEN 1 ELSE 0)
      <4> HIDE DEF n
      <4>1. QED  BY <1>1, <1>4, PushedPlaces
    <3>2. AtInput(m)' = 0  BY <1>1, <1>4 DEF AtInput
    <3> HIDE DEF n
    <3>3. QED  BY <1>3, <3>1, <3>2, PlaceSums
  <2>2. QED  BY <1>1, <2>1
<1>5. CASE inLoop' = "blocked" /\ lanes' = lanes
  <2>1. ASSUME NEW m \in Msg
        PROVE  /\ At(m)' = At(m) + (IF m = n THEN 1 ELSE 0)
               /\ m # n => OnTheWay(m)' = OnTheWay(m)
    <3>1. InQueue(m)' = InQueue(m)  BY <1>5, PlacesLeft
    <3>2. AtInput(m)' = IF m = n THEN 1 ELSE 0  BY <1>1, <1>5 DEF AtInput
    <3> HIDE DEF n
    <3>3. QED  BY <1>3, <3>1, <3>2, PlaceSums
  <2>2. QED  BY <1>1, <2>1
<1>6. QED  BY <1>4, <1>5 DEF Receive

\* A message is in one place at most, and nowhere before it is received.
LEMMA PlacedStep ==
    ASSUME Types, Placed, Continued, [Next]_vars
    PROVE  Placed'
<1>1. CASE Receive
  <2>1. ASSUME NEW m \in Msg PROVE At(m)' <= 1 /\ (m > received' => At(m)' = 0)
    <3>1. received \in Nat /\ m \in Nat  BY ConstantsFacts DEF Types, QueueTypes
    <3>2. At(m) <= 1 /\ (m > received => At(m) = 0)  BY DEF Placed
    <3>3. received' = received + 1 /\ At(m)' = At(m) + (IF m = received + 1 THEN 1 ELSE 0)
      BY <1>1, ReceivePlaces
    <3>4. At(m) \in Nat  BY PlaceSums
    <3>5. QED  BY <3>1, <3>2, <3>3, <3>4
  <2>2. QED  BY <2>1 DEF Placed
<1>2. CASE ~Receive
  <2>1. PICK G : received' = received /\ Leave(G)  BY <1>2, PlacesStep
  <2>2. QED  BY <2>1 DEF Placed, Leave
<1>3. QED  BY <1>1, <1>2

\* What the retriers do in the end is not changed.
LEMMA SettingStep ==
    ASSUME Types, [Next]_vars
    PROVE  /\ faults'.setting = faults.setting
           /\ faults'.handler >= faults.handler /\ faults'.sink >= faults.sink
           /\ SinkRetries \/ SinkFails => faults'.sink # 0
           /\ HandleNothing \/ HandlerThrows => faults'.handler # 0
<1>1. /\ faults \in [handler : Nat, sink : Nat, other : Nat, drop : Nat, setting : Settings]
      /\ faults.handler \in Nat /\ faults.sink \in Nat
  BY DEF Types, StateTypes
<1>2. CASE HandleNothing \/ HandlerThrows
  <2>1. faults' = [faults EXCEPT !.handler = @ + 1]
    BY Zenon, <1>2 DEF HandleNothing, HandlerThrows, NothingStored
  <2>2. proc.pc = "dispatch" /\ out' = out
    BY Zenon, <1>2 DEF HandleNothing, HandlerThrows, NothingStored
  <2>3. ~SinkRetries /\ ~SinkFails
    <3>1. proc' # proc
      <4>1. proc'.pc # "dispatch"
        <5>1. proc = [pc |-> proc.pc, msg |-> proc.msg, sig |-> proc.sig, context |-> proc.context]
          BY DEF Types, ProcTypes
        <5>2. CASE HandleNothing
          <6>1. \E c : proc' = [proc EXCEPT !.pc = "offer", !.context = c]  BY Zenon, <5>2 DEF HandleNothing
          <6>2. QED  BY <5>1, <6>1
        <5>3. CASE HandlerThrows  BY <5>3 DEF HandlerThrows, Idle
        <5>4. QED  BY <1>2, <5>2, <5>3
      <4>2. QED  BY <2>2, <4>1
    <3>2. QED  BY <3>1 DEF SinkRetries, SinkFails
  <2>4. QED  BY <1>1, <2>1, <2>3
<1>3. CASE SinkRetries \/ SinkFails
  <2>1. faults' = [faults EXCEPT !.sink = @ + 1]  BY <1>3 DEF SinkRetries, SinkFails, SomeStored
  <2>2. ~HandleNothing /\ ~HandlerThrows
    <3>1. faults'.sink = faults.sink + 1 /\ faults'.sink # faults.sink  BY <1>1, <2>1
    <3>2. HandleNothing \/ HandlerThrows => faults'.sink = faults.sink
      BY Zenon, <1>1 DEF HandleNothing, HandlerThrows, NothingStored
    <3>3. QED  BY <3>1, <3>2
  <2>3. QED  BY <1>1, <2>1, <2>2
<1>4. CASE ~(HandleNothing \/ HandlerThrows \/ SinkRetries \/ SinkFails)
  <2>1. CASE faults' = faults  BY <1>1, <1>4, <2>1
  <2>2. CASE Handle
    <3>1. faults' = faults \/ faults' = [faults EXCEPT !.drop = @ + 1]  BY <2>2 DEF Handle, Load
    <3>2. QED  BY <1>1, <1>4, <3>1
  <2>3. CASE OtherStores
    <3>1. faults' = [faults EXCEPT !.other = @ + 1]  BY <2>3 DEF OtherStores
    <3>2. QED  BY <1>1, <1>4, <3>1
  <2>4. QED  BY <1>4, <2>1, <2>2, <2>3, StateFrame
<1>5. QED  BY <1>2, <1>3, <1>4

\* What has failed, in an application that goes on: nothing.
LEMMA NothingFails ==
    ASSUME Types, Continued, GoesOn', [Next]_vars
    PROVE  GoesOn /\ ~HandlerThrows /\ proc'.pc # "failed" /\ out'.pc # "failed"
<1>a. GoesOn
  BY SettingStep DEF GoesOn, Faultless, Types, StateTypes
<1>b. ~HandlerThrows /\ (SinkFails => faults.setting.mode = "continue")
  <2>1. /\ faults.setting.mode = "continue" \/ (faults'.handler = 0 /\ faults'.sink = 0)
        /\ faults'.setting = faults.setting
    BY SettingStep DEF GoesOn, Faultless
  <2>2. QED  BY <2>1, SettingStep DEF HandlerThrows, NothingStored
<1>1. out = [pc |-> out.pc, batch |-> out.batch, waited |-> out.waited, repro |-> out.repro,
             sigs |-> out.sigs]
      /\ proc = [pc |-> proc.pc, msg |-> proc.msg, sig |-> proc.sig, context |-> proc.context]
  BY DEF Types, OutTypes, ProcTypes
<1>2. proc.pc # "failed" /\ out.pc # "failed"  BY <1>a DEF Continued
<1>3. proc'.pc # "failed"
  <2>1. CASE proc' = proc  BY <1>2, <2>1
  <2>2. CASE Take
    <3>1. proc' = proc \/ \E m, sig : proc' = [Idle EXCEPT !.pc = "dispatch", !.msg = m, !.sig = sig]
      BY Zenon, <2>2 DEF Take
    <3>2. QED  BY Zenon, <1>2, <3>1 DEF Idle
  <2>3. CASE Handle \/ HandleNothing
    <3>1. \E c : proc' = [proc EXCEPT !.pc = "offer", !.context = c]  BY Zenon, <2>3 DEF Handle, HandleNothing
    <3>2. QED  BY <1>1, <3>1
  <2>4. CASE HandlerThrows  BY <1>b, <2>4
  <2>5. CASE Offer  BY <2>5 DEF Offer, Idle
  <2>6. CASE ProcessingEnds  BY <1>1, <2>6 DEF ProcessingEnds
  <2>7. QED  BY <2>1, <2>2, <2>3, <2>4, <2>5, <2>6, ProcFrame
<1>4. out'.pc # "failed"
  <2>1. CASE out' = out  BY <1>2, <2>1
  <2>2. CASE TakeOutput
    <3>1. AddToBatch(Append(out.batch, Head(output)), out.waited, Tail(output))
      BY <2>2 DEF TakeOutput
    <3>2. QED  BY <3>1 DEF AddToBatch, Empty
  <2>3. CASE Lingered
    <3>1. AddToBatch(out.batch, TRUE, output)  BY <2>3 DEF Lingered
    <3>2. QED  BY <3>1 DEF AddToBatch, Empty
  <2>4. CASE Skip
    <3>1. out' = [out EXCEPT !.pc = "skip", !.batch = <<Head(output)>>, !.sigs = {Head(output).sig}]
      BY <2>4 DEF Skip
    <3>2. QED  BY <1>1, <3>1
  <2>5. CASE SinkBatch  BY <2>5 DEF SinkBatch, Empty
  <2>6. CASE Conflict
    <3>1. out'.pc = "requeue"  BY <2>6 DEF Conflict
    <3>2. QED  BY <3>1
  <2>7. CASE PutBack
    <3>1. CASE Len(out.batch) > 1
      <4>1. out' = [out EXCEPT !.batch = Tail(@)]  BY <2>7, <3>1 DEF PutBack
      <4>2. QED  BY <1>1, <1>2, <4>1
    <3>2. CASE ~(Len(out.batch) > 1)
      <4>1. out'.pc \in {"done", "idle"}  BY <2>7, <3>2 DEF PutBack, Empty
      <4>2. QED  BY <4>1
    <3>3. QED  BY <3>1, <3>2
  <2>8. CASE SinkFails  BY <1>b, <2>8 DEF SinkFails, Empty
  <2>9. CASE OutputEnds  BY <1>1, <2>9 DEF OutputEnds
  <2>10. QED  BY <2>1, <2>2, <2>3, <2>4, <2>5, <2>6, <2>7, <2>8, <2>9, OutFrame
<1>5. QED  BY <1>a, <1>b, <1>3, <1>4

\* An application that goes on closes its queues when all is released.
LEMMA ContinuedStep ==
    ASSUME Types, Placed, Continued, [Next]_vars
    PROVE  Continued'
<1> SUFFICES ASSUME GoesOn'
             PROVE  /\ closed'.output => closed'.input
                    /\ closed'.input => inLoop' = "done"
                    /\ inLoop' \in {"drain", "done"} => \A m \in 1..received' : released'[m] # "no"
                    /\ "failed" \notin {proc'.pc, out'.pc}
                    /\ \A m \in Msg : released'[m] = "no" <=> At(m)' = 1 \/ m > received'
  BY DEF Continued
<1>1. GoesOn /\ ~HandlerThrows  BY NothingFails
<1>2. /\ closed.output => closed.input
      /\ closed.input => inLoop = "done"
      /\ inLoop \in {"drain", "done"} => \A m \in 1..received : released[m] # "no"
      /\ proc.pc # "failed" /\ out.pc # "failed"
      /\ \A m \in Msg : released[m] = "no" <=> At(m) = 1 \/ m > received
  BY <1>1 DEF Continued
<1>3. proc'.pc # "failed" /\ out'.pc # "failed"  BY NothingFails
<1>4. received \in Nat /\ \A m \in Msg : m \in Nat  BY ConstantsFacts DEF Types, QueueTypes
<1>5. \A m \in Msg : released'[m] = "no" <=> At(m)' = 1 \/ m > received'
  <2>1. CASE Receive
    <3>1. received' = received + 1 /\ \A m \in Msg : At(m)' = At(m) + (IF m = received + 1 THEN 1 ELSE 0)
      BY <2>1, ReceivePlaces
    <3>2. released' = released  BY <2>1 DEF Receive
    <3>3. ASSUME NEW m \in Msg PROVE released'[m] = "no" <=> At(m)' = 1 \/ m > received'
      <4>1. CASE m = received + 1
        <5>1. At(m) = 0 /\ m > received  BY <1>4, <4>1 DEF Placed
        <5>2. QED  BY <1>2, <3>1, <3>2, <4>1, <5>1
      <4>2. CASE m # received + 1
        <5>1. At(m)' = At(m)
          <6>1. At(m) \in Nat  BY PlaceSums
          <6>2. QED  BY <3>1, <4>2, <6>1
        <5>2. m > received <=> m > received'  BY <1>4, <3>1, <4>2
        <5>3. QED  BY <1>2, <3>2, <5>1, <5>2
      <4>3. QED  BY <4>1, <4>2
    <3>4. QED  BY <3>3
  <2>2. CASE ~Receive
    <3>1. PICK G : received' = received /\ Leave(G) /\ Let(G)  BY <1>1, <2>2, PlacesStep
    <3>2. ASSUME NEW m \in Msg PROVE released'[m] = "no" <=> At(m)' = 1 \/ m > received'
      <4>1. CASE m \in G
        <5>1. released'[m] # "no" /\ At(m)' = 0 /\ At(m) # 0  BY <3>1, <4>1 DEF Leave, Let
        <5>2. ~(m > received)  BY <5>1 DEF Placed
        <5>3. QED  BY <3>1, <5>1, <5>2
      <4>2. CASE m \notin G
        <5>1. (released'[m] = "no" <=> released[m] = "no") /\ At(m)' = At(m)
          BY <3>1, <4>2 DEF Leave, Let
        <5>2. QED  BY <1>2, <3>1, <5>1
      <4>3. QED  BY <4>1, <4>2
    <3>3. QED  BY <3>2
  <2>3. QED  BY <2>1, <2>2
<1>6. ASSUME inLoop' \in {"drain", "done"} PROVE \A m \in 1..received' : released'[m] # "no"
  <2>1. CASE Receive
    <3>1. inLoop = "receive" /\ inLoop' \in {"receive", "blocked"}  BY <2>1 DEF Receive
    <3>2. QED  BY <1>6, <3>1
  <2>2. CASE ~Receive
    <3>1. PICK G : received' = received /\ Leave(G) /\ Let(G)  BY <1>1, <2>2, PlacesStep
    <3>2. \A m \in 1..received : released[m] # "no"
      <4>1. CASE inLoop' = inLoop  BY <1>2, <1>6, <4>1
      <4>2. CASE ResumeReceive  BY <1>6, <4>2 DEF ResumeReceive
      <4>3. CASE SourceEnds  BY <4>3 DEF SourceEnds
      <4>4. CASE CloseInput  BY <1>2, <4>4 DEF CloseInput
      <4>5. QED  BY <2>2, <4>1, <4>2, <4>3, <4>4, InputFrame
    <3>3. \A m \in 1..received : m \in Msg
      <4>1. received \in 0..Messages /\ Messages \in Nat  BY ConstantsFacts DEF Types, QueueTypes
      <4>2. QED  BY <4>1 DEF Msg
    <3>4. QED  BY <3>1, <3>2, <3>3 DEF Let
  <2>3. QED  BY <2>1, <2>2
<1>7. (closed'.output => closed'.input) /\ (closed'.input => inLoop' = "done")
  <2>1. closed \in [input : BOOLEAN, output : BOOLEAN, late : BOOLEAN]  BY DEF Types, QueueTypes
  <2>2. inLoop = "done" => inLoop' = "done"
    BY InputFrame DEF Receive, ResumeReceive, SourceEnds, CloseInput
  <2>3. CASE closed' = closed  BY <1>2, <2>2, <2>3
  <2>4. CASE CloseInput  BY <1>2, <2>1, <2>4 DEF CloseInput
  <2>5. CASE HandlerThrows  BY <1>1, <2>5
  <2>6. CASE ProcessingEnds  BY <1>2, <2>1, <2>2, <2>6 DEF ProcessingEnds
  <2>7. CASE PutBack
    <3>1. closed' = closed \/ \E b : closed' = [closed EXCEPT !.late = b]
      BY <2>7 DEF PutBack, Remade
    <3>2. closed'.output = closed.output /\ closed'.input = closed.input  BY <2>1, <3>1
    <3>3. QED  BY <1>2, <2>2, <3>2
  <2>8. CASE RunFails  BY <1>2, <2>8 DEF RunFails
  <2>9. QED  BY <2>3, <2>4, <2>5, <2>6, <2>7, <2>8, QueueFrame
<1>8. QED  BY <1>3, <1>5, <1>6, <1>7

-----------------------------------------------------------------------------
(* What is stored.                                                         *)

\* Nothing that is stored is taken back.
LEMMA StoreGrows ==
    ASSUME Types, [Next]_vars, NEW k \in Key
    PROVE  ToSet(store[k]) \subseteq ToSet(store'[k])
<1>1. store \in [Key -> Logs]  BY DEF Types, StateTypes
<1>2. CASE store' = store  BY <1>2
<1>3. ASSUME NEW j \in Key, store' = [store EXCEPT ![j] = Append(@, Other)]
      PROVE  ToSet(store[k]) \subseteq ToSet(store'[k])
  <2>1. \A x \in Logs : \A e \in Msg \cup {Other} : ToSet(Append(x, e)) = ToSet(x) \cup {e}
    BY ToSetAppend DEF Logs
  <2>2. store'[k] = store[k] \/ store'[k] = Append(store[k], Other)  BY <1>1, <1>3
  <2>3. QED  BY <1>1, <2>1, <2>2, ZenonT(30)
<1>4. ASSUME NEW n \in 0..Len(Stored(out.batch)), store' = StoredAfter(n)
      PROVE  ToSet(store[k]) \subseteq ToSet(store'[k])
  BY <1>4, StoredAfterProperties
<1>5. QED  BY <1>2, <1>3, <1>4, StoreStep

\* Only a context with an event that the sink has taken is acknowledged so.
LEMMA NewlyAcknowledged ==
    ASSUME Types, [Next]_vars, NEW m \in Msg, released'[m] = "ok", released[m] # "ok"
    PROVE  \/ SinkBatch /\ \E c \in ToSet(out.batch) : c.msg = m /\ c.does = "store"
           \/ Conflict /\ \E c \in ToSet(Processed) : c.msg = m /\ c.does = "store"
<1>1. out.batch \in Seq(Dispatched)  BY DEF Types, OutTypes
<1>2. ASSUME NEW n, NEW o \in {"unavailable", "error"}, ReleaseOne(n, o) PROVE FALSE
  <2> DEFINE f == [k \in {n} |-> o]
  <2>1. Release(f)  BY <1>2 DEF ReleaseOne
  <2>2. \A k \in DOMAIN f : f[k] = o  OBVIOUS
  <2> HIDE DEF f
  <2>3. released'[m] = IF m \in DOMAIN f /\ released[m] = "no" THEN f[m] ELSE released[m]
    BY <2>1, ReleaseProperties
  <2>4. QED  BY <2>2, <2>3
<1>3. ASSUME NEW cs \in Seq(Dispatched), NEW err \in BOOLEAN, Release(Outcomes(cs, err))
      PROVE  ~err /\ \E c \in ToSet(cs) : c.msg = m /\ c.does = "store"
  <2> DEFINE f == Outcomes(cs, err)
  <2>1. \A n \in DOMAIN f : f[n] = "ok" => ~err /\ \E c \in ToSet(cs) : c.msg = n /\ c.does = "store"
    BY OutcomesProperties
  <2>2. Release(f)  BY <1>3
  <2> HIDE DEF f
  <2>3. released'[m] = IF m \in DOMAIN f /\ released[m] = "no" THEN f[m] ELSE released[m]
    BY <2>2, ReleaseProperties
  <2>4. m \in DOMAIN f /\ f[m] = "ok"  BY <2>3
  <2>5. QED  BY <2>1, <2>4
<1>4. CASE released' = released  BY <1>4
<1>5. CASE ResumeReceive \/ Take \/ HandlerThrows \/ Offer \/ PutBack
  <2>1. released' = released \/ \E n, o : o \in {"unavailable", "error"} /\ ReleaseOne(n, o)
    BY <1>5 DEF ResumeReceive, Take, HandlerThrows, Offer, PutBack
  <2>2. QED  BY <1>2, <1>4, <2>1
<1>6. CASE SinkBatch
  <2>1. Release(Outcomes(out.batch, FALSE))  BY <1>6 DEF SinkBatch
  <2>2. QED  BY <1>1, <1>3, <1>6, <2>1
<1>7. CASE SinkFails
  <2>1. Release(Outcomes(out.batch, TRUE)) /\ TRUE \in BOOLEAN  BY <1>7 DEF SinkFails
  <2>2. QED  BY <1>1, <1>3, <2>1
<1>8. CASE Conflict
  <2>1. Release(Outcomes(Processed, FALSE))  BY <1>8 DEF Conflict
  <2>2. Processed \in Seq(Dispatched)  BY <1>8, ProcessedProperties
  <2>3. QED  BY <1>3, <1>8, <2>1, <2>2
<1>9. QED  BY <1>4, <1>5, <1>6, <1>7, <1>8, BookFrame

\* A message acknowledged without an error has its event in its partition.
LEMMA AcknowledgedStep ==
    ASSUME Types, AcknowledgedIsStored, [Next]_vars
    PROVE  AcknowledgedIsStored'
<1> SUFFICES ASSUME NEW m \in Msg, released'[m] = "ok"
             PROVE  m \in ToSet(store'[KeyOf[m]])
  BY DEF AcknowledgedIsStored
<1>1. KeyOf[m] \in Key  BY ConstantsFacts
<1>2. CASE released[m] = "ok"
  BY <1>1, <1>2, StoreGrows DEF AcknowledgedIsStored
<1>3. CASE released[m] # "ok"
  <2> DEFINE batch == out.batch
             storing == Stored(batch)
             total == Len(storing)
  <2>1. batch \in Seq(Contexts) /\ batch \in Seq(Dispatched)  BY DEF Types, OutTypes, Dispatched
  <2>2. total \in Nat /\ Good \in 0..total /\ Kept \in 0..Good /\ (Good = total => Kept = total)
    BY <2>1, KeptProperties
  <2>3. storing \in Seq(Contexts)
        /\ \A i \in DOMAIN batch : batch[i].does = "store" =>
              \E j \in DOMAIN storing : j <= i /\ storing[j] = batch[i]
    <3> HIDE DEF batch
    <3>1. QED  BY <2>1, StoredProperties
  <2>4. PICK i \in DOMAIN batch : batch[i].msg = m /\ batch[i].does = "store"
                                  /\ (SinkBatch \/ (Conflict /\ i <= Kept))
    <3>1. CASE SinkBatch /\ \E c \in ToSet(batch) : c.msg = m /\ c.does = "store"
      BY <3>1 DEF ToSet
    <3>2. CASE Conflict /\ \E c \in ToSet(Processed) : c.msg = m /\ c.does = "store"
      <4>1. PICK i \in DOMAIN Processed : Processed[i].msg = m /\ Processed[i].does = "store"
        BY <3>2 DEF ToSet
      <4>2. Kept \in Nat /\ Kept < Len(batch)  BY <3>2, ProcessedProperties
      <4> DEFINE kept == Kept
      <4>3. Processed = SubSeq(batch, 1, kept) /\ kept \in Nat /\ kept < Len(batch)
        BY <4>2 DEF Processed
      <4> HIDE DEF kept, batch
      <4>4. i \in 1..kept /\ i \in DOMAIN batch /\ Processed[i] = batch[i]  BY <2>1, <4>1, <4>3
      <4>5. i <= kept  BY <4>3, <4>4
      <4>6. QED  BY <3>2, <4>1, <4>4, <4>5 DEF kept, batch
    <3>3. QED  BY <1>3, <3>1, <3>2, NewlyAcknowledged
  <2>5. PICK j \in DOMAIN storing : j <= i /\ storing[j] = batch[i]  BY <2>3, <2>4
  <2>6. j \in 1..Kept
    <3>1. j \in 1..total  BY <2>3, <2>5
    <3>2. SinkBatch => Kept = total
      <4>1. SinkBatch => Good = total  BY <2>2 DEF SinkBatch, IsConflict
      <4>2. QED  BY <2>2, <4>1
    <3>3. Conflict /\ i <= Kept => j <= Kept
      <4>1. i \in Nat  BY <2>1
      <4> HIDE DEF storing, total
      <4>2. QED  BY <2>2, <2>5, <3>1, <4>1
    <3> HIDE DEF storing, total, batch
    <3>4. QED  BY <2>2, <2>4, <3>1, <3>2, <3>3
  <2>7. store' = StoredAfter(Kept)  BY <2>4 DEF SinkBatch, Conflict
  <2>8. Kept \in 0..total
    <3> HIDE DEF total
    <3>1. QED  BY <2>2
  <2> DEFINE kept == Kept
  <2>9. storing[j].msg \in ToSet(StoredAfter(kept)[KeyOf[storing[j].msg]])
    <3>1. kept \in 0..Len(Stored(out.batch)) /\ j \in 1..kept  BY <2>6, <2>8
    <3> HIDE DEF kept
    <3>2. QED  BY <3>1, StoredAfterProperties
  <2>10. storing[j].msg = m  BY <2>4, <2>5
  <2>11. QED  BY <2>7, <2>9, <2>10
<1>4. QED  BY <1>2, <1>3

-----------------------------------------------------------------------------
(* What is on its way is not stored.                                       *)

\* Whether contexts have an event, at the ends of a sequence and in its parts.
LEMMA StoresEnds ==
    ASSUME NEW cs \in Seq(Dispatched), Stores(cs)
    PROVE  /\ cs # <<>> => Head(cs).does = "store" /\ Stores(Tail(cs))
           /\ \A c \in Dispatched : c.does = "store" => Stores(Append(cs, c))
           /\ \A ds, es \in Seq(Dispatched) : cs = ds \o es => Stores(ds) /\ Stores(es)
<1>1. ASSUME cs # <<>> PROVE Head(cs).does = "store" /\ Stores(Tail(cs))
  <2>1. 1 \in DOMAIN cs /\ Head(cs) = cs[1]  BY <1>1
  <2>2. \A i \in DOMAIN Tail(cs) : i + 1 \in DOMAIN cs /\ Tail(cs)[i] = cs[i + 1]  BY <1>1
  <2>3. QED  BY <2>1, <2>2 DEF Stores
<1>2. ASSUME NEW c \in Dispatched, c.does = "store" PROVE Stores(Append(cs, c))
  <2> DEFINE L == Len(cs)
  <2>1. /\ Len(Append(cs, c)) = L + 1 /\ Append(cs, c)[L + 1] = c
        /\ \A i \in 1..L : Append(cs, c)[i] = cs[i]
        /\ Append(cs, c) \in Seq(Dispatched)
    BY AppendProperties
  <2>2. L \in Nat /\ DOMAIN cs = 1..L /\ DOMAIN Append(cs, c) = 1..(L + 1)  BY <2>1
  <2>3. \A i \in 1..(L + 1) : i \in 1..L \/ i = L + 1  BY <2>2
  <2> HIDE DEF L
  <2>4. QED  BY <1>2, <2>1, <2>2, <2>3 DEF Stores
<1>3. ASSUME NEW ds \in Seq(Dispatched), NEW es \in Seq(Dispatched), cs = ds \o es
      PROVE  Stores(ds) /\ Stores(es)
  <2> DEFINE K == Len(ds)
             L == Len(es)
  <2>1. K \in Nat /\ L \in Nat /\ DOMAIN ds = 1..K /\ DOMAIN es = 1..L  OBVIOUS
  <2>2. /\ Len(ds \o es) = K + L
        /\ \A i \in 1..(K + L) : (ds \o es)[i] = IF i <= K THEN ds[i] ELSE es[i - K]
    BY ConcatProperties
  <2>3. DOMAIN cs = 1..(K + L)  BY <1>3, <2>2
  <2>4. \A i \in 1..(K + L) : cs[i] = IF i <= K THEN ds[i] ELSE es[i - K]  BY <1>3, <2>2
  <2> HIDE DEF K, L
  <2>5. \A i \in 1..K : i \in 1..(K + L) /\ i <= K  BY <2>1
  <2>6. \A i \in 1..L : K + i \in 1..(K + L) /\ ~(K + i <= K) /\ (K + i) - K = i  BY <2>1
  <2>7. \A i \in 1..K : ds[i] = cs[i] /\ cs[i].does = "store"  BY <2>3, <2>4, <2>5 DEF Stores
  <2>8. \A i \in 1..L : es[i] = cs[K + i] /\ cs[K + i].does = "store"
    BY <2>3, <2>4, <2>6 DEF Stores
  <2>9. QED  BY <2>1, <2>7, <2>8 DEF Stores
<1>4. QED  BY <1>1, <1>2, <1>3

\* Without a failure, every context that goes on has an event.
LEMMA StoresStep ==
    ASSUME Types, Unstored, [Next]_vars, Faultless'
    PROVE  /\ Faultless /\ ~SinkRetries /\ ~SinkFails /\ ~HandleNothing /\ ~HandlerThrows
           /\ Stores(output') /\ Stores(out'.batch)
           /\ proc'.pc = "offer" => proc'.context.does = "store"
<1>1. /\ faults.handler \in Nat /\ faults.sink \in Nat
      /\ output \in Seq(Dispatched) /\ out.batch \in Seq(Dispatched)
      /\ proc = [pc |-> proc.pc, msg |-> proc.msg, sig |-> proc.sig, context |-> proc.context]
      /\ out = [pc |-> out.pc, batch |-> out.batch, waited |-> out.waited, repro |-> out.repro,
                sigs |-> out.sigs]
  BY DEF Types, StateTypes, QueueTypes, OutTypes, ProcTypes
<1>2. faults'.handler = 0 /\ faults'.sink = 0  BY DEF Faultless
<1>3. Faultless /\ ~SinkRetries /\ ~SinkFails /\ ~HandleNothing /\ ~HandlerThrows
  <2>1. /\ faults'.handler >= faults.handler /\ faults'.sink >= faults.sink
        /\ SinkRetries \/ SinkFails => faults'.sink # 0
        /\ HandleNothing \/ HandlerThrows => faults'.handler # 0
    BY SettingStep
  <2>2. QED  BY <1>1, <1>2, <2>1 DEF Faultless
<1>4. Stores(output) /\ Stores(out.batch) /\ (proc.pc = "offer" => proc.context.does = "store")
  BY <1>3 DEF Unstored
<1>5. output # <<>> => /\ Head(output).does = "store" /\ Stores(Tail(output))
                       /\ Head(output) \in Dispatched
  BY <1>1, <1>4, StoresEnds, SequenceEnds
<1>6. Stores(<<>>)  BY DEF Stores
<1>7. proc'.pc = "offer" => proc'.context.does = "store"
  <2>1. CASE proc' = proc  BY <1>4, <2>1
  <2>2. CASE Take
    <3>1. proc' = proc \/ \E m, sig : proc' = [Idle EXCEPT !.pc = "dispatch", !.msg = m, !.sig = sig]
      BY Zenon, <2>2 DEF Take
    <3>2. QED  BY Zenon, <1>4, <3>1 DEF Idle
  <2>3. CASE Handle
    <3>1. \E state : proc' = [proc EXCEPT !.pc = "offer", !.context = Context(state, "store")]
      BY Zenon, <2>3 DEF Handle
    <3>2. QED  BY <1>1, <3>1 DEF Context
  <2>4. CASE Offer  BY <2>4 DEF Offer, Idle
  <2>5. CASE ProcessingEnds
    <3>1. proc' = [proc EXCEPT !.pc = "done"]  BY <2>5 DEF ProcessingEnds
    <3>2. QED  BY <1>1, <3>1
  <2>6. QED  BY <1>3, <2>1, <2>2, <2>3, <2>4, <2>5, ProcFrame
<1>8. Stores(output')
  <2>1. CASE output' = output  BY <1>4, <2>1
  <2>2. CASE Offer
    <3>1. output' = output \/ output' = Append(output, proc.context)  BY <2>2 DEF Offer
    <3>2. proc.context \in Dispatched /\ proc.context.does = "store"
      BY <1>4, <2>2 DEF Offer, Types, ProcTypes
    <3>3. QED  BY <1>1, <1>4, <3>1, <3>2, StoresEnds
  <2>3. CASE TakeOutput \/ Skip
    <3>1. output' = Tail(output) /\ output # <<>>  BY <2>3 DEF TakeOutput, Skip
    <3>2. QED  BY <1>5, <3>1
  <2>4. QED  BY <2>1, <2>2, <2>3, QueueFrame
<1>9. Stores(out'.batch)
  <2>1. CASE out' = out  BY <1>4, <2>1
  <2>2. CASE TakeOutput
    <3>1. AddToBatch(Append(out.batch, Head(output)), out.waited, Tail(output)) /\ output # <<>>
      BY <2>2 DEF TakeOutput
    <3>2. out'.batch = Append(out.batch, Head(output))  BY <3>1 DEF AddToBatch, Empty
    <3>3. QED  BY <1>1, <1>4, <1>5, <3>1, <3>2, StoresEnds
  <2>3. CASE Skip
    <3>1. out' = [out EXCEPT !.pc = "skip", !.batch = <<Head(output)>>, !.sigs = {Head(output).sig}]
          /\ output # <<>>
      BY <2>3 DEF Skip
    <3>2. out'.batch = <<Head(output)>>  BY <1>1, <3>1
    <3>3. QED  BY <1>5, <3>1, <3>2 DEF Stores
  <2>4. CASE Lingered
    <3>1. AddToBatch(out.batch, TRUE, output)  BY <2>4 DEF Lingered
    <3>2. out'.batch = out.batch  BY <3>1 DEF AddToBatch, Empty
    <3>3. QED  BY <1>4, <3>2
  <2>5. CASE SinkBatch  BY <1>6, <2>5 DEF SinkBatch, Empty
  <2>6. CASE Conflict
    <3> DEFINE rest == SubSeq(out.batch, Kept + 1, Len(out.batch))
               cs == Processed
    <3>1. out'.batch = rest  BY <2>6 DEF Conflict
    <3>2. cs \in Seq(Dispatched) /\ rest \in Seq(Dispatched) /\ out.batch = cs \o rest
      BY <2>6, ProcessedProperties
    <3> HIDE DEF rest, cs
    <3>3. QED  BY <1>1, <1>4, <3>1, <3>2, StoresEnds
  <2>7. CASE PutBack
    <3>1. CASE Len(out.batch) > 1
      <4>1. out' = [out EXCEPT !.batch = Tail(@)] /\ out.batch # <<>>  BY <2>7, <3>1 DEF PutBack
      <4>2. out'.batch = Tail(out.batch)  BY <1>1, <4>1
      <4>3. QED  BY <1>1, <1>4, <4>1, <4>2, StoresEnds
    <3>2. CASE ~(Len(out.batch) > 1)
      <4>1. out'.batch = <<>>  BY <2>7, <3>2 DEF PutBack, Empty
      <4>2. QED  BY <1>6, <4>1
    <3>3. QED  BY <3>1, <3>2
  <2>8. CASE OutputEnds
    <3>1. out'.batch = out.batch  BY <1>1, <2>8 DEF OutputEnds
    <3>2. QED  BY <1>4, <3>1
  <2>9. QED  BY <1>3, <2>1, <2>2, <2>3, <2>4, <2>5, <2>6, <2>7, <2>8, OutFrame
<1>10. QED  BY <1>3, <1>7, <1>8, <1>9

\* An event that the sink takes is that of a message in the batch, which has then
\* left it.
LEMMA NewlyStored ==
    ASSUME Types, Placed, Stores(out.batch), SinkBatch \/ Conflict, NEW m \in Msg,
           IsStored(m)', ~IsStored(m)
    PROVE  OnTheWay(m) # 0 /\ m <= received /\ At(m)' = 0
<1> DEFINE batch == out.batch
           rest == out'.batch
           kept == Kept
           total == Len(Stored(batch))
<1>1. batch \in Seq(Dispatched) /\ batch \in Seq(Contexts) /\ Len(batch) \in Nat
  BY DEF Types, OutTypes, Dispatched
<1>2. Stored(batch) = batch
  <2> HIDE DEF batch
  <2>1. Stores(batch)  BY DEF batch
  <2>2. (\A i \in DOMAIN batch : batch[i].does = "store") => Stored(batch) = batch
    BY <1>1, StoredProperties
  <2>3. QED  BY <2>1, <2>2 DEF Stores
<1>3. total = Len(batch) /\ kept \in 0..total
  <2>1. total = Len(batch)  BY <1>2
  <2>2. total \in Nat /\ Good \in 0..total /\ kept \in 0..Good  BY <1>1, KeptProperties
  <2> HIDE DEF total, kept
  <2>3. QED  BY <2>1, <2>2
<1>4. store' = StoredAfter(kept)  BY DEF SinkBatch, Conflict
<1>5. PICK i \in 1..kept : batch[i].msg = m
  <2>1. KeyOf[m] \in Key  BY ConstantsFacts
  <2>2. m \in ToSet(StoredAfter(kept)[KeyOf[m]]) /\ m \notin ToSet(store[KeyOf[m]])
    BY <1>4 DEF IsStored
  <2>3. \A k \in Key : \A n \in Msg :
           n \in ToSet(StoredAfter(kept)[k]) =>
               n \in ToSet(store[k]) \/ \E i \in 1..kept : Stored(out.batch)[i].msg = n
    <3> HIDE DEF kept
    <3>1. kept \in 0..Len(Stored(out.batch))  BY <1>3
    <3>2. QED  BY <3>1, StoredAfterProperties
  <2>4. QED  BY <1>2, <2>1, <2>2, <2>3
<1>6. PICK cs \in Seq(Dispatched) : batch = cs \o rest /\ rest \in Seq(Dispatched) /\ i \in DOMAIN cs
  <2>1. CASE SinkBatch
    <3>1. rest = <<>>  BY <2>1 DEF SinkBatch, Empty
    <3>2. i \in DOMAIN batch  BY <1>1, <1>3
    <3> HIDE DEF batch, rest
    <3>3. batch = batch \o rest /\ rest \in Seq(Dispatched)  BY <1>1, <3>1
    <3>4. QED  BY <1>1, <3>2, <3>3
  <2>2. CASE Conflict
    <3> DEFINE cs == Processed
               part == SubSeq(out.batch, kept + 1, Len(out.batch))
    <3>1. rest = part  BY <2>2 DEF Conflict
    <3>2. cs \in Seq(Dispatched) /\ part \in Seq(Dispatched) /\ batch = cs \o part
      BY <2>2, ProcessedProperties
    <3>3. kept \in Nat /\ kept < Len(batch)  BY <2>2, ProcessedProperties
    <3>4. i \in DOMAIN cs
      <4>1. cs = SubSeq(batch, 1, kept)  BY DEF Processed
      <4> HIDE DEF cs, kept, batch
      <4>2. QED  BY <1>1, <3>3, <4>1
    <3> HIDE DEF cs, part, rest, batch
    <3>5. QED  BY <3>1, <3>2, <3>4
  <2>3. QED  BY <2>1, <2>2
<1>7. UNCHANGED <<lanes, output, proc, received, inLoop>>  BY DEF SinkBatch, Conflict
<1> DEFINE o == Occurs(cs, Of(m))
<1>8. o \in Nat /\ o # 0
  <2>1. cs[i] = batch[i]
    <3> HIDE DEF batch, rest
    <3>1. \A x, y \in Seq(Dispatched) : \A j \in DOMAIN x : (x \o y)[j] = x[j]
      OBVIOUS
    <3>2. QED  BY <1>6, <3>1
  <2>2. cs[i] \in ToSet(cs) /\ cs[i].msg = m  BY <1>5, <1>6, <2>1 DEF ToSet
  <2>3. QED  BY <2>2, ContextPlaces, ContextEnds
<1>9. InBatch(m) = o + InBatch(m)' /\ InBatch(m)' \in Nat
  <2> HIDE DEF rest, batch
  <2>1. \A x, y \in Seq(Dispatched) : Occurs(x \o y, Of(m)) = Occurs(x, Of(m)) + Occurs(y, Of(m))
    BY ContextEnds
  <2>2. Occurs(batch, Of(m)) = o + Occurs(rest, Of(m)) /\ Occurs(rest, Of(m)) \in Nat
    BY <1>6, <2>1, ContextEnds
  <2>3. QED  BY <2>2 DEF InBatch, batch, rest
<1>10. Busy' <=> Busy  BY <1>7 DEF Busy
<1>11. /\ InQueue(m)' = InQueue(m) /\ InOutput(m)' = InOutput(m)
       /\ AtProc(m)' = AtProc(m) /\ AtInput(m)' = AtInput(m)
  BY <1>7, <1>10, PlacesLeft
<1> HIDE DEF o
<1>12. /\ At(m) = InQueue(m) + InOutput(m) + InBatch(m) + AtProc(m) + AtInput(m) /\ At(m) <= 1
       /\ At(m)' = InQueue(m)' + (InOutput(m)' + InBatch(m)' + AtProc(m)' + AtInput(m)')
       /\ OnTheWay(m) = InOutput(m) + InBatch(m) + AtProc(m) + AtInput(m)
       /\ InQueue(m) \in Nat /\ InOutput(m) \in Nat /\ InBatch(m) \in Nat
       /\ AtProc(m) \in {0, 1} /\ AtInput(m) \in {0, 1}
  BY PlaceSums
<1>13. At(m) # 0 /\ OnTheWay(m) # 0 /\ At(m)' = 0  BY <1>8, <1>9, <1>11, <1>12, SMTT(20)
<1>14. m <= received
  <2>1. m \in Nat /\ received \in Nat  BY ConstantsFacts DEF Types, QueueTypes
  <2>2. QED  BY <1>13, <2>1 DEF Placed
<1>15. QED  BY <1>13, <1>14

\* Nothing is stored of what has a place or is yet to be received, nor of what
\* was evicted in the queue.
LEMMA UnstoredStep ==
    ASSUME Types, Placed, Continued, Unstored, [Next]_vars
    PROVE  Unstored'
<1> SUFFICES ASSUME Faultless'
             PROVE  /\ Stores(output') /\ Stores(out'.batch)
                    /\ proc'.pc = "offer" => proc'.context.does = "store"
                    /\ \A m \in Msg : At(m)' # 0 \/ m > received' => ~IsStored(m)'
                    /\ \A m \in evicted' : m \in 1..received' /\ ~IsStored(m)' /\ OnTheWay(m)' = 0
  BY DEF Unstored
<1>1. /\ Faultless /\ ~SinkRetries /\ ~SinkFails
      /\ Stores(output') /\ Stores(out'.batch)
      /\ proc'.pc = "offer" => proc'.context.does = "store"
  BY StoresStep
<1>2. /\ Stores(out.batch)
      /\ \A m \in Msg : At(m) # 0 \/ m > received => ~IsStored(m)
      /\ \A m \in evicted : m \in 1..received /\ ~IsStored(m) /\ OnTheWay(m) = 0
  BY <1>1 DEF Unstored
<1>3. received \in 0..Messages /\ Messages \in Nat /\ \A m \in Msg : m \in Nat
  BY ConstantsFacts DEF Types, QueueTypes
<1>4. \A m \in 1..received : m \in Msg  BY <1>3 DEF Msg
<1>5. received' = received \/ received' = received + 1
  BY InputFrame DEF Receive, ResumeReceive, SourceEnds, CloseInput
<1>6. ASSUME NEW m \in Msg
      PROVE  /\ At(m)' # 0 => At(m) # 0 \/ m > received
             /\ m > received' => m > received
             /\ m <= received /\ m \in evicted /\ OnTheWay(m) = 0 => OnTheWay(m)' = 0
  <2>1. CASE Receive
    <3>1. /\ received' = received + 1
          /\ At(m)' = At(m) + (IF m = received + 1 THEN 1 ELSE 0)
          /\ m # received + 1 => OnTheWay(m)' = OnTheWay(m)
      BY <2>1, ReceivePlaces
    <3>2. At(m) \in Nat  BY PlaceSums
    <3>3. m \in Nat /\ received \in Nat  BY <1>3
    <3>4. CASE m = received + 1
      <4>1. m > received /\ ~(m <= received)  BY <3>3, <3>4
      <4>2. QED  BY <4>1
    <3>5. CASE m # received + 1
      <4>1. At(m)' = At(m) /\ OnTheWay(m)' = OnTheWay(m)  BY <3>1, <3>2, <3>5
      <4>2. m > received' => m > received  BY <3>1, <3>3
      <4>3. QED  BY <4>1, <4>2
    <3>6. QED  BY <3>4, <3>5
  <2>2. CASE ~Receive
    <3>1. PICK G : received' = received /\ Leave(G)  BY <2>2, PlacesStep
    <3>2. /\ At(m)' = IF m \in G THEN 0 ELSE At(m)
          /\ m \in evicted /\ OnTheWay(m) = 0 => OnTheWay(m)' = 0
      BY <3>1 DEF Leave
    <3>3. QED  BY <3>1, <3>2
  <2>3. QED  BY <2>1, <2>2
<1>7. ASSUME NEW m \in Msg, IsStored(m)', ~IsStored(m)
      PROVE  OnTheWay(m) # 0 /\ m <= received /\ At(m)' = 0
  <2>1. KeyOf[m] \in Key /\ Other # m  BY ConstantsFacts
  <2>2. CASE store' = store  BY <1>7, <2>2 DEF IsStored
  <2>3. ASSUME NEW k \in Key, store' = [store EXCEPT ![k] = Append(@, Other)] PROVE FALSE
    <3>1. store \in [Key -> Logs]  BY DEF Types, StateTypes
    <3>2. \A x \in Logs : ToSet(Append(x, Other)) = ToSet(x) \cup {Other}
      <4>1. \A x \in Seq(Msg \cup {Other}) : \A e \in Msg \cup {Other} :
               ToSet(Append(x, e)) = ToSet(x) \cup {e}
        BY ToSetAppend
      <4>2. QED  BY <4>1 DEF Logs
    <3>3. store'[KeyOf[m]] = store[KeyOf[m]] \/ store'[KeyOf[m]] = Append(store[KeyOf[m]], Other)
      BY <2>1, <2>3, <3>1
    <3>4. QED  BY <1>7, <2>1, <3>1, <3>2, <3>3 DEF IsStored
  <2>4. CASE SinkBatch \/ Conflict  BY <1>2, <1>7, <2>4, NewlyStored
  <2>5. QED  BY <1>1, <2>2, <2>3, <2>4, StoreStep
<1>8. ASSUME NEW m \in Msg, At(m)' # 0 \/ m > received' PROVE ~IsStored(m)'
  <2>1. CASE IsStored(m)
    <3>1. At(m) = 0 /\ ~(m > received)  BY <1>2, <2>1
    <3>2. QED  BY <1>6, <1>8, <3>1
  <2>2. CASE ~IsStored(m)
    <3> SUFFICES ASSUME IsStored(m)' PROVE FALSE  OBVIOUS
    <3>1. m <= received /\ At(m)' = 0  BY <1>7, <2>2
    <3>2. m > received  BY <1>6, <1>8, <3>1
    <3>3. m \in Nat /\ received \in Nat  BY <1>3
    <3>4. QED  BY <3>1, <3>2, <3>3
  <2>3. QED  BY <2>1, <2>2
<1>9. ASSUME NEW m \in evicted'
      PROVE  m \in 1..received' /\ ~IsStored(m)' /\ OnTheWay(m)' = 0
  <2>1. CASE m \in evicted
    <3>1. m \in 1..received /\ m \in Msg /\ ~IsStored(m) /\ OnTheWay(m) = 0 /\ m <= received
      BY <1>2, <1>3, <1>4, <2>1
    <3>2. m \in 1..received'  BY <1>3, <1>5, <3>1
    <3>3. OnTheWay(m)' = 0  BY <1>6, <2>1, <3>1
    <3>4. ~IsStored(m)'  BY <1>7, <3>1
    <3>5. QED  BY <3>2, <3>3, <3>4
  <2>2. CASE m \notin evicted
    <3>1. Evict  BY <2>2, BookFrame
    <3>2. m \in 1..received /\ m \in ToSet(lanes.low) \cup ToSet(lanes.high)
      BY <2>2, <3>1 DEF Evict
    <3>3. m \in Msg  BY <1>4, <3>2
    <3>4. UNCHANGED <<received, inLoop, lanes, output, proc, out, store>>  BY <3>1 DEF Evict
    <3>5. InQueue(m) # 0
      <4>1. lanes.low \in Seq(Msg) /\ lanes.high \in Seq(Msg)  BY DEF Types, QueueTypes
      <4>2. /\ Occurs(lanes.low, {m}) = 0 <=> \A n \in DOMAIN lanes.low : lanes.low[n] \notin {m}
            /\ Occurs(lanes.high, {m}) = 0 <=> \A n \in DOMAIN lanes.high : lanes.high[n] \notin {m}
        BY <4>1, OccursBounds
      <4>3. Occurs(lanes.low, {m}) # 0 \/ Occurs(lanes.high, {m}) # 0  BY <3>2, <4>2 DEF ToSet
      <4>4. Occurs(lanes.low, {m}) \in Nat /\ Occurs(lanes.high, {m}) \in Nat  BY <3>3, PlaceTypes
      <4>5. QED  BY <4>3, <4>4 DEF InQueue
    <3>6. OnTheWay(m) = 0 /\ At(m) # 0  BY <3>3, <3>5, PlaceSums
    <3>7. OnTheWay(m)' = OnTheWay(m)
      <4>1. Busy' <=> Busy  BY <3>4 DEF Busy
      <4>2. /\ InOutput(m)' = InOutput(m) /\ InBatch(m)' = InBatch(m)
            /\ AtProc(m)' = AtProc(m) /\ AtInput(m)' = AtInput(m)
        BY <3>3, <3>4, <4>1, PlacesLeft
      <4>3. QED  BY <3>3, <4>2, PlaceSums
    <3>8. ~IsStored(m) /\ ~IsStored(m)'
      <4>1. ~IsStored(m)  BY <1>2, <3>3, <3>6
      <4>2. QED  BY <3>4, <4>1 DEF IsStored
    <3>9. QED  BY <3>2, <3>4, <3>6, <3>7, <3>8
  <2>3. QED  BY <2>1, <2>2
<1>10. QED  BY <1>1, <1>8, <1>9

-----------------------------------------------------------------------------
(* The invariant.                                                          *)

\* It holds when the application starts.
LEMMA InitInv == Init => ProcessorInv
<1> SUFFICES ASSUME Init PROVE ProcessorInv  OBVIOUS
<1>1. /\ received = 0 /\ inLoop = "receive" /\ lanes = [low |-> <<>>, high |-> <<>>]
      /\ output = <<>> /\ closed = [input |-> FALSE, output |-> FALSE, late |-> FALSE]
      /\ proc = [pc |-> "idle", msg |-> 0, sig |-> <<0, 0>>, context |-> <<>>]
      /\ out = [pc |-> "idle", batch |-> <<>>, waited |-> FALSE, repro |-> 0, sigs |-> {}]
      /\ cache = [k \in Key |-> {}] /\ repros = <<>> /\ reproOf = [m \in Msg |-> 0]
      /\ signals = {} /\ store = [k \in Key |-> <<>>] /\ released = [m \in Msg |-> "no"]
      /\ evicted = {}
      /\ faults \in [handler : {0}, sink : {0}, other : {0}, drop : {0}, setting : Settings]
  BY DEF Init, Idle, Empty
<1>2. /\ InputCapacity \in Nat \ {0} /\ OutputCapacity \in Nat \ {0} /\ MaxBatch \in Nat \ {0}
      /\ Messages \in Nat /\ Msg \in SUBSET Nat /\ KeyOf \in [Msg -> Key]
  BY ConstantsFacts
<1>3. \A S : <<>> \in Seq(S) /\ Len(<<>>) = 0  OBVIOUS
<1>4. ~Busy  BY <1>1 DEF Busy
<1>5. QueueTypes  BY <1>1, <1>2, <1>3 DEF QueueTypes
<1>6. ProcTypes  BY <1>1, <1>4 DEF ProcTypes
<1>7. OutTypes
  <2> DEFINE ds == Seq(Dispatched)
             sigs == SUBSET (Msg \X {1, 2})
  <2>1. <<>> \in ds /\ {} \in sigs  BY <1>3
  <2> HIDE DEF ds, sigs
  <2>2. out \in [pc : {"idle", "linger", "sink", "skip", "requeue", "done", "failed"},
                 batch : ds, waited : BOOLEAN, repro : Nat, sigs : sigs]
    BY <1>1, <2>1
  <2>3. Len(out.batch) = 0 /\ out.pc = "idle" /\ out.sigs = {} /\ out.batch = <<>>  BY <1>1, <1>3
  <2>4. QED  BY <1>2, <2>2, <2>3 DEF OutTypes, ds, sigs
<1>8. BookTypes  BY <1>1, <1>3 DEF BookTypes
<1>9. StateTypes  BY <1>1, <1>3 DEF StateTypes, Logs
<1>10. SignalTypes  BY <1>1 DEF SignalTypes
<1>11. Types  BY <1>5, <1>6, <1>7, <1>8, <1>9, <1>10 DEF Types
<1>12. ASSUME NEW m \in Msg PROVE At(m) = 0
  <2>1. lanes.low = <<>> /\ lanes.high = <<>> /\ out.batch = <<>>  BY <1>1
  <2>2. Occurs(lanes.low, {m}) = 0 /\ Occurs(lanes.high, {m}) = 0
    <3>1. \A P : Occurs(<<>>, P) = 0
      <4> SUFFICES ASSUME NEW P PROVE Occurs(<<>>, P) = 0  OBVIOUS
      <4>1. <<>> \in Seq(Msg) /\ DOMAIN <<>> = {}  OBVIOUS
      <4>2. QED  BY <4>1, OccursBounds
    <3>2. QED  BY <2>1, <3>1
  <2>3. InOutput(m) = 0 /\ InBatch(m) = 0
    BY <1>1, <2>1, ContextEnds DEF InOutput, InBatch
  <2>4. AtProc(m) = 0 /\ AtInput(m) = 0  BY <1>1, <1>4 DEF AtProc, AtInput
  <2>5. InQueue(m) = 0  BY <2>2 DEF InQueue
  <2>6. QED  BY <2>3, <2>4, <2>5 DEF At, OnTheWay
<1>13. \A m \in Msg : m > received
  <2>1. \A m \in Msg : m \in Nat /\ m > 0  BY <1>2 DEF Msg
  <2>2. QED  BY <1>1, <2>1
<1>14. Placed  BY <1>12 DEF Placed
<1>15. Continued
  <2>1. \A m \in 1..received : released[m] # "no"  BY <1>1
  <2>2. \A m \in Msg : released[m] = "no"  BY <1>1
  <2>3. QED  BY <1>1, <1>13, <2>1, <2>2 DEF Continued
<1>16. AcknowledgedIsStored  BY <1>1 DEF AcknowledgedIsStored
<1>17. Unstored
  <2>1. Stores(output) /\ Stores(out.batch)  BY <1>1 DEF Stores
  <2>2. ASSUME NEW m \in Msg PROVE ~IsStored(m)
    <3>1. store[KeyOf[m]] = <<>>  BY <1>1, <1>2
    <3>2. QED  BY <3>1 DEF IsStored, ToSet
  <2>3. QED  BY <1>1, <2>1, <2>2 DEF Unstored
<1>18. QED  BY <1>11, <1>14, <1>15, <1>16, <1>17 DEF ProcessorInv

\* It is preserved by every step.
LEMMA StepInv == ProcessorInv /\ [Next]_vars => ProcessorInv'
<1> SUFFICES ASSUME ProcessorInv, [Next]_vars PROVE ProcessorInv'  OBVIOUS
<1>1. Types /\ Placed /\ Continued /\ AcknowledgedIsStored /\ Unstored  BY DEF ProcessorInv
<1>2. Types'
  <2>1. QueueTypes'  BY <1>1, QueueStep
  <2>2. ProcTypes'  BY <1>1, ProcStep
  <2>3. OutTypes'  BY <1>1, OutStep
  <2>4. BookTypes'  BY <1>1, BookStep
  <2>5. StateTypes'  BY <1>1, StateStep
  <2>6. SignalTypes'  BY <1>1, SignalStep
  <2>7. QED  BY <2>1, <2>2, <2>3, <2>4, <2>5, <2>6 DEF Types
<1>3. Placed'  BY <1>1, PlacedStep
<1>4. Continued'  BY <1>1, ContinuedStep
<1>5. AcknowledgedIsStored'  BY <1>1, AcknowledgedStep
<1>6. Unstored'  BY <1>1, UnstoredStep
<1>7. QED  BY <1>2, <1>3, <1>4, <1>5, <1>6 DEF ProcessorInv

\* It holds in every state that the processor can reach.
THEOREM ProcessorInvariant == Spec => []ProcessorInv
BY InitInv, StepInv, PTL DEF Spec

-----------------------------------------------------------------------------
(* What follows from it.                                                   *)

\* The types of the state are those of the properties.
LEMMA TypesOK == Types => TypeOK
<1> SUFFICES ASSUME Types PROVE TypeOK  OBVIOUS
<1>1. QueueTypes /\ ProcTypes /\ OutTypes /\ BookTypes /\ StateTypes /\ SignalTypes  BY DEF Types
<1>2. /\ received \in 0..Messages /\ inLoop \in {"receive", "blocked", "drain", "done"}
      /\ lanes \in [low : Seq(Msg), high : Seq(Msg)]
      /\ Len(lanes.low) <= InputCapacity /\ Len(lanes.high) <= InputCapacity
      /\ output \in Seq(Dispatched) /\ Len(output) <= OutputCapacity
      /\ closed \in [input : BOOLEAN, output : BOOLEAN, late : BOOLEAN]
  BY <1>1 DEF QueueTypes
<1>3. \A l \in {"low", "high"} : lanes[l] \in Seq(Msg) /\ Len(lanes[l]) <= InputCapacity  BY <1>2
<1>4. output \in Seq(Contexts)  BY <1>2 DEF Dispatched
<1>5. closed \in [{"input", "output", "late"} -> BOOLEAN]
  <2>1. closed = [input |-> closed.input, output |-> closed.output, late |-> closed.late]
        /\ closed.input \in BOOLEAN /\ closed.output \in BOOLEAN /\ closed.late \in BOOLEAN
    BY <1>2
  <2>2. closed = [l \in {"input", "output", "late"} |-> closed[l]]  BY <2>1
  <2>3. \A l \in {"input", "output", "late"} : closed[l] \in BOOLEAN  BY <2>1
  <2>4. QED  BY <2>2, <2>3
<1>6. proc.pc \in {"idle", "dispatch", "offer", "done", "failed"}  BY <1>1 DEF ProcTypes
<1>7. ASSUME NEW k \in Key PROVE cache[k] \subseteq Logs /\ Cardinality(cache[k]) <= 1
  <2>1. cache[k] \subseteq Logs /\ \A x, y \in cache[k] : x = y  BY <1>1 DEF StateTypes
  <2>2. CASE cache[k] = {}  BY <2>1, <2>2, FS_EmptySet
  <2>3. CASE cache[k] # {}
    <3>1. PICK x : x \in cache[k]  BY <2>3
    <3>2. cache[k] = {x}  BY <2>1, <3>1
    <3>3. Cardinality({x}) = 1  BY FS_Singleton
    <3>4. QED  BY <2>1, <3>2, <3>3
  <2>4. QED  BY <2>2, <2>3
<1>8. /\ out.pc \in {"idle", "linger", "sink", "skip", "requeue", "done", "failed"}
      /\ out.batch \in Seq(Dispatched) /\ Len(out.batch) <= MaxBatch
      /\ out.repro \in Nat /\ out.sigs \subseteq Msg \X {1, 2}
  BY <1>1 DEF OutTypes
<1>9. out.batch \in Seq(Contexts)  BY <1>8 DEF Dispatched
<1>10. /\ out.repro \in 0..Len(repros) /\ reproOf \in [Msg -> 0..Len(repros)]
       /\ released \in [Msg -> {"no", "ok", "nothing", "error", "unavailable"}]
  <2>1. repros \in Seq(Repro) /\ out.repro <= Len(repros)
        /\ reproOf \in [Msg -> 0..Len(repros)]
        /\ released \in [Msg -> {"no", "ok", "nothing", "error", "unavailable"}]
    BY <1>1 DEF BookTypes
  <2>2. Len(repros) \in Nat  BY <2>1
  <2>3. QED  BY <1>8, <2>1, <2>2
<1>11. signals \subseteq Msg \X {1, 2}
  <2>1. SignalsOf(out.batch) \subseteq Msg \X {1, 2}  BY <1>8, ContextPlaces
  <2>2. SignalsOf(output) \subseteq Msg \X {1, 2}  BY <1>2, ContextPlaces
  <2>3. Busy => proc.sig \in Msg \X {1, 2}  BY <1>1 DEF ProcTypes
  <2>4. QED  BY <1>1, <1>8, <2>1, <2>2, <2>3 DEF SignalTypes, Heard
<1>12. store \in [Key -> Logs]  BY <1>1 DEF StateTypes
<1>13. QED
  BY <1>2, <1>3, <1>4, <1>5, <1>6, <1>7, <1>8, <1>9, <1>10, <1>11, <1>12 DEF TypeOK

\* The places of a message are counted alike.
LEMMA PlacesAt ==
    ASSUME Types, NEW m \in Msg
    PROVE  Places(m) = At(m)
<1> DEFINE in(s) == {i \in DOMAIN s : s[i] = m}
           at(s) == {i \in DOMAIN s : s[i].msg = m}
<1>1. lanes.low \in Seq(Msg) /\ lanes.high \in Seq(Msg) /\ output \in Seq(Dispatched)
      /\ out.batch \in Seq(Dispatched)
  BY DEF Types, QueueTypes, OutTypes
<1>2. ASSUME NEW s \in Seq(Msg) PROVE Cardinality(in(s)) = Occurs(s, {m})
  <2>1. in(s) = {i \in DOMAIN s : s[i] \in {m}}  OBVIOUS
  <2>2. QED  BY <2>1 DEF Occurs
<1>3. ASSUME NEW s \in Seq(Dispatched) PROVE Cardinality(at(s)) = Occurs(s, Of(m))
  <2>1. \A i \in DOMAIN s : s[i] \in Dispatched  OBVIOUS
  <2>2. at(s) = {i \in DOMAIN s : s[i] \in Of(m)}  BY <2>1 DEF Of
  <2>3. QED  BY <2>2 DEF Occurs
<1>4. Places(m) = Cardinality(in(lanes.low)) + Cardinality(in(lanes.high)) + Cardinality(at(output))
                  + Cardinality(at(out.batch)) + AtProc(m) + AtInput(m)
  BY DEF Places, AtProc, AtInput, Busy
<1> HIDE DEF in, at
<1>5. Places(m) = Occurs(lanes.low, {m}) + Occurs(lanes.high, {m}) + InOutput(m) + InBatch(m)
                  + AtProc(m) + AtInput(m)
  BY <1>1, <1>2, <1>3, <1>4 DEF InOutput, InBatch
<1>6. At(m) = Occurs(lanes.low, {m}) + Occurs(lanes.high, {m})
              + (InOutput(m) + InBatch(m) + AtProc(m) + AtInput(m))
  BY DEF At, OnTheWay, InQueue
<1>7. QED  BY <1>5, <1>6, PlaceTypes

\* A message is not lost, if the application goes on.
LEMMA NotLost == ProcessorInv => (GoesOn => NoneLost)
<1> SUFFICES ASSUME ProcessorInv, GoesOn, NEW m \in 1..received
             PROVE  Places(m) = IF released[m] = "no" THEN 1 ELSE 0
  BY DEF NoneLost
<1>1. Types /\ Placed /\ Continued  BY DEF ProcessorInv
<1>2. received \in 0..Messages /\ Messages \in Nat  BY <1>1, ConstantsFacts DEF Types, QueueTypes
<1>3. m \in Msg /\ ~(m > received)  BY <1>2 DEF Msg
<1>4. Places(m) = At(m) /\ At(m) <= 1 /\ At(m) \in Nat  BY <1>1, <1>3, PlacesAt, PlaceSums
<1>5. released[m] = "no" <=> At(m) = 1  BY <1>1, <1>3 DEF Continued
<1>6. QED  BY <1>4, <1>5

-----------------------------------------------------------------------------
(* The theorems.                                                           *)

\* Every variable keeps its type, no queue or batch exceeds its capacity, and
\* the cache has one state of a key at most.
THEOREM TypeCorrect == Spec => []TypeOK
<1>1. ProcessorInv => TypeOK  BY TypesOK DEF ProcessorInv
<1>2. QED  BY <1>1, ProcessorInvariant, PTL

\* No message is in two places, or twice in one: neither the queues nor the
\* batch ever duplicate one, also if the application fails.
THEOREM NoneDoubled == Spec => [](\A m \in Msg : Places(m) <= 1)
<1>1. ProcessorInv => \A m \in Msg : Places(m) <= 1
  BY PlacesAt DEF ProcessorInv, Placed
<1>2. QED  BY <1>1, ProcessorInvariant, PTL

\* Until it is released, a message is in one place, and then in none, however
\* often it is put back: unless an error fails the application.
THEOREM NoneIsLost == Spec => [](GoesOn => NoneLost)
<1>1. ProcessorInv => (GoesOn => NoneLost)  BY NotLost
<1>2. QED  BY <1>1, ProcessorInvariant, PTL

\* What the source is told was handled without an error is in the store, also
\* if handlers and sinks fail.
THEOREM AllAcknowledgedIsStored == Spec => []AcknowledgedIsStored
<1>1. ProcessorInv => AcknowledgedIsStored  BY DEF ProcessorInv
<1>2. QED  BY <1>1, ProcessorInvariant, PTL

\* Nothing is stored of a message that was evicted while it was queued, as long
\* as no handler and no sink failed of itself.
THEOREM NoneEvictedIsStored ==
    Spec => [](faults.handler = 0 /\ faults.sink = 0 => EvictedIsNotStored)
<1>1. ProcessorInv => (faults.handler = 0 /\ faults.sink = 0 => EvictedIsNotStored)
  BY DEF ProcessorInv, Unstored, Faultless, EvictedIsNotStored, IsStored
<1>2. QED  BY <1>1, ProcessorInvariant, PTL

-----------------------------------------------------------------------------
(* The order of the messages.  While none was reported in a conflict, the  *)
(* messages in the batch, the output queue, the processing loop, the high  *)
(* lane, the low lane and the input loop form one line, in the order they  *)
(* were received in and after all that is stored.  From a conflict on until *)
(* the message it was reported of is handled again, the line has a piece   *)
(* that is put back: y, at the end of the high lane, and f, which the      *)
(* processing loop has already.                                            *)

Msgs(cs) == [i \in DOMAIN cs |-> cs[i].msg]
Handling == IF Busy THEN <<proc.msg>> ELSE <<>>
Arriving == IF inLoop = "blocked" THEN <<received>> ELSE <<>>
LineOf(f, y, b, o, p, u, l, a) == f \o (y \o (b \o (o \o (p \o (u \o (l \o a))))))

\* The messages of the line go up, and come after all that is stored.
After(m) == m <= received /\ \A k \in Key : \A e \in ToSet(store[k]) : e < m
Follows(l) == Increasing(l) /\ \A m \in ToSet(l) : After(m)
Line(f, y, p, u) == LineOf(f, y, Msgs(out.batch), Msgs(output), p, u, lanes.low, Arriving)
InLine(f, y, p, u) == Follows(Line(f, y, p, u))

\* The message the output loop waits for; taking it drops its state.
at == repros[out.repro].at
Wanted == reproOf[at] = out.repro /\ KeyOf[at] \in repros[out.repro].evict

\* The first message of the batch is the one that is waited for.
Waits ==
    /\ out.pc = "requeue" /\ Head(out.batch).msg = at /\ Wanted
    /\ \A m \in Msg : reproOf[m] = out.repro => m = at

\* The next context that the output loop gets is the one that is waited for.
Returns ==
    /\ out.batch = <<>>
    /\ \/ output # <<>> /\ Head(output).msg = at
       \/ output = <<>> /\ proc.pc = "offer" /\ proc.msg = at

Straight ==
    /\ InLine(<<>>, <<>>, Handling, lanes.high)
    /\ out.repro # 0 => Waits \/ Returns

\* What was put back stands behind what was in the high lane before.
Turned ==
    /\ out.repro # 0 /\ Wanted
    /\ \E u, y \in Seq(Msg) :
        /\ lanes.high = u \o y /\ y # <<>> /\ Head(y) = at
        /\ InLine(<<>>, y, Handling, u)
        /\ \A i \in DOMAIN u : reproOf[u[i]] # out.repro

\* The message that is waited for is about to be handled, on what is stored.
Back ==
    /\ out.repro # 0 /\ proc.pc = "dispatch" /\ proc.msg = at /\ cache[KeyOf[at]] = {}
    /\ InLine(<<at>>, lanes.high, <<>>, <<>>)

\* It was evicted: the output loop puts everything back for ever.
Gone == out.repro # 0 /\ at <= received /\ At(at) = 0

\* The high lane has what is put back: it is empty when a message is taken
\* from the low lane, and all that is then between them fits.
Fits == Len(out.batch) + Len(output) + Len(Handling) + Len(lanes.high) <= MaxBatch + OutputCapacity + 1

\* What is stored was received, and no batch is stored while one is waited for.
InBounds == \A k \in Key : \A e \in ToSet(store[k]) : e <= received
Waiting == out.repro # 0 => out.pc \notin {"linger", "sink"}
Shape == out.pc = "done" \/ Straight \/ Turned \/ Back \/ Gone

\* While nothing fails, what is stored is in order, and what is to be stored
\* forms a line behind it.
Ordered == StoredOnceInOrder /\ InBounds /\ Waiting /\ Fits /\ Shape
OrderInv == Faultless => Ordered

\* While a message is handled, no context that is put back waits for room in the
\* high lane.  One that waits is overtaken if the processing loop takes a message
\* from the low lane before the enqueue is continued: TLC finds that with an
\* input queue of one.
PutBackHasRoom == proc.pc = "dispatch" /\ out.pc \in {"skip", "requeue"} => Room("high")

\* That is so whatever happens if a batch and a full output queue fit in the high
\* lane, or all messages but the one that is handled do.  With the default
\* capacities (ApplicationBuilder.ts:453) it is so unless five thousand
\* contexts that were put back wait in the lane.
RoomToPutBack == MaxBatch + OutputCapacity <= InputCapacity \/ Messages <= InputCapacity + 1

-----------------------------------------------------------------------------
(* What moves along the line.                                              *)

\* The line is a sequence of messages.
LEMMA LineType ==
    ASSUME NEW f \in Seq(Msg), NEW y \in Seq(Msg), NEW b \in Seq(Msg), NEW o \in Seq(Msg),
           NEW p \in Seq(Msg), NEW u \in Seq(Msg), NEW l \in Seq(Msg), NEW a \in Seq(Msg)
    PROVE  LineOf(f, y, b, o, p, u, l, a) \in Seq(Msg)
BY DEF LineOf

\* The first element of a sequence can be moved to the one before it.
Shifts(s, t, r) == t # <<>> => s \o (t \o r) = Append(s, Head(t)) \o (Tail(t) \o r)
LEMMA ShiftHead ==
    ASSUME NEW S, NEW s \in Seq(S), NEW t \in Seq(S), NEW r \in Seq(S)
    PROVE  Shifts(s, t, r)
<1> SUFFICES ASSUME t # <<>> PROVE s \o (t \o r) = Append(s, Head(t)) \o (Tail(t) \o r)
  BY DEF Shifts
<1>1. PICK e \in S : e = Head(t)
  BY HeadTailProperties
<1>2. PICK t1 \in Seq(S) : t1 = Tail(t)
  BY HeadTailProperties
<1>3. PICK s1 \in Seq(S) : s1 = Append(s, e)
  BY AppendProperties
<1>4. s1 \o t1 = s \o t
  BY <1>1, <1>2, <1>3, MoveHead
<1>5. s \o (t \o r) = (s \o t) \o r
  BY ConcatAssociative, SMTT(20)
<1>6. s1 \o (t1 \o r) = (s1 \o t1) \o r
  BY ConcatAssociative
<1> QED BY <1>1, <1>2, <1>3, <1>4, <1>5, <1>6, Zenon

\* An empty part changes nothing.
LEMMA Empties ==
    ASSUME NEW S, NEW s \in Seq(S)
    PROVE  <<>> \o s = s /\ s \o <<>> = s /\ <<>> \in Seq(S)
BY ConcatEmptySeq

\* A sequence is its head and the rest.
LEMMA HeadOnly ==
    ASSUME NEW S, NEW s \in Seq(S), s # <<>>
    PROVE  <<Head(s)>> \o Tail(s) = s /\ <<Head(s)>> \in Seq(S) /\ Tail(s) \in Seq(S) /\ Head(s) \in S
<1>1. Head(s) \in S /\ Tail(s) \in Seq(S) /\ <<>> \in Seq(S)
  BY HeadTailProperties
<1>2. Append(<<>>, Head(s)) \o Tail(s) = <<>> \o s
  BY <1>1, MoveHead
<1>3. Append(<<>>, Head(s)) = <<Head(s)>>
  BY <1>1
<1> QED BY <1>1, <1>2, <1>3, Empties

\* Moving the head of a part of the line to the end of the part before it.
Moves(f, y, b, o, p, u, l, a) ==
    /\ b # <<>> => LineOf(f, y, b, o, p, u, l, a) = LineOf(f, Append(y, Head(b)), Tail(b), o, p, u, l, a)
    /\ o # <<>> => LineOf(f, y, b, o, p, u, l, a) = LineOf(f, y, Append(b, Head(o)), Tail(o), p, u, l, a)
    /\ p # <<>> => LineOf(f, y, b, o, p, u, l, a) = LineOf(f, y, b, Append(o, Head(p)), Tail(p), u, l, a)
    /\ u # <<>> => LineOf(f, y, b, o, p, u, l, a) = LineOf(f, y, b, o, Append(p, Head(u)), Tail(u), l, a)
    /\ l # <<>> => LineOf(f, y, b, o, p, u, l, a) = LineOf(f, y, b, o, p, Append(u, Head(l)), Tail(l), a)
    /\ a # <<>> => LineOf(f, y, b, o, p, u, l, a) = LineOf(f, y, b, o, p, u, Append(l, Head(a)), Tail(a))
    /\ y # <<>> => LineOf(f, y, b, o, p, u, l, a) = LineOf(Append(f, Head(y)), Tail(y), b, o, p, u, l, a)

\* So can the head of every part of the line.
LEMMA LineMoves ==
    ASSUME NEW f \in Seq(Msg), NEW y \in Seq(Msg), NEW b \in Seq(Msg), NEW o \in Seq(Msg),
           NEW p \in Seq(Msg), NEW u \in Seq(Msg), NEW l \in Seq(Msg), NEW a \in Seq(Msg)
    PROVE  Moves(f, y, b, o, p, u, l, a)
<1>1. PICK r1 \in Seq(Msg) : r1 = l \o a
  BY ConcatProperties
<1>2. PICK r2 \in Seq(Msg) : r2 = u \o r1
  BY ConcatProperties
<1>3. PICK r3 \in Seq(Msg) : r3 = p \o r2
  BY ConcatProperties
<1>4. PICK r4 \in Seq(Msg) : r4 = o \o r3
  BY ConcatProperties
<1>5. PICK r5 \in Seq(Msg) : r5 = b \o r4
  BY ConcatProperties
<1>6. \A s, t, r \in Seq(Msg) : Shifts(s, t, r)
  BY ShiftHead
<1>7. /\ Shifts(f, y, r5) /\ Shifts(y, b, r4) /\ Shifts(b, o, r3)
      /\ Shifts(o, p, r2) /\ Shifts(p, u, r1) /\ Shifts(u, l, a)
  BY <1>6
<1>8. a # <<>> => l \o a = Append(l, Head(a)) \o Tail(a)
  BY MoveHead
<1>9. LineOf(f, y, b, o, p, u, l, a) = f \o (y \o r5)
  BY <1>1, <1>2, <1>3, <1>4, <1>5 DEF LineOf
<1> QED BY <1>1, <1>2, <1>3, <1>4, <1>5, <1>7, <1>8, <1>9, Zenon DEF Moves, LineOf, Shifts

\* What joins the line at its end.
Joins(f, y, b, o, p, u, l, m) ==
    /\ LineOf(f, y, b, o, p, u, Append(l, m), <<>>) = Append(LineOf(f, y, b, o, p, u, l, <<>>), m)
    /\ LineOf(f, y, b, o, p, u, l, <<m>>) = Append(LineOf(f, y, b, o, p, u, l, <<>>), m)

\* So does what is received, in the low lane or the input loop.
LEMMA LineEnds ==
    ASSUME NEW f \in Seq(Msg), NEW y \in Seq(Msg), NEW b \in Seq(Msg), NEW o \in Seq(Msg),
           NEW p \in Seq(Msg), NEW u \in Seq(Msg), NEW l \in Seq(Msg), NEW m \in Msg
    PROVE  Joins(f, y, b, o, p, u, l, m)
<1>1. <<m>> \in Seq(Msg) /\ l \o <<m>> = Append(l, m) /\ l \o <<>> = l /\ Append(l, m) \in Seq(Msg)
      /\ Append(l, m) \o <<>> = Append(l, m)
  BY Empties, AppendIsConcat
<1>2. \A s, t \in Seq(Msg) : s \o Append(t, m) = Append(s \o t, m) /\ s \o t \in Seq(Msg)
  BY AppendConcat, SMTT(20)
<1>3. u \o Append(l, m) = Append(u \o l, m) /\ u \o l \in Seq(Msg)
  BY <1>2
<1>4. p \o Append(u \o l, m) = Append(p \o (u \o l), m) /\ p \o (u \o l) \in Seq(Msg)
  BY <1>2, <1>3
<1>5. o \o Append(p \o (u \o l), m) = Append(o \o (p \o (u \o l)), m) /\ o \o (p \o (u \o l)) \in Seq(Msg)
  BY <1>2, <1>4
<1>6. /\ b \o Append(o \o (p \o (u \o l)), m) = Append(b \o (o \o (p \o (u \o l))), m)
      /\ b \o (o \o (p \o (u \o l))) \in Seq(Msg)
  BY <1>2, <1>5
<1>7. /\ y \o Append(b \o (o \o (p \o (u \o l))), m) = Append(y \o (b \o (o \o (p \o (u \o l)))), m)
      /\ y \o (b \o (o \o (p \o (u \o l)))) \in Seq(Msg)
  BY <1>2, <1>6
<1>8. f \o Append(y \o (b \o (o \o (p \o (u \o l)))), m) = Append(f \o (y \o (b \o (o \o (p \o (u \o l))))), m)
  BY <1>2, <1>7
<1>9. LineOf(f, y, b, o, p, u, Append(l, m), <<>>) = Append(f \o (y \o (b \o (o \o (p \o (u \o l))))), m)
  BY <1>1, <1>3, <1>4, <1>5, <1>6, <1>7, <1>8 DEF LineOf
<1>10. LineOf(f, y, b, o, p, u, l, <<m>>) = Append(f \o (y \o (b \o (o \o (p \o (u \o l))))), m)
  BY <1>1, <1>3, <1>4, <1>5, <1>6, <1>7, <1>8 DEF LineOf
<1>11. LineOf(f, y, b, o, p, u, l, <<>>) = f \o (y \o (b \o (o \o (p \o (u \o l)))))
  BY <1>1 DEF LineOf
<1> QED BY <1>9, <1>10, <1>11, Zenon DEF Joins

\* The messages of some contexts.
LEMMA MsgsProperties ==
    ASSUME NEW cs \in Seq(Dispatched)
    PROVE  /\ Msgs(cs) \in Seq(Msg) /\ Len(Msgs(cs)) = Len(cs) /\ (Msgs(cs) = <<>> <=> cs = <<>>)
           /\ DOMAIN Msgs(cs) = DOMAIN cs /\ \A i \in DOMAIN cs : Msgs(cs)[i] = cs[i].msg /\ cs[i].msg \in Msg
           /\ cs # <<>> => Head(Msgs(cs)) = Head(cs).msg /\ Msgs(Tail(cs)) = Tail(Msgs(cs))
<1>1. PICK n \in Nat : n = Len(cs) /\ DOMAIN cs = 1 .. n
  OBVIOUS
<1>2. \A i \in 1 .. n : cs[i] \in Dispatched /\ cs[i].msg \in Msg
  BY <1>1 DEF Dispatched, Contexts
<1>3. PICK m \in [1 .. n -> Msg] : m = Msgs(cs) /\ \A i \in 1 .. n : m[i] = cs[i].msg
  <2>1. Msgs(cs) = [i \in 1 .. n |-> cs[i].msg]
    BY <1>1 DEF Msgs
  <2>2. [i \in 1 .. n |-> cs[i].msg] \in [1 .. n -> Msg]
    BY <1>2
  <2> QED BY <2>1, <2>2
<1>4. m \in Seq(Msg) /\ Len(m) = n /\ DOMAIN m = 1 .. n
  BY <1>1, <1>3
<1>5. m = <<>> <=> cs = <<>>
  BY <1>1, <1>4, EmptySeq
<1>6. cs # <<>> => Head(m) = Head(cs).msg /\ Msgs(Tail(cs)) = Tail(m)
  <2> SUFFICES ASSUME cs # <<>> PROVE Head(m) = Head(cs).msg /\ Msgs(Tail(cs)) = Tail(m)
    OBVIOUS
  <2>1. n \in Nat \ {0} /\ 1 \in 1 .. n
    BY <1>1
  <2>2. Head(m) = m[1] /\ Head(cs) = cs[1]
    BY <1>4, <1>5, SMTT(20)
  <2>3. PICK t \in Seq(Dispatched) : /\ t = Tail(cs) /\ DOMAIN t = 1 .. n - 1
                                     /\ \A i \in 1 .. n - 1 : t[i] = cs[i + 1]
    <3>1. PICK t \in Seq(Dispatched) : t = Tail(cs) /\ Len(t) = Len(cs) - 1 /\ \A i \in 1 .. Len(t) : t[i] = cs[i + 1]
      BY HeadTailProperties, Zenon
    <3>2. Len(t) = n - 1 /\ DOMAIN t = 1 .. n - 1
      BY <1>1, <3>1
    <3> QED BY Zenon, <3>1, <3>2
  <2>4. /\ Tail(m) \in Seq(Msg) /\ Len(Tail(m)) = n - 1
        /\ \A i \in 1 .. n - 1 : Tail(m)[i] = m[i + 1]
    BY <1>4, <1>5, HeadTailProperties
  <2>5. \A i \in 1 .. n - 1 : i + 1 \in 1 .. n
    BY <2>1
  <2>6. PICK x \in Seq(Msg) : x = Tail(m) /\ Len(x) = n - 1 /\ \A i \in 1 .. n - 1 : x[i] = m[i + 1]
    BY <2>4
  <2>7. DOMAIN x = 1 .. n - 1 /\ x = [i \in 1 .. n - 1 |-> x[i]]
    <3>1. PICK k \in Nat : k = n - 1
      BY <2>1
    <3>2. DOMAIN x = 1 .. k
      BY <2>6, <3>1
    <3>3. x = [i \in 1 .. k |-> x[i]]
      BY <3>2
    <3> QED BY <3>1, <3>2, <3>3
  <2>8. \A i \in 1 .. n - 1 : t[i].msg = x[i]
    BY <1>3, <2>3, <2>5, <2>6
  <2>9. Msgs(t) = [i \in 1 .. n - 1 |-> t[i].msg]
    BY <2>3 DEF Msgs
  <2>10. [i \in 1 .. n - 1 |-> t[i].msg] = [i \in 1 .. n - 1 |-> x[i]]
    BY <2>8, Zenon
  <2>11. Msgs(t) = x
    BY <2>7, <2>9, <2>10
  <2>12. m[1] = cs[1].msg
    BY <1>3, <2>1
  <2> QED BY <1>3, <2>2, <2>3, <2>6, <2>11, <2>12
<1> QED BY <1>1, <1>2, <1>3, <1>4, <1>5, <1>6

\* The messages, with one more context.
LEMMA MsgsAppend ==
    ASSUME NEW cs \in Seq(Dispatched), NEW c \in Dispatched
    PROVE  Msgs(Append(cs, c)) = Append(Msgs(cs), c.msg)
<1>1. PICK n \in Nat : n = Len(cs) /\ DOMAIN cs = 1 .. n
  OBVIOUS
<1>2. PICK d \in Seq(Dispatched) : d = Append(cs, c)
  BY AppendProperties
<1>3. DOMAIN d = 1 .. n + 1 /\ (\A i \in 1 .. n : d[i] = cs[i]) /\ d[n + 1] = c
  BY <1>1, <1>2, AppendProperties
<1>4. PICK m \in Seq(Msg) : m = Msgs(cs) /\ Len(m) = n /\ \A i \in 1 .. n : m[i] = cs[i].msg
  BY <1>1, MsgsProperties
<1>5. PICK e \in Msg : e = c.msg
  BY DEF Dispatched, Contexts
<1>6. PICK a \in Seq(Msg) : a = Append(m, e)
  BY AppendProperties
<1>7. Len(a) = n + 1 /\ (\A i \in 1 .. n : a[i] = m[i]) /\ a[n + 1] = e
  BY <1>4, <1>6, AppendProperties
<1>8. PICK x \in Seq(Msg) : x = Msgs(d) /\ Len(x) = n + 1 /\ \A i \in 1 .. n + 1 : x[i] = d[i].msg
  <2>1. Len(d) = n + 1
    BY <1>3
  <2> QED BY <1>3, <2>1, MsgsProperties
<1>9. \A i \in 1 .. n + 1 : x[i] = a[i]
  <2>1. \A i \in 1 .. n + 1 : i \in 1 .. n \/ i = n + 1
    OBVIOUS
  <2> QED BY <1>3, <1>4, <1>5, <1>7, <1>8, <2>1
<1>10. x = a
  BY <1>7, <1>8, <1>9, SeqEqual
<1> QED BY <1>2, <1>4, <1>5, <1>6, <1>8, <1>10

\* What is first of some contexts and what is left.
LEMMA MsgsConcat ==
    ASSUME NEW cs \in Seq(Dispatched), NEW ds \in Seq(Dispatched)
    PROVE  Msgs(cs \o ds) = Msgs(cs) \o Msgs(ds)
<1>1. PICK e \in Seq(Dispatched) : e = cs \o ds
  BY ConcatProperties
<1>2. PICK n \in Nat, k \in Nat : n = Len(cs) /\ k = Len(ds)
  OBVIOUS
<1>3. DOMAIN cs = 1 .. n /\ DOMAIN ds = 1 .. k
  BY <1>2
<1>4. Len(e) = n + k /\ DOMAIN e = 1 .. n + k /\ \A j \in 1 .. n + k : e[j] = IF j <= n THEN cs[j] ELSE ds[j - n]
  BY <1>1, <1>2, ConcatElements
<1>5. PICK a \in Seq(Msg) : a = Msgs(cs) /\ Len(a) = n /\ \A i \in 1 .. n : a[i] = cs[i].msg
  BY <1>2, <1>3, MsgsProperties
<1>6. PICK b \in Seq(Msg) : b = Msgs(ds) /\ Len(b) = k /\ \A i \in 1 .. k : b[i] = ds[i].msg
  BY <1>2, <1>3, MsgsProperties
<1>7. PICK x \in Seq(Msg) : x = Msgs(e) /\ Len(x) = n + k /\ \A i \in 1 .. n + k : x[i] = e[i].msg
  BY <1>4, MsgsProperties
<1>8. PICK z \in Seq(Msg) : z = a \o b
  BY ConcatProperties
<1>9. Len(z) = n + k /\ \A j \in 1 .. n + k : z[j] = IF j <= n THEN a[j] ELSE b[j - n]
  <2>1. /\ Len(a \o b) = Len(a) + Len(b) /\ DOMAIN (a \o b) = 1 .. (Len(a) + Len(b))
        /\ \A j \in 1 .. (Len(a) + Len(b)) : (a \o b)[j] = IF j <= Len(a) THEN a[j] ELSE b[j - Len(a)]
    BY ConcatElements
  <2>2. Len(a) = n /\ Len(b) = k
    BY <1>5, <1>6
  <2> QED BY <1>8, <2>1, <2>2, Zenon
<1>10. \A j \in 1 .. n + k : x[j] = z[j]
  <2>1. TAKE j \in 1 .. n + k
  <2>2. CASE j <= n
    <3>1. j \in 1 .. n
      BY <2>2
    <3> QED BY <1>4, <1>5, <1>7, <1>9, <2>2, <3>1, ZenonT(30)
  <2>3. CASE ~(j <= n)
    <3>1. j - n \in 1 .. k
      BY <2>3
    <3> QED BY <1>4, <1>6, <1>7, <1>9, <2>3, <3>1
  <2> QED BY <2>2, <2>3
<1>11. x = z
  BY <1>7, <1>9, <1>10, SeqEqual
<1> QED BY <1>1, <1>5, <1>6, <1>7, <1>8, <1>11

\* The parts of the line are sequences of messages.
LEMMA LineParts ==
    ASSUME Types
    PROVE  /\ Msgs(out.batch) \in Seq(Msg) /\ Msgs(output) \in Seq(Msg) /\ Handling \in Seq(Msg)
           /\ lanes.high \in Seq(Msg) /\ lanes.low \in Seq(Msg) /\ Arriving \in Seq(Msg) /\ <<>> \in Seq(Msg)
           /\ out.batch \in Seq(Dispatched) /\ output \in Seq(Dispatched) /\ received \in Nat
           /\ out.repro # 0 => out.repro \in DOMAIN repros /\ at \in Msg /\ repros[out.repro] \in Repro
<1>1. /\ out.batch \in Seq(Dispatched) /\ output \in Seq(Dispatched) /\ lanes.high \in Seq(Msg) /\ lanes.low \in Seq(Msg)
      /\ received \in 0 .. Messages /\ Messages \in Nat /\ (inLoop = "blocked" => received # 0)
      /\ Busy => proc.msg \in Msg
      /\ repros \in Seq(Repro) /\ out.repro \in Nat /\ out.repro <= Len(repros)
  BY ConstantsFacts DEF Types, QueueTypes, OutTypes, ProcTypes, BookTypes
<1>2. Handling \in Seq(Msg) /\ <<>> \in Seq(Msg)
  BY <1>1 DEF Handling
<1>3. Arriving \in Seq(Msg)
  <2>1. inLoop = "blocked" => received \in Msg
    BY <1>1 DEF Msg
  <2> QED BY <2>1 DEF Arriving
<1>4. out.repro # 0 => out.repro \in DOMAIN repros
  <2>1. \A n \in Nat : DOMAIN repros = 1 .. Len(repros)
    BY <1>1
  <2> QED BY <1>1, <2>1
<1>5. out.repro # 0 => repros[out.repro] \in Repro /\ at \in Msg
  <2>1. \A i \in DOMAIN repros : repros[i] \in Repro
    BY <1>1
  <2>2. \A r \in Repro : r.at \in Msg
    BY DEF Repro
  <2> QED BY <1>4, <2>1, <2>2 DEF at
<1>6. received \in Nat
  BY <1>1
<1> QED BY <1>1, <1>2, <1>3, <1>4, <1>5, <1>6, MsgsProperties

\* A message is in one place only.
LEMMA OnePlace ==
    ASSUME Types, Placed, NEW m \in Msg
    PROVE  /\ m \in ToSet(lanes.high) \/ m \in ToSet(lanes.low) =>
                /\ m \notin ToSet(Msgs(output)) /\ m \notin ToSet(Msgs(out.batch)) /\ ~(Busy /\ proc.msg = m)
           /\ Busy /\ proc.msg = m => m \notin ToSet(Msgs(output)) /\ m \notin ToSet(Msgs(out.batch))
           /\ At(m) = 0 => /\ m \notin ToSet(Msgs(output)) /\ m \notin ToSet(Msgs(out.batch)) /\ ~(Busy /\ proc.msg = m)
                           /\ m \notin ToSet(lanes.high) /\ m \notin ToSet(lanes.low)
<1>1. At(m) <= 1 /\ At(m) = InQueue(m) + OnTheWay(m) /\ OnTheWay(m) = InOutput(m) + InBatch(m) + AtProc(m) + AtInput(m)
      /\ InQueue(m) = Occurs(lanes.low, {m}) + Occurs(lanes.high, {m})
  BY DEF Placed, At, OnTheWay, InQueue
<1>2. /\ Occurs(lanes.low, {m}) \in Nat /\ Occurs(lanes.high, {m}) \in Nat
      /\ InQueue(m) \in Nat /\ InOutput(m) \in Nat /\ InBatch(m) \in Nat
      /\ AtProc(m) \in {0, 1} /\ AtInput(m) \in {0, 1} /\ OnTheWay(m) \in Nat
  BY PlaceTypes
<1>a. \A s \in Seq(Msg) : m \in ToSet(s) => Occurs(s, {m}) # 0
  <2>1. \A s \in Seq(Msg) : Occurs(s, {m}) = 0 <=> \A n \in DOMAIN s : s[n] \notin {m}
    BY OccursEnds
  <2> QED BY <2>1 DEF ToSet
<1>3. m \in ToSet(lanes.high) => Occurs(lanes.high, {m}) # 0
  BY <1>a, LineParts
<1>4. m \in ToSet(lanes.low) => Occurs(lanes.low, {m}) # 0
  BY <1>a, LineParts
<1>5. ASSUME NEW cs \in Seq(Dispatched), m \in ToSet(Msgs(cs)) PROVE Occurs(cs, Of(m)) # 0
  <2>1. PICK i \in DOMAIN cs : cs[i].msg = m
    BY <1>5, MsgsProperties DEF ToSet
  <2>2. cs[i] \in ToSet(cs)
    BY <2>1 DEF ToSet
  <2> QED BY <2>1, <2>2, ContextPlaces
<1>6. m \in ToSet(Msgs(output)) => InOutput(m) # 0
  BY <1>5, LineParts DEF InOutput
<1>7. m \in ToSet(Msgs(out.batch)) => InBatch(m) # 0
  BY <1>5, LineParts DEF InBatch
<1>8. Busy /\ proc.msg = m => AtProc(m) = 1
  BY DEF AtProc
<1>9. PICK a, b, c, d, e, f \in Nat : /\ a = Occurs(lanes.low, {m}) /\ b = Occurs(lanes.high, {m}) /\ c = InOutput(m)
                                      /\ d = InBatch(m) /\ e = AtProc(m) /\ f = AtInput(m)
  <2>1. AtProc(m) \in Nat /\ AtInput(m) \in Nat
    BY <1>2
  <2> QED BY <1>2, <2>1
<1>10. At(m) = (a + b) + (c + d + e + f) /\ (a + b) + (c + d + e + f) <= 1
  BY <1>1, <1>9
<1>11. /\ a # 0 \/ b # 0 => c = 0 /\ d = 0 /\ e # 1
       /\ e = 1 => c = 0 /\ d = 0
       /\ At(m) = 0 => a = 0 /\ b = 0 /\ c = 0 /\ d = 0 /\ e # 1
  BY <1>10
<1> QED BY <1>3, <1>4, <1>6, <1>7, <1>8, <1>9, <1>11, Zenon

\* The messages are numbers.
LEMMA MsgSeq == \A s \in Seq(Msg) : s \in Seq(Nat)
<1>1. ASSUME NEW s \in Seq(Msg) PROVE s \in Seq(Nat)
  <2>1. PICK n \in Nat : n = Len(s) /\ DOMAIN s = 1 .. n
    OBVIOUS
  <2>2. \A i \in 1 .. n : s[i] \in Msg
    BY <2>1
  <2>3. \A i \in 1 .. n : s[i] \in Nat
    BY <2>2, ConstantsFacts
  <2>4. s = [i \in 1 .. n |-> s[i]]
    BY <2>1
  <2>5. [i \in 1 .. n |-> s[i]] \in [1 .. n -> Nat]
    BY <2>3
  <2>6. s \in [1 .. n -> Nat]
    BY <2>4, <2>5
  <2>7. \A k \in Nat : \A g \in [1 .. k -> Nat] : g \in Seq(Nat)
    OBVIOUS
  <2> QED BY <2>6, <2>7, Zenon
<1> QED BY <1>1

\* A sequence goes up if it is sorted by this relation.
Less == {p \in Nat \X Nat : p[1] < p[2]}
LEMMA IncreasingSorted == \A s \in Seq(Nat) : Increasing(s) <=> SortedBy(s, Less)
<1>1. \A i, j \in Nat : <<i, j>> \in Less <=> i < j
  BY DEF Less
<1>2. ASSUME NEW s \in Seq(Nat) PROVE Increasing(s) <=> SortedBy(s, Less)
  <2>1. \A i \in DOMAIN s : s[i] \in Nat
    OBVIOUS
  <2>2. \A i, j \in DOMAIN s : <<s[i], s[j]>> \in Less <=> s[i] < s[j]
    BY <1>1, <2>1
  <2> QED BY <2>2 DEF Increasing, SortedBy
<1> QED BY <1>2

\* What follows all that is stored does so in both its parts, one after the other.
LEMMA FollowsConcat ==
    ASSUME NEW s \in Seq(Msg), NEW t \in Seq(Msg)
    PROVE  Follows(s \o t) <=> Follows(s) /\ Follows(t) /\ \A a \in ToSet(s), b \in ToSet(t) : a < b
<1>1. s \in Seq(Nat) /\ t \in Seq(Nat)
  BY MsgSeq
<1>2. PICK r \in Seq(Nat) : r = s \o t
  BY <1>1, ConcatProperties
<1>3. ToSet(r) = ToSet(s) \cup ToSet(t)
  BY <1>2, ToSetConcat
<1>4. SortedBy(r, Less) <=> SortedBy(s, Less) /\ SortedBy(t, Less) /\ \A a \in ToSet(s), b \in ToSet(t) : <<a, b>> \in Less
  BY <1>1, <1>2, SortedConcat
<1>5. \A a \in ToSet(s), b \in ToSet(t) : <<a, b>> \in Less <=> a < b
  <2>1. ToSet(s) \subseteq Nat /\ ToSet(t) \subseteq Nat
    BY <1>1 DEF ToSet
  <2>2. \A i, j \in Nat : <<i, j>> \in Less <=> i < j
    BY DEF Less
  <2> QED BY Zenon, <2>1, <2>2
<1>6. /\ Increasing(r) <=> SortedBy(r, Less)
      /\ Increasing(s) <=> SortedBy(s, Less)
      /\ Increasing(t) <=> SortedBy(t, Less)
  BY <1>1, <1>2, IncreasingSorted
<1>7. Follows(r) <=> Follows(s) /\ Follows(t) /\ \A a \in ToSet(s), b \in ToSet(t) : a < b
  BY <1>3, <1>4, <1>5, <1>6, Zenon DEF Follows
<1> QED BY <1>2, <1>7

\* It still does without one of its messages.
LEMMA FollowsWithout ==
    ASSUME NEW s \in Seq(Msg), NEW m \in Msg, NEW t \in Seq(Msg), Follows(s \o (<<m>> \o t))
    PROVE  Follows(s \o t)
<1>0. <<m>> \in Seq(Msg)
  OBVIOUS
<1>1. PICK w \in Seq(Msg) : w = <<m>>
  BY <1>0, Zenon
<1>2. PICK q \in Seq(Msg) : q = w \o t
  BY ConcatProperties
<1>3. Follows(s) /\ Follows(q) /\ \A a \in ToSet(s), b \in ToSet(q) : a < b
  BY <1>1, <1>2, FollowsConcat
<1>4. ToSet(q) = ToSet(w) \cup ToSet(t)
  BY <1>2, ToSetConcat
<1>5. Follows(t)
  BY <1>2, <1>3, FollowsConcat
<1>6. \A a \in ToSet(s), b \in ToSet(t) : a < b
  BY <1>3, <1>4
<1> QED BY <1>3, <1>5, <1>6, FollowsConcat

\* How three sequences are put together does not matter.
Associates(s, t, r) == (s \o t) \o r = s \o (t \o r)
LEMMA AllAssociate == \A s, t, r \in Seq(Msg) : Associates(s, t, r)
<1>1. ASSUME NEW s \in Seq(Msg), NEW t \in Seq(Msg), NEW r \in Seq(Msg) PROVE Associates(s, t, r)
  BY ConcatAssociative DEF Associates
<1> QED BY <1>1

\* So does the line without the message that is handled.
LEMMA LineWithout ==
    ASSUME NEW f \in Seq(Msg), NEW y \in Seq(Msg), NEW b \in Seq(Msg), NEW o \in Seq(Msg),
           NEW m \in Msg, NEW u \in Seq(Msg), NEW l \in Seq(Msg), NEW a \in Seq(Msg),
           Follows(LineOf(f, y, b, o, <<m>>, u, l, a))
    PROVE  Follows(LineOf(f, y, b, o, <<>>, u, l, a))
<1>1. PICK r \in Seq(Msg) : r = u \o (l \o a)
  BY ConcatProperties
<1>3. PICK s \in Seq(Msg) : \A v \in Seq(Msg) : f \o (y \o (b \o (o \o v))) = s \o v
  <2>c. \A x1, x2 \in Seq(Msg) : x1 \o x2 \in Seq(Msg)
    BY ConcatProperties
  <2>1. PICK s1 \in Seq(Msg) : s1 = b \o o
    BY <2>c
  <2>2. PICK s2 \in Seq(Msg) : s2 = y \o s1
    BY <2>c
  <2>3. PICK s3 \in Seq(Msg) : s3 = f \o s2
    BY <2>c
  <2>4. ASSUME NEW v \in Seq(Msg) PROVE f \o (y \o (b \o (o \o v))) = s3 \o v
    <3>0. Associates(b, o, v) /\ Associates(y, s1, v) /\ Associates(f, s2, v)
      BY AllAssociate
    <3>1. PICK v1 \in Seq(Msg) : v1 = o \o v
      BY <2>c
    <3>2. PICK v2 \in Seq(Msg) : v2 = s1 \o v
      BY <2>c
    <3>3. PICK v3 \in Seq(Msg) : v3 = s2 \o v
      BY <2>c
    <3>4. b \o v1 = v2
      BY <2>1, <3>0, <3>1, <3>2 DEF Associates
    <3>5. y \o v2 = v3
      BY <2>2, <3>0, <3>2, <3>3 DEF Associates
    <3>6. f \o v3 = s3 \o v
      BY <2>3, <3>0, <3>3 DEF Associates
    <3> QED BY <3>1, <3>4, <3>5, <3>6, Zenon
  <2> QED BY <2>4
<1>4. \A p \in Seq(Msg) : p \o r \in Seq(Msg) /\ LineOf(f, y, b, o, p, u, l, a) = s \o (p \o r)
  <2>1. \A p \in Seq(Msg) : p \o r \in Seq(Msg)
    BY ConcatProperties
  <2> QED BY <1>1, <1>3, <2>1, Zenon DEF LineOf
<1>5. <<m>> \in Seq(Msg) /\ <<>> \in Seq(Msg) /\ <<>> \o r = r
  BY Empties
<1>6. Follows(s \o (<<m>> \o r))
  BY <1>4, <1>5, Zenon
<1>7. Follows(s \o r)
  BY <1>6, FollowsWithout
<1> QED BY <1>4, <1>5, <1>7, Zenon

\* What follows all that is stored still does when a message is received after
\* it, or another process appends to a partition.
LEMMA FollowsKept ==
    ASSUME NEW l, Follows(l), l \in Seq(Msg), Types, received' \in Nat,
           \/ received' >= received /\ store' = store
           \/ received' = received /\ \E k \in Key : store' = [store EXCEPT ![k] = Append(@, Other)]
    PROVE  Follows(l)'
<1>1. received \in Nat /\ store \in [Key -> Logs] /\ \A m \in ToSet(l) : m \in Nat \ {0}
  <2>1. ToSet(l) \subseteq Msg
    BY DEF ToSet
  <2> QED BY SMTT(30), <2>1, LineParts DEF Types, StateTypes, Msg
<1>2. CASE received' >= received /\ store' = store
  <2>1. ASSUME NEW m \in ToSet(l) PROVE After(m)'
    <3>1. After(m) /\ m \in Nat
      BY <1>1 DEF Follows
    <3>2. received' >= received
      BY <1>1, <1>2
    <3>4. \A i, j, k \in Nat : i <= j /\ k >= j => i <= k
      OBVIOUS
    <3>5. m <= received'
      BY <1>1, <3>1, <3>2, <3>4 DEF After
    <3> QED BY <1>2, <3>1, <3>5 DEF After
  <2> QED BY <2>1 DEF Follows
<1>3. CASE received' = received /\ \E k \in Key : store' = [store EXCEPT ![k] = Append(@, Other)]
  <2>1. PICK k \in Key : store' = [store EXCEPT ![k] = Append(@, Other)]
    BY <1>3
  <2>2. ToSet(store'[k]) = ToSet(store[k]) \cup {Other} /\ \A j \in Key : j # k => store'[j] = store[j]
    <3>1. store'[k] = Append(store[k], Other)
      BY <1>1, <2>1
    <3>2. store[k] \in Seq(Msg \cup {Other}) /\ Other \in Msg \cup {Other}
      BY <1>1 DEF Logs
    <3> QED BY <1>1, <2>1, <3>1, <3>2, ToSetAppend, SMTT(20)
  <2>3. \A m \in ToSet(l) : Other < m
    BY <1>1 DEF Other
  <2>4. \A m \in ToSet(l) : \A j \in Key : \A e \in ToSet(store'[j]) : e < m
    BY <2>2, <2>3 DEF Follows, After
  <2> QED BY <1>3, <2>4 DEF Follows, After
<1> QED BY <1>2, <1>3

\* While a message is on its way, the queues are open.
LEMMA StaysOpen ==
    ASSUME Types, Placed, Continued, GoesOn, NEW m \in Msg, At(m) # 0
    PROVE  ~closed.input /\ ~closed.output /\ m <= received /\ released[m] = "no" /\ At(m) = 1
<1>1. At(m) <= 1 /\ (m > received => At(m) = 0)
  BY DEF Placed
<1>2. At(m) \in Nat
  <2>1. PICK i, j \in Nat : i = InQueue(m) /\ j = OnTheWay(m)
    BY PlaceTypes
  <2> QED BY <2>1 DEF At
<1>3. At(m) = 1
  BY <1>1, <1>2
<1>4. m \in Nat \ {0} /\ received \in Nat
  BY LineParts DEF Msg
<1>5. m <= received /\ m \in 1 .. received
  <2>1. \A i, j \in Nat : ~(i > j) => i <= j
    OBVIOUS
  <2>2. m <= received
    BY <1>1, <1>4, <2>1
  <2> QED BY <1>4, <2>2
<1>6. released[m] = "no"
  BY <1>3 DEF Continued
<1>7. ~closed.input /\ ~closed.output
  BY <1>5, <1>6 DEF Continued
<1> QED BY <1>3, <1>5, <1>6, <1>7

\* What a reprocessing context waits for does not change, and only what takes
\* its message forgets what it is to evict.
LEMMA ReproKept ==
    ASSUME Types, [Next]_vars, NEW r \in DOMAIN repros
    PROVE  /\ r \in DOMAIN repros' /\ repros'[r].at = repros[r].at
           /\ repros[r].evict \subseteq repros'[r].evict \/ (Take /\ r = reproOf[Head(Pending)])
<1>1. repros \in Seq(Repro) /\ repros[r] \in Repro
  BY DEF Types, BookTypes
<1>2. PICK n \in Nat : n = Len(repros) /\ DOMAIN repros = 1 .. n
  BY <1>1
<1>3. CASE repros' = repros
  BY <1>3
<1>4. CASE Take
  <2>1. repros' = repros \/ \E m : /\ m = Head(Pending)
                                   /\ repros' = [s \in DOMAIN repros |-> IF s = reproOf[m] THEN [repros[s] EXCEPT !.evict = {}]
                                                                         ELSE repros[s]]
    BY <1>4 DEF Take
  <2>2. ASSUME NEW m, repros' = [s \in DOMAIN repros |-> IF s = reproOf[m] THEN [repros[s] EXCEPT !.evict = {}] ELSE repros[s]]
        PROVE  /\ r \in DOMAIN repros' /\ repros'[r].at = repros[r].at
               /\ repros'[r].evict = repros[r].evict \/ r = reproOf[m]
    <3>1. DOMAIN repros' = DOMAIN repros /\ repros'[r] = IF r = reproOf[m] THEN [repros[r] EXCEPT !.evict = {}] ELSE repros[r]
      BY <2>2
    <3>2. [repros[r] EXCEPT !.evict = {}].at = repros[r].at
      BY <1>1 DEF Repro
    <3> QED BY <3>1, <3>2
  <2> QED BY <1>4, <2>1, <2>2
<1>5. ASSUME NEW q, NEW c, NEW old, old \in Seq(Repro), r \in DOMAIN old, old[r] = repros[r], SetAside(q, c, old)
      PROVE  r \in DOMAIN repros' /\ repros'[r].at = repros[r].at /\ repros[r].evict \subseteq repros'[r].evict
  <2>1. repros' = [old EXCEPT ![q] = Wrap(@, c)]
    BY <1>5 DEF SetAside
  <2>2. r \in DOMAIN repros' /\ (r # q => repros'[r] = repros[r]) /\ (r = q => repros'[r] = Wrap(repros[r], c))
    BY <1>5, <2>1
  <2>3. Wrap(repros[r], c).at = repros[r].at /\ repros[r].evict \subseteq Wrap(repros[r], c).evict
    BY <1>1 DEF Wrap, Repro
  <2> QED BY <2>2, <2>3
<1>6. CASE Skip \/ (PutBack /\ repros' # repros)
  <2>1. \E q, c : SetAside(q, c, repros)
    BY <1>6 DEF Skip, PutBack
  <2> QED BY <1>1, <1>5, <2>1
<1>7. CASE Conflict
  <2>1. PICK new \in Repro : /\ new = [at |-> out.batch[Kept + 1].msg, seen |-> {}, evict |-> {}]
                             /\ SetAside(Len(repros) + 1, out.batch[Kept + 1], Append(repros, new))
    <3>1. out.batch[Kept + 1].msg \in Msg
      <4>1. Kept + 1 \in DOMAIN out.batch
        BY <1>7, ProcessedProperties
      <4>2. out.batch[Kept + 1] \in Dispatched
        BY <4>1, LineParts
      <4> QED BY <4>2 DEF Dispatched, Contexts
    <3>2. [at |-> out.batch[Kept + 1].msg, seen |-> {}, evict |-> {}] \in Repro
      BY <3>1 DEF Repro
    <3> QED BY <1>7, <3>2 DEF Conflict
  <2>2. PICK old \in Seq(Repro) : old = Append(repros, new)
    BY <1>1, AppendProperties
  <2>3. r \in DOMAIN old /\ old[r] = repros[r]
    <3>1. Len(old) = n + 1 /\ \A i \in 1 .. n : old[i] = repros[i]
      BY <1>1, <1>2, <2>2, AppendProperties
    <3>2. DOMAIN old = 1 .. n + 1
      BY <3>1
    <3> QED BY <1>2, <3>1, <3>2
  <2> QED BY <1>5, <2>1, <2>2, <2>3
<1> QED BY <1>3, <1>4, <1>6, <1>7, BookFrame

\* The output loop waits for a message from a conflict on until it takes it.
LEMMA WaitsOn ==
    ASSUME Types, [Next]_vars, ~SinkFails, out.repro # 0 => out.pc \notin {"linger", "sink"}
    PROVE  /\ out'.repro # 0 => out'.pc \notin {"linger", "sink"}
           /\ out'.repro # 0 => Conflict \/ out'.repro = out.repro
           /\ out'.repro = out.repro \/ TakeOutput \/ Lingered \/ SinkBatch \/ Conflict
<1>1. out = [pc |-> out.pc, batch |-> out.batch, waited |-> out.waited, repro |-> out.repro, sigs |-> out.sigs]
  BY DEF Types, OutTypes
<1>2. CASE out' = out
  BY <1>2
<1>3. CASE TakeOutput \/ Lingered
  <2>1. out'.repro = 0
    BY <1>3 DEF TakeOutput, Lingered, AddToBatch, Empty
  <2> QED BY <1>3, <2>1
<1>4. CASE Skip
  <2>1. \E c : out' = [out EXCEPT !.pc = "skip", !.batch = <<c>>, !.sigs = {c.sig}]
    BY Zenon, <1>4 DEF Skip
  <2>2. out'.pc = "skip" /\ out'.repro = out.repro
    BY <1>1, <2>1
  <2> QED BY <2>2
<1>5. CASE SinkBatch
  BY <1>5 DEF SinkBatch, Empty
<1>6. CASE Conflict
  <2>1. out'.pc = "requeue"
    BY <1>6 DEF Conflict
  <2> QED BY <1>6, <2>1
<1>7. CASE PutBack
  <2>1. CASE Len(out.batch) > 1
    <3>1. out' = [out EXCEPT !.batch = Tail(@)] /\ out.pc \in {"skip", "requeue"}
      BY <1>7, <2>1 DEF PutBack
    <3>2. out'.pc = out.pc /\ out'.repro = out.repro
      BY <1>1, <3>1
    <3> QED BY <3>1, <3>2
  <2>2. CASE ~(Len(out.batch) > 1)
    <3>1. out'.pc \in {"idle", "done"} /\ out'.repro = out.repro
      BY <1>7, <2>2 DEF PutBack, Empty
    <3> QED BY <3>1
  <2> QED BY <2>1, <2>2
<1>8. CASE OutputEnds
  <2>1. out'.pc = "done" /\ out'.repro = out.repro
    BY <1>1, <1>8 DEF OutputEnds
  <2> QED BY <2>1
<1> QED BY <1>2, <1>3, <1>4, <1>5, <1>6, <1>7, <1>8, OutFrame

\* While the output loop waits for a message that is nowhere, it goes on to.
LEMMA GoneStep ==
    ASSUME Types, Placed, Continued, Unstored, Gone, out.repro # 0 => out.pc \notin {"linger", "sink"},
           [Next]_vars, ~SinkFails
    PROVE  Gone'
<1>0. PICK m \in Msg : m = at
  BY LineParts DEF Gone
<1>1. out.repro # 0 /\ m <= received /\ At(m) = 0 /\ m \in Msg /\ out.repro \in DOMAIN repros /\ received \in Nat
  BY <1>0, LineParts DEF Gone
<1>2. ~TakeOutput
  <2> SUFFICES ASSUME TakeOutput PROVE FALSE
    OBVIOUS
  <2>1. output # <<>> /\ Head(output).msg = m
    BY <1>0, <1>1 DEF TakeOutput, Skips, at
  <2>2. m \in ToSet(Msgs(output))
    <3>1. /\ output \in Seq(Dispatched) /\ DOMAIN Msgs(output) = DOMAIN output
          /\ \A i \in DOMAIN output : Msgs(output)[i] = output[i].msg
      BY LineParts, MsgsProperties
    <3>2. 1 \in DOMAIN output /\ Head(output) = output[1]
      BY <2>1, <3>1
    <3> QED BY <2>1, <3>1, <3>2 DEF ToSet
  <2> QED BY <1>1, <2>2, OnePlace
<1>3. ~Lingered /\ ~SinkBatch /\ ~Conflict
  BY <1>1 DEF Lingered, SinkBatch, Conflict
<1>4. out'.repro = out.repro /\ at' = m
  <2>1. out'.repro = out.repro
    BY <1>2, <1>3, WaitsOn
  <2>2. repros'[out.repro].at = repros[out.repro].at
    BY <1>1, ReproKept
  <2> QED BY <1>0, <2>1, <2>2 DEF at
<1>5. m <= received' /\ At(m)' = 0
  <2>1. CASE Receive
    <3>1. received' = received + 1 /\ At(m)' = At(m) + (IF m = received + 1 THEN 1 ELSE 0)
      BY <1>1, <2>1, ReceivePlaces
    <3>2. m # received + 1 /\ m <= received + 1
      <4>1. m \in Nat
        BY <1>1, ConstantsFacts
      <4> QED BY <1>1, <4>1
    <3> QED BY <1>1, <3>1, <3>2
  <2>2. CASE received' = received /\ \E G : Leave(G)
    <3>1. At(m)' = 0
      BY <1>1, <2>2 DEF Leave
    <3> QED BY <1>1, <2>2, <3>1
  <2> QED BY <2>1, <2>2, PlacesStep
<1>6. at' <= received' /\ (At(at))' = 0
  <2>1. (At(at))' = At(m)'
    BY <1>4 DEF At, InQueue, OnTheWay, InOutput, InBatch, AtProc, AtInput
  <2> QED BY <1>4, <1>5, <2>1
<1> QED BY <1>1, <1>4, <1>6 DEF Gone

\* A partition is extended context by context.
LEMMA ExtendedRecursion ==
    ASSUME store \in [Key -> Logs], NEW k \in Key, NEW cs \in Seq(Contexts)
    PROVE  \E F : /\ F[0] = store[k] /\ Extended(cs, k) = F[Len(cs)]
                  /\ \A n \in 1..Len(cs) : F[n] = IF KeyOf[cs[n].msg] = k THEN Append(F[n - 1], cs[n].msg)
                                                  ELSE F[n - 1]
<1> DEFINE N == Len(cs)
           old == store[k]
           add(n) == KeyOf[cs[n].msg] = k
           msg(n) == cs[n].msg
           step == [n \in 1..N |-> [x \in Logs |-> IF add(n) THEN Append(x, msg(n)) ELSE x]]
           Is(g) == g = [n \in 0..N |-> IF n = 0 THEN old
                                        ELSE IF add(n) THEN Append(g[n - 1], msg(n))
                                        ELSE g[n - 1]]
           F == CHOOSE g : Is(g)
<1>0. Extended(cs, k) = F[N]  BY DEF Extended
<1>1. N \in Nat /\ DOMAIN cs = 1..N /\ old \in Logs  BY DEF Logs
<1>2. \A n \in 1..N : msg(n) \in Msg \cup {Other}
  <2>1. \A n \in 1..N : cs[n] \in Contexts  OBVIOUS
  <2>2. QED  BY <2>1 DEF Contexts
<1>3. \A x \in Logs : \A e \in Msg \cup {Other} : Append(x, e) \in Logs  BY DEF Logs
<1>4. step \in [1..N -> [Logs -> Logs]]
  <2> HIDE DEF N, add, msg
  <2>1. QED  BY <1>1, <1>2, <1>3
<1>5. \E f \in [0..N -> Logs] : Recurs(f, N, old, step)
  <2> HIDE DEF step, N, old
  <2>1. QED  BY <1>1, <1>4, Recursion
<1>6. PICK f \in [0..N -> Logs] : Recurs(f, N, old, step)  BY <1>5
<1>7. Is(f)
  <2> HIDE DEF N, add, msg, old
  <2>1. \A n \in 1..N : f[n - 1] \in Logs  BY <1>1
  <2>2. \A n \in 1..N : f[n] = IF add(n) THEN Append(f[n - 1], msg(n)) ELSE f[n - 1]
    BY <1>6, <2>1 DEF Recurs
  <2>3. f[0] = old  BY <1>6 DEF Recurs
  <2>4. \A n \in 0..N : n # 0 => n \in 1..N  BY <1>1
  <2>5. f = [n \in 0..N |-> f[n]]  OBVIOUS
  <2>6. QED  BY <2>2, <2>3, <2>4, <2>5
<1>8. Is(F)
  <2> HIDE DEF Is
  <2>1. QED  BY <1>7
<1> HIDE DEF F
<1>9. /\ F[0] = old
      /\ \A n \in 1..N : F[n] = IF add(n) THEN Append(F[n - 1], msg(n)) ELSE F[n - 1]
  <2> HIDE DEF N, add, msg, old
  <2>1. \A n \in 1..N : n \in 0..N /\ n # 0  BY <1>1
  <2>2. 0 \in 0..N  BY <1>1
  <2>3. QED  BY <1>8, <2>1, <2>2
<1> QED BY <1>0, <1>9

\* The events of a log are in the order their messages were received in.
InOrder(s) == \A i, j \in DOMAIN s : i < j /\ Other \notin {s[i], s[j]} => s[i] < s[j]

\* They still are when a later message is appended.
LEMMA InOrderAppend ==
    ASSUME NEW s \in Logs, InOrder(s), NEW e \in Msg, \A n \in ToSet(s) : n < e
    PROVE  InOrder(Append(s, e))
<1>1. PICK t \in Logs : t = Append(s, e)
  BY AppendProperties DEF Logs
<1>2. PICK k \in Nat : k = Len(s) /\ DOMAIN s = 1 .. k
  BY DEF Logs
<1>3. s \in Seq(Msg \cup {Other}) /\ e \in Msg \cup {Other} /\ t \in Seq(Msg \cup {Other})
  BY DEF Logs
<1>4. Len(t) = k + 1 /\ (\A i \in 1 .. k : t[i] = s[i]) /\ t[k + 1] = e
  BY <1>1, <1>2, <1>3, AppendProperties
<1>5. DOMAIN t = 1 .. k + 1
  BY <1>3, <1>4
<1>6. ASSUME NEW i \in 1 .. k + 1, NEW j \in 1 .. k + 1, i < j, Other \notin {t[i], t[j]} PROVE t[i] < t[j]
  <2>1. i \in 1 .. k
    BY <1>6
  <2>2. CASE j \in 1 .. k
    BY <1>2, <1>4, <1>6, <2>1, <2>2 DEF InOrder
  <2>3. CASE j = k + 1
    <3>1. s[i] \in ToSet(s)
      BY <1>2, <2>1 DEF ToSet
    <3> QED BY <1>4, <2>1, <2>3, <3>1
  <2> QED BY <2>2, <2>3
<1> QED BY <1>1, <1>5, <1>6 DEF InOrder

\* Contexts that follow all that is stored are stored in order.
LEMMA ExtendedInOrder ==
    ASSUME Types, NEW k \in Key, NEW cs \in Seq(Dispatched), InOrder(store[k]), Follows(Msgs(cs))
    PROVE  InOrder(Extended(cs, k))
<1>1. PICK N \in Nat : N = Len(cs) /\ DOMAIN cs = 1 .. N
  OBVIOUS
<1>2. /\ store \in [Key -> Logs] /\ cs \in Seq(Contexts) /\ store[k] \in Logs
      /\ \A n \in 1 .. N : cs[n].msg \in Msg
  <2>1. \A n \in 1 .. N : cs[n] \in Dispatched
    BY <1>1
  <2>2. \A n \in 1 .. N : cs[n].msg \in Msg
    BY <2>1 DEF Dispatched, Contexts
  <2>3. store \in [Key -> Logs]
    BY DEF Types, StateTypes
  <2>4. cs \in Seq(Contexts)
    BY DEF Dispatched
  <2> QED BY <2>2, <2>3, <2>4
<1>3. PICK F : /\ F[0] = store[k] /\ Extended(cs, k) = F[N]
               /\ \A n \in 1 .. N : F[n] = IF KeyOf[cs[n].msg] = k THEN Append(F[n - 1], cs[n].msg) ELSE F[n - 1]
  BY <1>1, <1>2, ExtendedRecursion
<1>4. \A i, j \in 1 .. N : i < j => cs[i].msg < cs[j].msg
  BY <1>1, MsgsProperties DEF Follows, Increasing
<1>5. \A i \in 1 .. N : \A e \in ToSet(store[k]) : e < cs[i].msg
  <2>1. \A i \in 1 .. N : cs[i].msg \in ToSet(Msgs(cs))
    BY <1>1, MsgsProperties DEF ToSet
  <2> QED BY <2>1 DEF Follows, After
<1> DEFINE R(n) == F[n] \in Logs /\ InOrder(F[n]) /\ \A j \in n + 1 .. N : \A e \in ToSet(F[n]) : e < cs[j].msg
           T == {n \in Nat : n \in 0 .. N => R(n)}
<1>6. 0 \in T
  <2>1. R(0)
    BY <1>2, <1>3, <1>5
  <2> QED BY <2>1
<1>7. ASSUME NEW n \in 1 .. N, n - 1 \in T PROVE n \in T
  <2>1. PICK i \in Nat : i = n - 1 /\ i \in 0 .. N /\ i + 1 = n
    OBVIOUS
  <2>2. PICK g \in Logs : g = F[i] /\ InOrder(g) /\ \A j \in i + 1 .. N : \A e \in ToSet(g) : e < cs[j].msg
    BY <1>7, <2>1
  <2>3. PICK m \in Msg : m = cs[n].msg
    BY <1>2
  <2>4. \A e \in ToSet(g) : e < m
    <3>1. n \in i + 1 .. N
      BY <2>1
    <3> QED BY <2>2, <2>3, <3>1
  <2>5. \A j \in n + 1 .. N : m < cs[j].msg /\ j \in i + 1 .. N
    <3>1. \A j \in n + 1 .. N : j \in 1 .. N /\ n < j /\ j \in i + 1 .. N
      BY <2>1
    <3> QED BY <1>4, <2>3, <3>1
  <2>6. F[n] = IF KeyOf[m] = k THEN Append(g, m) ELSE g
    BY <1>3, <2>1, <2>2, <2>3
  <2>7. CASE KeyOf[m] = k
    <3>1. PICK h \in Logs : h = Append(g, m)
      BY AppendProperties DEF Logs
    <3>2. InOrder(h)
      BY <2>2, <2>4, <3>1, InOrderAppend
    <3>3. ToSet(h) = ToSet(g) \cup {m}
      BY <3>1, ToSetAppend DEF Logs
    <3>4. \A j \in n + 1 .. N : \A e \in ToSet(h) : e < cs[j].msg
      BY <2>2, <2>5, <3>3
    <3>5. R(n)
      BY <2>6, <2>7, <3>1, <3>2, <3>4
    <3> QED BY <3>5
  <2>8. CASE KeyOf[m] # k
    <3>1. R(n)
      BY <2>2, <2>5, <2>6, <2>8
    <3> QED BY <3>1
  <2> QED BY <2>7, <2>8
<1>8. 0 .. N \subseteq T
  <2> HIDE DEF T
  <2> QED BY <1>6, <1>7, BoundedInduction
<1>9. R(N)
  <2>1. N \in 0 .. N
    BY <1>1
  <2> QED BY <1>8, <2>1
<1> QED BY <1>3, <1>9

\* The sink stores the first contexts of a batch that follows all that is stored.
LEMMA StoresFirst ==
    ASSUME Types, Stores(out.batch), NEW n \in 0 .. Len(out.batch), NEW cs \in Seq(Dispatched),
           cs = SubSeq(out.batch, 1, n), store' = StoredAfter(n), received' = received,
           StoredOnceInOrder, InBounds, Follows(Msgs(cs))
    PROVE  /\ StoredOnceInOrder' /\ InBounds'
           /\ \A m \in Msg : After(m) /\ (\A e \in ToSet(Msgs(cs)) : e < m) => After(m)'
<1>1. Stored(out.batch) = out.batch
  <2>1. out.batch \in Seq(Dispatched)
    BY LineParts
  <2> QED BY <2>1, StoredProperties DEF Stores
<1>2. \A k \in Key : store'[k] = Extended(cs, k)
  BY <1>1 DEF StoredAfter
<1>3. store \in [Key -> Logs] /\ cs \in Seq(Contexts)
  BY DEF Types, StateTypes, Dispatched
<1>4. ASSUME NEW k \in Key
      PROVE  /\ InOrder(store'[k])
             /\ \A e \in ToSet(store'[k]) : e \in ToSet(store[k]) \/ e \in ToSet(Msgs(cs))
  <2>1. InOrder(store[k])
    BY DEF StoredOnceInOrder, InOrder
  <2>2. InOrder(Extended(cs, k))
    BY <2>1, ExtendedInOrder
  <2>3. ToSet(Extended(cs, k)) = ToSet(store[k]) \cup {cs[i].msg : i \in {j \in DOMAIN cs : KeyOf[cs[j].msg] = k}}
    BY <1>3, ExtendedProperties
  <2>4. \A i \in DOMAIN cs : cs[i].msg \in ToSet(Msgs(cs))
    BY MsgsProperties DEF ToSet
  <2> QED BY <1>2, <2>2, <2>3, <2>4
<1>5. StoredOnceInOrder'
  BY <1>4 DEF StoredOnceInOrder, InOrder
<1>6. InBounds'
  <2>1. \A e \in ToSet(Msgs(cs)) : e <= received
    BY DEF Follows, After
  <2> QED BY <1>4, <2>1 DEF InBounds
<1>7. ASSUME NEW m \in Msg, After(m), \A e \in ToSet(Msgs(cs)) : e < m PROVE After(m)'
  <2>1. \A k \in Key : \A e \in ToSet(store'[k]) : e < m
    BY <1>4, <1>7 DEF After
  <2> QED BY <1>7, <2>1 DEF After
<1> QED BY <1>5, <1>6, <1>7

\* All of the batch is stored, or all before the one that is reported.
LEMMA SinkStores ==
    ASSUME Types, Stores(out.batch), SinkBatch \/ Conflict, StoredOnceInOrder, InBounds,
           NEW r \in Seq(Msg), Follows(Msgs(out.batch) \o r)
    PROVE  /\ StoredOnceInOrder' /\ InBounds'
           /\ \E bs \in Seq(Msg) : bs = Msgs(out'.batch) /\ Follows(bs \o r)'
<1>1. out.batch \in Seq(Dispatched) /\ out.batch \in Seq(Contexts)
  BY LineParts DEF Dispatched
<1>2. PICK cs \in Seq(Dispatched), ds \in Seq(Dispatched), n \in 0 .. Len(out.batch) :
        /\ out.batch = cs \o ds /\ out'.batch = ds
        /\ cs = SubSeq(out.batch, 1, n) /\ store' = StoredAfter(n) /\ received' = received
  <2>1. CASE SinkBatch
    <3>1. Stored(out.batch) = out.batch
      BY <1>1, StoredProperties DEF Stores
    <3>2. Good = Len(out.batch)
      <4>1. PICK t \in Nat : t = Len(out.batch)
        BY <1>1
      <4>2. Good \in 0 .. t
        BY <1>1, <3>1, <4>1, GoodProperties
      <4>3. ~(Good < t)
        BY <2>1, <3>1, <4>1 DEF SinkBatch, IsConflict
      <4> QED BY <4>1, <4>2, <4>3
    <3>3. Kept = Len(out.batch)
      BY <1>1, <3>1, <3>2, KeptProperties
    <3>4. store' = StoredAfter(Len(out.batch)) /\ received' = received /\ out'.batch = <<>>
      BY <2>1, <3>3 DEF SinkBatch, Empty
    <3>5. out.batch = SubSeq(out.batch, 1, Len(out.batch)) /\ Len(out.batch) \in 0 .. Len(out.batch)
      BY <1>1
    <3>6. <<>> \in Seq(Dispatched) /\ out.batch = out.batch \o <<>>
      BY <1>1, Empties
    <3> QED BY <1>1, <3>4, <3>5, <3>6
  <2>2. CASE Conflict
    <3>1. /\ Kept \in Nat /\ Kept < Len(out.batch) /\ Processed \in Seq(Dispatched)
          /\ SubSeq(out.batch, Kept + 1, Len(out.batch)) \in Seq(Dispatched)
          /\ out.batch = Processed \o SubSeq(out.batch, Kept + 1, Len(out.batch))
      BY <2>2, ProcessedProperties
    <3>2. /\ store' = StoredAfter(Kept) /\ received' = received
          /\ out'.batch = SubSeq(out.batch, Kept + 1, Len(out.batch))
      BY <2>2 DEF Conflict
    <3>3. Kept \in 0 .. Len(out.batch)
      <4>1. PICK t \in Nat : t = Len(out.batch)
        BY <1>1
      <4> QED BY <3>1, <4>1
    <3> QED BY <3>1, <3>2, <3>3 DEF Processed
  <2> QED BY <2>1, <2>2
<1>3. PICK a \in Seq(Msg), b \in Seq(Msg) : a = Msgs(cs) /\ b = Msgs(ds)
  BY MsgsProperties
<1>4. PICK w \in Seq(Msg) : w = b \o r
  BY ConcatProperties
<1>5. Follows(a \o w)
  <2>1. Msgs(out.batch) = a \o b
    BY <1>2, <1>3, MsgsConcat
  <2>2. Associates(a, b, r)
    BY AllAssociate
  <2>3. (a \o b) \o r = a \o w
    BY <1>4, <2>2 DEF Associates
  <2> QED BY <2>1, <2>3
<1>6. Follows(a) /\ Follows(w) /\ \A i \in ToSet(a), j \in ToSet(w) : i < j
  BY <1>5, FollowsConcat
<1>7. /\ StoredOnceInOrder' /\ InBounds'
      /\ \A m \in Msg : After(m) /\ (\A e \in ToSet(a) : e < m) => After(m)'
  BY <1>2, <1>3, <1>6, StoresFirst
<1>8. Follows(w)'
  <2>1. ToSet(w) \subseteq Msg
    BY DEF ToSet
  <2>2. \A m \in ToSet(w) : After(m)'
    BY <1>6, <1>7, <2>1 DEF Follows
  <2> QED BY <1>6, <2>2 DEF Follows
<1> QED BY <1>2, <1>3, <1>4, <1>7, <1>8

\* What another process appends is not one of the messages.
LEMMA OtherKept ==
    ASSUME Types, StoredOnceInOrder, InBounds, received' \in Nat,
           \/ received' >= received /\ store' = store
           \/ received' = received /\ \E k \in Key : store' = [store EXCEPT ![k] = Append(@, Other)]
    PROVE  StoredOnceInOrder' /\ InBounds'
<1>1. received \in Nat /\ store \in [Key -> Logs]
  BY LineParts DEF Types, StateTypes
<1>2. CASE received' >= received /\ store' = store
  <2>1. InBounds'
    <3>1. ASSUME NEW k \in Key, NEW e \in ToSet(store'[k]) PROVE e <= received'
      <4>1. e \in Nat /\ e <= received
        <5>1. store[k] \in Logs /\ e \in ToSet(store[k])
          BY <1>1, <1>2, <3>1
        <5>2. e \in Msg \cup {Other}
          BY <5>1 DEF Logs, ToSet
        <5> QED BY <5>1, <5>2, ConstantsFacts DEF InBounds, Other
      <4> QED BY <1>1, <1>2, <4>1
    <3> QED BY <3>1 DEF InBounds
  <2> QED BY <1>2, <2>1 DEF StoredOnceInOrder
<1>3. CASE received' = received /\ \E k \in Key : store' = [store EXCEPT ![k] = Append(@, Other)]
  <2>1. PICK k \in Key : store' = [store EXCEPT ![k] = Append(@, Other)]
    BY <1>3
  <2>2. PICK s \in Logs, t \in Logs : s = store[k] /\ t = store'[k] /\ t = Append(s, Other)
    <3>1. store[k] \in Logs /\ store'[k] = Append(store[k], Other)
      BY <1>1, <2>1
    <3>2. Append(store[k], Other) \in Logs
      BY <3>1 DEF Logs
    <3> QED BY <3>1, <3>2
  <2>3. \A j \in Key : j # k => store'[j] = store[j]
    BY <1>1, <2>1
  <2>4. s \in Seq(Msg \cup {Other}) /\ Other \in Msg \cup {Other}
    BY DEF Logs
  <2>5. PICK n \in Nat : n = Len(s) /\ DOMAIN s = 1 .. n
    BY <2>4
  <2>6. Len(t) = n + 1 /\ (\A i \in 1 .. n : t[i] = s[i]) /\ t[n + 1] = Other /\ ToSet(t) = ToSet(s) \cup {Other}
    BY <2>2, <2>4, <2>5, AppendProperties, ToSetAppend
  <2>7. DOMAIN t = 1 .. n + 1
    BY <2>6 DEF Logs
  <2>8. InOrder(t)
    <3>1. \A i \in 1 .. n + 1 : i \in 1 .. n \/ t[i] = Other
      BY <2>6
    <3>2. InOrder(s)
      BY <2>2 DEF StoredOnceInOrder, InOrder
    <3> QED BY <2>5, <2>6, <2>7, <3>1, <3>2 DEF InOrder
  <2>9. StoredOnceInOrder'
    <3>1. \A j \in Key : InOrder(store'[j])
      BY <2>2, <2>3, <2>8 DEF StoredOnceInOrder, InOrder
    <3> QED BY <3>1 DEF StoredOnceInOrder, InOrder
  <2>10. InBounds'
    <3>1. Other <= received
      BY <1>1 DEF Other
    <3> QED BY <1>3, <2>2, <2>3, <2>6, <3>1 DEF InBounds
  <2> QED BY <2>9, <2>10
<1> QED BY <1>2, <1>3

-----------------------------------------------------------------------------
(* What each step moves, while nothing fails.                              *)

\* The steps that keep the messages that are not at the end of the line, and the
\* states they are taken in.
Flows == Receive \/ ResumeReceive \/ SourceEnds \/ CloseInput \/ ProcessingEnds \/ Evict \/ EvictReturns
         \/ RunFails \/ OtherStores \/ UNCHANGED vars
Healthy == Types /\ Placed /\ Continued /\ Faultless /\ Stores(out.batch) /\ InBounds
           /\ (proc.pc = "offer" => proc.context.does = "store")

\* While nothing fails, these are the steps.
LEMMA HealthySteps ==
    ASSUME ProcessorInv, InBounds, [Next]_vars, Faultless'
    PROVE  /\ Healthy /\ GoesOn
           /\ \/ Flows \/ Take \/ Handle \/ Offer \/ TakeOutput \/ Skip \/ Lingered \/ SinkBatch \/ Conflict
              \/ PutBack \/ OutputEnds
<1>1. Types /\ Placed /\ Continued /\ Unstored
  BY DEF ProcessorInv
<1>2. Faultless /\ ~SinkRetries /\ ~SinkFails /\ ~HandleNothing /\ ~HandlerThrows
  BY <1>1, StoresStep
<1>3. Healthy /\ GoesOn
  BY <1>1, <1>2 DEF Healthy, Unstored, GoesOn
<1>4. UNCHANGED vars \/ InputLoop \/ ProcessingLoop \/ OutputLoop \/ Environment
  BY DEF Next
<1>5. CASE UNCHANGED vars
  BY <1>3, <1>5 DEF Flows
<1>6. CASE InputLoop
  BY <1>3, <1>6 DEF Flows, InputLoop
<1>7. CASE ProcessingLoop
  BY <1>2, <1>3, <1>7 DEF Flows, ProcessingLoop
<1>8. CASE OutputLoop
  BY <1>2, <1>3, <1>8 DEF OutputLoop
<1>9. CASE Environment
  BY <1>3, <1>9 DEF Flows, Environment, Over
<1> QED BY <1>4, <1>5, <1>6, <1>7, <1>8, <1>9

\* The input loop, an eviction or another process moves only what is at the end of
\* the line.
LEMMA FlowMoves ==
    ASSUME Healthy, Flows
    PROVE  /\ UNCHANGED <<output, out, cache, repros, reproOf>> /\ lanes'.high = lanes.high
           /\ Handling' = Handling /\ (Busy => proc' = proc) /\ (Busy' <=> Busy) /\ received' \in Nat
           /\ \/ received' >= received /\ store' = store
              \/ received' = received /\ \E k \in Key : store' = [store EXCEPT ![k] = Append(@, Other)]
           /\ \/ lanes'.low = lanes.low /\ Arriving' = Arriving
              \/ Arriving # <<>> /\ lanes'.low = Append(lanes.low, Head(Arriving)) /\ Arriving' = Tail(Arriving)
              \/ \E m \in Msg : /\ m = received + 1 /\ received' = m /\ store' = store /\ Arriving = <<>>
                                /\ \/ lanes'.low = Append(lanes.low, m) /\ Arriving' = <<>>
                                   \/ lanes'.low = lanes.low /\ Arriving' = <<m>>
<1>1. /\ received \in Nat /\ lanes = [low |-> lanes.low, high |-> lanes.high] /\ Messages \in Nat
      /\ proc = [pc |-> proc.pc, msg |-> proc.msg, sig |-> proc.sig, context |-> proc.context]
  BY LineParts, ConstantsFacts DEF Healthy, Types, QueueTypes, ProcTypes
<1>2. CASE Receive
  <2>1. PICK m \in Msg : m = received + 1
    <3>1. received < Messages
      BY <1>2 DEF Receive
    <3>2. received + 1 \in 1 .. Messages
      BY <1>1, <3>1
    <3> QED BY <3>2 DEF Msg
  <2>2. /\ inLoop = "receive" /\ received' = m /\ received' >= received /\ received' \in Nat
        /\ UNCHANGED <<output, proc, cache, out, repros, reproOf, store>>
    BY <1>1, <1>2, <2>1 DEF Receive
  <2>3. Arriving = <<>>
    BY <2>2 DEF Arriving
  <2>4. CASE Room("low")
    <3>1. lanes' = [lanes EXCEPT !.low = Append(@, m)] /\ inLoop' = inLoop
      BY <1>2, <2>1, <2>4 DEF Receive, Push
    <3>2. lanes'.low = Append(lanes.low, m) /\ lanes'.high = lanes.high
      BY <1>1, <3>1
    <3>3. Arriving' = <<>>
      BY <2>2, <3>1 DEF Arriving
    <3> QED BY <2>1, <2>2, <2>3, <3>2, <3>3 DEF Handling, Busy
  <2>5. CASE ~Room("low")
    <3>1. lanes' = lanes /\ inLoop' = "blocked"
      BY <1>2, <2>5 DEF Receive
    <3>2. Arriving' = <<m>>
      BY <2>2, <3>1 DEF Arriving
    <3> QED BY <2>1, <2>2, <2>3, <3>1, <3>2 DEF Handling, Busy
  <2> QED BY <2>4, <2>5
<1>3. CASE ResumeReceive
  <2>1. inLoop = "blocked" /\ inLoop' = "receive" /\ UNCHANGED <<received, output, proc, cache, out, repros, reproOf, store>>
    BY <1>3 DEF ResumeReceive
  <2>2. ~closed.input
    BY <2>1 DEF Healthy, Continued, GoesOn
  <2>3. lanes' = [lanes EXCEPT !.low = Append(@, received)]
    BY <1>3, <2>2 DEF ResumeReceive, Push
  <2>4. lanes'.low = Append(lanes.low, received) /\ lanes'.high = lanes.high
    BY <1>1, <2>3
  <2>5. Arriving = <<received>> /\ Arriving' = <<>>
    BY <2>1 DEF Arriving
  <2>6. Arriving # <<>> /\ Head(Arriving) = received /\ Arriving' = Tail(Arriving)
    <3>1. <<received>> # <<>> /\ Head(<<received>>) = received /\ Tail(<<received>>) = <<>>
      OBVIOUS
    <3> QED BY <2>5, <3>1
  <2>7. received' >= received
    BY <1>1, <2>1
  <2> QED BY <1>1, <2>1, <2>4, <2>6, <2>7 DEF Handling, Busy
<1>4. CASE SourceEnds \/ CloseInput
  <2>1. /\ UNCHANGED <<received, lanes, output, proc, cache, out, repros, reproOf, store>>
        /\ inLoop # "blocked" /\ inLoop' # "blocked"
    BY <1>4 DEF SourceEnds, CloseInput
  <2>2. received' >= received /\ Arriving' = Arriving
    BY <1>1, <2>1 DEF Arriving
  <2> QED BY <1>1, <2>1, <2>2 DEF Handling, Busy
<1>5. CASE ProcessingEnds
  <2>1. proc.pc = "idle" /\ proc' = [proc EXCEPT !.pc = "done"]
        /\ UNCHANGED <<received, inLoop, lanes, output, cache, out, repros, reproOf, store>>
    BY <1>5 DEF ProcessingEnds
  <2>2. proc'.pc = "done"
    BY <1>1, <2>1
  <2>3. received' >= received /\ Arriving' = Arriving
    BY <1>1, <2>1 DEF Arriving
  <2> QED BY <1>1, <2>1, <2>2, <2>3 DEF Handling, Busy
<1>6. CASE OtherStores
  <2>1. /\ UNCHANGED <<received, inLoop, lanes, output, proc, cache, out, repros, reproOf>>
        /\ \E k \in Key : store' = [store EXCEPT ![k] = Append(@, Other)]
    BY <1>6 DEF OtherStores
  <2>2. Arriving' = Arriving
    BY <2>1 DEF Arriving
  <2> QED BY <1>1, <2>1, <2>2 DEF Handling, Busy
<1>7. CASE Evict \/ EvictReturns \/ RunFails \/ UNCHANGED vars
  <2>1. UNCHANGED <<received, inLoop, lanes, output, proc, cache, out, repros, reproOf, store>>
    BY <1>7 DEF Evict, EvictReturns, RunFails, vars
  <2>2. received' >= received /\ Arriving' = Arriving
    BY <1>1, <2>1 DEF Arriving
  <2> QED BY <1>1, <2>1, <2>2 DEF Handling, Busy
<1> QED BY <1>2, <1>3, <1>4, <1>5, <1>6, <1>7 DEF Flows

\* The processing loop takes the head of the high lane, or of the low one if that is
\* empty: to handle it, on no remembered state of its key, or to release it.
LEMMA TakeMoves ==
    ASSUME Healthy, Take
    PROVE  /\ UNCHANGED <<received, inLoop, output, out, reproOf, store>> /\ ~Busy /\ Handling = <<>> /\ Arriving' = Arriving
           /\ \E m \in Msg :
                /\ m = Head(Pending)
                /\ \/ lanes.high # <<>> /\ m = Head(lanes.high) /\ lanes'.high = Tail(lanes.high) /\ lanes'.low = lanes.low
                   \/ /\ lanes.high = <<>> /\ lanes.low # <<>> /\ m = Head(lanes.low)
                      /\ lanes'.high = <<>> /\ lanes'.low = Tail(lanes.low)
                /\ \/ Handling' = <<>> /\ ~Busy' /\ repros' = repros /\ released'[m] # "no"
                   \/ /\ Handling' = <<m>> /\ Busy' /\ proc'.pc = "dispatch" /\ proc'.msg = m
                      /\ \A k \in Dropped(m) \cap Key : cache'[k] = {}
                      /\ \A r \in DOMAIN repros : r # reproOf[m] => repros'[r] = repros[r]
<1>1. /\ lanes = [low |-> lanes.low, high |-> lanes.high] /\ lanes.low \in Seq(Msg) /\ lanes.high \in Seq(Msg)
      /\ proc = [pc |-> proc.pc, msg |-> proc.msg, sig |-> proc.sig, context |-> proc.context]
      /\ released \in [Msg -> {"no", "ok", "nothing", "error", "unavailable"}]
  BY LineParts DEF Healthy, Types, QueueTypes, ProcTypes, BookTypes
<1>2. /\ UNCHANGED <<received, inLoop, output, out, reproOf, store>> /\ proc.pc = "idle" /\ Pending # <<>>
      /\ lanes' = IF lanes.high # <<>> THEN [lanes EXCEPT !.high = Tail(@)] ELSE [lanes EXCEPT !.low = Tail(@)]
  BY DEF Take
<1>3. ~Busy /\ Handling = <<>> /\ Arriving' = Arriving
  BY <1>2 DEF Busy, Handling, Arriving
<1>4. PICK m \in Msg : m = Head(Pending)
  BY <1>2, Fresh DEF Healthy
<1>5. \/ lanes.high # <<>> /\ m = Head(lanes.high) /\ lanes'.high = Tail(lanes.high) /\ lanes'.low = lanes.low
      \/ /\ lanes.high = <<>> /\ lanes.low # <<>> /\ m = Head(lanes.low)
         /\ lanes'.high = <<>> /\ lanes'.low = Tail(lanes.low)
  <2>1. CASE lanes.high # <<>>
    <3>1. Head(lanes.high \o lanes.low) = Head(lanes.high)
      BY <1>1, <2>1, TailConcat
    <3>2. lanes' = [lanes EXCEPT !.high = Tail(@)]
      BY <1>2, <2>1
    <3>3. lanes'.high = Tail(lanes.high) /\ lanes'.low = lanes.low
      BY <1>1, <3>2
    <3> QED BY <1>4, <2>1, <3>1, <3>3 DEF Pending
  <2>2. CASE lanes.high = <<>>
    <3>1. Pending = lanes.low
      BY <1>1, <2>2, Empties DEF Pending
    <3>2. lanes' = [lanes EXCEPT !.low = Tail(@)]
      BY <1>2, <2>2
    <3>3. lanes'.high = <<>> /\ lanes'.low = Tail(lanes.low)
      BY <1>1, <2>2, <3>2
    <3> QED BY <1>2, <1>4, <2>2, <3>1, <3>3
  <2> QED BY <2>1, <2>2
<1>6. CASE IsEvicted(m)
  <2>1. ReleaseOne(m, "unavailable") /\ proc' = proc /\ repros' = repros
    BY <1>4, <1>6 DEF Take
  <2>2. released'[m] # "no"
    <3>1. released'[m] = IF released[m] = "no" THEN "unavailable" ELSE released[m]
      BY <1>1, <2>1 DEF ReleaseOne, Release
    <3> QED BY <3>1
  <2>3. ~Busy' /\ Handling' = <<>>
    BY <1>2, <2>1 DEF Busy, Handling
  <2> QED BY <1>2, <1>3, <1>4, <1>5, <2>1, <2>2, <2>3
<1>7. CASE ~IsEvicted(m)
  <2>1. /\ proc' = [Idle EXCEPT !.pc = "dispatch", !.msg = m, !.sig = FreshSignal(m)]
        /\ cache' = [k \in Key |-> IF k \in Dropped(m) THEN {} ELSE cache[k]]
        /\ repros' = [r \in DOMAIN repros |-> IF r = reproOf[m] THEN [repros[r] EXCEPT !.evict = {}] ELSE repros[r]]
    BY <1>4, <1>7 DEF Take
  <2>2. proc'.pc = "dispatch" /\ proc'.msg = m
    BY <2>1 DEF Idle
  <2>3. Busy' /\ Handling' = <<m>>
    BY <2>2 DEF Busy, Handling
  <2>4. \A k \in Dropped(m) \cap Key : cache'[k] = {}
    BY <2>1
  <2>5. \A r \in DOMAIN repros : r # reproOf[m] => repros'[r] = repros[r]
    BY <2>1
  <2> QED BY <1>2, <1>3, <1>4, <1>5, <2>2, <2>3, <2>4, <2>5
<1> QED BY <1>6, <1>7

\* A handled message stays in the processing loop; with no remembered state, the
\* output loop has settled.
LEMMA HandleMoves ==
    ASSUME Healthy, Handle
    PROVE  /\ UNCHANGED <<received, inLoop, lanes, output, out, repros, reproOf, store>> /\ Arriving' = Arriving
           /\ Handling' = Handling /\ Busy /\ proc.pc = "dispatch" /\ proc'.pc = "offer" /\ proc'.msg = proc.msg
           /\ cache[KeyOf[proc.msg]] = {} => Settled
<1>1. proc = [pc |-> proc.pc, msg |-> proc.msg, sig |-> proc.sig, context |-> proc.context]
  BY DEF Healthy, Types, ProcTypes
<1>2. /\ UNCHANGED <<received, inLoop, lanes, output, out, repros, reproOf, store>> /\ proc.pc = "dispatch"
      /\ \E c : proc' = [proc EXCEPT !.pc = "offer", !.context = c]
      /\ \E state : Load(KeyOf[proc.msg], state)
  BY Zenon DEF Handle
<1>3. proc'.pc = "offer" /\ proc'.msg = proc.msg
  BY <1>1, <1>2
<1>4. cache[KeyOf[proc.msg]] = {} => Settled
  BY <1>2 DEF Load
<1> QED BY <1>2, <1>3, <1>4 DEF Arriving, Handling, Busy

\* Its context then goes to the output queue.
LEMMA OfferMoves ==
    ASSUME Healthy, Offer
    PROVE  /\ UNCHANGED <<received, inLoop, lanes, cache, out, repros, reproOf, store>> /\ Arriving' = Arriving
           /\ proc.pc = "offer" /\ Busy /\ ~Busy' /\ Handling = <<proc.msg>> /\ Handling' = <<>>
           /\ output' = Append(output, proc.context) /\ proc.context \in Dispatched /\ proc.context.msg = proc.msg
<1>1. proc.pc = "offer" /\ proc' = Idle /\ UNCHANGED <<received, inLoop, lanes, cache, out, repros, reproOf, store>>
  BY DEF Offer
<1>2. Busy /\ ~Busy' /\ Handling = <<proc.msg>> /\ Handling' = <<>> /\ Arriving' = Arriving
  BY <1>1 DEF Busy, Handling, Arriving, Idle
<1>3. proc.msg \in Msg /\ proc.context \in Dispatched /\ proc.context.msg = proc.msg
  BY <1>1, <1>2 DEF Healthy, Types, ProcTypes
<1>4. At(proc.msg) # 0
  <2>1. PICK m \in Msg : m = proc.msg
    BY <1>3
  <2> QED BY <1>2, <2>1, OnePlace DEF Healthy
<1>5. ~closed.output
  <2>1. PICK m \in Msg : m = proc.msg
    BY <1>3
  <2> QED BY <1>4, <2>1, StaysOpen DEF Healthy, GoesOn
<1>6. output' = Append(output, proc.context)
  BY <1>5 DEF Offer
<1> QED BY <1>1, <1>2, <1>3, <1>6

\* The output loop takes the head of the output queue: the one it waits for into the
\* batch, any other to put it back.
LEMMA OutputMoves ==
    ASSUME Healthy, TakeOutput \/ Skip
    PROVE  /\ UNCHANGED <<received, inLoop, lanes, proc, cache, store>> /\ Arriving' = Arriving
           /\ Handling' = Handling /\ (Busy' <=> Busy) /\ out.pc = "idle" /\ output # <<>> /\ output' = Tail(output)
           /\ Head(output) \in Dispatched
           /\ TakeOutput => /\ out.repro # 0 => Head(output).msg = at
                            /\ out'.repro = 0 /\ out'.batch = Append(out.batch, Head(output))
           /\ Skip => /\ out.repro # 0 /\ out'.repro = out.repro /\ Head(output).msg # at /\ out.batch = <<>>
                      /\ out'.batch = <<Head(output)>> /\ out'.pc = "skip"
                      /\ reproOf' = [reproOf EXCEPT ![Head(output).msg] = out.repro]
<1>1. out = [pc |-> out.pc, batch |-> out.batch, waited |-> out.waited, repro |-> out.repro, sigs |-> out.sigs]
      /\ output \in Seq(Dispatched) /\ (out.pc = "idle" /\ out.repro # 0 => out.batch = <<>>)
  BY LineParts DEF Healthy, Types, OutTypes
<1>2. /\ UNCHANGED <<received, inLoop, lanes, proc, cache, store>> /\ out.pc = "idle" /\ output # <<>> /\ output' = Tail(output)
  BY DEF TakeOutput, Skip
<1>3. Head(output) \in Dispatched
  BY <1>1, <1>2, SequenceEnds
<1>4. TakeOutput => /\ out.repro # 0 => Head(output).msg = at
                    /\ out'.repro = 0 /\ out'.batch = Append(out.batch, Head(output))
  <2>1. TakeOutput => ~Skips(Head(output)) /\ AddToBatch(Append(out.batch, Head(output)), out.waited, Tail(output))
    BY DEF TakeOutput
  <2> QED BY <2>1 DEF Skips, at, AddToBatch, Empty
<1>5. Skip => /\ out.repro # 0 /\ out'.repro = out.repro /\ Head(output).msg # at /\ out.batch = <<>>
              /\ out'.batch = <<Head(output)>> /\ out'.pc = "skip"
              /\ reproOf' = [reproOf EXCEPT ![Head(output).msg] = out.repro]
  <2> SUFFICES ASSUME Skip
               PROVE  /\ out.repro # 0 /\ out'.repro = out.repro /\ Head(output).msg # at /\ out.batch = <<>>
                      /\ out'.batch = <<Head(output)>> /\ out'.pc = "skip"
                      /\ reproOf' = [reproOf EXCEPT ![Head(output).msg] = out.repro]
    OBVIOUS
  <2>1. /\ out.repro # 0 /\ Head(output).msg # at /\ reproOf' = [reproOf EXCEPT ![Head(output).msg] = out.repro]
        /\ out' = [out EXCEPT !.pc = "skip", !.batch = <<Head(output)>>, !.sigs = {Head(output).sig}]
    BY DEF Skip, Skips, at, SetAside
  <2>2. out'.repro = out.repro /\ out'.batch = <<Head(output)>> /\ out'.pc = "skip"
    BY <1>1, <2>1
  <2> QED BY <1>1, <1>2, <2>1, <2>2
<1> QED BY <1>2, <1>3, <1>4, <1>5 DEF Arriving, Handling, Busy

\* The head of the batch goes to the end of the high lane.
LEMMA PutBackMoves ==
    ASSUME Healthy, PutBack
    PROVE  /\ UNCHANGED <<received, inLoop, output, proc, cache, store>> /\ Arriving' = Arriving
           /\ Handling' = Handling /\ (Busy' <=> Busy) /\ lanes'.low = lanes.low
           /\ out.pc \in {"skip", "requeue"} /\ out.batch # <<>> /\ out.repro # 0 /\ out'.repro = out.repro
           /\ Head(out.batch) \in Dispatched /\ lanes'.high = Append(lanes.high, Head(out.batch).msg)
           /\ out'.batch = Tail(out.batch)
           /\ \/ reproOf' = reproOf
              \/ \E c \in ToSet(out.batch) : c \in Dispatched /\ reproOf' = [reproOf EXCEPT ![c.msg] = out.repro]
<1>1. /\ out = [pc |-> out.pc, batch |-> out.batch, waited |-> out.waited, repro |-> out.repro, sigs |-> out.sigs]
      /\ out.batch \in Seq(Dispatched) /\ lanes = [low |-> lanes.low, high |-> lanes.high]
      /\ (out.pc \in {"skip", "requeue"} => out.batch # <<>> /\ out.repro # 0)
  BY LineParts DEF Healthy, Types, OutTypes, QueueTypes
<1>2. /\ UNCHANGED <<received, inLoop, output, proc, cache, store>> /\ out.pc \in {"skip", "requeue"}
  BY DEF PutBack
<1>3. PICK c \in Dispatched, m \in Msg : c = Head(out.batch) /\ m = c.msg
  <2>1. Head(out.batch) \in Dispatched
    BY <1>1, <1>2, SequenceEnds
  <2>2. Head(out.batch).msg \in Msg
    BY <2>1 DEF Dispatched, Contexts
  <2> QED BY <2>1, <2>2
<1>4. ~closed.input
  <2>1. m \in ToSet(Msgs(out.batch))
    <3>1. /\ DOMAIN Msgs(out.batch) = DOMAIN out.batch
          /\ \A i \in DOMAIN out.batch : Msgs(out.batch)[i] = out.batch[i].msg
      BY <1>1, MsgsProperties
    <3>2. 1 \in DOMAIN out.batch /\ Head(out.batch) = out.batch[1]
      BY <1>1, <1>2
    <3> QED BY <1>3, <3>1, <3>2 DEF ToSet
  <2> QED BY <2>1, OnePlace, StaysOpen DEF Healthy, GoesOn
<1>5. lanes'.high = Append(lanes.high, m) /\ lanes'.low = lanes.low /\ Room("high")
  <2>1. Room("high") /\ lanes' = [lanes EXCEPT !.high = Append(@, m)]
    BY <1>3, <1>4 DEF PutBack, Refused, Push
  <2> QED BY <1>1, <2>1
<1>6. CASE Len(out.batch) > 1
  <2>1. out' = [out EXCEPT !.batch = Tail(@)] /\ SetAside(out.repro, out.batch[2], repros)
    BY <1>6 DEF PutBack
  <2>2. out'.batch = Tail(out.batch) /\ out'.repro = out.repro
    BY <1>1, <2>1
  <2>3. out.batch[2] \in ToSet(out.batch) /\ out.batch[2] \in Dispatched
    <3>1. 2 \in DOMAIN out.batch
      BY <1>1, <1>6
    <3> QED BY <1>1, <3>1 DEF ToSet
  <2> QED BY <1>1, <1>2, <1>3, <1>5, <2>1, <2>2, <2>3 DEF Arriving, Handling, Busy, SetAside
<1>7. CASE ~(Len(out.batch) > 1)
  <2>1. out'.batch = <<>> /\ out'.repro = out.repro /\ reproOf' = reproOf
    BY <1>7 DEF PutBack, Empty
  <2>2. Tail(out.batch) = <<>>
    <3>1. PICK t \in Seq(Dispatched) : t = Tail(out.batch) /\ Len(t) = Len(out.batch) - 1 /\ Len(out.batch) >= 1
      BY <1>1, <1>2, SequenceEnds
    <3>2. PICK i \in Nat : i = Len(out.batch)
      BY <1>1
    <3>a. \A n \in Nat : ~(n > 1) /\ n >= 1 => n - 1 = 0
      OBVIOUS
    <3>b. ~(i > 1) /\ i >= 1 /\ Len(t) = i - 1
      BY <1>7, <3>1, <3>2, Zenon
    <3>3. Len(t) = 0
      BY <3>a, <3>b, Zenon
    <3> QED BY <3>1, <3>3, EmptySeq
  <2> QED BY <1>1, <1>2, <1>3, <1>5, <2>1, <2>2 DEF Arriving, Handling, Busy
<1> QED BY <1>6, <1>7

\* These empty the batch, or leave all where it is.
LEMMA SinkMoves ==
    ASSUME Healthy, SinkBatch \/ Lingered \/ OutputEnds
    PROVE  /\ UNCHANGED <<received, inLoop, lanes, output, proc, cache, repros, reproOf>> /\ Arriving' = Arriving
           /\ Handling' = Handling /\ (Busy' <=> Busy)
           /\ SinkBatch => out.pc = "sink" /\ out'.batch = <<>> /\ out'.repro = 0
           /\ Lingered => store' = store /\ out.pc = "linger" /\ out'.batch = out.batch /\ out'.repro = 0
           /\ OutputEnds => store' = store /\ out'.batch = out.batch /\ out'.pc = "done"
<1>1. out = [pc |-> out.pc, batch |-> out.batch, waited |-> out.waited, repro |-> out.repro, sigs |-> out.sigs]
  BY DEF Healthy, Types, OutTypes
<1>2. UNCHANGED <<received, inLoop, lanes, output, proc, cache, repros, reproOf>>
  BY DEF SinkBatch, Lingered, OutputEnds
<1>3. SinkBatch => out.pc = "sink" /\ out'.batch = <<>> /\ out'.repro = 0
  BY DEF SinkBatch, Empty
<1>4. Lingered => store' = store /\ out.pc = "linger" /\ out'.batch = out.batch /\ out'.repro = 0
  BY DEF Lingered, AddToBatch, Empty
<1>5. OutputEnds => store' = store /\ out'.batch = out.batch /\ out'.pc = "done"
  BY <1>1 DEF OutputEnds
<1> QED BY <1>2, <1>3, <1>4, <1>5 DEF Arriving, Handling, Busy

\* After a conflict the output loop waits for the first message it has left.
LEMMA ConflictMoves ==
    ASSUME Healthy, Conflict
    PROVE  /\ UNCHANGED <<received, inLoop, lanes, output, proc, cache>> /\ Arriving' = Arriving
           /\ Handling' = Handling /\ (Busy' <=> Busy) /\ out.pc = "sink" /\ Waits'
           /\ \E cs \in Seq(Dispatched) : out'.batch \in Seq(Dispatched) /\ out.batch = cs \o out'.batch
<1>1. /\ Kept \in Nat /\ Kept < Len(out.batch) /\ Kept + 1 \in DOMAIN out.batch
      /\ Processed \in Seq(Dispatched) /\ SubSeq(out.batch, Kept + 1, Len(out.batch)) \in Seq(Dispatched)
      /\ out.batch = Processed \o SubSeq(out.batch, Kept + 1, Len(out.batch))
  BY ProcessedProperties DEF Healthy
<1>2. /\ out.batch \in Seq(Dispatched) /\ repros \in Seq(Repro) /\ reproOf \in [Msg -> 0 .. Len(repros)]
      /\ Len(repros) \in Nat
  BY LineParts DEF Healthy, Types, BookTypes
<1>3. PICK c \in Dispatched, m \in Msg : c = out.batch[Kept + 1] /\ m = c.msg /\ c.does = "store"
  <2>1. out.batch[Kept + 1] \in Dispatched /\ out.batch[Kept + 1].does = "store"
    BY <1>1, <1>2 DEF Healthy, Stores
  <2> QED BY <2>1 DEF Dispatched, Contexts
<1>4. PICK n \in Nat \ {0} : n = Len(repros) + 1
  BY <1>2
<1>5. PICK fresh \in Repro : fresh = [at |-> m, seen |-> {}, evict |-> {}]
  BY DEF Repro
<1>6. /\ UNCHANGED <<received, inLoop, lanes, output, proc, cache>> /\ out.pc = "sink"
      /\ out' = [pc |-> "requeue", batch |-> SubSeq(out.batch, Kept + 1, Len(out.batch)), waited |-> FALSE,
                 repro |-> n, sigs |-> SignalsOf(out.batch)]
      /\ repros' = [Append(repros, fresh) EXCEPT ![n] = Wrap(@, c)] /\ reproOf' = [reproOf EXCEPT ![m] = n]
  BY <1>3, <1>4, <1>5 DEF Conflict, SetAside
<1>7. /\ out'.pc = "requeue" /\ out'.batch = SubSeq(out.batch, Kept + 1, Len(out.batch)) /\ out'.repro = n
  BY <1>6
<1>8. repros'[n] = Wrap(fresh, c)
  <2>0. PICK old \in Seq(Repro) : old = Append(repros, fresh) /\ Len(old) = Len(repros) + 1 /\ old[Len(repros) + 1] = fresh
    BY <1>2, AppendProperties, ZenonT(30)
  <2>1. old = Append(repros, fresh) /\ Len(old) = n /\ old[n] = fresh
    BY <1>4, <2>0
  <2>2. n \in DOMAIN old
    BY <2>1
  <2> QED BY <1>6, <2>1, <2>2
<1>9. repros'[n].at = m /\ KeyOf[m] \in repros'[n].evict
  <2>1. Wrap(fresh, c) = [fresh EXCEPT !.seen = @ \cup {KeyOf[m]}, !.evict = @ \cup {KeyOf[m]}]
    BY <1>3, <1>5 DEF Wrap
  <2>2. Wrap(fresh, c).at = m /\ Wrap(fresh, c).evict = {} \cup {KeyOf[m]}
    BY <1>5, <2>1
  <2> QED BY <1>8, <2>2
<1>10. at' = m /\ reproOf'[m] = n
  BY <1>2, <1>6, <1>7, <1>9 DEF at
<1>11. Head(out'.batch) = c
  <2>1. PICK i \in Nat, j \in Nat : i = Kept + 1 /\ j = Len(out.batch)
    BY <1>1, <1>2
  <2>2. i \in 1 .. j
    BY <1>1, <2>1
  <2>3. SubSeq(out.batch, i, j)[1] = out.batch[i] /\ Head(SubSeq(out.batch, i, j)) = SubSeq(out.batch, i, j)[1]
    BY <1>2, <2>1, <2>2
  <2> QED BY <1>3, <1>7, <2>1, <2>3
<1>12. \A q \in Msg : reproOf'[q] = n => q = m
  <2>1. \A q \in Msg : q # m => reproOf'[q] = reproOf[q] /\ reproOf[q] \in 0 .. Len(repros)
    BY <1>2, <1>6
  <2>2. n \notin 0 .. Len(repros)
    BY <1>2, <1>4
  <2> QED BY <2>1, <2>2
<1>13. Waits'
  <2>1. KeyOf[at'] = KeyOf[m]
    BY <1>10
  <2> QED BY <1>3, <1>7, <1>9, <1>10, <1>11, <1>12, <2>1 DEF Waits, Wanted
<1> QED BY <1>1, <1>6, <1>7, <1>13 DEF Arriving, Handling, Busy

-----------------------------------------------------------------------------
(* The line before and after a step.                                       *)

\* The parts of the line that only the state says.
Ends(b, o, l, a) == b = Msgs(out.batch) /\ o = Msgs(output) /\ l = lanes.low /\ a = Arriving

\* The line, of its parts.
LEMMA ThisLine ==
    ASSUME NEW f, NEW y, NEW b, NEW o, NEW p, NEW u, NEW l, NEW a, Ends(b, o, l, a), InLine(f, y, p, u)
    PROVE  Follows(LineOf(f, y, b, o, p, u, l, a))
BY DEF InLine, Line, Ends

\* The next line, of its parts.
LEMMA NextLine ==
    ASSUME NEW f, NEW y, NEW b, NEW o, NEW p, NEW u, NEW l, NEW a, Ends(b, o, l, a)',
           NEW x, x = LineOf(f, y, b, o, p, u, l, a), Follows(x)'
    PROVE  InLine(f, y, p, u)'
BY DEF InLine, Line, Ends, Follows

\* The parts that are read off the state are sequences of messages.
LEMMA EndsExist ==
    ASSUME Types
    PROVE  \E b, o, l, a \in Seq(Msg) : Ends(b, o, l, a)
BY LineParts, Zenon DEF Ends

\* A step that neither receives nor stores keeps what follows.
LEMMA FollowsOn ==
    ASSUME NEW x, Follows(x), received' = received, store' = store
    PROVE  Follows(x)'
BY DEF Follows, After

-----------------------------------------------------------------------------
(* What is taken from the lanes, which is handled or evicted.              *)

\* LineMoves, for all parts.
LEMMA AllMove ==
    \A f, y, b, o, p, u, l, a \in Seq(Msg) : Moves(f, y, b, o, p, u, l, a)
<1> SUFFICES ASSUME NEW f \in Seq(Msg), NEW y \in Seq(Msg), NEW b \in Seq(Msg), NEW o \in Seq(Msg),
                    NEW p \in Seq(Msg), NEW u \in Seq(Msg), NEW l \in Seq(Msg), NEW a \in Seq(Msg)
             PROVE  Moves(f, y, b, o, p, u, l, a)
  OBVIOUS
<1> QED BY LineMoves

\* A line of one message.
LEMMA Single ==
    ASSUME NEW m \in Msg
    PROVE  \E w \in Seq(Msg) : w = <<m>> /\ w # <<>> /\ Head(w) = m /\ Tail(w) = <<>> /\ Append(<<>>, m) = w
<1>1. <<m>> \in Seq(Msg)
  OBVIOUS
<1>2. <<m>> # <<>> /\ Head(<<m>>) = m /\ Tail(<<m>>) = <<>> /\ Append(<<>>, m) = <<m>>
  OBVIOUS
<1> QED BY <1>1, <1>2, Zenon

\* A taken message leaves the lanes in the line.
Gets(y, b, o, u, l, a, m, u1, l1) ==
    Follows(LineOf(<<>>, y, b, o, <<>>, u, l, a)) =>
        /\ Follows(LineOf(<<>>, y, b, o, <<m>>, u1, l1, a))
        /\ Follows(LineOf(<<>>, y, b, o, <<>>, u1, l1, a))

\* A taken message is handled, or is no longer in the line.
LEMMA LineGets ==
    ASSUME NEW y \in Seq(Msg), NEW b \in Seq(Msg), NEW o \in Seq(Msg), NEW u \in Seq(Msg),
           NEW l \in Seq(Msg), NEW a \in Seq(Msg)
    PROVE  /\ u # <<>> => Gets(y, b, o, u, l, a, Head(u), Tail(u), l)
           /\ u = <<>> /\ l # <<>> => Gets(y, b, o, u, l, a, Head(l), <<>>, Tail(l))
<1>1. <<>> \in Seq(Msg)
  BY Empties
<1>2. ASSUME u # <<>> PROVE Gets(y, b, o, u, l, a, Head(u), Tail(u), l)
  <2>1. PICK m \in Msg, u1 \in Seq(Msg) : m = Head(u) /\ u1 = Tail(u)
    BY <1>2, HeadOnly
  <2>2. PICK w \in Seq(Msg) : w = <<m>> /\ Append(<<>>, m) = w
    BY Single
  <2>3. Moves(<<>>, y, b, o, <<>>, u, l, a)
    BY <1>1, AllMove, Zenon
  <2>4. LineOf(<<>>, y, b, o, <<>>, u, l, a) = LineOf(<<>>, y, b, o, <<m>>, u1, l, a)
    BY <1>2, <2>1, <2>2, <2>3, Zenon DEF Moves
  <2>5. Follows(LineOf(<<>>, y, b, o, <<m>>, u1, l, a)) => Follows(LineOf(<<>>, y, b, o, <<>>, u1, l, a))
    BY <1>1, LineWithout
  <2> QED BY <2>1, <2>4, <2>5 DEF Gets
<1>3. ASSUME u = <<>>, l # <<>> PROVE Gets(y, b, o, u, l, a, Head(l), <<>>, Tail(l))
  <2>1. PICK m \in Msg, l1 \in Seq(Msg) : m = Head(l) /\ l1 = Tail(l)
    BY <1>3, HeadOnly
  <2>2. PICK w \in Seq(Msg) : w = <<m>> /\ w # <<>> /\ Head(w) = m /\ Tail(w) = <<>> /\ Append(<<>>, m) = w
    BY Single
  <2>3. LineOf(<<>>, y, b, o, <<>>, <<>>, l, a) = LineOf(<<>>, y, b, o, <<>>, w, l1, a)
    <3>1. Moves(<<>>, y, b, o, <<>>, <<>>, l, a)
      BY <1>1, AllMove, Zenon
    <3> QED BY <1>3, <2>1, <2>2, <3>1, Zenon DEF Moves
  <2>4. LineOf(<<>>, y, b, o, <<>>, w, l1, a) = LineOf(<<>>, y, b, o, w, <<>>, l1, a)
    <3>1. Moves(<<>>, y, b, o, <<>>, w, l1, a)
      BY <1>1, AllMove, Zenon
    <3> QED BY <2>2, <3>1, Zenon DEF Moves
  <2>5. Follows(LineOf(<<>>, y, b, o, <<m>>, <<>>, l1, a)) => Follows(LineOf(<<>>, y, b, o, <<>>, <<>>, l1, a))
    BY <1>1, LineWithout
  <2>6. LineOf(<<>>, y, b, o, <<>>, u, l, a) = LineOf(<<>>, y, b, o, <<m>>, <<>>, l1, a)
    BY <1>3, <2>2, <2>3, <2>4, Zenon
  <2> QED BY <2>1, <2>5, <2>6, Zenon DEF Gets
<1> QED BY <1>2, <1>3

\* What is handled goes to the output queue, and what was put back first is handled.
Passes(f, y, b, o, p, u, l, a, m) ==
    /\ LineOf(f, y, b, o, <<m>>, u, l, a) = LineOf(f, y, b, Append(o, m), <<>>, u, l, a)
    /\ y # <<>> => LineOf(<<>>, y, b, o, p, u, l, a) = LineOf(<<Head(y)>>, Tail(y), b, o, p, u, l, a)

\* The line is the same when it goes on.
LEMMA LinePasses ==
    ASSUME NEW f \in Seq(Msg), NEW y \in Seq(Msg), NEW b \in Seq(Msg), NEW o \in Seq(Msg), NEW p \in Seq(Msg),
           NEW u \in Seq(Msg), NEW l \in Seq(Msg), NEW a \in Seq(Msg), NEW m \in Msg
    PROVE  Passes(f, y, b, o, p, u, l, a, m)
<1>1. <<>> \in Seq(Msg)
  BY Empties
<1>2. PICK w \in Seq(Msg) : w = <<m>> /\ w # <<>> /\ Head(w) = m /\ Tail(w) = <<>>
  BY Single
<1>3. Moves(f, y, b, o, w, u, l, a) /\ Moves(<<>>, y, b, o, p, u, l, a)
  BY <1>1, AllMove, Zenon
<1>4. LineOf(f, y, b, o, <<m>>, u, l, a) = LineOf(f, y, b, Append(o, m), <<>>, u, l, a)
  BY <1>2, <1>3, Zenon DEF Moves
<1>5. y # <<>> => Append(<<>>, Head(y)) = <<Head(y)>>
  <2> SUFFICES ASSUME y # <<>> PROVE Append(<<>>, Head(y)) = <<Head(y)>>
    OBVIOUS
  <2>1. PICK n \in Msg : n = Head(y)
    BY HeadOnly
  <2>2. PICK v \in Seq(Msg) : v = <<n>> /\ Append(<<>>, n) = v
    BY Single
  <2> QED BY <2>1, <2>2, Zenon
<1>6. y # <<>> => LineOf(<<>>, y, b, o, p, u, l, a) = LineOf(<<Head(y)>>, Tail(y), b, o, p, u, l, a)
  BY <1>3, <1>5, Zenon DEF Moves
<1> QED BY <1>4, <1>6, Zenon DEF Passes

\* What is received comes last.
LEMMA FollowsAppended ==
    ASSUME Types, InBounds, NEW x \in Seq(Msg), Follows(x), NEW m \in Msg, m = received + 1, received' = m, store' = store
    PROVE  Follows(Append(x, m))'
<1>1. PICK z \in Seq(Msg) : z = Append(x, m) /\ ToSet(z) = ToSet(x) \cup {m}
  <2>1. Append(x, m) \in Seq(Msg)
    BY AppendProperties
  <2>2. ToSet(Append(x, m)) = ToSet(x) \cup {m}
    BY ToSetAppend
  <2> QED BY <2>1, <2>2, Zenon
<1>2. received \in Nat /\ m \in Nat /\ ToSet(x) \subseteq Msg /\ Msg \subseteq Nat
  BY LineParts, ConstantsFacts DEF ToSet
<1>3. \A e \in ToSet(x) : e \in Nat /\ e <= received /\ e < m
  <2>1. ASSUME NEW e \in ToSet(x) PROVE e \in Nat /\ e <= received
    BY <1>2, <2>1 DEF Follows, After
  <2>2. \A e \in Nat : e <= received => e < m
    BY <1>2
  <2> QED BY <2>1, <2>2
<1>4. Increasing(z)
  <2>1. x \in Seq(Nat)
    BY MsgSeq
  <2> QED BY <1>1, <1>2, <1>3, <2>1, IncreasingAppend DEF Follows
<1>5. After(m)'
  <2>1. \A k \in Key : \A e \in ToSet(store[k]) : e < m
    <3>1. ASSUME NEW k \in Key, NEW e \in ToSet(store[k]) PROVE e < m
      <4>1. e <= received
        BY DEF InBounds
      <4>2. e \in Nat
        <5>1. store[k] \in Logs
          BY DEF Types, StateTypes
        <5>2. e \in Msg \cup {Other}
          BY <5>1 DEF Logs, ToSet
        <5> QED BY <1>2, <5>2 DEF Other
      <4> QED BY <1>2, <4>1, <4>2
    <3> QED BY <3>1
  <2> QED BY <1>2, <2>1 DEF After
<1>6. \A e \in ToSet(x) : After(e)'
  <2>1. \A e \in ToSet(x) : e <= received'
    BY <1>2, <1>3
  <2> QED BY <2>1 DEF Follows, After
<1>7. Follows(z)'
  BY <1>1, <1>4, <1>5, <1>6 DEF Follows
<1> QED BY <1>1, <1>7

-----------------------------------------------------------------------------
(* What each step does to the line.                                        *)

\* What flows to the low lane keeps the line.
LEMMA LineFlows ==
    ASSUME Healthy, Flows, NEW f \in Seq(Msg), NEW y \in Seq(Msg), NEW p \in Seq(Msg), NEW u \in Seq(Msg),
           InLine(f, y, p, u)
    PROVE  InLine(f, y, p, u)'
<1>1. PICK b, o, l, a \in Seq(Msg) : Ends(b, o, l, a)
  BY EndsExist DEF Healthy
<1>2. PICK x \in Seq(Msg) : x = LineOf(f, y, b, o, p, u, l, a) /\ Follows(x)
  BY <1>1, ThisLine, LineType
<1>3. /\ UNCHANGED <<output, out>> /\ received' \in Nat
      /\ \/ received' >= received /\ store' = store
         \/ received' = received /\ \E k \in Key : store' = [store EXCEPT ![k] = Append(@, Other)]
  BY FlowMoves
<1>4. Msgs(out.batch)' = b /\ Msgs(output)' = o
  BY <1>1, <1>3 DEF Ends, Msgs
<1>5. Follows(x)'
  BY <1>2, <1>3, FollowsKept DEF Healthy
<1>6. CASE lanes'.low = lanes.low /\ Arriving' = Arriving
  <2>1. Ends(b, o, l, a)'
    BY <1>1, <1>4, <1>6 DEF Ends
  <2> QED BY <1>2, <1>5, <2>1, NextLine
<1>7. CASE Arriving # <<>> /\ lanes'.low = Append(lanes.low, Head(Arriving)) /\ Arriving' = Tail(Arriving)
  <2>1. a # <<>> /\ lanes'.low = Append(l, Head(a)) /\ Arriving' = Tail(a)
    BY <1>1, <1>7 DEF Ends
  <2>2. Ends(b, o, Append(l, Head(a)), Tail(a))'
    BY <1>4, <2>1 DEF Ends
  <2>3. Moves(f, y, b, o, p, u, l, a)
    BY AllMove, Zenon
  <2>4. x = LineOf(f, y, b, o, p, u, Append(l, Head(a)), Tail(a))
    BY <1>2, <2>1, <2>3, Zenon DEF Moves
  <2>5. PICK l1, a1 : l1 = Append(l, Head(a)) /\ a1 = Tail(a)
    OBVIOUS
  <2>6. Ends(b, o, l1, a1)' /\ x = LineOf(f, y, b, o, p, u, l1, a1)
    BY <2>2, <2>4, <2>5
  <2> QED BY <1>5, <2>6, NextLine
<1>8. ASSUME NEW m \in Msg, m = received + 1, received' = m, store' = store, Arriving = <<>>,
             \/ lanes'.low = Append(lanes.low, m) /\ Arriving' = <<>>
             \/ lanes'.low = lanes.low /\ Arriving' = <<m>>
      PROVE  InLine(f, y, p, u)'
  <2>1. a = <<>> /\ x = LineOf(f, y, b, o, p, u, l, <<>>)
    BY <1>1, <1>2, <1>8 DEF Ends
  <2>2. PICK z \in Seq(Msg) : z = Append(x, m)
    BY AppendProperties
  <2>3. Follows(z)'
    BY <1>2, <1>8, <2>2, FollowsAppended DEF Healthy
  <2>4. /\ LineOf(f, y, b, o, p, u, Append(l, m), <<>>) = z
        /\ LineOf(f, y, b, o, p, u, l, <<m>>) = z
    <3>1. Joins(f, y, b, o, p, u, l, m)
      BY LineEnds
    <3> QED BY <2>1, <2>2, <3>1, Zenon DEF Joins
  <2>5. CASE lanes'.low = Append(lanes.low, m) /\ Arriving' = <<>>
    <3>1. PICK l1 : l1 = Append(l, m)
      OBVIOUS
    <3>2. Ends(b, o, l1, <<>>)'
      BY <1>1, <1>4, <2>5, <3>1 DEF Ends
    <3>3. z = LineOf(f, y, b, o, p, u, l1, <<>>)
      BY <2>4, <3>1
    <3> QED BY <2>3, <3>2, <3>3, NextLine
  <2>6. CASE lanes'.low = lanes.low /\ Arriving' = <<m>>
    <3>1. PICK a1 : a1 = <<m>>
      OBVIOUS
    <3>2. Ends(b, o, l, a1)'
      BY <1>1, <1>4, <2>6, <3>1 DEF Ends
    <3>3. z = LineOf(f, y, b, o, p, u, l, a1)
      BY <2>4, <3>1
    <3> QED BY <2>3, <3>2, <3>3, NextLine
  <2> QED BY <1>8, <2>5, <2>6
<1> QED BY <1>6, <1>7, <1>8, FlowMoves

\* Nothing moves when a message is handled, a batch lingers no more or the
\* output loop ends.
LEMMA LineStays ==
    ASSUME Healthy, Handle \/ Lingered \/ OutputEnds, NEW f, NEW y, NEW p, NEW u, InLine(f, y, p, u)
    PROVE  InLine(f, y, p, u)'
<1>1. PICK b, o, l, a \in Seq(Msg) : Ends(b, o, l, a)
  BY EndsExist DEF Healthy
<1>2. PICK x : x = LineOf(f, y, b, o, p, u, l, a) /\ Follows(x)
  BY <1>1, ThisLine
<1>3. UNCHANGED <<received, lanes, output, store>> /\ out'.batch = out.batch /\ Arriving' = Arriving
  BY HandleMoves, SinkMoves DEF Lingered, OutputEnds
<1>4. Ends(b, o, l, a)'
  BY <1>1, <1>3 DEF Ends, Msgs
<1> QED BY <1>2, <1>3, <1>4, FollowsOn, NextLine

\* An offered context is the last one of the output queue.
LEMMA LineOffers ==
    ASSUME Healthy, Offer, NEW f \in Seq(Msg), NEW y \in Seq(Msg), NEW p \in Seq(Msg), NEW u \in Seq(Msg),
           p = Handling, InLine(f, y, p, u)
    PROVE  InLine(f, y, <<>>, u)'
<1>1. PICK b, o, l, a \in Seq(Msg) : Ends(b, o, l, a)
  BY EndsExist DEF Healthy
<1>2. PICK x : x = LineOf(f, y, b, o, p, u, l, a) /\ Follows(x)
  BY <1>1, ThisLine
<1>3. /\ UNCHANGED <<received, lanes, out, store>> /\ Arriving' = Arriving /\ Handling = <<proc.msg>>
      /\ output' = Append(output, proc.context) /\ proc.context \in Dispatched /\ proc.context.msg = proc.msg
  BY OfferMoves
<1>4. PICK m \in Msg : m = proc.context.msg
  BY <1>3 DEF Dispatched, Contexts
<1>5. p = <<m>>
  BY <1>3, <1>4
<1>6. Msgs(output') = Append(o, m)
  <2>1. output \in Seq(Dispatched) /\ o = Msgs(output)
    BY <1>1, LineParts DEF Healthy, Ends
  <2> QED BY <1>3, <1>4, <2>1, MsgsAppend
<1>7. PICK o1 : o1 = Append(o, m)
  OBVIOUS
<1>8. Msgs(output)' = o1 /\ Msgs(out.batch)' = b /\ lanes'.low = l
  BY <1>1, <1>3, <1>6, <1>7 DEF Ends, Msgs
<1>9. Ends(b, o1, l, a)'
  BY <1>1, <1>3, <1>8 DEF Ends
<1>10. x = LineOf(f, y, b, o1, <<>>, u, l, a)
  <2>1. Passes(f, y, b, o, p, u, l, a, m)
    BY LinePasses
  <2> QED BY <1>2, <1>5, <1>7, <2>1, Zenon DEF Passes
<1>11. Follows(x)'
  BY <1>2, <1>3, FollowsOn
<1> QED BY <1>9, <1>10, <1>11, NextLine

\* The output loop takes from the output queue what the batch gets.
LEMMA LineOutputs ==
    ASSUME Healthy, TakeOutput \/ Skip, NEW f \in Seq(Msg), NEW y \in Seq(Msg), NEW p \in Seq(Msg), NEW u \in Seq(Msg),
           InLine(f, y, p, u)
    PROVE  InLine(f, y, p, u)'
<1>1. PICK b, o, l, a \in Seq(Msg) : Ends(b, o, l, a)
  BY EndsExist DEF Healthy
<1>2. PICK x : x = LineOf(f, y, b, o, p, u, l, a) /\ Follows(x)
  BY <1>1, ThisLine
<1>3. /\ UNCHANGED <<received, lanes, store>> /\ Arriving' = Arriving /\ output # <<>> /\ output' = Tail(output)
      /\ Head(output) \in Dispatched
      /\ out'.batch = Append(out.batch, Head(output)) \/ (out.batch = <<>> /\ out'.batch = <<Head(output)>>)
  BY OutputMoves
<1>4. PICK c \in Dispatched : c = Head(output)
  BY <1>3
<1>5. output \in Seq(Dispatched) /\ out.batch \in Seq(Dispatched) /\ b = Msgs(out.batch) /\ o = Msgs(output)
  BY <1>1, LineParts DEF Healthy, Ends
<1>6. out'.batch = Append(out.batch, c)
  <2>1. Append(<<>>, c) = <<c>>
    OBVIOUS
  <2> QED BY <1>3, <1>4, <2>1
<1>7. Msgs(out'.batch) = Append(b, c.msg)
  BY <1>5, <1>6, MsgsAppend
<1>8. o # <<>> /\ Head(o) = c.msg /\ Msgs(output') = Tail(o)
  BY <1>3, <1>4, <1>5, MsgsProperties
<1>9. PICK b1, o1 : b1 = Append(b, Head(o)) /\ o1 = Tail(o)
  OBVIOUS
<1>10. Msgs(output)' = o1 /\ Msgs(out.batch)' = b1 /\ lanes'.low = l
  BY <1>1, <1>3, <1>7, <1>8, <1>9 DEF Ends, Msgs
<1>11. Ends(b1, o1, l, a)'
  BY <1>1, <1>3, <1>10 DEF Ends
<1>12. x = LineOf(f, y, b1, o1, p, u, l, a)
  <2>1. Moves(f, y, b, o, p, u, l, a)
    BY AllMove, Zenon
  <2> QED BY <1>2, <1>8, <1>9, <2>1, Zenon DEF Moves
<1>13. Follows(x)'
  BY <1>2, <1>3, FollowsOn
<1> QED BY <1>11, <1>12, <1>13, NextLine

\* What is put back passes from the batch to the end of y.
LEMMA LinePutsBack ==
    ASSUME Healthy, PutBack, NEW f \in Seq(Msg), NEW y \in Seq(Msg), NEW p \in Seq(Msg), NEW u \in Seq(Msg),
           InLine(f, y, p, u), NEW y1, y1 = Append(y, Head(out.batch).msg)
    PROVE  InLine(f, y1, p, u)'
<1>1. PICK b, o, l, a \in Seq(Msg) : Ends(b, o, l, a)
  BY EndsExist DEF Healthy
<1>2. PICK x : x = LineOf(f, y, b, o, p, u, l, a) /\ Follows(x)
  BY <1>1, ThisLine
<1>3. /\ UNCHANGED <<received, output, store>> /\ Arriving' = Arriving /\ lanes'.low = lanes.low
      /\ out.batch # <<>> /\ out'.batch = Tail(out.batch)
  BY PutBackMoves
<1>4. out.batch \in Seq(Dispatched) /\ b = Msgs(out.batch) /\ o = Msgs(output) /\ l = lanes.low /\ a = Arriving
  BY <1>1, LineParts DEF Healthy, Ends
<1>5. b # <<>> /\ Head(b) = Head(out.batch).msg /\ Msgs(out'.batch) = Tail(b)
  BY <1>3, <1>4, MsgsProperties
<1>6. PICK b1 : b1 = Tail(b)
  OBVIOUS
<1>7. Msgs(output)' = o /\ Msgs(out.batch)' = b1
  BY <1>3, <1>4, <1>5, <1>6 DEF Msgs
<1>8. Ends(b1, o, l, a)'
  BY <1>3, <1>4, <1>7 DEF Ends
<1>9. x = LineOf(f, y1, b1, o, p, u, l, a)
  <2>1. Moves(f, y, b, o, p, u, l, a)
    BY AllMove, Zenon
  <2> QED BY <1>2, <1>5, <1>6, <2>1, Zenon DEF Moves
<1>10. Follows(x)'
  BY <1>2, <1>3, FollowsOn
<1> QED BY <1>8, <1>9, <1>10, NextLine

\* What is left of the high lane, u first and then y, without the message taken.
Takes(m, u, y, u1, y1) ==
    /\ u # <<>> => /\ m = Head(u) /\ lanes'.high = u1 \o y
                   /\ InLine(<<>>, y, <<m>>, u1)' /\ InLine(<<>>, y, <<>>, u1)'
    /\ u = <<>> /\ y # <<>> => m = Head(y) /\ lanes'.high = y1 /\ InLine(<<m>>, y1, <<>>, <<>>)'
    /\ u = <<>> /\ y = <<>> => /\ lanes'.high = <<>>
                               /\ InLine(<<>>, <<>>, <<m>>, <<>>)' /\ InLine(<<>>, <<>>, <<>>, <<>>)'

\* Taking the head of the high lane, or of the low one.
LEMMA LineTakes ==
    ASSUME Healthy, Take, NEW y \in Seq(Msg), NEW u \in Seq(Msg), lanes.high = u \o y, InLine(<<>>, y, Handling, u),
           NEW m \in Msg, m = Head(Pending), NEW u1, u1 = Tail(u), NEW y1, y1 = Tail(y)
    PROVE  Takes(m, u, y, u1, y1)
<1>1. PICK b, o, l, a \in Seq(Msg) : Ends(b, o, l, a)
  BY EndsExist DEF Healthy
<1>2. /\ UNCHANGED <<received, output, out, store>> /\ Handling = <<>> /\ Arriving' = Arriving
      /\ \/ lanes.high # <<>> /\ m = Head(lanes.high) /\ lanes'.high = Tail(lanes.high) /\ lanes'.low = lanes.low
         \/ /\ lanes.high = <<>> /\ lanes.low # <<>> /\ m = Head(lanes.low)
            /\ lanes'.high = <<>> /\ lanes'.low = Tail(lanes.low)
  BY TakeMoves
<1>3. <<>> \in Seq(Msg)
  BY Empties
<1>4. PICK x : x = LineOf(<<>>, y, b, o, <<>>, u, l, a) /\ Follows(x)
  <2>1. InLine(<<>>, y, <<>>, u)
    BY <1>2
  <2> QED BY <1>1, <2>1, ThisLine
<1>5. Msgs(out.batch)' = b /\ Msgs(output)' = o
  BY <1>1, <1>2 DEF Ends, Msgs
<1>6. PICK w : w = <<m>>
  OBVIOUS
<1>7. ASSUME NEW f1, NEW y2, NEW p1, NEW u2, NEW l1, lanes'.low = l1, Follows(LineOf(f1, y2, b, o, p1, u2, l1, a))
      PROVE  InLine(f1, y2, p1, u2)'
  <2>1. PICK z : z = LineOf(f1, y2, b, o, p1, u2, l1, a)
    OBVIOUS
  <2>2. Follows(z)'
    BY <1>2, <1>7, <2>1, FollowsOn
  <2>3. Ends(b, o, l1, a)'
    BY <1>1, <1>2, <1>5, <1>7 DEF Ends
  <2> QED BY <2>1, <2>2, <2>3, NextLine
<1>8. ASSUME u # <<>>
      PROVE  /\ m = Head(u) /\ lanes'.high = u1 \o y /\ InLine(<<>>, y, w, u1)' /\ InLine(<<>>, y, <<>>, u1)'
  <2>1. lanes.high # <<>> /\ Head(lanes.high) = Head(u) /\ Tail(lanes.high) = u1 \o y
    <3>1. PICK h \in Seq(Msg) : h = u \o y
      BY ConcatProperties
    <3>2. h # <<>> /\ Head(h) = Head(u) /\ Tail(h) = u1 \o y
      BY <1>8, <3>1, TailConcat, ZenonT(30)
    <3> QED BY <3>1, <3>2
  <2>2. m = Head(u) /\ lanes'.high = u1 \o y /\ lanes'.low = l
    BY <1>1, <1>2, <2>1 DEF Ends
  <2>3. Gets(y, b, o, u, l, a, Head(u), Tail(u), l)
    BY <1>8, LineGets
  <2>4. Follows(LineOf(<<>>, y, b, o, w, u1, l, a)) /\ Follows(LineOf(<<>>, y, b, o, <<>>, u1, l, a))
    BY <1>4, <1>6, <2>2, <2>3, Zenon DEF Gets
  <2> QED BY <1>7, <2>2, <2>4
<1>9. ASSUME u = <<>>, y # <<>>
      PROVE  m = Head(y) /\ lanes'.high = y1 /\ InLine(w, y1, <<>>, <<>>)'
  <2>1. lanes.high = y
    BY <1>9, Empties
  <2>2. m = Head(y) /\ lanes'.high = y1 /\ lanes'.low = l
    BY <1>1, <1>2, <1>9, <2>1 DEF Ends
  <2>3. Passes(<<>>, y, b, o, <<>>, <<>>, l, a, m)
    BY <1>3, LinePasses
  <2>4. Follows(LineOf(w, y1, b, o, <<>>, <<>>, l, a))
    BY <1>4, <1>6, <1>9, <2>2, <2>3, Zenon DEF Passes
  <2> QED BY <1>7, <2>2, <2>4
<1>10. ASSUME u = <<>>, y = <<>>
       PROVE  lanes'.high = <<>> /\ InLine(<<>>, <<>>, w, <<>>)' /\ InLine(<<>>, <<>>, <<>>, <<>>)'
  <2>1. lanes.high = <<>>
    BY <1>3, <1>10, Empties
  <2>2. l # <<>> /\ m = Head(l) /\ lanes'.high = <<>> /\ lanes'.low = Tail(l)
    BY <1>1, <1>2, <2>1 DEF Ends
  <2>3. Gets(y, b, o, u, l, a, Head(l), <<>>, Tail(l))
    BY <1>10, <2>2, LineGets
  <2>4. PICK l1 : l1 = Tail(l)
    OBVIOUS
  <2>5. Follows(LineOf(<<>>, <<>>, b, o, w, <<>>, l1, a)) /\ Follows(LineOf(<<>>, <<>>, b, o, <<>>, <<>>, l1, a))
    BY <1>4, <1>6, <1>10, <2>2, <2>3, <2>4, Zenon DEF Gets
  <2> QED BY <1>7, <2>2, <2>4, <2>5
<1> QED BY <1>6, <1>8, <1>9, <1>10 DEF Takes

\* Storing a batch leaves the line without it, after all that is stored.
LEMMA LineStores ==
    ASSUME Healthy, SinkBatch \/ Conflict, StoredOnceInOrder, NEW p \in Seq(Msg), NEW u \in Seq(Msg),
           InLine(<<>>, <<>>, p, u)
    PROVE  StoredOnceInOrder' /\ InBounds' /\ InLine(<<>>, <<>>, p, u)'
<1>1. PICK b, o, l, a \in Seq(Msg) : Ends(b, o, l, a)
  BY EndsExist DEF Healthy
<1>2. Follows(LineOf(<<>>, <<>>, b, o, p, u, l, a))
  BY <1>1, ThisLine
<1>3. PICK r \in Seq(Msg) : r = o \o (p \o (u \o (l \o a)))
  <2>c. \A x1, x2 \in Seq(Msg) : x1 \o x2 \in Seq(Msg)
    BY ConcatProperties
  <2>1. PICK s1 \in Seq(Msg) : s1 = l \o a
    BY <2>c
  <2>2. PICK s2 \in Seq(Msg) : s2 = u \o s1
    BY <2>c
  <2>3. PICK s3 \in Seq(Msg) : s3 = p \o s2
    BY <2>c
  <2>4. o \o s3 \in Seq(Msg)
    BY <2>c
  <2> QED BY <2>1, <2>2, <2>3, <2>4, Zenon
<1>4. \A c \in Seq(Msg) : LineOf(<<>>, <<>>, c, o, p, u, l, a) = c \o r
  <2>1. ASSUME NEW c \in Seq(Msg) PROVE LineOf(<<>>, <<>>, c, o, p, u, l, a) = c \o r
    <3>1. PICK q \in Seq(Msg) : q = c \o r
      BY ConcatProperties
    <3>2. <<>> \o q = q
      BY Empties
    <3> QED BY <1>3, <3>1, <3>2, Zenon DEF LineOf
  <2> QED BY <2>1
<1>5. Follows(Msgs(out.batch) \o r)
  <2>1. LineOf(<<>>, <<>>, b, o, p, u, l, a) = b \o r
    BY <1>4
  <2> QED BY <1>1, <1>2, <2>1, Zenon DEF Ends
<1>6. /\ StoredOnceInOrder' /\ InBounds'
      /\ \E bs \in Seq(Msg) : bs = Msgs(out'.batch) /\ Follows(bs \o r)'
  BY <1>5, SinkStores DEF Healthy
<1>7. PICK bs \in Seq(Msg) : bs = Msgs(out'.batch) /\ Follows(bs \o r)'
  BY <1>6
<1>8. UNCHANGED <<lanes, output>> /\ Arriving' = Arriving
  BY SinkMoves, ConflictMoves
<1>9. Ends(bs, o, l, a)'
  BY <1>1, <1>7, <1>8 DEF Ends, Msgs
<1>10. PICK x : x = bs \o r
  OBVIOUS
<1>11. Follows(x)'
  BY <1>7, <1>10 DEF Follows
<1>12. x = LineOf(<<>>, <<>>, bs, o, p, u, l, a)
  BY <1>4, <1>10
<1> QED BY <1>6, <1>9, <1>11, <1>12, NextLine

-----------------------------------------------------------------------------
(* How much is between the low lane and the sink.                          *)

\* How long sequences are.
LEMMA Lens ==
    ASSUME NEW S, NEW s \in Seq(S)
    PROVE  /\ Len(s) \in Nat /\ (s # <<>> => Len(s) >= 1 /\ Len(Tail(s)) = Len(s) - 1)
           /\ \A e \in S : Len(Append(s, e)) = Len(s) + 1
OBVIOUS

\* One message at most is handled.
LEMMA HandlingLen == Len(Handling) = IF Busy THEN 1 ELSE 0
BY DEF Handling

\* So it is after a step.
LEMMA NextHandlingLen == Len(Handling') = IF Busy' THEN 1 ELSE 0
BY DEF Handling

\* No step breaks Fits: only a message of the low lane adds to what is there, when
\* the high lane is empty.
LEMMA FitsStep ==
    ASSUME Healthy, Fits,
           Flows \/ Take \/ Handle \/ Offer \/ TakeOutput \/ Skip \/ Lingered \/ SinkBatch \/ Conflict \/ PutBack \/ OutputEnds
    PROVE  Fits'
<1>1. /\ out.batch \in Seq(Dispatched) /\ output \in Seq(Dispatched) /\ lanes.high \in Seq(Msg)
      /\ Len(out.batch) <= MaxBatch /\ Len(output) <= OutputCapacity /\ MaxBatch \in Nat /\ OutputCapacity \in Nat
  BY LineParts, ConstantsFacts DEF Healthy, Types, OutTypes, QueueTypes
<1>2. PICK b, o, p, u, M, C \in Nat : /\ b = Len(out.batch) /\ o = Len(output) /\ p = Len(Handling) /\ u = Len(lanes.high)
                                     /\ M = MaxBatch /\ C = OutputCapacity /\ p = IF Busy THEN 1 ELSE 0
  <2>1. Len(out.batch) \in Nat /\ Len(output) \in Nat /\ Len(lanes.high) \in Nat
    BY <1>1, Lens
  <2>2. Len(Handling) \in Nat
    BY HandlingLen
  <2> QED BY <1>1, <2>1, <2>2, HandlingLen
<1>3. b + o + p + u <= M + C + 1 /\ b <= M /\ o <= C
  BY <1>1, <1>2 DEF Fits
<1>4. ASSUME NEW b2 \in Nat, NEW o2 \in Nat, NEW p2 \in Nat, NEW u2 \in Nat, b2 + o2 + p2 + u2 <= M + C + 1,
             b2 = Len(out'.batch), o2 = Len(output'), p2 = Len(Handling'), u2 = Len(lanes'.high)
      PROVE  Fits'
  BY <1>2, <1>4 DEF Fits
<1>5. CASE Flows \/ Handle
  <2>1. Len(out'.batch) = b /\ Len(output') = o /\ Len(Handling') = p /\ Len(lanes'.high) = u
    BY <1>2, <1>5, FlowMoves, HandleMoves
  <2> QED BY <1>3, <1>4, <2>1
<1>6. CASE Take
  <2>1. UNCHANGED <<output, out>> /\ ~Busy
    BY <1>6, TakeMoves
  <2>2. PICK p2 \in {0, 1} : p2 = Len(Handling') /\ p = 0
    BY <1>2, <2>1, NextHandlingLen
  <2>3. (lanes.high # <<>> /\ lanes'.high = Tail(lanes.high)) \/ lanes'.high = <<>>
    BY <1>6, TakeMoves
  <2>4. CASE lanes.high # <<>> /\ lanes'.high = Tail(lanes.high)
    <3>1. u >= 1 /\ Len(lanes'.high) = u - 1
      BY <1>1, <1>2, <2>4, Lens
    <3>2. u - 1 \in Nat /\ b + o + p2 + (u - 1) <= M + C + 1
      BY <1>3, <2>2, <3>1
    <3> QED BY <1>2, <1>4, <2>1, <2>2, <3>1, <3>2
  <2>5. CASE lanes'.high = <<>>
    <3>1. Len(lanes'.high) = 0
      BY <2>5
    <3>2. b + o + p2 + 0 <= M + C + 1
      BY <1>3, <2>2
    <3> QED BY <1>2, <1>4, <2>1, <2>2, <3>1, <3>2
  <2> QED BY <2>3, <2>4, <2>5
<1>7. CASE Offer
  <2>1. UNCHANGED <<lanes, out>> /\ Busy /\ ~Busy' /\ output' = Append(output, proc.context) /\ proc.context \in Dispatched
    BY <1>7, OfferMoves
  <2>2. PICK p2 \in Nat : p2 = 0 /\ p = 1 /\ p2 = Len(Handling')
    BY <1>2, <2>1, NextHandlingLen
  <2>3. PICK o2 \in Nat : o2 = o + 1 /\ o2 = Len(output')
    BY <1>1, <1>2, <2>1, Lens
  <2>4. b + o2 + p2 + u <= M + C + 1
    BY <1>3, <2>2, <2>3
  <2>5. b = Len(out'.batch) /\ u = Len(lanes'.high)
    BY <1>2, <2>1
  <2> QED BY <1>4, <2>2, <2>3, <2>4, <2>5, Zenon
<1>8. CASE TakeOutput \/ Skip
  <2>1. /\ UNCHANGED lanes /\ Handling' = Handling /\ output # <<>> /\ output' = Tail(output) /\ Head(output) \in Dispatched
        /\ out'.batch = Append(out.batch, Head(output)) \/ (out.batch = <<>> /\ out'.batch = <<Head(output)>>)
    BY <1>8, OutputMoves
  <2>2. o >= 1 /\ Len(output') = o - 1
    BY <1>1, <1>2, <2>1, Lens
  <2>3. Len(out'.batch) = b + 1
    <3>1. CASE out'.batch = Append(out.batch, Head(output))
      BY <1>1, <1>2, <2>1, <3>1, Lens
    <3>2. CASE out.batch = <<>> /\ out'.batch = <<Head(output)>>
      <4>1. Len(<<Head(output)>>) = 1 /\ Len(<<>>) = 0
        OBVIOUS
      <4>2. b = 0 /\ Len(out'.batch) = 1
        BY <1>2, <3>2, <4>1, Zenon
      <4> QED BY <4>2
    <3> QED BY <2>1, <3>1, <3>2
  <2>4. o - 1 \in Nat /\ b + 1 \in Nat /\ (b + 1) + (o - 1) + p + u <= M + C + 1
    BY <1>3, <2>2
  <2> QED BY <1>2, <1>4, <2>1, <2>2, <2>3, <2>4
<1>9. CASE Lingered \/ SinkBatch \/ OutputEnds
  <2>1. UNCHANGED <<lanes, output>> /\ Handling' = Handling /\ (out'.batch = out.batch \/ out'.batch = <<>>)
    BY <1>9, SinkMoves
  <2>2. Len(out'.batch) = b \/ Len(out'.batch) = 0
    BY <1>2, <2>1
  <2>3. 0 + o + p + u <= M + C + 1
    BY <1>3
  <2> QED BY <1>2, <1>3, <1>4, <2>1, <2>2, <2>3
<1>10. CASE Conflict
  <2>1. /\ UNCHANGED <<lanes, output>> /\ Handling' = Handling
        /\ \E cs \in Seq(Dispatched) : out'.batch \in Seq(Dispatched) /\ out.batch = cs \o out'.batch
    BY <1>10, ConflictMoves
  <2>2. PICK cs, ds \in Seq(Dispatched) : ds = out'.batch /\ out.batch = cs \o ds
    BY <2>1
  <2>3. PICK n, k \in Nat : n = Len(cs) /\ k = Len(ds) /\ b = n + k
    <3>1. Len(cs) \in Nat /\ Len(ds) \in Nat
      BY Lens
    <3>2. Len(cs \o ds) = Len(cs) + Len(ds)
      BY ConcatProperties
    <3> QED BY <1>2, <2>2, <3>1, <3>2
  <2>4. k + o + p + u <= M + C + 1
    BY <1>3, <2>3
  <2> QED BY <1>2, <1>4, <2>1, <2>2, <2>3, <2>4
<1>11. CASE PutBack
  <2>1. /\ UNCHANGED output /\ Handling' = Handling /\ out.batch # <<>> /\ Head(out.batch) \in Dispatched
        /\ lanes'.high = Append(lanes.high, Head(out.batch).msg) /\ out'.batch = Tail(out.batch)
    BY <1>11, PutBackMoves
  <2>2. b >= 1 /\ Len(out'.batch) = b - 1
    BY <1>1, <1>2, <2>1, Lens
  <2>3. Len(lanes'.high) = u + 1
    <3>1. Head(out.batch).msg \in Msg
      BY <2>1 DEF Dispatched, Contexts
    <3> QED BY <1>1, <1>2, <2>1, <3>1, Lens
  <2>4. b - 1 \in Nat /\ u + 1 \in Nat /\ (b - 1) + o + p + (u + 1) <= M + C + 1
    BY <1>3, <2>2
  <2> QED BY <1>2, <1>4, <2>1, <2>2, <2>3, <2>4
<1> QED BY <1>5, <1>6, <1>7, <1>8, <1>9, <1>10, <1>11

-----------------------------------------------------------------------------
(* The shapes after a step.                                                *)

\* Straight after a step, of its parts.
LEMMA NextStraight ==
    ASSUME NEW p, NEW u, p = Handling', u = lanes'.high, InLine(<<>>, <<>>, p, u)',
           out'.repro # 0 => Waits' \/ Returns'
    PROVE  Straight'
<1>1. InLine(<<>>, <<>>, Handling, lanes.high)'
  BY DEF InLine, Line, Follows
<1> QED BY <1>1 DEF Straight

\* Turned after a step, of its parts.
LEMMA NextTurned ==
    ASSUME NEW p, NEW u \in Seq(Msg), NEW y \in Seq(Msg), p = Handling', lanes'.high = u \o y, InLine(<<>>, y, p, u)',
           y # <<>>, Head(y) = at', out'.repro # 0, Wanted', \A i \in DOMAIN u : reproOf'[u[i]] # out'.repro
    PROVE  Turned'
<1>1. InLine(<<>>, y, Handling, u)'
  BY DEF InLine, Line, Follows
<1> QED BY <1>1 DEF Turned

\* Back after a step, of its parts.
LEMMA NextBack ==
    ASSUME NEW m, NEW u, u = lanes'.high, m = at', out'.repro # 0, proc'.pc = "dispatch", proc'.msg = m,
           cache'[KeyOf[m]] = {}, InLine(<<m>>, u, <<>>, <<>>)'
    PROVE  Back'
<1>1. InLine(<<at>>, lanes.high, <<>>, <<>>)'
  BY DEF InLine, Line, Follows
<1> QED BY <1>1 DEF Back

\* The output loop goes on to wait for the same message, unless it is taken.
LEMMA WaitsForIt ==
    ASSUME Types, [Next]_vars, out.repro # 0, out'.repro = out.repro
    PROVE  /\ at' = at /\ at \in Msg
           /\ /\ Wanted
              /\ ~(Take /\ reproOf[Head(Pending)] = out.repro)
              /\ \/ reproOf' = reproOf
                 \/ \E m \in Msg : reproOf' = [reproOf EXCEPT ![m] = out.repro]
              => Wanted'
<1>1. out.repro \in DOMAIN repros /\ at \in Msg /\ reproOf \in [Msg -> 0 .. Len(repros)]
  BY LineParts DEF Types, BookTypes
<1>2. /\ repros'[out.repro].at = repros[out.repro].at
      /\ repros[out.repro].evict \subseteq repros'[out.repro].evict \/ (Take /\ out.repro = reproOf[Head(Pending)])
  BY <1>1, ReproKept
<1>3. at' = at
  BY <1>2 DEF at
<1>4. ASSUME Wanted, ~(Take /\ reproOf[Head(Pending)] = out.repro),
             \/ reproOf' = reproOf
             \/ \E m \in Msg : reproOf' = [reproOf EXCEPT ![m] = out.repro]
      PROVE  Wanted'
  <2>1. PICK q \in Msg : q = at /\ at' = q
    BY <1>1, <1>3
  <2>2. reproOf[q] = out.repro /\ KeyOf[q] \in repros[out.repro].evict
    BY <1>4, <2>1 DEF Wanted
  <2>3. reproOf'[q] = out.repro
    BY <1>1, <1>4, <2>2
  <2>4. KeyOf[q] \in repros'[out.repro].evict
    BY <1>2, <1>4, <2>2
  <2> QED BY <2>1, <2>3, <2>4 DEF Wanted
<1> QED BY <1>1, <1>3, <1>4

\* The steps while nothing fails.
Step == Flows \/ Take \/ Handle \/ Offer \/ TakeOutput \/ Skip \/ Lingered \/ SinkBatch \/ Conflict \/ PutBack \/ OutputEnds

\* A context in the output queue or the batch is not of a message in the high lane.
LEMMA Elsewhere ==
    ASSUME Healthy, NEW m \in Msg, m \in ToSet(Msgs(output)) \/ m \in ToSet(Msgs(out.batch)) \/ (Busy /\ proc.msg = m)
    PROVE  m \notin ToSet(lanes.high) /\ m \notin ToSet(lanes.low)
BY OnePlace DEF Healthy

\* The first context is one of them.
LEMMA HeadIn ==
    ASSUME NEW cs \in Seq(Dispatched), cs # <<>>
    PROVE  Head(cs) \in Dispatched /\ Head(cs).msg \in Msg /\ Head(cs).msg \in ToSet(Msgs(cs))
<1>1. PICK s \in Seq(Msg) : s = Msgs(cs) /\ s # <<>> /\ Head(s) = Head(cs).msg
  BY MsgsProperties
<1>2. 1 \in DOMAIN s /\ Head(s) = s[1] /\ s[1] \in Msg
  BY <1>1
<1>3. Head(cs) \in Dispatched
  BY SequenceEnds
<1> QED BY <1>1, <1>2, <1>3 DEF ToSet

\* What puts back or skips takes nothing from the lanes.
LEMMA TakesNothing ==
    ASSUME Healthy, PutBack \/ Skip
    PROVE  ~Take
<1> SUFFICES ASSUME Take PROVE FALSE
  OBVIOUS
<1>1. UNCHANGED <<output, out>>
  BY TakeMoves
<1>2. \A s \in Seq(Dispatched) : s # <<>> => Tail(s) # s
  <2>1. ASSUME NEW s \in Seq(Dispatched), s # <<>>, Tail(s) = s PROVE FALSE
    <3>1. Len(s) \in Nat /\ Len(s) = Len(s) - 1
      BY Zenon, <2>1, Lens
    <3> QED BY <3>1, SMTT(20)
  <2> QED BY <2>1
<1>3. out.batch \in Seq(Dispatched) /\ output \in Seq(Dispatched)
  BY LineParts DEF Healthy
<1>4. CASE PutBack
  <2>1. out.batch # <<>> /\ out'.batch = Tail(out.batch)
    BY <1>4, PutBackMoves
  <2> QED BY <1>1, <1>2, <1>3, <2>1
<1>5. CASE Skip
  <2>1. output # <<>> /\ output' = Tail(output)
    BY <1>5, OutputMoves
  <2> QED BY <1>1, <1>2, <1>3, <2>1
<1> QED BY <1>4, <1>5

\* A straight line stays one, unless it is put back.
LEMMA StraightStays ==
    ASSUME Healthy, Straight, Flows \/ Handle \/ Lingered \/ SinkBatch \/ Conflict, StoredOnceInOrder, Waiting
    PROVE  Straight'
<1>1. PICK p, u \in Seq(Msg) : p = Handling /\ u = lanes.high
  BY LineParts DEF Healthy
<1>2. InLine(<<>>, <<>>, p, u) /\ <<>> \in Seq(Msg)
  BY <1>1, Empties DEF Straight
<1>3. p = Handling' /\ u = lanes'.high
  BY <1>1, FlowMoves, HandleMoves, SinkMoves, ConflictMoves
<1>4. InLine(<<>>, <<>>, p, u)'
  BY <1>2, LineFlows, LineStays, LineStores
<1>5. out'.repro # 0 => Waits' \/ Returns'
  <2>1. CASE Flows \/ Handle
    <3>1. UNCHANGED <<output, out, repros, reproOf>> /\ (proc.pc = "offer" => proc' = proc)
      BY <2>1, FlowMoves, HandleMoves DEF Busy
    <3>2. out.repro # 0 => Waits \/ Returns
      BY DEF Straight
    <3>3. at' = at /\ (Wanted' <=> Wanted)
      BY <3>1 DEF at, Wanted
    <3>4. Waits => Waits'
      BY <3>1, <3>3 DEF Waits
    <3>5. Returns => Returns'
      BY <3>1, <3>3 DEF Returns
    <3> QED BY <3>1, <3>2, <3>4, <3>5
  <2>2. CASE Lingered \/ SinkBatch
    BY <2>2, SinkMoves
  <2>3. CASE Conflict
    BY <2>3, ConflictMoves
  <2> QED BY <2>1, <2>2, <2>3
<1> QED BY <1>3, <1>4, <1>5, NextStraight

\* So it does when a message is taken from the lanes.
LEMMA StraightTakes ==
    ASSUME Healthy, Straight, Take, [Next]_vars
    PROVE  Straight'
<1>1. PICK u \in Seq(Msg), m \in Msg : u = lanes.high /\ m = Head(Pending)
  BY LineParts, TakeMoves DEF Healthy
<1>2. InLine(<<>>, <<>>, Handling, u) /\ <<>> \in Seq(Msg) /\ u = u \o <<>>
  BY <1>1, Empties DEF Straight
<1>3. PICK u1, y1, w : u1 = Tail(u) /\ y1 = Tail(<<>>) /\ w = <<m>>
  OBVIOUS
<1>4. PICK v : v = lanes'.high /\ InLine(<<>>, <<>>, w, v)' /\ InLine(<<>>, <<>>, <<>>, v)'
  <2>1. /\ u # <<>> => /\ lanes'.high = u1 \o <<>>
                       /\ InLine(<<>>, <<>>, <<m>>, u1)' /\ InLine(<<>>, <<>>, <<>>, u1)'
        /\ u = <<>> => /\ lanes'.high = <<>>
                       /\ InLine(<<>>, <<>>, <<m>>, <<>>)' /\ InLine(<<>>, <<>>, <<>>, <<>>)'
    <3>1. Takes(m, u, <<>>, u1, y1)
      BY <1>1, <1>2, <1>3, LineTakes
    <3> QED BY <3>1 DEF Takes
  <2>2. u # <<>> => u1 \o <<>> = u1
    BY <1>3, Empties, HeadOnly
  <2> QED BY <1>3, <2>1, <2>2
<1>5. Handling' = <<>> \/ Handling' = w
  BY <1>1, <1>3, TakeMoves
<1>6. out'.repro # 0 => Waits' \/ Returns'
  <2> SUFFICES ASSUME out.repro # 0 PROVE Waits' \/ Returns'
    BY TakeMoves
  <2>1. UNCHANGED <<output, out, reproOf>> /\ ~Busy
    BY TakeMoves
  <2>2. at' = at
    BY <2>1, WaitsForIt DEF Healthy
  <2>3. CASE Waits
    <3>1. out.batch # <<>> /\ Head(out.batch).msg = at /\ out.batch \in Seq(Dispatched)
      BY <2>3, LineParts DEF Waits, Healthy, Types, OutTypes
    <3>2. at \in Msg /\ at \in ToSet(Msgs(out.batch))
      BY <3>1, HeadIn
    <3>3. at \notin ToSet(lanes.high) /\ at \notin ToSet(lanes.low)
      BY <3>2, Elsewhere
    <3>4. m \in ToSet(lanes.high) \/ m \in ToSet(lanes.low)
      <4>1. \A s \in Seq(Msg) : s # <<>> => Head(s) \in ToSet(s)
        <5>1. \A s \in Seq(Msg) : s # <<>> => 1 \in DOMAIN s /\ Head(s) = s[1]
          OBVIOUS
        <5> QED BY <5>1 DEF ToSet
      <4> QED BY <1>1, <4>1, TakeMoves, LineParts DEF Healthy
    <3>5. reproOf[Head(Pending)] # out.repro
      BY <1>1, <2>3, <3>3, <3>4 DEF Waits
    <3>6. Wanted'
      BY <2>1, <2>3, <3>5, WaitsForIt DEF Waits, Healthy
    <3> QED BY <2>1, <2>2, <2>3, <3>6 DEF Waits
  <2>4. CASE Returns
    <3>1. output # <<>> /\ Head(output).msg = at /\ out.batch = <<>>
      BY <2>1, <2>4 DEF Returns, Busy
    <3> QED BY <2>1, <2>2, <3>1 DEF Returns
  <2> QED BY <2>3, <2>4 DEF Straight
<1> QED BY <1>4, <1>5, <1>6, NextStraight

\* So it does when a context is offered to the output queue.
LEMMA StraightOffers ==
    ASSUME Healthy, Straight, Offer
    PROVE  Straight'
<1>1. PICK p, u \in Seq(Msg) : p = Handling /\ u = lanes.high
  BY LineParts DEF Healthy
<1>2. InLine(<<>>, <<>>, p, u) /\ <<>> \in Seq(Msg)
  BY <1>1, Empties DEF Straight
<1>3. /\ UNCHANGED <<lanes, out, repros, reproOf>> /\ Handling' = <<>> /\ proc.context.msg = proc.msg
      /\ output' = Append(output, proc.context) /\ proc.context \in Dispatched /\ output \in Seq(Dispatched)
  BY OfferMoves, LineParts DEF Healthy
<1>4. InLine(<<>>, <<>>, <<>>, u)'
  BY <1>1, <1>2, LineOffers
<1>5. at' = at /\ (Wanted' <=> Wanted) /\ (Waits => Waits')
  BY <1>3 DEF at, Wanted, Waits
<1>6. Returns => Returns'
  <2>1. PICK c \in Dispatched : c = proc.context
    BY <1>3
  <2>2. PICK o2 \in Seq(Dispatched) : o2 = output' /\ o2 = Append(output, c)
    BY <1>3, <2>1, AppendProperties
  <2>3. o2 # <<>> /\ Head(o2) = IF output = <<>> THEN c ELSE Head(output)
    BY <1>3, <2>2
  <2>4. Returns => out.batch = <<>> /\ Head(o2).msg = at
    BY <1>3, <2>1, <2>3 DEF Returns
  <2> QED BY <1>3, <1>5, <2>2, <2>3, <2>4 DEF Returns
<1>7. out'.repro # 0 => Waits' \/ Returns'
  BY <1>3, <1>5, <1>6 DEF Straight
<1> QED BY <1>1, <1>3, <1>4, <1>7, NextStraight

\* So it does when the output loop takes a context, which is the one it waits for.
LEMMA StraightOutputs ==
    ASSUME Healthy, Straight, TakeOutput \/ Skip
    PROVE  Straight'
<1>1. PICK p, u \in Seq(Msg) : p = Handling /\ u = lanes.high
  BY LineParts DEF Healthy
<1>2. InLine(<<>>, <<>>, p, u) /\ <<>> \in Seq(Msg)
  BY <1>1, Empties DEF Straight
<1>3. InLine(<<>>, <<>>, p, u)' /\ p = Handling' /\ u = lanes'.high
  BY <1>1, <1>2, LineOutputs, OutputMoves
<1>4. ~Skip
  BY OutputMoves DEF Straight, Waits, Returns
<1>5. out'.repro = 0
  BY <1>4, OutputMoves
<1> QED BY <1>3, <1>5, NextStraight

\* The message that is waited for is the first one that is put back.
LEMMA StraightPutsBack ==
    ASSUME Healthy, Straight, PutBack, [Next]_vars
    PROVE  Turned'
<1>1. PICK p, u \in Seq(Msg) : p = Handling /\ u = lanes.high
  BY LineParts DEF Healthy
<1>2. InLine(<<>>, <<>>, p, u) /\ <<>> \in Seq(Msg)
  BY <1>1, Empties DEF Straight
<1>3. /\ Handling' = Handling /\ out.batch # <<>> /\ out.repro # 0 /\ out'.repro = out.repro
      /\ lanes'.high = Append(lanes.high, Head(out.batch).msg)
      /\ \/ reproOf' = reproOf
         \/ \E c \in ToSet(out.batch) : c \in Dispatched /\ reproOf' = [reproOf EXCEPT ![c.msg] = out.repro]
  BY PutBackMoves
<1>4. Waits
  BY <1>3 DEF Straight, Returns
<1>5. PICK m \in Msg : m = at /\ at' = m /\ Head(out.batch).msg = m
  BY <1>3, <1>4, WaitsForIt DEF Waits, Healthy
<1>6. PICK y \in Seq(Msg) : y = <<m>> /\ y # <<>> /\ Head(y) = m /\ Append(<<>>, m) = y
  BY Single
<1>7. InLine(<<>>, y, p, u)'
  BY <1>2, <1>5, <1>6, LinePutsBack
<1>8. lanes'.high = u \o y
  <2>1. Append(u, m) = u \o <<m>>
    BY AppendIsConcat
  <2> QED BY <1>1, <1>3, <1>5, <1>6, <2>1
<1>9. \A c \in ToSet(out.batch) : c \in Dispatched => c.msg \in Msg /\ c.msg \in ToSet(Msgs(out.batch))
  <2>1. out.batch \in Seq(Dispatched)
    BY LineParts DEF Healthy
  <2> QED BY <2>1, MsgsProperties DEF ToSet
<1>10. Wanted'
  <2>1. ~Take
    BY TakesNothing
  <2> QED BY <1>3, <1>4, <1>9, <2>1, WaitsForIt DEF Waits, Healthy
<1>11. ASSUME NEW i \in DOMAIN u PROVE reproOf'[u[i]] # out.repro
  <2>1. PICK q \in Msg : q = u[i] /\ q \in ToSet(lanes.high)
    BY <1>1, <1>11 DEF ToSet
  <2>2. \A c \in ToSet(out.batch) : c \in Dispatched => q # c.msg
    BY <1>9, <2>1, Elsewhere
  <2>3. q # m
    <3>1. out.batch \in Seq(Dispatched)
      BY LineParts DEF Healthy
    <3>2. m \in ToSet(Msgs(out.batch))
      BY <1>3, <1>5, <3>1, HeadIn
    <3> QED BY <2>1, <3>2, Elsewhere
  <2>4. reproOf[q] # out.repro
    BY <1>4, <1>5, <2>3 DEF Waits
  <2>5. reproOf'[q] = reproOf[q]
    <3>1. reproOf \in [Msg -> 0 .. Len(repros)]
      BY DEF Healthy, Types, BookTypes
    <3> QED BY <1>3, <2>2, <3>1
  <2> QED BY <2>1, <2>4, <2>5
<1>12. \A i \in DOMAIN u : reproOf'[u[i]] # out'.repro
  BY <1>3, <1>11
<1>13. p = Handling' /\ Head(y) = at' /\ out'.repro # 0
  BY <1>1, <1>3, <1>5, <1>6
<1> QED BY <1>6, <1>7, <1>8, <1>10, <1>12, <1>13, NextTurned

\* What Turned says, of two parts of the high lane.
TurnedAt(p, u, y) ==
    /\ out.repro # 0 /\ Wanted /\ p = Handling /\ lanes.high = u \o y /\ y # <<>> /\ Head(y) = at
    /\ InLine(<<>>, y, p, u) /\ \A i \in DOMAIN u : reproOf[u[i]] # out.repro

\* There are such parts.
LEMMA TurnedParts ==
    ASSUME Healthy, Turned
    PROVE  \E p, u, y \in Seq(Msg) : TurnedAt(p, u, y)
<1>1. PICK p \in Seq(Msg) : p = Handling
  BY LineParts DEF Healthy
<1>2. PICK u, y \in Seq(Msg) : /\ lanes.high = u \o y /\ y # <<>> /\ Head(y) = at /\ InLine(<<>>, y, Handling, u)
                              /\ \A i \in DOMAIN u : reproOf[u[i]] # out.repro
  BY DEF Turned
<1> QED BY <1>1, <1>2 DEF Turned, TurnedAt

\* They are parts of the high lane.
LEMMA TurnedMembers ==
    ASSUME NEW u \in Seq(Msg), NEW y \in Seq(Msg), lanes.high = u \o y
    PROVE  /\ y # <<>> => Head(y) \in Msg /\ Head(y) \in ToSet(lanes.high)
           /\ \A i \in DOMAIN u : u[i] \in Msg /\ u[i] \in ToSet(lanes.high)
<1>1. ToSet(u \o y) = ToSet(u) \cup ToSet(y)
  BY ToSetConcat
<1>2. y # <<>> => Head(y) \in Msg /\ Head(y) \in ToSet(y)
  <2>1. y # <<>> => 1 \in DOMAIN y /\ Head(y) = y[1] /\ y[1] \in Msg
    OBVIOUS
  <2> QED BY <2>1 DEF ToSet
<1>3. \A i \in DOMAIN u : u[i] \in Msg /\ u[i] \in ToSet(u)
  BY DEF ToSet
<1> QED BY <1>1, <1>2, <1>3

\* Nothing is taken from the lanes, and nothing is put back.
LEMMA TurnedStays ==
    ASSUME Healthy, Turned, Flows \/ Handle \/ Offer \/ Skip, [Next]_vars
    PROVE  Turned'
<1>1. PICK p, u, y \in Seq(Msg) : TurnedAt(p, u, y)
  BY TurnedParts
<1>2. /\ out.repro # 0 /\ Wanted /\ p = Handling /\ lanes.high = u \o y /\ y # <<>> /\ Head(y) = at
      /\ InLine(<<>>, y, p, u) /\ \A i \in DOMAIN u : reproOf[u[i]] # out.repro
  BY <1>1 DEF TurnedAt
<1>3. <<>> \in Seq(Msg) /\ reproOf \in [Msg -> 0 .. Len(repros)]
  BY Empties DEF Healthy, Types, BookTypes
<1>4. lanes'.high = lanes.high /\ out'.repro = out.repro
  BY FlowMoves, HandleMoves, OfferMoves, OutputMoves
<1>5. PICK p1 \in Seq(Msg) : p1 = Handling' /\ InLine(<<>>, y, p1, u)'
  <2>1. CASE Flows \/ Handle \/ Skip
    <3>1. Handling' = Handling
      BY <2>1, FlowMoves, HandleMoves, OutputMoves
    <3>2. InLine(<<>>, y, p, u)'
      BY <1>2, <1>3, <2>1, LineFlows, LineStays, LineOutputs
    <3> QED BY <1>2, <3>1, <3>2
  <2>2. CASE Offer
    <3>1. Handling' = <<>>
      BY <2>2, OfferMoves
    <3>2. InLine(<<>>, y, <<>>, u)'
      BY <1>2, <1>3, <2>2, LineOffers
    <3> QED BY <1>3, <3>1, <3>2
  <2> QED BY <2>1, <2>2
<1>6. at' = at
  BY <1>2, <1>4, WaitsForIt DEF Healthy
<1>7. Wanted' /\ \A i \in DOMAIN u : reproOf'[u[i]] # out.repro
  <2>1. CASE Flows \/ Handle \/ Offer
    <3>1. UNCHANGED <<repros, reproOf>>
      BY <2>1, FlowMoves, HandleMoves, OfferMoves
    <3> QED BY <1>2, <1>4, <1>6, <3>1 DEF Wanted
  <2>2. CASE Skip
    <3>1. PICK c \in Dispatched : c = Head(output) /\ reproOf' = [reproOf EXCEPT ![c.msg] = out.repro] /\ output # <<>>
      BY <2>2, OutputMoves
    <3>2. c.msg \in Msg /\ c.msg \notin ToSet(lanes.high)
      <4>1. output \in Seq(Dispatched)
        BY LineParts DEF Healthy
      <4>2. c.msg \in Msg /\ c.msg \in ToSet(Msgs(output))
        BY <3>1, <4>1, HeadIn
      <4> QED BY <4>2, Elsewhere
    <3>3. Wanted'
      BY <1>2, <1>4, <2>2, <3>1, <3>2, TakesNothing, WaitsForIt DEF Healthy
    <3>4. \A i \in DOMAIN u : u[i] \in Msg /\ u[i] # c.msg
      BY <1>2, <3>2, TurnedMembers
    <3>5. \A i \in DOMAIN u : reproOf'[u[i]] = reproOf[u[i]]
      BY <1>3, <3>1, <3>4
    <3> QED BY <1>2, <3>3, <3>5
  <2> QED BY <2>1, <2>2
<1>8. /\ lanes'.high = u \o y /\ Head(y) = at' /\ out'.repro # 0
      /\ \A i \in DOMAIN u : reproOf'[u[i]] # out'.repro
  BY <1>2, <1>4, <1>6, <1>7
<1> QED BY <1>2, <1>5, <1>7, <1>8, NextTurned

\* What else is put back comes behind it.
LEMMA TurnedPutsBack ==
    ASSUME Healthy, Turned, PutBack, [Next]_vars
    PROVE  Turned'
<1>1. PICK p, u, y \in Seq(Msg) : TurnedAt(p, u, y)
  BY TurnedParts
<1>2. /\ out.repro # 0 /\ Wanted /\ p = Handling /\ lanes.high = u \o y /\ y # <<>> /\ Head(y) = at
      /\ InLine(<<>>, y, p, u) /\ \A i \in DOMAIN u : reproOf[u[i]] # out.repro
  BY <1>1 DEF TurnedAt
<1>3. <<>> \in Seq(Msg) /\ reproOf \in [Msg -> 0 .. Len(repros)] /\ out.batch \in Seq(Dispatched)
  BY Empties, LineParts DEF Healthy, Types, BookTypes
<1>4. /\ Handling' = Handling /\ out.batch # <<>> /\ out'.repro = out.repro
      /\ lanes'.high = Append(lanes.high, Head(out.batch).msg)
      /\ \/ reproOf' = reproOf
         \/ \E c \in ToSet(out.batch) : c \in Dispatched /\ reproOf' = [reproOf EXCEPT ![c.msg] = out.repro]
  BY PutBackMoves
<1>5. PICK m \in Msg : m = Head(out.batch).msg
  BY <1>3, <1>4, HeadIn
<1>6. PICK y1 \in Seq(Msg) : y1 = Append(y, m) /\ y1 # <<>> /\ Head(y1) = Head(y)
  <2>1. PICK z \in Seq(Msg) : z = Append(y, m)
    BY AppendProperties
  <2>2. z # <<>> /\ Head(z) = Head(y)
    BY <1>2, <2>1
  <2> QED BY <2>1, <2>2
<1>7. lanes'.high = u \o y1
  <2>1. u \o Append(y, m) = Append(u \o y, m)
    BY AppendConcat
  <2> QED BY <1>2, <1>4, <1>5, <1>6, <2>1, Zenon
<1>8. InLine(<<>>, y1, p, u)'
  BY <1>2, <1>3, <1>5, <1>6, LinePutsBack
<1>9. at' = at
  BY <1>2, <1>4, WaitsForIt DEF Healthy
<1>10. \A c \in ToSet(out.batch) : c \in Dispatched => c.msg \in Msg /\ c.msg \notin ToSet(lanes.high)
  <2>1. \A c \in ToSet(out.batch) : c \in Dispatched => c.msg \in Msg /\ c.msg \in ToSet(Msgs(out.batch))
    BY <1>3, MsgsProperties DEF ToSet
  <2> QED BY <2>1, Elsewhere
<1>11. Wanted'
  BY <1>2, <1>4, <1>10, TakesNothing, WaitsForIt DEF Healthy
<1>12. \A i \in DOMAIN u : reproOf'[u[i]] # out.repro
  <2>1. ASSUME NEW i \in DOMAIN u PROVE reproOf'[u[i]] # out.repro
    <3>1. PICK q \in Msg : q = u[i] /\ q \in ToSet(lanes.high)
      BY <1>2, TurnedMembers
    <3>2. reproOf[q] # out.repro
      BY <1>2, <3>1
    <3>3. reproOf'[q] = reproOf[q]
      BY <1>3, <1>4, <1>10, <3>1
    <3> QED BY <3>1, <3>2, <3>3
  <2> QED BY <2>1
<1>13. p = Handling' /\ Head(y1) = at' /\ out'.repro # 0 /\ \A i \in DOMAIN u : reproOf'[u[i]] # out'.repro
  BY <1>2, <1>4, <1>6, <1>9, <1>12
<1> QED BY <1>6, <1>7, <1>8, <1>11, <1>13, NextTurned

\* The message that is waited for is not yet in the output queue.
LEMMA TurnedNotOut ==
    ASSUME Healthy, Turned
    PROVE  ~TakeOutput
<1> SUFFICES ASSUME TakeOutput PROVE FALSE
  OBVIOUS
<1>1. PICK p, u, y \in Seq(Msg) : TurnedAt(p, u, y)
  BY TurnedParts
<1>2. at \in ToSet(lanes.high)
  BY <1>1, TurnedMembers DEF TurnedAt
<1>3. output # <<>> /\ Head(output).msg = at /\ output \in Seq(Dispatched)
  BY <1>1, OutputMoves, LineParts DEF TurnedAt, Healthy
<1>4. at \in Msg /\ at \in ToSet(Msgs(output))
  BY <1>3, HeadIn
<1> QED BY <1>2, <1>4, Elsewhere

\* An evicted message that is taken from the queue is nowhere.
LEMMA EvictedIsGone ==
    ASSUME Healthy, [Next]_vars, Faultless', NEW m \in Msg, At(m) # 0, released'[m] # "no", received' = received
    PROVE  At(m)' = 0 /\ m <= received
<1>1. GoesOn
  BY DEF Healthy, GoesOn
<1>2. At(m) = 1 /\ m <= received /\ released[m] = "no"
  BY <1>1, StaysOpen DEF Healthy
<1>3. ~Receive
  <2>1. received \in Nat
    BY LineParts DEF Healthy
  <2>2. Receive => received' = received + 1
    BY DEF Receive
  <2> QED BY <2>1, <2>2
<1>4. PICK G : Leave(G) /\ Let(G)
  BY <1>1, <1>3, PlacesStep DEF Healthy
<1>5. m \in G
  BY <1>2, <1>4 DEF Let
<1> QED BY <1>2, <1>4, <1>5 DEF Leave

\* The message that is waited for is taken last of what was there before.
LEMMA TurnedTakes ==
    ASSUME Healthy, Turned, Take, [Next]_vars, Faultless'
    PROVE  Turned' \/ Back' \/ Gone'
<1>1. PICK p, u, y \in Seq(Msg) : TurnedAt(p, u, y)
  BY TurnedParts
<1>2. /\ out.repro # 0 /\ Wanted /\ p = Handling /\ lanes.high = u \o y /\ y # <<>> /\ Head(y) = at
      /\ InLine(<<>>, y, Handling, u) /\ \A i \in DOMAIN u : reproOf[u[i]] # out.repro
  BY <1>1 DEF TurnedAt
<1>3. PICK m \in Msg :
        /\ m = Head(Pending)
        /\ \/ Handling' = <<>> /\ ~Busy' /\ repros' = repros /\ released'[m] # "no"
           \/ /\ Handling' = <<m>> /\ Busy' /\ proc'.pc = "dispatch" /\ proc'.msg = m
              /\ \A k \in Dropped(m) \cap Key : cache'[k] = {}
  BY TakeMoves
<1>4. UNCHANGED <<received, out, reproOf>>
  BY TakeMoves
<1>5. PICK u1, y1 : u1 = Tail(u) /\ y1 = Tail(y)
  OBVIOUS
<1>6. /\ u # <<>> => /\ m = Head(u) /\ lanes'.high = u1 \o y
                     /\ InLine(<<>>, y, <<m>>, u1)' /\ InLine(<<>>, y, <<>>, u1)'
      /\ u = <<>> => m = Head(y) /\ lanes'.high = y1 /\ InLine(<<m>>, y1, <<>>, <<>>)'
  <2>1. lanes.high = u \o y /\ InLine(<<>>, y, Handling, u) /\ y # <<>>
    BY <1>2
  <2>2. m = Head(Pending)
    BY <1>3
  <2>3. Takes(m, u, y, u1, y1)
    BY <1>5, <2>1, <2>2, LineTakes
  <2> QED BY <2>1, <2>3 DEF Takes
<1>7. at' = at
  BY <1>2, <1>4, WaitsForIt DEF Healthy
<1>8. CASE u # <<>>
  <2>1. Len(u) \in Nat /\ u1 \in Seq(Msg) /\ 1 \in DOMAIN u /\ Head(u) = u[1]
        /\ \A i \in DOMAIN u1 : i + 1 \in DOMAIN u /\ u1[i] = u[i + 1]
    BY <1>5, <1>8, HeadTailProperties
  <2>2. reproOf[Head(Pending)] # out.repro
    BY <1>2, <1>3, <1>6, <1>8, <2>1
  <2>3. Wanted'
    BY <1>2, <1>4, <2>2, WaitsForIt DEF Healthy
  <2>4. \A i \in DOMAIN u1 : reproOf'[u1[i]] # out'.repro
    BY <1>2, <1>4, <2>1
  <2>5. PICK p1 : p1 = Handling' /\ InLine(<<>>, y, p1, u1)'
    BY <1>3, <1>5, <1>6, <1>8
  <2>6. Head(y) = at' /\ out'.repro # 0 /\ lanes'.high = u1 \o y
    BY <1>2, <1>4, <1>6, <1>7, <1>8
  <2> QED BY <1>2, <2>1, <2>3, <2>4, <2>5, <2>6, NextTurned
<1>9. CASE u = <<>>
  <2>1. m = at /\ reproOf[m] = out.repro /\ KeyOf[m] \in repros[out.repro].evict /\ KeyOf[m] \in Key
    BY <1>2, <1>6, <1>9, ConstantsFacts DEF Wanted
  <2>2. CASE released'[m] # "no"
    <3>1. At(m) # 0
      <4>1. m \in ToSet(lanes.high)
        BY <1>2, <2>1, TurnedMembers
      <4> QED BY <4>1, OnePlace DEF Healthy
    <3>2. At(m)' = 0 /\ m <= received
      BY <1>4, <2>2, <3>1, EvictedIsGone
    <3>3. (At(at))' = At(m)'
      BY <1>7, <2>1 DEF At, InQueue, OnTheWay, InOutput, InBatch, AtProc, AtInput
    <3> QED BY <1>2, <1>4, <1>7, <2>1, <3>2, <3>3 DEF Gone
  <2>3. CASE /\ Handling' = <<m>> /\ Busy' /\ proc'.pc = "dispatch" /\ proc'.msg = m
             /\ \A k \in Dropped(m) \cap Key : cache'[k] = {}
    <3>1. KeyOf[m] \in Dropped(m)
      BY <1>2, <2>1 DEF Dropped
    <3>2. cache'[KeyOf[m]] = {}
      BY <2>1, <2>3, <3>1
    <3>3. InLine(<<m>>, y1, <<>>, <<>>)' /\ y1 = lanes'.high
      BY <1>5, <1>6, <1>9
    <3>4. m = at' /\ out'.repro # 0
      BY <1>2, <1>4, <1>7, <2>1
    <3> QED BY <2>3, <3>2, <3>3, <3>4, NextBack
  <2> QED BY <1>3, <2>2, <2>3
<1> QED BY <1>8, <1>9

\* No more messages go up than there are.
LEMMA IncreasingLen ==
    ASSUME NEW s \in Seq(Msg), Increasing(s)
    PROVE  Len(s) <= Messages
<1>1. PICK N \in Nat : N = Len(s) /\ DOMAIN s = 1 .. N
  OBVIOUS
<1>2. \A i \in 1 .. N : s[i] \in Nat /\ s[i] <= Messages /\ s[i] >= 1
  <2>1. \A i \in 1 .. N : s[i] \in Msg
    BY <1>1
  <2> QED BY <2>1, ConstantsFacts DEF Msg
<1>3. \A i, j \in 1 .. N : i < j => s[i] < s[j]
  BY <1>1 DEF Increasing
<1> DEFINE T == {n \in Nat : n \in 1 .. N => s[n] >= n}
<1>4. 0 \in T
  OBVIOUS
<1>5. ASSUME NEW n \in 1 .. N, n - 1 \in T PROVE n \in T
  <2>1. CASE n = 1
    BY <1>2, <2>1
  <2>2. CASE n # 1
    <3>1. n \in Nat /\ n - 1 \in 1 .. N /\ n - 1 < n
      BY <1>1, <2>2
    <3>2. s[n - 1] >= n - 1
      BY <1>5, <3>1
    <3>3. s[n - 1] < s[n]
      BY <1>3, <3>1
    <3>4. s[n] >= n
      BY <1>2, <3>1, <3>2, <3>3
    <3> QED BY <3>1, <3>4
  <2> QED BY <2>1, <2>2
<1>6. 0 .. N \subseteq T
  <2> HIDE DEF T
  <2> QED BY <1>1, <1>4, <1>5, BoundedInduction
<1>7. N # 0 => s[N] >= N /\ N \in 1 .. N
  BY <1>1, <1>6
<1> QED BY <1>1, <1>2, <1>7, ConstantsFacts

\* What Back says, of the message.
BackAt(m, u) ==
    /\ out.repro # 0 /\ m = at /\ proc.pc = "dispatch" /\ proc.msg = m /\ cache[KeyOf[m]] = {}
    /\ u = lanes.high /\ InLine(<<m>>, u, <<>>, <<>>)

\* There is such a message.
LEMMA BackParts ==
    ASSUME Healthy, Back
    PROVE  \E m \in Msg, u \in Seq(Msg) : BackAt(m, u)
<1>1. PICK m \in Msg, u \in Seq(Msg) : m = at /\ u = lanes.high
  BY LineParts DEF Healthy, Back
<1>2. InLine(<<m>>, u, <<>>, <<>>)
  BY <1>1 DEF Back
<1> QED BY <1>1, <1>2 DEF Back, BackAt

\* While it waits to be handled, the high lane has room for all that is put back.
LEMMA BackRoom ==
    ASSUME Healthy, Fits, Back, out.batch # <<>>, RoomToPutBack
    PROVE  Room("high")
<1>1. PICK m \in Msg, u \in Seq(Msg) : BackAt(m, u)
  BY BackParts
<1>2. PICK b, o, l, a \in Seq(Msg) : Ends(b, o, l, a)
  BY EndsExist DEF Healthy
<1>3. out.batch \in Seq(Dispatched) /\ output \in Seq(Dispatched)
  BY LineParts DEF Healthy
<1>4. PICK n, h, k, C, M, B, O \in Nat : /\ n = Len(b) /\ h = Len(u) /\ k = Len(output) /\ C = InputCapacity /\ M = Messages
                                        /\ B = MaxBatch /\ O = OutputCapacity
  BY <1>3, ConstantsFacts, Lens
<1>5. n = Len(out.batch) /\ n >= 1
  BY <1>2, <1>3, <1>4, MsgsProperties, Lens DEF Ends
<1>6. n + k + 1 + h <= B + O + 1
  <2>1. Len(Handling) = 1
    BY <1>1, HandlingLen DEF BackAt, Busy
  <2> QED BY <1>1, <1>4, <1>5, <2>1 DEF Fits, BackAt
<1>7. h + 2 <= M
  <2>c. \A x1, x2 \in Seq(Msg) : x1 \o x2 \in Seq(Msg) /\ Len(x1 \o x2) = Len(x1) + Len(x2)
    BY ConcatProperties
  <2>1. PICK w \in Seq(Msg) : w = <<m>> /\ Len(w) = 1
    <3>1. <<m>> \in Seq(Msg)
      OBVIOUS
    <3>2. Len(<<m>>) = 1
      OBVIOUS
    <3> QED BY <3>1, <3>2, Zenon
  <2>2. <<>> \in Seq(Msg)
    BY Empties
  <2>3. PICK r \in Seq(Msg) : r = o \o (<<>> \o (<<>> \o (l \o a)))
    <3>1. PICK r1 \in Seq(Msg) : r1 = l \o a
      BY <2>c
    <3>2. PICK r2 \in Seq(Msg) : r2 = <<>> \o r1
      BY <2>2, <2>c
    <3>3. PICK r3 \in Seq(Msg) : r3 = <<>> \o r2
      BY <2>2, <2>c
    <3>4. o \o r3 \in Seq(Msg)
      BY <2>c
    <3> QED BY <3>1, <3>2, <3>3, <3>4, Zenon
  <2>4. PICK s1 \in Seq(Msg), j \in Nat : s1 = b \o r /\ j = Len(r) /\ Len(s1) = n + j
    <3>1. Len(r) \in Nat
      BY Lens
    <3>2. b \o r \in Seq(Msg) /\ Len(b \o r) = n + Len(r)
      BY <1>4, <2>c, Zenon
    <3> QED BY <3>1, <3>2, Zenon
  <2>5. PICK s2 \in Seq(Msg) : s2 = u \o s1 /\ Len(s2) = h + (n + j)
    <3>1. PICK s2 : s2 = u \o s1 /\ s2 \in Seq(Msg) /\ Len(s2) = Len(u) + Len(s1)
      BY <2>c, Zenon
    <3>2. Len(s2) = h + (n + j)
      BY <1>4, <2>4, <3>1, Zenon
    <3> QED BY <3>1, <3>2, Zenon
  <2>6. PICK s3 \in Seq(Msg) : s3 = w \o s2 /\ Len(s3) = 1 + (h + (n + j))
    <3>1. PICK s3 : s3 = w \o s2 /\ s3 \in Seq(Msg) /\ Len(s3) = Len(w) + Len(s2)
      BY <2>c, Zenon
    <3>2. Len(s3) = 1 + (h + (n + j))
      BY <2>1, <2>5, <3>1, Zenon
    <3> QED BY <3>1, <3>2, Zenon
  <2>7. s3 = LineOf(w, u, b, o, <<>>, <<>>, l, a)
    BY <2>3, <2>4, <2>5, <2>6, Zenon DEF LineOf
  <2>8. Follows(s3)
    <3>1. InLine(w, u, <<>>, <<>>)
      BY <1>1, <2>1 DEF BackAt
    <3> QED BY <1>2, <2>7, <3>1, ThisLine
  <2>9. Len(s3) <= M
    BY <1>4, <2>8, IncreasingLen DEF Follows
  <2>10. \A h1, n1, j1, m1 \in Nat : n1 >= 1 /\ 1 + (h1 + (n1 + j1)) <= m1 => h1 + 2 <= m1
    OBVIOUS
  <2>11. 1 + (h + (n + j)) <= M
    BY <2>6, <2>9, Zenon
  <2> QED BY <1>5, <2>10, <2>11, Zenon
<1>8. M <= C + 1 \/ B + O <= C
  BY <1>4 DEF RoomToPutBack
<1>9. h < C
  BY <1>5, <1>6, <1>7, <1>8
<1> QED BY <1>1, <1>4, <1>9 DEF Room, BackAt

\* When the message is handled, on the state that is stored, all that was before
\* it is put back, and its context is the next one of the output loop.
LEMMA BackHandles ==
    ASSUME Healthy, GoesOn, Fits, Back, Waiting, Handle, RoomToPutBack \/ PutBackHasRoom
    PROVE  out'.pc = "done" \/ Straight'
<1>1. PICK m \in Msg, u \in Seq(Msg) : BackAt(m, u)
  BY BackParts
<1>2. /\ UNCHANGED <<received, lanes, output, out, repros, store>> /\ Arriving' = Arriving
      /\ Handling' = Handling /\ Busy /\ proc'.pc = "offer" /\ proc'.msg = proc.msg /\ Settled
  BY <1>1, HandleMoves DEF BackAt
<1>3. out.pc \in {"idle", "skip", "requeue", "done"}
  <2>1. out.pc \in {"idle", "linger", "sink", "skip", "requeue", "done", "failed"}
    BY DEF Healthy, Types, OutTypes
  <2>2. out.pc # "failed"
    BY DEF Healthy, Continued
  <2>3. out.pc \notin {"linger", "sink"}
    BY <1>1 DEF Waiting, BackAt
  <2> QED BY <2>1, <2>2, <2>3
<1>4. CASE out.pc = "done"
  BY <1>2, <1>4
<1>5. CASE out.pc \in {"skip", "requeue"}
  <2>1. out.batch # <<>>
    BY <1>5 DEF Healthy, Types, OutTypes
  <2>2. Room("high")
    <3>1. CASE RoomToPutBack
      BY <2>1, <3>1, BackRoom
    <3>2. CASE PutBackHasRoom
      BY <1>1, <1>5, <3>2 DEF PutBackHasRoom, BackAt
    <3> QED BY <3>1, <3>2
  <2> QED BY <1>2, <1>5, <2>2 DEF Settled
<1>6. CASE out.pc = "idle"
  <2>1. out.batch = <<>> /\ output \in Seq(Dispatched)
    BY <1>1, <1>6, LineParts DEF BackAt, Healthy, Types, OutTypes
  <2>2. output = <<>>
    <3> SUFFICES ASSUME output # <<>> PROVE FALSE
      OBVIOUS
    <3>1. Head(output).msg \in Msg /\ Head(output).msg \in ToSet(Msgs(output))
      BY <2>1, HeadIn
    <3>2. Head(output).msg # m
      <4>1. Busy /\ proc.msg = m
        BY <1>1, <1>2 DEF BackAt
      <4> QED BY <3>1, <4>1, OnePlace DEF Healthy
    <3>3. out.repro # 0 /\ Head(output).msg # repros[out.repro].at
      BY <1>1, <3>2 DEF BackAt, at
    <3> QED BY <1>2, <1>6, <3>3 DEF Settled
  <2>3. PICK p : p = <<m>> /\ p = Handling' /\ u = lanes'.high
    BY <1>1, <1>2 DEF BackAt, Handling
  <2>4. InLine(<<>>, <<>>, p, u)'
    <3>1. PICK b, o, l, a \in Seq(Msg) : Ends(b, o, l, a)
      BY EndsExist DEF Healthy
    <3>2. b = <<>> /\ o = <<>> /\ <<>> \in Seq(Msg)
      BY <2>1, <2>2, <3>1, MsgsProperties, Empties DEF Ends
    <3>3. PICK x : x = LineOf(p, u, <<>>, <<>>, <<>>, <<>>, l, a) /\ Follows(x)
      <4>1. InLine(p, u, <<>>, <<>>)
        BY <1>1, <2>3 DEF BackAt
      <4> QED BY <3>1, <3>2, <4>1, ThisLine
    <3>4. x = LineOf(<<>>, <<>>, <<>>, <<>>, p, u, l, a)
      <4>1. \A s \in Seq(Msg) : <<>> \o s = s
        BY Empties
      <4>2. PICK r1 \in Seq(Msg) : r1 = l \o a
        BY ConcatProperties
      <4>3. PICK r2 \in Seq(Msg) : r2 = u \o r1
        BY ConcatProperties
      <4>4. PICK r3 \in Seq(Msg) : r3 = p \o r2
        <5>1. PICK w \in Seq(Msg) : w = <<m>>
          BY Single
        <5>2. w \o r2 \in Seq(Msg)
          BY ConcatProperties
        <5> QED BY <2>3, <5>1, <5>2, Zenon
      <4>5. x = r3
        BY <3>3, <4>1, <4>2, <4>3, <4>4, Zenon DEF LineOf
      <4>6. LineOf(<<>>, <<>>, <<>>, <<>>, p, u, l, a) = r3
        BY <4>1, <4>2, <4>3, <4>4, Zenon DEF LineOf
      <4> QED BY <4>5, <4>6
    <3>5. Follows(x)'
      BY <1>2, <3>3, FollowsOn
    <3>6. Ends(<<>>, <<>>, l, a)'
      BY <1>2, <3>1, <3>2 DEF Ends, Msgs
    <3> QED BY <3>4, <3>5, <3>6, NextLine
  <2>5. Returns'
    <3>1. at' = m
      BY <1>1, <1>2 DEF BackAt, at
    <3> QED BY <1>1, <1>2, <2>1, <2>2, <3>1 DEF Returns, BackAt
  <2> QED BY <2>3, <2>4, <2>5, NextStraight
<1> QED BY <1>3, <1>4, <1>5, <1>6

\* Until it is handled, the rest is put back behind it.
LEMMA BackStays ==
    ASSUME Healthy, Back, Flows \/ Skip \/ PutBack, [Next]_vars
    PROVE  Back'
<1>1. PICK m \in Msg, u \in Seq(Msg) : BackAt(m, u)
  BY BackParts
<1>2. PICK w \in Seq(Msg) : w = <<m>>
  BY Single
<1>3. /\ out.repro # 0 /\ m = at /\ proc.pc = "dispatch" /\ proc.msg = m /\ cache[KeyOf[m]] = {}
      /\ u = lanes.high /\ InLine(w, u, <<>>, <<>>) /\ <<>> \in Seq(Msg)
  BY <1>1, <1>2, Empties DEF BackAt
<1>4. proc' = proc /\ cache' = cache /\ out'.repro = out.repro
  BY <1>3, FlowMoves, OutputMoves, PutBackMoves DEF Busy
<1>5. m = at'
  BY <1>3, <1>4, WaitsForIt DEF Healthy
<1>6. PICK u1 : u1 = lanes'.high /\ InLine(w, u1, <<>>, <<>>)'
  <2>1. CASE Flows
    <3>1. u = lanes'.high
      BY <1>3, <2>1, FlowMoves
    <3>2. InLine(w, u, <<>>, <<>>)'
      BY <1>3, <2>1, LineFlows
    <3> QED BY <3>1, <3>2
  <2>2. CASE Skip
    <3>1. u = lanes'.high
      BY <1>3, <2>2, OutputMoves
    <3>2. InLine(w, u, <<>>, <<>>)'
      BY <1>3, <2>2, LineOutputs
    <3> QED BY <3>1, <3>2
  <2>3. CASE PutBack
    <3>1. PICK u1 : u1 = lanes'.high /\ u1 = Append(u, Head(out.batch).msg)
      BY <1>3, <2>3, PutBackMoves
    <3>2. InLine(w, u1, <<>>, <<>>)'
      BY <1>3, <2>3, <3>1, LinePutsBack
    <3> QED BY <3>1, <3>2
  <2> QED BY <2>1, <2>2, <2>3
<1>7. InLine(<<m>>, u1, <<>>, <<>>)'
  BY <1>2, <1>6
<1>8. out'.repro # 0 /\ proc'.pc = "dispatch" /\ proc'.msg = m /\ cache'[KeyOf[m]] = {}
  BY <1>3, <1>4
<1> QED BY <1>5, <1>6, <1>7, <1>8, NextBack

\* The output loop cannot have it while it is about to be handled.
LEMMA BackNotOut ==
    ASSUME Healthy, Back
    PROVE  ~TakeOutput /\ ~Take /\ ~Offer
<1>1. PICK m \in Msg, u \in Seq(Msg) : BackAt(m, u)
  BY BackParts
<1>2. ~Take /\ ~Offer
  BY <1>1 DEF BackAt, Take, Offer
<1>3. ASSUME TakeOutput PROVE FALSE
  <2>1. output # <<>> /\ Head(output).msg = m /\ output \in Seq(Dispatched)
    BY <1>1, <1>3, OutputMoves, LineParts DEF BackAt, Healthy
  <2>2. m \in ToSet(Msgs(output))
    BY <2>1, HeadIn
  <2>3. Busy /\ proc.msg = m
    BY <1>1 DEF BackAt, Busy
  <2> QED BY <2>2, <2>3, OnePlace DEF Healthy
<1> QED BY <1>2, <1>3

-----------------------------------------------------------------------------
(* The order is kept.                                                      *)

\* An output loop that has ended stays so.
LEMMA DoneStays ==
    ASSUME out.pc = "done", [Next]_vars
    PROVE  out'.pc = "done"
<1>1. ~TakeOutput /\ ~Skip /\ ~Lingered /\ ~SinkBatch /\ ~Conflict /\ ~PutBack /\ ~OutputEnds /\ ~SinkFails
  <2>1. ~TakeOutput
    BY DEF TakeOutput
  <2>2. ~Skip
    BY DEF Skip
  <2>3. ~Lingered
    BY DEF Lingered
  <2>4. ~SinkBatch
    BY DEF SinkBatch
  <2>5. ~Conflict
    BY DEF Conflict
  <2>6. ~PutBack
    BY DEF PutBack
  <2>7. ~OutputEnds
    BY DEF OutputEnds
  <2>8. ~SinkFails
    BY DEF SinkFails, SomeStored
  <2> QED BY <2>1, <2>2, <2>3, <2>4, <2>5, <2>6, <2>7, <2>8
<1> QED BY <1>1, OutFrame

\* While the output loop waits, no batch is stored and none lingers.
LEMMA NoneStored ==
    ASSUME Waiting, out.repro # 0
    PROVE  ~Lingered /\ ~SinkBatch /\ ~Conflict
<1>1. out.pc \notin {"linger", "sink"}
  BY DEF Waiting
<1>2. ~Lingered
  BY <1>1 DEF Lingered
<1>3. ~SinkBatch
  BY <1>1 DEF SinkBatch
<1>4. ~Conflict
  BY <1>1 DEF Conflict
<1> QED BY <1>2, <1>3, <1>4

\* The shape of the line after a step.
LEMMA ShapeStep ==
    ASSUME ProcessorInv, Healthy, GoesOn, Fits, Waiting, StoredOnceInOrder, Shape, Step, [Next]_vars, Faultless',
           RoomToPutBack \/ PutBackHasRoom
    PROVE  Shape'
<1>1. CASE out.pc = "done"
  <2>1. out'.pc = "done"
    BY <1>1, DoneStays
  <2> QED BY <2>1 DEF Shape
<1>2. CASE OutputEnds
  <2>1. out'.pc = "done"
    BY <1>2, SinkMoves
  <2> QED BY <2>1 DEF Shape
<1>3. CASE Straight /\ ~OutputEnds
  <2>1. CASE Flows \/ Handle \/ Lingered \/ SinkBatch \/ Conflict
    BY <1>3, <2>1, StraightStays DEF Shape
  <2>2. CASE Take
    BY <1>3, <2>2, StraightTakes DEF Shape
  <2>3. CASE Offer
    BY <1>3, <2>3, StraightOffers DEF Shape
  <2>4. CASE TakeOutput \/ Skip
    BY <1>3, <2>4, StraightOutputs DEF Shape
  <2>5. CASE PutBack
    BY <1>3, <2>5, StraightPutsBack DEF Shape
  <2> QED BY <1>3, <2>1, <2>2, <2>3, <2>4, <2>5 DEF Step
<1>4. CASE Turned /\ ~OutputEnds
  <2>1. ~Lingered /\ ~SinkBatch /\ ~Conflict
    BY <1>4, NoneStored DEF Turned
  <2>2. ~TakeOutput
    BY <1>4, TurnedNotOut
  <2>3. CASE Flows \/ Handle \/ Offer \/ Skip
    BY <1>4, <2>3, TurnedStays DEF Shape
  <2>4. CASE Take
    BY <1>4, <2>4, TurnedTakes DEF Shape
  <2>5. CASE PutBack
    BY <1>4, <2>5, TurnedPutsBack DEF Shape
  <2> QED BY <1>4, <2>1, <2>2, <2>3, <2>4, <2>5 DEF Step
<1>5. CASE Back /\ ~OutputEnds
  <2>1. ~Lingered /\ ~SinkBatch /\ ~Conflict
    BY <1>5, NoneStored DEF Back
  <2>2. ~TakeOutput /\ ~Take /\ ~Offer
    BY <1>5, BackNotOut
  <2>3. CASE Flows \/ Skip \/ PutBack
    BY <1>5, <2>3, BackStays DEF Shape
  <2>4. CASE Handle
    BY <1>5, <2>4, BackHandles DEF Shape
  <2> QED BY <1>5, <2>1, <2>2, <2>3, <2>4 DEF Step
<1>6. CASE Gone
  <2>1. Types /\ Placed /\ Continued /\ Unstored
    BY DEF ProcessorInv
  <2>2. ~SinkFails
    BY <2>1, StoresStep
  <2>3. Gone'
    BY <1>6, <2>1, <2>2, GoneStep DEF Waiting
  <2> QED BY <2>3 DEF Shape
<1> QED BY <1>1, <1>2, <1>3, <1>4, <1>5, <1>6 DEF Shape

\* What is stored after a step goes up, and was received.
LEMMA StoredStep ==
    ASSUME Healthy, Waiting, StoredOnceInOrder, Shape, Step
    PROVE  StoredOnceInOrder' /\ InBounds'
<1>1. Types /\ InBounds
  BY DEF Healthy
<1>2. CASE SinkBatch \/ Conflict
  <2>1. out.repro = 0 /\ out.pc = "sink"
    BY <1>2, NoneStored, SinkMoves, ConflictMoves
  <2>2. Straight
    BY <2>1 DEF Shape, Turned, Back, Gone
  <2>3. PICK p, u \in Seq(Msg) : p = Handling /\ u = lanes.high
    BY <1>1, LineParts
  <2>4. InLine(<<>>, <<>>, p, u)
    BY <2>2, <2>3 DEF Straight
  <2> QED BY <1>2, <2>3, <2>4, LineStores
<1>3. CASE Flows
  <2>1. /\ received' \in Nat
        /\ \/ received' >= received /\ store' = store
           \/ received' = received /\ \E k \in Key : store' = [store EXCEPT ![k] = Append(@, Other)]
    BY <1>3, FlowMoves
  <2> QED BY <1>1, <2>1, OtherKept
<1>4. ASSUME ~Flows, ~SinkBatch, ~Conflict PROVE StoredOnceInOrder' /\ InBounds'
  <2>1. received' = received /\ store' = store
    BY <1>4, TakeMoves, HandleMoves, OfferMoves, OutputMoves, PutBackMoves, SinkMoves DEF Step
  <2>2. StoredOnceInOrder'
    BY <2>1 DEF StoredOnceInOrder
  <2>3. InBounds'
    BY <1>1, <2>1 DEF InBounds
  <2> QED BY <2>2, <2>3
<1> QED BY <1>2, <1>3, <1>4

\* No step breaks the order.
LEMMA OrderStep ==
    ASSUME ProcessorInv, OrderInv, [Next]_vars, RoomToPutBack \/ PutBackHasRoom
    PROVE  OrderInv'
<1> SUFFICES ASSUME Faultless' PROVE Ordered'
  BY DEF OrderInv
<1>1. Types /\ Placed /\ Continued /\ Unstored
  BY DEF ProcessorInv
<1>2. Faultless /\ ~SinkFails
  BY <1>1, StoresStep
<1>3. StoredOnceInOrder /\ InBounds /\ Waiting /\ Fits /\ Shape
  BY <1>2 DEF OrderInv, Ordered
<1>4. Healthy /\ GoesOn /\ Step
  BY <1>3, HealthySteps DEF Step
<1>5. StoredOnceInOrder' /\ InBounds'
  BY <1>3, <1>4, StoredStep
<1>6. Waiting'
  BY <1>1, <1>2, <1>3, WaitsOn DEF Waiting
<1>7. Fits'
  BY <1>3, <1>4, FitsStep DEF Step
<1>8. Shape'
  BY <1>3, <1>4, ShapeStep
<1> QED BY <1>5, <1>6, <1>7, <1>8 DEF Ordered

\* Nothing is on its way at the start, and nothing is stored.
LEMMA OrderInit ==
    ASSUME Init
    PROVE  OrderInv
<1>1. /\ received = 0 /\ lanes.low = <<>> /\ lanes.high = <<>> /\ inLoop = "receive" /\ ~Busy /\ output = <<>>
      /\ out.pc = "idle" /\ out.batch = <<>> /\ out.repro = 0 /\ \A k \in Key : store[k] = <<>>
  BY DEF Init, Busy, Idle, Empty
<1>2. Handling = <<>> /\ Arriving = <<>> /\ Msgs(out.batch) = <<>> /\ Msgs(output) = <<>>
  <2>1. <<>> \in Seq(Dispatched)
    OBVIOUS
  <2> QED BY <1>1, <2>1, MsgsProperties DEF Handling, Arriving
<1>3. \A k \in Key : ToSet(store[k]) = {} /\ DOMAIN store[k] = {}
  BY <1>1 DEF ToSet
<1>4. StoredOnceInOrder /\ InBounds /\ Waiting
  BY <1>1, <1>3 DEF StoredOnceInOrder, InBounds, Waiting
<1>5. Fits
  BY <1>1, <1>2, ConstantsFacts DEF Fits
<1>6. Straight
  <2>1. <<>> \in Seq(Msg) /\ \A s \in Seq(Msg) : <<>> \o s = s
    BY Empties
  <2>2. Line(<<>>, <<>>, Handling, lanes.high) = <<>>
    BY <1>1, <1>2, <2>1, ZenonT(30) DEF Line, LineOf
  <2>3. Follows(<<>>)
    BY DEF Follows, Increasing, ToSet
  <2> QED BY <1>1, <2>2, <2>3 DEF Straight, InLine
<1> QED BY <1>4, <1>5, <1>6 DEF OrderInv, Ordered, Shape

\* While no handler and no sink fails, however many conflicts and evictions
\* there are: no event is stored twice, and the events of a partition are in the
\* order their messages were received in, as long as no context that is put back
\* waits for room while a message is handled.
THEOREM StoredOnceInOrderHolds ==
    Spec /\ [](RoomToPutBack \/ PutBackHasRoom)
      => [](faults.handler = 0 /\ faults.sink = 0 => StoredOnceInOrder)
<1>1. Init => OrderInv
  BY OrderInit
<1>2. ProcessorInv /\ OrderInv /\ [Next]_vars /\ (RoomToPutBack \/ PutBackHasRoom) => OrderInv'
  BY OrderStep
<1>3. OrderInv => (faults.handler = 0 /\ faults.sink = 0 => StoredOnceInOrder)
  BY DEF OrderInv, Ordered, Faultless
<1>4. Spec /\ [](RoomToPutBack \/ PutBackHasRoom) => []OrderInv
  BY <1>1, <1>2, ProcessorInvariant, PTL DEF Spec
<1> QED BY <1>3, <1>4, PTL
=============================================================================
