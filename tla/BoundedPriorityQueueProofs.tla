---------------------- MODULE BoundedPriorityQueueProofs ----------------------
(***************************************************************************)
(* Proofs about BoundedPriorityQueue, for any number of writers, one       *)
(* reader, and any capacity.                                               *)
(***************************************************************************)
EXTENDS BoundedPriorityQueueProps, TLAPS

\* Each of a processor's two queues has one loop that iterates over it.
OneReader == \A r1, r2 \in Reader : r1 = r2

\* The initial state satisfies the inductive invariant.
LEMMA InitInv == Init => Inv
<1> SUFFICES ASSUME Init PROVE Inv  OBVIOUS
<1> USE CapacityAssumption, MaxCallsAssumption DEF Init, Priority, Absent, Fresh
<1>1. TypeOK
  <2>1. queues \in [Priority -> Seq(Item)] /\ delivered \in Seq(Item)  OBVIOUS
  <2>2. whenNotFull \in [Priority -> Future(Writer)] /\ whenNotEmpty \in Future(Reader)
    BY DEF Future
  <2>3. writer \in [Writer -> WriterState]
    BY DEF WriterState
  <2>4. reader \in [Reader -> {"ready", "blocked", "woken", "done"}]
    OBVIOUS
  <2>5. \A p \in Priority : Len(queues[p]) <= Capacity
    OBVIOUS
  <2>6. \A w \in Writer : writer[w].pc = "ready"
    OBVIOUS
  <2>7. known \in SUBSET Priority /\ refused \in SUBSET Item
    OBVIOUS
  <2>8. total_count \in Nat /\ closed \in BOOLEAN
    OBVIOUS
  <2>9. QED  BY <2>1, <2>2, <2>3, <2>4, <2>5, <2>6, <2>7, <2>8 DEF TypeOK
<1>2. CountMatches  BY DEF CountMatches
<1>3. FuturesMatch  BY DEF FuturesMatch
<1>4. NoStrandedWriter  BY DEF NoStrandedWriter
<1>5. NoStrandedReader  BY DEF NoStrandedReader
<1>6. QED  BY <1>1, <1>2, <1>3, <1>4, <1>5 DEF Inv

\* A push keeps the inductive invariant.
LEMMA PushInv ==
    ASSUME Inv, NEW w \in Writer, NEW p \in Priority, NEW n \in 1..MaxCalls,
           writer[w].pc # "blocked", Push(w, p, n)
    PROVE  Inv'
<1> USE CapacityAssumption, MaxCallsAssumption DEF Inv, Push, Notify, Room, ItemOf, Resolved
<1>0. /\ queues[p] \in Seq(Item) /\ <<w, n>> \in Item
      /\ Append(queues[p], <<w, n>>) \in Seq(Item)
      /\ Len(Append(queues[p], <<w, n>>)) = Len(queues[p]) + 1
  BY DEF TypeOK, Item
<1>1. TypeOK'
  <2>1. queues' \in [Priority -> Seq(Item)]
    BY <1>0 DEF TypeOK
  <2>2. \A q \in Priority : Len(queues'[q]) <= Capacity
    BY <1>0 DEF TypeOK
  <2>3. /\ known' \in SUBSET Priority
        /\ whenNotFull' \in [Priority -> Future(Writer)]
        /\ whenNotEmpty' \in Future(Reader)
    BY DEF TypeOK, Future, Fresh
  <2>4. /\ writer' \in [Writer -> WriterState]
        /\ \A v \in Writer : writer'[v].pc # "ready" => writer'[v].calls > 0
    BY DEF TypeOK, WriterState
  <2>5. reader' \in [Reader -> {"ready", "blocked", "woken", "done"}]
    BY DEF TypeOK
  <2>6. total_count' \in Nat /\ closed' \in BOOLEAN
    BY DEF TypeOK
  <2>7. QED  BY <2>1, <2>2, <2>3, <2>4, <2>5, <2>6 DEF TypeOK
<1>2. CountMatches'
  <2>1. /\ queues'[p] = Append(queues[p], <<w, n>>)
        /\ \A q \in Priority \ {p} : queues'[q] = queues[q]
    BY DEF TypeOK
  <2>2. Len(queues[0]) \in Nat /\ Len(queues[1]) \in Nat
    BY DEF TypeOK, Priority
  <2>3. total_count' = Len(queues'[0]) + Len(queues'[1])
    <3>0. total_count' = total_count + 1  OBVIOUS
    <3>1. Len(queues'[p]) = Len(queues[p]) + 1
      BY <1>0, <2>1
    <3> DEFINE a0 == Len(queues[0])
               a1 == Len(queues[1])
               b0 == Len(queues'[0])
               b1 == Len(queues'[1])
    <3>2. a0 \in Nat /\ a1 \in Nat /\ total_count = a0 + a1  BY <2>2 DEF CountMatches
    <3>3. \/ b0 = a0 + 1 /\ b1 = a1
          \/ b0 = a0 /\ b1 = a1 + 1
      BY <2>1, <3>1 DEF Priority
    <3> HIDE DEF a0, a1, b0, b1, Inv, Push, Notify, Room, ItemOf, Resolved
    <3>4. total_count' = b0 + b1  BY <3>0, <3>2, <3>3
    <3>5. QED  BY <3>4 DEF b0, b1
  <2>4. \A q \in Priority \ known' : queues'[q] = <<>>
    BY <2>1 DEF CountMatches
  <2>5. QED  BY <2>3, <2>4 DEF CountMatches
<1>3. FuturesMatch'
  BY DEF TypeOK, FuturesMatch, Priority, WriterState, Future, Fresh
<1>4. NoStrandedWriter'
  BY SMTT(30) DEF TypeOK, CountMatches, FuturesMatch, NoStrandedWriter, Priority, WriterState, Future, Fresh
<1>5. NoStrandedReader'
  BY DEF TypeOK, FuturesMatch, NoStrandedReader, Future
<1>6. QED  BY <1>1, <1>2, <1>3, <1>4, <1>5

\* An enqueue that finds no room keeps the inductive invariant.
LEMMA AwaitSpaceInv ==
    ASSUME Inv, NEW w \in Writer, NEW p \in Priority, NEW n \in 1..MaxCalls,
           writer[w].pc # "blocked", AwaitSpace(w, p, n)
    PROVE  Inv'
<1> USE CapacityAssumption, MaxCallsAssumption
    DEF Inv, AwaitSpace, Room, Awaiting, Join, Fresh, Absent
<1> DEFINE f == IF whenNotFull[p] = Absent THEN Fresh ELSE whenNotFull[p]
<1>0. f \in Future(Writer) /\ Join(f, w) \in Future(Writer)
  BY DEF TypeOK, Future
<1>1. TypeOK'
  <2>1. whenNotFull' \in [Priority -> Future(Writer)]
    BY <1>0 DEF TypeOK
  <2>2. /\ writer' \in [Writer -> WriterState]
        /\ \A v \in Writer : writer'[v].pc # "ready" => writer'[v].calls > 0
    BY DEF TypeOK, WriterState
  <2>3. QED  BY <2>1, <2>2 DEF TypeOK
<1>2. CountMatches'
  BY DEF TypeOK, CountMatches, Priority
<1>3. FuturesMatch'
  BY DEF TypeOK, FuturesMatch, WriterState, Future
<1>4. NoStrandedWriter'
  BY DEF TypeOK, FuturesMatch, NoStrandedWriter, WriterState, Future
<1>5. NoStrandedReader'
  BY DEF TypeOK, NoStrandedReader
<1>6. QED  BY <1>1, <1>2, <1>3, <1>4, <1>5

\* An enqueue that answers false keeps the inductive invariant.
LEMMA ReturnFalseInv ==
    ASSUME Inv, NEW w \in Writer, NEW p \in Priority, NEW n \in 1..MaxCalls,
           writer[w].pc # "blocked", ReturnFalse(w, p, n)
    PROVE  Inv'
<1> USE MaxCallsAssumption DEF Inv, ReturnFalse
<1>1. TypeOK'
  BY DEF TypeOK, WriterState, ItemOf, Item
<1>2. CountMatches'
  BY DEF CountMatches
<1>3. FuturesMatch'
  BY DEF TypeOK, FuturesMatch, WriterState
<1>4. NoStrandedWriter'
  BY DEF TypeOK, NoStrandedWriter, WriterState
<1>5. NoStrandedReader'
  BY DEF NoStrandedReader
<1>6. QED  BY <1>1, <1>2, <1>3, <1>4, <1>5

\* Both enqueue segments, the call and the resumption, are covered by these.
LEMMA TryInv ==
    ASSUME Inv, NEW w \in Writer, NEW p \in Priority, NEW n \in 1..MaxCalls,
           writer[w].pc # "blocked", Try(w, p, n)
    PROVE  Inv'
BY PushInv, AwaitSpaceInv, ReturnFalseInv DEF Try, RefuseAtOnce

\* A call of enqueue keeps the inductive invariant.
LEMMA EnqueueInv ==
    ASSUME Inv, NEW w \in Writer, NEW p \in Priority, Enqueue(w, p)
    PROVE  Inv'
<1>1. writer[w].calls + 1 \in 1..MaxCalls
  BY MaxCallsAssumption DEF Inv, TypeOK, WriterState, Enqueue
<1>2. QED  BY <1>1, TryInv DEF Enqueue

\* So does an enqueue that goes on after its await.
LEMMA ResumeEnqueueInv ==
    ASSUME Inv, NEW w \in Writer, ResumeEnqueue(w)
    PROVE  Inv'
<1>1. writer[w].priority \in Priority
  BY DEF Inv, TypeOK, WriterState
<1>2. writer[w].calls \in 1..MaxCalls
  <2>1. writer[w].calls \in 0..MaxCalls
    BY DEF Inv, TypeOK, WriterState
  <2>2. writer[w].calls > 0
    BY DEF Inv, TypeOK, ResumeEnqueue
  <2>3. QED  BY <2>1, <2>2, MaxCallsAssumption
<1>3. QED  BY <1>1, <1>2, TryInv, ReturnFalseInv DEF ResumeEnqueue

\* Handing out the oldest item of the highest lane keeps the inductive
\* invariant, whichever Future f stands for whenNotEmpty afterwards.
LEMMA ShiftInv ==
    ASSUME Inv, OneReader, NEW r \in Reader, NEW p \in Priority,
           reader[r] # "blocked", Shift(r, p),
           whenNotEmpty' = whenNotEmpty \/ (whenNotEmpty' = Fresh /\ ~closed)
    PROVE  Inv'
<1> USE CapacityAssumption, MaxCallsAssumption
<1>0. /\ queues[p] \in Seq(Item) /\ queues[p] # <<>>
      /\ Tail(queues[p]) \in Seq(Item) /\ Head(queues[p]) \in Item
      /\ Len(Tail(queues[p])) = Len(queues[p]) - 1
      /\ Len(queues[p]) \in Nat \ {0} /\ p \in known
  BY DEF Inv, TypeOK, Shift, WasFull, Dropped, Highest
<1>1. /\ queues'[p] = Tail(queues[p])
      /\ \A q \in Priority \ {p} : queues'[q] = queues[q]
      /\ queues' \in [Priority -> Seq(Item)]
  BY <1>0 DEF Inv, TypeOK, Shift, WasFull, Dropped
<1>2. \A s \in Reader : reader[s] # "blocked" /\ whenNotEmpty.waiters = {}
  BY DEF OneReader, Inv, TypeOK, Future, FuturesMatch
<1>3. CountMatches'
  <2>1. /\ total_count = Len(queues[0]) + Len(queues[1])
        /\ total_count' = total_count - 1
    BY DEF Inv, CountMatches, Shift, WasFull, Dropped
  <2>2. Len(queues[0]) \in Nat /\ Len(queues[1]) \in Nat
    BY DEF Inv, TypeOK, Priority
  <2>3. total_count' = Len(queues'[0]) + Len(queues'[1])
    <3>1. CASE p = 0
      <4>1. queues'[1] = queues[1]  BY <1>1, <3>1 DEF Priority
      <4>2. Len(queues'[0]) = Len(queues[0]) - 1  BY <1>0, <1>1, <3>1
      <4>3. QED  BY <2>1, <2>2, <4>1, <4>2
    <3>2. CASE p = 1
      <4>1. queues'[0] = queues[0]  BY <1>1, <3>2 DEF Priority
      <4>2. Len(queues'[1]) = Len(queues[1]) - 1  BY <1>0, <1>1, <3>2
      <4>3. QED  BY <2>1, <2>2, <4>1, <4>2
    <3>3. QED  BY <3>1, <3>2 DEF Priority
  <2>4. \A q \in Priority \ known' : queues'[q] = <<>>
    BY <1>0, <1>1 DEF Inv, TypeOK, CountMatches, Shift, WasFull, Dropped
  <2>5. QED  BY <2>3, <2>4 DEF CountMatches
<1>4. total_count' \in Nat /\ \A q \in Priority : Len(queues'[q]) <= Capacity
  <2>1. \A q \in Priority : Len(queues'[q]) \in Nat /\ Len(queues'[q]) <= Capacity
    BY <1>0, <1>1 DEF Inv, TypeOK
  <2> DEFINE m == Len(queues'[0])
             n == Len(queues'[1])
  <2>2. m \in Nat /\ n \in Nat  BY <2>1 DEF Priority
  <2>3. total_count' = m + n     BY <1>3 DEF CountMatches
  <2> HIDE DEF m, n
  <2>4. total_count' \in Nat     BY <2>2, <2>3
  <2>5. QED  BY <2>1, <2>4
<1>5. TypeOK'
  <2>1. known' \in SUBSET Priority /\ whenNotFull' \in [Priority -> Future(Writer)]
    BY DEF Inv, TypeOK, Shift, WasFull, Dropped, Future, Absent
  <2>2. /\ writer' \in [Writer -> WriterState]
        /\ \A v \in Writer : writer'[v].pc # "ready" => writer'[v].calls > 0
    <3>1. \A v \in Writer : writer[v] \in WriterState
                            /\ (writer[v].pc # "ready" => writer[v].calls > 0)
      BY DEF Inv, TypeOK
    <3>2. \A v \in whenNotFull[p].waiters : writer[v].pc = "blocked"
      BY DEF Inv, FuturesMatch
    <3>3. QED  BY <3>1, <3>2 DEF Shift, WasFull, Dropped, WriterState
  <2>3. /\ reader' \in [Reader -> {"ready", "blocked", "woken", "done"}]
        /\ whenNotEmpty' \in Future(Reader)
    BY DEF Inv, TypeOK, Shift, WasFull, Dropped, Future, Fresh
  <2>4. delivered' \in Seq(Item) /\ refused' \in SUBSET Item /\ closed' \in BOOLEAN
    BY <1>0 DEF Inv, TypeOK, Shift, WasFull, Dropped
  <2>5. QED  BY <1>1, <1>4, <2>1, <2>2, <2>3, <2>4 DEF TypeOK
<1>6. FuturesMatch'
  BY <1>2 DEF Inv, TypeOK, FuturesMatch, Shift, WasFull, Dropped, Future, Fresh, Absent, WriterState
<1>7. NoStrandedWriter'
  <2> SUFFICES ASSUME NEW v \in Writer, writer'[v].pc = "blocked"
               PROVE  LET q == writer'[v].priority
                      IN  /\ Len(queues'[q]) = Capacity
                          /\ whenNotFull'[q].state = "pending"
                          /\ v \in whenNotFull'[q].waiters
    BY DEF NoStrandedWriter
  <2>1. writer[v].pc = "blocked" /\ writer'[v].priority = writer[v].priority
    BY DEF Inv, TypeOK, WriterState, Shift, WasFull, Dropped
  <2> DEFINE q == writer[v].priority
  <2>2. /\ q \in Priority /\ Len(queues[q]) = Capacity
        /\ whenNotFull[q].state = "pending" /\ v \in whenNotFull[q].waiters
    BY <2>1 DEF Inv, TypeOK, WriterState, NoStrandedWriter
  <2>3. q # p
    BY <2>1, <2>2 DEF Inv, TypeOK, WriterState, Shift, WasFull, Dropped
  <2>4. QED  BY <1>1, <2>1, <2>2, <2>3 DEF Inv, TypeOK, Shift, WasFull, Dropped
<1>8. NoStrandedReader'
  BY <1>2 DEF Inv, TypeOK, NoStrandedReader, Shift, WasFull, Dropped
<1>9. QED  BY <1>3, <1>5, <1>6, <1>7, <1>8 DEF Inv

\* The reader's other outcomes: the iteration ends, or dequeue parks.
LEMMA StepInv ==
    ASSUME Inv, OneReader, NEW r \in Reader, reader[r] # "blocked", NEW f,
           f = whenNotEmpty \/ (f = Fresh /\ ~closed), Step(r, f)
    PROVE  Inv'
<1>1. \A s \in Reader : s = r /\ whenNotEmpty.waiters = {}
  BY DEF OneReader, Inv, TypeOK, Future, FuturesMatch
<1>2. f \in Future(Reader) /\ f.waiters = {} /\ f.state # "absent"
      /\ (closed => f.state = "resolved")
  BY <1>1 DEF Inv, TypeOK, FuturesMatch, Future, Fresh
<1>3. CASE /\ closed /\ total_count = 0
           /\ reader' = [reader EXCEPT ![r] = "done"]
           /\ whenNotEmpty' = f
           /\ UNCHANGED <<queues, known, whenNotFull, total_count, closed, writer,
                          delivered, refused>>
  <2>1. TypeOK'  BY <1>2, <1>3 DEF Inv, TypeOK
  <2>2. CountMatches'  BY <1>3 DEF Inv, CountMatches
  <2>3. FuturesMatch'  BY <1>1, <1>2, <1>3 DEF Inv, FuturesMatch
  <2>4. NoStrandedWriter'  BY <1>3 DEF Inv, NoStrandedWriter
  <2>5. NoStrandedReader'  BY <1>1, <1>3 DEF Inv, TypeOK, NoStrandedReader
  <2>6. QED  BY <2>1, <2>2, <2>3, <2>4, <2>5 DEF Inv
<1>4. CASE (\E p \in Priority : Shift(r, p)) /\ whenNotEmpty' = f
  BY <1>4, ShiftInv
<1>5. CASE /\ ~(closed /\ total_count = 0)
           /\ \A p \in known : queues[p] = <<>>
           /\ reader' = [reader EXCEPT ![r] = Awaiting(f)]
           /\ whenNotEmpty' = Join(f, r)
           /\ UNCHANGED <<queues, known, whenNotFull, total_count, closed, writer,
                          delivered, refused>>
  <2>1. Join(f, r) \in Future(Reader) /\ Awaiting(f) \in {"blocked", "woken"}
    BY <1>2 DEF Join, Awaiting, Future
  <2>2. TypeOK'  BY <1>5, <2>1 DEF Inv, TypeOK
  <2>3. CountMatches'  BY <1>5 DEF Inv, CountMatches
  <2>4. FuturesMatch'
    BY <1>1, <1>2, <1>5 DEF Inv, TypeOK, FuturesMatch, Join, Awaiting, Future
  <2>5. NoStrandedWriter'  BY <1>5 DEF Inv, NoStrandedWriter
  <2>6. total_count = 0
    <3>1. queues[0] = <<>> /\ queues[1] = <<>>
      BY <1>5 DEF Inv, CountMatches, Priority
    <3>2. Len(queues[0]) = 0 /\ Len(queues[1]) = 0  BY <3>1
    <3>3. QED  BY <3>2 DEF Inv, CountMatches
  <2>7. NoStrandedReader'
    BY <1>1, <1>2, <1>5, <2>6 DEF Inv, TypeOK, NoStrandedReader, Join, Awaiting, Future
  <2>8. QED  BY <2>2, <2>3, <2>4, <2>5, <2>7 DEF Inv
<1>6. QED  BY <1>3, <1>4, <1>5 DEF Step

\* Closing the queue keeps the inductive invariant.
LEMMA CloseInv == ASSUME Inv, Close PROVE Inv'
<1> USE DEF Inv, Close, Notify, Resolved, Absent
<1>1. TypeOK'
  <2>1. whenNotFull' \in [Priority -> Future(Writer)] /\ whenNotEmpty' \in Future(Reader)
    BY DEF TypeOK, Future
  <2>2. /\ writer' \in [Writer -> WriterState]
        /\ \A v \in Writer : writer'[v].pc # "ready" => writer'[v].calls > 0
    <3>1. \A v \in Writer : writer[v] \in WriterState
                            /\ (writer[v].pc # "ready" => writer[v].calls > 0)
      BY DEF TypeOK
    <3>2. \A v \in Writer, p \in Priority : v \in whenNotFull[p].waiters
                                            => writer[v].pc = "blocked"
      BY DEF FuturesMatch
    <3>3. QED  BY <3>1, <3>2 DEF WriterState
  <2>3. reader' \in [Reader -> {"ready", "blocked", "woken", "done"}]
    BY DEF TypeOK
  <2>4. QED  BY <2>1, <2>2, <2>3 DEF TypeOK
<1>2. CountMatches'  BY DEF CountMatches
<1>3. FuturesMatch'  BY DEF TypeOK, FuturesMatch, Future, WriterState
<1>4. NoStrandedWriter'
  <2>1. \A v \in Writer : writer'[v].pc # "blocked"
    <3>1. \A v \in Writer : writer[v].pc = "blocked" =>
              writer[v].priority \in Priority /\ v \in whenNotFull[writer[v].priority].waiters
      BY DEF TypeOK, WriterState, NoStrandedWriter
    <3>2. QED  BY <3>1 DEF TypeOK, WriterState
  <2>2. QED  BY <2>1 DEF NoStrandedWriter
<1>5. NoStrandedReader'
  BY DEF TypeOK, NoStrandedReader
<1>6. QED  BY <1>1, <1>2, <1>3, <1>4, <1>5

\* Every step keeps the inductive invariant.
LEMMA NextInv == ASSUME Inv, OneReader, [Next]_vars PROVE Inv'
<1>1. CASE \E w \in Writer : ResumeEnqueue(w)  BY <1>1, ResumeEnqueueInv
<1>2. CASE \E w \in Writer, p \in Priority : Enqueue(w, p)  BY <1>2, EnqueueInv
<1>3. CASE \E r \in Reader : Dequeue(r)
  BY <1>3, StepInv DEF Dequeue
<1>4. CASE \E r \in Reader : ResumeDequeue(r)
  <2>1. PICK r \in Reader : ResumeDequeue(r)  BY <1>4
  <2>2. CASE closed  BY <2>1, <2>2, StepInv DEF ResumeDequeue
  <2>3. CASE ~closed  BY <2>1, <2>3, StepInv DEF ResumeDequeue
  <2>4. QED  BY <2>2, <2>3
<1>5. CASE Close  BY <1>5, CloseInv
<1>6. CASE UNCHANGED vars
  BY ZenonT(30), <1>6 DEF vars, Inv, TypeOK, CountMatches, FuturesMatch, NoStrandedWriter, NoStrandedReader
<1>7. QED  BY <1>1, <1>2, <1>3, <1>4, <1>5, <1>6 DEF Next

-----------------------------------------------------------------------------
\* The inductive invariant holds in every reachable state of a queue with one
\* reader.
THEOREM Safety == ASSUME OneReader PROVE Spec => []Inv
<1>1. Inv /\ [Next]_vars => Inv'  BY NextInv
<1>2. QED  BY InitInv, <1>1, PTL DEF Spec

\* Every variable keeps its type and no lane ever exceeds its capacity.
THEOREM TypeCorrect == ASSUME OneReader PROVE Spec => []TypeOK
<1>1. Inv => TypeOK  BY DEF Inv
<1>2. QED  BY <1>1, Safety, PTL

\* total_count is at all times the number of items in the two lanes.
THEOREM CountCorrect == ASSUME OneReader PROVE Spec => []CountMatches
<1>1. Inv => CountMatches  BY DEF Inv
<1>2. QED  BY <1>1, Safety, PTL

\* No writer is ever parked on a Future the queue has forgotten, or while its
\* lane has room.
THEOREM WriterNotStranded == ASSUME OneReader PROVE Spec => []NoStrandedWriter
<1>1. Inv => NoStrandedWriter  BY DEF Inv
<1>2. QED  BY <1>1, Safety, PTL

\* The one reader is never parked on a Future the queue has forgotten, nor
\* while an item is queued, nor at a closed queue.
THEOREM ReaderNotStranded == ASSUME OneReader PROVE Spec => []NoStrandedReader
<1>1. Inv => NoStrandedReader  BY DEF Inv
<1>2. QED  BY <1>1, Safety, PTL

-----------------------------------------------------------------------------
\* What each segment is to the abstract queue.
LEMMA TryRefines ==
    ASSUME Inv, NEW w \in Writer, NEW p \in Priority, NEW n \in 1..MaxCalls,
           Try(w, p, n)
    PROVE  [Abstract!Next]_(Abstract!vars)
<1>1. ItemOf(w, n) \in Item  BY DEF ItemOf, Item
<1>2. CASE Push(w, p, n)
  <2>1. Abstract!Add(p, ItemOf(w, n))  BY <1>2 DEF Push, Notify, Room, Abstract!Add
  <2>2. QED  BY <1>1, <2>1 DEF Abstract!Next, Abstract!Priority, Priority
<1>3. CASE AwaitSpace(w, p, n)
  BY <1>3 DEF AwaitSpace, Abstract!vars
<1>4. CASE RefuseAtOnce(w, p, n)
  <2>1. Abstract!Refuse(ItemOf(w, n))
    BY <1>4 DEF RefuseAtOnce, ReturnFalse, Abstract!Refuse
  <2>2. QED  BY <1>1, <2>1 DEF Abstract!Next
<1>5. QED  BY <1>2, <1>3, <1>4 DEF Try

\* A resumed enqueue does so too, or is refused, once the queue is closed.
LEMMA ResumeRefines ==
    ASSUME Inv, NEW w \in Writer, ResumeEnqueue(w)
    PROVE  [Abstract!Next]_(Abstract!vars)
<1>1. writer[w].priority \in Priority /\ writer[w].calls \in 1..MaxCalls
  <2>1. writer[w] \in WriterState /\ writer[w].calls > 0
    BY DEF Inv, TypeOK, ResumeEnqueue
  <2>2. QED  BY <2>1, MaxCallsAssumption DEF WriterState
<1>2. CASE closed
  <2> DEFINE i == ItemOf(w, writer[w].calls)
  <2>1. i \in Item  BY <1>1 DEF ItemOf, Item
  <2>2. Abstract!Refuse(i)
    BY <1>2 DEF ResumeEnqueue, ReturnFalse, Abstract!Refuse
  <2>3. QED  BY <2>1, <2>2 DEF Abstract!Next
<1>3. CASE ~closed
  BY <1>1, <1>3, TryRefines DEF ResumeEnqueue
<1>4. QED  BY <1>2, <1>3

\* A dequeue takes the head of a lane, or is a stutter of the abstract queue.
LEMMA StepRefines ==
    ASSUME Inv, NEW r \in Reader, NEW f, Step(r, f)
    PROVE  [Abstract!Next]_(Abstract!vars)
<1>1. CASE \E p \in Priority : Shift(r, p)
  <2>1. PICK p \in Priority : Shift(r, p)  BY <1>1
  <2>2. \A q \in Priority : q > p => queues[q] = <<>>
    BY <2>1 DEF Inv, CountMatches, Shift, WasFull, Dropped, Highest
  <2>3. Abstract!Take(p)
    BY <2>1, <2>2 DEF Shift, WasFull, Dropped, Highest, Abstract!Take, Abstract!Priority, Priority
  <2>4. QED  BY <2>3 DEF Abstract!Next, Abstract!Priority, Priority
<1>2. CASE UNCHANGED <<queues, closed, delivered, refused>>
  BY <1>2 DEF Abstract!vars
<1>3. QED  BY <1>1, <1>2 DEF Step

\* The queue with its promises and wakeups implements the abstract queue:
\* bounded lanes, first in first out within a lane, the high priority lane
\* first, and false only once closed.
THEOREM Refinement == ASSUME OneReader PROVE Spec => ImplementsPriorityQueue
<1>1. Init => Abstract!Init
  BY DEF Init, Abstract!Init, Abstract!Priority, Priority
<1>2. Inv /\ [Next]_vars => [Abstract!Next]_(Abstract!vars)
  <2> SUFFICES ASSUME Inv, [Next]_vars PROVE [Abstract!Next]_(Abstract!vars)
    OBVIOUS
  <2>1. CASE \E w \in Writer : ResumeEnqueue(w)  BY <2>1, ResumeRefines
  <2>2. CASE \E w \in Writer, p \in Priority : Enqueue(w, p)
    <3>1. PICK w \in Writer, p \in Priority : Enqueue(w, p)  BY <2>2
    <3>2. writer[w].calls + 1 \in 1..MaxCalls
      BY <3>1, MaxCallsAssumption DEF Inv, TypeOK, WriterState, Enqueue
    <3>3. QED  BY <3>1, <3>2, TryRefines DEF Enqueue
  <2>3. CASE \E r \in Reader : Dequeue(r) \/ ResumeDequeue(r)
    BY <2>3, StepRefines DEF Dequeue, ResumeDequeue
  <2>4. CASE Close
    BY <2>4 DEF Close, Notify, Abstract!Next, Abstract!Shut
  <2>5. CASE UNCHANGED vars
    BY <2>5 DEF vars, Abstract!vars
  <2>6. QED  BY <2>1, <2>2, <2>3, <2>4, <2>5 DEF Next
<1>3. QED  BY <1>1, <1>2, Safety, PTL DEF Spec, Abstract!Spec, ImplementsPriorityQueue
=============================================================================
