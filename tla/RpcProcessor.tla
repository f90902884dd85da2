---------------------------- MODULE RpcProcessor ----------------------------
(***************************************************************************)
(* RpcMessageProcessor of packages/core: handlers run concurrently, up to  *)
(* maximumParallelRpcRequests, on the states of an EpochStateProvider over *)
(* a CachingStateProvider, and what they leave goes through the output     *)
(* loop it inherits to CompositeOutputSink, which stores the contexts up   *)
(* to the first that is of an old epoch, does not follow the one before it *)
(* or conflicts with the store (SinkCoordinator, here in one step).  The   *)
(* messages are all of one partition.  A step of a handler is what runs    *)
(* between two awaits.  queue is the input queue, work the handlers, the   *)
(* two loops and the signals, state the epoch and the cache.               *)
(***************************************************************************)
EXTENDS Pipeline

CONSTANTS Parallel,       \* maximumParallelRpcRequests
          InputCapacity, OutputCapacity, MaxBatch

NoState == <<>>
Signals == Msg \X {1, 2}
Handler == [pc |-> "none", base |-> <<>>, current |-> FALSE, try |-> 1]
TypeOK ==
  /\ queue.next \in 1 .. Messages + 1 /\ {queue.open, queue.late} \subseteq BOOLEAN /\ queue.high \in Seq(Msg)
  /\ Len(queue.low) <= InputCapacity /\ queue.low \in Seq(Msg) /\ Len(queue.high) <= InputCapacity
  /\ \A m \in Msg : work.handler[m].pc \in
       {"none", "sleep", "get", "loading", "loaded", "handle", "wait", "out", "over", "failed"}
  /\ work.loop \in {"next", "failed"} /\ work.ended \in BOOLEAN /\ {work.out, work.batch, work.back} \subseteq Seq(Signals)
  /\ Len(work.out) <= OutputCapacity /\ Len(work.batch) <= MaxBatch
  /\ work.inflight \subseteq Signals /\ Cardinality(work.inflight) <= Parallel
  /\ released \in [Msg -> {"no", "ok", "unavailable"}]

Init ==
  /\ queue = [next |-> 1, low |-> <<>>, high |-> <<>>, open |-> TRUE, late |-> FALSE]
  /\ work = [handler |-> [m \in Msg |-> Handler], loop |-> "next", error |-> FALSE, ended |-> FALSE,
             out |-> <<>>, batch |-> <<>>, back |-> <<>>, inflight |-> {}]
  /\ state = [cached |-> FALSE, held |-> NoState]
  /\ store = <<>> /\ released = [m \in Msg |-> "no"] /\ faults = 0

H(m) == work.handler[m]
Signal(m) == <<m, H(m).try>>
At(m, pc) == [work EXCEPT !.handler[m].pc = pc]

\* A lane with room takes what is enqueued, whether or not the queue is closed;
\* a call that finds it full waits, and is refused once the queue is closed.
HasPlace(lane) == Len(lane) < InputCapacity

\* inputLoop.
Receive ==
  /\ queue.next <= Messages /\ (HasPlace(queue.low) \/ ~queue.open)
  /\ queue' = [queue EXCEPT !.next = @ + 1, !.low = IF HasPlace(@) THEN Append(@, queue.next) ELSE @]
  /\ released' = IF HasPlace(queue.low) THEN released ELSE Release({queue.next}, "unavailable")
  /\ UNCHANGED <<work, state, store, faults>>

\* processingLoop: the next message, of the high lane first, gets a signal and
\* its handler is started.  One to be reprocessed sleeps before that.
HasRoomAlways == TRUE   \* mutant
HasRoom == Cardinality(work.inflight) < Parallel
NextMessage == IF queue.high # <<>> THEN Head(queue.high) ELSE Head(queue.low)
Dequeued == IF queue.high # <<>> THEN [queue EXCEPT !.high = Tail(@)] ELSE [queue EXCEPT !.low = Tail(@)]
Dequeue ==
  LET m == NextMessage
      try == IF queue.high # <<>> THEN 3 - H(m).try ELSE 1
  IN
  /\ work.loop = "next" /\ HasRoom /\ queue.high \o queue.low # <<>> /\ ~work.error
  /\ queue' = Dequeued
  /\ work' = [work EXCEPT !.handler[m] = [Handler EXCEPT !.pc = IF queue.high # <<>> THEN "sleep" ELSE "get", !.try = try],
                          !.inflight = @ \cup {<<m, try>>}]
  /\ UNCHANGED <<state, store, released, faults>>
Sleep(m) == H(m).pc = "sleep" /\ work' = At(m, "get") /\ UNCHANGED <<queue, state, store, released, faults>>

\* get(): the epoch is read before the state, the cache is filled if it is
\* still empty when the state has been loaded.  current: the epoch is still the
\* one that was read.
Get(m) ==
  /\ H(m).pc = "get"
  /\ work' = [work EXCEPT !.handler[m] = [@ EXCEPT !.pc = IF state.cached THEN "handle" ELSE "loading",
                                                   !.current = TRUE, !.base = state.held]]
  /\ UNCHANGED <<queue, state, store, released, faults>>
Load(m) ==
  /\ H(m).pc = "loading" /\ work' = [work EXCEPT !.handler[m] = [@ EXCEPT !.pc = "loaded", !.base = store]]
  /\ UNCHANGED <<queue, state, store, released, faults>>
Loaded(m) ==
  /\ H(m).pc = "loaded" /\ work' = At(m, "handle")
  /\ state' = IF state.cached THEN state ELSE [state EXCEPT !.cached = TRUE, !.held = H(m).base]
  /\ UNCHANGED <<queue, store, released, faults>>

\* The handler stores an event; complete() gives the state it computed to the
\* cache, if the epoch is still that of the state and the cache is behind.  The
\* context is enqueued at once if there is room, also after the processing loop
\* has failed and closed the queue; one that must wait may be overtaken by
\* another, and is refused when the queue is closed.
Closed == work.loop = "failed"
HasOutputRoom == Len(work.out) < OutputCapacity
Enqueued(w, m) == [w EXCEPT !.handler[m].pc = "out", !.out = Append(@, Signal(m))]
Refused(m) ==
  /\ work' = [At(m, "failed") EXCEPT !.inflight = @ \ {Signal(m)}]
  /\ released' = Release({m}, "unavailable")
Handle(m) ==
  /\ H(m).pc = "handle"
  /\ IF HasOutputRoom THEN work' = Enqueued(work, m) /\ UNCHANGED released
     ELSE IF Closed THEN Refused(m)
     ELSE work' = At(m, "wait") /\ UNCHANGED released
  /\ state' = IF H(m).current /\ (~state.cached \/ Len(state.held) <= Len(H(m).base))
                THEN [state EXCEPT !.cached = TRUE, !.held = Append(H(m).base, m)] ELSE state
  /\ UNCHANGED <<queue, store, faults>>
Offer(m) ==
  /\ H(m).pc = "wait" /\ (HasOutputRoom \/ Closed)
  /\ IF Closed THEN Refused(m) ELSE work' = Enqueued(work, m) /\ UNCHANGED released
  /\ UNCHANGED <<queue, state, store, faults>>

\* The handler fails the application: its message is released, the processing
\* loop learns of it with the next message.
HandlerFails(m) ==
  /\ H(m).pc = "handle" /\ faults < HandlerFaults /\ faults' = faults + 1
  /\ work' = [At(m, "failed") EXCEPT !.error = TRUE, !.inflight = @ \ {Signal(m)}]
  /\ released' = Release({m}, "unavailable")
  /\ UNCHANGED <<queue, state, store>>

\* for await: the message dequeued next is dropped by the break, and run() closes
\* both queues.  A high lane that is empty by then is made anew after the close,
\* unless a call that waited for the place of that message makes it before.
PutBackWaits == work.back # <<>> /\ ~HasPlace(queue.high)
Break ==
  /\ work.loop = "next" /\ HasRoom /\ work.error /\ queue.high \o queue.low # <<>>
  /\ work' = [work EXCEPT !.loop = "failed"]
  /\ \E late \in {Dequeued.high = <<>>, Dequeued.high = <<>> /\ ~PutBackWaits} :
       queue' = [Dequeued EXCEPT !.open = FALSE, !.late = late]
  /\ UNCHANGED <<state, store, released, faults>>

\* outputLoop: contexts are collected while there are more and the batch is
\* not full; the signals of those collected are resolved when it goes on.
Collect ==
  /\ ~work.ended /\ work.out # <<>> /\ work.back = <<>> /\ Len(work.batch) < MaxBatch
  /\ work' = [work EXCEPT !.out = Tail(@), !.batch = Append(@, Head(work.out)), !.inflight = @ \ ToSet(work.batch)]
  /\ UNCHANGED <<queue, state, store, released, faults>>

\* The contexts that are stored: each of the epoch and of the sequence number
\* that follows those before it.  After the first that is not, the epoch is over
\* and the state is no longer cached.
MsgsOf(s) == [i \in DOMAIN s |-> s[i][1]]
Follows(i) == Len(H(work.batch[i][1]).base) = Len(store) + i - 1
GoodOfAnyEpoch(i) == Follows(i)   \* mutant
Good(i) == Follows(i) /\ H(work.batch[i][1]).current
EpochOver(w) == [w EXCEPT !.handler = [m \in Msg |-> [@[m] EXCEPT !.current = FALSE]]]
BatchOver(w) == [w EXCEPT !.batch = <<>>, !.inflight = @ \ ToSet(work.batch)]
Sink ==
  LET n == Max({k \in 0 .. Len(work.batch) : \A i \in 1 .. k : Good(i)})
      good == ToSet(MsgsOf(SubSeq(work.batch, 1, n)))
      bad == SubSeq(work.batch, n + 1, Len(work.batch))
      done == [work EXCEPT !.back = bad, !.handler = [m \in Msg |->
                 IF m \in good THEN [@[m] EXCEPT !.pc = "over", !.current = FALSE] ELSE @[m]]]
  IN
  /\ work.batch # <<>> /\ work.back = <<>> /\ (work.out = <<>> \/ Len(work.batch) = MaxBatch)
  /\ store' = store \o MsgsOf(SubSeq(work.batch, 1, n)) /\ released' = Release(good, "ok")
  /\ state' = IF bad = <<>> THEN state ELSE [cached |-> FALSE, held |-> NoState]
  /\ work' = IF bad = <<>> THEN BatchOver(done) ELSE EpochOver(done)
  /\ UNCHANGED <<queue, faults>>

\* Those to be handled anew are put back one by one.  When the closed queue
\* refuses one it is the message of the last context that is released; a full
\* lane that was made after the close is waited for in vain.
PutBack ==
  LET taken == [work EXCEPT !.back = Tail(@)]
  IN
  /\ work.back # <<>> /\ (HasPlace(queue.high) \/ (~queue.open /\ ~queue.late))
  /\ IF HasPlace(queue.high) THEN queue' = [queue EXCEPT !.high = Append(@, Head(work.back)[1])] /\ UNCHANGED released
                             ELSE released' = Release({Last(work.batch)[1]}, "unavailable") /\ UNCHANGED queue
  /\ work' = IF Len(work.back) = 1 THEN BatchOver(taken) ELSE taken
  /\ UNCHANGED <<state, store, faults>>

\* The iteration of the closed output queue is over once it is empty; what a
\* handler still enqueues then stays there.
OutputEnds ==
  /\ Closed /\ ~work.ended /\ work.out = <<>> /\ work.batch = <<>>
  /\ work' = [work EXCEPT !.ended = TRUE] /\ UNCHANGED <<queue, state, store, released, faults>>

Handling(m) == Sleep(m) \/ Get(m) \/ Load(m) \/ Loaded(m) \/ Handle(m) \/ Offer(m)
Output == Collect \/ Sink \/ PutBack \/ OutputEnds
Next == Receive \/ Dequeue \/ Break \/ Output \/ AppendOther \/ \E m \in Msg : Handling(m) \/ HandlerFails(m)

\* The others that are between get() and the sink when m wakes up.
Alone(m) == \A o \in Msg \ {m} : H(o).pc \in {"none", "sleep", "over", "failed"}

\* Every event was computed from exactly the events stored before it, is stored
\* once, and its message alone is released as handled (EpochStateProvider 44-63,
\* SinkCoordinator.handle): overlapping handlers cannot overwrite each other.
HandledOnItsState ==
  /\ \A i \in DOMAIN store : store[i] # Other => H(store[i]).base = SubSeq(store, 1, i - 1)
  /\ \A i, j \in DOMAIN store : store[i] = store[j] /\ store[i] # Other => i = j
  /\ \A m \in Msg : released[m] = "ok" <=> Contains(store, m)
Over == work.error \/ \A m \in Msg : released[m] = "ok"
=============================================================================
