--------------------------- MODULE MessageProcessor ---------------------------
(***************************************************************************)
(* ConcurrentMessageProcessor: the input loop, the processing loop and the *)
(* output loop of one application, joined by two bounded queues, with the  *)
(* state cache the handlers load through and the store the sink writes to. *)
(*                                                                         *)
(* Every handler loads the state of its message's key and stores one event *)
(* to it.  A state is the log of the messages whose events it was computed *)
(* from, so that a state computed from events that never reached the store *)
(* can be told from one of the same sequence number that was.              *)
(*                                                                         *)
(* A queue operation is one step here; BoundedPriorityQueue has its        *)
(* promises.  A call of the sink is one step too, and what it does to the  *)
(* store is what SinkCoordinator does for a store sink that is Atomic and  *)
(* has no maxBatchSize, every context storing at most one event.           *)
(* Bounds: the messages, the failures, and other processes' events.        *)
(***************************************************************************)
EXTENDS Naturals, Sequences, FiniteSets, SequencesExt

CONSTANTS
    Messages,         \* bound: messages the source yields
    Key,              \* partitions
    KeyOf,            \* the key the handler of each message works on
    Cached,           \* the state provider is a CachingStateProvider
    InputCapacity,    \* inputQueueCapacity
    OutputCapacity,   \* outputQueueCapacity
    MinBatch,         \* minimumBatchSize
    MaxBatch,         \* maximumBatchSize
    Settings,         \* one is chosen: mode, what the retriers do in the end ("continue"
                      \* or "fail"); drops, a bound on the cached states found dropped by
                      \* the LRU cache; evictions, sets of which a source may evict one
    MaxHandlerFaults, \* bound: handlers that fail, validation failures
    MaxSinkFaults,    \* bound: sink calls that fail without a conflict
    MaxExternal       \* bound: events other processes append

Msg == 1..Messages      \* EventProcessingMetadata.Sequence
Other == 0              \* the author of another process's events

ASSUME SizesAssumption ==
    /\ {InputCapacity, OutputCapacity, MaxBatch} \subseteq Nat \ {0}
    /\ {Messages, MinBatch, MaxHandlerFaults, MaxSinkFaults, MaxExternal} \subseteq Nat
    /\ Cached \in BOOLEAN
    /\ KeyOf \in [Msg -> Key]
    /\ Settings \subseteq [mode : {"continue", "fail"}, drops : Nat, evictions : SUBSET SUBSET Msg]

VARIABLES
    received,   \* messages the source has yielded: 1..received
    inLoop,     \* input loop: "receive", "blocked", "drain", "done"
    lanes,      \* inputQueue: [low, high]
    output,     \* outputQueue: the dispatch contexts
    closed,     \* [input, output]; late: the high lane was made after the close
    proc,       \* processing loop: [pc, msg, sig, context]
    cache,      \* CachingStateProvider.cache: each key's entry, or {}
    out,        \* output loop: [pc, batch, waited, repro, sigs]
    repros,     \* the ReprocessingContexts: [at, seen, evict]
    reproOf,    \* the ReprocessingContext in each message's metadata, or 0
    signals,    \* currentlyInflight: <<message, 1 or 2>>
    store,      \* store[k]: the authors of the events in partition k
    released,   \* "no", or how each message was released
    evicting,   \* a call of evict: [set, pc, awaits]
    evicted,    \* messages with isEvicted
    stopped,    \* run() has thrown: the queues are closed, the source stopped
    faults      \* [handler, sink, other, drop]: the bounded events so far; mode

vars == <<received, inLoop, lanes, output, closed, proc, cache, out, repros, reproOf, signals,
          store, released, evicting, evicted, stopped, faults>>

Idle == [pc |-> "idle", msg |-> 0, sig |-> <<0, 0>>, context |-> <<>>]
Empty == [pc |-> "idle", batch |-> <<>>, waited |-> FALSE, repro |-> 0, sigs |-> {}]

Init ==
    /\ received = 0 /\ inLoop = "receive"
    /\ lanes = [low |-> <<>>, high |-> <<>>] /\ output = <<>>
    /\ closed = [input |-> FALSE, output |-> FALSE, late |-> FALSE]
    /\ proc = Idle /\ out = Empty
    /\ cache = [k \in Key |-> {}]
    /\ repros = <<>> /\ reproOf = [m \in Msg |-> 0]
    /\ signals = {}
    /\ store = [k \in Key |-> <<>>]
    /\ released = [m \in Msg |-> "no"]
    /\ evicting = [set |-> {}, pc |-> "ready", awaits |-> {}]
    /\ evicted = {}
    /\ stopped = FALSE
    /\ faults \in [handler : {0}, sink : {0}, other : {0}, drop : {0}, setting : Settings]

-----------------------------------------------------------------------------
RoomForOneMore(lane) == Len(lanes[lane]) <= InputCapacity            \* mutant
Room(lane) == Len(lanes[lane]) < InputCapacity
Push(lane, m) == lanes' = [lanes EXCEPT ![lane] = Append(@, m)]

\* The high lane goes when it is empty and is made anew; at one made after the
\* close an enqueue is parked for ever, at one that was there it is refused.
Remade == [closed EXCEPT !.late = IF lanes.high = <<>> THEN closed.input ELSE @]
Refused == ~Room("high") /\ closed.input /\ ~closed.late

\* MessageRef.release: its listeners run once.
Release(outcomeOf) ==
    released' = [m \in Msg |-> IF m \in DOMAIN outcomeOf /\ released[m] = "no"
                               THEN outcomeOf[m] ELSE released[m]]
ReleaseOne(m, o) == Release([n \in {m} |-> o])

ResolveUnheard(set) == signals' = signals \ set /\ UNCHANGED evicting  \* mutant

\* Signals that are resolved leave currentlyInflight, and evict awaits them
\* no longer.
Resolve(set) ==
    /\ signals' = signals \ set
    /\ evicting' = [evicting EXCEPT !.awaits = @ \ set]
SignalsOf(batch) == {c.sig : c \in ToSet(batch)}

-----------------------------------------------------------------------------
(* The input loop.                                                         *)

\* The source yields its next message, which is enqueued at once or blocks; a
\* source that has been told to stop may still yield what it has.
Receive ==
    /\ inLoop = "receive" /\ received < Messages
    /\ received' = received + 1
    /\ IF Room("low") THEN Push("low", received + 1) /\ UNCHANGED inLoop
                      ELSE inLoop' = "blocked" /\ UNCHANGED lanes
    /\ UNCHANGED <<output, closed, proc, cache, out, repros, reproOf, signals, store, released,
                   evicting, evicted, stopped, faults>>

\* A blocked enqueue returns: there is room, or the queue was closed.
ResumeReceive ==
    /\ inLoop = "blocked"
    /\ inLoop' = "receive"
    /\ \/ Room("low") /\ ~closed.input /\ Push("low", received) /\ UNCHANGED released
       \/ closed.input /\ ReleaseOne(received, "unavailable") /\ UNCHANGED lanes
    /\ UNCHANGED <<received, output, closed, proc, cache, out, repros, reproOf, signals, store,
                   evicting, evicted, stopped, faults>>

\* The source ends, which CompositeInputSource does once all it yielded has
\* been released; whoever is in flight then is awaited.
SourceEnds ==
    /\ inLoop = "receive"
    /\ \A m \in 1..received : released[m] # "no"
    /\ inLoop' = "drain"
    /\ UNCHANGED <<received, lanes, output, closed, proc, cache, out, repros, reproOf, signals,
                   store, released, evicting, evicted, stopped, faults>>

CloseInput ==
    /\ inLoop = "drain" /\ signals = {}
    /\ inLoop' = "done"
    /\ closed' = [closed EXCEPT !.input = TRUE]
    /\ UNCHANGED <<received, lanes, output, proc, cache, out, repros, reproOf, signals, store,
                   released, evicting, evicted, stopped, faults>>

\* IInputSourceContext.evict, called by a source: mark what is queued, then
\* await what is in flight.
Evict ==
    /\ evicting.pc = "ready"
    /\ \E S \in faults.setting.evictions :
        /\ S \subseteq 1..received
        /\ evicted' = evicted \cup (S \cap (ToSet(lanes.low) \cup ToSet(lanes.high)))
        /\ evicting' = [set |-> S, pc |-> "waiting", awaits |-> signals]
    /\ UNCHANGED <<received, inLoop, lanes, output, closed, proc, cache, out, repros, reproOf,
                   signals, store, released, stopped, faults>>

EvictReturns ==
    /\ evicting.pc = "waiting" /\ evicting.awaits = {}
    /\ evicting' = [evicting EXCEPT !.pc = "returned"]
    /\ UNCHANGED <<received, inLoop, lanes, output, closed, proc, cache, out, repros, reproOf,
                   signals, store, released, evicted, stopped, faults>>

-----------------------------------------------------------------------------
(* The processing loop.                                                    *)

Pending == lanes.high \o lanes.low
Dropped(m) == IF reproOf[m] = 0 THEN {} ELSE repros[reproOf[m]].evict
IsEvictedWhenNew(m) == m \in evicted /\ reproOf[m] = 0              \* mutant
IsEvicted(m) == m \in evicted
FreshSignal(m) == CHOOSE s \in {<<m, 1>>, <<m, 2>>} : s \notin signals

\* dequeue, and handleInput up to the call of the handler: an evicted message
\* is released; one that is reprocessed drops the states of the contexts that
\* were set aside from the cache.
Take ==
    /\ proc.pc = "idle" /\ Pending # <<>>
    /\ LET m == Head(Pending)
       IN  /\ lanes' = IF lanes.high # <<>> THEN [lanes EXCEPT !.high = Tail(@)]
                                            ELSE [lanes EXCEPT !.low = Tail(@)]
           /\ IF IsEvicted(m)
              THEN /\ ReleaseOne(m, "unavailable")
                   /\ UNCHANGED <<proc, cache, repros, signals>>
              ELSE /\ signals' = signals \cup {FreshSignal(m)}
                   /\ proc' = [Idle EXCEPT !.pc = "dispatch", !.msg = m, !.sig = FreshSignal(m)]
                   /\ cache' = [k \in Key |-> IF k \in Dropped(m) THEN {} ELSE cache[k]]
                   /\ repros' = [r \in DOMAIN repros |->
                                    IF r = reproOf[m] THEN [repros[r] EXCEPT !.evict = {}]
                                    ELSE repros[r]]
                   /\ UNCHANGED released
    /\ UNCHANGED <<received, inLoop, output, closed, out, reproOf, store, evicting, evicted,
                   stopped, faults>>

\* A state of more events than there can be is computed from events that are
\* not stored, and conflicts, whatever they are.
Limit == Messages + MaxExternal
Compute(state, m) == IF Len(state) > Limit THEN state ELSE Append(state, m)
Remember(k, state) == IF Cached THEN [cache EXCEPT ![k] = {state}] ELSE cache
Context(base, does) == [msg |-> proc.msg, sig |-> proc.sig, base |-> base, does |-> does]

\* The output loop has nothing it could do without waiting: what it skips or
\* puts back it has.  A load from the store waits for I/O, by when this holds:
\* an assumption on the scheduling, that the order of the store rests on.
Settled ==
    /\ ~(out.pc \in {"skip", "requeue"} /\ (Room("high") \/ Refused))
    /\ ~(out.pc = "idle" /\ out.repro # 0 /\ output # <<>>
         /\ Head(output).msg # repros[out.repro].at)

\* CachingStateProvider.get: a hit, or a load, also of a state that the cache
\* has dropped, for its size or age, since it was set.
Load(k, state) ==
    \/ state \in cache[k] /\ UNCHANGED faults
    \/ /\ Settled /\ state = store[k]
       /\ cache[k] # {} => faults.drop < faults.setting.drops
       /\ faults' = IF cache[k] = {} THEN faults ELSE [faults EXCEPT !.drop = @ + 1]

\* The handler stores an event; complete() caches the state it leads to.
Handle ==
    /\ proc.pc = "dispatch"
    /\ LET k == KeyOf[proc.msg]
       IN  \E state \in cache[k] \cup {store[k]} :
             /\ Load(k, state)
             /\ proc' = [proc EXCEPT !.pc = "offer", !.context = Context(state, "store")]
             /\ cache' = Remember(k, Compute(state, proc.msg))
    /\ UNCHANGED <<received, inLoop, lanes, output, closed, out, repros, reproOf, signals, store,
                   released, evicting, evicted, stopped>>

\* The handler has nothing stored: it failed for good, its input or output was
\* invalid, or there is none.  It may have loaded its state; a handler whose
\* key is not cached has waited for I/O by then, as in Load.
NothingStored ==
    LET k == KeyOf[proc.msg]
    IN  /\ proc.pc = "dispatch" /\ (cache[k] = {} => Settled)
        /\ faults.handler < MaxHandlerFaults
        /\ faults' = [faults EXCEPT !.handler = @ + 1]
        /\ cache' \in {cache} \cup (IF cache[k] = {} THEN {Remember(k, store[k])} ELSE {})

\* Unless the error handling fails the application, the context goes on empty.
HandleNothing ==
    /\ NothingStored
    /\ \E does \in {"nothing"} \cup (IF faults.setting.mode = "continue" THEN {"error"} ELSE {}) :
            proc' = [proc EXCEPT !.pc = "offer", !.context = Context(<<>>, does)]
    /\ UNCHANGED <<received, inLoop, lanes, output, closed, out, repros, reproOf, signals, store,
                   released, evicting, evicted, stopped>>

\* The handler fails for good and the error handling fails the application.
HandlerThrows ==
    /\ NothingStored /\ faults.setting.mode = "fail"
    /\ ReleaseOne(proc.msg, "unavailable")
    /\ Resolve({proc.sig})
    /\ closed' = [closed EXCEPT !.input = TRUE]
    /\ proc' = [Idle EXCEPT !.pc = "failed"]
    /\ UNCHANGED <<received, inLoop, lanes, output, out, repros, reproOf, store, evicted,
                   stopped>>

\* The context is enqueued, or its message released if it cannot be.
Offer ==
    /\ proc.pc = "offer"
    /\ proc' = Idle
    /\ IF Len(output) < OutputCapacity
       THEN /\ output' = Append(output, proc.context)
            /\ UNCHANGED <<released, signals, evicting>>
       ELSE /\ closed.output
            /\ ReleaseOne(proc.msg, "unavailable")
            /\ Resolve({proc.sig})
            /\ UNCHANGED output
    /\ UNCHANGED <<received, inLoop, lanes, closed, cache, out, repros, reproOf, store, evicted,
                   stopped, faults>>

\* Both iterations end: the queue is closed and drained.
ProcessingEnds ==
    /\ proc.pc = "idle" /\ Pending = <<>> /\ closed.input
    /\ proc' = [proc EXCEPT !.pc = "done"]
    /\ closed' = [closed EXCEPT !.output = TRUE]
    /\ UNCHANGED <<received, inLoop, lanes, output, cache, out, repros, reproOf, signals, store,
                   released, evicting, evicted, stopped, faults>>

-----------------------------------------------------------------------------
(* The output loop.                                                        *)

WrapFirst(r, c) ==                                                   \* mutant
    LET keys == IF c.does = "store" /\ r.seen = {} THEN {KeyOf[c.msg]} ELSE {}
    IN  [r EXCEPT !.seen = @ \cup keys, !.evict = @ \cup keys]

\* ReprocessingContext.wrap: remember to evict the states c loaded, once each.
Wrap(r, c) ==
    LET keys == IF c.does = "store" THEN {KeyOf[c.msg]} \ r.seen ELSE {}
    IN  [r EXCEPT !.seen = @ \cup keys, !.evict = @ \cup keys]

SetAside(r, c, contexts) ==
    /\ repros' = [contexts EXCEPT ![r] = Wrap(@, c)]
    /\ reproOf' = [reproOf EXCEPT ![c.msg] = r]

LingersOn(batch, waited, rest) == rest = <<>> /\ Len(batch) < MinBatch  \* mutant
Lingers(batch, waited, rest) == rest = <<>> /\ ~waited /\ Len(batch) < MinBatch

\* A batch that is not full waits for what is already in the queue; its
\* signals are resolved whenever the loop moves on.
AddToBatch(batch, waited, rest) ==
    IF Lingers(batch, waited, rest)
    THEN /\ out' = [Empty EXCEPT !.pc = "linger", !.batch = batch, !.waited = TRUE]
         /\ UNCHANGED <<signals, evicting>>
    ELSE IF Len(batch) # MaxBatch /\ rest # <<>>
    THEN /\ out' = [Empty EXCEPT !.batch = batch, !.waited = waited]
         /\ Resolve(SignalsOf(batch))
    ELSE /\ out' = [Empty EXCEPT !.pc = "sink", !.batch = batch, !.waited = waited]
         /\ UNCHANGED <<signals, evicting>>

SkipsNone(c) == FALSE                                                \* mutant
SkipsAll(c) == out.repro # 0                                         \* mutant
Skips(c) == out.repro # 0 /\ c.msg # repros[out.repro].at

TakeOutput ==
    /\ out.pc = "idle" /\ output # <<>>
    /\ ~Skips(Head(output))
    /\ output' = Tail(output)
    /\ AddToBatch(Append(out.batch, Head(output)), out.waited, Tail(output))
    /\ UNCHANGED <<received, inLoop, lanes, closed, proc, cache, repros, reproOf, store, released,
                   evicted, stopped, faults>>

\* What was dispatched after a context that is to be reprocessed is wrapped,
\* and set aside until that one is back.
Skip ==
    /\ out.pc = "idle" /\ output # <<>>
    /\ LET c == Head(output)
       IN  /\ Skips(c)
           /\ out' = [out EXCEPT !.pc = "skip", !.batch = <<c>>, !.sigs = {c.sig}]
           /\ SetAside(out.repro, c, repros)
    /\ output' = Tail(output)
    /\ UNCHANGED <<received, inLoop, lanes, closed, proc, cache, signals, store, released,
                   evicting, evicted, stopped, faults>>

\* The linger interval is over.
Lingered ==
    /\ out.pc = "linger"
    /\ AddToBatch(out.batch, TRUE, output)
    /\ UNCHANGED <<received, inLoop, lanes, output, closed, proc, cache, repros, reproOf, store,
                   released, evicted, stopped, faults>>

-----------------------------------------------------------------------------
(* dispatchToSink, and what becomes of the batch.                          *)

\* Those of the contexts that have an event, in order.
Stored(contexts) ==
    LET stored[n \in 0..Len(contexts)] ==
          IF n = 0 THEN <<>>
          ELSE IF contexts[n].does = "store" THEN Append(stored[n - 1], contexts[n])
          ELSE stored[n - 1]
    IN  stored[Len(contexts)]

\* Partition k after the events of these contexts have been appended.
Extended(contexts, k) ==
    LET log[n \in 0..Len(contexts)] ==
          IF n = 0 THEN store[k]
          ELSE IF KeyOf[contexts[n].msg] = k THEN Append(log[n - 1], contexts[n].msg)
          ELSE log[n - 1]
    IN  log[Len(contexts)]

\* The partitions after the first n contexts with an event are stored.
StoredAfter(n) == [k \in Key |-> Extended(SubSeq(Stored(out.batch), 1, n), k)]

\* How many of them are stored before one turns out not to be computed at the
\* length its partition then has, be it by the filter or by the sink.
Accepts(n, c) == Len(c.base) = Len(StoredAfter(n)[KeyOf[c.msg]])
Good ==
    LET storing == Stored(out.batch)
        refused == {n \in 0..(Len(storing) - 1) : ~Accepts(n, storing[n + 1])}
    IN  IF refused = {} THEN Len(storing) ELSE CHOOSE n \in refused : \A i \in refused : n <= i

\* The sizes of the chunks, halved from search to search.
Sizes(total) ==
    LET size[j \in 0..total] == IF j = 0 THEN total ELSE size[j - 1] \div 2
    IN  size

\* BatchHandler's search for it: the batch in chunks of ever smaller size, each
\* time from the context after as many as have been stored, which is the right
\* one only while none before it was without an event.
Kept ==
    LET total == Len(Stored(out.batch))
        good == Good
        aligned(n) == \A i \in 1..n : out.batch[i].does = "store"
        size == Sizes(total)
        kept[j \in 0..total] ==
            IF j = 0 THEN 0
            ELSE IF size[j] = 0 \/ ~aligned(kept[j - 1]) THEN kept[j - 1]
            ELSE kept[j - 1] + size[j] * ((good - kept[j - 1]) \div size[j])
    IN  IF good = total THEN total ELSE kept[total]
IsConflict == Good < Len(Stored(out.batch))

\* How a context's message is released: with handlerResult.error, which a sink
\* error replaces, or without an error ("nothing" if there was none to store).
Outcomes(batch, sinkError) ==
    LET outcome(c) == IF sinkError THEN "error" ELSE IF c.does = "store" THEN "ok" ELSE c.does
    IN  [m \in {c.msg : c \in ToSet(batch)} |->
            outcome(CHOOSE c \in ToSet(batch) : c.msg = m)]

SinkBatch ==
    /\ out.pc = "sink" /\ ~IsConflict
    /\ store' = StoredAfter(Kept)
    /\ Release(Outcomes(out.batch, FALSE))
    /\ Resolve(SignalsOf(out.batch))
    /\ out' = Empty
    /\ UNCHANGED <<received, inLoop, lanes, output, closed, proc, cache, repros, reproOf,
                   evicted, stopped, faults>>

ProcessedOneMore == SubSeq(out.batch, 1, Kept + 1)                   \* mutant
Processed == SubSeq(out.batch, 1, Kept)

\* The contexts before the one reported are released, the others are to be
\* wrapped and requeued; `at` is the sequence the loop then waits for.
Conflict ==
    /\ out.pc = "sink" /\ IsConflict
    /\ store' = StoredAfter(Kept)
    /\ Release(Outcomes(Processed, FALSE))
    /\ LET first == out.batch[Kept + 1]
       IN  SetAside(Len(repros) + 1, first,
                    Append(repros, [at |-> first.msg, seen |-> {}, evict |-> {}]))
    /\ out' = [pc |-> "requeue", batch |-> SubSeq(out.batch, Kept + 1, Len(out.batch)),
               waited |-> FALSE, repro |-> Len(repros) + 1, sigs |-> SignalsOf(out.batch)]
    /\ UNCHANGED <<received, inLoop, lanes, output, closed, proc, cache, signals, evicting,
                   evicted, stopped, faults>>

\* The message that was wrapped is enqueued at high priority, and the next one
\* wrapped.  If the queue is closed and full the loop returns when it skips,
\* and releases the last message of the batch, not this one, when it requeues.
PutBack ==
    /\ out.pc \in {"skip", "requeue"}
    /\ LET c == Head(out.batch)
       IN  \/ Room("high") /\ Push("high", c.msg) /\ closed' = Remade /\ UNCHANGED released
           \/ /\ Refused
              /\ ReleaseOne(IF out.pc = "skip" THEN c.msg ELSE Last(out.batch).msg, "error")
              /\ UNCHANGED <<lanes, closed>>
    /\ IF Len(out.batch) > 1
       THEN /\ out' = [out EXCEPT !.batch = Tail(@)]
            /\ SetAside(out.repro, out.batch[2], repros)
            /\ UNCHANGED <<signals, evicting>>
       ELSE /\ Resolve(out.sigs)
            /\ out' = [Empty EXCEPT !.repro = out.repro,
                                    !.pc = IF out.pc = "skip" /\ ~Room("high") THEN "done"
                                           ELSE "idle"]
            /\ UNCHANGED <<repros, reproOf>>
    /\ UNCHANGED <<received, inLoop, output, proc, cache, store, evicted, stopped, faults>>

\* The sink fails for another reason, and some of the contexts may have been
\* stored.
SomeStored ==
    /\ out.pc = "sink" /\ faults.sink < MaxSinkFaults
    /\ faults' = [faults EXCEPT !.sink = @ + 1]
    /\ \E n \in 0..Good : n < Len(Stored(out.batch)) /\ store' = StoredAfter(n)

\* The retrier gives the whole batch to the sink again.
SinkRetries ==
    /\ SomeStored
    /\ UNCHANGED <<received, inLoop, lanes, output, closed, proc, cache, out, repros, reproOf,
                   signals, released, evicting, evicted, stopped>>

\* The retrier's attempts are used up.
SinkFails ==
    /\ SomeStored
    /\ Release(Outcomes(out.batch, TRUE))
    /\ Resolve(SignalsOf(out.batch))
    /\ out' = IF faults.setting.mode = "continue" THEN Empty ELSE [Empty EXCEPT !.pc = "failed"]
    /\ UNCHANGED <<received, inLoop, lanes, output, closed, proc, cache, repros, reproOf,
                   evicted, stopped>>

OutputEnds ==
    /\ out.pc = "idle" /\ output = <<>> /\ closed.output
    /\ out' = [out EXCEPT !.pc = "done"]
    /\ UNCHANGED <<received, inLoop, lanes, output, closed, proc, cache, repros, reproOf,
                   signals, store, released, evicting, evicted, stopped, faults>>

-----------------------------------------------------------------------------
\* One of the loops threw: run() closes both queues and has the source stop.
RunFails ==
    /\ "failed" \in {proc.pc, out.pc} /\ ~stopped
    /\ closed' = [closed EXCEPT !.input = TRUE, !.output = TRUE]
    /\ stopped' = TRUE
    /\ UNCHANGED <<received, inLoop, lanes, output, proc, cache, out, repros, reproOf, signals,
                   store, released, evicting, evicted, faults>>

\* Another process appends to a partition.
OtherStores ==
    /\ faults.other < MaxExternal
    /\ faults' = [faults EXCEPT !.other = @ + 1]
    /\ \E k \in Key : store' = [store EXCEPT ![k] = Append(@, Other)]
    /\ UNCHANGED <<received, inLoop, lanes, output, closed, proc, cache, out, repros, reproOf,
                   signals, released, evicting, evicted, stopped>>

\* run() has returned or thrown.
Over == (stopped \/ {inLoop, proc.pc, out.pc} = {"done"}) /\ UNCHANGED vars

InputLoop == Receive \/ ResumeReceive \/ SourceEnds \/ CloseInput
ProcessingLoop == Take \/ Handle \/ HandleNothing \/ HandlerThrows \/ Offer \/ ProcessingEnds
OutputLoop == TakeOutput \/ Skip \/ Lingered \/ SinkBatch \/ Conflict \/ PutBack \/ SinkRetries
              \/ SinkFails \/ OutputEnds
Environment == Evict \/ EvictReturns \/ RunFails \/ OtherStores \/ Over
Next == InputLoop \/ ProcessingLoop \/ OutputLoop \/ Environment

\* Each loop runs on whenever it can; the source need neither yield nor end.
Fairness == /\ WF_vars(ResumeReceive \/ CloseInput)
            /\ WF_vars(ProcessingLoop)
            /\ WF_vars(OutputLoop)
            /\ WF_vars(EvictReturns)

Spec == Init /\ [][Next]_vars
FairSpec == Spec /\ Fairness
=============================================================================
