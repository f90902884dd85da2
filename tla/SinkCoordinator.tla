--------------------------- MODULE SinkCoordinator ---------------------------
(***************************************************************************)
(* One dispatchToSink of a processor: CompositeOutputSink.sink, which has  *)
(* SinkCoordinator.handle filter the contexts of a batch, store what they  *)
(* stored and publish what they published, each through a BatchHandler,    *)
(* under the retrier's attempts.  A step is one call of a sink, or the     *)
(* synchronous code between two of them.                                   *)
(*                                                                         *)
(* The store sink checks sequence numbers as InMemoryStateOutputSink does; *)
(* a call of either sink may also fail for a reason of its own.  Bounds:   *)
(* the number of contexts, the failures and the retrier's attempts.        *)
(***************************************************************************)
EXTENDS Batching

CONSTANTS Key,          \* partitions
          Plan,         \* what a handler may do: [stored, loaded, published, branch, stale]
          Contexts,     \* number of contexts in the batch
          StoreSinks,   \* guarantees the store sink may have
          PublishSinks, \* guarantees the publish sink may have
          MaxAttempts,  \* attempts of the sink retrier
          MaxFaults,    \* bound: calls of a sink that fail on their own
          External      \* events another process may have appended meanwhile

Index == 1..Contexts

Plans == [stored : Seq(Key), loaded : SUBSET Key, published : Seq(Key),
          branch : BOOLEAN, stale : BOOLEAN]
Guarantees == [consistency : Consistency, maxBatch : Nat, idempotent : BOOLEAN]

ASSUME SinkAssumption ==
    /\ IsFiniteSet(Key) /\ \A p \in Plan : p \in Plans
    /\ \A s \in StoreSinks \cup PublishSinks : s \in Guarantees
    /\ {Contexts, MaxFaults, External} \subseteq Nat /\ MaxAttempts \in Nat \ {0}

VARIABLES
    sinks,      \* the guarantees of the two sinks
    contexts,   \* the BufferedDispatchContexts, in input order
    epochs,     \* EpochManager
    events,     \* events[k]: the items stored in partition k
    sent,       \* the items published, in order
    pc,         \* "handle", "store", "publish", "partial", "done"
    frame,      \* the BatchHandler.handle call in progress
    storeOutcome, \* what storeTarget.handle returned
    outcome,    \* [error, at]: what sink() threw, and failed[0], once "done"
    attempt,    \* retry.currentAttempt
    faults

vars == <<sinks, contexts, epochs, events, sent, pc, frame, storeOutcome, outcome, attempt,
          faults>>

-----------------------------------------------------------------------------
\* The state handlers of the batch saw: each builds on what its predecessor
\* left in the state cache, except a handler that ran concurrently with its
\* predecessor ("branch") or on a state loaded before an epoch change ("stale").
Base(plan) ==
    LET base[i \in Index] ==
          IF i = 1 THEN [k \in Key |-> 0]
          ELSE IF plan[i].branch THEN base[i - 1]
          ELSE [k \in Key |-> base[i - 1][k] + StoredTo(plan[i - 1], k)]
    IN  base

Context(plan, i) ==
    [stored |-> plan[i].stored, loaded |-> plan[i].loaded, published |-> plan[i].published,
     base |-> Base(plan)[i], epoch |-> [k \in Key |-> IF plan[i].stale THEN 1 ELSE 2]]

\* storeTargetItems: the stored messages, then the states only loaded.
StoreItems(i) ==
    LET c == contexts[i]
        keys == c.stored \o SetToSeq({k \in c.loaded : StoredTo(c, k) = 0})
    IN  [n \in DOMAIN keys |-> [ctx |-> i, key |-> keys[n], sn |-> c.base[keys[n]],
                                verify |-> n > Len(c.stored), last |-> n = Len(keys)]]

PublishItems(i) ==
    LET keys == contexts[i].published
    IN  [n \in DOMAIN keys |-> [ctx |-> i, key |-> keys[n], last |-> n = Len(keys)]]

ItemsOf(target, i) == IF target = "store" THEN StoreItems(i) ELSE PublishItems(i)
Sink(target) == sinks[target]

Containers(target, items) == [n \in DOMAIN items |-> ItemsOf(target, items[n])]
Total(target, items) == Len(FlattenSeq(Containers(target, items)))

\* A BatchHandler.handle call on `items`, after `done` contexts of the same
\* call completed in the calls it recursed from.
Frame(target, done, items, size) ==
    [target |-> target, done |-> done, items |-> items, size |-> size, completed |-> 0,
     chunks |-> IF items = <<>> THEN <<>>
                ELSE Chunks(Sink(target), size, Containers(target, items))]

Call(target, items) ==
    LET total == Total(target, items)
        max == Sink(target).maxBatch
    IN  Frame(target, <<>>, IF total = 0 THEN <<>> ELSE items, IF max > 0 THEN max ELSE total)

NoFrame == Frame("store", <<>>, <<>>, 1)
AllDone == [successful |-> <<>>, failed |-> <<>>, error |-> "none", retryable |-> FALSE]

MayRetry(f) == Sink(f.target).consistency # "None" \/ Len(f.items) = 1

HalvedWhole(f) ==                                                    \* mutant
    Frame(f.target, f.done, f.items, f.size \div 2)
HalvedPastFailure(f) ==                                              \* mutant
    LET rest == SubSeq(f.items, f.completed + 2, Len(f.items))
    IN  Frame(f.target, f.done \o SubSeq(f.items, 1, f.completed),
              IF Total(f.target, rest) = 0 THEN <<>> ELSE rest, f.size \div 2)

\* What handle does when a sink call throws e: search the remaining contexts
\* with half the batch size, or report the contexts completed so far.
Halved(f) ==
    LET rest == SubSeq(f.items, f.completed + 1, Len(f.items))
    IN  Frame(f.target, f.done \o SubSeq(f.items, 1, f.completed),
              IF Total(f.target, rest) = 0 THEN <<>> ELSE rest, f.size \div 2)
FailureOneMore(f, e) ==                                              \* mutant
    [successful |-> f.done \o SubSeq(f.items, 1, f.completed + 1),
     failed |-> SubSeq(f.items, f.completed + 1, Len(f.items)),
     error |-> e, retryable |-> e = "conflict" \/ MayRetry(f)]
Failure(f, e) ==
    [successful |-> f.done \o SubSeq(f.items, 1, f.completed),
     failed |-> SubSeq(f.items, f.completed + 1, Len(f.items)),
     error |-> e, retryable |-> e = "conflict" \/ MayRetry(f)]

-----------------------------------------------------------------------------
Prefix(n) == [i \in 1..n |-> i]
Good == LET stale == FirstStale(contexts, epochs) - 1
        IN  FirstNonLinear(SubSeq(contexts, 1, stale)) - 1
FilterError == Good < Contexts

Init ==
    \E plan \in [Index -> Plan], ext \in [Key -> 0..External] :
        /\ sinks \in [store : StoreSinks, publish : PublishSinks]
        /\ contexts = [i \in Index |-> Context(plan, i)]
        /\ epochs = [k \in Key |-> 2]
        /\ events = [k \in Key |-> [n \in 1..ext[k] |-> 0]]
        /\ sent = <<>>
        /\ pc = "handle"
        /\ frame = NoFrame
        /\ storeOutcome = AllDone
        /\ outcome = [error |-> "none", at |-> Contexts + 1]
        /\ attempt = 1
        /\ faults = 0

\* handle(): filter, then start storing what is left.
Handle ==
    /\ pc = "handle"
    /\ pc' = "store"
    /\ frame' = Call("store", Prefix(Good))
    /\ UNCHANGED <<sinks, contexts, epochs, events, sent, storeOutcome, outcome, attempt, faults>>

\* The sequence number check of the store sink, over one call's items: one that
\* follows others of the same uniqueId, key and number, counts on from them.
Additions(chunk, n, k) ==
    Cardinality({j \in 1..(n - 1) : chunk[j].key = k /\ ~chunk[j].verify})
Increment(chunk, n) ==
    Cardinality({j \in 1..(n - 1) : /\ chunk[j].key = chunk[n].key
                                    /\ chunk[j].sn = chunk[n].sn /\ ~chunk[j].verify})
AcceptedOutdated(chunk) ==                                           \* mutant
    \A n \in DOMAIN chunk :
        chunk[n].sn + Increment(chunk, n)
            <= Len(events[chunk[n].key]) + Additions(chunk, n, chunk[n].key)
Accepted(chunk) ==
    \A n \in DOMAIN chunk :
        chunk[n].sn + Increment(chunk, n)
            = Len(events[chunk[n].key]) + Additions(chunk, n, chunk[n].key)

\* Partition k once the store has gone through the chunk, whose items that
\* only verify a number add nothing.
Extended(chunk, k) ==
    LET stored[n \in 0..Len(chunk)] ==
          IF n = 0 THEN events[k]
          ELSE IF chunk[n].key = k /\ ~chunk[n].verify THEN Append(stored[n - 1], chunk[n].ctx)
          ELSE stored[n - 1]
    IN  stored[Len(chunk)]

Apply(chunk) ==
    /\ frame' = [frame EXCEPT !.chunks = Tail(@), !.completed = @ + CompletedBy(chunk)]
    /\ IF frame.target = "store"
       THEN events' = [k \in Key |-> Extended(chunk, k)] /\ UNCHANGED sent
       ELSE sent' = sent \o [n \in DOMAIN chunk |-> chunk[n].ctx] /\ UNCHANGED events

SinkChunk ==
    /\ frame.chunks # <<>>
    /\ frame.target = "store" => Accepted(Head(frame.chunks))
    /\ Apply(Head(frame.chunks))
    /\ UNCHANGED <<sinks, contexts, epochs, pc, storeOutcome, outcome, attempt, faults>>

-----------------------------------------------------------------------------
\* sink() returns or throws.  bail ends the retrier, as does the last attempt.
Return ==
    /\ pc' = "done" /\ outcome' = [error |-> "none", at |-> Contexts + 1]
    /\ UNCHANGED attempt
OneAttemptMore == attempt > MaxAttempts                              \* mutant
IsFinalAttempt == attempt >= MaxAttempts
Throw(e, at, retryable) ==
    IF e # "conflict" /\ retryable /\ ~IsFinalAttempt
    THEN pc' = "handle" /\ attempt' = attempt + 1 /\ UNCHANGED outcome
    ELSE pc' = "done" /\ outcome' = [error |-> e, at |-> at] /\ UNCHANGED attempt

InvalidateFirst(bad) ==                                              \* mutant
    epochs' = [k \in Key |-> IF bad # <<>> /\ k \in contexts[bad[1]].loaded
                             THEN epochs[k] + 1 ELSE epochs[k]]
InvalidateEpochs(bad) ==
    epochs' = [k \in Key |-> IF \E n \in DOMAIN bad : k \in contexts[bad[n]].loaded
                             THEN epochs[k] + 1 ELSE epochs[k]]

BadContexts == [n \in 1..(Contexts - Good) |-> Good + n]

\* handle() after storeTarget.handle returned r.
AfterStore(r) ==
    /\ InvalidateEpochs(BadContexts \o (IF r.error = "conflict" THEN r.failed ELSE <<>>))
    /\ IF r.error # "none"
       THEN /\ pc' = "partial"
            /\ frame' = Call("publish", r.successful)
            /\ storeOutcome' = [r EXCEPT !.failed = @ \o BadContexts]
            /\ UNCHANGED <<outcome, attempt>>
       ELSE IF FilterError
       THEN /\ Throw("conflict", Good + 1, FALSE)
            /\ frame' = NoFrame
            /\ UNCHANGED storeOutcome
       ELSE /\ pc' = "publish"
            /\ frame' = Call("publish", Prefix(Contexts))
            /\ UNCHANGED <<storeOutcome, outcome, attempt>>
    /\ UNCHANGED <<sinks, contexts, events, sent>>

\* handle() after publishTarget.handle returned r.
AfterPublish(r) ==
    /\ frame' = NoFrame
    /\ IF pc = "partial"
       THEN Throw(storeOutcome.error, Head(storeOutcome.failed), storeOutcome.retryable)
       ELSE IF r.error = "none" THEN Return
       ELSE Throw(r.error, Head(r.failed), Sink("store").idempotent /\ r.retryable)
    /\ UNCHANGED <<sinks, contexts, epochs, events, sent, storeOutcome>>

After(r) == IF pc = "store" THEN AfterStore(r) ELSE AfterPublish(r)

Finish ==
    /\ pc \in {"store", "publish", "partial"}
    /\ frame.chunks = <<>>
    /\ After(AllDone)
    /\ UNCHANGED faults

Catch(e) ==
    IF MayRetry(frame) /\ frame.size > 1
    THEN frame' = Halved(frame)
         /\ UNCHANGED <<sinks, contexts, epochs, events, sent, pc, storeOutcome, outcome, attempt>>
    ELSE After(Failure(frame, e))

\* The store sink finds another sequence number than the state was loaded at.
Conflict ==
    /\ pc = "store" /\ frame.chunks # <<>>
    /\ ~Accepted(Head(frame.chunks))
    /\ Catch("conflict")
    /\ UNCHANGED faults

\* A sink call fails for a reason of its own, before anything is written.
Fault ==
    /\ pc # "done" /\ frame.chunks # <<>>
    /\ faults < MaxFaults
    /\ faults' = faults + 1
    /\ Catch("other")

\* The dispatch is over: the only state in which nothing more happens.
Over == pc = "done" /\ UNCHANGED vars

Next == Handle \/ SinkChunk \/ Finish \/ Conflict \/ Fault \/ Over
Spec == Init /\ [][Next]_vars
=============================================================================
