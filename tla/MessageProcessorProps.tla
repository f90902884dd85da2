------------------------- MODULE MessageProcessorProps -------------------------
(***************************************************************************)
(* The properties of MessageProcessor.                                     *)
(***************************************************************************)
EXTENDS MessageProcessor

Logs == Seq(Msg \cup {Other})
Contexts == [msg : Msg, sig : Msg \X {1, 2}, base : Logs, does : {"store", "nothing", "error"}]

\* Every variable has its type, and no queue or batch exceeds its capacity.
TypeOK ==
    /\ received \in 0..Messages
    /\ inLoop \in {"receive", "blocked", "drain", "done"}
    /\ \A l \in {"low", "high"} : lanes[l] \in Seq(Msg) /\ Len(lanes[l]) <= InputCapacity
    /\ output \in Seq(Contexts) /\ Len(output) <= OutputCapacity
    /\ closed \in [{"input", "output", "late"} -> BOOLEAN]
    /\ proc.pc \in {"idle", "dispatch", "offer", "done", "failed"}
    /\ \A k \in Key : cache[k] \subseteq Logs /\ Cardinality(cache[k]) <= 1
    /\ out.pc \in {"idle", "linger", "sink", "skip", "requeue", "done", "failed"}
    /\ out.batch \in Seq(Contexts) /\ Len(out.batch) <= MaxBatch
    /\ out.repro \in 0..Len(repros)
    /\ reproOf \in [Msg -> 0..Len(repros)]
    /\ signals \subseteq Msg \X {1, 2}
    /\ store \in [Key -> Logs]
    /\ released \in [Msg -> {"no", "ok", "nothing", "error", "unavailable"}]

\* Where a message can be: each occurrence counts.
Places(m) ==
    LET in(s) == {i \in DOMAIN s : s[i] = m}
        at(s) == {i \in DOMAIN s : s[i].msg = m}
    IN  Cardinality(in(lanes.low)) + Cardinality(in(lanes.high)) + Cardinality(at(output))
        + Cardinality(at(out.batch))
        + (IF proc.pc \in {"dispatch", "offer"} /\ proc.msg = m THEN 1 ELSE 0)
        + (IF inLoop = "blocked" /\ received = m THEN 1 ELSE 0)

\* No message is lost or doubled on its way through the queues, the batch and
\* back: until it is released a received message is in one place, and then in
\* none.
NoneLost == \A m \in 1..received : Places(m) = IF released[m] = "no" THEN 1 ELSE 0

\* A message acknowledged without an error, whose handler stored an event, has
\* that event in its partition: a source that commits it loses nothing.
AcknowledgedIsStored ==
    \A m \in Msg : released[m] = "ok" => m \in ToSet(store[KeyOf[m]])

\* No event is stored twice, however often its message is handled anew, and
\* the events of a partition are in the order their messages were received in.
StoredOnceInOrder ==
    \A k \in Key : \A i, j \in DOMAIN store[k] :
        i < j /\ Other \notin {store[k][i], store[k][j]} => store[k][i] < store[k][j]

\* What is stored was computed from exactly the events stored before it, as
\* long as no message was evicted: one that is to be handled anew leaves the
\* state it computed before in the cache, and another process's event may then
\* take the place of its own (BuildsOnStoredAnyhow does not hold).
BuiltOnStored ==
    \A k \in Key : \A n \in (Len(store[k]) + 1)..Len(store'[k]) :
        store'[k][n] # Other =>
            \E i \in DOMAIN out.batch :
                /\ out.batch[i].msg = store'[k][n]
                /\ out.batch[i].base = SubSeq(store'[k], 1, n - 1)
BuildsOnStored == [][evicted = {} => BuiltOnStored]_vars
BuildsOnStoredAnyhow == [][BuiltOnStored]_vars

\* Every message the source yields is released in the end, however many
\* conflicts and failures it and its neighbours meet, unless one of them is to
\* fail the application.
EveryMessageReleased ==
    \A m \in Msg : received >= m /\ faults.setting.mode = "continue" ~> released[m] # "no"

\* A message that was queued when it was evicted is not handled: nothing of it
\* is stored, also when it was queued to be reprocessed.
EvictedIsNotStored == \A m \in evicted : m \notin ToSet(store[KeyOf[m]])

\* evict returns: a source does not hang in a rebalance.
EvictionEnds == evicting.pc = "waiting" ~> evicting.pc = "returned"

\* Once evict has returned, nothing of a message it was called for is stored.
EvictedIsOver ==
    [][evicting.pc = "returned" =>
          \A k \in Key : \A n \in (Len(store[k]) + 1)..Len(store'[k]) :
              store'[k][n] \notin evicting.set]_vars

\* When the processing loop and the output loop have ended, however they did,
\* no message is left in the input queue without having been released.
LeftoversReleased ==
    proc.pc \in {"done", "failed"} /\ out.pc \in {"done", "failed"} /\ stopped =>
        \A m \in ToSet(lanes.low) \cup ToSet(lanes.high) : released[m] # "no"
=============================================================================
