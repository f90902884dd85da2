---------------------- MODULE BoundedPriorityQueueProps ----------------------
(***************************************************************************)
(* The properties of BoundedPriorityQueue.                                 *)
(***************************************************************************)
EXTENDS BoundedPriorityQueue

WriterState == [pc : {"ready", "blocked", "woken"}, priority : Priority, calls : 0..MaxCalls]

\* Every variable has its type and no lane exceeds its capacity.
TypeOK ==
    /\ queues \in [Priority -> Seq(Item)]
    /\ \A p \in Priority : Len(queues[p]) <= Capacity
    /\ known \in SUBSET Priority
    /\ whenNotFull \in [Priority -> Future(Writer)]
    /\ whenNotEmpty \in Future(Reader)
    /\ total_count \in Nat
    /\ closed \in BOOLEAN
    /\ writer \in [Writer -> WriterState]
    /\ \A w \in Writer : writer[w].pc # "ready" => writer[w].calls > 0
    /\ reader \in [Reader -> {"ready", "blocked", "woken", "done"}]
    /\ delivered \in Seq(Item)
    /\ refused \in SUBSET Item

\* The counter that decides whether the reader is woken, and whether a closed
\* queue is drained, agrees with the lanes; a lane that was dropped is empty.
CountMatches ==
    /\ total_count = Len(queues[0]) + Len(queues[1])
    /\ \A p \in Priority \ known : queues[p] = <<>>

\* A writer parked in enqueue waits on the Future that is in the map for its
\* lane, unresolved, while the lane is full: the dequeue that makes room wakes
\* it.  (A writer can be parked at a closed queue: BlockedCallsFailOnClose.)
NoStrandedWriter ==
    \A w \in Writer : writer[w].pc = "blocked" =>
        LET p == writer[w].priority
        IN  /\ Len(queues[p]) = Capacity
            /\ whenNotFull[p].state = "pending"
            /\ w \in whenNotFull[p].waiters

\* With a single reader, which is how the processors use the queue: a reader
\* parked in dequeue waits on the current whenNotEmpty, and the queue is open
\* and empty: the next enqueue, or close, is bound to wake it.
NoStrandedReader ==
    \A r \in Reader : reader[r] = "blocked" =>
        /\ ~closed
        /\ total_count = 0
        /\ whenNotEmpty.state = "pending"
        /\ r \in whenNotEmpty.waiters

\* The Futures and the callers agree: only a pending Future has waiters, they
\* are parked calls of its lane, and a closed queue's whenNotEmpty is resolved.
FuturesMatch ==
    /\ \A p \in Priority : whenNotFull[p].state # "pending" => whenNotFull[p].waiters = {}
    /\ \A p \in Priority : \A w \in whenNotFull[p].waiters :
            writer[w].pc = "blocked" /\ writer[w].priority = p
    /\ whenNotEmpty.state # "absent"
    /\ whenNotEmpty.state = "resolved" => whenNotEmpty.waiters = {}
    /\ \A r \in whenNotEmpty.waiters : reader[r] = "blocked"
    /\ closed => whenNotEmpty.state = "resolved"

\* The inductive invariant the proofs rest on.
Inv == /\ TypeOK
       /\ CountMatches
       /\ FuturesMatch
       /\ NoStrandedWriter
       /\ NoStrandedReader

\* The queue behaves as the abstract one: bounded lanes, first in first out
\* within a lane, high priority first, false only after close.
Abstract == INSTANCE PriorityQueue
                WITH lane <- queues, shut <- closed
ImplementsPriorityQueue == Abstract!Spec

\* An item enqueue accepted before close reaches the reader, whatever the
\* other writers do and even if the queue is closed in the meantime.
Queued(i) == \E p \in Priority, n \in 1..Capacity : n <= Len(queues[p]) /\ queues[p][n] = i
AcceptedIsDelivered ==
    \A i \in Item :
        (Queued(i) /\ ~closed) ~> (\E n \in DOMAIN delivered : delivered[n] = i)

\* An enqueue call parked at an open queue is answered, although a woken
\* writer can find its place taken by a newcomer and park again.
EnqueueReturns ==
    \A w \in Writer :
        (writer[w].pc = "blocked" /\ ~closed) ~> writer[w].pc = "ready"

\* Once the queue is closed the iteration over it ends.
CloseEndsIteration == \A r \in Reader : closed ~> reader[r] = "done"

\* "fails blocked enqueue/dequeue on close": no call stays parked at a closed
\* queue.  The code parks an enqueue that comes after the close and finds full
\* a lane that was made after the close: its Future is never resolved.
BlockedCallsFailOnClose ==
    closed => /\ \A w \in Writer : writer[w].pc # "blocked"
              /\ \A r \in Reader : reader[r] # "blocked"
=============================================================================
