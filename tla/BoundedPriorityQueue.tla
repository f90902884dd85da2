------------------------ MODULE BoundedPriorityQueue ------------------------
(***************************************************************************)
(* utils/BoundedPriorityQueue.ts.  A step is one synchronous segment of    *)
(* enqueue, dequeue or close: from the call, or from the resumption after  *)
(* an await, to the next await or the return.  A Future is a record of its *)
(* state and of the callers awaiting it; a caller that awaits a Future the *)
(* queue has dropped unresolved is blocked for ever.                       *)
(*                                                                         *)
(* The priorities are those the processors use: 0 (the default) and        *)
(* HIGH_PRIORITY = 1.  A writer's n-th call offers the item <<writer, n>>; *)
(* MaxCalls bounds the calls of a writer.                                  *)
(***************************************************************************)
EXTENDS Naturals, Sequences, FiniteSets

CONSTANTS Writer,       \* the loops that call enqueue
          Reader,       \* the loops that iterate over the queue
          Capacity,     \* constructor(capacity), of each priority
          MaxCalls      \* bound: the enqueue calls of one writer

ASSUME CapacityAssumption == Capacity \in Nat \ {0}
ASSUME MaxCallsAssumption == MaxCalls \in Nat

Priority == {0, 1}
Item == Writer \X (1..MaxCalls)

VARIABLES
    queues,         \* this.queues: the items of each priority, oldest first
    known,          \* keys of this.queues, the same set as sortedPriorities
    whenNotFull,    \* this.whenNotFullList
    whenNotEmpty,   \* this.whenNotEmpty
    total_count,    \* this.total_count
    closed,         \* this.closed
    writer,         \* writer[w]: where its current enqueue call is
    reader,         \* reader[r]: where its iteration is
    delivered,      \* the items dequeue returned, in order
    refused         \* the items enqueue returned false for

vars == <<queues, known, whenNotFull, whenNotEmpty, total_count, closed,
          writer, reader, delivered, refused>>

-----------------------------------------------------------------------------
\* Future: absent from its map, pending, or resolved.
Absent   == [state |-> "absent",  waiters |-> {}]
Fresh    == [state |-> "pending", waiters |-> {}]
Future(S) == [state : {"absent", "pending", "resolved"}, waiters : SUBSET S]
Resolved(f) == [state |-> "resolved", waiters |-> {}]

\* What a caller's pc becomes when it awaits future f.
Awaiting(f) == IF f.state = "pending" THEN "blocked" ELSE "woken"
Join(f, c) == IF f.state = "pending" THEN [f EXCEPT !.waiters = @ \union {c}] ELSE f

Init == /\ queues = [p \in Priority |-> <<>>]
        /\ known = {}
        /\ whenNotFull = [p \in Priority |-> Absent]
        /\ whenNotEmpty = Fresh
        /\ total_count = 0
        /\ closed = FALSE
        /\ writer = [w \in Writer |-> [pc |-> "ready", priority |-> 0, calls |-> 0]]
        /\ reader = [r \in Reader |-> "ready"]
        /\ delivered = <<>>
        /\ refused = {}

-----------------------------------------------------------------------------
(* enqueue: the writer's record carries the call's priority and number.    *)

ItemOf(w, n) == <<w, n>>
RoomForOneMore(p) == Len(queues[p]) <= Capacity                     \* mutant
Room(p) == Len(queues[p]) < Capacity

NotifyByReplacing == whenNotEmpty' = Fresh /\ UNCHANGED reader      \* mutant

\* Resolve whenNotEmpty: whoever awaits it goes on.
Notify == /\ whenNotEmpty' = Resolved(whenNotEmpty)
          /\ reader' = [r \in Reader |-> IF r \in whenNotEmpty.waiters THEN "woken"
                                                                      ELSE reader[r]]

\* There is room, closed or not: push, and wake the reader at the first item.
Push(w, p, n) ==
    /\ Room(p)
    /\ queues' = [queues EXCEPT ![p] = Append(@, ItemOf(w, n))]
    /\ known' = known \union {p}
    /\ whenNotFull' = IF p \in known THEN whenNotFull
                                     ELSE [whenNotFull EXCEPT ![p] = Fresh]
    /\ total_count' = total_count + 1
    /\ IF total_count = 0 THEN Notify ELSE UNCHANGED <<whenNotEmpty, reader>>
    /\ writer' = [writer EXCEPT ![w] = [pc |-> "ready", priority |-> p, calls |-> n]]
    /\ UNCHANGED <<closed, delivered, refused>>

\* No room: await the lane's Future, made first if the last one was used up.
AwaitSpace(w, p, n) ==
    /\ ~Room(p)
    /\ ~(closed /\ whenNotFull[p] = Absent)
    /\ LET f == IF whenNotFull[p] = Absent THEN Fresh ELSE whenNotFull[p]
       IN  /\ whenNotFull' = [whenNotFull EXCEPT ![p] = Join(f, w)]
           /\ writer' = [writer EXCEPT ![w] =
                            [pc |-> Awaiting(f), priority |-> p, calls |-> n]]
    /\ UNCHANGED <<queues, known, whenNotEmpty, total_count, closed, reader,
                   delivered, refused>>

ReturnFalse(w, p, n) ==
    /\ writer' = [writer EXCEPT ![w] = [pc |-> "ready", priority |-> p, calls |-> n]]
    /\ refused' = refused \union {ItemOf(w, n)}
    /\ UNCHANGED <<queues, known, whenNotFull, whenNotEmpty, total_count, closed,
                   reader, delivered>>

\* Full and closed, with no Future left to await: the answer is immediate.
RefuseAtOnce(w, p, n) ==
    /\ ~Room(p) /\ closed /\ whenNotFull[p] = Absent
    /\ ReturnFalse(w, p, n)

Try(w, p, n) == Push(w, p, n) \/ AwaitSpace(w, p, n) \/ RefuseAtOnce(w, p, n)

Enqueue(w, p) ==
    /\ writer[w].pc = "ready"
    /\ writer[w].calls < MaxCalls
    /\ Try(w, p, writer[w].calls + 1)

\* After the await: false if closed meanwhile, else the call starts over.
ResumeEnqueue(w) ==
    /\ writer[w].pc = "woken"
    /\ IF closed THEN ReturnFalse(w, writer[w].priority, writer[w].calls)
                 ELSE Try(w, writer[w].priority, writer[w].calls)

-----------------------------------------------------------------------------
(* dequeue, called again and again by iterate().                           *)

AnyNonEmpty(p) == p \in known /\ queues[p] # <<>>                  \* mutant
Highest(p) == /\ p \in known /\ queues[p] # <<>>
              /\ \A q \in known : q > p => queues[q] = <<>>

\* A full lane that loses an item resolves and drops its Future; a lane of
\* priority > 0 that becomes empty is dropped altogether.
FullAfterShift(p) == Len(queues[p]) - 1 = Capacity                  \* mutant
WasFull(p) == Len(queues[p]) = Capacity
Dropped(p) == p > 0 /\ Len(queues[p]) = 1

Shift(r, p) ==
    /\ Highest(p)
    /\ queues' = [queues EXCEPT ![p] = Tail(@)]
    /\ known' = IF Dropped(p) THEN known \ {p} ELSE known
    /\ total_count' = total_count - 1
    /\ whenNotFull' = IF WasFull(p) \/ Dropped(p)
                      THEN [whenNotFull EXCEPT ![p] = Absent] ELSE whenNotFull
    /\ writer' = [w \in Writer |->
                    IF WasFull(p) /\ w \in whenNotFull[p].waiters
                    THEN [writer[w] EXCEPT !.pc = "woken"] ELSE writer[w]]
    /\ reader' = [reader EXCEPT ![r] = "ready"]
    /\ delivered' = Append(delivered, Head(queues[p]))
    /\ UNCHANGED <<closed, refused>>

\* dequeue's synchronous part with f as this.whenNotEmpty.
Step(r, f) ==
    \/ /\ closed /\ total_count = 0                       \* throw: iterate ends
       /\ reader' = [reader EXCEPT ![r] = "done"]
       /\ whenNotEmpty' = f
       /\ UNCHANGED <<queues, known, whenNotFull, total_count, closed, writer,
                      delivered, refused>>
    \/ /\ \E p \in Priority : Shift(r, p)
       /\ whenNotEmpty' = f
    \/ /\ ~(closed /\ total_count = 0)
       /\ \A p \in known : queues[p] = <<>>
       /\ reader' = [reader EXCEPT ![r] = Awaiting(f)]
       /\ whenNotEmpty' = Join(f, r)
       /\ UNCHANGED <<queues, known, whenNotFull, total_count, closed, writer,
                      delivered, refused>>

Dequeue(r) == reader[r] = "ready" /\ Step(r, whenNotEmpty)

\* After the await: a new Future replaces the used one unless closed.
ResumeDequeue(r) ==
    /\ reader[r] = "woken"
    /\ Step(r, IF closed THEN whenNotEmpty ELSE Fresh)

-----------------------------------------------------------------------------
Close ==
    /\ ~closed
    /\ closed' = TRUE
    /\ Notify
    /\ whenNotFull' = [p \in Priority |-> IF whenNotFull[p] = Absent THEN Absent
                                          ELSE Resolved(whenNotFull[p])]
    /\ writer' = [w \in Writer |-> IF \E p \in Priority : w \in whenNotFull[p].waiters
                                   THEN [writer[w] EXCEPT !.pc = "woken"] ELSE writer[w]]
    /\ UNCHANGED <<queues, known, total_count, delivered, refused>>

Next == \/ \E w \in Writer : ResumeEnqueue(w) \/ \E p \in Priority : Enqueue(w, p)
        \/ \E r \in Reader : Dequeue(r) \/ ResumeDequeue(r)
        \/ Close

\* Every promise continuation runs, and the loop that iterates asks for the
\* next item; nothing obliges anybody to enqueue or to close.
Fairness == /\ \A w \in Writer : WF_vars(ResumeEnqueue(w))
            /\ \A r \in Reader : WF_vars(Dequeue(r)) /\ WF_vars(ResumeDequeue(r))

Spec == Init /\ [][Next]_vars
FairSpec == Spec /\ Fairness
=============================================================================
