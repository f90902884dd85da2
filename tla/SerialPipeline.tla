--------------------------- MODULE SerialPipeline ---------------------------
(***************************************************************************)
(* The serial way through packages/core: two sources are pumped into a     *)
(* pipe with room for one message (roundRobinIterators), CompositeInput-   *)
(* Source drops duplicates and SerialMessageProcessor handles one message  *)
(* at a time, anew when the store has moved on.  queue is the pipe and the *)
(* pumps, work the processor, state what CachingStateProvider holds.       *)
(***************************************************************************)
EXTENDS Pipeline

CONSTANTS Dupes,      \* the messages the deduper recognizes
          Undecided   \* those it fails on

Sources == {1, 2}
Of(s) == {m \in Msg : m % 2 = s % 2}
None == 0
TypeOK ==
  /\ queue.taken \subseteq Msg /\ Len(queue.pipe) <= 1 /\ queue.over \subseteq Sources
  /\ queue.parked \in [Sources -> Msg \cup {None}] /\ queue.closed \in BOOLEAN
  /\ \A s \in Sources : queue.parked[s] \in Of(s) \cup {None}
  /\ work.pc \in {"next", "get", "loading", "loaded", "handle", "sink", "ended"} /\ work.msg \in Msg \cup {None}
  /\ released \in [Msg -> {"no", "ok", "error"}]

\* longest is the option of the application's input, mode what is done about an
\* error of a handler or a sink after the last retry.
Init ==
  /\ queue = [taken |-> {}, pipe |-> <<>>, parked |-> [s \in Sources |-> None], over |-> {}, closed |-> FALSE]
  /\ work \in [pc : {"next"}, msg : {None}, base : [Msg -> {<<>>}], longest : BOOLEAN, mode : {"continue", "fail"}]
  /\ state = [cached |-> FALSE, held |-> <<>>]
  /\ store = <<>> /\ released = [m \in Msg |-> "no"] /\ faults = 0

\* A pump: the iterator of its source yields the next message.  The pipe takes
\* it if it has room, also when it is closed; otherwise the message waits, or is
\* refused by the closed pipe, as is one that waited when it was closed, which
\* ends the pump.
Refused(q, s) == [q EXCEPT !.parked[s] = None, !.over = @ \cup {s}]
Enqueued(q, s, m) ==
  IF q.pipe = <<>> THEN [q EXCEPT !.parked[s] = None, !.pipe = <<m>>]
  ELSE IF q.closed THEN Refused(q, s)
  ELSE [q EXCEPT !.parked[s] = m]
Yield(s) ==
  /\ s \notin queue.over /\ queue.parked[s] = None /\ Of(s) \ queue.taken # {}
  /\ LET m == Min(Of(s) \ queue.taken) IN queue' = Enqueued([queue EXCEPT !.taken = @ \cup {m}], s, m)
  /\ UNCHANGED <<work, state, store, released, faults>>
Resume(s) ==
  /\ queue.parked[s] # None /\ (queue.pipe = <<>> \/ queue.closed)
  /\ queue' = IF queue.closed THEN Refused(queue, s) ELSE Enqueued(queue, s, queue.parked[s])
  /\ UNCHANGED <<work, state, store, released, faults>>

\* The source has no more messages or its iterator throws: the pipe is closed
\* unless it is to last as long as the longest of the sources.
ClosesWithFirst(over) == ~work.longest   \* mutant
Closes(over) == ~work.longest \/ over = Sources
EndOf(s) == LET over == queue.over \cup {s} IN
  queue' = [queue EXCEPT !.over = over, !.closed = @ \/ Closes(over)]
End(s) ==
  /\ s \notin queue.over /\ queue.parked[s] = None /\ Of(s) \subseteq queue.taken /\ EndOf(s)
  /\ UNCHANGED <<work, state, store, released, faults>>
Throw(s) ==
  /\ s \notin queue.over /\ queue.parked[s] = None /\ faults < HandlerFaults /\ faults' = faults + 1
  /\ EndOf(s) /\ UNCHANGED <<work, state, store, released>>

\* The next message.  A duplicate is released and not handled; a message the
\* deduper fails on is released, as if it had been handled, and the iteration
\* ends, as it does after the last message.
Take ==
  /\ work.pc = "next" /\ queue.pipe # <<>> /\ queue' = [queue EXCEPT !.pipe = <<>>]
  /\ LET m == queue.pipe[1] IN
     IF m \in Dupes \cup Undecided
       THEN /\ released' = Release({m}, "ok")
            /\ work' = IF m \in Undecided THEN [work EXCEPT !.pc = "ended"] ELSE work
       ELSE work' = [work EXCEPT !.pc = "get", !.msg = m] /\ UNCHANGED released
  /\ UNCHANGED <<state, store, faults>>
Done ==
  /\ work.pc = "next" /\ queue.pipe = <<>> /\ queue.closed /\ work' = [work EXCEPT !.pc = "ended"]
  /\ UNCHANGED <<queue, state, store, released, faults>>

\* The handler asks for the state, which is loaded unless it is cached.
At(pc) == [work EXCEPT !.pc = pc]
Get ==
  /\ work.pc = "get"
  /\ work' = [At(IF state.cached THEN "handle" ELSE "loading") EXCEPT !.base[work.msg] = state.held]
  /\ UNCHANGED <<queue, state, store, released, faults>>
Load ==
  /\ work.pc = "loading" /\ work' = [At("loaded") EXCEPT !.base[work.msg] = store]
  /\ UNCHANGED <<queue, state, store, released, faults>>
Loaded ==
  /\ work.pc = "loaded" /\ work' = At("handle") /\ state' = [cached |-> TRUE, held |-> work.base[work.msg]]
  /\ UNCHANGED <<queue, store, released, faults>>
Handle == work.pc = "handle" /\ work' = At("sink") /\ UNCHANGED <<queue, state, store, released, faults>>

\* The sink stores the event if the store has not moved on; only then does
\* complete() give the new state to the cache.  Otherwise the state is
\* invalidated and the message handled anew.
Computed == Append(work.base[work.msg], work.msg)
Over(how, pc) == work' = [At(pc) EXCEPT !.msg = None] /\ released' = Release({work.msg}, how)
Follows == Len(work.base[work.msg]) = Len(store)
Store ==
  /\ work.pc = "sink" /\ Follows /\ store' = Append(store, work.msg) /\ Over("ok", "next")
  /\ state' = [cached |-> TRUE, held |-> Computed] /\ UNCHANGED <<queue, faults>>
Conflict ==
  /\ work.pc = "sink" /\ ~Follows /\ state' = [cached |-> FALSE, held |-> <<>>] /\ work' = At("get")
  /\ UNCHANGED <<queue, store, released, faults>>

\* The last attempt of the handler or the sink fails: the message is released
\* with the error, which ends the iteration in mode "fail".
Fail ==
  /\ work.pc \in {"handle", "sink"} /\ faults < HandlerFaults /\ faults' = faults + 1
  /\ Over("error", IF work.mode = "fail" THEN "ended" ELSE "next")
  /\ UNCHANGED <<queue, state, store>>

Pump(s) == Yield(s) \/ Resume(s) \/ End(s)
Process == Take \/ Done \/ Get \/ Load \/ Loaded \/ Handle \/ Store \/ Conflict
Next == Process \/ Fail \/ AppendOther \/ \E s \in Sources : Pump(s) \/ Throw(s)

\* Each event is stored once, on the events it was computed from, and its
\* message released accordingly; what is cached is what was stored.
HandledOnItsState ==
  /\ \A i \in DOMAIN store : store[i] # Other => work.base[store[i]] = SubSeq(store, 1, i - 1)
  /\ \A i, j \in DOMAIN store : store[i] = store[j] /\ store[i] # Other => i = j
  /\ \A m \in Msg : Contains(store, m) <=> (released[m] = "ok" /\ m \notin Dupes \cup Undecided)
  /\ state.cached => IsPrefix(state.held, store)
\* The iteration ends.  Every message that was taken is released if it ended
\* because every source did.
Ended == work.pc = "ended" /\ (work.longest /\ work.mode = "continue" => \A m \in queue.taken : released[m] # "no")
OkIsHandled == \A m \in Msg : released[m] = "ok" => Contains(store, m) \/ m \in Dupes
NoneDropped == work.pc = "ended" => \A m \in queue.taken : released[m] # "no"
=============================================================================
