----------------------------- MODULE Application -----------------------------
(***************************************************************************)
(* The life of an application of packages/core: its components are ini-    *)
(* tialized one after the other, the processor takes messages from the     *)
(* source, which SIGINT or a failed message stops, and the components are  *)
(* disposed of.  queue is the source, work the application and the timer   *)
(* of its shutdown, state what became of each component, store what has    *)
(* reached the sink.  The messages in progress are those that are taken    *)
(* and not yet released.                                                   *)
(***************************************************************************)
EXTENDS Pipeline

InitOrder == <<"tracing", "metrics", "state", "sink", "source", "registry">>
DisposeOrder == <<"source", "sink", "registry", "state", "metrics", "tracing">>
Components == ToSet(InitOrder)
Phases == {"init", "run", "stop", "dispose", "exit"}
TypeOK ==
  /\ queue.taken \subseteq Msg /\ queue.stopped \in BOOLEAN /\ work.phase \in Phases
  /\ work.i \in 1 .. 7 /\ {work.init, work.run, work.disposed} \subseteq BOOLEAN
  /\ work.interrupt \in {"no", "stopping", "waiting", "late", "over"} /\ work.code \in {0, 1}
  /\ state \in [Components -> {"new", "ready", "failed", "disposed"}]

Init ==
  /\ queue = [taken |-> {}, stopped |-> FALSE]
  /\ work = [phase |-> "init", i |-> 1, init |-> TRUE, run |-> FALSE, disposed |-> TRUE,
             interrupt |-> "no", code |-> 0]
  /\ state = [c \in Components |-> "new"]
  /\ store = <<>> /\ released = [m \in Msg |-> "no"] /\ faults = 0

InProgress == {m \in queue.taken : released[m] = "no"}
Enter(phase) == [work EXCEPT !.phase = phase, !.i = 1]
Fault == faults < HandlerFaults /\ faults' = faults + 1

\* A component that fails to initialize: those after it are not initialized,
\* nothing is run and all of them are disposed of.
Initialize ==
  /\ work.phase = "init" /\ state' = [state EXCEPT ![InitOrder[work.i]] = "ready"]
  /\ work' = IF work.i = Len(InitOrder) THEN Enter("run") ELSE [work EXCEPT !.i = @ + 1]
  /\ UNCHANGED <<queue, store, released, faults>>
InitializeFails ==
  /\ work.phase = "init" /\ Fault /\ state' = [state EXCEPT ![InitOrder[work.i]] = "failed"]
  /\ work' = [Enter("dispose") EXCEPT !.init = FALSE]
  /\ UNCHANGED <<queue, store, released>>

\* The processor takes messages until the source has stopped or has no more.
\* What it has taken it goes on with, whatever becomes of the application.
Take ==
  /\ work.phase = "run" /\ ~queue.stopped /\ queue.taken # Msg
  /\ queue' = [queue EXCEPT !.taken = @ \cup {Min(Msg \ @)}]
  /\ UNCHANGED <<work, state, store, released, faults>>
Finish(m) ==
  /\ m \in InProgress /\ work.phase # "exit"
  /\ store' = Append(store, m) /\ released' = Release({m}, "ok")
  /\ UNCHANGED <<queue, work, state, faults>>

\* run() is over when the source is and everything it yielded was released, or
\* with the first message that fails.
DrainedEarly == queue.stopped \/ queue.taken = Msg   \* mutant
Drained == InProgress = {} /\ (queue.stopped \/ queue.taken = Msg)
Done ==
  /\ work.phase = "run" /\ Drained
  /\ work' = [Enter("dispose") EXCEPT !.run = TRUE, !.interrupt = "over"]
  /\ UNCHANGED <<queue, state, store, released, faults>>
Fail(m) ==
  /\ m \in InProgress /\ work.phase = "run" /\ Fault /\ released' = Release({m}, "error")
  /\ work' = [Enter("stop") EXCEPT !.interrupt = "over"] /\ UNCHANGED <<queue, state, store>>
Stop ==
  /\ work.phase = "stop" /\ queue' = [queue EXCEPT !.stopped = TRUE] /\ work' = Enter("dispose")
  /\ UNCHANGED <<state, store, released, faults>>

\* The first SIGINT stops the source and gives the processor five seconds.  The
\* second ends the process.
Interrupt ==
  /\ work.phase = "run" /\ work.interrupt = "no" /\ work' = [work EXCEPT !.interrupt = "stopping"]
  /\ UNCHANGED <<queue, state, store, released, faults>>
SourceStopped ==
  /\ work.interrupt = "stopping" /\ work.phase = "run" /\ work' = [work EXCEPT !.interrupt = "waiting"]
  /\ queue' = [queue EXCEPT !.stopped = TRUE] /\ UNCHANGED <<state, store, released, faults>>
Timeout ==
  /\ work.interrupt = "waiting" /\ work.phase = "run" /\ Fault
  /\ work' = [Enter("stop") EXCEPT !.interrupt = "late"] /\ UNCHANGED <<queue, state, store, released>>
InterruptAgain ==
  /\ work.interrupt \in {"stopping", "waiting", "late"} /\ work.phase # "exit" /\ Fault
  /\ work' = [Enter("exit") EXCEPT !.code = 1] /\ UNCHANGED <<queue, state, store, released>>

\* Components are disposed of one after the other, up to one that fails to be.
Leave(w) == [w EXCEPT !.phase = "exit", !.code = IF w.init /\ w.run /\ w.disposed THEN 0 ELSE 1]
Dispose ==
  /\ work.phase = "dispose" /\ state' = [state EXCEPT ![DisposeOrder[work.i]] = "disposed"]
  /\ work' = IF work.i = Len(DisposeOrder) THEN Leave(work) ELSE [work EXCEPT !.i = @ + 1]
  /\ UNCHANGED <<queue, store, released, faults>>
DisposeFails ==
  /\ work.phase = "dispose" /\ Fault /\ work' = Leave([work EXCEPT !.disposed = FALSE])
  /\ UNCHANGED <<queue, state, store, released>>

Progress == Initialize \/ Take \/ Done \/ Stop \/ SourceStopped \/ Dispose
Next ==
  \/ Progress \/ InitializeFails \/ Interrupt \/ Timeout \/ InterruptAgain \/ DisposeFails
  \/ \E m \in Msg : Finish(m) \/ Fail(m)

\* Messages are handled only by components that are ready, unless handling one
\* failed or the shutdown timed out, and who is told that all went well can rely
\* on every message having been handled and every component disposed of.
EndsInOrder ==
  /\ faults = 0 /\ InProgress # {} => \A c \in Components : state[c] = "ready"
  /\ work.phase = "exit" /\ work.code = 0 =>
       InProgress = {} /\ ToSet(store) = queue.taken /\ \A c \in Components : state[c] = "disposed"
Over == work.phase = "exit"
ReadyWhenUsed == InProgress # {} => state["sink"] = "ready"
=============================================================================
