----------------------------- MODULE MCPipeline -----------------------------
(***************************************************************************)
(* The ways through packages/core that MCMessageProcessor does not take,   *)
(* one at a time: rpc, serial, the life of the application, and the state  *)
(* cache in full.                                                          *)
(***************************************************************************)
EXTENDS Naturals, Sequences, TLC
CONSTANTS Messages, MaxExternal, HandlerFaults, Adapters, Parallel, InputCapacity, OutputCapacity, MaxBatch,
          Dupes, Undecided, KeyOf, CacheSize, MaxExpired, MaxEpoch

ASSUME SizesAssumption ==
  /\ {MaxExternal, HandlerFaults, MaxExpired} \subseteq Nat
  /\ {Messages, Parallel, InputCapacity, OutputCapacity, MaxBatch, CacheSize, MaxEpoch} \subseteq Nat \ {0}

VARIABLES queue, work, state, store, released, faults, adapter
all == <<queue, work, state, store, released, faults, adapter>>
\* In the state cache two messages of one key, and others of another.
TwoKeys == [m \in 1 .. Messages |-> IF m <= 2 THEN "a" ELSE "b"]
R == INSTANCE RpcProcessor
C == INSTANCE StateCache
S == INSTANCE SerialPipeline
A == INSTANCE Application
Is(a) == adapter = a
Init ==
  /\ adapter \in Adapters
  /\ \/ Is("rpc") /\ R!Init
     \/ Is("serial") /\ S!Init
     \/ Is("application") /\ A!Init
     \/ Is("cache") /\ C!Init
Next ==
  /\ UNCHANGED adapter
  /\ \/ Is("rpc") /\ R!Next
     \/ Is("serial") /\ S!Next
     \/ Is("application") /\ A!Next
     \/ Is("cache") /\ C!Next

\* Promises that are settled continue: each handler, loop and pump takes the
\* step it is ready for.  No other process need append, nothing need fail.
Fairness ==
  /\ WF_all(UNCHANGED adapter /\ Is("rpc") /\ R!Receive)
  /\ WF_all(UNCHANGED adapter /\ Is("rpc") /\ (R!Dequeue \/ R!Break))
  /\ WF_all(UNCHANGED adapter /\ Is("rpc") /\ R!Output)
  /\ \A m \in 1 .. Messages : WF_all(UNCHANGED adapter /\ Is("rpc") /\ R!Handling(m))
  /\ WF_all(UNCHANGED adapter /\ Is("serial") /\ S!Process)
  /\ \A s \in {1, 2} : WF_all(UNCHANGED adapter /\ Is("serial") /\ S!Pump(s))
  /\ WF_all(UNCHANGED adapter /\ Is("application") /\ A!Progress)
  /\ \A m \in 1 .. Messages : WF_all(UNCHANGED adapter /\ Is("application") /\ A!Finish(m))
Spec == Init /\ [][Next]_all /\ Fairness

\* Every variable has its type; no queue holds more than its capacity and no
\* more handlers are under way than maximumParallelRpcRequests.
TypeOK == CASE Is("rpc") -> R!TypeOK [] Is("serial") -> S!TypeOK [] Is("application") -> A!TypeOK
            [] OTHER -> C!TypeOK

\* Every event that is stored was computed from exactly the events stored
\* before it and is stored once, its message alone is released as handled:
\* though handlers overlap, share a cache and race another process, comparing
\* epochs and sequence numbers is enough (but for the keys whose epoch the cache
\* forgot), and the cache is left with nothing that was not stored.  And they are handled by components
\* that are ready: these are initialized before and disposed of after, and an
\* application that exits with 0 has handled all it took.
HandledOnItsState ==
  /\ Is("rpc") => R!HandledOnItsState
  /\ Is("serial") => S!HandledOnItsState
  /\ Is("application") => A!EndsInOrder
  /\ Is("cache") => C!HandledOnItsState

\* Every message is released and every application exits, as long as the random
\* sleeps before a message is handled anew do not for ever end while another
\* message is between the state and the store (RpcMessageProcessor 74-88).  Of
\* the cache nothing is promised here: its bound on epochs would cut it off.
SleepsLongEnough == <>[][Is("rpc") => \A m \in 1 .. Messages : R!Sleep(m) => R!Alone(m)]_all
EveryMessageIsOver ==
  SleepsLongEnough => <>(CASE Is("rpc") -> R!Over [] Is("serial") -> S!Ended
                           [] Is("application") -> A!Over [] OTHER -> TRUE)

\* What an old epoch marks as stale is not stored: helper.ts says that an
\* output based on an earlier epoch is discarded because its state is stale.
\* It is not if the key was evicted from the cache since (EpochManager 28-30).
NoStaleStored == Is("cache") => C!NoStaleStored

\* What does not hold.  Sleeping randomly is what makes rpc mode live: two
\* messages of one key may otherwise invalidate each other for ever.
OverAnyhow == Is("rpc") => <>R!Over
\* A message the deduper fails on is released as if it had been handled.
OkIsHandled == Is("serial") => S!OkIsHandled
\* A message the pipe refuses or still holds when the iteration ends was taken
\* from its source and is never released (helpers 18-38).
NoneDropped == Is("serial") => S!NoneDropped
\* The sink is disposed of while messages are in progress if one message fails
\* or the five seconds are over (ApplicationBuilder 270-316).
ReadyWhenUsed == Is("application") => A!ReadyWhenUsed
=============================================================================
