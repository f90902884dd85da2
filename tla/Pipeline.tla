------------------------------ MODULE Pipeline ------------------------------
(***************************************************************************)
(* What the ways a message can take through packages/core have in common:  *)
(* where it waits, what is being done with it, the state cache and its     *)
(* epochs, the store and how it was released.  A state is the sequence of  *)
(* the messages whose events it was computed from.                         *)
(***************************************************************************)
EXTENDS Integers, Sequences, FiniteSets, SequencesExt

CONSTANTS Messages, MaxExternal,  \* bound: events another process appends
          HandlerFaults           \* bound: handlers that fail the application

Msg == 1 .. Messages
Other == 0

VARIABLES queue, work, state, store, released, faults
vars == <<queue, work, state, store, released, faults>>

Release(ms, how) == [m \in Msg |-> IF m \in ms THEN how ELSE released[m]]
External == Len(SelectSeq(store, LAMBDA m : m = Other))

\* Another process appends an event to the partition.
AppendOther ==
  /\ External < MaxExternal /\ store' = Append(store, Other)
  /\ UNCHANGED <<queue, work, state, released, faults>>
=============================================================================
