------------------------------ MODULE Source ------------------------------
(***************************************************************************)
(* What the acknowledging input sources have in common: a broker that      *)
(* keeps messages until they are acknowledged, the source in the client's  *)
(* process, and the application, which is handed copies of messages and    *)
(* releases each (MessageRef.release), upon which the listener the source  *)
(* attached acknowledges the message or not.  Each adapter extends this    *)
(* module, gives the records broker and client their fields, and says in   *)
(* Settled what the broker will hand to nobody any more and in Answered    *)
(* for which outcomes that is right.                                       *)
(***************************************************************************)
EXTENDS Integers, Sequences, FiniteSets, SequencesExt

CONSTANTS Msgs,       \* the messages
          MaxHeld,    \* bound: copies the application holds at a time
          MaxFaults   \* bound: failing calls and handlers, crashes, ...

VARIABLES broker,     \* what the broker keeps
          client,     \* the source in the client's process
          held,       \* copies handed to the application, in this order
          outcome,    \* what became of each message so far
          phase,      \* "run", "stop" (asked to stop), "end" (iteration over)
          faults      \* faults so far

vars == <<broker, client, held, outcome, phase, faults>>

Outcomes == {"ok", "err", "rejected", "other"}

SharedTypeOK ==
  /\ Len(held) <= MaxHeld /\ \A i \in DOMAIN held : held[i].m \in Msgs
  /\ outcome \in [Msgs -> SUBSET Outcomes]
  /\ phase \in {"run", "stop", "end"}
  /\ faults \in 0 .. MaxFaults

SharedInit ==
  /\ held = <<>> /\ outcome = [m \in Msgs |-> {}] /\ phase = "run" /\ faults = 0

\* yield: the application is handed a copy, when it asks for one.
Hand(copy) == Len(held) < MaxHeld /\ held' = Append(held, copy)

Fault == faults < MaxFaults /\ faults' = faults + 1

Became(o, ms) == [m \in Msgs |-> IF m \in ms THEN outcome[m] \cup {o} ELSE outcome[m]]

\* The messages one of whose outcomes is o.
Having(o) == {m \in Msgs : o \in outcome[m]}

\* MessageRef.release of the i-th copy: a handler that fails is a fault.
Release(i, o) ==
  /\ held' = RemoveAt(held, i)
  /\ outcome' = Became(o, {held[i].m})
  /\ IF o = "err" THEN Fault ELSE UNCHANGED faults

AskToStop == phase = "run" /\ phase' = "stop"

\* The process dies: what it held in memory is gone.
Die == Fault /\ held' = <<>> /\ phase = "run"

\* At most n of the first elements of s, as a sequence.
FirstOf(s, n) == SubSeq(s, 1, IF Len(s) < n THEN Len(s) ELSE n)
\* The members of a set of numbers, in ascending order.
InOrder(S) == CHOOSE s \in [1 .. Cardinality(S) -> S] : \A i, j \in DOMAIN s : i < j => s[i] < s[j]
============================================================================
