---------------------------- MODULE Conversation ----------------------------
(***************************************************************************)
(* What the sources that answer somebody, or that follow something, have   *)
(* in common: whoever is at the other end (a gRPC client, the Kubernetes   *)
(* API server, the clock), the channel in the adapter and the application. *)
(* Each adapter gives the three their values.                              *)
(***************************************************************************)
EXTENDS Integers, Sequences, FiniteSets, SequencesExt

CONSTANTS MaxFaults   \* bound: failures, cancellations, lost connections

VARIABLES peer, channel, app,
          phase,      \* "run", "stop" (stop or dispose was called), "end"
          faults

vars == <<peer, channel, app, phase, faults>>

Fault == faults < MaxFaults /\ faults' = faults + 1
NoFault == UNCHANGED faults
SharedTypeOK == phase \in {"run", "stop", "end"} /\ faults \in 0 .. MaxFaults
SharedInit == phase = "run" /\ faults = 0
=============================================================================
