------------------------------ MODULE Storage ------------------------------
(***************************************************************************)
(* What the adapters that write to a service, or read back from one, have  *)
(* in common: what the service holds, who calls it, what is under way      *)
(* between the two and what the callers were told.  Each adapter gives the *)
(* four their values.                                                      *)
(***************************************************************************)
EXTENDS Integers, Sequences, FiniteSets, SequencesExt

CONSTANTS MaxFaults   \* bound: requests that fail

VARIABLES stored, caller, wire, told, faults
vars == <<stored, caller, wire, told, faults>>

Fault == faults < MaxFaults /\ faults' = faults + 1
NoFault == UNCHANGED faults
=============================================================================
