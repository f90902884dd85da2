----------------------------- MODULE MCSources -----------------------------
(***************************************************************************)
(* The instance TLC checks: two Kafka partitions of one and two messages,  *)
(* the first of which is invalid; the other constants are in MCSources.cfg.*)
(***************************************************************************)
EXTENDS Sources

LogEnds == [p \in Partitions |-> p + 1]
FirstOffsets == {<<0, 0>>}
============================================================================
