--------------------------- MODULE MCMessageProcessor ---------------------------
(***************************************************************************)
(* Instances of MessageProcessor for TLC.                                  *)
(***************************************************************************)
EXTENDS MessageProcessorProps

CONSTANTS A, B

OneKey == [m \in Msg |-> A]
TwoKeys == [m \in Msg |-> IF m % 3 = 2 THEN B ELSE A]

\* A handler or sink that fails is given up, or fails the application; the LRU
\* cache drops a state; a source evicts any set of messages.
Setting(mode, drops, evictions) == [mode |-> mode, drops |-> drops, evictions |-> evictions]
Goes == Setting("continue", 0, {})
Fails == Setting("fail", 0, {})
Drops == Setting("continue", 1, {})
Evicts == Setting("continue", 0, SUBSET Msg \ {{}})
GoesOn == {Goes}
FailsOnly == {Fails}
Either == {Goes, Fails}
EvictsOnly == {Evicts}
DropsOrEvicts == {Drops, Evicts}
=============================================================================
