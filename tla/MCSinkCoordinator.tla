-------------------------- MODULE MCSinkCoordinator --------------------------
(***************************************************************************)
(* Instances of SinkCoordinator for TLC: partitions A and B.               *)
(***************************************************************************)
EXTENDS SinkCoordinatorProps

CONSTANTS A, B

Does(stored, loaded, published) ==
    [stored |-> stored, loaded |-> loaded, published |-> published,
     branch |-> FALSE, stale |-> FALSE]
Concurrent(p) == [p EXCEPT !.branch = TRUE]
Outdated(p) == [p EXCEPT !.stale = TRUE]

\* What the handlers of a service may do with one message.
Single == Does(<<A>>, {A}, <<A>>)
OneKey == {Single, Does(<<B>>, {B}, <<A, B>>), Does(<<A, A>>, {A}, <<>>)}
Reader == Does(<<B>>, {A, B}, <<A>>)
Silent == Does(<<>>, {}, <<A>>)
TwoKeys == Does(<<A, B>>, {A, B}, <<A>>)

OnlySingle == {Single}
OnlyTriple == {Does(<<A, A, A>>, {A}, <<>>)}
WithSilent == OneKey \cup {Silent}
SerialPlans == OneKey \cup {Reader, Silent, TwoKeys}
RpcPlans == OneKey \cup {Concurrent(p) : p \in OneKey} \cup {Outdated(p) : p \in OneKey}
MixedPlans == RpcPlans \cup {Reader, Concurrent(Reader)}
AnyPlans == SerialPlans \cup {Concurrent(p) : p \in {Single, Reader}} \cup {Outdated(Single)}

Atomic == [consistency |-> "Atomic", maxBatch |-> 0, idempotent |-> FALSE]
Partitioned == [consistency |-> "AtomicPerPartition", maxBatch |-> 2, idempotent |-> FALSE]
Plain == [consistency |-> "None", maxBatch |-> 2, idempotent |-> TRUE]

OnlyAtomic == {Atomic}
OnlyPartitioned == {Partitioned}
OnlyPlain == {Plain}
StoringSinks == {Atomic, Partitioned}
PublishingSinks == {Partitioned, Plain}
=============================================================================
