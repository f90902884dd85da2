------------------------ MODULE SinkCoordinatorProps ------------------------
(***************************************************************************)
(* The properties of SinkCoordinator.                                      *)
(***************************************************************************)
EXTENDS SinkCoordinator

Times(seq, i) == Cardinality({n \in DOMAIN seq : seq[n] = i})

\* What the output loop does with the outcome: contexts before the conflicting
\* one are released as processed, the others are handled anew.
Acknowledged ==
    IF pc # "done" THEN {}
    ELSE CASE outcome.error = "none"     -> Index
           [] outcome.error = "conflict" -> 1..(outcome.at - 1)
           [] OTHER                      -> {}
HandledAnew == IF pc = "done" /\ outcome.error = "conflict" THEN outcome.at..Contexts ELSE {}

\* Every variable has its type.
TypeOK ==
    /\ epochs \in [Key -> Nat]
    /\ \A k \in Key : events[k] \in Seq(0..Contexts)
    /\ sent \in Seq(Index)
    /\ pc \in {"handle", "store", "publish", "partial", "done"}
    /\ outcome.error \in {"none", "conflict", "other"} /\ outcome.at \in 1..(Contexts + 1)
    /\ attempt \in 1..MaxAttempts
    /\ faults \in 0..MaxFaults

\* A context reported as processed has each of its messages in the store,
\* whatever was searched, retried or set aside on the way.
AcknowledgedIsStored ==
    \A i \in Acknowledged, k \in Key : Times(events[k], i) = StoredTo(contexts[i], k)

\* The handlers ran one after the other, on current states: no RPC processing.
Serial ==
    \A i \in Index : \A k \in Key :
        /\ contexts[i].epoch[k] = 2
        /\ i > 1 => contexts[i].base[k] = contexts[i - 1].base[k] + StoredTo(contexts[i - 1], k)

\* Before the events of a context reported as processed come just those that
\* the states it loaded were computed from.
LoadedIsCurrent ==
    \A i \in Acknowledged : \A k \in contexts[i].loaded :
        Cardinality({n \in DOMAIN events[k] : events[k][n] < i}) = contexts[i].base[k]

\* A state that a serial handler loaded is current when its context is stored,
\* also one that it stored nothing to: another process's event is noticed.
VerifiedIsCurrent == Serial => LoadedIsCurrent

\* No retry and no halving of a batch stores a message twice, and every
\* partition receives the messages in the order of the contexts.
StoredOnceInOrder ==
    \A k \in Key :
        /\ \A i \in Index : Times(events[k], i) <= StoredTo(contexts[i], k)
        /\ \A m, n \in DOMAIN events[k] : m < n => events[k][m] <= events[k][n]

\* A message is published only if all its context stored is in the store.
PublishedIsStored ==
    \A i \in ToSet(sent), k \in Key : Times(events[k], i) = StoredTo(contexts[i], k)

\* "publishes what was stored successfully": unless a sink fails, a context
\* reported as processed has had all its messages published.  The code stores
\* the contexts before one it filters out, and does not publish them.
AcknowledgedIsPublished ==
    faults = 0 => \A i \in Acknowledged : Times(sent, i) >= Len(contexts[i].published)

\* It has if the handlers were serial, a conflict or not.
SerialIsPublished == Serial => AcknowledgedIsPublished

\* A context that will be handled anew because of a conflict has left nothing
\* in the store, so that handling it again does not apply it twice.
HandledAnewIsAbsent ==
    \A i \in HandledAnew, k \in Key : Times(events[k], i) = 0

\* That is so while no sink call fails of itself and each context has just one
\* item for the store: then the search for a conflict ends at a context, and none
\* is cut in two.  (One with items of one partition is cut by the halving, too.)
NoneIsCut == \A i \in Index : Len(StoreItems(i)) = 1
HandledAnewLeftNothing == NoneIsCut /\ faults = 0 => HandledAnewIsAbsent

\* "If a sink is AtomicPerPartition a batch will never contain messages for
\* different partitions. Also batches will never exceed the maxBatchSize."
BatchesHonourGuarantees ==
    frame.chunks # <<>> =>
        LET b == Head(frame.chunks)
            sink == Sink(frame.target)
        IN  /\ sink.maxBatch > 0 => Len(b) <= sink.maxBatch
            /\ sink.consistency = "AtomicPerPartition" =>
                   \A m, n \in DOMAIN b : b[m].key = b[n].key

\* Whatever a context that will be handled anew had loaded is of an epoch gone
\* by: the state cache has dropped it, and what others computed from it fails.
HandledAnewIsInvalidated ==
    \A i \in HandledAnew : \A k \in contexts[i].loaded :
        epochs[k] > contexts[i].epoch[k]
=============================================================================
