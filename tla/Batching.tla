------------------------------ MODULE Batching ------------------------------
(***************************************************************************)
(* internal/batching/helper.ts: how the outputs of a list of dispatch      *)
(* contexts are cut into the chunks a sink is called with, and which       *)
(* contexts are set aside before anything is stored.                       *)
(*                                                                         *)
(* An output item is [ctx, key, sn, verify, last]: the index of its        *)
(* context, its partition, the sequence number its state was loaded at,    *)
(* whether it only verifies that number, and whether it is its context's   *)
(* last item.  A sink's guarantees are [consistency, maxBatch, idempotent],*)
(* with maxBatch 0 for an undefined maxBatchSize.                          *)
(***************************************************************************)
EXTENDS Naturals, Sequences, FiniteSets, SequencesExt

Consistency == {"None", "Atomic", "AtomicPerPartition"}

TogetherAlways(sink, prev, cur) == TRUE                             \* mutant

\* The grouping function SinkCoordinator gives the BatchHandler of a sink.
Together(sink, prev, cur) == sink.consistency = "AtomicPerPartition" => prev.key = cur.key

Grouped(sink, groups, i) ==
    IF groups # <<>> /\ Together(sink, Last(Last(groups)), i)
    THEN Append(Front(groups), Append(Last(groups), i))
    ELSE Append(groups, <<i>>)

GroupBy(sink, items) ==
    LET groups[n \in 0..Len(items)] ==
          IF n = 0 THEN <<>> ELSE Grouped(sink, groups[n - 1], items[n])
    IN  groups[Len(items)]

\* The generator's state: the chunks yielded and the batch being filled.
Yield(st) == [chunks |-> Append(st.chunks, st.batch), batch |-> <<>>]

\* s in pieces of n, the last one possibly shorter.
Pieces(s, n) == [i \in 1..((Len(s) + n - 1) \div n) |->
                    SubSeq(s, (i - 1) * n + 1, IF i * n < Len(s) THEN i * n ELSE Len(s))]

\* One group of a container of `len` items.
AddGroup(sink, size, st, group, len) ==
    LET s == IF st.batch # <<>> /\ ~Together(sink, Last(st.batch), Head(group))
             THEN Yield(st) ELSE st
    IN  IF Len(group) > size
        THEN [chunks |-> s.chunks \o Pieces(s.batch \o group, size), batch |-> <<>>]
        ELSE IF Len(s.batch) + len <= size
        THEN [s EXCEPT !.batch = @ \o group]
        ELSE [Yield(s) EXCEPT !.batch = group]

\* All groups of a container.
AddContainer(sink, size, st, items) ==
    LET groups == GroupBy(sink, items)
        added[n \in 0..Len(groups)] ==
          IF n = 0 THEN st ELSE AddGroup(sink, size, added[n - 1], groups[n], Len(items))
    IN  added[Len(groups)]

\* batch(): containers is the sequence of the contexts' item sequences.
Batched(sink, size, containers) ==
    LET batched[n \in 0..Len(containers)] ==
          IF n = 0 THEN [chunks |-> <<>>, batch |-> <<>>]
          ELSE AddContainer(sink, size, batched[n - 1], containers[n])
    IN  batched[Len(containers)]

Chunks(sink, size, containers) ==
    LET end == Batched(sink, size, containers)
    IN  IF end.batch = <<>> THEN end.chunks ELSE Yield(end).chunks

TouchedBy(chunk) == Cardinality({i.ctx : i \in ToSet(chunk)})         \* mutant

\* The containers a chunk completes: it holds their last item.
CompletedBy(chunk) == Cardinality({n \in DOMAIN chunk : chunk[n].last})

-----------------------------------------------------------------------------
(* The filters work on contexts [stored, loaded, base, epoch, published]:  *)
(* the keys stored to, in order, the keys whose state was loaded, and each *)
(* key's sequence number and epoch at the load.                            *)

StoredTo(ctx, k) == Cardinality({n \in DOMAIN ctx.stored : ctx.stored[n] = k})

\* What contexts 1 to i stored to k.
StoredBy(contexts, k) ==
    LET stored[i \in 0..Len(contexts)] ==
          IF i = 0 THEN 0 ELSE stored[i - 1] + StoredTo(contexts[i], k)
    IN  stored

\* The first context that loaded a state of an earlier epoch, or one more
\* than there are: everything from there on fails.
FirstStale(contexts, epochs) ==
    LET stale == {i \in DOMAIN contexts :
                    \E k \in contexts[i].loaded : contexts[i].epoch[k] < epochs[k]}
    IN  IF stale = {} THEN Len(contexts) + 1
                      ELSE CHOOSE i \in stale : \A j \in stale : i <= j

\* The first context that does not build on the one before it for some key.
FirstNonLinear(contexts) ==
    LET before(i, k) == {j \in 1..(i - 1) : StoredTo(contexts[j], k) > 0}
        first(i, k) == CHOOSE j \in before(i, k) : \A h \in before(i, k) : j <= h
        reached(i, k) == contexts[first(i, k)].base[k] + StoredBy(contexts, k)[i - 1]
        breaks == {i \in DOMAIN contexts : \E k \in ToSet(contexts[i].stored) :
                     /\ before(i, k) # {}
                     /\ contexts[i].base[k] # reached(i, k)}
    IN  IF breaks = {} THEN Len(contexts) + 1
                       ELSE CHOOSE i \in breaks : \A j \in breaks : i <= j
=============================================================================
