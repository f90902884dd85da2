---------------------------- MODULE KafkaSource ----------------------------
(***************************************************************************)
(* packages/kafka: KafkaConsumer, OffsetManager and KafkaSource, a member  *)
(* of a consumer group that commits the position of each partition from    *)
(* the offsets of released messages.  A message is <<partition, offset>>.  *)
(* The members' coordinator is the broker's: a rebalance starts a new      *)
(* generation, which the client notices at a heartbeat; a commit of an     *)
(* older generation is refused.  The AsyncPipe between consumer and source *)
(* holds no message, so a message goes from a batch to the application.    *)
(***************************************************************************)
EXTENDS Source

CONSTANTS Partitions,
          ReleasesInOrder, \* whether the processor releases a partition's messages in order
          LogEnd,         \* messages in each partition
          Strategies, Invalid

NoBatch == <<>>
NoOffset == -1          \* "" in the OffsetManager

TypeOK ==
  /\ SharedTypeOK
  /\ broker \in [committed : [Partitions -> Nat], mine : SUBSET Partitions, gen : Nat]
  /\ \A p \in Partitions : broker.committed[p] <= LogEnd[p]
  /\ client.offsets \in [client.assigned -> Nat \cup {NoOffset}]
  /\ client.assigned \subseteq Partitions /\ client.gen <= broker.gen
  /\ client.epoch \in 0 .. MaxFaults + 1

\* The constructor, and consume() up to run(): no partition is assigned yet.
Fresh(strategy) ==
  [strategy |-> strategy, epoch |-> 0, gen |-> 0, assigned |-> {}, offsets |-> <<>>,
   next |-> [p \in Partitions |-> 0], batch |-> NoBatch, rejoins |-> FALSE]

Init ==
  /\ SharedInit
  /\ broker = [committed |-> [p \in Partitions |-> 0], mine |-> Partitions, gen |-> 1]
  /\ \E s \in Strategies : client = Fresh(s)

\* The group's coordinator gives this member other partitions.
Rebalance == \E mine \in SUBSET Partitions :
  /\ phase = "run" /\ mine # broker.mine /\ Fault
  /\ broker' = [broker EXCEPT !.mine = mine, !.gen = @ + 1]
  /\ UNCHANGED <<client, held, outcome, phase>>

\* Another member processes and commits a message of a partition that is not ours.
OtherConsumes == \E p \in Partitions \ broker.mine :
  /\ broker.committed[p] < LogEnd[p]
  /\ broker' = [broker EXCEPT !.committed[p] = @ + 1]
  /\ outcome' = Became("other", {<<p, broker.committed[p]>>})
  /\ UNCHANGED <<client, held, phase, faults>>

StartsAtResolved(p) == client.next[p]   \* mutant
\* Where consumption of a partition assigned in this join starts: the position
\* committed, unless the topic is always rewound and was not being consumed.
StartsAt(p) ==
  IF client.strategy = "AlwaysEarliest" /\ p \notin client.assigned
    THEN 0 ELSE broker.committed[p]

\* OffsetManager.resetAddedOffsets and, for what is assigned, addOffsets of "".
NoOffsets(assigned) == [p \in assigned |-> NoOffset]

\* The GROUP_JOIN event.  evict() is called and not awaited: see ReleaseEvicted.
Join ==
  /\ client.gen # broker.gen /\ client.batch = NoBatch /\ phase # "end"
  /\ client' = [client EXCEPT !.gen = broker.gen, !.epoch = @ + 1, !.rejoins = FALSE,
                  !.next = [p \in Partitions |->
                              IF p \in broker.mine THEN StartsAt(p) ELSE @[p]],
                  !.assigned = broker.mine, !.offsets = NoOffsets(broker.mine)]
  /\ UNCHANGED <<broker, held, outcome, phase, faults>>

\* kafkajs fetches a batch from the position resolved last.
Fetch == \E p \in client.assigned : \E last \in client.next[p] .. LogEnd[p] - 1 :
  /\ client.batch = NoBatch /\ client.epoch > 0 /\ ~client.rejoins /\ phase = "run"
  /\ client' = [client EXCEPT !.batch = <<p, client.next[p], last>>]
  /\ UNCHANGED <<broker, held, outcome, phase, faults>>

InBatch == client.batch # NoBatch /\ client.batch[2] <= client.batch[3]
Current == <<client.batch[1], client.batch[2]>>

\* eachBatch sends a message through the pipe and KafkaSource.start yields it,
\* with the epoch of the consumer at that moment.
Yield ==
  /\ InBatch /\ Current \notin Invalid /\ phase = "run"
  /\ Hand([m |-> Current, epoch |-> client.epoch])
  /\ client' = [client EXCEPT !.batch[2] = @ + 1]
  /\ UNCHANGED <<broker, outcome, phase, faults>>

\* A header with more than one value: the error is logged, the message passed over.
Skip ==
  /\ InBatch /\ Current \in Invalid /\ phase = "run"
  /\ outcome' = Became("rejected", {Current})
  /\ client' = [client EXCEPT !.batch[2] = @ + 1]
  /\ UNCHANGED <<broker, held, phase, faults>>

\* The end of eachBatch: what we still control goes on after the batch.
EndBatch ==
  /\ client.batch # NoBatch /\ ~InBatch
  /\ client' = [client EXCEPT !.batch = NoBatch,
                  !.next = IF client.batch[1] \in client.assigned
                             THEN [@ EXCEPT ![client.batch[1]] = client.batch[3] + 1] ELSE @]
  /\ UNCHANGED <<broker, held, outcome, phase, faults>>

\* heartbeat() throws out of eachBatch once the group is rebalancing; kafkajs
\* then joins before it fetches again.
Heartbeat ==
  /\ client.batch # NoBatch /\ client.gen # broker.gen
  /\ client' = [client EXCEPT !.batch = NoBatch, !.rejoins = TRUE]
  /\ UNCHANGED <<broker, held, outcome, phase, faults>>

IsCurrentAlways(copy) == TRUE   \* mutant
IsCurrent(copy) == copy.epoch = client.epoch

\* The released listener: OffsetManager.addOffsets overwrites what is there.
Track(copy, err) ==
  client' = IF err \/ ~IsCurrent(copy) THEN client
            ELSE [client EXCEPT !.offsets = [p \in DOMAIN @ \cup {copy.m[1]} |->
                                               IF p = copy.m[1] THEN copy.m[2] ELSE @[p]]]

\* Copies of a partition are released in the order they were handed: the
\* output loop and the serial processor do, handlers that run at once need not.
Releasable(i) == ReleasesInOrder => \A j \in 1 .. i - 1 : held[j].m[1] # held[i].m[1]

Released == \E i \in DOMAIN held : \E o \in {"ok", "err"} :
  /\ Releasable(i) /\ Release(i, o) /\ Track(held[i], o = "err")
  /\ UNCHANGED <<broker, phase>>

\* evict() on behalf of a join: a queued message of an older epoch is released
\* with an error; that is no outcome, the message is handed out again.
ReleaseEvicted == \E i \in DOMAIN held :
  /\ held[i].epoch < client.epoch
  /\ held' = RemoveAt(held, i) /\ Track(held[i], TRUE)
  /\ UNCHANGED <<broker, outcome, phase, faults>>

ToCommit == {p \in DOMAIN client.offsets : client.offsets[p] # NoOffset}

\* OffsetManager.offsetsToCommit: the offset after the one released last.
Committed == [p \in Partitions |-> IF p \in ToCommit THEN client.offsets[p] + 1
                                   ELSE broker.committed[p]]

\* commitOffsetsIfNecessary by timer, and dispose; an error is only logged.
Commit ==
  /\ client.gen = broker.gen /\ Committed # broker.committed
  /\ broker' = [broker EXCEPT !.committed = Committed]
  /\ UNCHANGED <<client, held, outcome, phase, faults>>

Timer == phase = "run" /\ Commit
Dispose == phase = "end" /\ held = <<>> /\ Commit

\* stop(): the pipe is closed, a message being sent is dropped with its batch.
Stop ==
  /\ AskToStop /\ client' = [client EXCEPT !.batch = NoBatch]
  /\ UNCHANGED <<broker, held, outcome, faults>>
End == phase = "stop" /\ phase' = "end" /\ UNCHANGED <<broker, client, held, outcome, faults>>

Crash ==
  /\ Die /\ broker' = [broker EXCEPT !.gen = @ + 1, !.mine = Partitions]
  /\ client' = Fresh(client.strategy)
  /\ UNCHANGED <<outcome, phase>>

Progress == Join \/ Fetch \/ Yield \/ Skip \/ EndBatch \/ Heartbeat \/ End \/ Timer \/ Dispose
Next == Progress \/ Rebalance \/ OtherConsumes \/ Released \/ ReleaseEvicted \/ Stop \/ Crash

\* A topic that is always rewound keeps nothing from being handed out again.
Rewinds == client.strategy = "AlwaysEarliest"
Settled == {m \in Msgs : ~Rewinds /\ m[2] < broker.committed[m[1]]}
Answered == {m \in Msgs : outcome[m] # {}}

\* What failed or is invalid is passed over by the position of a later message.
Over == Settled \cup {m \in Msgs : outcome[m] \cap {"err", "rejected"} # {}}
        \cup {m \in Msgs : Rewinds /\ outcome[m] # {}}
============================================================================
