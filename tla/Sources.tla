------------------------------ MODULE Sources ------------------------------
(***************************************************************************)
(* The acknowledging sources under one contract: the initial state chooses *)
(* an adapter, and the properties are those of any of them.                *)
(***************************************************************************)
EXTENDS Integers, Sequences

CONSTANTS N, MaxHeld, MaxFaults, Adapters, BatchSize,
          RedisFaults, Bad,
          ReleasesInOrder, Partitions, Strategies, LogEnd, Invalid,
          Kinds, Capacity, Limit, Returning,
          MaxDequeueCount, MaxReads, NoType, Large

ASSUME SourcesAssumption ==
  /\ {N, MaxHeld, MaxFaults, RedisFaults, BatchSize, Capacity, Limit, MaxDequeueCount, MaxReads} \subseteq Nat
  /\ LogEnd \in [Partitions -> Nat] /\ Bad \cup Returning \cup NoType \cup Large \subseteq 1 .. N
ASSUME AdaptersAssumption ==
  Kinds \subseteq {"amqp", "pubsub", "mqtt"} /\ Adapters \subseteq {"kafka", "redis", "push", "azure"}

VARIABLES broker, client, held, outcome, phase, faults, adapter
all == <<broker, client, held, outcome, phase, faults, adapter>>

Msgs == 1 .. N
KafkaMsgs == UNION {{<<p, o>> : o \in 0 .. LogEnd[p] - 1} : p \in Partitions}
K == INSTANCE KafkaSource WITH Msgs <- KafkaMsgs
R == INSTANCE RedisStreamSource WITH MaxFaults <- RedisFaults
P == INSTANCE PushSources
A == INSTANCE AzureQueueSource WITH NumOfMessages <- BatchSize

Is(a) == adapter = a
Init ==
  /\ adapter \in Adapters
  /\ \/ Is("kafka") /\ K!Init
     \/ Is("redis") /\ R!Init
     \/ Is("push") /\ P!Init
     \/ Is("azure") /\ A!Init
Next ==
  /\ UNCHANGED adapter
  /\ \/ Is("kafka") /\ K!Next
     \/ Is("redis") /\ R!Next
     \/ Is("push") /\ P!Next
     \/ Is("azure") /\ A!Next

\* Promises that are settled continue, the broker answers, the time of a lease
\* or of a timer passes, and the application releases what it was handed.
Fairness ==
  /\ WF_all(UNCHANGED adapter /\ Is("kafka") /\ K!Progress)
  /\ WF_all(UNCHANGED adapter /\ Is("kafka") /\ K!Released)
  /\ WF_all(UNCHANGED adapter /\ Is("kafka") /\ K!OtherConsumes)
  /\ WF_all(UNCHANGED adapter /\ Is("redis") /\ R!Progress)
  /\ WF_all(UNCHANGED adapter /\ Is("redis") /\ R!Released)
  /\ WF_all(UNCHANGED adapter /\ Is("redis") /\ R!XAck)
  /\ WF_all(UNCHANGED adapter /\ Is("redis") /\ R!Idle)
  /\ WF_all(UNCHANGED adapter /\ Is("redis") /\ R!Due)
  /\ WF_all(UNCHANGED adapter /\ Is("push") /\ P!Progress)
  /\ WF_all(UNCHANGED adapter /\ Is("push") /\ P!End)
  /\ WF_all(UNCHANGED adapter /\ Is("push") /\ P!Yield)
  /\ WF_all(UNCHANGED adapter /\ Is("push") /\ P!Released)
  /\ WF_all(UNCHANGED adapter /\ Is("push") /\ P!LeaseEnds)
  /\ WF_all(UNCHANGED adapter /\ Is("azure") /\ A!Progress)
  /\ WF_all(UNCHANGED adapter /\ Is("azure") /\ A!Released)
  /\ WF_all(UNCHANGED adapter /\ Is("azure") /\ A!Delete)

Spec == Init /\ [][Next]_all /\ Fairness

\* Every variable has its adapter's type, and no local queue or number of
\* unacknowledged messages exceeds what was asked for.
TypeOK ==
  CASE Is("kafka") -> K!TypeOK [] Is("redis") -> R!TypeOK
    [] Is("push") -> P!TypeOK [] Is("azure") -> A!TypeOK

\* What the broker will not deliver again; what was released, or is known not to
\* be a message; what has become of nothing yet.
Settled ==
  CASE Is("kafka") -> K!Settled [] Is("redis") -> R!Settled
    [] Is("push") -> P!Settled [] Is("azure") -> A!Settled
Answered ==
  CASE Is("kafka") -> K!Answered [] Is("redis") -> R!Answered
    [] Is("push") -> P!Answered [] Is("azure") -> A!Answered
Unfinished ==
  CASE Is("kafka") -> KafkaMsgs \ K!Over [] Is("redis") -> Msgs \ R!Over
    [] Is("push") -> Msgs \ P!Over [] Is("azure") -> Msgs \ A!Over

\* At least once: what is committed, acknowledged or deleted was released by the
\* application or cannot be read, through rebalances, reconnects, leases that
\* end and acknowledgements that are lost or late (Kafka: if the application
\* releases in order, which the output loop does).
SettledIsAnswered == Settled \subseteq Answered

\* A source that yields in order passes nothing over: what comes before a message
\* it yields was yielded before it, or was answered already, or was refused by
\* AmqpSource's queue, which may be full when it is closed and have room later.
Before(m) == IF Is("kafka") THEN {<<m[1], o>> : o \in 0 .. m[2] - 1} ELSE 1 .. m - 1
Ordered(i) == \/ Is("kafka") /\ held[i].epoch = client.epoch
              \/ Is("push") /\ client.kind # "pubsub"
Refused == IF Is("push") THEN P!RefusedAtStop ELSE {}
NothingPassedOver == \A i \in DOMAIN held :
  Ordered(i) => \A m \in Before(held[i].m) :
    m \in Answered \cup Refused \/ \E j \in 1 .. i - 1 : held[j].m = m

\* What is settled is not delivered again: no rebalance or reconnect takes a
\* commit or an acknowledgement back.
SettledStaysSettled == [][Settled \subseteq Settled']_all

\* Unless the source is stopped, or fails, every message is settled in the end
\* or becomes another consumer's; a source that is stopped ends.
EveryMessageIsOver ==
  /\ <>(phase # "run" \/ Unfinished = {})
  /\ phase = "stop" ~> phase = "end"

\* What does not hold.  AmqpSource acknowledges what was released with an
\* error.  (And with ReleasesInOrder = FALSE SettledIsAnswered fails: an offset
\* that is released before a lower one is committed.)
FailedIsNotSettled == \A m \in Settled : outcome[m] # {"err"}
============================================================================
