---------------------------- MODULE PushSources ----------------------------
(***************************************************************************)
(* The sources whose client library calls back for each message and that   *)
(* put it into a BoundedPriorityQueue which start() iterates:              *)
(* packages/amqp AmqpSource, packages/gcp PubSubSource and packages/mqtt   *)
(* MqttSubscriberSource.  They differ in what limits the library, in when  *)
(* the broker takes a message for delivered, and in what their released    *)
(* listener does.  Messages are numbered in the order of the broker.       *)
(***************************************************************************)
EXTENDS Source

CONSTANTS Kinds,        \* the adapters to check, of "amqp", "pubsub", "mqtt"
          Capacity,     \* of the queue
          Limit,        \* prefetch, flow control: messages not acknowledged
          Returning     \* messages whose handler returns a value

Kind == client.kind
TypeOK ==
  /\ SharedTypeOK /\ Kind \in Kinds
  /\ broker.ready \in Seq(Msgs) /\ broker.leased \subseteq Msgs /\ broker.gone \subseteq Msgs
  /\ Len(client.queue) <= Capacity
  /\ \A m \in Msgs : ~(m \in broker.leased /\ m \in broker.gone)

Init == \E k \in Kinds :
  /\ SharedInit /\ client = [kind |-> k, queue |-> <<>>, parked |-> <<>>]
  /\ broker = [ready |-> InOrder(Msgs), leased |-> {}, gone |-> {}]

\* BoundedPriorityQueue.enqueue of an open queue: at capacity the call waits.
EnqueuedOneMore(m) == [client EXCEPT !.queue = Append(@, m)]   \* mutant
Enqueued(m) == IF Len(client.queue) < Capacity
                 THEN [client EXCEPT !.queue = Append(@, m)]
                 ELSE [client EXCEPT !.parked = Append(@, m)]
Taken == [client EXCEPT !.queue = Tail(@) \o FirstOf(client.parked, 1),
                        !.parked = SubSeq(@, 2, Len(@))]
InClient == ToSet(client.queue) \cup ToSet(client.parked) \cup {held[i].m : i \in DOMAIN held}

Lease(i) == [broker EXCEPT !.ready = RemoveAt(@, i), !.leased = @ \cup {broker.ready[i]}]

\* AmqpSource's consumer, which nothing cancels before dispose: a closed queue
\* takes the message as long as it has room, whether or not the iteration is
\* over, and else refuses it.  (The released listener is attached once enqueue has
\* returned, a few turns of the event loop before the message can be released.)
AmqpOnMessage ==
  /\ Kind = "amqp" /\ broker.ready # <<>> /\ Cardinality(broker.leased) < Limit
  /\ broker' = Lease(1)
  /\ client' = IF phase = "run" \/ Len(client.queue) < Capacity
                 THEN Enqueued(Head(broker.ready)) ELSE client
  /\ UNCHANGED <<held, outcome, phase, faults>>

\* PubSubSource's "message": in no order, and dropped once it is to stop.
PubSubOnMessage == \E i \in DOMAIN broker.ready :
  /\ Kind = "pubsub" /\ phase # "end" /\ Cardinality(broker.leased) < Limit
  /\ broker' = Lease(i)
  /\ client' = IF phase = "run" THEN Enqueued(broker.ready[i]) ELSE client
  /\ UNCHANGED <<held, outcome, phase, faults>>

\* MqttSubscriberSource's "message": the library confirms it to the broker
\* when the callback returns, whatever becomes of it.
MqttOnMessage ==
  /\ Kind = "mqtt" /\ broker.ready # <<>> /\ phase # "end"
  /\ broker' = [broker EXCEPT !.ready = Tail(@), !.gone = @ \cup {Head(broker.ready)}]
  /\ IF phase = "run"
       THEN client' = Enqueued(Head(broker.ready)) /\ UNCHANGED outcome
       ELSE outcome' = Became("rejected", {Head(broker.ready)}) /\ UNCHANGED client
  /\ UNCHANGED <<held, phase, faults>>

\* start(): yield* queue.iterate().
Yield ==
  /\ client.queue # <<>> /\ phase # "end"
  /\ Hand([m |-> Head(client.queue)]) /\ client' = Taken
  /\ UNCHANGED <<broker, outcome, phase, faults>>

Ack(m) == [broker EXCEPT !.leased = @ \ {m},
                         !.gone = IF m \in broker.leased THEN @ \cup {m} ELSE @]

\* AmqpSource's listener names the second argument, the value, err: what
\* failed is acknowledged, and what the handler returned a value for is not.
AmqpReleased(m, err) == IF ~err /\ m \in Returning THEN broker ELSE Ack(m)

\* PubSubSource's: an error leaves the message to the end of its lease.
PubSubReleased(m, err) == IF err THEN broker ELSE Ack(m)

\* MqttSubscriberSource's counts and logs.
MqttReleased(m, err) == broker

Released == \E i \in DOMAIN held : \E o \in {"ok", "err"} :
  /\ Release(i, o)
  /\ broker' = CASE Kind = "amqp" -> AmqpReleased(held[i].m, o = "err")
                 [] Kind = "pubsub" -> PubSubReleased(held[i].m, o = "err")
                 [] Kind = "mqtt" -> MqttReleased(held[i].m, o = "err")
  /\ UNCHANGED <<client, phase>>

\* The lease of a Pub/Sub message ends, for one that is still being processed
\* because the library could not extend it.
LeaseEnds == \E m \in broker.leased :
  /\ Kind = "pubsub" /\ IF m \in InClient THEN Fault ELSE UNCHANGED faults
  /\ broker' = [broker EXCEPT !.ready = Append(@, m), !.leased = @ \ {m}]
  /\ UNCHANGED <<client, held, outcome, phase>>

\* stop(): the queue is closed, calls that wait are refused.
AmqpStop == Kind = "amqp" /\ AskToStop /\ client' = [client EXCEPT !.parked = <<>>]
PubSubStop == Kind = "pubsub" /\ AskToStop /\ client' = [client EXCEPT !.parked = <<>>]
MqttStop ==
  /\ Kind = "mqtt" /\ AskToStop /\ client' = [client EXCEPT !.parked = <<>>]
  /\ outcome' = Became("rejected", ToSet(client.parked))
Stop ==
  /\ \/ (AmqpStop \/ PubSubStop) /\ UNCHANGED outcome
     \/ MqttStop
  /\ UNCHANGED <<broker, held, faults>>
End ==
  /\ phase = "stop" /\ client.queue = <<>> /\ phase' = "end"
  /\ UNCHANGED <<broker, client, held, outcome, faults>>

\* The process, or its connection, dies: the broker takes back what was not
\* acknowledged.  What was confirmed for MQTT would be lost.
Crash ==
  /\ Kind # "mqtt" /\ Die /\ client' = [client EXCEPT !.queue = <<>>, !.parked = <<>>]
  /\ broker' = [broker EXCEPT !.ready = InOrder(broker.leased \cup ToSet(@)), !.leased = {}]
  /\ UNCHANGED <<outcome, phase>>

Progress == AmqpOnMessage \/ PubSubOnMessage \/ MqttOnMessage \/ Yield \/ End
Next == Progress \/ LeaseEnds \/ Released \/ Stop \/ Crash

Settled == broker.gone \ IF Kind = "mqtt" THEN InClient ELSE {}
Answered == {m \in Msgs : outcome[m] \ (IF Kind = "pubsub" THEN {"err"} ELSE {}) # {}}
\* What AmqpSource's queue refused, which stays leased and is handed to nobody.
RefusedAtStop == IF Kind = "amqp" /\ phase # "run" THEN broker.leased \ InClient ELSE {}
Over == Settled \cup IF Kind = "amqp" THEN Returning \cap Having("ok") ELSE {}
============================================================================
