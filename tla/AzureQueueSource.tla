-------------------------- MODULE AzureQueueSource --------------------------
(***************************************************************************)
(* packages/azure: QueueInputSource over QueueClientWithLargeItemSupport   *)
(* and QueueClient.  A message read from the queue is invisible for a time *)
(* and deleted with the pop receipt of that read; one read too often goes  *)
(* to the dead letter queue.                                               *)
(***************************************************************************)
EXTENDS Source

CONSTANTS NumOfMessages, MaxDequeueCount,
          MaxReads,    \* bound: times a message is read
          NoType,      \* messages without the event type header
          Large        \* messages whose payload and headers are in a blob

TypeOK ==
  /\ SharedTypeOK
  /\ broker \in [reads : [Msgs -> 0 .. MaxReads], visible : SUBSET Msgs, gone : SUBSET Msgs,
                 dead : [Msgs -> Nat]]
  /\ \A i \in DOMAIN client.batch : client.batch[i].m \in Msgs
  /\ client.deleting \subseteq [m : Msgs, receipt : Nat]

Init ==
  /\ SharedInit /\ client = [batch |-> <<>>, dead |-> <<>>, deleting |-> {}, atYield |-> FALSE]
  /\ broker = [reads |-> [m \in Msgs |-> 0], visible |-> Msgs, gone |-> {},
               dead |-> [m \in Msgs |-> 0]]

NoReceipt == 0
DequeueCount(copy) == IF copy.receipt = NoReceipt THEN 1 ELSE copy.receipt

\* The headers that come with a message: each read gives it a new pop receipt
\* (numbered as the dequeue count); those from a blob replace them and have none.
Hydrated(m, reads) == [m |-> m, receipt |-> IF m \in Large THEN NoReceipt ELSE reads[m]]

\* QueueClient.read: a message without its header is left out.
Received(ms) == InOrder(ms \ NoType)

Reads(ms) == [m \in Msgs |-> broker.reads[m] + IF m \in ms THEN 1 ELSE 0]
Receive(ms) ==
  /\ phase = "run" /\ client.batch = <<>> /\ client.dead = <<>>
  /\ Cardinality(ms) <= NumOfMessages
  /\ \A m \in ms : broker.reads[m] < MaxReads
  /\ broker' = [broker EXCEPT !.reads = Reads(ms), !.visible = @ \ ms]
  /\ UNCHANGED <<held, outcome>>

Read == \E ms \in SUBSET broker.visible \ {{}} :
  /\ Receive(ms) /\ UNCHANGED <<phase, faults>>
  /\ client' = [client EXCEPT !.atYield = FALSE,
                  !.batch = [i \in DOMAIN Received(ms) |-> Hydrated(Received(ms)[i], Reads(ms))]]

\* receiveMessages fails, or a message cannot be parsed or its blob not be read:
\* start() throws, and what was received is left to its visibility timeout.
ReadFails == \E ms \in SUBSET broker.visible :
  Receive(ms) /\ Fault /\ phase' = "end" /\ UNCHANGED client

Waiting == client.batch # <<>> /\ client.dead = <<>> /\ ~(phase = "stop" /\ client.atYield)
TooOften(copy) == DequeueCount(copy) > MaxDequeueCount

Yield ==
  /\ Waiting /\ phase # "end" /\ ~TooOften(Head(client.batch)) /\ Hand(Head(client.batch))
  /\ client' = [client EXCEPT !.batch = Tail(@), !.atYield = TRUE]
  /\ UNCHANGED <<broker, outcome, phase, faults>>

\* The message is written to the dead letter queue; if that fails it is left
\* to its visibility timeout.
DeadLetter == \E fails \in BOOLEAN :
  /\ Waiting /\ phase # "end" /\ TooOften(Head(client.batch))
  /\ client' = [client EXCEPT !.batch = Tail(@), !.atYield = FALSE,
                              !.dead = IF fails THEN @ ELSE <<Head(client.batch)>>]
  /\ IF fails THEN Fault /\ UNCHANGED <<broker, outcome>>
     ELSE /\ broker' = [broker EXCEPT !.dead[Head(client.batch).m] = @ + 1]
          /\ outcome' = Became("rejected", {Head(client.batch).m}) /\ UNCHANGED faults
  /\ UNCHANGED <<held, phase>>

\* markAsProcessed: deleteMessage with the pop receipt of the latest read.
Deleted(copy) == IF copy.receipt = broker.reads[copy.m]
                   THEN [broker EXCEPT !.gone = @ \cup {copy.m}, !.visible = @ \ {copy.m}]
                   ELSE broker
MarkAsProcessed(copy) ==
  \/ broker' = Deleted(copy) /\ UNCHANGED faults
  \/ Fault /\ UNCHANGED broker

DeleteDead ==
  /\ client.dead # <<>> /\ MarkAsProcessed(client.dead[1])
  /\ client' = [client EXCEPT !.dead = <<>>]
  /\ UNCHANGED <<held, outcome, phase>>

\* The released listener: an error leaves the message to its timeout.
Deletes(copy, err) == IF err THEN client ELSE [client EXCEPT !.deleting = @ \cup {copy}]
Released == \E i \in DOMAIN held : \E o \in {"ok", "err"} :
  /\ Release(i, o) /\ client' = Deletes(held[i], o = "err")
  /\ UNCHANGED <<broker, phase>>
Delete == \E copy \in client.deleting :
  /\ MarkAsProcessed(copy) /\ client' = [client EXCEPT !.deleting = @ \ {copy}]
  /\ UNCHANGED <<held, outcome, phase>>

InClient == {held[i].m : i \in DOMAIN held} \cup {c.m : c \in client.deleting}
            \cup {client.batch[i].m : i \in DOMAIN client.batch}
            \cup {client.dead[i].m : i \in DOMAIN client.dead}

\* The visibility timeout of a message passes, too early for one in process.
Reappear == \E m \in Msgs \ (broker.visible \cup broker.gone) :
  /\ IF m \in InClient THEN Fault ELSE UNCHANGED faults
  /\ broker' = [broker EXCEPT !.visible = @ \cup {m}]
  /\ UNCHANGED <<client, held, outcome, phase>>

Stop == AskToStop /\ UNCHANGED <<broker, client, held, outcome, faults>>
End ==
  /\ phase = "stop" /\ client.dead = <<>> /\ (client.batch = <<>> \/ client.atYield)
  /\ phase' = "end" /\ client' = [client EXCEPT !.batch = <<>>]
  /\ UNCHANGED <<broker, held, outcome, faults>>
Crash ==
  /\ Die /\ client' = [batch |-> <<>>, dead |-> <<>>, deleting |-> {}, atYield |-> FALSE]
  /\ UNCHANGED <<broker, outcome, phase>>

Progress == Read \/ Yield \/ DeadLetter \/ DeleteDead \/ Delete \/ Reappear \/ End
Next == Progress \/ ReadFails \/ Released \/ Stop \/ Crash

Settled == broker.gone
Answered == {m \in Msgs : outcome[m] \cap {"ok", "rejected"} # {}}
Over == Settled \cup NoType \cup Large
============================================================================
