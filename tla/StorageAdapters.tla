-------------------------- MODULE StorageAdapters --------------------------
(***************************************************************************)
(* What is written to services and loaded from them under one contract:    *)
(* the initial state chooses an adapter, and the properties are those of   *)
(* any of them.                                                            *)
(***************************************************************************)
EXTENDS Integers, Sequences

CONSTANTS MaxFaults, CosmosFaults, Adapters, Kinds, Retries, RowsPerRequest, Poisons,
          Batches, Dest, Instances, Outputs, Frequency, Attempts, Snapshotters, Stores, Verifications,
          UploadParts, SentTogether

ASSUME SizesAssumption ==
  /\ {MaxFaults, CosmosFaults, Retries} \subseteq Nat
  /\ {RowsPerRequest, Frequency, Attempts, UploadParts} \subseteq Nat \ {0}
\* Messages are numbered in the order in which they are given to the sink.
ASSUME BatchesAssumption ==
  /\ Batches \in Seq(Seq(Nat))
  /\ \A b, c \in DOMAIN Batches : \A i \in DOMAIN Batches[b], j \in DOMAIN Batches[c] :
       b < c \/ (b = c /\ i < j) => Batches[b][i] < Batches[c][j]
ASSUME InstancesAssumption ==
  0 \notin Instances /\ Outputs \in [Instances -> Seq(Nat)] /\ Verifications \subseteq Instances \X Nat \X {"first", "last"}
ASSUME AdaptersAssumption == Adapters \subseteq {"sinks", "cosmos", "upload"} /\ SentTogether \subseteq BOOLEAN

VARIABLES stored, caller, wire, told, faults, adapter
all == <<stored, caller, wire, told, faults, adapter>>

S == INSTANCE Sinks
C == INSTANCE CosmosStore WITH MaxFaults <- CosmosFaults
U == INSTANCE MultipartUpload WITH Parts <- UploadParts, Together <- SentTogether

Is(a) == adapter = a
Init ==
  /\ adapter \in Adapters
  /\ \/ Is("sinks") /\ S!Init
     \/ Is("cosmos") /\ C!Init
     \/ Is("upload") /\ U!Init
Next ==
  /\ UNCHANGED adapter
  /\ \/ Is("sinks") /\ S!Next
     \/ Is("cosmos") /\ C!Next
     \/ Is("upload") /\ U!Next

\* Requests are answered, callers go on with the answer, the retrier calls
\* again.  Nothing need fail, no snapshot need be taken or read.
Spec ==
  /\ Init /\ [][Next]_all
  /\ WF_all(UNCHANGED adapter /\ Is("sinks") /\ S!Progress)
  /\ WF_all(UNCHANGED adapter /\ Is("upload") /\ U!Progress)
  /\ \A w \in Instances : WF_all(UNCHANGED adapter /\ Is("cosmos") /\ C!Progress(w))

\* Every variable of the sinks has its type.  What a caller of sink() was told
\* is written, or is dropped as a duplicate of, is in the store, although a
\* request may fail after its effect and a batch be given to the sink again;
\* and it is told of a failure only if there were more of them than retries or
\* a message cannot be formatted.  (Libraries that AMQP and MQTT leave the
\* sending to, KafkaSink's transactions, and batches that end in a verification
\* given to the materialized Cosmos sink, are the exceptions.)  An upload
\* that says it is complete stored an object.
OkIsStored ==
  /\ Is("sinks") => S!TypeOK /\ S!OkIsStored /\ S!Deserved
  /\ Is("cosmos") => C!OkIsStored
  /\ Is("upload") => U!TypeOK /\ U!OkIsStored

\* A transaction is written whole or not at all, and the messages of a
\* destination in their order, however often they are written.  What an
\* instance stores for one input is stored once, together and in the order of
\* its inputs, although it crashes, is delivered them anew and races others.
\* An uploaded object has every part once and in order.
WrittenWhole ==
  /\ Is("sinks") => S!Whole /\ S!InOrder
  /\ Is("cosmos") => C!WholeInTime
  /\ Is("upload") => U!WholeObject

\* Every snapshot, every past state that is read and every state whose outcome
\* will be accepted is made of just the events up to its number, whatever part
\* of it comes from a snapshot that others list and write at the same time.
LoadedIsPrefix == Is("cosmos") => C!LoadedIsPrefix

\* Every batch and every input is answered, once requests fail no more.
EveryCallEnds == <>(CASE Is("sinks") -> S!Over [] Is("cosmos") -> C!Over [] Is("upload") -> U!Over)

\* What does not hold, with the constants that the README names.
\* With Stores = {"slowEvents"}: a request is executed after it timed out and
\* its application, started anew, has asked for the watermark.
StoredOnce == Is("cosmos") => C!Whole
\* The materialized sink stores the last message of a batch unless a
\* verification follows it, and the caller is told ok all the same.
VerifiedIsStored == Is("cosmos") => C!AllStored
\* KafkaSink leaves a transaction open behind a message
\* that cannot be formatted, and the producer begins no other.
TransactionEnds == Is("sinks") => S!DeservedByAll
\* AmqpSink and MqttPublisherSink return before the
\* broker has anything, and learn of no failure.
SentIsStored == Is("sinks") => S!SentIsStored
\* S3Sink and GcsSink put the objects of a batch all
\* together, so that of two puts of one key either may be the last, and after the
\* first that fails they do not await the others.
LastBatchWins == Is("sinks") => S!LastBatchWins
\* An upload whose parts are sent all at a time fails although no request has,
\* when they do not finish in the order in which they were sent.
UploadEndsWell == Is("upload") => U!UploadEndsWell
============================================================================
