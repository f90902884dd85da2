------------------------------- MODULE Sinks -------------------------------
(***************************************************************************)
(* The adapters' output sinks, called with one batch after the other and   *)
(* again by the retrier when a call fails: packages/kafka KafkaSink with   *)
(* and without transactions, packages/mssql MssqlSink in its two modes,    *)
(* packages/redis RedisStreamSink and packages/azure QueueOutputSink,      *)
(* packages/gcp PubSubSink, GcsSink and BigQuerySink, packages/s3 S3Sink,  *)
(* packages/amqp AmqpSink and packages/mqtt MqttPublisherSink.  A sink     *)
(* turns a batch into requests and awaits one after the other, or all of   *)
(* them together, or hands them to a library and awaits none.  A request   *)
(* that fails may have had its effect.  The services are external.         *)
(* stored is what they hold, in the order of the writes; caller the sink() *)
(* call; wire the requests under way and the transaction; told how each    *)
(* batch ended.                                                            *)
(***************************************************************************)
EXTENDS Storage

CONSTANTS Batches,          \* the batches, sequences of messages
          Dest,             \* [message -> topic, table or key]
          Poisons,          \* the sets of messages that cannot be formatted, one is chosen
          Kinds, Retries,
          RowsPerRequest    \* BigQuerySink's maxBatchSize

Sequential == {"kafka", "redis", "pubsub"}
Parallel == {"objects", "bigquery"}
Buffered == {"amqp", "mqtt"}
Transacted == {"kafkaTx", "mssqlTable", "mssqlSproc"}

Msg == UNION {ToSet(Batches[b]) : b \in DOMAIN Batches}
Kind == caller.kind
Batch == Batches[caller.batch]

TypeOK ==
  /\ stored \in Seq(Msg)
  /\ Kind \in Kinds /\ caller.batch \in 1 .. Len(Batches) + 1 /\ caller.attempt \in 1 .. Retries + 1
  /\ caller.pc \in {"begin", "send", "abort", "failed", "end"}
  /\ \A i \in DOMAIN caller.todo : caller.todo[i] \in Seq(Msg) /\ caller.todo[i] # <<>>
  /\ wire.open \in BOOLEAN /\ wire.tx \in Seq(Msg)
  /\ told \in [DOMAIN Batches -> {"no", "ok", "failed"}] /\ faults \in 0 .. MaxFaults

Init == \E k \in Kinds, p \in Poisons :
  /\ stored = <<>> /\ faults = 0 /\ told = [b \in DOMAIN Batches |-> "no"]
  /\ wire = [open |-> FALSE, tx |-> <<>>, flight |-> {}]
  /\ caller = [kind |-> k, poison |-> p, batch |-> 1, attempt |-> 1, pc |-> "begin", todo |-> <<>>]

\* The requests for a batch: one for each message, or for each topic or
\* table in the order of the first message for it.
Singles(s) == [i \in DOMAIN s |-> <<s[i]>>]
Those(s, P) == FlattenSeq([i \in DOMAIN s |-> IF s[i] \in P THEN <<s[i]>> ELSE <<>>])
Firsts(s) == Those(s, {s[i] : i \in {x \in DOMAIN s : \A y \in 1 .. x - 1 : Dest[s[y]] # Dest[s[x]]}})
ByDest(s) == [i \in DOMAIN Firsts(s) |-> Those(s, {m \in ToSet(s) : Dest[m] = Dest[Firsts(s)[i]]})]
Slices(s) == [i \in 1 .. (Len(s) + RowsPerRequest - 1) \div RowsPerRequest |->
                SubSeq(s, (i - 1) * RowsPerRequest + 1, Min({i * RowsPerRequest, Len(s)}))]
Requests(s) ==
  CASE Kind \in {"kafka", "kafkaTx", "mssqlTable"} -> ByDest(s)
    [] Kind = "pubsub" -> Singles(FlattenSeq(ByDest(s)))
    [] Kind = "bigquery" -> FlattenSeq([i \in DOMAIN ByDest(s) |-> Slices(ByDest(s)[i])])
    [] OTHER -> Singles(s)

\* What cannot be formatted, or lacks a key, fails the call before the first
\* request, or when its turn comes.  S3Client encodes an object when it puts it.
Poisoned(s) == ToSet(s) \cap caller.poison # {}
FormatsFirst == Kind \in {"kafka", "pubsub", "kafkaTx"} \cup Parallel

\* sink() is called.  KafkaSink begins its transaction before it looks at the
\* messages, outside of the try: what cannot be formatted leaves it open, and
\* while one is open the producer refuses to begin another.
NoTransaction == [wire EXCEPT !.open = FALSE, !.tx = <<>>]
Refused == Kind = "kafkaTx" /\ wire.open
Begin ==
  /\ caller.pc = "begin" /\ caller.batch <= Len(Batches)
  /\ \/ (Refused \/ (FormatsFirst /\ Poisoned(Batch))) /\ caller' = [caller EXCEPT !.pc = "failed"]
     \/ /\ ~Refused /\ (Poisoned(Batch) => ~FormatsFirst \/ Kind = "objects")
        /\ caller' = [caller EXCEPT !.pc = "send", !.todo = Requests(Batch)]
  /\ wire' = IF Kind \in Transacted /\ ~Refused THEN [wire EXCEPT !.open = TRUE, !.tx = <<>>] ELSE wire
  /\ UNCHANGED <<stored, told, faults>>

\* A request is awaited: one that fails may have written part of it.
WritesAtOnce(s) == stored' = stored \o s /\ UNCHANGED wire   \* mutant
Writes(s) == IF Kind \in Transacted THEN wire' = [wire EXCEPT !.tx = @ \o s] /\ UNCHANGED stored
                                    ELSE stored' = stored \o s /\ UNCHANGED wire
Fails == caller' = [caller EXCEPT !.pc = IF Kind \in Transacted THEN "abort" ELSE "failed"]
Sending == caller.pc = "send" /\ caller.todo # <<>>
Await ==
  /\ Sending /\ Kind \in Sequential \cup Transacted
  /\ LET request == Head(caller.todo) IN
     IF Poisoned(request) /\ ~FormatsFirst THEN Fails /\ UNCHANGED <<stored, wire, faults>>
     ELSE \/ Writes(request) /\ caller' = [caller EXCEPT !.todo = Tail(@)] /\ NoFault
          \/ Fault /\ Fails /\ \E n \in 0 .. Len(request) : Writes(SubSeq(request, 1, n))
  /\ UNCHANGED told

\* sendToQueue and publish return at once; Promise.all makes all requests.
Launch(s) == [wire EXCEPT !.flight = @ \cup {[request |-> r, batch |-> caller.batch, attempt |-> caller.attempt] : r \in s}]
Buffer ==
  /\ Sending /\ Kind \in Buffered
  /\ IF Poisoned(Head(caller.todo)) THEN Fails /\ UNCHANGED wire
     ELSE wire' = Launch({Head(caller.todo)}) /\ caller' = [caller EXCEPT !.todo = Tail(@)]
  /\ UNCHANGED <<stored, told, faults>>
SendAll ==
  /\ Sending /\ Kind \in Parallel
  /\ wire' = Launch({r \in ToSet(caller.todo) : ~Poisoned(r)})
  /\ IF \E r \in ToSet(caller.todo) : Poisoned(r) THEN Fails ELSE caller' = [caller EXCEPT !.todo = <<>>]
  /\ UNCHANGED <<stored, told, faults>>

\* A request that is under way takes effect, or fails, and the first failure
\* fails the call: those that are still under way are on their own.
Mine(r) == caller.pc = "send" /\ r.batch = caller.batch /\ r.attempt = caller.attempt
Lands == \E r \in wire.flight :
  /\ Kind \in Buffered => \A x \in wire.flight : r.request[1] <= x.request[1]
  /\ wire' = [wire EXCEPT !.flight = @ \ {r}]
  /\ \/ stored' = stored \o r.request /\ UNCHANGED caller /\ NoFault
     \/ /\ Fault /\ stored' \in {stored, stored \o r.request}
        /\ IF Mine(r) /\ Kind \in Parallel THEN Fails ELSE UNCHANGED caller
  /\ UNCHANGED told

\* The call returns.
EndsWith(how) ==
  /\ told' = [told EXCEPT ![caller.batch] = how]
  /\ caller' = [caller EXCEPT !.batch = @ + 1, !.attempt = 1, !.todo = <<>>,
                              !.pc = IF caller.batch = Len(Batches) THEN "end" ELSE "begin"]
AwaitedNone == TRUE   \* mutant
Awaited == Kind \in Parallel => ~\E r \in wire.flight : Mine(r)
Return ==
  /\ caller.pc = "send" /\ caller.todo = <<>> /\ Kind \notin Transacted /\ Awaited
  /\ EndsWith("ok") /\ UNCHANGED <<stored, wire, faults>>

\* commit(), which may have had its effect when it fails: MssqlSink then
\* rolls back, KafkaSink leaves the transaction as it is.
Commit ==
  /\ caller.pc = "send" /\ caller.todo = <<>> /\ Kind \in Transacted
  /\ \/ stored' = stored \o wire.tx /\ wire' = NoTransaction /\ EndsWith("ok") /\ NoFault
     \/ /\ Fault /\ stored' \in {stored, stored \o wire.tx} /\ wire' = [wire EXCEPT !.tx = <<>>]
        /\ caller' = [caller EXCEPT !.pc = IF Kind = "kafkaTx" THEN "failed" ELSE "abort"]
        /\ UNCHANGED told

\* abortTransaction and rollback, which may fail in their turn.
Abort ==
  /\ caller.pc = "abort" /\ caller' = [caller EXCEPT !.pc = "failed"]
  /\ \/ wire' = NoTransaction /\ NoFault
     \/ Fault /\ wire' = IF Kind = "kafkaTx" THEN [wire EXCEPT !.tx = <<>>] ELSE NoTransaction
  /\ UNCHANGED <<stored, told>>

\* The retrier calls again, or gives up and the application goes on.
MayRetry == caller.attempt <= Retries
Retry ==
  /\ caller.pc = "failed"
  /\ IF MayRetry THEN /\ caller' = [caller EXCEPT !.attempt = @ + 1, !.pc = "begin", !.todo = <<>>]
                      /\ UNCHANGED told
                 ELSE EndsWith("failed")
  /\ UNCHANGED <<stored, wire, faults>>

Progress == Begin \/ Await \/ Buffer \/ SendAll \/ Lands \/ Return \/ Commit \/ Abort \/ Retry
Next == Progress

Count(m) == Cardinality({i \in DOMAIN stored : stored[i] = m})
Ok == UNION {ToSet(Batches[b]) : b \in {x \in DOMAIN Batches : told[x] = "ok"}}
LastAt(m) == Max({i \in DOMAIN stored : stored[i] = m})

\* What the caller was told is written is written, if the sink awaits it.
OkIsStored == Kind \notin Buffered => \A m \in Ok : Count(m) > 0

\* A transaction's messages are written as often as each other, and those of
\* one destination are left in their order, however often they were repeated.
Whole == Kind \in Transacted => \A b \in DOMAIN Batches :
           \A m, n \in ToSet(Batches[b]) : Count(m) = Count(n)
InOrder == Kind \in Sequential \cup Transacted =>
             \A m, n \in Ok : m < n /\ Dest[m] = Dest[n] => LastAt(m) < LastAt(n)

\* A fault no retry survives, or a message that cannot be formatted, is the
\* only cause of a failed batch.
DeservedByAll == \A b \in DOMAIN Batches :
  told[b] = "failed" => Poisoned(Batches[b]) \/ faults > Retries
Deserved == Kind # "kafkaTx" => DeservedByAll
SentIsStored == caller.pc = "end" /\ wire.flight = {} => \A m \in Ok : Count(m) > 0
LastBatchWins == wire.flight = {} => \A m, n \in Ok : m < n /\ Dest[m] = Dest[n] => LastAt(m) < LastAt(n)
Over == caller.pc = "end"
=============================================================================
