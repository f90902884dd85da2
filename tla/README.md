# A TLA+ development of cookie-cutter

[cookie-cutter](../src) is a TypeScript framework for event-driven services: an
*application* takes messages from an *input source*, hands each to a *handler*
that loads *states* and stores and publishes messages, and gives what the
handlers did to *output sinks*. Event-sourced stores accept an event only at
the sequence number its state was loaded at; a refused one (a
`SequenceConflictError`) makes the framework handle the message again.

What users rely on is hard to see in any one file and hard to test: a message
is acknowledged to its source only when what its handler did is durable, no
event is stored twice or out of order however often batches are split, retried
and handled anew, nothing is built on a state that never reached the store, no
message is lost between the loops, and nobody waits for ever. The modules here
model the parts of `packages/core` that have to bring this about, and the
adapters that connect it to brokers, stores and callers: what these promise to
core, and what they may rely on, through crashes, retries and lost answers.

Run everything from this directory: `tlc -config X.cfg M` checks a
configuration, `tlapm M.tla` checks the proofs of a module `M` (those whose name
ends in `Proofs`, and `SequenceLemmas`).

## 1. Inventory

All paths are below `src/packages`. JavaScript runs one callback at a time, so
a step of the models is the code between two points where it may wait; what
interleaves is the order in which awaited promises continue.

### core: the path of a message

| Component | State | Operations | Interacts with | What is hard | What makes it correct |
|---|---|---|---|---|---|
| `utils/BoundedPriorityQueue` | lanes, `total_count`, `whenNotEmpty`, `whenNotFull` per lane, `closed` | `enqueue`, `dequeue`, `iterate`, `update`, `close` | joins the three loops | promises are the condition variables: a woken caller runs later, when room or item may be gone | no lost wakeup, bounded lanes, priority then FIFO, close ends the iteration, what was accepted is delivered |
| `internal/processor/ConcurrentMessageProcessor` | the two queues, the batch, `reproContext`, in-flight signals, message metadata | input, processing and output loop, `evict`, shutdown | source, dispatcher, state provider, sink | three loops, conflicts while messages are queued behind, eviction by a rebalance, one loop failing | no message lost, acknowledged ⇒ stored, once and in order, built on what is stored, every message released, `evict` returns |
| `internal/processor/ReprocessingContext` | keys to drop from the cache | `wrap`, `evictions` | output loop, processing loop | drop exactly the states of what was set aside, once | (as above) |
| `internal/processor/RpcMessageProcessor` | as above, handlers run concurrently | `processingLoop`, back-off | `EpochStateProvider` | many handlers of one key at once, a failure among them | released also after a failure, no lost update |
| `internal/processor/SerialMessageProcessor` | one message | `run` | same | retries around the whole of load, handle and store | exactly once, in order |
| `internal/batching/*`, `internal/CompositeOutputSink` | what is stored and published so far | `sink`, `handle`, chunking, filters | store and publish sinks, retrier, `EpochManager` | part of a batch succeeds, halving after a failure, retries | acknowledged ⇒ stored and published, publish after store, guarantees of the sink kept |
| `defaults/InMemoryStateOutputSink` | streams | `sink` | sequence check | several items of one key in one call | refuses what was computed from another state |
| `defaults/CachingStateProvider` | LRU cache | `get`, `set`, `invalidate` | store, handlers | a load overlapping `invalidate` or `set` | the cache is never older than what was invalidated |
| `internal/EpochManager`, `EpochStateProvider` | epoch of each key | `get`, `invalidate`, `evict` | filter of the sink coordinator | epochs forgotten when the cache drops a key | a context on a refused state never passes |
| `utils/retry` | attempt | `retry`, `bail` | around handlers and sinks | retrying what was partly done | last attempt's error, `bail` stops |
| `internal/CompositeInputSource`, `utils/roundRobinIterators` | pending messages, sequence | `start`, `stop` | sources | fair merge, wait for what is pending | ends only after all are released |
| `utils/AsyncPipe` | one sender, one receiver | `send`, `throw`, `close`, `next` | most sources | every order of the four calls | each call is answered, each value delivered once |
| `internal/ApplicationBuilder` | lifecycle | `start`, `cancel`, `dispose` | all | SIGINT racing completion, time-out | disposal after release of what is in flight |
| `internal/BufferedDispatchContext` | buffered messages, loaded states | `store`, `publish`, `complete`, `clear` | handlers, cache | caches states before they are stored | (as `ConcurrentMessageProcessor`) |

The dispatchers, validators, encoders, loggers and configuration of core are
stateless conversions, reflection and formatting; what they can answer
is a nondeterministic outcome of a handler.

### The adapters

| Package | Stateful parts | What is hard | What makes it correct |
|---|---|---|---|
| kafka | consumer, offset manager, transactional sink | rebalance, commit of offsets released out of order, transactions | no offset of an unprocessed message is committed |
| azure | queues, dead letters, large items, Cosmos sinks and providers, deduper | visibility time-out, crash between two calls, bulk stored procedure | no message lost or taken for a duplicate, sequence check |
| redis | stream source and sink | consumer groups, reclaim of pending messages, acknowledgement | each entry is acknowledged after it is processed |
| amqp, gcp (Pub/Sub) | sources and sinks | acknowledgement on release, deliveries after `stop` | settled only when released (Pub/Sub: without an error), in order |
| grpc | input source, response streams, client with reconnect | back pressure, end of stream | each item written once, in order |
| kubernetes | watch and poll sources | reconnect | no event missed |
| mqtt | source with incoming queue | queue full, close | waits for room, confirmed when released |
| s3 | multipart uploader | parts finishing out of order, abort | the object has the parts in order |
| timer | timer source | re-arming while a tick is pending, stop | no overlapping ticks, stop ends |
| mssql | sink | one transaction per call | atomic |
| prometheus, statsd, core's buffered metrics | counters, histograms, an HTTP server | attempts that fail, scrapes at any time, disposal with open connections | a scrape counts every completed handling once |
| instana, jaeger, lightstep, proto, validatejs | exporters, conversions | – | not modelled: pure I/O or stateless |

`PROJECT.json` lists these components with their status, and the places where
the code is exposed to an ordering, a failure or a limit that a test would
hardly reach.

## 2. Modules

| Module | Models | Extends |
|---|---|---|
| `PriorityQueue` | what a bounded priority queue promises: put, get, refuse, shut | |
| `BoundedPriorityQueue` | `utils/BoundedPriorityQueue.ts`, `utils/Future.ts` | |
| `BoundedPriorityQueueProps` | its properties, its inductive invariant, the refinement mapping | `BoundedPriorityQueue`, an instance of `PriorityQueue` |
| `BoundedPriorityQueueProofs` | the proofs | `BoundedPriorityQueueProps`, `TLAPS` |
| `SequenceLemmas` | facts about sequences, finite sets and numbers that the proofs share | `TLAPS` and the library's theorems |
| `Batching` | `internal/batching/helper.ts`: chunks and filters, as operators | |

| `SinkCoordinator` | `CompositeOutputSink`, `SinkCoordinator`, `BatchHandler`, the retrier, `EpochManager`, the sequence check of `InMemoryStateOutputSink` | `Batching` |
| `SinkCoordinatorProps` | its properties | `SinkCoordinator` |
| `SinkCoordinatorProofs` | the proofs, of what chunks and filters do with any batch first | `SinkCoordinatorProps`, `SequenceLemmas` |
| `MessageProcessor` | `ConcurrentMessageProcessor` with `ReprocessingContext`, `BufferedDispatchContext`, `CachingStateProvider`, `CompositeInputSource`'s wait | |
| `MessageProcessorProps` | its properties | `MessageProcessor` |
| `MessageProcessorProofs` | its inductive invariant, the proofs | `MessageProcessorProps`, `SequenceLemmas` |
| `Pipeline` | what the next three have in common: messages, how they are released, another writer | |
| `RpcProcessor` | `RpcMessageProcessor` over `EpochStateProvider`: concurrent handlers of one key, reprocessing, errors | `Pipeline` |
| `SerialPipeline` | `CompositeInputSource`, `roundRobinIterators` and `SerialMessageProcessor`, from two sources to the store | `Pipeline` |
| `StateCache` | `CachingStateProvider`, `EpochStateProvider` and `EpochManager` in full, with several keys, sizes and ages | `Pipeline` |
| `Application` | `ApplicationBuilder`, `lifecycle`: initialization, run, signals, disposal | `Pipeline` |
| `MCPipeline` | the four as one specification, with their properties and an instance for TLC; which of them it is, is chosen at first | instances of the four |
| `PipelineProofs` | what is computed from what, the proofs about the four, and the theorems about `MCPipeline` | `MCPipeline`, `SequenceLemmas` |
| `Source` | what acknowledging sources have in common: what is held, its outcome, stop and failure | |
| `KafkaSource` | `KafkaConsumer`, `OffsetManager`, `KafkaSource` | `Source` |
| `RedisStreamSource` | `RedisStreamSource` and the commands of `RedisClient` it uses | `Source` |
| `PushSources` | `AmqpSource`, `PubSubSource`, `MqttSource` | `Source` |
| `AzureQueueSource` | `QueueInputSource`, `QueueClientWithLargeItemSupport`, `QueueClient` | `Source` |
| `Sources` | the four kinds of sources as one specification: which adapter is chosen at first, and the properties, stated once for all | instances of the four |
| `SourcesProofs` | the proofs | `Sources`, `SequenceLemmas` |
| `Conversation` | what adapters that answer or follow somebody have in common | |
| `AsyncPipe` | `utils/AsyncPipe.ts`, as operators on a pipe | |
| `GrpcStream` | a streaming gRPC method from handler to client | `Conversation`, `AsyncPipe` |
| `UnaryCalls` | unary gRPC calls with the client's retries; the Kubernetes admission controller | `Conversation` |
| `IntervalSource` | `packages/timer` | `Conversation`, `AsyncPipe` |
| `KubernetesSources` | the watch and the poll source | `Conversation` |
| `Metrics` | `BufferedMetrics`, `packages/prometheus`, `packages/statsd` | `Conversation` |
| `CallsProofs` | the proofs about the pipe and the five, and the theorems about `MCCalls` | `MCCalls`, `SequenceLemmas` |
| `Storage` | what writers to a service have in common: requests, faults | |
| `Sinks` | the sinks of kafka, redis, azure queues, gcp, s3, amqp, mqtt, mssql | `Storage` |
| `CosmosStore` | `packages/azure`: Cosmos sinks, providers, deduper, stored procedures, snapshots in blobs | `Storage` |
| `MultipartUpload` | `MultipartUploader` | `Storage` |
| `StorageAdapters` | the three as one specification, as `Sources`: which adapter is chosen at first, and the properties, stated once for all | instances of the three |
| `StorageProofs` | the proofs | `StorageAdapters`, `SequenceLemmas` |
| `MC…` | instances for TLC; `MCCalls` also composes, as `Sources`, `StorageAdapters` and `MCPipeline` do | |

The detailed modules fit together like this. `MessageProcessor` uses two
queues with the steps of `PriorityQueue`, which is what `BoundedPriorityQueue`
is shown to implement; and one call of the sink is one step of it, which does
what `SinkCoordinator` does step by step for a store sink that is `Atomic` and
has no `maxBatchSize`. `RpcProcessor` and `StateCache` split one subject:
the first has the loops, one key, and says of an epoch only whether it is the
current one; the second has the cache itself and epochs as numbers. The sources
assume of core what the processors' properties say (a message is released when
what it led to is stored; in order, except in RPC mode), and promise what core
assumes of them. `Sinks` and `CosmosStore` are the sinks that
`SinkCoordinator` calls, seen from the other side. Definitions whose comment says *mutant* are not part of
a model: each is an operator changed the way a bug would, and replacing the
operator by it must break the property `PROJECT.json` names.

### BoundedPriorityQueue

`queues`, `known` (which lanes the `queues` map has), `whenNotFull`,
`whenNotEmpty`, `total_count` and `closed` are the fields of the class. A
`Future` is the state of the promise and the callers parked on it, `absent`
when the map has none. `writer` and `reader` are the callers: ready, parked on
a Future, or woken by it and not yet run. `delivered` and `refused` record what
`dequeue` returned and what `enqueue` answered `false` to. The actions are the
synchronous segments of the code: `Enqueue` (a call up to its return or first
`await`), `Resume…` (from a resolved `await` on), `Dequeue`, `Close`. The loops
of `enqueue` and `dequeue` are there: a woken writer that finds its place taken
parks again.

`update(fn)` changes the items and not the queue; `MessageProcessor` has it as
part of `Evict`. Capacity 0 is left out: no `enqueue` would ever succeed.

### SinkCoordinator

A behaviour is one `dispatchToSink`. `Init` chooses the sinks' guarantees, what
each handler of the batch stored, loaded and published, whether it ran
concurrently with its predecessor (`branch`) or on a state loaded in an old
epoch (`stale`), and what other processes appended to the partitions
meanwhile. `Base` computes the sequence number each handler saw. `frame` is the
`BatchHandler.handle` call in progress: which contexts, in which chunks, how
many completed, and `done`, those completed in the calls it recursed from. The
recursion itself replaces the frame (`Halved`), as it is a tail call.

Actions: `Handle` (filter, start storing), `SinkChunk` (one successful call of
a sink), `Conflict` (the store's sequence check fails), `Fault` (a sink call
fails for another reason, before it wrote anything), `Finish` (all chunks are
through, publish or return). `Throw` is the retrier: `bail` and the last
attempt end it, otherwise `handle` starts again with the same batch.

Not modelled: a sink that fails after it wrote part of a call (the sink's own
guarantee forbids it where it is `Atomic` or `AtomicPerPartition`), metrics,
tracing, and the release of single messages through `handlerResult`.

### MessageProcessor

`inLoop`, `proc` and `out` are the program counters and locals of the three
loops, `lanes` and `output` the queues, `cache` the state cache, `repros` the
`ReprocessingContext`s and `reproOf` the reference to one in each message's
metadata, `signals` the in-flight signals, `released` what each message was
released with. A *state* is the sequence of messages whose events it was
computed from: a sequence number alone would not tell a state computed from
events that were refused from one of the same length that is in the store.

| Code | Actions |
|---|---|
| `inputLoop` | `Receive`, `ResumeReceive`, `SourceEnds`, `CloseInput` |
| `evict` | `Evict`, `EvictReturns` |
| `processingLoop`, `handleInput` | `Take`, `Handle`, `HandleNothing`, `HandlerThrows`, `Offer`, `ProcessingEnds` |
| `outputLoop` | `TakeOutput`, `Skip`, `Lingered`, `SinkBatch`, `Conflict`, `PutBack`, `SinkRetries`, `SinkFails`, `OutputEnds` |
| `run` | `RunFails`, `Over` |
| another process | `OtherStores` |

What a reader should know of this model:

- Every handler loads the state of one key and stores at most one event to it.
  More per message is `SinkCoordinator`'s subject.
- `Kept` is the search of `BatchHandler` for the conflicting context in closed
  form. It includes the case in which contexts without an event put the count
  out of step.
- `Settled` is an assumption: when a handler has to wait for I/O, to load a
  state that is not cached, the output loop gets on with what it can do without
  waiting. In Node.js the microtasks it has queued run before any I/O
  completes. Nothing in the code enforces it and correctness rests on it:
  with `Settled` replaced by `TRUE`, `MCMessageProcessor.cfg` violates
  `BuildsOnStored` and `StoredOnceInOrder`, because a message that came after the conflict loads the
  current state and overtakes the ones that are put back.
- `Limit` bounds the length of a state: a state of more events than there can
  be conflicts whatever it contains.
- `Init` chooses one of the `Settings`: whether an error fails the application,
  how many states the cache drops, and which messages the source may evict.
- The health check, the `queueFull` modes and metrics are left out.

### RPC, serial, cache, application

`queue` is the queue in question, `work` the handlers or contexts, `state` the
cache and the epochs, `store` the events, `released` the outcome of each
message. A state is again the sequence of messages it was computed from.

- `RpcProcessor`: a handler is *sleeping*, *loading*, *handling* or *waiting
  for the sink*; `Receive`, `Dequeue` and `Break` are the loops, `Output` one
  batch through the filter and the store. A handler that fails makes the loop
  drop the message it dequeued next, as the code does. The queues it closes then
  go on taking what has room: contexts are stored until the output queue is
  found empty (`OutputEnds`) and stay in it afterwards, messages are received and
  put back and stay in the input queue.
- `StateCache`: get of an expired item and an insertion into a full cache drop
  an item, which takes its key's epoch with it (`EpochManager.evict`);
  `invalidate` does not. A load is two steps, so that two handlers of a key
  overlap. `forgot` remembers the keys whose raised epoch was reset.
- `SerialPipeline`: two pumps into a queue of one place, which the first or
  the last source that ends closes, and which takes an item afterwards if it is
  empty; the deduper; sequence numbers; one message at a time.
- `Application`: components are *new*, *ready* or *disposed*; the order is that
  of the code (tracing, metrics, state, sink, source, registry; disposal by a
  chain of `&&`), with a failure in any place, a run, `SIGINT`, the time-out.

### Sources

`broker` is the service, `client` the adapter, `held` the messages it has
yielded and the application has not released, `outcome` what each was released
with. Which messages are *settled* (committed, acknowledged, deleted) and
*answered* (released, or known not to be a message) is defined for each, and
the properties relate the two.

- Kafka: the group's coordinator, generations, assignments with and without
  rewinding, seeking, batches, the offset manager, timed commits, refusals of
  commits of an old generation, and the eviction that is started on a join. The
  exit on stale broker metadata counts as a crash.
- Redis: the pending list of the group, own and foreign entries, the interleaving of
  reading and claiming, entries without data that are acknowledged on the way.
- AMQP, Pub/Sub, MQTT: deliveries up to the flow control, a bounded local queue,
  leases that end, channels that close, acknowledgements that get lost. Nothing cancels
  AMQP's consumer before `dispose`: after `stop` its closed queue takes
  messages while it has room, which are handled and acknowledged, and the iteration ends
  once it finds the queue empty. What the queue refuses stays leased.
- Azure queues: visibility, pop receipts, dead letters, blobs of large items, reads
  that fail, which end the source.

### Streams, calls, timers, watches, metrics

`peer` is who calls or is followed, `channel` what is between, `app` the
application. `AsyncPipe` has the four calls as operators, with every order of
them; the promise of a call is the field it sits in. gRPC streams are two pipes
and a wire in a row, with back pressure, cancellation and disposal; unary calls
have attempts, deadlines and a server that may be gone. A request that comes after
`stop()` (which leaves the gRPC server running, and kept-alive connections of the
admission controller) is taken by the closed queue if there is room, and answered if the
iteration still gets it; else it is `Stranded`, and `tryShutdown` in `dispose` waits for its deadline.
A watch may end while chained enqueues wait; they go on beside those of the next watch. In `Metrics` a label set
is one label value, `""` standing for a label that is dropped; a scrape may read
the registry in any state and is not an action.

### Sinks, Cosmos DB, uploads

`stored` is what the service has, `caller` the sink, `wire` requests under way
and transactions, `told` what the caller was told. A request that fails may have
had its effect, all of it or part of it where the service allows. The instances
of `CosmosStore` are two applications that receive the same inputs,
dedupe, load (from a snapshot and what follows it), store and crash. Stored
procedures are one step, as Cosmos DB runs them in a transaction. `Verifications` says
which inputs come with the verification of a state they only loaded. A call stores to one state, in
one request. For S3 what cannot be encoded fails among the other puts (`SendAll`), for the
others that format first, before any.

## 3. Properties and runs

| Run | Instance | What it shows |
|---|---|---|
| `queue` (`MCBoundedPriorityQueue.cfg`) | 2 writers with up to 3 calls each on 2 lanes of capacity 2, 1 reader, a close at any time | no caller is parked without someone bound to wake it (`NoStrandedWriter`, `NoStrandedReader`), the queue implements `PriorityQueue`, and under fairness what was accepted at an open queue is delivered, a parked `enqueue` is answered, and the iteration ends after `close` |
| `sink` (`MCSinkCoordinator.cfg`) | batches of 3 contexts of 9 kinds, store sinks `Atomic` and `AtomicPerPartition` (batches of 2), publish sinks `AtomicPerPartition` and `None`, 2 attempts, 2 failures, 1 foreign event per partition | acknowledged contexts are stored, nothing is stored twice or out of order, states that were only loaded are verified, publishing follows storing, chunks honour the sink's guarantees, what is handled anew has been invalidated, and, where no context is cut and no call fails of itself, left nothing behind |
| `processor` (`MCMessageProcessor.cfg`) | 4 messages on 2 keys with a cache, batches of up to 3, input queue 3, output queue 2, 1 foreign event; either one state is dropped from the cache, or any set of messages is evicted at any time | no message lost or doubled between the places it can be in, stored once and in order, computed from exactly what is stored before it; evicted messages that were queued are not handled; `evict` returns |
| `processor_errors` (`_Errors`) | error handling "fail" and "continue", 1 handler and 1 sink failure, 1 foreign event | wherever the loops stop, what was acknowledged is stored; with "continue" every message is released, whatever conflicts and failures it meets |
| `pipeline` (`MCPipeline.cfg`) | 3 messages; 2 handlers at once, queues and batches of 2, 1 foreign event, 1 failing handler; a cache of 1 state for 2 keys, 1 expiry, 3 epochs | every event is stored once, on the state it was computed from, and its message alone is released as handled; in serial mode also duplicates are released; components are used while they are ready, and every application exits (`HandledOnItsState`, `EveryMessageIsOver`) |
| `sources` (`MCSources.cfg`) | 3 messages (Kafka: 2 partitions), batches, queues and flow control of 1 or 2, 2 faults, 2 start strategies | what is settled was answered by the application, what is yielded in order leaves no gap, no rebalance or reconnect takes a settlement back, and every message is settled in the end or the source stops |
| `calls` (`MCCalls.cfg`) | streams of 3 chunks, 3 unary calls with 1 retry, 3 ticks, 2 objects with 2 versions, 2 scrapers, up to 3 faults | streams are whole and in order, a caller is told what its handler did and a scrape what handlers did, every call, iteration and disposal ends, but for requests stranded in a closed queue |
| `storage` (`MCStorage.cfg`) | 10 kinds of sinks with 2 batches, 1 retry, 2 faults and messages that cannot be formatted; 2 Cosmos instances with 2 inputs, snapshots of 2 writers, 2 faults; uploads of 3 parts | what a caller was told is written is; transactions and inputs are written whole, once and in order; states, past states and snapshots are made of just the events up to their number; every batch and input is answered |
| `sink_unpublished`, `processor_leftovers`, `processor_evicted`, `pipeline_epochs` | | disagreements, section 5 |

### Bounds

The defaults in `config.ts` are queues of 5000 messages and batches of 50 to
1000. The instances keep the proportions that matter: batches smaller than, as
large as and larger than what is queued; an output queue that fills while a
batch is sunk; an input queue that the messages put back can fill; a partition
with several messages and one with a single message, so that contexts of
another key stand between two of the same key. Three contexts are the fewest
in which a halved batch has something before, in and after the half that
fails; four messages the fewest in which a conflict occurs behind another while
messages queue up. One foreign event makes one conflict; with two
(`MaxExternal = 2`, two million states) the run `processor` passes, too. The queue needs two writers on one lane to
have a woken writer find its place taken; the proofs cover every size.

In the other runs `MaxFaults` bounds failures: two are enough to have one hit
the recovery from another. `MaxReads` bounds how often an Azure message is
read, `MaxEpoch` the conflicts of a key, `Versions` the changes of an object.
A cache of one state is the one that drops most. Two instances and two
snapshot writers are the fewest that race; two partitions the fewest of which
one moves and the other stays.

Deadlock is checked in the runs of the sink coordinator and the processor: the
only states in which nothing happens are those in which `sink()` or `run()` is
over. The other runs say `CHECK_DEADLOCK FALSE` because they may really stop: callers stop calling,
sources are stopped, a batch is the last one.
A batch larger than the input queue is left out of the processor: with
`maximumBatchSize > inputQueueCapacity` the output loop can wait for room for
the messages it puts back while the processing loop waits for room in the
output queue, and TLC reports the deadlock. The defaults are far from it.

### Fairness

`queue`: a promise that is resolved continues its waiters, so each `Resume`
is weakly fair for each caller, and the reader iterates: it calls `dequeue`
again. Nobody is obliged to enqueue or to close.

`processor`, `processor_errors`: each loop continues whenever it can
(`WF` of its next step), since every `await` in it is of a promise that another
step resolves, a handler or a sink call. That handlers, sinks and loads return
is assumed. The source need neither yield nor end, and no failure, eviction or
foreign event has to happen.

`pipeline`: `WF` of each loop, each handler and each pump, for the same reason.
In RPC mode this does not suffice: handlers of one key can invalidate each
other for ever, and only random sleeps part them. `EveryMessageIsOver` therefore
assumes `SleepsLongEnough`, that sleeps do not end for ever while another
message is under way. Of the cache alone no liveness is claimed: its bound on
epochs would cut it off.

`sources`: `WF` of the client's next step, of the application releasing what it
was handed, of the broker answering, and of time passing (leases and idle times
end, timers come due). `calls`: the wire delivers, settled promises continue,
the application releases; it need not send, close or stop. `storage`: requests
are answered, callers go on, the retrier calls again. No strong fairness is used
anywhere, and no fault has to happen.

## 4. Proofs

`BoundedPriorityQueueProofs` proves, for every set of writers, every capacity
of at least 1 (`CapacityAssumption`) and every bound of calls
(`MaxCallsAssumption`), with one reader (`OneReader`):

- `TypeCorrect`, `CountCorrect`, `WriterNotStranded`, `ReaderNotStranded`: the
  safety invariants of the run `queue` and the one on the counter that they need;
- `Refinement`: the queue implements `PriorityQueue`.

All follow from `Safety`, that `Inv` is an invariant:

    Inv == TypeOK /\ CountMatches /\ FuturesMatch /\ NoStrandedWriter /\ NoStrandedReader

None of the wakeup invariants is inductive alone. `dequeue` wakes writers only
when a lane goes from full to one below; that this reaches every parked writer
needs `FuturesMatch` (they wait on the Future which is in the map, and a
resolved one has no waiters) and the bound on the lanes. `enqueue` wakes the
reader only when `total_count` becomes 1; that this is the first item needs
`CountMatches`. The lemmas say what a step does to a lane and to a Future; the
proof that a step preserves `Inv` has one part per action, and under it one per
conjunct the action can disturb. The refinement uses `Inv` for one thing: an
item is taken from the lane that the abstract queue would take it from, because
a lane that is not in the map is empty.

`OneReader` is necessary, not a convenience. With two readers the second to
resume replaces `whenNotEmpty` and the first stays parked on a Future that
nobody resolves. Each queue of the processors is iterated by one loop.

### Chunks and filters

The first part of `SinkCoordinatorProofs` proves `ChunksKeepAll`: for any contexts, items, guarantees and
sizes, the chunks a sink is called with hold the items, each once and in order;
none is larger than the size, and those for an `AtomicPerPartition` sink are of
one partition each. The generator of `helper.ts` is a recursive function over
the containers and, in each, over its groups; the invariant of both recursions is
that the chunks yielded, followed by the batch being filled, are the items taken
so far. `LinearOrder` says of the filter what the store rests on: of two contexts that
pass it with events for one partition, the later one's state includes the events
of the earlier one.

Induction is stated with sets: what holds of 0 and, with every number, of the next
one, holds of all (`Induction`, `BoundedInduction`, `SequenceInduction` in
`SequenceLemmas`), so that a recursive function is proved about without a theorem that
takes an operator.

### SinkCoordinator

`SinkCoordinatorProofs` proves all nine invariants of the run `sink`, for every
number of contexts and partitions, what each context stores, loads and
publishes, any guarantees of the sinks, any number of attempts, failures and
foreign events (`SinkAssumption` only says that these constants have their
types, that partitions are finitely many, and that there is at least one
attempt). The invariants rest on `SinkInv`:

- `Types`, `TypeOK` in more detail, and `Shaped`: what a frame has yet to give its sink are
  the items of the contexts from the first not completed to the last one of the frame, in
  their order, in chunks that honour the guarantees. Halving keeps it, which is the proof that no
  context is skipped or given twice.
- `Placed`: an event of a context is behind those its state was computed
  from, by no more than the context stored. The sequence check gives it, and with
  `LinearOrder` it is why events are in the order of their contexts and none is
  there twice (`OnceInOrder`), whatever was retried; nothing about the search is needed for that.
- `Storing`: the events of a context that passed the filter and those it has yet to
  add are as many as it stored. Hence whatever has passed is stored
  (`AllAcknowledgedIsStored`), and what is published follows what is stored.
- `Settled`, `Partial`, `Gone`, `Concluded` carry this from the store to publishing and to the
  outcome, with what only the last one knows: that keys of contexts to be handled anew
  were invalidated, and that a state which was only loaded was current when it
  was verified (`AllVerifiedIsCurrent`).

Two more invariants stand on it. `PublishInv`, for serial handlers and no failing call: the filter
lets all contexts pass (`SerialPasses`, from a formula for the sequence number
each context saw), and what is sent and still to be sent of a context is all it published. `AbsentInv`,
for contexts of one item and no failing call: what is pending is exactly what follows the last event
stored, so that nothing of a context to be handled anew is in the store. TLC refuted an earlier form of the
condition `NoneIsCut` when the proof asked for it (section 5).

### Sources

`SourcesProofs` proves `TypeOK`, `SettledIsAnswered`, `NothingPassedOver` and
`SettledStaysSettled` for any number of messages, partitions, copies, places, reads and
faults, and all four kinds of adapters. `SourcesAssumption` and
`AdaptersAssumption` are types of constants. The theorems assume that the application
releases the messages of a Kafka partition in order (`ReleasesInOrder`), or that there is no
Kafka source: with a processor that does not, `SettledIsAnswered` is
violated (section 5).

- `AzureInv`, `RedisInv`: a message that waits to be deleted or acknowledged was released as
  processed, or dead-lettered as rejected. That is what an acknowledgement that
  arrives late, after the lease ended and another consumer got the message, needs.
- `PushInv`: what a source with a queue keeps is one line of messages: handed out, queued,
  parked. For AMQP and MQTT it is ascending, below what the broker has still to deliver, and nothing
  before a message in it is missing, but what AMQP's queue refused at `stop`. A message is at the broker in one place.
- `KafkaInv`: everything before the offset that is handed out next is answered or handed out; everything before
  a copy is answered or handed out before it; what is tracked and what is committed has only
  answered offsets before it. Copies of an earlier generation do not count: `Now`.
  `KafkaPosition` adds that while a generation lasts nobody else commits, so that our commit never takes the position back.

### MessageProcessor

`MessageProcessorProofs` proves, for any number of messages, any assignment of keys, all sizes of
queues and batches, any settings, failures and foreign events (`SizesAssumption` only says that
the constants have their types and that queues and batches have a place): `TypeOK`; that no message
is ever in two places (`NoneDoubled`); `NoneLost` unless an error fails the application;
`AcknowledgedIsStored`; and, as long as no handler and no sink has failed of itself, `EvictedIsNotStored`
and, as long as what is put back has room, `StoredOnceInOrder`. Apart from the room, the conditions are those of the runs that
check these properties, and section 5 says what happens without them. All but the last follow from `ProcessorInv`:

    ProcessorInv == Types /\ Placed /\ Continued /\ AcknowledgedIsStored /\ Unstored

- `Types` is `TypeOK` in more detail. `SignalTypes` is the part that needs an argument: a signal that is not
  resolved belongs to a context on its way, so that a message taken from the queue can be given one.
- `Placed` counts: `At(m)` is how often a message is in the lanes, the output queue, the batch and
  the hands of a loop, and is 1 at most, 0 before the message is received. Every step is shown to be of one form (`PlacesStep`):
  some messages leave all places, and the others keep their count (`Leave`).
- `Continued`: unless an error fails the application, the messages that leave are those that are
  released (`Let`), so that one that is not released is in a place. This needs that a queue is
  closed only when all has been released: `PutBack` on a queue that is closed and full gives up a message it
  does not release.
- `AcknowledgedIsStored` is inductive with the types: what the search of `BatchHandler` takes for
  processed, the first `Kept` contexts, has its events among the first `Kept` that are stored, because events are in
  the order of the contexts (`StoredProperties`), and the search never goes beyond what the store took (`KeptProperties`).
- `Unstored`: without failures, nothing is stored of what is in a place, or yet to be received, and a message that was evicted
  in the queue is nowhere but in the queue. An event that is stored is that of a context that
  leaves the batch in the same step (`NewlyStored`).

`StoredOnceInOrder` needs a second invariant, of where the messages are while nothing fails (`OrderInv`):

    Ordered == StoredOnceInOrder /\ InBounds /\ Waiting /\ Fits /\ Shape

Read from the sink back, the messages in the batch, the output queue, the hands of the processing loop, the high lane, the
low lane and the hands of the input loop are one line (`LineOf`) of messages that go up and follow all that is stored
(`Follows`). While nothing is put back, the line is `Straight`: every step passes the head of one part to the end of the
one before it, which leaves the line the same (`LineMoves`), drops a message from it (`LineWithout`), adds the next one
at its end (`LineEnds`) or stores its first ones (`LineStores`). A conflict turns it: what was between the sink and
the lane is put back behind what is in the high lane already (`Turned`), until the message the conflict was reported of
is the next to be handled (`Back`). It drops its key's state when it is taken, must wait for I/O, and meanwhile all the
rest is put back (`Settled`); then the line is straight again, and the output loop waits for the one context that
is now its first. Until then nothing is stored (`Waiting`). If the message is evicted while it waits, nothing is stored
ever after (`Gone`), which is the observation on evictions in section 5.

"All the rest is put back" needs room in the high lane whenever a message is handled meanwhile, which is
what the theorem assumes:

    PutBackHasRoom == proc.pc = "dispatch" /\ out.pc \in {"skip", "requeue"} => Room("high")

With the defaults (`ApplicationBuilder.ts:453`) this is so unless 5000 contexts that were put back wait in
the lane. It is so whatever happens if `RoomToPutBack`, that a batch and a full output queue fit in the lane
or all messages but one do: `Fits` bounds what is between the low lane and the sink by
`MaxBatch + OutputCapacity + 1`, because the high lane is empty whenever a message is taken from the low one. The
instance checked has the latter. Without either the property is false of the model, which leaves open how soon an enqueue that waits
for room is continued (section 5).

`BuildsOnStored` is not proved. It relates what every context on its way was computed from to the line before it and to the
cache, until an eviction.

### RPC, serial processing, state cache, life of an application

`PipelineProofs` proves `TypeOK` and `HandledOnItsState` of `MCPipeline` for any number of messages, any
assignment of keys, any number of handlers in parallel, all sizes of queues, batches and the cache, any failures,
foreign events and expiries, and any bound on epochs. `SizesAssumption` only says that the constants have their
types and that sizes are not 0. It holds before and after a handler failed the application. `HandledOnItsState` needs one thing more if the processor is the RPC one:
`Parallel <= OutputCapacity`, that the output queue has room for what all handlers leave. Without it TLC finds
the property violated (section 5); the defaults are 500 handlers and 5000 places
(`core/src/internal/ApplicationBuilder.ts:453`).

All of it is about what a state was computed from, and one predicate carries it through the three
components that keep a state:

    Built(s, st, pending)

says that each event of the state `s` is at its place in the store `st`, or is pending: it is that of a
context still to be stored, which was itself computed from just the events before it in `s`. It is kept when an
event is appended that becomes pending (`BuiltAppend`: a handler completes) and when the store grows or what is
pending first is stored (`BuiltGrows`, `BuiltStays`). What comes first has nothing pending before it: its state is what
the store begins with (`BuiltIsPrefix`), and comparing lengths, as sequence numbers do, tells whether it is all of the store.

- `RpcInv` (`RpcProcessor`): `RpcBuilt` says that what is cached, loaded or given to a handler is built on the
  contexts of the present epoch in the line for the sink, and each of these on those before it. The line is the batch before
  the output queue; contexts of it that are to be put back are of an epoch gone by (`RpcLine`). So the line has to be in the order in
  which the states were cached. A handler that waits for a place in the output queue would break that: its state is cached already, and
  others overtake it. This is where `Parallel <= OutputCapacity` enters: `RpcSignals` says that what is in the
  output queue or under way has one of the `Parallel` signals in flight, so that none ever waits (`RpcQueued`).
- `CacheInv` (`StateCache`): the same with epochs as numbers, for each key of which no raised epoch was
  forgotten (`CacheBuilt`). `Sink` is the hard step: it stores the good ones among the first contexts, of several
  keys, and raises the epochs of the keys of the others. `SinkLands` shows for a key that those which are stored land one
  behind the other, each where its state ends, and what is queued of a key whose epoch was raised is
  no longer `Queued` for it.
- `SerialInv` (`SerialPipeline`): a message is in one place only, parked at its pump, in the merging queue or handled
  (`SerialPlaces`), and what is cached or handled was stored (`SerialStored`, with nothing pending).
- `AppInv` (`Application`): the phases come in order, and which components are ready or disposed of is
  what the phase and its index say (`AppPhases`).

### Streams, calls, timers, watches, metrics

`CallsProofs` proves the safety of `MCCalls`: `TypeOK`, `StreamIsWhole` and `ToldAsItIs`, for any number of
chunks, retries, ticks, versions, scrapers and failures, any sizes of queues, and any finitely many objects
(`SizesAssumption`, `ObjectsAssumption`). A call is one of the three messages whose amount, label and buckets `MCCalls` fixes
(`CallsAssumption`): of unary calls and metrics the theorems are about any set of those. First come
lemmas on the operators of `AsyncPipe`: what each leaves in each field of a pipe. The rest is an invariant for each adapter:

- `StreamInv`: as long as no chunk met a full buffer, what is on its way, from what the client was yielded over the pipe in
  front of it, the wire and the handler's pipe to the chunk that is sent next, is in order (`AllInOrder`), and no
  write is to be repeated. For a client that keeps up `KeptUp` says more. Its pipe never holds a value
  back; the chunks are numbered without a gap along the whole way, unless the call was cancelled, and
  then the cancellation is next on the wire (`Underway`); and once the end has arrived, it came behind all chunks (`Ended`). The end
  is what makes it delicate: `close` of a pipe drops what waits in it, so that the end may only be put
  on the wire when nothing waits.
- `UnaryInv`: a request is in one place, in the queue, parked in front of it or with the application, and
  `Within`: of each caller, the runs of its handler and the requests held add up to no more than it sent. A
  parked request implies a full queue, and a result implies a run.
- `IntervalInv`: there is a tick with the application, one in the pipe, or a timer that is set, but only one of these.
  `OnTimer` and `Released` hand it on, and after a stop there is no timer to set.
- `KubeInv`: the events a poll found are about different objects, and those that are not about new ones are about
  objects of the cache. While the application is busy with the first event, what it was told is what the cache will be once the
  event is remembered; otherwise it is the cache (`PollInv`).
- `MetricsInv`: the report of Prometheus counts what handlers completed. That of StatsD will, once it has
  recorded what waits, in order, unless a datagram was lost (`Shown`). The model sums over a
  set of messages with a fold, whose value depends on the order in which `CHOOSE` takes the elements; `Total` is that function,
  shown to exist and to be unique by induction over the size of the set. What a change of one summand does to it (`TotalAdds`)
  is all that the counters, counts, sums and buckets need.

### Sinks, Cosmos DB, uploads

`StorageProofs` proves `OkIsStored`, `WrittenWhole` and `LoadedIsPrefix` for any kinds of sinks, batches, destinations and
messages that cannot be formatted; any instances and their inputs, and any number of snapshot writers; any number of
parts, retries, attempts and failures. The assumptions are types of constants, and
`BatchesAssumption`, that messages are numbered in the order in which they are given to the sink, which is
how a message is told from another. `OkIsStored` excepts an input of the materialized sink whose last item is a
verification: that one is not stored (section 5).

- `SinkInv`: while a batch is sent, every message of it has been written, is under way or is left
  (`SinkStored`). In a transaction each is so just once (`SinkWhole`), so that a commit adds all of a batch or
  of none, and no message of a batch more often than another, however often it is given to the sink again. `SinkOrdered` is about messages of one destination, and not about
  each message's first write: it says that a message is *last* written after every one before it. A batch
  that is sent again writes earlier messages behind later ones, and ends with the later ones behind them
  again. It needs that the requests of a batch, one after the other, keep
  the order of each destination (`RequestsProperties`).
  `SinkDeserved` counts: each attempt but the present one cost a failure, so a batch fails for more failures than retries.
- `CosmosInv`: what an instance has loaded, what a request under way replaces or adds to and what a
  snapshot writer read is part of the events of the store, and stays so, as events are only added. That is all
  `LoadedIsPrefix` needs. For the list of snapshots it says only that an entry of it is of a snapshot that
  was written: a list that is lost to another writer loses entries, and those are not missed.
- `CosmosWrittenInv`: of whatever is stored of an input, all is, and so are the inputs before it (`CosmosDataOK`).
  In an event store whose requests do not outlive their caller, an instance that is past its deduper has
  nothing of its input in the store (`CosmosOnceCaller`), so that what it adds is there once; that no request is executed
  late is what separates `WholeInTime` from `StoredOnce` (section 5).
- `UploadInv`: each part is to do, under way or finished, and in one of these only
  (`UploadPlaces`), so that an upload that completes has all of them. Those sent one after the other are also
  finished and numbered in their order (`UploadOrdered`), which is what S3 demands.

### What is only model-checked

Liveness and fairness, which are beyond the prover; the action property `BuildsOnStored` of
`MessageProcessor`, as said there. Every other invariant and action property of the runs is a theorem. Recursive
functions are proved about, as above; no theorem uses the library's induction rules that take an
operator.

## 5. Where the code and its documentation disagree

Four runs show the code doing something else than a comment or a document
next to it says (`PROJECT.json`, "findings"):

- `sink_unpublished`: when contexts are filtered out of a batch, those before
  them are stored, released as processed and not published, although the
  comment at `core/src/internal/batching/SinkCoordinator.ts:135` says
  publishes are processed before bailing.
- `processor_leftovers`: after a handler fails the application, the messages
  left in the input queue are not released; the loop meant to do it
  (`core/src/internal/processor/ConcurrentMessageProcessor.ts:216`) is not
  reached.
- `processor_evicted`: `evict` awaits signals that are resolved before their
  contexts are sunk, so evicted messages can be stored after it returned.
- `pipeline_epochs`: when the cache drops a state, its key's epoch restarts at 1
  (`core/src/internal/EpochManager.ts:29`). A handler that still computes on a
  state of the first epoch, which was refused since, then passes the filter of
  `core/src/internal/batching/helper.ts:108`, which is to discard it, and its
  sequence number may fit. It takes a conflict and an eviction of one key while
  a handler of it runs.

More of them need no run of their own, as no document says otherwise: change
the configuration named as the second column says and check the property in the
third alone; TLC finds it violated. Each is why a property above has a condition.

| Configuration | Changes | Property | What happens |
|---|---|---|---|
| `MCSinkCoordinator` | `Plan <- SerialPlans`, `StoreSinks <- OnlyAtomic`, `PublishSinks <- OnlyPartitioned`, `MaxAttempts = 1`, `MaxFaults = 0` | `HandledAnewIsAbsent` | Halving cuts a context of an `Atomic` sink in two: its first half is stored when the second conflicts, and is handled anew. Hence `NoneIsCut`. |
| `MCSinkCoordinator` | `Plan <- OnlyTriple`, `Contexts = 1`, `StoreSinks <- OnlyPartitioned`, `External = 0`, `MaxFaults = 0` | `HandledAnewIsAbsent` | A context that stores more in one partition than a call of an `AtomicPerPartition` sink takes is cut, too: all its items carry the sequence number of the load, so that its second part conflicts with its first, which stays stored when the context is handled anew. `NoneIsCut` therefore asks for one item per context, whatever the sink. |
| `MCSinkCoordinator` | `Plan <- WithSilent`, `StoreSinks <- OnlyPartitioned`, `PublishSinks <- OnlyPartitioned`, `MaxAttempts = 1`, `MaxFaults = 0` | `HandledAnewIsAbsent` | A context without items completes in no chunk, the count of completed contexts (`BatchHandler.ts:36`) is out of step, and stored contexts are handled anew. |
| `MCSinkCoordinator` | `Plan <- OnlySingle`, `Contexts = 2`, `StoreSinks <- OnlyAtomic`, `PublishSinks <- OnlyPartitioned`, `External = 0` | `HandledAnewIsAbsent` | The retrier gives a batch to the sink again after it was stored and its publishing failed; the sink refuses it and it is handled anew. Hence `faults = 0`, and no failures in the run with `StoredOnceInOrder` of the processor. |
| `MCSinkCoordinator` | `Plan <- MixedPlans`, `Contexts = 2`, `StoreSinks <- OnlyAtomic`, `PublishSinks <- OnlyPlain`, `MaxFaults = 0` | `LoadedIsCurrent` | `InMemoryStateOutputSink.ts:30` counts what follows in one call per uniqueId: with concurrent handlers a state outdated within the batch is taken for current. Hence `Serial`. |
| `MCMessageProcessor` | `Messages = 3`, `MaxBatch = 2`, `Settings <- EvictsOnly` | `EveryMessageReleased` | The message the output loop waits for is evicted while it is queued again: it never comes, and all later contexts are skipped and put back for ever. Hence no evictions in `processor_errors`. |
| `MCMessageProcessor` | `MaxBatch = 2`, `Settings <- GoesOn`, `MaxSinkFaults = 1` | `BuildsOnStored` | After a sink failed for good with "continue", the states its contexts computed stay in the cache, and with a foreign event in their place what is stored next is computed from events that were not. Hence no failures in `processor`. |
| `MCMessageProcessor` | `Messages = 6`, `KeyOf <- OneKey`, `InputCapacity = 2`, `MaxBatch = 2`, `Settings <- FailsOnly`, `MaxHandlerFaults = 1`, `MaxExternal = 2` | `NoneLost` | If the closed input queue refuses a context to be put back, the loop releases the message of another (`ConcurrentMessageProcessor.ts:483`). Hence `NoneLost` is not in `processor_errors`. |
| `MCBoundedPriorityQueue` | `SPECIFICATION Spec`, `Capacity = 1`, `MaxCalls = 2` | `BlockedCallsFailOnClose` | An `enqueue` after `close` that finds full a lane made after the close is parked for ever. The output loop can meet it, putting contexts back after a handler failed the application (`closed.late` in `MessageProcessor`). |
| `MCMessageProcessor` | `KeyOf <- OneKey`, `InputCapacity = 1`, `MaxBatch = 1` | `StoredOnceInOrder` | An enqueue that puts a context back waits for room in the high lane; the processing loop empties that lane, on cached states, and takes a later message from the low lane before the enqueue is continued. Mode Concurrent has "guaranteed ordering" (`CHANGELOG.md:215`), but this rests on the order of microtasks, in which the enqueue comes first and which the model leaves open: no finding, and the reason for `RoomToPutBack`. |
| `MCMessageProcessor` | `InputCapacity = 4`, `MaxExternal = 2` | `BuildsOnStoredAnyhow` | A message that is evicted while it waits to be handled anew returns before the states that were to leave the cache do (`ConcurrentMessageProcessor.ts:249`): later messages build on a state that never was stored. Hence `BuildsOnStored` holds until an eviction. |
| `MCPipeline` | `Adapters = {"rpc"}` | `OverAnyhow` | Messages of one key invalidate each other for ever (`RpcMessageProcessor.ts:74`). |
| `MCPipeline` | `Adapters = {"rpc"}`, `OutputCapacity = 1` | `HandledOnItsState` | With more handlers than places in the output queue, a handler that waits for a place is overtaken and its state is cached meanwhile. The defaults, 5000 places and 500 handlers, exclude it. |
| `MCPipeline` | `Adapters = {"serial"}` | `NoneDropped` | A message the merging queue refuses, or still holds when the iteration ends, is never released (`helpers.ts:24`). |
| `MCPipeline` | `Adapters = {"serial"}`, `Undecided = {2}` | `OkIsHandled` | A message for which the deduper throws is released as if it were handled (`CompositeInputSource.ts:97`). |
| `MCPipeline` | `Adapters = {"application"}` | `ReadyWhenUsed` | After a failure or the time-out of a shutdown, components are disposed of while handlers use them. |
| `MCSources` | `Adapters = {"push"}`, `Kinds = {"amqp"}` | `FailedIsNotSettled` | `AmqpSource.ts:105` takes the value a handler returned for its error, and acknowledges what was released with one. |
| `MCSources` | `Adapters = {"kafka"}`, `ReleasesInOrder = FALSE` | `SettledIsAnswered` | The position committed is that of the message released last (`OffsetManager.ts:69`): with RPC mode behind the source, lower offsets that are not processed are committed. |
| `MCCalls` | `Adapters = {"stream"}` | `SlowClientGetsAll` | A chunk that arrives while one waits for the consumer is dropped, as is the one that waits when the stream ends. |
| `MCCalls` | `Adapters = {"stream"}` | `SendsReturn` | `GrpcResponseStream.close` does nothing once the call is cancelled: a parked `send` never returns. |
| `MCCalls` | `Adapters = {"kubernetes"}` | `DeletesAreSeen` | A watch that is restarted does not tell of what was deleted in between. |
| `MCCalls` | `Adapters = {"unary"}` | `AcceptedAreAnswered` | A request or review that the closed queue takes after the iteration is over is never answered (`GrpcInputSource.ts:202`, `KubernetesAdmissionControllerSource.ts:167`). Hence `Stranded`. |
| `MCCalls` | `Adapters = {"kubernetes"}`, `MaxFaults = 4` | `WatchCatchesUp` | Enqueues that wait when a watch ends mix with those of the next one (`KubernetesWatchSource.ts:106`, `134`): an old event may come last. Hence `channel.backlog`. |
| `MCCalls` | `Adapters = {"unary"}` | `ReviewsAreAnswered` | An admission review whose handler returns nothing is not answered. |
| `MCCalls` | `Adapters = {"metrics"}` | `CountedOnce` | Metrics are flushed when a handler completes, not when it is stored: a message handled anew counts again. |
| `MCStorage` | `Adapters = {"cosmos"}`, `Stores = {"slowEvents"}` | `StoredOnce` | A stored procedure that runs after its caller gave up, restarted and asked for the watermark stores its message a second time. |
| `MCStorage` | none | `VerifiedIsStored` | The materialized sink stores the last item of a batch; if it is a verification, nothing is stored, and ok is reported (`materialized/internal/CosmosOutputSink.ts:48`). Hence the exception in `OkIsStored`. |
| `MCStorage` | `Adapters = {"sinks"}`, `Kinds = {"kafkaTx"}` | `TransactionEnds` | A message that cannot be formatted leaves a transaction open, and every later batch fails (`KafkaSink.ts:118`). |
| `MCStorage` | `Adapters = {"sinks"}`, `Kinds = {"amqp", "mqtt"}` | `SentIsStored` | These sinks return before anything is sent, and learn of no failure. |
| `MCStorage` | `Adapters = {"sinks"}`, `Kinds = {"objects"}`, `Poisons = {{}}` | `LastBatchWins` | `S3Sink` and `GcsSink` put all objects of a batch at once: of two puts of a key either may be the last, and after a failure the others go on behind the retry. |
| `MCStorage` | `Adapters = {"upload"}` | `UploadEndsWell` | Parts sent together are listed in the order they finished, and S3 refuses the upload (`MultipartUploader.ts:94`). |

Three more were met in reading, in code whose outcome is plain without a model:
`QueueClient` refuses a large message with `statusCode` 413 while
`QueueClientWithLargeItemSupport.ts:64` (and its test) looks at `code`, so that
large items are never moved to a blob; `KafkaSink.trackOffsets` adds the
offset of the consumed message to the transaction under the topic that is
published to; `CachingStateProvider.get` with a past sequence number caches that
state as the current one if there is none.

## 6. Not modelled, and what is left

- Stateless conversions (dispatchers, validators, encoders, loggers,
  configuration, Protobuf, validate.js), tracers, the generation of SQL, and
  clients' operations that are one call and keep no state. What they can answer
  is a nondeterministic outcome where somebody uses them.
- The health check of `ConcurrentMessageProcessor` and its `queueFull` modes;
  `run()` that throws while other loops still work; a `stop()` that hangs;
  `CachingStateProvider.get` at a past sequence number; the offsets in Kafka
  transactions; `streaming/CosmosOutputSink` of azure, a call that stores to several states and the
  chunks of `maxBatchSize` that a large one is cut into.
- *Proofs*: `BuildsOnStored`; and for `AsyncPipe`, that no call is forgotten.
