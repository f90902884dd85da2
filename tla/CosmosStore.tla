---------------------------- MODULE CosmosStore ----------------------------
(***************************************************************************)
(* States kept in Cosmos DB, packages/azure: application instances, each   *)
(* with a source of its own, load one state, handle an input and store its *)
(* outcome, event-sourced (CosmosStateAggregationSource, snapshots in blob *)
(* storage, CosmosOutputSink over bulkInsertSproc, CosmosMessageDeduper in *)
(* front) or materialized (CosmosStateProvider and CosmosOutputSink over   *)
(* upsertSproc).  A stored procedure is atomic; a call that fails for      *)
(* another reason than a conflict or throttling fails the application,     *)
(* which starts anew and is delivered what it had not released.  Cosmos DB *)
(* and blob storage are external.  An event is a part <<w, i, n>>, the     *)
(* n-th message that instance w stores for its input i; a state is the     *)
(* sequence of the events it was computed from.  stored.data is the state  *)
(* in the store and stored.sn its sequence number; caller has the          *)
(* instances and a reader of past states; wire the requests that time out  *)
(* before they are executed and the snapshots being written.               *)
(***************************************************************************)
EXTENDS Storage

CONSTANTS Instances, Outputs,  \* [Instances -> sequence of the numbers of messages stored]
          Frequency,           \* of snapshots
          Attempts, Snapshotters,
          Stores,              \* one is chosen; a slow one may execute a request after its time-out
          Verifications        \* <<w, i, "first" or "last">>: w's input i comes with one, beside its messages

Reader == 0
Inputs(w) == DOMAIN Outputs[w]
Parts(w, i) == [n \in 1 .. Outputs[w][i] |-> <<w, i, n>>]
NoSn == -1
Idle(c) == [c EXCEPT !.pc = "idle", !.state = <<>>, !.sn = 0]

Init == \E k \in Stores :
  /\ stored = [kind |-> k, data |-> <<>>, sn |-> 0, blobs |-> <<>>, listed |-> {}]
  /\ caller = [w \in Instances \cup {Reader} |->
                 [pc |-> "idle", input |-> 1, state |-> <<>>, sn |-> 0, at |-> NoSn, mark |-> NoSn, attempt |-> 1]]
  /\ wire = [late |-> {}, snap |-> [s \in Snapshotters |-> [pc |-> "idle", sn |-> 0, state |-> <<>>, list |-> {}]]]
  /\ told = [w \in Instances |-> [i \in Inputs(w) |-> "no"]]
  /\ faults = 0

Events == stored.kind \in {"events", "slowEvents"}
Slow == stored.kind \in {"slowEvents", "slowDocument"}
Caller(w, c) == caller' = [caller EXCEPT ![w] = c]

\* isDupe: the high watermark of the instance's source, from the documents
\* when it is first asked.  A dupe is released and dropped.
Watermark(w) ==
  LET mine == {stored.data[n][2] : n \in {x \in DOMAIN stored.data : stored.data[x][1] = w}} IN
  IF caller[w].mark # NoSn \/ mine = {} THEN caller[w].mark ELSE Max(mine)
Answered(w, how) ==
  /\ told' = [told EXCEPT ![w][caller[w].input] = how]
  /\ Caller(w, [Idle(caller[w]) EXCEPT !.input = @ + 1, !.mark = IF Events THEN Watermark(w) ELSE NoSn])
IsDupe(w) ==
  LET c == caller[w] IN
  /\ c.pc = "idle" /\ c.input \in Inputs(w)
  /\ IF Events /\ Watermark(w) # NoSn /\ c.input <= Watermark(w) THEN Answered(w, "dupe")
     ELSE /\ Caller(w, [c EXCEPT !.pc = "load", !.mark = IF Events THEN c.input ELSE @, !.attempt = 1])
          /\ UNCHANGED told
  /\ UNCHANGED <<stored, wire, faults>>

\* BlobStorageSnapshotProvider.get: the list, then the last snapshot in it
\* that is not past atSn.
Below(at) == {sn \in stored.listed : at = NoSn \/ sn <= at}
ReadList(w) ==
  LET c == caller[w] IN
  /\ c.pc = "load"
  /\ IF Events /\ Below(c.at) # {} THEN Caller(w, [c EXCEPT !.pc = "blob", !.sn = Max(Below(c.at))])
                                   ELSE Caller(w, [c EXCEPT !.pc = "query", !.sn = 0, !.state = <<>>])
  /\ UNCHANGED <<stored, wire, told, faults>>
ReadBlob(w) ==
  LET c == caller[w] IN
  /\ c.pc = "blob"
  /\ Caller(w, IF c.sn \in DOMAIN stored.blobs THEN [c EXCEPT !.pc = "query", !.state = stored.blobs[c.sn]]
                                               ELSE [c EXCEPT !.pc = "query", !.sn = 0, !.state = <<>>])
  /\ UNCHANGED <<stored, wire, told, faults>>

\* load: the events past the snapshot, up to atSn; or the one document.
AfterSnapshotTwice(c) == SubSeq(stored.data, Max({c.sn, 1}), stored.sn)   \* mutant
AfterSnapshot(c) == SubSeq(stored.data, c.sn + 1, IF c.at = NoSn THEN stored.sn ELSE Min({c.at, stored.sn}))
Query(w) ==
  LET c == caller[w]
      loaded == IF Events THEN c.state \o AfterSnapshot(c) ELSE stored.data
  IN
  /\ c.pc = "query"
  /\ Caller(w, [c EXCEPT !.pc = IF w = Reader THEN "idle" ELSE "sink", !.state = loaded,
                         !.sn = IF Events THEN Len(loaded) ELSE stored.sn])
  /\ UNCHANGED <<stored, wire, told, faults>>
ReadPast == \E at \in 0 .. stored.sn :
  /\ Events /\ caller[Reader].at = NoSn
  /\ Caller(Reader, [caller[Reader] EXCEPT !.pc = "load", !.at = at])
  /\ UNCHANGED <<stored, wire, told, faults>>

\* The stored procedures, and the query that verifies a state only loaded.
\* The materialized sink counts every item of the batch, and stores the last
\* message unless something else comes after it: then it only verifies.
Verified(w, i, at) == <<w, i, at>> \in Verifications
Request(w) ==
  LET c == caller[w]
      new == Parts(w, c.input)
  IN  [sn |-> c.sn, new |-> new,
       count |-> Len(new) + (IF Verified(w, c.input, "first") THEN 1 ELSE 0),
       state |-> c.state \o new, last |-> Verified(w, c.input, "last")]
Verifies(r) == r.new = <<>> \/ (r.last /\ ~Events)
MatchesNewSn(r) == r.sn + Len(r.new) = stored.sn   \* mutant
Matches(r) == r.sn = stored.sn
Executed(r) ==
  IF Verifies(r) THEN stored
  ELSE IF Events THEN [stored EXCEPT !.data = @ \o r.new, !.sn = @ + Len(r.new)]
  ELSE [stored EXCEPT !.data = r.state, !.sn = r.sn + r.count]

\* sink(): stored; or a conflict, the input is handled anew on a fresh state.
Sink(w) ==
  LET r == Request(w) IN
  /\ caller[w].pc = "sink"
  /\ IF Matches(r) THEN stored' = Executed(r) /\ Answered(w, "ok")
     ELSE Caller(w, [Idle(caller[w]) EXCEPT !.pc = "load"]) /\ UNCHANGED <<stored, told>>
  /\ UNCHANGED <<wire, faults>>

\* Throttled, or createDocument answered false: nothing is stored, and the
\* retrier calls again with the same batch.
Restarted(w) == [Idle(caller[w]) EXCEPT !.mark = NoSn, !.attempt = 1]
Throttled == \E w \in Instances :
  /\ caller[w].pc = "sink" /\ Fault
  /\ Caller(w, IF caller[w].attempt < Attempts THEN [caller[w] EXCEPT !.attempt = @ + 1] ELSE Restarted(w))
  /\ UNCHANGED <<stored, wire, told>>

\* Any other failure is not retried: the request was executed, was not, or
\* still will be; the application stops.
Lost == \E w \in Instances :
  LET r == Request(w) IN
  /\ caller[w].pc = "sink" /\ Fault /\ Caller(w, Restarted(w))
  /\ \/ stored' \in {stored} \cup (IF Matches(r) THEN {Executed(r)} ELSE {}) /\ UNCHANGED wire
     \/ Slow /\ wire' = [wire EXCEPT !.late = @ \cup {r}] /\ UNCHANGED stored
  /\ UNCHANGED told
Crash == \E w \in Instances :
  /\ caller[w].pc \notin {"idle", "sink"} /\ Fault /\ Caller(w, Restarted(w))
  /\ UNCHANGED <<stored, wire, told>>
ExecutedLate == \E r \in wire.late :
  /\ wire' = [wire EXCEPT !.late = @ \ {r}]
  /\ stored' = IF Matches(r) THEN Executed(r) ELSE stored
  /\ UNCHANGED <<caller, told, faults>>

\* BlobStorageSnapshotOutputSink: the snapshot, then the list is read, then
\* written with its number; two of them may overlap.
Snap(s, j) == wire' = [wire EXCEPT !.snap[s] = j]
TakeSnapshot == \E s \in Snapshotters, sn \in 1 .. stored.sn :
  /\ Events /\ wire.snap[s].pc = "idle" /\ sn % Frequency = 0 /\ sn > wire.snap[s].sn
  /\ Snap(s, [pc |-> "list", sn |-> sn, state |-> SubSeq(stored.data, 1, sn), list |-> {}])
  /\ stored' = [stored EXCEPT !.blobs = [n \in DOMAIN @ \cup {sn} |-> IF n = sn THEN SubSeq(stored.data, 1, sn) ELSE @[n]]]
  /\ UNCHANGED <<caller, told, faults>>
ListRead == \E s \in Snapshotters :
  LET j == wire.snap[s] IN
  /\ j.pc = "list" /\ Snap(s, [j EXCEPT !.pc = IF j.sn \in stored.listed THEN "idle" ELSE "write", !.list = stored.listed])
  /\ UNCHANGED <<stored, caller, told, faults>>
ListWritten == \E s \in Snapshotters :
  LET j == wire.snap[s] IN
  /\ j.pc = "write" /\ Snap(s, [j EXCEPT !.pc = "idle", !.list = {}, !.state = <<>>])
  /\ stored' = [stored EXCEPT !.listed = j.list \cup {j.sn}]
  /\ UNCHANGED <<caller, told, faults>>

Loads(w) == ReadList(w) \/ ReadBlob(w) \/ Query(w)
Progress(w) == IsDupe(w) \/ Loads(w) \/ Sink(w)
Next == (\E w \in Instances : Progress(w)) \/ Loads(Reader) \/ ReadPast \/ Throttled \/ Lost \/ Crash \/ ExecutedLate
        \/ TakeSnapshot \/ ListRead \/ ListWritten

Stored(w, i) == \A n \in DOMAIN Parts(w, i) : Contains(stored.data, Parts(w, i)[n])
AllStored == \A w \in Instances : \A i \in Inputs(w) : told[w][i] # "no" => Stored(w, i)
OkIsStored == \A w \in Instances : \A i \in Inputs(w) :
  told[w][i] # "no" => Stored(w, i) \/ (~Events /\ Verified(w, i, "last"))

\* What is stored for one input is stored once, together and in the order of
\* the inputs.
Together(m, n) ==
  LET a == stored.data[m]
      b == stored.data[n]
  IN  /\ a = b => m = n
      /\ a[1] = b[1] /\ a[2] = b[2] /\ a[3] < b[3] => n = m + b[3] - a[3]
      /\ a[1] = b[1] /\ a[2] < b[2] => m < n
Whole == Events => \A m, n \in DOMAIN stored.data : Together(m, n)
WholeInTime == Slow \/ Whole

\* Every snapshot, every state that is about to be written and accepted, and
\* every past state that was read is made of the events up to its number.
LoadedIsPrefix ==
  /\ \A sn \in DOMAIN stored.blobs : stored.blobs[sn] = SubSeq(stored.data, 1, sn)
  /\ \A w \in DOMAIN caller : LET c == caller[w] IN
       /\ c.pc = "sink" /\ c.sn = stored.sn => c.state = stored.data
       /\ w = Reader /\ c.pc = "idle" /\ c.at # NoSn => c.state = SubSeq(stored.data, 1, c.at)
Over == \A w \in Instances : caller[w].input \notin Inputs(w)
=============================================================================
