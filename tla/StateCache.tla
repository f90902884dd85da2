------------------------------ MODULE StateCache ------------------------------
(***************************************************************************)
(* The state cache of rpc mode in full: CachingStateProvider, an LRU cache *)
(* whose items may expire, inside EpochStateProvider and EpochManager.     *)
(* Handlers of several keys overlap; RpcProcessor, which shows what the    *)
(* loops around them do, has one key, a cache that drops nothing, and only *)
(* says of an epoch whether it is the current one.  queue is the output    *)
(* queue; work the dispatch contexts; state the cache with its keys, least *)
(* recently used first, those that have expired, and the epochs; store the *)
(* events of each key; forgot the keys whose epoch was once reset.         *)
(***************************************************************************)
EXTENDS Pipeline

CONSTANTS KeyOf,      \* [message -> key of the state it is handled on]
          CacheSize,  \* maxSize
          MaxExpired, \* bound: cached items whose maxTTL passes
          MaxEpoch,   \* bound: conflicts of one key
          MaxBatch

Of(k) == {m \in Msg : KeyOf[m] = k}
Keys == {KeyOf[m] : m \in Msg}
\* Those elements of a sequence that are in P, in their order.
Those(s, P) == FlattenSeq([i \in DOMAIN s |-> IF s[i] \in P THEN <<s[i]>> ELSE <<>>])
Events == Seq(Msg \cup {Other})
TypeOK ==
  /\ queue \in Seq(Msg) /\ store \in [Keys -> Events] /\ released \in [Msg -> {"no", "ok"}]
  /\ \A m \in Msg : /\ work[m].pc \in {"get", "loading", "loaded", "handle", "out"}
                    /\ work[m].base \in Events /\ work[m].epoch \in 1 .. MaxEpoch
  /\ \A k \in Keys : state.epoch[k] \in 1 .. MaxEpoch /\ Cardinality(state.cache[k]) <= 1
  /\ Len(state.recent) <= CacheSize /\ ToSet(state.recent) = {k \in Keys : state.cache[k] # {}}
  /\ state.stale \subseteq ToSet(state.recent)

Fresh == [pc |-> "get", base |-> <<>>, epoch |-> 1]
Init ==
  /\ queue = <<>> /\ work = [m \in Msg |-> Fresh]
  /\ state = [epoch |-> [k \in Keys |-> 1], cache |-> [k \in Keys |-> {}], recent |-> <<>>, stale |-> {}, forgot |-> {}]
  /\ store = [k \in Keys |-> <<>>] /\ released = [m \in Msg |-> "no"] /\ faults = 0

\* The cache.  What is dropped because there is no room or because it has
\* expired takes the key's epoch with it; what is invalidated does not.
Without(s, ks) == [s EXCEPT !.cache = [k \in Keys |-> IF k \in ks THEN {} ELSE @[k]],
                            !.recent = Those(@, Keys \ ks), !.stale = @ \ ks]
Evict(s, k) == [Without(s, {k}) EXCEPT !.epoch[k] = 1, !.forgot = IF s.epoch[k] > 1 THEN @ \cup {k} ELSE @]
Invalidate(s, ks) == [Without(s, ks) EXCEPT !.epoch = [k \in Keys |-> IF k \in ks THEN @[k] + 1 ELSE @[k]]]
Used(s, k) == [s EXCEPT !.recent = Append(Those(@, Keys \ {k}), k)]
Lookup(s, k) == IF k \in s.stale THEN Evict(s, k) ELSE IF s.cache[k] # {} THEN Used(s, k) ELSE s
Filled(s, k, base) == [Used(s, k) EXCEPT !.cache[k] = {base}, !.stale = @ \ {k}]
Put(s, k, base) ==
  LET full == Filled(s, k, base)
  IN IF Len(full.recent) > CacheSize THEN Evict(full, Head(full.recent)) ELSE full
Has(s, k) == s.cache[k] # {} /\ k \notin s.stale

At(m, pc) == [work EXCEPT ![m].pc = pc]

\* get(): the epoch is read first.  A state that is not cached is loaded, and
\* cached if there is still none.
Get(m) ==
  LET k == KeyOf[m]
      found == Lookup(state, k)
  IN
  /\ work[m].pc = "get" /\ state' = found
  /\ work' = [work EXCEPT ![m] = IF found.cache[k] = {} THEN [Fresh EXCEPT !.pc = "loading", !.epoch = state.epoch[k]]
                ELSE [pc |-> "handle", base |-> CHOOSE s \in found.cache[k] : TRUE, epoch |-> state.epoch[k]]]
  /\ UNCHANGED <<queue, store, released, faults>>
Load(m) ==
  /\ work[m].pc = "loading" /\ work' = [work EXCEPT ![m].pc = "loaded", ![m].base = store[KeyOf[m]]]
  /\ UNCHANGED <<queue, state, store, released, faults>>
Loaded(m) ==
  /\ work[m].pc = "loaded" /\ work' = At(m, "handle")
  /\ state' = IF Has(state, KeyOf[m]) THEN state ELSE Put(state, KeyOf[m], work[m].base)
  /\ UNCHANGED <<queue, store, released, faults>>

\* The handler stores an event.  complete() offers the cache the state with it:
\* it is taken if it is of the key's epoch and newer than what is cached.
Offered(m) ==
  LET k == KeyOf[m]
      found == Lookup(state, k)
      computed == Append(work[m].base, m)
  IN IF state.epoch[k] # work[m].epoch THEN state
     ELSE IF \A s \in found.cache[k] : Len(s) < Len(computed) THEN Put(found, k, computed) ELSE found
Handle(m) ==
  /\ work[m].pc = "handle" /\ work' = At(m, "out") /\ queue' = Append(queue, m) /\ state' = Offered(m)
  /\ UNCHANGED <<store, released, faults>>

\* The sink is given a batch and stores the contexts before the first that is
\* of an old epoch or does not follow what its key has; the epochs of it and
\* of those behind it are over, and these messages are handled anew.
Ahead(batch, i) == Cardinality({j \in 1 .. i - 1 : KeyOf[batch[j]] = KeyOf[batch[i]]})
Good(batch, i) ==
  LET m == batch[i] IN
  /\ work[m].epoch >= state.epoch[KeyOf[m]]
  /\ Len(work[m].base) = Len(store[KeyOf[m]]) + Ahead(batch, i)
Sink == \E b \in 1 .. Min({MaxBatch, Len(queue)}) :
  LET batch == SubSeq(queue, 1, b)
      n == Max({i \in 0 .. b : \A j \in 1 .. i : Good(batch, j)})
      good == SubSeq(batch, 1, n)
      bad == ToSet(batch) \ ToSet(good)
      over == {KeyOf[m] : m \in bad}
  IN
  /\ queue # <<>> /\ \A k \in over : state.epoch[k] < MaxEpoch
  /\ queue' = SubSeq(queue, b + 1, Len(queue))
  /\ store' = [k \in Keys |-> store[k] \o Those(good, Of(k))]
  /\ released' = Release(ToSet(good), "ok")
  /\ state' = Invalidate(state, over)
  /\ work' = [m \in Msg |-> IF m \in bad THEN Fresh ELSE work[m]]
  /\ UNCHANGED faults

\* maxTTL passes; another process appends an event of a key.
Expire == \E k \in ToSet(state.recent) \ state.stale :
  /\ faults < MaxExpired /\ faults' = faults + 1 /\ state' = [state EXCEPT !.stale = @ \cup {k}]
  /\ UNCHANGED <<queue, work, store, released>>
OthersOf(k) == Len(Those(store[k], {Other}))
ExternalOfAll == FoldSet(LAMBDA k, n : OthersOf(k) + n, 0, Keys)
OtherAppends == \E k \in Keys :
  /\ ExternalOfAll < MaxExternal /\ store' = [store EXCEPT ![k] = Append(@, Other)]
  /\ UNCHANGED <<queue, work, state, released, faults>>

Handling(m) == Get(m) \/ Load(m) \/ Loaded(m) \/ Handle(m)
Next == Sink \/ Expire \/ OtherAppends \/ \E m \in Msg : Handling(m)

\* What is stored of a key was computed from what was stored of it before, once.
BuiltOnStored(k) == \A i \in DOMAIN store[k] :
  store[k][i] # Other => work[store[k][i]].base = SubSeq(store[k], 1, i - 1)
StoredOnce == \A m \in Msg : released[m] = "ok" <=> Contains(store[KeyOf[m]], m)
Once == \A k \in Keys : \A i, j \in DOMAIN store[k] : store[k][i] = store[k][j] /\ store[k][i] # Other => i = j

\* When all is over the cache has nothing that was not stored.
Over == \A m \in Msg : released[m] = "ok"
CachedIsStored(k) == Over => \A s \in state.cache[k] : IsPrefix(s, store[k])

\* Handlers that overlap, drop each other's states and race another process
\* store each message once, on the state it was computed from, and leave no
\* phantom state behind, as long as no eviction resets a raised epoch.
HandledOnItsState ==
  /\ StoredOnce /\ Once
  /\ \A k \in Keys \ state.forgot : BuiltOnStored(k) /\ CachedIsStored(k)
\* The same with evictions: it fails, EpochManager 28-30.
NoStaleStored == \A k \in Keys : BuiltOnStored(k)
=============================================================================
