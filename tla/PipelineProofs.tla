--------------------------- MODULE PipelineProofs ---------------------------
(***************************************************************************)
(* What MCPipeline states of the ways through packages/core, for any       *)
(* number of messages, sizes of queues, batches and caches, keys, failures *)
(* and foreign events.                                                     *)
(***************************************************************************)
EXTENDS MCPipeline, SequenceLemmas

Msg == 1 .. Messages
Event == Msg \cup {0}

(***************************************************************************)
(* What was computed from what.  A state is the sequence of the events it  *)
(* was computed from.                                                      *)
(***************************************************************************)

\* Each event of a state is where it is in the store, or pending: it is that
\* of a context still to be stored, computed from the events before it.
Built(s, st, pending) ==
  \A i \in DOMAIN s : \/ i \in DOMAIN st /\ s[i] = st[i]
                      \/ <<s[i], SubSeq(s, 1, i - 1)>> \in pending

\* Every event that is stored was computed from those before it, and once.
StoredOn(st, base) == \A i \in DOMAIN st : st[i] # 0 => base[st[i]] = SubSeq(st, 1, i - 1)
Distinct(st) == \A i, j \in DOMAIN st : st[i] = st[j] /\ st[i] # 0 => i = j

\* No event, or one more that is pending.
LEMMA BuiltEmpty ==
    ASSUME NEW st, NEW P
    PROVE  Built(<<>>, st, P)
BY DEF Built

\* Events that are stored or pending are so with one more that is pending.
LEMMA BuiltAppend ==
    ASSUME NEW s \in Seq(Event), NEW st \in Seq(Event), NEW P, Built(s, st, P), NEW m \in Event, <<m, s>> \in P
    PROVE  Built(Append(s, m), st, P)
<1> DEFINE t == Append(s, m)
<1>1. t \in Seq(Event) /\ Len(t) = Len(s) + 1 /\ t[Len(s) + 1] = m /\ \A i \in 1 .. Len(s) : t[i] = s[i]
  BY AppendProperties
<1>2. \A n \in 0 .. Len(s) : SubSeq(t, 1, n) = SubSeq(s, 1, n)
  BY <1>1
<1>3. SubSeq(s, 1, Len(s)) = s
  OBVIOUS
<1>4. \A i \in 1 .. Len(s) : \/ i \in DOMAIN st /\ t[i] = st[i]
                             \/ <<t[i], SubSeq(t, 1, i - 1)>> \in P
  <2>1. TAKE i \in 1 .. Len(s)
  <2>2. t[i] = s[i] /\ SubSeq(t, 1, i - 1) = SubSeq(s, 1, i - 1)
    BY <1>1, <1>2
  <2> QED BY <2>2 DEF Built
<1>5. <<t[Len(s) + 1], SubSeq(t, 1, Len(s) + 1 - 1)>> \in P
  BY <1>1, <1>2, <1>3
<1>6. DOMAIN t = 1 .. Len(s) + 1 /\ Len(s) \in Nat
  BY <1>1
<1>7. \A i \in DOMAIN t : i \in 1 .. Len(s) \/ i = Len(s) + 1
  BY <1>6
<1>8. Built(t, st, P)
  <2> HIDE DEF t
  <2>1. SUFFICES ASSUME NEW i \in DOMAIN t
                 PROVE  (i \in DOMAIN st /\ t[i] = st[i]) \/ <<t[i], SubSeq(t, 1, i - 1)>> \in P
    BY DEF Built
  <2>2. CASE i \in 1 .. Len(s)
    BY <1>4, <2>2
  <2>3. CASE i = Len(s) + 1
    BY <1>5, <2>3
  <2> QED BY <1>7, <2>2, <2>3
<1> QED BY <1>8

\* When the store grows: what was pending still is, or is stored where it
\* belongs.
LEMMA BuiltGrows ==
    ASSUME NEW s \in Seq(Event), NEW st \in Seq(Event), NEW t \in Seq(Event), NEW P, NEW Q, Built(s, st, P),
           \A x \in P : x \in Q \/ (Len(x[2]) + 1 \in DOMAIN (st \o t) /\ (st \o t)[Len(x[2]) + 1] = x[1])
    PROVE  Built(s, st \o t, Q)
<1>1. DOMAIN st \subseteq DOMAIN (st \o t) /\ \A i \in DOMAIN st : (st \o t)[i] = st[i]
  BY ConcatElements
<1>2. ASSUME NEW i \in DOMAIN s
      PROVE  (i \in DOMAIN (st \o t) /\ s[i] = (st \o t)[i]) \/ <<s[i], SubSeq(s, 1, i - 1)>> \in Q
  <2> DEFINE x == <<s[i], SubSeq(s, 1, i - 1)>>
  <2>1. Len(SubSeq(s, 1, i - 1)) + 1 = i
    OBVIOUS
  <2>2. x[1] = s[i] /\ Len(x[2]) + 1 = i
    BY <2>1
  <2>3. CASE i \in DOMAIN st /\ s[i] = st[i]
    BY <1>1, <2>3
  <2>4. CASE x \in P
    BY <2>2, <2>4
  <2> QED BY <2>3, <2>4 DEF Built
<1> QED BY <1>2 DEF Built

\* What is stored stays when more is.
LEMMA BuiltStays ==
    ASSUME NEW s \in Seq(Event), NEW st \in Seq(Event), NEW t \in Seq(Event), Built(s, st, {})
    PROVE  Built(s, st \o t, {})
BY BuiltGrows, \A x \in {} : x \in {}

\* A store with one more event.
LEMMA OneMore ==
    ASSUME NEW st \in Seq(Event), NEW m \in Event
    PROVE  /\ <<m>> \in Seq(Event) /\ Len(<<m>>) = 1 /\ <<m>>[1] = m /\ DOMAIN <<m>> = {1}
           /\ Append(st, m) = st \o <<m>> /\ Append(st, m) \in Seq(Event) /\ ToSet(Append(st, m)) = ToSet(st) \cup {m}
<1>1. <<m>> \in Seq(Event) /\ Len(<<m>>) = 1 /\ <<m>>[1] = m /\ DOMAIN <<m>> = {1}
  OBVIOUS
<1>2. Append(st, m) = st \o <<m>> /\ Append(st, m) \in Seq(Event)
  BY AppendIsConcat
<1>3. ToSet(Append(st, m)) = ToSet(st) \cup {m}
  BY ToSetAppend
<1> QED BY <1>1, <1>2, <1>3

\* Without anything pending, it is what the store begins with.
LEMMA BuiltIsPrefix ==
    ASSUME NEW s \in Seq(Event), NEW st \in Seq(Event), Built(s, st, {})
    PROVE  Len(s) <= Len(st) /\ s = SubSeq(st, 1, Len(s))
<1>1. \A i \in 1 .. Len(s) : i \in 1 .. Len(st) /\ s[i] = st[i]
  BY DEF Built
<1>2. Len(s) \in Nat /\ Len(st) \in Nat
  OBVIOUS
<1>3. Len(s) <= Len(st)
  <2>1. CASE Len(s) = 0
    BY <1>2, <2>1
  <2>2. CASE Len(s) # 0
    <3>1. Len(s) \in 1 .. Len(s)
      BY <1>2, <2>2
    <3> QED BY <1>1, <1>2, <3>1
  <2> QED BY <2>1, <2>2
<1>4. SubSeq(st, 1, Len(s)) \in Seq(Event) /\ Len(SubSeq(st, 1, Len(s))) = Len(s)
      /\ \A i \in 1 .. Len(s) : SubSeq(st, 1, Len(s))[i] = st[i]
  BY <1>2, <1>3
<1> QED BY <1>1, <1>3, <1>4, SeqEqual

\* What the store gains: events that are new to it, each computed from all
\* before it.
LEMMA StoreGrows ==
    ASSUME NEW st \in Seq(Event), NEW t \in Seq(Event), NEW b, NEW c, StoredOn(st, b), Distinct(st),
           \A i \in DOMAIN st : st[i] # 0 => c[st[i]] = b[st[i]],
           \A j \in DOMAIN t : t[j] # 0 => t[j] \notin ToSet(st) /\ c[t[j]] = SubSeq(st \o t, 1, Len(st) + j - 1),
           Distinct(t)
    PROVE  StoredOn(st \o t, c) /\ Distinct(st \o t)
<1> DEFINE u == st \o t
<1>1. /\ u \in Seq(Event) /\ DOMAIN u = 1 .. Len(st) + Len(t) /\ Len(st) \in Nat /\ Len(t) \in Nat
      /\ DOMAIN st = 1 .. Len(st) /\ DOMAIN t = 1 .. Len(t)
      /\ \A i \in 1 .. Len(st) + Len(t) : u[i] = IF i <= Len(st) THEN st[i] ELSE t[i - Len(st)]
  BY ConcatElements
<1>2. \A i \in DOMAIN u : \/ i \in DOMAIN st /\ u[i] = st[i]
                          \/ i - Len(st) \in DOMAIN t /\ u[i] = t[i - Len(st)] /\ i = Len(st) + (i - Len(st))
  BY <1>1
<1>3. \A i \in DOMAIN st : SubSeq(u, 1, i - 1) = SubSeq(st, 1, i - 1)
  BY PrefixOfConcat
<1>4. StoredOn(u, c)
  <2>1. SUFFICES ASSUME NEW i \in DOMAIN u, u[i] # 0
                 PROVE  c[u[i]] = SubSeq(u, 1, i - 1)
    BY DEF StoredOn
  <2>2. CASE i \in DOMAIN st /\ u[i] = st[i]
    BY <1>3, <2>1, <2>2 DEF StoredOn
  <2>3. CASE i - Len(st) \in DOMAIN t /\ u[i] = t[i - Len(st)] /\ i = Len(st) + (i - Len(st))
    <3>1. Len(st) + (i - Len(st)) - 1 = i - 1
      BY <1>1
    <3> QED BY <2>1, <2>3, <3>1
  <2> QED BY <1>2, <2>2, <2>3
<1>5. Distinct(u)
  <2>1. SUFFICES ASSUME NEW i \in DOMAIN u, NEW j \in DOMAIN u, u[i] = u[j], u[i] # 0
                 PROVE  i = j
    BY DEF Distinct
  <2>2. \A h \in DOMAIN st : st[h] \in ToSet(st)
    BY DEF ToSet
  <2> HIDE DEF u
  <2>3. CASE i \in DOMAIN st /\ u[i] = st[i] /\ j \in DOMAIN st /\ u[j] = st[j]
    BY <2>1, <2>3 DEF Distinct
  <2>4. CASE i - Len(st) \in DOMAIN t /\ u[i] = t[i - Len(st)] /\ j - Len(st) \in DOMAIN t /\ u[j] = t[j - Len(st)]
    <3>1. i - Len(st) = j - Len(st)
      BY <2>1, <2>4 DEF Distinct
    <3> QED BY <1>1, <3>1
  <2> QED BY <1>2, <2>1, <2>2, <2>3, <2>4
<1> QED BY <1>4, <1>5

\* Another process appends an event.
LEMMA OtherGrows ==
    ASSUME NEW st \in Seq(Event), NEW b, StoredOn(st, b), Distinct(st)
    PROVE  /\ StoredOn(st \o <<0>>, b) /\ Distinct(st \o <<0>>) /\ Append(st, 0) = st \o <<0>> /\ <<0>> \in Seq(Event)
           /\ \A m \in Msg : m \in ToSet(st \o <<0>>) <=> m \in ToSet(st)
<1>1. <<0>> \in Seq(Event) /\ Len(<<0>>) = 1 /\ DOMAIN <<0>> = 1 .. 1 /\ <<0>>[1] = 0
  BY DEF Event
<1>2. \A j \in DOMAIN <<0>> : <<0>>[j] = 0
  BY <1>1
<1>3. Distinct(<<0>>)
  BY <1>2 DEF Distinct
<1>4. Append(st, 0) = st \o <<0>>
  BY AppendIsConcat DEF Event
<1>7. 0 \in Event
  BY DEF Event
<1>5. ToSet(st \o <<0>>) = ToSet(st) \cup {0}
  <2>1. ToSet(Append(st, 0)) = ToSet(st) \cup {0}
    BY <1>7, ToSetAppend
  <2> QED BY <1>4, <2>1
<1>6. 0 \notin Msg
  BY DEF Msg
<1>8. StoredOn(st \o <<0>>, b) /\ Distinct(st \o <<0>>)
  BY <1>1, <1>2, <1>3, StoreGrows
<1>9. \A m \in Msg : m \in ToSet(st \o <<0>>) <=> m \in ToSet(st)
  BY <1>5, <1>6
<1> QED BY <1>1, <1>4, <1>8, <1>9

(***************************************************************************)
(* The state cache.                                                        *)
(***************************************************************************)
Keys == {KeyOf[m] : m \in Msg}
CachePCs == {"get", "loading", "loaded", "handle", "out"}
CacheEpochs == 1 .. MaxEpoch
CacheContext == [pc: CachePCs, base: Seq(Event), epoch: CacheEpochs]
CacheState == [epoch: [Keys -> CacheEpochs], cache: [Keys -> SUBSET Seq(Event)], recent: Seq(Keys), stale: SUBSET Keys,
               forgot: SUBSET Keys]
CacheHows == {"no", "ok"}
\* A key has at most one state in the cache, the keys are listed that have one.
Tidy(s) == /\ s \in CacheState
           /\ \A k \in Keys : \A x, y \in s.cache[k] : x = y
           /\ ToSet(s.recent) = {k \in Keys : s.cache[k] # {}} /\ s.stale \subseteq ToSet(s.recent)
\* What the operations of the cache do: they drop states, and with them the
\* epochs, and may add one of k that is in B.
Moves(s, t, k, B) ==
  /\ s.forgot \subseteq t.forgot /\ \A x \in Keys \ t.forgot : t.epoch[x] = s.epoch[x]
  /\ \A x \in Keys : \A b \in t.cache[x] : b \in s.cache[x] \/ (x = k /\ b \in B)

\* The values the fields take.
LEMMA CacheFields ==
    /\ "get" \in CachePCs /\ "loading" \in CachePCs /\ "loaded" \in CachePCs /\ "handle" \in CachePCs /\ "out" \in CachePCs
    /\ "no" \in CacheHows /\ "ok" \in CacheHows /\ 1 \in CacheEpochs /\ CacheEpochs \subseteq Nat
    /\ 0 \in Event /\ 0 \notin Msg /\ Msg \subseteq Event /\ Msg \subseteq Nat /\ <<>> \in Seq(Event)
    /\ C!Msg = Msg /\ C!Other = 0 /\ C!Keys = Keys /\ C!Events = Seq(Event) /\ \A m \in Msg : KeyOf[m] \in Keys
    /\ \A s : C!ToSet(s) = ToSet(s)
    /\ \A s, P : C!Those(s, P) = Those(s, P)
    /\ \A T : C!Cardinality(T) = Cardinality(T)
    /\ \A k : C!Of(k) = {m \in Msg : KeyOf[m] = k}
<1>1. /\ "get" \in CachePCs /\ "loading" \in CachePCs /\ "loaded" \in CachePCs /\ "handle" \in CachePCs /\ "out" \in CachePCs
      /\ "no" \in CacheHows /\ "ok" \in CacheHows
  BY DEF CachePCs, CacheHows
<1>2. 1 \in CacheEpochs /\ CacheEpochs \subseteq Nat
  BY SizesAssumption DEF CacheEpochs
<1>3. 0 \in Event /\ 0 \notin Msg /\ Msg \subseteq Event /\ Msg \subseteq Nat /\ <<>> \in Seq(Event)
  BY DEF Event, Msg
<1>4. C!Msg = Msg /\ C!Other = 0 /\ C!Keys = Keys /\ C!Events = Seq(Event) /\ \A m \in Msg : KeyOf[m] \in Keys
  BY DEF C!Msg, Msg, C!Other, C!Keys, Keys, C!Events, Event
<1>5. \A s : C!ToSet(s) = ToSet(s)
  BY DEF C!ToSet, ToSet
<1>6. \A s, P : C!Those(s, P) = Those(s, P)
  <2>1. \A s : C!FlattenSeq(s) = FlattenSeq(s)
    BY DEF C!FlattenSeq, FlattenSeq
  <2> QED BY <2>1 DEF C!Those, Those
<1>7. \A T : C!Cardinality(T) = Cardinality(T)
  BY Zenon DEF C!Cardinality, Cardinality
<1>8. \A k : C!Of(k) = {m \in Msg : KeyOf[m] = k}
  BY <1>4 DEF C!Of
<1> QED BY <1>1, <1>2, <1>3, <1>4, <1>5, <1>6, <1>7, <1>8

\* The fields of a cache.
LEMMA CacheStates ==
    ASSUME NEW s \in CacheState
    PROVE  /\ s.epoch \in [Keys -> CacheEpochs] /\ s.cache \in [Keys -> SUBSET Seq(Event)] /\ s.recent \in Seq(Keys)
           /\ s.stale \in SUBSET Keys /\ s.forgot \in SUBSET Keys /\ Len(s.recent) \in Nat
BY DEF CacheState

\* States of some keys are dropped.
LEMMA CacheWithout ==
    ASSUME NEW s, Tidy(s), NEW ks \in SUBSET Keys
    PROVE  LET t == C!Without(s, ks)
           IN /\ Tidy(t) /\ Len(t.recent) <= Len(s.recent)
              /\ s.recent # <<>> /\ Head(s.recent) \in ks => Len(t.recent) < Len(s.recent)
              /\ t.epoch = s.epoch /\ t.forgot = s.forgot
              /\ \A x \in Keys : t.cache[x] = IF x \in ks THEN {} ELSE s.cache[x]
<1> DEFINE c == [k \in Keys |-> IF k \in ks THEN {} ELSE s.cache[k]]
           r == Those(s.recent, Keys \ ks)
           d == s.stale \ ks
           t == [s EXCEPT !.cache = c, !.recent = r, !.stale = d]
<1>1. /\ s \in CacheState /\ s.cache \in [Keys -> SUBSET Seq(Event)] /\ s.recent \in Seq(Keys) /\ s.stale \in SUBSET Keys
      /\ Len(s.recent) \in Nat
  BY CacheStates DEF Tidy
<1>2. C!Without(s, ks) = t
  BY CacheFields DEF C!Without
<1>3. r \in Seq(Keys) /\ ToSet(r) = ToSet(s.recent) \ ks
  <2>1. r \in Seq(Keys) /\ ToSet(r) = ToSet(s.recent) \cap (Keys \ ks)
    BY <1>1, ThoseProperties
  <2>2. ToSet(s.recent) \subseteq Keys
    BY <1>1 DEF ToSet
  <2> QED BY <2>1, <2>2
<1>4. Len(r) <= Len(s.recent) /\ (s.recent # <<>> /\ Head(s.recent) \in ks => Len(r) < Len(s.recent))
  <2> DEFINE n == Len(s.recent)
  <2>1. Len(r) = Counted(s.recent, Keys \ ks, n)
    BY <1>1, ThosePlaces
  <2>2. PICK q \in 0 .. n : /\ q = Counted(s.recent, Keys \ ks, n)
                            /\ \A p \in 1 .. n : s.recent[p] \notin Keys \ ks => q < n
    <3>1. /\ Counted(s.recent, Keys \ ks, n) \in 0 .. n
          /\ \A p \in 1 .. n : s.recent[p] \notin Keys \ ks => Counted(s.recent, Keys \ ks, n) < n
      BY <1>1, CountedProperties
    <3> QED BY <3>1
  <2>3. s.recent # <<>> => Head(s.recent) = s.recent[1] /\ 1 \in 1 .. n
    BY <1>1
  <2>4. s.recent # <<>> /\ Head(s.recent) \in ks => q < n
    BY <2>2, <2>3
  <2>5. Len(r) = q
    BY <2>1, <2>2
  <2> HIDE DEF r
  <2> QED BY <1>1, <2>4, <2>5
<1>5. c \in [Keys -> SUBSET Seq(Event)] /\ \A x \in Keys : c[x] = IF x \in ks THEN {} ELSE s.cache[x]
  BY <1>1
<1>6. d \in SUBSET Keys
  BY <1>1
<1>7. d \subseteq ToSet(r)
  BY <1>3 DEF Tidy
<1> HIDE DEF c, r, d
<1>8. t \in CacheState /\ t.cache = c /\ t.recent = r /\ t.stale = d /\ t.epoch = s.epoch /\ t.forgot = s.forgot
  BY <1>1, <1>3, <1>5, <1>6 DEF CacheState
<1> HIDE DEF t
<1>9. Tidy(t)
  <2>1. \A k \in Keys : \A x, y \in c[k] : x = y
    BY <1>5 DEF Tidy
  <2>2. ToSet(r) = {k \in Keys : c[k] # {}}
    <3>1. ToSet(s.recent) = {k \in Keys : s.cache[k] # {}}
      BY DEF Tidy
    <3> QED BY <1>3, <1>5, <3>1
  <2> QED BY <1>7, <1>8, <2>1, <2>2 DEF Tidy
<1> QED BY <1>2, <1>4, <1>5, <1>8, <1>9

\* One state is dropped with the epoch of its key.
LEMMA CacheEvict ==
    ASSUME NEW s, Tidy(s), NEW k \in Keys, NEW B
    PROVE  LET t == C!Evict(s, k)
           IN /\ Tidy(t) /\ Len(t.recent) <= Len(s.recent) /\ Moves(s, t, k, B)
              /\ s.recent # <<>> /\ Head(s.recent) = k => Len(t.recent) < Len(s.recent)
<1> DEFINE u == C!Without(s, {k})
           e == [u.epoch EXCEPT ![k] = 1]
           f == IF s.epoch[k] > 1 THEN u.forgot \cup {k} ELSE u.forgot
           t == [u EXCEPT !.epoch = e, !.forgot = f]
<1>1. {k} \in SUBSET Keys
  OBVIOUS
<1>2. /\ Tidy(u) /\ Len(u.recent) <= Len(s.recent)
      /\ s.recent # <<>> /\ Head(s.recent) = k => Len(u.recent) < Len(s.recent)
      /\ u.epoch = s.epoch /\ u.forgot = s.forgot
      /\ \A x \in Keys : u.cache[x] = IF x \in {k} THEN {} ELSE s.cache[x]
  BY <1>1, CacheWithout
<1> HIDE DEF u
<1>3. u \in CacheState /\ u.epoch \in [Keys -> CacheEpochs] /\ u.forgot \in SUBSET Keys
  BY <1>2, CacheStates DEF Tidy
<1>4. e \in [Keys -> CacheEpochs] /\ f \in SUBSET Keys /\ e[k] = 1 /\ \A x \in Keys : x # k => e[x] = s.epoch[x]
  BY <1>2, <1>3, CacheFields
<1>5. s.forgot \subseteq f /\ \A x \in Keys \ f : e[x] = s.epoch[x]
  <2>1. s.epoch[k] \in CacheEpochs /\ (s.epoch[k] > 1 \/ s.epoch[k] = 1)
    <3>1. \A i \in CacheEpochs : i > 1 \/ i = 1
      BY DEF CacheEpochs
    <3> QED BY <1>2, <1>3, <3>1
  <2>2. s.epoch[k] > 1 => k \in f
    OBVIOUS
  <2>3. s.forgot \subseteq f
    BY <1>2
  <2> HIDE DEF e, f
  <2> QED BY <1>4, <2>1, <2>2, <2>3
<1>6. C!Evict(s, k) = [u EXCEPT !.epoch[k] = 1, !.forgot = f]
  BY DEF C!Evict, u
<1>7. C!Evict(s, k) = t
  BY <1>3, <1>6 DEF CacheState
<1> HIDE DEF e, f
<1>8. t \in CacheState /\ t.cache = u.cache /\ t.recent = u.recent /\ t.stale = u.stale /\ t.epoch = e /\ t.forgot = f
  BY <1>3, <1>4 DEF CacheState
<1> HIDE DEF t
<1>9. Tidy(t)
  BY <1>2, <1>8 DEF Tidy
<1>10. Moves(s, t, k, B)
  BY <1>2, <1>5, <1>8 DEF Moves
<1> QED BY <1>2, <1>7, <1>8, <1>9, <1>10

\* A key is used: it comes last.
LEMMA CacheRecent ==
    ASSUME NEW s \in Seq(Keys), NEW k \in Keys
    PROVE  LET r == Append(Those(s, Keys \ {k}), k)
           IN /\ r \in Seq(Keys) /\ ToSet(r) = ToSet(s) \cup {k} /\ Len(r) <= Len(s) + 1 /\ Len(r) \in Nat /\ r # <<>>
              /\ Head(r) \in Keys /\ (k \in ToSet(s) => Len(r) <= Len(s))
<1> DEFINE u == Those(s, Keys \ {k})
           n == Len(s)
<1>1. u \in Seq(Keys) /\ ToSet(u) = ToSet(s) \cap (Keys \ {k})
  BY ThoseProperties
<1>2. ToSet(s) \subseteq Keys /\ n \in Nat
  BY DEF ToSet
<1>3. Len(u) = Counted(s, Keys \ {k}, n)
  BY ThosePlaces
<1>4. PICK q \in 0 .. n : q = Counted(s, Keys \ {k}, n) /\ \A p \in 1 .. n : s[p] \notin Keys \ {k} => q < n
  <2>1. /\ Counted(s, Keys \ {k}, n) \in 0 .. n
        /\ \A p \in 1 .. n : s[p] \notin Keys \ {k} => Counted(s, Keys \ {k}, n) < n
    BY <1>2, CountedProperties
  <2> QED BY <2>1
<1>5. k \in ToSet(s) => \E p \in 1 .. n : s[p] = k
  BY DEF ToSet
<1> HIDE DEF u, n
<1>6. Len(u) \in Nat /\ Len(u) <= n /\ (k \in ToSet(s) => Len(u) < n)
  <2>1. k \in ToSet(s) => q < n
    BY <1>4, <1>5
  <2>2. Len(u) = q
    BY <1>3, <1>4
  <2> QED BY <1>2, <2>1, <2>2
<1>7. /\ Append(u, k) \in Seq(Keys) /\ Len(Append(u, k)) = Len(u) + 1 /\ Append(u, k) # <<>>
      /\ ToSet(Append(u, k)) = ToSet(u) \cup {k}
  BY <1>1, AppendProperties, ToSetAppend
<1>8. ToSet(Append(u, k)) = ToSet(s) \cup {k}
  BY <1>1, <1>2, <1>7
<1>9. Head(Append(u, k)) \in Keys
  BY <1>7
<1>10. Len(Append(u, k)) <= n + 1 /\ Len(Append(u, k)) \in Nat /\ (k \in ToSet(s) => Len(Append(u, k)) <= n)
  BY <1>2, <1>6, <1>7
<1> QED BY <1>7, <1>8, <1>9, <1>10 DEF u, n

\* What a key has is replaced; there may be one key too many.
LEMMA CacheFull ==
    ASSUME NEW s, Tidy(s), NEW k \in Keys, NEW b \in Seq(Event), NEW r \in Seq(Keys), ToSet(r) = ToSet(s.recent) \cup {k}
    PROVE  LET t == [s EXCEPT !.recent = r, !.cache = [s.cache EXCEPT ![k] = {b}], !.stale = s.stale \ {k}]
           IN /\ Tidy(t) /\ t.recent = r /\ Moves(s, t, k, {b})
<1> DEFINE c == [s.cache EXCEPT ![k] = {b}]
           d == s.stale \ {k}
           t == [s EXCEPT !.recent = r, !.cache = c, !.stale = d]
<1>1. s \in CacheState /\ s.cache \in [Keys -> SUBSET Seq(Event)] /\ s.stale \in SUBSET Keys
  BY CacheStates DEF Tidy
<1>2. {b} \in SUBSET Seq(Event)
  OBVIOUS
<1>3. c \in [Keys -> SUBSET Seq(Event)] /\ c[k] = {b} /\ \A x \in Keys : x # k => c[x] = s.cache[x]
  BY <1>1, <1>2
<1>4. d \in SUBSET Keys /\ d \subseteq ToSet(r)
  BY <1>1 DEF Tidy
<1> HIDE DEF c, d
<1>5. t \in CacheState /\ t.cache = c /\ t.recent = r /\ t.stale = d /\ t.epoch = s.epoch /\ t.forgot = s.forgot
  BY <1>1, <1>3, <1>4 DEF CacheState
<1> HIDE DEF t
<1>6. Tidy(t)
  <2>1. \A x \in Keys : \A y, z \in c[x] : y = z
    BY <1>3 DEF Tidy
  <2>2. ToSet(r) = {x \in Keys : c[x] # {}}
    <3>1. ToSet(s.recent) = {x \in Keys : s.cache[x] # {}}
      BY DEF Tidy
    <3>2. \A x \in Keys : c[x] # {} <=> (x = k \/ s.cache[x] # {})
      BY <1>3
    <3> QED BY <3>1, <3>2
  <2> QED BY <1>4, <1>5, <2>1, <2>2 DEF Tidy
<1>7. Moves(s, t, k, {b})
  BY <1>3, <1>5 DEF Moves
<1> QED BY <1>5, <1>6, <1>7 DEF t, c, d

\* Two changes to one key are a change to it.
LEMMA MovesOn ==
    ASSUME NEW s, NEW t, NEW u, NEW k, NEW B, Moves(s, t, k, B), Moves(t, u, k, B)
    PROVE  Moves(s, u, k, B)
BY DEF Moves

\* put(): if there is no room then, the key that was not used for longest goes.
LEMMA CachePut ==
    ASSUME NEW s, Tidy(s), Len(s.recent) <= CacheSize, NEW k \in Keys, NEW b \in Seq(Event)
    PROVE  LET t == C!Put(s, k, b)
           IN Tidy(t) /\ Len(t.recent) <= CacheSize /\ Moves(s, t, k, {b})
<1> DEFINE r == Append(Those(s.recent, Keys \ {k}), k)
           u == [s EXCEPT !.recent = r, !.cache = [s.cache EXCEPT ![k] = {b}], !.stale = s.stale \ {k}]
<1>1. s \in CacheState /\ s.recent \in Seq(Keys) /\ Len(s.recent) \in Nat
  BY CacheStates DEF Tidy
<1>2. /\ r \in Seq(Keys) /\ ToSet(r) = ToSet(s.recent) \cup {k} /\ Len(r) <= Len(s.recent) + 1 /\ Len(r) \in Nat
      /\ r # <<>> /\ Head(r) \in Keys
  BY <1>1, CacheRecent
<1>3. C!Used(s, k) = [s EXCEPT !.recent = r]
  BY CacheFields DEF C!Used
<1> HIDE DEF r
<1>4. Tidy(u) /\ u.recent = r /\ Moves(s, u, k, {b})
  BY Zenon, <1>2, CacheFull
<1>5. C!Filled(s, k, b) = u
  BY <1>1, <1>3 DEF CacheState, C!Filled
<1> HIDE DEF u
<1>6. C!Put(s, k, b) = IF Len(r) > CacheSize THEN C!Evict(u, Head(r)) ELSE u
  <2>1. C!Put(s, k, b) = IF Len(u.recent) > CacheSize THEN C!Evict(u, Head(u.recent)) ELSE u
    BY <1>5 DEF C!Put
  <2> QED BY <1>4, <2>1
<1>7. CASE Len(r) > CacheSize
  <2> DEFINE t == C!Evict(u, Head(r))
  <2>1. /\ Tidy(t) /\ Len(t.recent) <= Len(r) /\ Moves(u, t, Head(r), {})
        /\ Len(t.recent) < Len(r)
    BY <1>2, <1>4, CacheEvict
  <2>2. t.recent \in Seq(Keys) /\ Len(t.recent) \in Nat
    BY <2>1, CacheStates DEF Tidy
  <2> HIDE DEF t
  <2>3. Len(t.recent) <= CacheSize
    BY SMTT(30), <1>1, <1>2, <2>1, <2>2, SizesAssumption
  <2>4. Moves(u, t, k, {b})
    BY <2>1 DEF Moves
  <2>5. Moves(s, t, k, {b})
    BY <1>4, <2>4, MovesOn
  <2> QED BY <1>6, <1>7, <2>1, <2>3, <2>5 DEF t
<1>8. CASE ~(Len(r) > CacheSize)
  <2>1. Len(r) <= CacheSize
    BY <1>2, <1>8, SizesAssumption
  <2> QED BY <1>4, <1>6, <1>8, <2>1
<1> QED BY <1>7, <1>8

\* What has expired is dropped when it is looked up.
LEMMA CacheLookup ==
    ASSUME NEW s, Tidy(s), Len(s.recent) <= CacheSize, NEW k \in Keys
    PROVE  LET t == C!Lookup(s, k)
           IN Tidy(t) /\ Len(t.recent) <= CacheSize /\ \A B : Moves(s, t, k, B)
<1>1. s \in CacheState /\ s.recent \in Seq(Keys) /\ Len(s.recent) \in Nat
  BY CacheStates DEF Tidy
<1>2. CASE k \in s.stale
  <2> DEFINE t == C!Evict(s, k)
  <2>1. Tidy(t) /\ Len(t.recent) <= Len(s.recent) /\ \A B : Moves(s, t, k, B)
    BY CacheEvict
  <2>2. t.recent \in Seq(Keys) /\ Len(t.recent) \in Nat
    BY <2>1, CacheStates DEF Tidy
  <2> HIDE DEF t
  <2>3. Len(t.recent) <= CacheSize
    BY <1>1, <2>1, <2>2, SizesAssumption
  <2> QED BY <1>2, <2>1, <2>3 DEF t, C!Lookup
<1>3. CASE k \notin s.stale /\ s.cache[k] # {}
  <2> DEFINE r == Append(Those(s.recent, Keys \ {k}), k)
             t == [s EXCEPT !.recent = r]
  <2>1. k \in ToSet(s.recent)
    BY <1>3 DEF Tidy
  <2>2. r \in Seq(Keys) /\ ToSet(r) = ToSet(s.recent) \cup {k} /\ Len(r) \in Nat /\ Len(r) <= Len(s.recent)
    BY <1>1, <2>1, CacheRecent
  <2>3. C!Lookup(s, k) = t
    BY <1>3, CacheFields DEF C!Lookup, C!Used
  <2> HIDE DEF r
  <2>4. t \in CacheState /\ t.cache = s.cache /\ t.recent = r /\ t.stale = s.stale /\ t.epoch = s.epoch /\ t.forgot = s.forgot
    BY <1>1, <2>2 DEF CacheState
  <2> HIDE DEF t
  <2>5. Tidy(t)
    BY <2>1, <2>2, <2>4 DEF Tidy
  <2>6. \A B : Moves(s, t, k, B)
    BY <2>4 DEF Moves
  <2>7. Len(r) <= CacheSize
    BY <1>1, <2>2, SizesAssumption
  <2> QED BY <2>3, <2>4, <2>5, <2>6, <2>7
<1>4. CASE k \notin s.stale /\ s.cache[k] = {}
  <2>1. C!Lookup(s, k) = s
    BY <1>4 DEF C!Lookup
  <2> QED BY <2>1 DEF Moves
<1> QED BY <1>2, <1>3, <1>4

\* The epochs of some keys are over.
LEMMA CacheInvalidate ==
    ASSUME NEW s, Tidy(s), NEW ks \in SUBSET Keys, \A k \in ks : s.epoch[k] < MaxEpoch
    PROVE  LET t == C!Invalidate(s, ks)
           IN /\ Tidy(t) /\ Len(t.recent) <= Len(s.recent) /\ t.forgot = s.forgot
              /\ \A x \in Keys : /\ t.cache[x] = IF x \in ks THEN {} ELSE s.cache[x]
                                 /\ t.epoch[x] = IF x \in ks THEN s.epoch[x] + 1 ELSE s.epoch[x]
<1> DEFINE u == C!Without(s, ks)
           e == [x \in Keys |-> IF x \in ks THEN u.epoch[x] + 1 ELSE u.epoch[x]]
           t == [u EXCEPT !.epoch = e]
<1>1. /\ Tidy(u) /\ Len(u.recent) <= Len(s.recent) /\ u.epoch = s.epoch /\ u.forgot = s.forgot
      /\ \A x \in Keys : u.cache[x] = IF x \in ks THEN {} ELSE s.cache[x]
  BY CacheWithout
<1>2. C!Invalidate(s, ks) = t
  BY CacheFields DEF C!Invalidate
<1> HIDE DEF u
<1>3. u \in CacheState /\ u.epoch \in [Keys -> CacheEpochs]
  BY <1>1, CacheStates DEF Tidy
<1>4. /\ e \in [Keys -> CacheEpochs]
      /\ \A x \in Keys : e[x] = IF x \in ks THEN s.epoch[x] + 1 ELSE s.epoch[x]
  <2>1. \A x \in Keys : u.epoch[x] \in CacheEpochs
    BY <1>3
  <2>2. \A i \in CacheEpochs : i < MaxEpoch => i + 1 \in CacheEpochs
    BY SizesAssumption DEF CacheEpochs
  <2>3. \A x \in Keys : (IF x \in ks THEN u.epoch[x] + 1 ELSE u.epoch[x]) \in CacheEpochs
    BY <1>1, <2>1, <2>2
  <2> QED BY <1>1, <2>3
<1> HIDE DEF e
<1>5. t \in CacheState /\ t.cache = u.cache /\ t.recent = u.recent /\ t.stale = u.stale /\ t.epoch = e /\ t.forgot = u.forgot
  BY <1>3, <1>4 DEF CacheState
<1> HIDE DEF t
<1>6. Tidy(t)
  BY <1>1, <1>5 DEF Tidy
<1> QED BY <1>1, <1>2, <1>4, <1>5, <1>6

CacheTypes ==
  /\ queue \in Seq(Msg) /\ work \in [Msg -> CacheContext] /\ Tidy(state) /\ Len(state.recent) <= CacheSize
  /\ store \in [Keys -> Seq(Event)] /\ released \in [Msg -> CacheHows]
\* What is queued has been handled and is not stored yet.
CacheQueued ==
  /\ \A p, q \in DOMAIN queue : queue[p] = queue[q] => p = q
  /\ \A m \in Msg : m \in ToSet(queue) <=> work[m].pc = "out" /\ released[m] = "no"
  /\ \A m \in Msg : released[m] = "ok" => work[m].pc = "out"
CacheBases == [m \in Msg |-> work[m].base]
CacheStored ==
  /\ \A k \in Keys : Distinct(store[k]) /\ \A i \in DOMAIN store[k] : store[k][i] # 0 => KeyOf[store[k][i]] = k
  /\ \A m \in Msg : released[m] = "ok" <=> m \in ToSet(store[KeyOf[m]])
  /\ \A k \in Keys \ state.forgot : StoredOn(store[k], CacheBases)
\* Of the first n that are queued, those of a key and of its epoch, and what
\* they were computed from.
QueuedOf(q, w, e, k, n) ==
  {<<q[p], w[q[p]].base>> : p \in {p \in DOMAIN q : p <= n /\ KeyOf[q[p]] = k /\ w[q[p]].epoch = e}}
Queued(k, n) == QueuedOf(queue, work, state.epoch[k], k, n)
CacheBuiltOf(k) ==
  /\ \A m \in Msg : KeyOf[m] = k =>
       /\ work[m].epoch <= state.epoch[k]
       /\ work[m].pc = "loaded" => Built(work[m].base, store[k], {})
       /\ work[m].pc = "handle" /\ work[m].epoch = state.epoch[k] => Built(work[m].base, store[k], Queued(k, Len(queue)))
  /\ \A b \in state.cache[k] : Built(b, store[k], Queued(k, Len(queue)))
  /\ \A p \in DOMAIN queue : KeyOf[queue[p]] = k /\ work[queue[p]].epoch = state.epoch[k]
       => Built(work[queue[p]].base, store[k], Queued(k, p - 1))
CacheBuilt == \A k \in Keys \ state.forgot : CacheBuiltOf(k)
CacheInv == CacheTypes /\ CacheQueued /\ CacheStored /\ CacheBuilt

\* What is built on few pending events is built on more.
LEMMA BuiltMore ==
    ASSUME NEW s, NEW st, NEW P, NEW Q, Built(s, st, P), P \subseteq Q
    PROVE  Built(s, st, Q)
BY DEF Built

\* The contexts of what is queued are the same.
Agree(q, w, v) == \A p \in DOMAIN q : v[q[p]] = w[q[p]]

\* What is queued depends on the contexts of the queue alone.
LEMMA QueuedAgree ==
    ASSUME NEW q, NEW w, NEW v, Agree(q, w, v), NEW e, NEW k, NEW n
    PROVE  QueuedOf(q, v, e, k, n) = QueuedOf(q, w, e, k, n)
BY DEF QueuedOf, Agree

\* The fields of a context.
LEMMA CacheContexts ==
    ASSUME CacheTypes, NEW m \in Msg
    PROVE  /\ work[m] \in CacheContext /\ work[m].base \in Seq(Event) /\ work[m].epoch \in CacheEpochs /\ work[m].pc \in CachePCs
           /\ KeyOf[m] \in Keys /\ store[KeyOf[m]] \in Seq(Event) /\ state.epoch[KeyOf[m]] \in CacheEpochs
<1>1. work[m] \in CacheContext /\ KeyOf[m] \in Keys /\ state.epoch \in [Keys -> CacheEpochs]
  BY CacheFields, CacheStates DEF CacheTypes, Tidy
<1>2. work[m].base \in Seq(Event) /\ work[m].epoch \in CacheEpochs /\ work[m].pc \in CachePCs
  BY <1>1 DEF CacheContext
<1>3. store[KeyOf[m]] \in Seq(Event) /\ state.epoch[KeyOf[m]] \in CacheEpochs
  BY <1>1 DEF CacheTypes
<1> QED BY <1>1, <1>2, <1>3

\* A message that is not out is neither queued nor stored.
LEMMA CacheNotOut ==
    ASSUME CacheInv, NEW m \in Msg, work[m].pc # "out"
    PROVE  /\ \A p \in DOMAIN queue : queue[p] \in Msg /\ queue[p] # m
           /\ \A k \in Keys : \A i \in DOMAIN store[k] : store[k][i] # m
<1>1. \A p \in DOMAIN queue : queue[p] \in Msg /\ queue[p] \in ToSet(queue)
  BY DEF CacheInv, CacheTypes, ToSet
<1>2. \A p \in DOMAIN queue : queue[p] # m
  BY <1>1 DEF CacheInv, CacheQueued
<1>3. ASSUME NEW k \in Keys, NEW i \in DOMAIN store[k], store[k][i] = m
      PROVE  FALSE
  <2>1. KeyOf[m] = k /\ m # 0
    BY <1>3, CacheFields DEF CacheInv, CacheStored
  <2>2. m \in ToSet(store[KeyOf[m]])
    BY <1>3, <2>1 DEF ToSet
  <2> QED BY <2>2 DEF CacheInv, CacheStored, CacheQueued
<1> QED BY <1>1, <1>2, <1>3

\* A step of a handler before its message is out.
LEMMA CacheStep ==
    ASSUME CacheInv, NEW m \in Msg, work[m].pc # "out", NEW c \in CacheContext, c.pc # "out", work' = [work EXCEPT ![m] = c],
           queue' = queue, store' = store, released' = released, Tidy(state'), Len(state'.recent) <= CacheSize,
           NEW B, Moves(state, state', KeyOf[m], B),
           KeyOf[m] \notin state'.forgot =>
             /\ c.epoch <= state.epoch[KeyOf[m]]
             /\ c.pc = "loaded" => Built(c.base, store[KeyOf[m]], {})
             /\ c.pc = "handle" /\ c.epoch = state.epoch[KeyOf[m]]
                  => Built(c.base, store[KeyOf[m]], Queued(KeyOf[m], Len(queue)))
             /\ \A b \in B : Built(b, store[KeyOf[m]], Queued(KeyOf[m], Len(queue)))
    PROVE  CacheInv'
<1>1. /\ work' \in [Msg -> CacheContext] /\ work'[m] = c /\ \A x \in Msg : x # m => work'[x] = work[x]
  BY DEF CacheInv, CacheTypes
<1>2. CacheTypes'
  BY <1>1 DEF CacheInv, CacheTypes
<1>3. /\ \A p \in DOMAIN queue : queue[p] \in Msg /\ queue[p] # m
      /\ \A k \in Keys : \A i \in DOMAIN store[k] : store[k][i] # m
  BY CacheNotOut
<1>4. CacheQueued'
  <2>1. m \notin ToSet(queue)
    BY <1>3 DEF ToSet
  <2>2. \A x \in Msg : x \in ToSet(queue) <=> work'[x].pc = "out" /\ released[x] = "no"
    BY <1>1, <2>1 DEF CacheInv, CacheQueued
  <2>3. \A x \in Msg : released[x] = "ok" => work'[x].pc = "out"
    BY <1>1 DEF CacheInv, CacheQueued
  <2>4. ToSet(queue') = ToSet(queue)
    OBVIOUS
  <2> QED BY <2>2, <2>3, <2>4 DEF CacheInv, CacheQueued
<1>5. state.forgot \subseteq state'.forgot /\ \A k \in Keys \ state'.forgot : k \in Keys \ state.forgot /\ state'.epoch[k] = state.epoch[k]
  BY DEF Moves
<1>6. CacheStored'
  <2>1. ASSUME NEW k \in Keys \ state'.forgot
        PROVE  StoredOn(store[k], CacheBases')
    <3>1. StoredOn(store[k], CacheBases) /\ store[k] \in Seq(Event)
      BY <1>5 DEF CacheInv, CacheStored, CacheTypes
    <3>2. \A i \in DOMAIN store[k] : store[k][i] # 0 => CacheBases'[store[k][i]] = CacheBases[store[k][i]]
      <4>1. TAKE i \in DOMAIN store[k]
      <4>2. HAVE store[k][i] # 0
      <4>3. store[k][i] \in Msg /\ store[k][i] # m
        BY <1>3, <3>1, <4>2 DEF Event
      <4> QED BY <1>1, <4>3 DEF CacheBases
    <3> QED BY <3>1, <3>2 DEF StoredOn
  <2> QED BY <2>1 DEF CacheInv, CacheStored
<1>7. CacheBuilt'
  <2>1. SUFFICES ASSUME NEW k \in Keys \ state'.forgot
                 PROVE  CacheBuiltOf(k)'
    BY DEF CacheBuilt
  <2>2. k \in Keys /\ state'.epoch[k] = state.epoch[k] /\ CacheBuiltOf(k)
    BY <1>5 DEF CacheInv, CacheBuilt
  <2>3. queue \in Seq(Msg) /\ Len(queue) \in Nat /\ DOMAIN queue = 1 .. Len(queue)
    BY DEF CacheInv, CacheTypes
  <2>4. \A n \in 0 .. Len(queue) : QueuedOf(queue, work', state'.epoch[k], k, n) = Queued(k, n)
    <3>1. PICK v, w, e : v = work' /\ w = work /\ e = state.epoch[k]
      OBVIOUS
    <3>2. Agree(queue, w, v)
      BY <1>1, <1>3, <3>1 DEF Agree
    <3>3. \A n : QueuedOf(queue, v, e, k, n) = QueuedOf(queue, w, e, k, n)
      BY <3>2, QueuedAgree
    <3> QED BY <2>2, <3>1, <3>3 DEF Queued
  <2>5. Len(queue) \in 0 .. Len(queue) /\ \A p \in DOMAIN queue : p - 1 \in 0 .. Len(queue)
    BY <2>3
  <2>6. Queued(k, Len(queue))' = Queued(k, Len(queue)) /\ \A p \in DOMAIN queue : Queued(k, p - 1)' = Queued(k, p - 1)
    BY <2>4, <2>5 DEF Queued
  <2>7. ASSUME NEW x \in Msg, KeyOf[x] = k
        PROVE  /\ work'[x].epoch <= state'.epoch[k]
               /\ work'[x].pc = "loaded" => Built(work'[x].base, store[k], {})
               /\ work'[x].pc = "handle" /\ work'[x].epoch = state'.epoch[k]
                    => Built(work'[x].base, store[k], Queued(k, Len(queue)))
    <3>1. CASE x = m
      BY <1>1, <2>2, <2>7, <3>1
    <3>2. CASE x # m
      BY <1>1, <2>2, <2>7, <3>2 DEF CacheBuiltOf
    <3> QED BY <3>1, <3>2
  <2>8. \A b \in state'.cache[k] : Built(b, store[k], Queued(k, Len(queue)))
    BY <2>2 DEF Moves, CacheBuiltOf
  <2>9. \A p \in DOMAIN queue : KeyOf[queue[p]] = k /\ work'[queue[p]].epoch = state'.epoch[k]
          => Built(work'[queue[p]].base, store[k], Queued(k, p - 1))
    BY <1>1, <1>3, <2>2 DEF CacheBuiltOf
  <2>10. queue' = queue /\ store' = store
    OBVIOUS
  <2> QED BY <2>6, <2>7, <2>8, <2>9, <2>10 DEF CacheBuiltOf
<1> QED BY <1>2, <1>4, <1>6, <1>7 DEF CacheInv

\* The state is read from the cache, if it is there.
LEMMA CacheGet ==
    ASSUME CacheInv, NEW m \in Msg, C!Get(m)
    PROVE  CacheInv'
<1> DEFINE k == KeyOf[m]
           t == C!Lookup(state, k)
           b == CHOOSE s \in t.cache[k] : TRUE
           c == IF t.cache[k] = {} THEN [C!Fresh EXCEPT !.pc = "loading", !.epoch = state.epoch[k]]
                ELSE [pc |-> "handle", base |-> b, epoch |-> state.epoch[k]]
<1>1. /\ work[m].pc = "get" /\ state' = t /\ work' = [work EXCEPT ![m] = c]
      /\ queue' = queue /\ store' = store /\ released' = released
  BY DEF C!Get
<1>2. k \in Keys /\ state.epoch[k] \in CacheEpochs /\ CacheTypes
  BY CacheContexts DEF CacheInv
<1>3. Tidy(t) /\ Len(t.recent) <= CacheSize /\ Moves(state, t, k, {})
  BY <1>2, CacheLookup DEF CacheTypes
<1>4. t.cache \in [Keys -> SUBSET Seq(Event)]
  BY <1>3, CacheStates DEF Tidy
<1> HIDE DEF t, k
<1>5. t.cache[k] # {} => b \in t.cache[k] /\ b \in Seq(Event)
  BY <1>2, <1>4
<1>6. t.cache[k] # {} /\ k \notin t.forgot => Built(b, store[k], Queued(k, Len(queue)))
  BY <1>2, <1>3, <1>5 DEF Moves, CacheInv, CacheBuilt, CacheBuiltOf
<1>7. c \in CacheContext /\ c.epoch = state.epoch[k] /\ c.pc \in {"loading", "handle"}
  BY <1>2, <1>5, CacheFields DEF CacheContext, C!Fresh
<1>8. c.pc = "handle" => t.cache[k] # {} /\ c.base = b
  BY DEF C!Fresh
<1>9. state.epoch[k] <= state.epoch[k]
  <2>1. \A i \in CacheEpochs : i <= i
    BY DEF CacheEpochs
  <2> QED BY <1>2, <2>1
<1> HIDE DEF b, c
<1>10. /\ Tidy(state') /\ Len(state'.recent) <= CacheSize /\ Moves(state, state', k, {}) /\ work[m].pc # "out" /\ c.pc # "out"
       /\ c.pc # "loaded" /\ c.epoch <= state.epoch[k]
       /\ k \notin state'.forgot /\ c.pc = "handle" => Built(c.base, store[k], Queued(k, Len(queue)))
  BY <1>1, <1>3, <1>6, <1>7, <1>8, <1>9
<1>11. k = KeyOf[m]
  BY DEF k
<1> QED BY <1>1, <1>7, <1>10, <1>11, CacheStep

\* The state is loaded from the store.
LEMMA CacheLoad ==
    ASSUME CacheInv, NEW m \in Msg, C!Load(m)
    PROVE  CacheInv'
<1> DEFINE k == KeyOf[m]
           c == [work[m] EXCEPT !.pc = "loaded", !.base = store[k]]
<1>1. k \in Keys /\ store[k] \in Seq(Event) /\ CacheTypes /\ work \in [Msg -> CacheContext] /\ work[m] \in CacheContext
  BY CacheContexts DEF CacheInv, CacheTypes
<1>2. /\ work[m].pc = "loading" /\ work' = [work EXCEPT ![m] = c]
      /\ queue' = queue /\ store' = store /\ released' = released /\ state' = state
  BY <1>1 DEF C!Load
<1>3. c \in CacheContext /\ c.pc = "loaded" /\ c.base = store[k] /\ c.epoch = work[m].epoch
  BY <1>1, CacheFields DEF CacheContext
<1>4. k \notin state.forgot => work[m].epoch <= state.epoch[k]
  BY <1>1 DEF CacheInv, CacheBuilt, CacheBuiltOf
<1>5. Built(store[k], store[k], {})
  BY DEF Built
<1> HIDE DEF c, k
<1>6. /\ Tidy(state') /\ Len(state'.recent) <= CacheSize /\ Moves(state, state', k, {}) /\ work[m].pc # "out" /\ c.pc # "out"
      /\ c.pc # "handle" /\ (k \notin state'.forgot => c.epoch <= state.epoch[k]) /\ Built(c.base, store[k], {})
  BY <1>1, <1>2, <1>3, <1>4, <1>5 DEF Moves, CacheTypes
<1>7. k = KeyOf[m]
  BY DEF k
<1> QED BY <1>2, <1>3, <1>6, <1>7, CacheStep

\* The state that was loaded is put into the cache.
LEMMA CacheLoaded ==
    ASSUME CacheInv, NEW m \in Msg, C!Loaded(m)
    PROVE  CacheInv'
<1> DEFINE k == KeyOf[m]
           b == work[m].base
           c == [work[m] EXCEPT !.pc = "handle"]
<1>1. /\ k \in Keys /\ store[k] \in Seq(Event) /\ CacheTypes /\ work \in [Msg -> CacheContext] /\ work[m] \in CacheContext
      /\ b \in Seq(Event)
  BY CacheContexts DEF CacheInv, CacheTypes
<1>2. /\ work[m].pc = "loaded" /\ work' = [work EXCEPT ![m] = c]
      /\ queue' = queue /\ store' = store /\ released' = released
      /\ state' = IF C!Has(state, k) THEN state ELSE C!Put(state, k, b)
  BY <1>1 DEF C!Loaded, C!At
<1>3. c \in CacheContext /\ c.pc = "handle" /\ c.base = b /\ c.epoch = work[m].epoch
  BY <1>1, CacheFields DEF CacheContext
<1>4. Tidy(state') /\ Len(state'.recent) <= CacheSize /\ Moves(state, state', k, {b})
  <2>1. CASE C!Has(state, k)
    BY <1>1, <1>2, <2>1 DEF CacheTypes, Moves
  <2>2. CASE ~C!Has(state, k)
    <3> DEFINE t == C!Put(state, k, b)
    <3>1. Tidy(t) /\ Len(t.recent) <= CacheSize /\ Moves(state, t, k, {b})
      BY <1>1, CachePut DEF CacheTypes
    <3> QED BY <1>2, <2>2, <3>1
  <2> QED BY <2>1, <2>2
<1>5. k \notin state.forgot => work[m].epoch <= state.epoch[k] /\ Built(b, store[k], {})
  BY <1>1, <1>2 DEF CacheInv, CacheBuilt, CacheBuiltOf
<1>6. k \notin state.forgot => Built(b, store[k], Queued(k, Len(queue)))
  BY <1>5, BuiltMore
<1>7. state.forgot \subseteq state'.forgot
  BY <1>4 DEF Moves
<1> HIDE DEF c, k, b
<1>8. /\ work[m].pc # "out" /\ c.pc # "out" /\ c.pc # "loaded"
      /\ k \notin state'.forgot => /\ c.epoch <= state.epoch[k] /\ Built(c.base, store[k], Queued(k, Len(queue)))
                                   /\ \A x \in {b} : Built(x, store[k], Queued(k, Len(queue)))
  BY <1>2, <1>3, <1>5, <1>6, <1>7
<1>9. k = KeyOf[m]
  BY DEF k
<1> QED BY <1>2, <1>3, <1>4, <1>8, <1>9, CacheStep

\* No own event is stored twice when none of the new ones is stored yet.
LEMMA DistinctGrows ==
    ASSUME NEW st \in Seq(Event), NEW t \in Seq(Event), Distinct(st), Distinct(t),
           \A j \in DOMAIN t : t[j] # 0 => t[j] \notin ToSet(st)
    PROVE  Distinct(st \o t)
<1> DEFINE u == st \o t
<1>1. /\ u \in Seq(Event) /\ DOMAIN u = 1 .. Len(st) + Len(t) /\ Len(st) \in Nat /\ Len(t) \in Nat
      /\ DOMAIN st = 1 .. Len(st) /\ DOMAIN t = 1 .. Len(t)
      /\ \A i \in 1 .. Len(st) + Len(t) : u[i] = IF i <= Len(st) THEN st[i] ELSE t[i - Len(st)]
  BY ConcatElements
<1>2. \A i \in DOMAIN u : \/ i \in DOMAIN st /\ u[i] = st[i]
                          \/ i - Len(st) \in DOMAIN t /\ u[i] = t[i - Len(st)] /\ i = Len(st) + (i - Len(st))
  BY <1>1
<1>3. SUFFICES ASSUME NEW i \in DOMAIN u, NEW j \in DOMAIN u, u[i] = u[j], u[i] # 0
               PROVE  i = j
  BY DEF Distinct
<1>4. \A h \in DOMAIN st : st[h] \in ToSet(st)
  BY DEF ToSet
<1> HIDE DEF u
<1>5. CASE i \in DOMAIN st /\ u[i] = st[i] /\ j \in DOMAIN st /\ u[j] = st[j]
  BY <1>3, <1>5 DEF Distinct
<1>6. CASE i - Len(st) \in DOMAIN t /\ u[i] = t[i - Len(st)] /\ j - Len(st) \in DOMAIN t /\ u[j] = t[j - Len(st)]
  <2>1. i - Len(st) = j - Len(st)
    BY <1>3, <1>6 DEF Distinct
  <2> QED BY <1>1, <2>1
<1> QED BY <1>2, <1>3, <1>4, <1>5, <1>6

\* The cache takes what a handler computed if it is of the epoch of its key.
LEMMA CacheOffered ==
    ASSUME CacheInv, NEW m \in Msg
    PROVE  LET k == KeyOf[m]
               t == C!Offered(m)
               B == IF state.epoch[k] = work[m].epoch THEN {Append(work[m].base, m)} ELSE {}
           IN Tidy(t) /\ Len(t.recent) <= CacheSize /\ Moves(state, t, k, B)
<1> DEFINE k == KeyOf[m]
           b == work[m].base
           a == Append(b, m)
           u == C!Lookup(state, k)
           w == C!Put(u, k, a)
           t == C!Offered(m)
<1>1. CacheTypes /\ k \in Keys /\ b \in Seq(Event)
  BY CacheContexts DEF CacheInv
<1>2. a \in Seq(Event)
  <2>1. m \in Event
    BY CacheFields
  <2> QED BY <1>1, <2>1
<1>3. CASE state.epoch[k] # work[m].epoch
  <2>1. t = state
    BY <1>3 DEF C!Offered
  <2>2. Tidy(t) /\ Len(t.recent) <= CacheSize /\ Moves(state, t, k, {})
    BY <1>1, <2>1 DEF CacheTypes, Moves
  <2> QED BY <1>3, <2>2
<1>4. CASE state.epoch[k] = work[m].epoch
  <2>1. Tidy(u) /\ Len(u.recent) <= CacheSize /\ Moves(state, u, k, {a})
    BY <1>1, CacheLookup DEF CacheTypes
  <2>2. t = w \/ t = u
    BY <1>4 DEF C!Offered
  <2> HIDE DEF u, a, t, k
  <2>3. Tidy(w) /\ Len(w.recent) <= CacheSize /\ Moves(u, w, k, {a})
    BY <1>1, <1>2, <2>1, CachePut
  <2> HIDE DEF w
  <2>4. Moves(state, w, k, {a})
    BY <2>1, <2>3, MovesOn
  <2>5. Tidy(t) /\ Len(t.recent) <= CacheSize /\ Moves(state, t, k, {a})
    BY <2>1, <2>2, <2>3, <2>4
  <2> QED BY <1>4, <2>5 DEF a, t, k
<1> QED BY <1>3, <1>4

\* The last that is queued comes after all others of its key.
LEMMA QueuedGrows ==
    ASSUME NEW q \in Seq(Msg), NEW w, NEW e, NEW k, NEW m \in Msg
    PROVE  LET r == Append(q, m)
           IN /\ QueuedOf(q, w, e, k, Len(q)) \subseteq QueuedOf(r, w, e, k, Len(r))
              /\ KeyOf[m] = k /\ w[m].epoch = e => <<m, w[m].base>> \in QueuedOf(r, w, e, k, Len(r))
<1> DEFINE r == Append(q, m)
<1>1. /\ r \in Seq(Msg) /\ Len(r) = Len(q) + 1 /\ r[Len(q) + 1] = m /\ \A p \in 1 .. Len(q) : r[p] = q[p]
      /\ Len(q) \in Nat
  BY AppendProperties
<1> HIDE DEF r
<1>2. /\ \A p \in 1 .. Len(q) : p \in DOMAIN q /\ p \in DOMAIN r /\ p <= Len(r)
      /\ Len(r) \in DOMAIN r /\ r[Len(r)] = m /\ Len(r) <= Len(r) /\ DOMAIN q = 1 .. Len(q)
  BY <1>1

<1>4. QueuedOf(q, w, e, k, Len(q)) \subseteq QueuedOf(r, w, e, k, Len(r))
  <2>1. \A p \in DOMAIN q : p \in DOMAIN r /\ p <= Len(r) /\ r[p] = q[p]
    BY <1>1, <1>2
  <2> QED BY <2>1 DEF QueuedOf
<1>5. KeyOf[m] = k /\ w[m].epoch = e => <<m, w[m].base>> \in QueuedOf(r, w, e, k, Len(r))
  BY <1>2 DEF QueuedOf
<1> QED BY <1>4, <1>5 DEF r

\* What comes last in the queue changes nothing before it.
LEMMA QueuedBefore ==
    ASSUME NEW q \in Seq(Msg), NEW w, NEW e, NEW k, NEW m \in Msg, NEW n \in 0 .. Len(q)
    PROVE  QueuedOf(Append(q, m), w, e, k, n) = QueuedOf(q, w, e, k, n)
<1> DEFINE r == Append(q, m)
<1>1. /\ r \in Seq(Msg) /\ Len(r) = Len(q) + 1 /\ \A p \in 1 .. Len(q) : r[p] = q[p]
      /\ Len(q) \in Nat
  BY AppendProperties
<1> HIDE DEF r
<1>2. \A p \in DOMAIN r : p <= n => p \in 1 .. Len(q)
  BY <1>1
<1>3. \A p \in 1 .. Len(q) : p \in DOMAIN q /\ p \in DOMAIN r
  BY <1>1
<1>4. \A p \in DOMAIN r : p <= n => p \in DOMAIN q /\ r[p] = q[p]
  BY <1>1, <1>2, <1>3
<1>5. \A p \in DOMAIN q : p \in DOMAIN r /\ r[p] = q[p]
  BY <1>1, <1>3
<1> QED BY <1>4, <1>5 DEF QueuedOf, r

\* A message is handled: its output is queued and cached, with the epoch of
\* its key.
LEMMA CacheHandle ==
    ASSUME CacheInv, NEW m \in Msg, C!Handle(m)
    PROVE  CacheInv'
<1> DEFINE k == KeyOf[m]
           b == work[m].base
           B == IF state.epoch[k] = work[m].epoch THEN {Append(b, m)} ELSE {}
           N == Len(queue)
<1>1. /\ k \in Keys /\ CacheTypes /\ work \in [Msg -> CacheContext] /\ work[m] \in CacheContext
      /\ b \in Seq(Event) /\ queue \in Seq(Msg) /\ N \in Nat /\ DOMAIN queue = 1 .. N
  BY CacheContexts DEF CacheInv, CacheTypes
<1>2. /\ work[m].pc = "handle" /\ work' = [work EXCEPT ![m].pc = "out"]
      /\ queue' = Append(queue, m) /\ store' = store /\ released' = released /\ state' = C!Offered(m)
  BY <1>1 DEF C!Handle, C!At
<1>3. /\ work' \in [Msg -> CacheContext] /\ work'[m].pc = "out" /\ work'[m].base = b /\ work'[m].epoch = work[m].epoch
      /\ \A x \in Msg : x # m => work'[x] = work[x]
  <2> DEFINE c == [work[m] EXCEPT !.pc = "out"]
  <2>1. c \in CacheContext /\ c.pc = "out" /\ c.base = b /\ c.epoch = work[m].epoch
    BY <1>1, CacheFields DEF CacheContext
  <2>2. work' = [work EXCEPT ![m] = c]
    BY <1>1, <1>2
  <2> HIDE DEF c
  <2> QED BY <1>1, <2>1, <2>2
<1>4. Tidy(state') /\ Len(state'.recent) <= CacheSize /\ Moves(state, state', k, B)
  BY <1>2, CacheOffered
<1>5. /\ queue' \in Seq(Msg) /\ Len(queue') = N + 1 /\ queue'[N + 1] = m /\ \A p \in 1 .. N : queue'[p] = queue[p]
      /\ DOMAIN queue' = 1 .. N + 1 /\ ToSet(queue') = ToSet(queue) \cup {m}
  BY <1>1, <1>2, AppendProperties, ToSetAppend
<1>6. /\ \A p \in DOMAIN queue : queue[p] \in Msg /\ queue[p] # m
      /\ \A x \in Keys : \A i \in DOMAIN store[x] : store[x][i] # m
  BY <1>2, CacheNotOut
<1>7. CacheTypes'
  BY <1>1, <1>2, <1>3, <1>4, <1>5 DEF CacheTypes
<1>8. CacheQueued'
  <2>1. \A p, q \in DOMAIN queue' : queue'[p] = queue'[q] => p = q
    <3>1. \A p \in DOMAIN queue' : p \in DOMAIN queue \/ p = N + 1
      BY <1>1, <1>5
    <3>2. \A p, q \in DOMAIN queue : queue[p] = queue[q] => p = q
      BY DEF CacheInv, CacheQueued
    <3> QED BY <1>1, <1>5, <1>6, <3>1, <3>2
  <2>2. released[m] = "no"
    <3>1. released[m] \in {"no", "ok"}
      BY <1>1 DEF CacheTypes, CacheHows
    <3>2. released[m] # "ok"
      BY <1>2 DEF CacheInv, CacheQueued
    <3> QED BY <3>1, <3>2
  <2>3. \A x \in Msg : x \in ToSet(queue') <=> work'[x].pc = "out" /\ released[x] = "no"
    <3>1. \A x \in Msg : x \in ToSet(queue) <=> work[x].pc = "out" /\ released[x] = "no"
      BY DEF CacheInv, CacheQueued
    <3> QED BY <1>3, <1>5, <2>2, <3>1
  <2>4. \A x \in Msg : released[x] = "ok" => work'[x].pc = "out"
    BY <1>3 DEF CacheInv, CacheQueued
  <2> QED BY <1>2, <2>1, <2>3, <2>4 DEF CacheQueued
<1>9. state.forgot \subseteq state'.forgot /\ \A x \in Keys \ state'.forgot : x \in Keys \ state.forgot /\ state'.epoch[x] = state.epoch[x]
  BY <1>4 DEF Moves
<1>10. CacheStored'
  <2>1. \A x \in Msg : work'[x].base = work[x].base
    BY <1>3
  <2>2. CacheBases' = CacheBases
    BY <2>1 DEF CacheBases
  <2> QED BY <1>2, <1>9, <2>2 DEF CacheInv, CacheStored
<1> HIDE DEF k, N, B
<1>11. ASSUME NEW x \in Keys \ state'.forgot
       PROVE  CacheBuiltOf(x)'
  <2>1. x \in Keys /\ state'.epoch[x] = state.epoch[x] /\ CacheBuiltOf(x) /\ store[x] \in Seq(Event)
    BY <1>1, <1>9 DEF CacheInv, CacheBuilt, CacheTypes
  <2>2. PICK e, Q : e = state.epoch[x] /\ Q = QueuedOf(queue, work, e, x, N)
    OBVIOUS
  <2>3. PICK P : P = QueuedOf(queue', work', e, x, N + 1)
    OBVIOUS
  <2>4. /\ \A n \in 0 .. N : QueuedOf(queue', work', e, x, n) = QueuedOf(queue, work, e, x, n)
        /\ Q \subseteq P /\ (k = x /\ work'[m].epoch = e => <<m, b>> \in P)
    <3>1. PICK q, v, w, f : q = queue /\ v = work' /\ w = work /\ f = e
      OBVIOUS
    <3>2. Agree(q, w, v) /\ q \in Seq(Msg)
      BY <1>1, <1>3, <1>6, <3>1 DEF Agree
    <3>3. \A n : QueuedOf(q, v, f, x, n) = QueuedOf(q, w, f, x, n)
      BY <3>2, QueuedAgree
    <3>4. PICK r : r = Append(q, m)
      OBVIOUS
    <3>5. /\ \A n \in 0 .. Len(q) : QueuedOf(r, v, f, x, n) = QueuedOf(q, v, f, x, n)
          /\ QueuedOf(q, v, f, x, Len(q)) \subseteq QueuedOf(r, v, f, x, Len(r))
          /\ KeyOf[m] = x /\ v[m].epoch = f => <<m, v[m].base>> \in QueuedOf(r, v, f, x, Len(r))
      <4>1. \A n \in 0 .. Len(q) : QueuedOf(Append(q, m), v, f, x, n) = QueuedOf(q, v, f, x, n)
        BY <3>2, QueuedBefore
      <4>2. QueuedOf(q, v, f, x, Len(q)) \subseteq QueuedOf(Append(q, m), v, f, x, Len(Append(q, m)))
        BY <3>2, QueuedGrows
      <4>3. KeyOf[m] = x /\ v[m].epoch = f => <<m, v[m].base>> \in QueuedOf(Append(q, m), v, f, x, Len(Append(q, m)))
        BY <3>2, QueuedGrows
      <4> QED BY <3>4, <4>1, <4>2, <4>3
    <3>6. r = queue' /\ Len(r) = N + 1 /\ Len(q) = N
      BY <1>2, <1>5, <3>1, <3>4 DEF N
    <3> QED BY <1>3, <2>2, <2>3, <3>1, <3>3, <3>5, <3>6 DEF k
  <2>5. /\ \A n \in 0 .. N : Queued(x, n)' = Queued(x, n)
        /\ Q = Queued(x, N) /\ P = Queued(x, Len(queue))' /\ e = state'.epoch[x]
    BY <1>5, <2>1, <2>2, <2>3, <2>4 DEF Queued
  <2>6. k = x /\ work[m].epoch = e => Built(b, store[x], Q)
    BY <1>2, <2>1, <2>2, <2>5 DEF CacheBuiltOf, k, N
  <2>7. ASSUME NEW y \in Msg, KeyOf[y] = x
        PROVE  /\ work'[y].epoch <= e
               /\ work'[y].pc = "loaded" => Built(work'[y].base, store[x], {})
               /\ work'[y].pc = "handle" /\ work'[y].epoch = e => Built(work'[y].base, store[x], P)
    <3>0. /\ work[y].epoch <= e
          /\ work[y].pc = "loaded" => Built(work[y].base, store[x], {})
          /\ work[y].pc = "handle" /\ work[y].epoch = e => Built(work[y].base, store[x], Q)
      BY <2>1, <2>2, <2>5, <2>7 DEF CacheBuiltOf, N
    <3>1. CASE y = m
      BY <1>3, <3>0, <3>1
    <3>2. CASE y # m
      <4>1. \A s : Built(s, store[x], Q) => Built(s, store[x], P)
        BY <2>4, BuiltMore
      <4> QED BY <1>3, <3>0, <3>2, <4>1
    <3> QED BY <3>1, <3>2
  <2>8. ASSUME NEW s \in state'.cache[x]
        PROVE  Built(s, store[x], P)
    <3>1. CASE s \in state.cache[x]
      <4>1. Built(s, store[x], Q)
        BY <2>1, <2>5, <3>1 DEF CacheBuiltOf, N
      <4> QED BY <2>4, <4>1, BuiltMore
    <3>2. CASE x = k /\ s \in B
      <4>1. s = Append(b, m) /\ work[m].epoch = e
        BY <2>2, <3>2 DEF B
      <4>2. Built(b, store[x], P) /\ <<m, b>> \in P
        BY <1>3, <2>4, <2>6, <3>2, <4>1, BuiltMore
      <4>3. m \in Event
        BY CacheFields
      <4> QED BY <1>1, <2>1, <4>1, <4>2, <4>3, BuiltAppend
    <3> QED BY <1>4, <2>1, <3>1, <3>2 DEF Moves
  <2>9. ASSUME NEW p \in DOMAIN queue', KeyOf[queue'[p]] = x, work'[queue'[p]].epoch = e
        PROVE  Built(work'[queue'[p]].base, store[x], Queued(x, p - 1)')
    <3>1. CASE p \in DOMAIN queue
      <4>1. queue'[p] = queue[p] /\ work'[queue[p]] = work[queue[p]] /\ p - 1 \in 0 .. N
        BY <1>1, <1>3, <1>5, <1>6, <3>1
      <4>2. Built(work[queue[p]].base, store[x], Queued(x, p - 1))
        BY <2>1, <2>2, <2>9, <3>1, <4>1 DEF CacheBuiltOf
      <4> QED BY <2>5, <4>1, <4>2
    <3>2. CASE p = N + 1
      <4>1. queue'[p] = m /\ p - 1 = N /\ N \in 0 .. N
        BY <1>1, <1>5, <3>2
      <4>2. Built(b, store[x], Q)
        BY <1>3, <2>6, <2>9, <4>1 DEF k
      <4> QED BY <1>3, <2>5, <4>1, <4>2
    <3> QED BY <1>1, <1>5, <3>1, <3>2
  <2> QED BY <1>2, <2>5, <2>7, <2>8, <2>9 DEF CacheBuiltOf
<1> QED BY <1>7, <1>8, <1>10, <1>11 DEF CacheInv, CacheBuilt

\* A key leaves the cache because its time is over.
LEMMA CacheExpire ==
    ASSUME CacheInv, C!Expire
    PROVE  CacheInv'
<1>1. PICK k \in ToSet(state.recent) : state' = [state EXCEPT !.stale = state.stale \cup {k}]
  BY CacheFields DEF C!Expire
<1>2. queue' = queue /\ work' = work /\ store' = store /\ released' = released
  BY DEF C!Expire
<1>3. state \in CacheState /\ state.stale \in SUBSET Keys /\ state.recent \in Seq(Keys)
  BY CacheStates DEF CacheInv, CacheTypes, Tidy
<1> DEFINE d == state.stale \cup {k}
<1>4. d \in SUBSET Keys
  BY <1>3 DEF ToSet
<1>5. d \subseteq ToSet(state.recent)
  BY DEF CacheInv, CacheTypes, Tidy
<1> HIDE DEF d
<1>6. /\ state' \in CacheState /\ state'.epoch = state.epoch /\ state'.cache = state.cache /\ state'.recent = state.recent
      /\ state'.stale = d /\ state'.forgot = state.forgot
  BY <1>1, <1>3, <1>4 DEF CacheState, d
<1>7. Tidy(state') /\ Len(state'.recent) <= CacheSize
  BY <1>5, <1>6 DEF CacheInv, CacheTypes, Tidy
<1>8. CacheTypes'
  BY <1>2, <1>7 DEF CacheInv, CacheTypes
<1>9. CacheQueued'
  BY <1>2 DEF CacheInv, CacheQueued
<1>10. CacheStored'
  BY <1>2, <1>6 DEF CacheInv, CacheStored, CacheBases
<1>11. CacheBuilt'
  BY <1>2, <1>6 DEF CacheInv, CacheBuilt, CacheBuiltOf, Queued
<1> QED BY <1>8, <1>9, <1>10, <1>11 DEF CacheInv

\* Another process appends.
LEMMA CacheOtherAppends ==
    ASSUME CacheInv, C!OtherAppends
    PROVE  CacheInv'
<1>1. PICK k \in Keys : store' = [store EXCEPT ![k] = Append(store[k], 0)]
  BY CacheFields DEF C!OtherAppends
<1>2. queue' = queue /\ work' = work /\ state' = state /\ released' = released
  BY DEF C!OtherAppends
<1>3. CacheTypes /\ \A x \in Keys : store[x] \in Seq(Event) /\ Distinct(store[x])
  BY DEF CacheInv, CacheTypes, CacheStored
<1>4. <<0>> \in Seq(Event) /\ Append(store[k], 0) = store[k] \o <<0>> /\ store[k] \o <<0>> \in Seq(Event)
  BY <1>3, OneMore, CacheFields
<1>5. \A x \in Keys : store'[x] = store[x] \/ store'[x] = store[x] \o <<0>>
  BY <1>1, <1>3, <1>4 DEF CacheTypes
<1>6. CacheTypes'
  BY <1>1, <1>2, <1>3, <1>4 DEF CacheTypes
<1>7. CacheQueued'
  BY <1>2 DEF CacheInv, CacheQueued
<1>8. ASSUME NEW x \in Keys
      PROVE  \A s \in Seq(Event) : \A P : Built(s, store[x], P) => Built(s, store'[x], P)
  <2>1. \A s \in Seq(Event) : \A P : Built(s, store[x], P) => Built(s, store[x] \o <<0>>, P)
    <3>1. TAKE s \in Seq(Event)
    <3>2. TAKE P
    <3>3. HAVE Built(s, store[x], P)
    <3>4. PICK st \in Seq(Event) : st = store[x]
      BY <1>3
    <3>5. PICK t \in Seq(Event) : t = <<0>>
      BY <1>4
    <3>6. Built(s, st \o t, P)
      BY <3>3, <3>4, BuiltGrows
    <3> QED BY <3>4, <3>5, <3>6
  <2> QED BY <1>5, <2>1
<1>9. ASSUME NEW x \in Keys
      PROVE  /\ Distinct(store'[x]) /\ \A e \in ToSet(store'[x]) : e \in ToSet(store[x]) \/ e = 0
             /\ ToSet(store[x]) \subseteq ToSet(store'[x])
             /\ \A b : StoredOn(store[x], b) => StoredOn(store'[x], b)
  <2>1. CASE store'[x] = store[x]
    BY <1>3, <2>1
  <2>2. CASE store'[x] = store[x] \o <<0>>
    <3>1. DOMAIN <<0>> = {1} /\ <<0>>[1] = 0
      OBVIOUS
    <3>2. Distinct(<<0>>) /\ \A j \in DOMAIN <<0>> : <<0>>[j] # 0 => <<0>>[j] \notin ToSet(store[x])
      BY <3>1 DEF Distinct
    <3>3. Distinct(store[x] \o <<0>>)
      <4>1. PICK s \in Seq(Event) : s = store[x]
        BY <1>3
      <4>2. PICK t \in Seq(Event) : t = <<0>>
        BY <1>4
      <4>3. Distinct(s) /\ Distinct(t) /\ \A j \in DOMAIN t : t[j] # 0 => t[j] \notin ToSet(s)
        BY <1>3, <3>2, <4>1, <4>2
      <4>4. Distinct(s \o t)
        BY ONLY <4>1, <4>2, <4>3, DistinctGrows
      <4> QED BY <4>1, <4>2, <4>4
    <3>4. ToSet(store[x] \o <<0>>) = ToSet(store[x]) \cup ToSet(<<0>>) /\ ToSet(<<0>>) = {0}
      <4>1. ToSet(<<0>>) = {0}
        BY <3>1 DEF ToSet
      <4>2. PICK s \in Seq(Event) : s = store[x]
        BY <1>3
      <4>3. PICK t \in Seq(Event) : t = <<0>>
        BY <1>4
      <4>4. ToSet(s \o t) = ToSet(s) \cup ToSet(t)
        BY ToSetConcat
      <4> QED BY <4>1, <4>2, <4>3, <4>4
    <3>5. \A b : StoredOn(store[x], b) => StoredOn(store[x] \o <<0>>, b)
      BY <1>3, OtherGrows
    <3> QED BY <2>2, <3>3, <3>4, <3>5
  <2> QED BY <1>5, <2>1, <2>2
<1>10. CacheStored'
  <2>1. \A x \in Keys : \A i \in DOMAIN store'[x] : store'[x][i] # 0 => KeyOf[store'[x][i]] = x
    <3>1. SUFFICES ASSUME NEW x \in Keys, NEW i \in DOMAIN store'[x], store'[x][i] # 0
                   PROVE  KeyOf[store'[x][i]] = x
      OBVIOUS
    <3>2. store'[x][i] \in ToSet(store'[x])
      BY DEF ToSet
    <3>3. store'[x][i] \in ToSet(store[x])
      BY <1>9, <3>1, <3>2
    <3>4. PICK j \in DOMAIN store[x] : store[x][j] = store'[x][i]
      BY <3>3 DEF ToSet
    <3>5. store[x][j] # 0 => KeyOf[store[x][j]] = x
      BY DEF CacheInv, CacheStored
    <3> QED BY <3>1, <3>4, <3>5
  <2>2. \A m \in Msg : m \in ToSet(store'[KeyOf[m]]) <=> m \in ToSet(store[KeyOf[m]])
    BY <1>9, CacheFields
  <2>3. \A m \in Msg : released'[m] = "ok" <=> m \in ToSet(store'[KeyOf[m]])
    BY <1>2, <2>2 DEF CacheInv, CacheStored
  <2>4. CacheBases' = CacheBases /\ state'.forgot = state.forgot
    BY <1>2 DEF CacheBases
  <2>5. \A x \in Keys \ state'.forgot : StoredOn(store'[x], CacheBases')
    BY <1>9, <2>4 DEF CacheInv, CacheStored
  <2>6. \A x \in Keys : Distinct(store'[x])
    BY <1>9
  <2> QED BY <2>1, <2>3, <2>5, <2>6 DEF CacheStored
<1>11. ASSUME NEW x \in Keys \ state.forgot
       PROVE  CacheBuiltOf(x)'
  <2>1. CacheBuiltOf(x) /\ x \in Keys
    BY DEF CacheInv, CacheBuilt
  <2>2. state.cache \in [Keys -> SUBSET Seq(Event)] /\ \A m \in Msg : work[m].base \in Seq(Event)
    BY <1>3, CacheStates, CacheContexts DEF CacheTypes, Tidy
  <2>3. \A n : Queued(x, n)' = Queued(x, n)
    BY <1>2 DEF Queued
  <2>4. \A m \in Msg : KeyOf[m] = x =>
          /\ work[m].epoch <= state.epoch[x]
          /\ work[m].pc = "loaded" => Built(work[m].base, store'[x], {})
          /\ work[m].pc = "handle" /\ work[m].epoch = state.epoch[x] => Built(work[m].base, store'[x], Queued(x, Len(queue)))
    BY <1>8, <2>1, <2>2 DEF CacheBuiltOf
  <2>5. \A b \in state.cache[x] : Built(b, store'[x], Queued(x, Len(queue)))
    BY <1>8, <2>1, <2>2 DEF CacheBuiltOf
  <2>6. \A p \in DOMAIN queue : KeyOf[queue[p]] = x /\ work[queue[p]].epoch = state.epoch[x]
          => Built(work[queue[p]].base, store'[x], Queued(x, p - 1))
    <3>1. \A p \in DOMAIN queue : queue[p] \in Msg
      BY <1>3 DEF CacheTypes
    <3> QED BY <1>8, <2>1, <2>2, <3>1 DEF CacheBuiltOf
  <2> QED BY <1>2, <2>3, <2>4, <2>5, <2>6 DEF CacheBuiltOf
<1>12. CacheBuilt'
  BY <1>2, <1>11 DEF CacheBuilt
<1> QED BY <1>6, <1>7, <1>10, <1>12 DEF CacheInv

\* What a batch of b does of which the first n are stored.
MsgsOf(k) == {m \in Msg : KeyOf[m] = k}
Stored(q, n) == SubSeq(q, 1, n)
Dropped(q, n, b) == {q[p] : p \in n + 1 .. b}
KeysOf(ms) == {KeyOf[m] : m \in ms}
\* A message that is stored was computed from as much as is stored before it.
InPlace(q, w, st, k, n) == \A p \in 1 .. n : KeyOf[q[p]] = k => Len(w[q[p]].base) = Len(st) + Counted(q, MsgsOf(k), p - 1)
CurrentUpTo(q, w, e, n) == \A p \in 1 .. n : w[q[p]].epoch >= e[KeyOf[q[p]]]
SinkStep(n, b) ==
  /\ n \in Nat /\ b \in Nat /\ n <= b /\ b <= Len(queue)
  /\ CurrentUpTo(queue, work, state.epoch, n) /\ \A k \in Keys : InPlace(queue, work, store[k], k, n)
  /\ queue' = SubSeq(queue, b + 1, Len(queue))
  /\ store' = [k \in Keys |-> store[k] \o Those(Stored(queue, n), MsgsOf(k))]
  /\ released' = [m \in Msg |-> IF m \in ToSet(Stored(queue, n)) THEN "ok" ELSE released[m]]
  /\ work' = [m \in Msg |-> IF m \in Dropped(queue, n, b) THEN C!Fresh ELSE work[m]]
  /\ Tidy(state') /\ Len(state'.recent) <= CacheSize /\ state'.forgot = state.forgot
  /\ \A k \in Keys : IF k \in KeysOf(Dropped(queue, n, b))
                       THEN state'.cache[k] = {} /\ state'.epoch[k] = state.epoch[k] + 1
                       ELSE state'.cache[k] = state.cache[k] /\ state'.epoch[k] = state.epoch[k]

\* Counting depends on what is in the set alone.
LEMMA CountedSame ==
    ASSUME NEW s, NEW t, NEW P, NEW i \in Nat, \A j \in 1 .. i : t[j] \in P <=> s[j] \in P
    PROVE  Counted(s, P, i) = Counted(t, P, i)
<1>1. {j \in 1 .. i : s[j] \in P} = {j \in 1 .. i : t[j] \in P}
  OBVIOUS
<1> QED BY <1>1 DEF Counted

\* The instance's greatest element is the library's.
LEMMA CacheMax == \A T : C!Max(T) = Max(T)
BY DEF C!Max, Max

\* A batch is part of the queue.
LEMMA CacheMin ==
    ASSUME NEW b \in 1 .. C!Min({MaxBatch, Len(queue)}), Len(queue) \in Nat
    PROVE  b \in Nat /\ b <= Len(queue) /\ b >= 1
<1>1. PICK x \in Nat, y \in Nat : x = MaxBatch /\ y = Len(queue)
  BY SizesAssumption
<1>2. C!Min({MaxBatch, Len(queue)}) = Min({x, y})
  BY <1>1 DEF C!Min, Min
<1>3. Min({x, y}) \in Nat /\ Min({x, y}) <= y
  BY MinOfTwo
<1> QED BY <1>1, <1>2, <1>3

\* The sink stores the first n of a batch of b and drops the rest.
LEMMA CacheSinks ==
    ASSUME CacheTypes, CacheQueued, C!Sink
    PROVE  \E n, b : SinkStep(n, b)
<1>1. PICK b \in 1 .. C!Min({MaxBatch, Len(queue)}) :
        LET batch == SubSeq(queue, 1, b)
            n == C!Max({i \in 0 .. b : \A j \in 1 .. i : C!Good(batch, j)})
            good == SubSeq(batch, 1, n)
            bad == C!ToSet(batch) \ C!ToSet(good)
            over == {KeyOf[m] : m \in bad}
        IN /\ \A k \in over : state.epoch[k] < MaxEpoch
           /\ queue' = SubSeq(queue, b + 1, Len(queue))
           /\ store' = [k \in C!Keys |-> store[k] \o C!Those(good, C!Of(k))]
           /\ released' = C!Release(C!ToSet(good), "ok")
           /\ state' = C!Invalidate(state, over)
           /\ work' = [m \in C!Msg |-> IF m \in bad THEN C!Fresh ELSE work[m]]
  BY DEF C!Sink
<1> DEFINE batch == SubSeq(queue, 1, b)
           T == {i \in 0 .. b : \A j \in 1 .. i : C!Good(batch, j)}
           n == C!Max(T)
           good == SubSeq(batch, 1, n)
           bad == ToSet(batch) \ ToSet(good)
           over == {KeyOf[m] : m \in bad}
<1>2. /\ \A k \in over : state.epoch[k] < MaxEpoch
      /\ queue' = SubSeq(queue, b + 1, Len(queue))
      /\ store' = [k \in Keys |-> store[k] \o Those(good, MsgsOf(k))]
      /\ released' = C!Release(ToSet(good), "ok")
      /\ state' = C!Invalidate(state, over)
      /\ work' = [m \in Msg |-> IF m \in bad THEN C!Fresh ELSE work[m]]
  BY <1>1, CacheFields DEF MsgsOf
<1>3. queue \in Seq(Msg) /\ Len(queue) \in Nat /\ Tidy(state) /\ Len(state.recent) <= CacheSize
  BY DEF CacheTypes
<1>4. b \in Nat /\ b <= Len(queue) /\ b >= 1
  BY <1>3, CacheMin
<1>5. n \in 0 .. b /\ \A j \in 1 .. n : C!Good(batch, j)
  <2>1. T \in SUBSET Nat /\ (\A i \in T : i <= b) /\ 0 \in T
    BY <1>4
  <2>2. Max(T) \in T
    <3> HIDE DEF T
    <3> QED BY <1>4, <2>1, MaxProperties
  <2>3. n = Max(T)
    BY CacheMax
  <2> QED BY <2>2, <2>3
<1> HIDE DEF n, T
<1>6. batch \in Seq(Msg) /\ Len(batch) = b /\ DOMAIN batch = 1 .. b /\ \A p \in 1 .. b : batch[p] = queue[p] /\ batch[p] \in Msg
  BY <1>3, <1>4
<1>7. good = Stored(queue, n) /\ Len(good) = n /\ \A p \in 1 .. n : good[p] = queue[p]
  <2>1. good = SubSeq(queue, 1, n)
    BY <1>3, <1>4, <1>5
  <2>2. Len(SubSeq(queue, 1, n)) = n /\ \A p \in 1 .. n : SubSeq(queue, 1, n)[p] = queue[p]
    BY <1>3, <1>4, <1>5
  <2> QED BY <2>1, <2>2 DEF Stored
<1> HIDE DEF batch
<1>8. CurrentUpTo(queue, work, state.epoch, n) /\ \A k \in Keys : InPlace(queue, work, store[k], k, n)
  <2>1. ASSUME NEW p \in 1 .. n
        PROVE  /\ work[queue[p]].epoch >= state.epoch[KeyOf[queue[p]]]
               /\ Len(work[queue[p]].base) = Len(store[KeyOf[queue[p]]]) + Counted(queue, MsgsOf(KeyOf[queue[p]]), p - 1)
    <3>1. p \in 1 .. b /\ C!Good(batch, p) /\ p - 1 \in Nat /\ batch[p] = queue[p] /\ \A j \in 1 .. p - 1 : j \in 1 .. b
      BY <1>5, <1>6
    <3>2. C!Ahead(batch, p) = Counted(queue, MsgsOf(KeyOf[queue[p]]), p - 1)
      <4>1. \A j \in 1 .. p - 1 : KeyOf[batch[j]] = KeyOf[batch[p]] <=> queue[j] \in MsgsOf(KeyOf[queue[p]])
        BY <1>6, <3>1 DEF MsgsOf
      <4>2. {j \in 1 .. p - 1 : KeyOf[batch[j]] = KeyOf[batch[p]]} = {j \in 1 .. p - 1 : queue[j] \in MsgsOf(KeyOf[queue[p]])}
        BY <4>1
      <4> QED BY <4>2, CacheFields DEF C!Ahead, Counted
    <3> QED BY <3>1, <3>2 DEF C!Good
  <2> QED BY <2>1 DEF CurrentUpTo, InPlace
<1>9. bad = Dropped(queue, n, b) \ ToSet(good) /\ bad \in SUBSET Msg
  <2>1. ToSet(batch) = {queue[p] : p \in 1 .. b} /\ ToSet(batch) \subseteq Msg
    BY <1>6 DEF ToSet
  <2>2. ToSet(good) = {queue[p] : p \in 1 .. n}
    <3>1. good \in Seq(Msg)
      BY <1>3, <1>4, <1>5, <1>7 DEF Stored
    <3>2. DOMAIN good = 1 .. n
      BY <1>7, <3>1
    <3> HIDE DEF good
    <3> QED BY <1>7, <3>2 DEF ToSet
  <2>3. \A p \in 1 .. b : p \in 1 .. n \/ p \in n + 1 .. b
    BY <1>4, <1>5
  <2>4. \A p \in n + 1 .. b : p \in 1 .. b
    BY <1>4, <1>5
  <2> HIDE DEF good
  <2> QED BY <2>1, <2>2, <2>3, <2>4 DEF Dropped
<1>10. bad = Dropped(queue, n, b)
  <2>1. ASSUME NEW p \in n + 1 .. b
        PROVE  queue[p] \notin ToSet(good)
    <3>1. good \in Seq(Msg) /\ DOMAIN good = 1 .. n
      <4>1. good \in Seq(Msg)
        BY <1>3, <1>4, <1>5, <1>7 DEF Stored
      <4> QED BY <1>7, <4>1
    <3>2. \A r \in 1 .. n : r \in DOMAIN queue /\ p \in DOMAIN queue /\ r # p
      BY <1>3, <1>4, <1>5
    <3>3. \A r \in 1 .. n : queue[r] # queue[p]
      BY <3>2 DEF CacheQueued
    <3> HIDE DEF good
    <3> QED BY <1>7, <3>1, <3>3 DEF ToSet
  <2>2. Dropped(queue, n, b) \cap ToSet(good) = {}
    BY <2>1 DEF Dropped
  <2> HIDE DEF good, bad
  <2> QED BY <1>9, <2>2
<1>11. over \in SUBSET Keys /\ over = KeysOf(Dropped(queue, n, b))
  <2>1. over \in SUBSET Keys
    BY <1>9, CacheFields
  <2> QED BY <1>10, <2>1 DEF KeysOf
<1> HIDE DEF bad, over
<1>12. /\ Tidy(state') /\ Len(state'.recent) <= CacheSize /\ state'.forgot = state.forgot
       /\ \A x \in Keys : /\ state'.cache[x] = IF x \in over THEN {} ELSE state.cache[x]
                          /\ state'.epoch[x] = IF x \in over THEN state.epoch[x] + 1 ELSE state.epoch[x]
  <2> DEFINE t == C!Invalidate(state, over)
  <2>1. /\ Tidy(t) /\ Len(t.recent) <= Len(state.recent) /\ t.forgot = state.forgot
        /\ \A x \in Keys : /\ t.cache[x] = IF x \in over THEN {} ELSE state.cache[x]
                           /\ t.epoch[x] = IF x \in over THEN state.epoch[x] + 1 ELSE state.epoch[x]
    BY <1>2, <1>3, <1>11, CacheInvalidate
  <2>2. t = state'
    BY <1>2
  <2> HIDE DEF t
  <2>3. Len(t.recent) \in Nat /\ Len(state.recent) \in Nat
    BY <1>3, <2>1, CacheStates DEF Tidy
  <2>4. Len(t.recent) <= CacheSize
    BY SMTT(30), <1>3, <2>1, <2>3, SizesAssumption
  <2> QED BY <2>1, <2>2, <2>4
<1>13. released' = [m \in Msg |-> IF m \in ToSet(Stored(queue, n)) THEN "ok" ELSE released[m]]
  BY <1>2, <1>7, CacheFields DEF C!Release
<1>14. n \in Nat /\ b \in Nat /\ n <= b /\ b <= Len(queue)
  BY <1>4, <1>5
<1>15. store' = [k \in Keys |-> store[k] \o Those(Stored(queue, n), MsgsOf(k))]
  BY <1>2, <1>7
<1>16. work' = [m \in Msg |-> IF m \in Dropped(queue, n, b) THEN C!Fresh ELSE work[m]]
  BY <1>2, <1>10
<1> HIDE DEF good
<1>17. SinkStep(n, b)
  BY <1>2, <1>8, <1>11, <1>12, <1>13, <1>14, <1>15, <1>16 DEF SinkStep
<1> QED BY <1>17

\* Each message of a key that is stored is where its event belongs, and what is
\* stored is one of them.
LandsIn(good, w, st, k) == \A p \in 1 .. Len(good) : KeyOf[good[p]] = k =>
  Len(w[good[p]].base) + 1 \in DOMAIN st /\ st[Len(w[good[p]].base) + 1] = good[p]
ComesFrom(good, w, st, t, k) == \A j \in DOMAIN t : \E p \in 1 .. Len(good) :
  KeyOf[good[p]] = k /\ t[j] = good[p] /\ Len(w[good[p]].base) = Len(st) + j - 1
Batched(good, w) == /\ \A p \in 1 .. Len(good) : w[good[p]].base \in Seq(Event)
                    /\ \A p, q \in 1 .. Len(good) : good[p] = good[q] => p = q

\* What is stored lands where it belongs.
LEMMA GoodLands ==
    ASSUME NEW good \in Seq(Msg), NEW st \in Seq(Event), NEW k, NEW w, InPlace(good, w, st, k, Len(good)), Batched(good, w)
    PROVE  LET t == Those(good, MsgsOf(k))
           IN /\ t \in Seq(Event) /\ ToSet(t) = ToSet(good) \cap MsgsOf(k) /\ Distinct(t)
              /\ LandsIn(good, w, st \o t, k) /\ ComesFrom(good, w, st, t, k)
<1> DEFINE t == Those(good, MsgsOf(k))
           n == Len(good)
<1>1. /\ t \in Seq(Msg) /\ Len(t) = Counted(good, MsgsOf(k), n)
      /\ \A p \in 1 .. n : good[p] \in MsgsOf(k) => /\ Counted(good, MsgsOf(k), p - 1) + 1 \in DOMAIN t
                                                    /\ t[Counted(good, MsgsOf(k), p - 1) + 1] = good[p]
      /\ \A i \in DOMAIN t : \E p \in 1 .. n : good[p] \in MsgsOf(k) /\ i = Counted(good, MsgsOf(k), p - 1) + 1
  BY ThosePlaces
<1>2. ToSet(t) = ToSet(good) \cap MsgsOf(k)
  BY ThoseProperties
<1>3. PICK c \in [1 .. n -> Nat] : \A p \in 1 .. n : c[p] = Counted(good, MsgsOf(k), p - 1)
  <2> DEFINE c == [p \in 1 .. n |-> Counted(good, MsgsOf(k), p - 1)]
  <2>1. \A i \in Nat : Counted(good, MsgsOf(k), i) \in Nat
    <3>1. \A i \in Nat : Counted(good, MsgsOf(k), i) \in 0 .. i
      BY CountedProperties
    <3>2. \A i \in Nat : 0 .. i \subseteq Nat
      OBVIOUS
    <3> QED BY <3>1, <3>2, Zenon
  <2>2. \A p \in 1 .. n : p - 1 \in Nat
    OBVIOUS
  <2>3. c \in [1 .. n -> Nat]
    BY <2>1, <2>2
  <2> QED BY <2>3
<1>4. \A p \in 1 .. n : good[p] \in Msg /\ (good[p] \in MsgsOf(k) <=> KeyOf[good[p]] = k)
  BY DEF MsgsOf
<1> HIDE DEF t, n
<1>5. /\ \A p \in 1 .. n : KeyOf[good[p]] = k => c[p] + 1 \in DOMAIN t /\ t[c[p] + 1] = good[p]
      /\ \A i \in DOMAIN t : \E p \in 1 .. n : KeyOf[good[p]] = k /\ i = c[p] + 1 /\ t[i] = good[p]
  <2>1. \A p \in 1 .. n : KeyOf[good[p]] = k => c[p] + 1 \in DOMAIN t /\ t[c[p] + 1] = good[p]
    BY <1>1, <1>3, <1>4
  <2>2. \A i \in DOMAIN t : \E p \in 1 .. n : KeyOf[good[p]] = k /\ i = c[p] + 1
    BY <1>1, <1>3, <1>4
  <2> QED BY <2>1, <2>2
<1>6. \A p \in 1 .. n : KeyOf[good[p]] = k => Len(w[good[p]].base) = Len(st) + c[p]
  BY <1>3 DEF InPlace, n
<1>7. PICK L \in Nat : L = Len(st)
  OBVIOUS
<1>8. t \in Seq(Event) /\ DOMAIN t = 1 .. Len(t) /\ Len(t) \in Nat
  <2>1. Msg \subseteq Event
    BY CacheFields
  <2>2. t \in Seq(Event)
    BY <1>1, <2>1
  <2> QED BY <2>2
<1>9. \A j \in 1 .. Len(t) : L + j \in DOMAIN (st \o t) /\ (st \o t)[L + j] = t[j]
  <2>1. PICK s1 \in Seq(Event), t1 \in Seq(Event) : s1 = st /\ t1 = t
    BY <1>8
  <2>2. \A i \in 1 .. Len(t1) : Len(s1) + i \in DOMAIN (s1 \o t1) /\ (s1 \o t1)[Len(s1) + i] = t1[i]
    BY ONLY LandsAt
  <2> QED BY <1>7, <2>1, <2>2
<1>10. ASSUME NEW p \in 1 .. n, KeyOf[good[p]] = k
       PROVE  Len(w[good[p]].base) + 1 \in DOMAIN (st \o t) /\ (st \o t)[Len(w[good[p]].base) + 1] = good[p]
  <2>1. c[p] \in Nat /\ Len(w[good[p]].base) = L + c[p]
    BY <1>3, <1>6, <1>7, <1>10
  <2>2. c[p] + 1 \in 1 .. Len(t) /\ t[c[p] + 1] = good[p]
    BY <1>5, <1>8, <1>10
  <2>3. PICK i \in 1 .. Len(t) : i = c[p] + 1 /\ t[i] = good[p]
    BY <2>2
  <2>4. L + i \in DOMAIN (st \o t) /\ (st \o t)[L + i] = good[p]
    BY <1>9, <2>3
  <2>5. Len(w[good[p]].base) + 1 = L + i
    BY <2>1, <2>3
  <2> QED BY <2>4, <2>5, Zenon
<1>11. ASSUME NEW j \in DOMAIN t
       PROVE  \E p \in 1 .. n : KeyOf[good[p]] = k /\ t[j] = good[p] /\ Len(w[good[p]].base) = Len(st) + j - 1
  <2>1. PICK p \in 1 .. n : KeyOf[good[p]] = k /\ j = c[p] + 1 /\ t[j] = good[p]
    BY <1>5
  <2>2. c[p] \in Nat /\ Len(w[good[p]].base) = L + c[p]
    BY <1>3, <1>6, <1>7, <2>1
  <2>3. Len(w[good[p]].base) = Len(st) + j - 1
    BY <1>7, <2>1, <2>2
  <2> QED BY <2>1, <2>3
<1>12. Distinct(t)
  <2>1. SUFFICES ASSUME NEW i \in DOMAIN t, NEW j \in DOMAIN t, t[i] = t[j]
                 PROVE  i = j
    BY DEF Distinct
  <2>2. PICK p \in 1 .. n : i = c[p] + 1 /\ t[i] = good[p]
    BY <1>5
  <2>3. PICK q \in 1 .. n : j = c[q] + 1 /\ t[j] = good[q]
    BY <1>5
  <2>4. p = q
    BY <2>1, <2>2, <2>3 DEF n, Batched
  <2> QED BY <2>2, <2>3, <2>4
<1>13. LandsIn(good, w, st \o t, k)
  BY <1>10 DEF LandsIn, n
<1>14. ComesFrom(good, w, st, t, k)
  BY <1>11 DEF ComesFrom, n
<1> QED BY <1>2, <1>8, <1>12, <1>13, <1>14 DEF t

\* The elements of what a batch stores.
LEMMA StoredElements ==
    ASSUME NEW q \in Seq(Msg), NEW n \in Nat, n <= Len(q)
    PROVE  LET g == Stored(q, n)
           IN /\ g \in Seq(Msg) /\ Len(g) = n /\ DOMAIN g = 1 .. n /\ \A p \in 1 .. n : g[p] = q[p] /\ p \in DOMAIN q
              /\ ToSet(g) = {q[p] : p \in 1 .. n}
<1> DEFINE g == Stored(q, n)
<1>1. g \in Seq(Msg) /\ Len(g) = n /\ \A p \in 1 .. n : g[p] = q[p] /\ p \in DOMAIN q
  BY DEF Stored
<1>2. DOMAIN g = 1 .. n
  BY <1>1
<1> HIDE DEF g
<1>3. ToSet(g) = {q[p] : p \in 1 .. n}
  BY <1>1, <1>2 DEF ToSet
<1> QED BY <1>1, <1>2, <1>3 DEF g

\* What is queued is of some context and not stored.
LEMMA CacheIsQueued ==
    ASSUME CacheInv, NEW p \in DOMAIN queue
    PROVE  /\ queue[p] \in Msg /\ queue[p] \in ToSet(queue) /\ work[queue[p]].pc = "out" /\ released[queue[p]] = "no"
           /\ work[queue[p]].base \in Seq(Event) /\ \A k \in Keys : queue[p] \notin ToSet(store[k])
<1>1. queue[p] \in Msg /\ queue[p] \in ToSet(queue)
  BY DEF CacheInv, CacheTypes, ToSet
<1>2. work[queue[p]].pc = "out" /\ released[queue[p]] = "no"
  BY <1>1 DEF CacheInv, CacheQueued
<1>3. work[queue[p]].base \in Seq(Event) /\ queue[p] # 0
  BY <1>1, CacheContexts, CacheFields DEF CacheInv
<1>4. \A k \in Keys : queue[p] \notin ToSet(store[k])
  <2>1. SUFFICES ASSUME NEW k \in Keys, NEW i \in DOMAIN store[k], store[k][i] = queue[p]
                 PROVE  FALSE
    BY DEF ToSet
  <2>2. KeyOf[queue[p]] = k
    BY <1>3, <2>1 DEF CacheInv, CacheStored
  <2>3. queue[p] \in ToSet(store[KeyOf[queue[p]]])
    BY <2>1, <2>2 DEF ToSet
  <2>4. released[queue[p]] = "ok"
    BY <1>1, <2>3 DEF CacheInv, CacheStored
  <2> QED BY <1>2, <2>4
<1> QED BY <1>1, <1>2, <1>3, <1>4

\* What is stored of a key is what was queued and follows what is stored.
FromQueue(t, k, n) == \A j \in DOMAIN t : \E p \in 1 .. n :
  KeyOf[queue[p]] = k /\ t[j] = queue[p] /\ Len(work[queue[p]].base) = Len(store[k]) + j - 1

\* What a batch leaves stored of a key: what was, and its messages of the
\* key, each at the place after its base.
LEMMA SinkLands ==
    ASSUME CacheInv, NEW n, NEW b, SinkStep(n, b), NEW k \in Keys
    PROVE  /\ store'[k] \in Seq(Event) /\ Distinct(store'[k])
           /\ ToSet(store'[k]) = ToSet(store[k]) \cup (ToSet(Stored(queue, n)) \cap MsgsOf(k))
           /\ \A p \in 1 .. n : KeyOf[queue[p]] = k => /\ Len(work[queue[p]].base) + 1 \in DOMAIN store'[k]
                                                       /\ store'[k][Len(work[queue[p]].base) + 1] = queue[p]
           /\ \E t \in Seq(Event) : store'[k] = store[k] \o t /\ Distinct(t) /\ FromQueue(t, k, n)
<1>1. queue \in Seq(Msg) /\ n \in Nat /\ n <= Len(queue) /\ InPlace(queue, work, store[k], k, n) /\ Len(queue) \in Nat
  BY DEF CacheInv, CacheTypes, SinkStep
<1> DEFINE good == Stored(queue, n)
           t == Those(good, MsgsOf(k))
<1>2. /\ good \in Seq(Msg) /\ Len(good) = n /\ DOMAIN good = 1 .. n
      /\ \A p \in 1 .. n : good[p] = queue[p] /\ p \in DOMAIN queue
  BY <1>1, StoredElements
<1>3. store[k] \in Seq(Event) /\ store'[k] = store[k] \o t
  BY DEF CacheInv, CacheTypes, SinkStep
<1>4. Batched(good, work)
  <2>1. \A p \in 1 .. Len(good) : work[good[p]].base \in Seq(Event)
    BY <1>2, CacheIsQueued
  <2>2. \A p, q \in 1 .. Len(good) : good[p] = good[q] => p = q
    BY <1>2 DEF CacheInv, CacheQueued
  <2> QED BY <2>1, <2>2 DEF Batched
<1>6. InPlace(good, work, store[k], k, Len(good))
  <2>1. SUFFICES ASSUME NEW p \in 1 .. n, KeyOf[queue[p]] = k
                 PROVE  Len(work[queue[p]].base) = Len(store[k]) + Counted(good, MsgsOf(k), p - 1)
    BY <1>2 DEF InPlace
  <2>2. p - 1 \in Nat /\ \A j \in 1 .. p - 1 : j \in 1 .. n
    BY <1>1
  <2>3. \A j \in 1 .. p - 1 : good[j] \in MsgsOf(k) <=> queue[j] \in MsgsOf(k)
    BY <1>2, <2>2
  <2> HIDE DEF good
  <2>4. Counted(queue, MsgsOf(k), p - 1) = Counted(good, MsgsOf(k), p - 1)
    BY <2>2, <2>3, CountedSame
  <2> QED BY <1>1, <2>1, <2>4 DEF InPlace
<1> HIDE DEF good
<1>7. /\ t \in Seq(Event) /\ ToSet(t) = ToSet(good) \cap MsgsOf(k) /\ Distinct(t)
      /\ LandsIn(good, work, store[k] \o t, k) /\ ComesFrom(good, work, store[k], t, k)
  BY <1>2, <1>3, <1>4, <1>6, GoodLands
<1> HIDE DEF t
<1>8. ToSet(store[k] \o t) = ToSet(store[k]) \cup ToSet(t) /\ store[k] \o t \in Seq(Event)
  BY <1>3, <1>7, ToSetConcat, ConcatElements
<1>9. \A j \in DOMAIN t : t[j] \notin ToSet(store[k])
  <2>1. TAKE j \in DOMAIN t
  <2>2. PICK p \in 1 .. n : t[j] = queue[p] /\ p \in DOMAIN queue
    BY <1>2, <1>7 DEF ComesFrom
  <2> QED BY <2>2, CacheIsQueued
<1>10. Distinct(store[k] \o t)
  <2>1. Distinct(store[k])
    BY DEF CacheInv, CacheStored
  <2> QED BY <1>3, <1>7, <1>9, <2>1, DistinctGrows
<1>11. FromQueue(t, k, n)
  <2>1. ASSUME NEW j \in DOMAIN t
        PROVE  \E p \in 1 .. n : KeyOf[queue[p]] = k /\ t[j] = queue[p] /\ Len(work[queue[p]].base) = Len(store[k]) + j - 1
    <3>1. PICK p \in 1 .. Len(good) : KeyOf[good[p]] = k /\ t[j] = good[p] /\ Len(work[good[p]].base) = Len(store[k]) + j - 1
      BY <1>7 DEF ComesFrom
    <3> QED BY <1>2, <3>1
  <2> QED BY <2>1 DEF FromQueue
<1>12. \A p \in 1 .. n : KeyOf[queue[p]] = k => /\ Len(work[queue[p]].base) + 1 \in DOMAIN (store[k] \o t)
                                                /\ (store[k] \o t)[Len(work[queue[p]].base) + 1] = queue[p]
  BY <1>2, <1>7 DEF LandsIn
<1>13. ToSet(store[k] \o t) = ToSet(store[k]) \cup (ToSet(good) \cap MsgsOf(k))
  BY <1>7, <1>8
<1>14. t \in Seq(Event) /\ Distinct(t)
  BY <1>7
<1>15. /\ store'[k] \in Seq(Event) /\ Distinct(store'[k])
       /\ ToSet(store'[k]) = ToSet(store[k]) \cup (ToSet(good) \cap MsgsOf(k))
  BY <1>3, <1>8, <1>10, <1>13
<1>16. \A p \in 1 .. n : KeyOf[queue[p]] = k => /\ Len(work[queue[p]].base) + 1 \in DOMAIN store'[k]
                                                /\ store'[k][Len(work[queue[p]].base) + 1] = queue[p]
  BY <1>3, <1>12, Zenon
<1>17. \E u \in Seq(Event) : store'[k] = store[k] \o u /\ Distinct(u) /\ FromQueue(u, k, n)
  <2>1. t \in Seq(Event)
    BY <1>14
  <2>2. store'[k] = store[k] \o t /\ Distinct(t) /\ FromQueue(t, k, n)
    BY <1>3, <1>11, <1>14
  <2> QED BY ONLY <2>1, <2>2
<1> QED BY <1>15, <1>16, <1>17, Zenon DEF good

\* What a batch does to the contexts and the queue.
LEMMA SinkWork ==
    ASSUME CacheInv, NEW n, NEW b, SinkStep(n, b)
    PROVE  /\ \A m \in Msg : work'[m] = IF m \in Dropped(queue, n, b) THEN C!Fresh ELSE work[m]
           /\ work' \in [Msg -> CacheContext] /\ C!Fresh.pc = "get" /\ C!Fresh.epoch = 1
           /\ queue' \in Seq(Msg) /\ DOMAIN queue' = 1 .. Len(queue) - b /\ Len(queue') = Len(queue) - b
           /\ \A p \in DOMAIN queue' : p + b \in DOMAIN queue /\ queue'[p] = queue[p + b]
           /\ \A p \in DOMAIN queue : \/ p \in 1 .. n \/ queue[p] \in Dropped(queue, n, b)
                                      \/ p - b \in DOMAIN queue' /\ queue'[p - b] = queue[p]
           /\ \A m \in Dropped(queue, n, b) : m \in Msg /\ m \in ToSet(queue) /\ m \notin ToSet(queue')
                                              /\ m \notin ToSet(Stored(queue, n))
           /\ \A m \in ToSet(Stored(queue, n)) : m \in Msg /\ m \in ToSet(queue) /\ m \notin ToSet(queue')
           /\ n \in Nat /\ b \in Nat /\ n <= b /\ b <= Len(queue) /\ Len(queue) \in Nat /\ DOMAIN queue = 1 .. Len(queue)
<1>1. /\ n \in Nat /\ b \in Nat /\ n <= b /\ b <= Len(queue) /\ Len(queue) \in Nat /\ DOMAIN queue = 1 .. Len(queue)
      /\ queue \in Seq(Msg) /\ queue' = SubSeq(queue, b + 1, Len(queue))
  BY DEF CacheInv, CacheTypes, SinkStep
<1>2. work \in [Msg -> CacheContext] /\ work' = [m \in Msg |-> IF m \in Dropped(queue, n, b) THEN C!Fresh ELSE work[m]]
  BY DEF CacheInv, CacheTypes, SinkStep
<1>3. C!Fresh \in CacheContext /\ C!Fresh.pc = "get" /\ C!Fresh.epoch = 1
  BY CacheFields DEF CacheContext, C!Fresh
<1>4. /\ \A m \in Msg : work'[m] = IF m \in Dropped(queue, n, b) THEN C!Fresh ELSE work[m]
      /\ work' \in [Msg -> CacheContext]
  BY <1>2, <1>3
<1>5. /\ queue' \in Seq(Msg) /\ DOMAIN queue' = 1 .. Len(queue) - b /\ Len(queue') = Len(queue) - b
      /\ \A p \in 1 .. Len(queue) - b : queue'[p] = queue[p + b]
  <2>1. PICK q \in Seq(Msg), N \in Nat : q = queue /\ N = Len(queue) /\ N = Len(q)
    BY Zenon, <1>1
  <2> DEFINE r == SubSeq(q, b + 1, N)
  <2>2. r \in Seq(Msg) /\ Len(r) = N - b /\ \A p \in 1 .. N - b : r[p] = q[p + b]
    <3>0. PICK a \in Nat : a = b /\ a <= N
      BY <1>1, <2>1
    <3>1. PICK c \in Nat : a = b /\ c = N - b /\ a + c = N /\ Len(q) = N
      <4>1. N - a \in Nat /\ a + (N - a) = N
        BY <3>0
      <4> QED BY <2>1, <3>0, <4>1
    <3>2. SubSeq(q, a + 1, N) \in Seq(Msg) /\ Len(SubSeq(q, a + 1, N)) = c
      BY ONLY <3>1, q \in Seq(Msg), N \in Nat
    <3>3. \A p \in 1 .. c : SubSeq(q, a + 1, N)[p] = q[p + a]
      BY ONLY <3>1, q \in Seq(Msg), N \in Nat
    <3> QED BY <3>1, <3>2, <3>3
  <2>3. DOMAIN r = 1 .. N - b
    BY <2>2
  <2>4. r = queue'
    BY <1>1, <2>1
  <2> HIDE DEF r
  <2> QED BY SMTT(30), <2>1, <2>2, <2>3, <2>4
<1>6. \A p \in DOMAIN queue' : p + b \in DOMAIN queue /\ queue'[p] = queue[p + b] /\ p + b \notin 1 .. b
  <2>1. PICK N \in Nat, c \in Nat : N = Len(queue) /\ c = b /\ c <= N
    BY Zenon, <1>1
  <2>2. \A p \in 1 .. N - c : p + c \in 1 .. N /\ p + c \notin 1 .. c
    OBVIOUS
  <2> QED BY <1>1, <1>5, <2>1, <2>2, ZenonT(30)
<1>7. \A p \in DOMAIN queue : \/ p \in 1 .. n \/ queue[p] \in Dropped(queue, n, b)
                              \/ p - b \in DOMAIN queue' /\ queue'[p - b] = queue[p]
  <2>1. TAKE p \in DOMAIN queue
  <2>2. p \in 1 .. n \/ p \in n + 1 .. b \/ (p - b \in 1 .. Len(queue) - b /\ (p - b) + b = p)
    BY <1>1
  <2>3. CASE p \in n + 1 .. b
    BY <2>3 DEF Dropped
  <2>4. CASE p - b \in 1 .. Len(queue) - b /\ (p - b) + b = p
    BY <1>5, <2>4
  <2> QED BY <2>2, <2>3, <2>4
<1>8. \A p \in 1 .. b : p \in DOMAIN queue /\ queue[p] \in Msg /\ queue[p] \in ToSet(queue) /\ queue[p] \notin ToSet(queue')
  <2>1. TAKE p \in 1 .. b
  <2>2. p \in DOMAIN queue
    BY <1>1
  <2>3. \A r \in DOMAIN queue' : queue'[r] # queue[p]
    <3>1. \A r \in DOMAIN queue' : r + b # p
      BY <1>6
    <3> QED BY <1>6, <2>2, <3>1 DEF CacheInv, CacheQueued
  <2>4. queue[p] \notin ToSet(queue')
    BY <2>3 DEF ToSet
  <2> QED BY <2>2, <2>4, CacheIsQueued
<1>9. ToSet(Stored(queue, n)) = {queue[p] : p \in 1 .. n}
  <2>1. PICK q \in Seq(Msg) : q = queue
    BY <1>1
  <2>2. n \in Nat /\ n <= Len(q)
    BY <1>1, <2>1
  <2>3. ToSet(Stored(q, n)) = {q[p] : p \in 1 .. n}
    BY <2>2, StoredElements
  <2> QED BY <2>1, <2>3
<1>10. \A p \in n + 1 .. b : p \in 1 .. b /\ \A r \in 1 .. n : r # p /\ r \in 1 .. b
  BY <1>1
<1>11. \A m \in Dropped(queue, n, b) : m \in Msg /\ m \in ToSet(queue) /\ m \notin ToSet(queue') /\ m \notin ToSet(Stored(queue, n))
  <2>1. TAKE m \in Dropped(queue, n, b)
  <2>2. PICK p \in n + 1 .. b : m = queue[p]
    BY DEF Dropped
  <2>3. \A r \in 1 .. n : queue[r] # queue[p]
    BY <1>8, <1>10 DEF CacheInv, CacheQueued
  <2> QED BY <1>8, <1>9, <1>10, <2>2, <2>3
<1>12. \A p \in 1 .. n : p \in 1 .. b
  BY <1>1
<1>13. \A m \in ToSet(Stored(queue, n)) : m \in Msg /\ m \in ToSet(queue) /\ m \notin ToSet(queue')
  BY <1>8, <1>9, <1>12
<1> QED BY <1>1, <1>3, <1>4, <1>5, <1>6, <1>7, <1>11, <1>13, Zenon

\* What was queued before is queued still or is stored where it belongs.
LEMMA SinkMoves ==
    ASSUME CacheInv, NEW n, NEW b, SinkStep(n, b), NEW k \in Keys, k \notin KeysOf(Dropped(queue, n, b)),
           NEW r \in Nat, b <= r, NEW s \in Seq(Event), Built(s, store[k], Queued(k, r))
    PROVE  Built(s, store'[k], QueuedOf(queue', work', state.epoch[k], k, r - b))
<1>1. PICK P, Q : P = Queued(k, r) /\ Q = QueuedOf(queue', work', state.epoch[k], k, r - b)
  OBVIOUS
<1>2. PICK t \in Seq(Event) : store'[k] = store[k] \o t
  BY SinkLands
<1>3. \A p \in 1 .. n : KeyOf[queue[p]] = k => /\ Len(work[queue[p]].base) + 1 \in DOMAIN store'[k]
                                               /\ store'[k][Len(work[queue[p]].base) + 1] = queue[p]
  BY SinkLands
<1>4. ASSUME NEW x \in P
      PROVE  x \in Q \/ (Len(x[2]) + 1 \in DOMAIN store'[k] /\ store'[k][Len(x[2]) + 1] = x[1])
  <2>1. PICK p \in DOMAIN queue : /\ p <= r /\ KeyOf[queue[p]] = k /\ work[queue[p]].epoch = state.epoch[k]
                                  /\ x = <<queue[p], work[queue[p]].base>>
    BY <1>1 DEF Queued, QueuedOf
  <2>2. queue[p] \notin Dropped(queue, n, b)
    BY <2>1 DEF KeysOf
  <2>3. CASE p \in 1 .. n
    BY <1>3, <2>1, <2>3
  <2>4. CASE p - b \in DOMAIN queue' /\ queue'[p - b] = queue[p]
    <3>1. work'[queue[p]] = work[queue[p]]
      BY <2>2, SinkWork, CacheIsQueued
    <3>2. p - b <= r - b
      BY <2>1, SinkWork
    <3>3. x \in QueuedOf(queue', work', state.epoch[k], k, r - b)
      BY <2>1, <2>4, <3>1, <3>2 DEF QueuedOf
    <3> QED BY <1>1, <3>3
  <2> QED BY <2>2, <2>3, <2>4, SinkWork
<1>5. store[k] \in Seq(Event) /\ Built(s, store[k], P)
  BY <1>1 DEF CacheInv, CacheTypes
<1>6. Built(s, store[k] \o t, Q)
  BY <1>2, <1>4, <1>5, BuiltGrows
<1> QED BY <1>1, <1>2, <1>6

\* What is stored was computed from what is stored before it.
LEMMA SinkBases ==
    ASSUME CacheInv, NEW n, NEW b, SinkStep(n, b), NEW k \in Keys \ state.forgot, NEW p \in 1 .. n, KeyOf[queue[p]] = k
    PROVE  work[queue[p]].base = SubSeq(store'[k], 1, Len(work[queue[p]].base))
<1>0. \A q \in 1 .. n : KeyOf[queue[q]] = k => /\ Len(work[queue[q]].base) + 1 \in DOMAIN store'[k]
                                               /\ store'[k][Len(work[queue[q]].base) + 1] = queue[q]
  BY SinkLands
<1>1. p \in DOMAIN queue /\ n \in Nat /\ CurrentUpTo(queue, work, state.epoch, n)
  BY SinkWork DEF SinkStep
<1>2. queue[p] \in Msg /\ work[queue[p]].base \in Seq(Event)
  BY <1>1, CacheIsQueued
<1>3. work[queue[p]].epoch = state.epoch[k]
  <2>1. work[queue[p]].epoch >= state.epoch[k]
    BY <1>1 DEF CurrentUpTo
  <2>2. work[queue[p]].epoch <= state.epoch[k]
    BY <1>2 DEF CacheInv, CacheBuilt, CacheBuiltOf
  <2>3. work[queue[p]].epoch \in CacheEpochs /\ state.epoch[k] \in CacheEpochs
    BY <1>2, CacheContexts DEF CacheInv
  <2>4. \A i, j \in CacheEpochs : i <= j /\ i >= j => i = j
    BY DEF CacheEpochs
  <2> QED BY <2>1, <2>2, <2>3, <2>4
<1>4. PICK P : P = Queued(k, p - 1) /\ Built(work[queue[p]].base, store[k], P)
  BY <1>1, <1>3 DEF CacheInv, CacheBuilt, CacheBuiltOf
<1>5. PICK t \in Seq(Event) : store'[k] = store[k] \o t
  BY SinkLands
<1>6. ASSUME NEW x \in P
      PROVE  Len(x[2]) + 1 \in DOMAIN store'[k] /\ store'[k][Len(x[2]) + 1] = x[1]
  <2>1. PICK q \in DOMAIN queue : /\ q <= p - 1 /\ KeyOf[queue[q]] = k
                                  /\ x = <<queue[q], work[queue[q]].base>>
    BY <1>4 DEF Queued, QueuedOf
  <2>2. q \in 1 .. n
    BY <1>1, <2>1, SinkWork
  <2>3. Len(work[queue[q]].base) + 1 \in DOMAIN store'[k] /\ store'[k][Len(work[queue[q]].base) + 1] = queue[q]
    BY <1>0, <2>1, <2>2
  <2> QED BY <2>1, <2>3
<1>7. store[k] \in Seq(Event) /\ store'[k] \in Seq(Event)
  BY SinkLands DEF CacheInv, CacheTypes
<1>8. Built(work[queue[p]].base, store[k] \o t, {})
  BY <1>2, <1>4, <1>5, <1>6, <1>7, BuiltGrows
<1> QED BY <1>2, <1>5, <1>7, <1>8, BuiltIsPrefix

\* The types hold after a batch.
LEMMA SinkTypes ==
    ASSUME CacheInv, NEW n, NEW b, SinkStep(n, b)
    PROVE  CacheTypes'
<1>1. work' \in [Msg -> CacheContext] /\ queue' \in Seq(Msg)
  BY SinkWork
<1>2. \A k \in Keys : store[k] \o Those(Stored(queue, n), MsgsOf(k)) \in Seq(Event)
  <2>1. \A k \in Keys : store'[k] \in Seq(Event)
    BY SinkLands
  <2> QED BY <2>1 DEF SinkStep
<1>3. store' \in [Keys -> Seq(Event)]
  BY <1>2 DEF SinkStep
<1>4. released' \in [Msg -> CacheHows]
  BY CacheFields DEF SinkStep, CacheInv, CacheTypes
<1> QED BY <1>1, <1>3, <1>4 DEF CacheTypes, SinkStep

\* What is still queued after a batch is handled and not stored.
LEMMA SinkQueued ==
    ASSUME CacheInv, NEW n, NEW b, SinkStep(n, b)
    PROVE  CacheQueued'
<1> DEFINE D == Dropped(queue, n, b)
           G == ToSet(Stored(queue, n))
<1>1. /\ \A m \in Msg : work'[m] = IF m \in D THEN C!Fresh ELSE work[m]
      /\ \A m \in Msg : released'[m] = IF m \in G THEN "ok" ELSE released[m]
      /\ C!Fresh.pc = "get"
      /\ \A m \in D : m \in Msg /\ m \in ToSet(queue) /\ m \notin ToSet(queue') /\ m \notin G
      /\ \A m \in G : m \in Msg /\ m \in ToSet(queue) /\ m \notin ToSet(queue')
  BY SinkWork DEF SinkStep
<1>2. \A m \in Msg : m \in ToSet(queue) <=> m \in ToSet(queue') \/ m \in D \/ m \in G
  <2>1. ASSUME NEW m \in Msg, m \in ToSet(queue)
        PROVE  m \in ToSet(queue') \/ m \in D \/ m \in G
    <3>1. PICK p \in DOMAIN queue : queue[p] = m
      BY <2>1 DEF ToSet
    <3>2. CASE p \in 1 .. n
      <4>1. Stored(queue, n)[p] = queue[p] /\ p \in DOMAIN Stored(queue, n)
        <5>1. PICK q \in Seq(Msg) : q = queue
          BY DEF CacheInv, CacheTypes
        <5>2. n \in Nat /\ n <= Len(q)
          BY <5>1 DEF SinkStep
        <5>3. DOMAIN Stored(q, n) = 1 .. n /\ \A r \in 1 .. n : Stored(q, n)[r] = q[r]
          BY <5>2, StoredElements
        <5> QED BY <3>2, <5>1, <5>3
      <4>2. m \in G
        BY <3>1, <4>1 DEF ToSet
      <4> QED BY <4>2
    <3>3. CASE p - b \in DOMAIN queue' /\ queue'[p - b] = queue[p]
      BY <3>1, <3>3 DEF ToSet
    <3>4. CASE queue[p] \in D
      BY <3>1, <3>4
    <3> QED BY <3>2, <3>3, <3>4, SinkWork
  <2>2. ASSUME NEW m \in Msg, m \in ToSet(queue')
        PROVE  m \in ToSet(queue)
    <3>1. PICK p \in DOMAIN queue' : queue'[p] = m
      BY <2>2 DEF ToSet
    <3>2. p + b \in DOMAIN queue /\ queue[p + b] = m
      BY <3>1, SinkWork
    <3> QED BY <3>2 DEF ToSet
  <2> QED BY <1>1, <2>1, <2>2
<1>3. /\ \A m \in Msg : m \in ToSet(queue) <=> work[m].pc = "out" /\ released[m] = "no"
      /\ \A m \in Msg : released[m] = "ok" => work[m].pc = "out"
  BY DEF CacheInv, CacheQueued
<1> HIDE DEF D, G
<1>4. \A m \in Msg : m \in ToSet(queue') <=> work'[m].pc = "out" /\ released'[m] = "no"
  <2>1. TAKE m \in Msg
  <2>2. CASE m \in D
    BY <1>1, <2>2
  <2>3. CASE m \in G
    BY <1>1, <2>3
  <2>4. CASE m \notin D /\ m \notin G
    BY <1>1, <1>2, <1>3, <2>4
  <2> QED BY <2>2, <2>3, <2>4
<1>5. \A m \in Msg : released'[m] = "ok" => work'[m].pc = "out"
  <2>1. TAKE m \in Msg
  <2>2. HAVE released'[m] = "ok"
  <2>3. CASE m \in D
    <3>1. released[m] = "no" /\ m \notin G
      BY <1>1, <1>3, <2>3
    <3> QED BY <1>1, <2>2, <3>1
  <2>4. CASE m \in G
    BY <1>1, <1>3, <2>4
  <2>5. CASE m \notin D /\ m \notin G
    BY <1>1, <1>3, <2>2, <2>5
  <2> QED BY <2>3, <2>4, <2>5
<1>6. \A p, q \in DOMAIN queue' : queue'[p] = queue'[q] => p = q
  <2>1. SUFFICES ASSUME NEW p \in DOMAIN queue', NEW q \in DOMAIN queue', queue'[p] = queue'[q]
                 PROVE  p = q
    OBVIOUS
  <2>2. p + b \in DOMAIN queue /\ queue'[p] = queue[p + b] /\ q + b \in DOMAIN queue /\ queue'[q] = queue[q + b]
    BY SinkWork
  <2>3. p + b = q + b
    BY <2>1, <2>2 DEF CacheInv, CacheQueued
  <2>4. p \in Int /\ q \in Int /\ b \in Int
    BY SinkWork
  <2> QED BY <2>3, <2>4
<1> QED BY <1>4, <1>5, <1>6 DEF CacheQueued

\* What is stored after a batch was computed from what is before it.
LEMMA SinkStored ==
    ASSUME CacheInv, NEW n, NEW b, SinkStep(n, b)
    PROVE  CacheStored'
<1>1. \A k \in Keys : /\ store'[k] \in Seq(Event) /\ Distinct(store'[k])
                      /\ ToSet(store'[k]) = ToSet(store[k]) \cup (ToSet(Stored(queue, n)) \cap MsgsOf(k))
  BY SinkLands
<1>2. \A k \in Keys : \A i \in DOMAIN store'[k] : store'[k][i] # 0 => KeyOf[store'[k][i]] = k
  <2>1. SUFFICES ASSUME NEW k \in Keys, NEW i \in DOMAIN store'[k], store'[k][i] # 0
                 PROVE  KeyOf[store'[k][i]] = k
    OBVIOUS
  <2>2. store'[k][i] \in ToSet(store'[k])
    BY DEF ToSet
  <2>3. CASE store'[k][i] \in ToSet(store[k])
    <3>1. PICK j \in DOMAIN store[k] : store[k][j] = store'[k][i]
      BY <2>3 DEF ToSet
    <3>2. store[k][j] # 0 => KeyOf[store[k][j]] = k
      BY DEF CacheInv, CacheStored
    <3> QED BY <2>1, <3>1, <3>2
  <2>4. CASE store'[k][i] \in MsgsOf(k)
    BY <2>4 DEF MsgsOf
  <2> QED BY <1>1, <2>2, <2>3, <2>4
<1>3. \A m \in Msg : released'[m] = "ok" <=> m \in ToSet(store'[KeyOf[m]])
  <2>1. TAKE m \in Msg
  <2>2. released'[m] = IF m \in ToSet(Stored(queue, n)) THEN "ok" ELSE released[m]
    BY DEF SinkStep
  <2>3. released[m] = "ok" <=> m \in ToSet(store[KeyOf[m]])
    BY DEF CacheInv, CacheStored
  <2>4. KeyOf[m] \in Keys /\ m \in MsgsOf(KeyOf[m])
    BY CacheFields DEF MsgsOf
  <2>5. ToSet(store'[KeyOf[m]]) = ToSet(store[KeyOf[m]]) \cup (ToSet(Stored(queue, n)) \cap MsgsOf(KeyOf[m]))
    BY <1>1, <2>4
  <2> QED BY <2>2, <2>3, <2>4, <2>5
<1>4. ASSUME NEW k \in Keys \ state'.forgot
      PROVE  StoredOn(store'[k], CacheBases')
  <2>1. k \in Keys \ state.forgot /\ StoredOn(store[k], CacheBases) /\ Distinct(store[k]) /\ store[k] \in Seq(Event)
    BY DEF SinkStep, CacheInv, CacheStored, CacheTypes
  <2>2. PICK t \in Seq(Event) : store'[k] = store[k] \o t /\ Distinct(t) /\ FromQueue(t, k, n)
    BY <2>1, SinkLands
  <2>3. \A m \in Msg : m \notin Dropped(queue, n, b) => CacheBases'[m] = work[m].base
    BY SinkWork DEF CacheBases
  <2>4. \A i \in DOMAIN store[k] : store[k][i] # 0 => CacheBases'[store[k][i]] = CacheBases[store[k][i]]
    <3>1. TAKE i \in DOMAIN store[k]
    <3>2. HAVE store[k][i] # 0
    <3>3. store[k][i] \in Msg /\ KeyOf[store[k][i]] = k /\ store[k][i] \in ToSet(store[k])
      <4>1. store[k][i] \in Event
        BY <2>1
      <4> QED BY <3>2, <4>1 DEF Event, CacheInv, CacheStored, ToSet
    <3>4. store[k][i] \notin ToSet(queue)
      <4>1. released[store[k][i]] = "ok"
        BY <3>3 DEF CacheInv, CacheStored
      <4> QED BY <3>3, <4>1 DEF CacheInv, CacheQueued
    <3>5. store[k][i] \notin Dropped(queue, n, b)
      BY <3>4, SinkWork
    <3> QED BY <2>3, <3>3, <3>5 DEF CacheBases
  <2>5. \A j \in DOMAIN t : /\ t[j] \notin ToSet(store[k])
                            /\ CacheBases'[t[j]] = SubSeq(store[k] \o t, 1, Len(store[k]) + j - 1)
    <3>1. TAKE j \in DOMAIN t
    <3>2. PICK p \in 1 .. n : KeyOf[queue[p]] = k /\ t[j] = queue[p] /\ Len(work[queue[p]].base) = Len(store[k]) + j - 1
      BY <2>2 DEF FromQueue
    <3>3. work[queue[p]].base = SubSeq(store'[k], 1, Len(work[queue[p]].base))
      BY <2>1, <3>2, SinkBases
    <3>4. p \in DOMAIN queue
      BY SinkWork
    <3>5. queue[p] \in Msg /\ queue[p] \notin ToSet(store[k]) /\ queue[p] \in ToSet(Stored(queue, n))
      <4>1. queue[p] \in Msg /\ queue[p] \notin ToSet(store[k])
        BY <2>1, <3>4, CacheIsQueued
      <4>2. PICK q \in Seq(Msg) : q = queue
        BY DEF CacheInv, CacheTypes
      <4>3. n \in Nat /\ n <= Len(q)
        BY <4>2 DEF SinkStep
      <4>4. ToSet(Stored(q, n)) = {q[r] : r \in 1 .. n}
        BY <4>3, StoredElements
      <4> QED BY <4>1, <4>2, <4>4
    <3>6. queue[p] \notin Dropped(queue, n, b)
      BY <3>5, SinkWork
    <3>7. CacheBases'[queue[p]] = work[queue[p]].base
      BY <2>3, <3>5, <3>6
    <3> QED BY <2>2, <3>2, <3>3, <3>5, <3>7
  <2>6. StoredOn(store[k] \o t, CacheBases')
    <3>1. PICK st, v, w : st \in Seq(Event) /\ st = store[k] /\ v = CacheBases /\ w = CacheBases'
      BY <2>1
    <3>2. StoredOn(st, v) /\ Distinct(st) /\ Distinct(t)
      BY <2>1, <2>2, <3>1
    <3>3. \A i \in DOMAIN st : st[i] # 0 => w[st[i]] = v[st[i]]
      BY <2>4, <3>1
    <3>4. \A j \in DOMAIN t : t[j] # 0 => t[j] \notin ToSet(st) /\ w[t[j]] = SubSeq(st \o t, 1, Len(st) + j - 1)
      BY <2>5, <3>1
    <3>5. StoredOn(st \o t, w)
      BY ONLY t \in Seq(Event), <3>1, <3>2, <3>3, <3>4, StoreGrows
    <3> QED BY <3>1, <3>5
  <2> QED BY <2>2, <2>6
<1> QED BY <1>1, <1>2, <1>3, <1>4 DEF CacheStored

\* What is cached or queued after a batch is built on what is stored and
\* queued then.
LEMMA SinkBuilt ==
    ASSUME CacheInv, NEW n, NEW b, SinkStep(n, b)
    PROVE  CacheBuilt'
<1>1. SUFFICES ASSUME NEW k \in Keys \ state'.forgot
               PROVE  CacheBuiltOf(k)'
  BY DEF CacheBuilt
<1>2. k \in Keys \ state.forgot /\ k \in Keys /\ CacheBuiltOf(k) /\ store[k] \in Seq(Event) /\ state.epoch[k] \in CacheEpochs
  <2>1. k \in Keys \ state.forgot /\ k \in Keys
    BY DEF SinkStep
  <2>2. state.epoch \in [Keys -> CacheEpochs]
    BY CacheStates DEF CacheInv, CacheTypes, Tidy
  <2> QED BY <2>1, <2>2 DEF CacheInv, CacheBuilt, CacheTypes
<1> DEFINE D == Dropped(queue, n, b)
<1>3. /\ \A m \in Msg : work'[m] = IF m \in D THEN C!Fresh ELSE work[m]
      /\ C!Fresh.pc = "get" /\ C!Fresh.epoch = 1 /\ \A p \in DOMAIN queue' : queue'[p] \in Msg /\ queue'[p] \notin D
  <2>1. \A p \in DOMAIN queue' : queue'[p] \in Msg /\ queue'[p] \in ToSet(queue')
    BY SinkWork DEF ToSet
  <2> QED BY <2>1, SinkWork
<1>4. PICK t \in Seq(Event) : store'[k] = store[k] \o t
  BY <1>2, SinkLands
<1>5. \A m \in Msg : work[m].base \in Seq(Event) /\ work[m].epoch \in CacheEpochs
  BY CacheContexts DEF CacheInv
<1>6. \A m \in Msg : KeyOf[m] = k => /\ work'[m].epoch <= state.epoch[k]
                                     /\ work'[m].pc = "loaded" => Built(work'[m].base, store'[k], {})
  <2>1. SUFFICES ASSUME NEW m \in Msg, KeyOf[m] = k
                 PROVE  /\ work'[m].epoch <= state.epoch[k]
                        /\ work'[m].pc = "loaded" => Built(work'[m].base, store'[k], {})
    OBVIOUS
  <2>2. CASE m \in D
    <3>1. \A i \in CacheEpochs : 1 <= i
      BY DEF CacheEpochs
    <3> QED BY <1>2, <1>3, <2>2, <3>1
  <2>3. CASE m \notin D
    <3>1. work[m].epoch <= state.epoch[k] /\ (work[m].pc = "loaded" => Built(work[m].base, store[k], {}))
      BY <1>2, <2>1 DEF CacheBuiltOf
    <3>2. Built(work[m].base, store[k], {}) => Built(work[m].base, store'[k], {})
      BY <1>2, <1>4, <1>5, BuiltStays
    <3> QED BY <1>3, <2>3, <3>1, <3>2
  <2> QED BY <2>2, <2>3
<1> HIDE DEF D
\* The epoch of the key is over: nothing is of the new one yet.
<1>7. CASE k \in KeysOf(D)
  <2>1. state'.cache[k] = {} /\ state'.epoch[k] = state.epoch[k] + 1
    BY <1>2, <1>7 DEF SinkStep, D
  <2>2. \A i, j \in CacheEpochs : i <= j => i <= j + 1 /\ i # j + 1
    BY DEF CacheEpochs
  <2>3. \A m \in Msg : KeyOf[m] = k => work'[m].epoch <= state'.epoch[k] /\ work'[m].epoch # state'.epoch[k]
    <3>1. \A m \in Msg : work'[m].epoch \in CacheEpochs
      <4>1. work' \in [Msg -> CacheContext]
        BY SinkWork
      <4> QED BY <4>1 DEF CacheContext
    <3> QED BY <1>2, <1>6, <2>1, <2>2, <3>1
  <2>4. \A p \in DOMAIN queue' : KeyOf[queue'[p]] = k => work'[queue'[p]].epoch # state'.epoch[k]
    BY <1>3, <2>3
  <2> QED BY <1>6, <2>1, <2>3, <2>4 DEF CacheBuiltOf
<1>8. CASE k \notin KeysOf(D)
  <2>1. state'.cache[k] = state.cache[k] /\ state'.epoch[k] = state.epoch[k]
    BY <1>2, <1>8 DEF SinkStep, D
  <2>2. PICK N \in Nat, c \in Nat : /\ N = Len(queue) /\ c = b /\ c <= N /\ Len(queue') = N - c /\ DOMAIN queue' = 1 .. N - c
                                    /\ \A p \in DOMAIN queue' : p + c \in DOMAIN queue /\ queue'[p] = queue[p + c]
    BY ZenonT(30), SinkWork
  <2>3. ASSUME NEW r \in Nat, c <= r, NEW s \in Seq(Event), Built(s, store[k], Queued(k, r))
        PROVE  Built(s, store'[k], QueuedOf(queue', work', state.epoch[k], k, r - c))
    BY <1>2, <1>8, <2>2, <2>3, SinkMoves DEF D
  <2>4. \A s \in Seq(Event) : Built(s, store[k], Queued(k, Len(queue))) => Built(s, store'[k], Queued(k, Len(queue))')
    <3>1. Queued(k, Len(queue))' = QueuedOf(queue', work', state.epoch[k], k, N - c)
      BY <2>1, <2>2 DEF Queued
    <3> QED BY <2>2, <2>3, <3>1
  <2>5. \A m \in Msg : KeyOf[m] = k => work'[m] = work[m]
    BY <1>3, <1>8 DEF KeysOf
  <2>6. \A m \in Msg : KeyOf[m] = k /\ work'[m].pc = "handle" /\ work'[m].epoch = state'.epoch[k]
          => Built(work'[m].base, store'[k], Queued(k, Len(queue))')
    BY <1>2, <1>5, <2>1, <2>4, <2>5 DEF CacheBuiltOf
  <2>7. \A s \in state'.cache[k] : Built(s, store'[k], Queued(k, Len(queue))')
    <3>1. state.cache[k] \in SUBSET Seq(Event)
      <4>1. state.cache \in [Keys -> SUBSET Seq(Event)]
        BY CacheStates DEF CacheInv, CacheTypes, Tidy
      <4> QED BY <1>2, <4>1
    <3> QED BY <1>2, <2>1, <2>4, <3>1 DEF CacheBuiltOf
  <2>8. ASSUME NEW p \in DOMAIN queue', KeyOf[queue'[p]] = k, work'[queue'[p]].epoch = state'.epoch[k]
        PROVE  Built(work'[queue'[p]].base, store'[k], Queued(k, p - 1)')
    <3>1. PICK r \in DOMAIN queue : r = p + c /\ queue'[p] = queue[r] /\ queue[r] \in Msg /\ work'[queue'[p]] = work[queue[r]]
      BY <1>3, <2>2, <2>5, <2>8
    <3>2. PICK i \in Nat : i = r - 1 /\ c <= i /\ i - c = p - 1
      <4>1. p \in Nat /\ p >= 1
        BY <2>2
      <4> QED BY <3>1, <4>1
    <3>3. Built(work[queue[r]].base, store[k], Queued(k, i))
      BY <1>2, <2>1, <2>8, <3>1, <3>2 DEF CacheBuiltOf
    <3>4. Queued(k, p - 1)' = QueuedOf(queue', work', state.epoch[k], k, i - c)
      BY <2>1, <3>2 DEF Queued
    <3>5. Built(work[queue[r]].base, store'[k], QueuedOf(queue', work', state.epoch[k], k, i - c))
      BY <1>5, <2>3, <3>1, <3>2, <3>3
    <3> QED BY <3>1, <3>4, <3>5
  <2> QED BY <1>6, <2>1, <2>6, <2>7, <2>8 DEF CacheBuiltOf
<1> QED BY <1>7, <1>8

\* A batch is stored, in part or in full.
LEMMA CacheSink ==
    ASSUME CacheInv, C!Sink
    PROVE  CacheInv'
<1>1. PICK n, b : SinkStep(n, b)
  BY CacheSinks DEF CacheInv
<1> QED BY <1>1, SinkTypes, SinkQueued, SinkStored, SinkBuilt DEF CacheInv

\* Nothing is handled and nothing cached.
LEMMA CacheInitially ==
    ASSUME C!Init
    PROVE  CacheInv
<1>1. /\ queue = <<>> /\ work = [m \in Msg |-> C!Fresh] /\ store = [k \in Keys |-> <<>>] /\ released = [m \in Msg |-> "no"]
      /\ state = [epoch |-> [k \in Keys |-> 1], cache |-> [k \in Keys |-> {}], recent |-> <<>>, stale |-> {}, forgot |-> {}]
  BY CacheFields DEF C!Init
<1>2. C!Fresh \in CacheContext /\ C!Fresh.pc = "get" /\ C!Fresh.epoch = 1
  BY CacheFields DEF CacheContext, C!Fresh
<1>3. /\ state \in CacheState /\ Len(state.recent) = 0 /\ ToSet(state.recent) = {} /\ state.stale = {}
      /\ \A k \in Keys : state.cache[k] = {} /\ state.epoch[k] = 1
  <2>1. <<>> \in Seq(Keys) /\ Len(<<>>) = 0 /\ ToSet(<<>>) = {}
    BY EmptySeq DEF ToSet
  <2>2. [k \in Keys |-> 1] \in [Keys -> CacheEpochs] /\ [k \in Keys |-> {}] \in [Keys -> SUBSET Seq(Event)]
    BY CacheFields
  <2> QED BY <1>1, <2>1, <2>2 DEF CacheState
<1>4. Tidy(state) /\ Len(state.recent) <= CacheSize
  BY <1>3, SizesAssumption DEF Tidy
<1>5. CacheTypes
  BY <1>1, <1>2, <1>4, CacheFields, EmptySeq DEF CacheTypes
<1>6. DOMAIN queue = {} /\ ToSet(queue) = {} /\ \A k \in Keys : DOMAIN store[k] = {} /\ ToSet(store[k]) = {}
  BY <1>1 DEF ToSet
<1>7. \A m \in Msg : work[m].pc = "get" /\ work[m].epoch = 1 /\ released[m] = "no" /\ KeyOf[m] \in Keys
  BY <1>1, <1>2, CacheFields
<1>8. CacheQueued
  BY <1>6, <1>7 DEF CacheQueued
<1>9. CacheStored
  BY <1>6, <1>7 DEF CacheStored, Distinct, StoredOn
<1>10. CacheBuilt
  BY <1>3, <1>6, <1>7 DEF CacheBuilt, CacheBuiltOf
<1> QED BY <1>5, <1>8, <1>9, <1>10 DEF CacheInv

\* Every step of the state cache.
LEMMA CacheSteps ==
    ASSUME CacheInv, C!Next
    PROVE  CacheInv'
<1>1. C!Msg = Msg
  BY CacheFields
<1>2. ASSUME NEW m \in Msg, C!Handling(m)
      PROVE  CacheInv'
  BY <1>2, CacheGet, CacheLoad, CacheLoaded, CacheHandle DEF C!Handling
<1> QED BY <1>1, <1>2, CacheSink, CacheExpire, CacheOtherAppends DEF C!Next

\* What the invariant says of the properties.
LEMMA CacheImplies ==
    ASSUME CacheInv
    PROVE  C!TypeOK /\ C!HandledOnItsState
<1>1. CacheTypes /\ state \in CacheState
  BY DEF CacheInv, CacheTypes, Tidy
<1>2. C!TypeOK
  <2>1. \A m \in Msg : work[m].pc \in CachePCs /\ work[m].base \in Seq(Event) /\ work[m].epoch \in CacheEpochs
    BY <1>1, CacheContexts
  <2>2. ASSUME NEW k \in Keys
        PROVE  state.epoch[k] \in CacheEpochs /\ Cardinality(state.cache[k]) <= 1
    <3>1. state.epoch[k] \in CacheEpochs
      BY <1>1, CacheStates
    <3>2. CASE state.cache[k] = {}
      BY <3>1, <3>2, FS_EmptySet
    <3>3. CASE state.cache[k] # {}
      <4>1. PICK x : x \in state.cache[k]
        BY <3>3
      <4>2. state.cache[k] = {x}
        BY <1>1, <4>1 DEF CacheTypes, Tidy
      <4>3. Cardinality({x}) = 1
        BY FS_Singleton
      <4> QED BY <3>1, <4>2, <4>3
    <3> QED BY <3>2, <3>3
  <2>3. ToSet(state.recent) = {k \in Keys : state.cache[k] # {}} /\ state.stale \subseteq ToSet(state.recent)
    BY <1>1 DEF CacheTypes, Tidy
  <2> QED BY <1>1, <2>1, <2>2, <2>3, CacheFields DEF C!TypeOK, CacheTypes, CachePCs, CacheEpochs, CacheHows
<1>3. \A k \in Keys : store[k] \in Seq(Event) /\ DOMAIN store[k] = 1 .. Len(store[k])
  BY <1>1 DEF CacheTypes
<1>4. C!StoredOnce
  <2>1. \A m \in Msg : released[m] = "ok" <=> C!Contains(store[KeyOf[m]], m)
    <3>1. TAKE m \in Msg
    <3>2. KeyOf[m] \in Keys
      BY CacheFields
    <3>3. C!Contains(store[KeyOf[m]], m) <=> m \in ToSet(store[KeyOf[m]])
      BY <1>3, <3>2 DEF C!Contains, ToSet
    <3> QED BY <3>3 DEF CacheInv, CacheStored
  <2> QED BY <2>1, CacheFields DEF C!StoredOnce
<1>5. C!Once
  BY CacheFields DEF C!Once, CacheInv, CacheStored, Distinct
<1>6. ASSUME NEW k \in Keys \ state.forgot
      PROVE  C!BuiltOnStored(k) /\ C!CachedIsStored(k)
  <2>1. StoredOn(store[k], CacheBases) /\ store[k] \in Seq(Event) /\ CacheBuiltOf(k)
    BY <1>3 DEF CacheInv, CacheStored, CacheBuilt
  <2>2. C!BuiltOnStored(k)
    <3>1. SUFFICES ASSUME NEW i \in DOMAIN store[k], store[k][i] # 0
                   PROVE  work[store[k][i]].base = SubSeq(store[k], 1, i - 1)
      BY CacheFields DEF C!BuiltOnStored
    <3>2. store[k][i] \in Msg
      BY <2>1, <3>1 DEF Event
    <3> QED BY <2>1, <3>1, <3>2 DEF StoredOn, CacheBases
  <2>3. C!CachedIsStored(k)
    <3>1. SUFFICES ASSUME C!Over, NEW s \in state.cache[k]
                   PROVE  C!IsPrefix(s, store[k])
      BY DEF C!CachedIsStored
    <3>2. queue = <<>> /\ s \in Seq(Event)
      <4>1. \A m \in Msg : released[m] = "ok"
        BY <3>1, CacheFields DEF C!Over
      <4>2. \A p \in DOMAIN queue : FALSE
        BY <4>1, CacheIsQueued
      <4>3. queue = <<>>
        <5>1. queue \in Seq(Msg)
          BY <1>1 DEF CacheTypes
        <5> QED BY <4>2, <5>1
      <4>4. state.cache \in [Keys -> SUBSET Seq(Event)]
        BY <1>1, CacheStates
      <4> QED BY <3>1, <4>3, <4>4
    <3>3. Queued(k, Len(queue)) = {}
      BY <3>2 DEF Queued, QueuedOf
    <3>4. Built(s, store[k], {})
      BY <2>1, <3>1, <3>3 DEF CacheBuiltOf
    <3>5. Len(s) <= Len(store[k]) /\ s = SubSeq(store[k], 1, Len(s))
      BY <2>1, <3>2, <3>4, BuiltIsPrefix
    <3> QED BY <2>1, <3>2, <3>5 DEF C!IsPrefix
  <2> QED BY <2>2, <2>3
<1> QED BY <1>2, <1>4, <1>5, <1>6, CacheFields DEF C!HandledOnItsState

(***************************************************************************)
(* The life of an application.                                             *)
(***************************************************************************)
AppInterrupts == {"no", "stopping", "waiting", "late", "over"}
AppIndex == 1 .. 6
AppCodes == {0, 1}
AppWork == [phase: A!Phases, i: AppIndex, init: BOOLEAN, run: BOOLEAN, disposed: BOOLEAN,
            interrupt: AppInterrupts, code: AppCodes]
AppTypes ==
  /\ queue \in [taken: SUBSET Msg, stopped: BOOLEAN]
  /\ work \in AppWork
  /\ state \in [A!Components -> {"new", "ready", "failed", "disposed"}]
  /\ store \in Seq(Msg) /\ released \in [Msg -> {"no", "ok", "error"}] /\ faults \in Nat
AppPhases ==
  /\ work.phase = "init" => queue.taken = {} /\ \A j \in 1 .. work.i - 1 : state[A!InitOrder[j]] = "ready"
  /\ work.phase = "run" => (\A c \in A!Components : state[c] = "ready") /\ \A m \in Msg : released[m] # "error"
  /\ work.phase \in {"init", "run", "stop"} => ~work.run
  /\ work.run => A!InProgress = {} /\ \A m \in Msg : released[m] # "error"
  /\ work.phase = "stop" => faults > 0
  /\ work.phase \in {"dispose", "exit"} => faults > 0 \/ work.run
  /\ work.phase = "dispose" => \A j \in 1 .. work.i - 1 : state[A!DisposeOrder[j]] = "disposed"
  /\ work.phase # "exit" => work.disposed
  /\ work.phase = "exit" /\ work.code = 0 => work.run /\ \A c \in A!Components : state[c] = "disposed"
AppStored ==
  /\ ToSet(store) = {m \in Msg : released[m] = "ok"}
  /\ \A m \in Msg : released[m] # "no" => m \in queue.taken
AppInv == AppTypes /\ AppPhases /\ AppStored

\* The two orders name every component.
LEMMA AppOrders ==
    /\ Len(A!InitOrder) = 6 /\ Len(A!DisposeOrder) = 6
    /\ \A j \in 1 .. 6 : A!InitOrder[j] \in A!Components /\ A!DisposeOrder[j] \in A!Components
    /\ \A c \in A!Components : \E j \in 1 .. 6 : A!InitOrder[j] = c
    /\ \A c \in A!Components : \E j \in 1 .. 6 : A!DisposeOrder[j] = c
<1>1. /\ Len(A!InitOrder) = 6 /\ Len(A!DisposeOrder) = 6 /\ DOMAIN A!InitOrder = 1 .. 6
      /\ A!InitOrder[1] = "tracing" /\ A!InitOrder[2] = "metrics" /\ A!InitOrder[3] = "state"
      /\ A!InitOrder[4] = "sink" /\ A!InitOrder[5] = "source" /\ A!InitOrder[6] = "registry"
      /\ A!DisposeOrder[1] = "source" /\ A!DisposeOrder[2] = "sink" /\ A!DisposeOrder[3] = "registry"
      /\ A!DisposeOrder[4] = "state" /\ A!DisposeOrder[5] = "metrics" /\ A!DisposeOrder[6] = "tracing"
  BY DEF A!InitOrder, A!DisposeOrder
<1>2. \A j \in 1 .. 6 : j = 1 \/ j = 2 \/ j = 3 \/ j = 4 \/ j = 5 \/ j = 6
  OBVIOUS
<1>3. A!Components = {"tracing", "metrics", "state", "sink", "source", "registry"}
  BY <1>1, <1>2 DEF A!Components, A!ToSet
<1>4. \A c \in A!Components : \E j \in 1 .. 6 : A!InitOrder[j] = c
  BY <1>1, <1>3
<1>5. \A c \in A!Components : \E j \in 1 .. 6 : A!DisposeOrder[j] = c
  BY <1>1, <1>3
<1>6. \A j \in 1 .. 6 : A!InitOrder[j] \in A!Components /\ A!DisposeOrder[j] \in A!Components
  BY <1>1, <1>2, <1>3
<1> QED BY <1>1, <1>4, <1>5, <1>6

\* The values of the fields.
LEMMA AppFields ==
    /\ "init" \in A!Phases /\ "run" \in A!Phases /\ "stop" \in A!Phases /\ "dispose" \in A!Phases /\ "exit" \in A!Phases
    /\ "no" \in AppInterrupts /\ "stopping" \in AppInterrupts /\ "waiting" \in AppInterrupts
    /\ "late" \in AppInterrupts /\ "over" \in AppInterrupts
    /\ AppIndex = 1 .. 6 /\ 1 \in AppIndex /\ 0 \in AppCodes /\ 1 \in AppCodes
BY DEF A!Phases, AppInterrupts, AppIndex, AppCodes

\* A new application.
LEMMA AppInitially ==
    ASSUME A!Init
    PROVE  AppInv
<1>1. AppTypes
  BY AppFields, EmptySeq DEF AppTypes, AppWork, A!Init, A!Msg, Msg
<1>2. AppPhases
  BY SizesAssumption DEF AppPhases, A!Init
<1>3. AppStored
  BY DEF AppStored, A!Init, ToSet, A!Msg, Msg
<1> QED BY <1>1, <1>2, <1>3 DEF AppInv

\* The next component is initialized.
LEMMA AppInitialize ==
    ASSUME AppInv, A!Initialize
    PROVE  AppInv'
<1> USE DEF AppInv
<1>1. /\ work.phase = "init" /\ work.i \in 1 .. 6 /\ A!InitOrder[work.i] \in A!Components
      /\ state' = [state EXCEPT ![A!InitOrder[work.i]] = "ready"] /\ state' \in [A!Components -> {"new", "ready", "failed", "disposed"}]
      /\ state'[A!InitOrder[work.i]] = "ready"
      /\ \A c \in A!Components : state[c] = "ready" => state'[c] = "ready"
  BY AppOrders, AppFields DEF AppTypes, AppWork, A!Initialize
<1>2. /\ work' = [work EXCEPT !.phase = IF work.i = 6 THEN "run" ELSE "init", !.i = IF work.i = 6 THEN 1 ELSE work.i + 1]
  BY AppOrders DEF AppTypes, AppWork, A!Initialize, A!Enter
<1>3. /\ work'.phase = IF work.i = 6 THEN "run" ELSE "init"
      /\ work'.i = IF work.i = 6 THEN 1 ELSE work.i + 1
      /\ work'.run = work.run /\ work'.disposed = work.disposed
  BY <1>1, <1>2 DEF AppTypes, AppWork
<1>4. AppTypes'
  <2>1. /\ (IF work.i = 6 THEN "run" ELSE "init") \in A!Phases
        /\ (IF work.i = 6 THEN 1 ELSE work.i + 1) \in AppIndex
    BY <1>1, AppFields
  <2>2. work' \in AppWork
    BY <1>2, <2>1 DEF AppTypes, AppWork
  <2> QED BY <1>1, <2>2 DEF AppTypes, A!Initialize
<1>5. AppPhases'
  <2>1. \A j \in 1 .. work.i : state'[A!InitOrder[j]] = "ready"
    BY <1>1, AppOrders DEF AppPhases
  <2>2. work.i = 6 => \A c \in A!Components : state'[c] = "ready"
    BY <2>1, AppOrders
  <2> QED BY <1>1, <1>3, <2>1, <2>2 DEF AppPhases, AppTypes, AppWork, AppStored, A!Initialize, A!InProgress
<1>6. AppStored'
  BY DEF AppStored, A!Initialize
<1> QED BY <1>4, <1>5, <1>6

\* A component fails to be initialized.
LEMMA AppInitializeFails ==
    ASSUME AppInv, A!InitializeFails
    PROVE  AppInv'
<1> USE DEF AppInv
<1>1. work.phase = "init" /\ work' = [work EXCEPT !.phase = "dispose", !.i = 1, !.init = FALSE] /\ faults' = faults + 1
  BY DEF A!InitializeFails, A!Enter, A!Fault, AppTypes, AppWork
<1>2. /\ work' \in AppWork /\ work'.phase = "dispose" /\ work'.i = 1 /\ work'.disposed = work.disposed
      /\ work'.run = work.run
  BY AppFields, <1>1 DEF AppTypes, AppWork
<1>3. AppTypes' /\ faults' > 0
  <2>1. state' \in [A!Components -> {"new", "ready", "failed", "disposed"}]
    BY AppOrders, AppFields DEF AppTypes, AppWork, A!InitializeFails
  <2> QED BY <1>1, <1>2, <2>1 DEF AppTypes, A!InitializeFails
<1>4. AppPhases'
  <2>1. A!InProgress' = A!InProgress /\ ~work.run /\ work.disposed
    BY <1>1, <1>2 DEF AppPhases, A!InitializeFails, A!InProgress
  <2> HIDE DEF AppInv
  <2> QED BY <1>1, <1>2, <1>3, <2>1 DEF AppPhases
<1>5. AppStored'
  BY DEF AppStored, A!InitializeFails
<1> QED BY <1>3, <1>4, <1>5

\* A message is taken from the source.
LEMMA AppTake ==
    ASSUME AppInv, A!Take
    PROVE  AppInv'
<1> USE DEF AppInv
<1>1. A!Msg = Msg /\ queue.taken # Msg /\ queue' = [queue EXCEPT !.taken = @ \cup {A!Min(Msg \ @)}]
  BY DEF A!Take, A!Msg, Msg
<1>2. A!Min(Msg \ queue.taken) \in Msg \ queue.taken
  <2>1. Msg \ queue.taken \in SUBSET Nat /\ queue.taken \subseteq Msg
    BY DEF AppTypes, Msg
  <2>2. \E n \in Msg \ queue.taken : \A m \in Msg \ queue.taken : n <= m
    BY <1>1, <2>1, LeastElement
  <2> QED BY <2>2 DEF A!Min
<1>3. queue' \in [taken: SUBSET Msg, stopped: BOOLEAN] /\ queue.taken \subseteq queue'.taken
  BY <1>1, <1>2 DEF AppTypes, AppWork
<1>4. AppTypes'
  BY AppFields, <1>3 DEF AppTypes, AppWork, A!Take
<1>5. AppPhases'
  BY DEF AppPhases, A!Take
<1>6. AppStored'
  BY <1>3 DEF AppStored, A!Take
<1> QED BY <1>4, <1>5, <1>6

\* A message is handled, stored and released.
LEMMA AppFinish ==
    ASSUME AppInv, NEW m \in Msg, A!Finish(m)
    PROVE  AppInv'
<1> USE DEF AppInv
<1>1. /\ A!Msg = Msg /\ m \in queue.taken /\ released[m] = "no" /\ store' = Append(store, m)
      /\ released' = [x \in Msg |-> IF x = m THEN "ok" ELSE released[x]]
      /\ UNCHANGED <<queue, work, state, faults>>
  BY DEF A!Finish, A!InProgress, A!Release, A!Msg, Msg
<1>2. released' \in [Msg -> {"no", "ok", "error"}] /\ \A x \in Msg : released'[x] = IF x = m THEN "ok" ELSE released[x]
  BY <1>1 DEF AppTypes, AppWork
<1>3. ToSet(store') = ToSet(store) \cup {m}
  BY <1>1, ToSetAppend DEF AppTypes, AppWork
<1>4. AppTypes'
  BY AppFields, <1>1, <1>2 DEF AppTypes, AppWork
<1>5. AppPhases'
  <2>1. m \in A!InProgress
    BY DEF A!Finish
  <2>2. ~work.run
    BY <2>1 DEF AppPhases
  <2> QED BY <1>1, <1>2, <2>2 DEF AppPhases
<1>6. AppStored'
  BY <1>1, <1>2, <1>3 DEF AppStored
<1> QED BY <1>4, <1>5, <1>6

\* The source has ended and nothing is in progress.
LEMMA AppDone ==
    ASSUME AppInv, A!Done
    PROVE  AppInv'
<1> USE DEF AppInv
<1>1. /\ work.phase = "run" /\ A!InProgress = {}
      /\ work' = [work EXCEPT !.phase = "dispose", !.i = 1, !.run = TRUE, !.interrupt = "over"]
      /\ UNCHANGED <<queue, state, store, released, faults>>
  BY DEF A!Done, A!Drained, A!Enter, AppTypes, AppWork
<1>2. AppTypes'
  <2>1. work' \in AppWork
    BY AppFields, <1>1 DEF AppTypes, AppWork
  <2> QED BY <1>1, <2>1 DEF AppTypes
<1>3. /\ work'.phase = "dispose" /\ work'.i = 1 /\ work'.disposed = work.disposed /\ work'.run
      /\ A!InProgress' = A!InProgress
  BY <1>1 DEF AppTypes, AppWork, A!InProgress
<1>4. AppPhases'
  BY <1>1, <1>3 DEF AppPhases
<1> QED BY <1>1, <1>2, <1>4 DEF AppStored

\* A message fails, and with it the run or only the message.
LEMMA AppFail ==
    ASSUME AppInv, NEW m \in Msg, A!Fail(m)
    PROVE  AppInv'
<1> USE DEF AppInv
<1>1. /\ A!Msg = Msg /\ m \in queue.taken /\ released[m] = "no" /\ work.phase = "run" /\ faults' = faults + 1
      /\ released' = [x \in Msg |-> IF x = m THEN "error" ELSE released[x]]
      /\ work' = [work EXCEPT !.phase = "stop", !.i = 1, !.interrupt = "over"]
      /\ UNCHANGED <<queue, state, store>>
  BY DEF A!Fail, A!InProgress, A!Release, A!Msg, Msg, A!Enter, A!Fault, AppTypes, AppWork
<1>2. released' \in [Msg -> {"no", "ok", "error"}] /\ \A x \in Msg : released'[x] = IF x = m THEN "error" ELSE released[x]
  BY <1>1 DEF AppTypes, AppWork
<1>4. work' \in AppWork /\ work'.phase = "stop" /\ work'.run = work.run
  BY AppFields, <1>1 DEF AppTypes, AppWork
<1>3. AppTypes' /\ faults' > 0
  BY <1>1, <1>2, <1>4 DEF AppTypes
<1>5. AppPhases'
  BY <1>1, <1>3, <1>4 DEF AppPhases
<1>6. AppStored'
  BY <1>1, <1>2 DEF AppStored
<1> QED BY <1>3, <1>5, <1>6

\* The shutdown: the source stops, the timer runs out.
LEMMA AppStops ==
    ASSUME AppInv, A!Stop \/ A!Interrupt \/ A!SourceStopped \/ A!Timeout \/ A!InterruptAgain
    PROVE  AppInv'
<1> USE DEF AppInv
<1>1. CASE A!Stop
  <2>1. /\ work' = [work EXCEPT !.phase = "dispose", !.i = 1] /\ UNCHANGED <<state, store, released, faults>>
        /\ work.phase = "stop" /\ queue' = [queue EXCEPT !.stopped = TRUE]
    BY <1>1 DEF A!Stop, A!Enter, AppTypes, AppWork
  <2>5. work' \in AppWork
    BY AppFields, <2>1 DEF AppTypes, AppWork
  <2>2. AppTypes' /\ queue'.taken = queue.taken
    BY <2>1, <2>5 DEF AppTypes
  <2>3. /\ work'.phase = "dispose" /\ work'.i = 1 /\ work'.disposed = work.disposed /\ work'.run = work.run
        /\ A!InProgress' = A!InProgress
    BY <2>1, <2>2 DEF AppTypes, AppWork, A!InProgress
  <2>6. faults > 0 /\ work.disposed'
    BY <2>1, <2>3 DEF AppPhases
  <2>4. AppPhases'
    BY <2>1, <2>3, <2>6 DEF AppPhases
  <2> QED BY <2>1, <2>2, <2>4 DEF AppStored
<1>2. CASE A!Interrupt
  <2>1. /\ work' = [work EXCEPT !.interrupt = "stopping"] /\ UNCHANGED <<queue, state, store, released, faults>>
    BY <1>2 DEF A!Interrupt
  <2>2. AppTypes'
    BY AppFields, <2>1 DEF AppTypes, AppWork
  <2>3. /\ work'.phase = work.phase /\ work'.i = work.i /\ work'.run = work.run /\ work'.disposed = work.disposed
        /\ work'.code = work.code /\ A!InProgress' = A!InProgress
    BY <2>1 DEF AppTypes, AppWork, A!InProgress
  <2>4. AppPhases'
    BY <2>1, <2>3 DEF AppPhases
  <2> QED BY <2>1, <2>2, <2>4 DEF AppStored
<1>3. CASE A!SourceStopped
  <2>1. /\ work' = [work EXCEPT !.interrupt = "waiting"] /\ UNCHANGED <<state, store, released, faults>>
        /\ queue' = [queue EXCEPT !.stopped = TRUE]
    BY <1>3 DEF A!SourceStopped
  <2>2. AppTypes' /\ queue'.taken = queue.taken
    BY AppFields, <2>1 DEF AppTypes, AppWork
  <2>3. /\ work'.phase = work.phase /\ work'.i = work.i /\ work'.run = work.run /\ work'.disposed = work.disposed
        /\ work'.code = work.code /\ A!InProgress' = A!InProgress
    BY <2>1, <2>2 DEF AppTypes, AppWork, A!InProgress
  <2>4. AppPhases'
    BY <2>1, <2>2, <2>3 DEF AppPhases
  <2> QED BY <2>1, <2>2, <2>4 DEF AppStored
<1>4. CASE A!Timeout
  <2>1. /\ work.phase = "run" /\ work' = [work EXCEPT !.phase = "stop", !.i = 1, !.interrupt = "late"]
        /\ UNCHANGED <<queue, state, store, released>> /\ faults' = faults + 1
    BY <1>4 DEF A!Timeout, A!Enter, A!Fault, AppTypes, AppWork
  <2>4. work' \in AppWork /\ work'.phase = "stop" /\ work'.run = work.run
    BY AppFields, <2>1 DEF AppTypes, AppWork
  <2>2. AppTypes' /\ faults' > 0
    BY <2>1, <2>4 DEF AppTypes
  <2>3. AppPhases'
    BY <2>1, <2>2, <2>4 DEF AppPhases
  <2> QED BY <2>1, <2>2, <2>3 DEF AppStored
<1>5. CASE A!InterruptAgain
  <2>1. /\ work' = [work EXCEPT !.phase = "exit", !.i = 1, !.code = 1]
        /\ UNCHANGED <<queue, state, store, released>> /\ faults' = faults + 1
    BY <1>5 DEF A!InterruptAgain, A!Enter, A!Fault, AppTypes, AppWork
  <2>4. work' \in AppWork /\ work'.phase = "exit" /\ work'.run = work.run /\ work'.code = 1
    BY AppFields, <2>1 DEF AppTypes, AppWork
  <2>2. AppTypes' /\ faults' > 0 /\ A!InProgress' = A!InProgress
    BY <2>1, <2>4 DEF AppTypes, A!InProgress
  <2>3. AppPhases'
    BY <2>1, <2>2, <2>4 DEF AppPhases
  <2> QED BY <2>1, <2>2, <2>3 DEF AppStored
<1> QED BY <1>1, <1>2, <1>3, <1>4, <1>5

\* The next component is disposed of.
LEMMA AppDispose ==
    ASSUME AppInv, A!Dispose
    PROVE  AppInv'
<1> USE DEF AppInv
<1>1. /\ work.phase = "dispose" /\ work.i \in 1 .. 6 /\ A!DisposeOrder[work.i] \in A!Components
      /\ state' = [state EXCEPT ![A!DisposeOrder[work.i]] = "disposed"]
      /\ UNCHANGED <<queue, store, released, faults>>
  BY AppOrders, AppFields DEF AppTypes, AppWork, A!Dispose
<1>2. /\ state' \in [A!Components -> {"new", "ready", "failed", "disposed"}]
      /\ state'[A!DisposeOrder[work.i]] = "disposed"
      /\ \A c \in A!Components : state[c] = "disposed" => state'[c] = "disposed"
  BY <1>1 DEF AppTypes, AppWork
<1>3. \A j \in 1 .. work.i : state'[A!DisposeOrder[j]] = "disposed"
  BY <1>1, <1>2, AppOrders DEF AppPhases
<1>4. A!InProgress' = A!InProgress
  BY <1>1 DEF A!InProgress
<1>5. CASE work.i = 6
  <2>1. work' = [work EXCEPT !.phase = "exit", !.code = IF work.init /\ work.run /\ work.disposed THEN 0 ELSE 1]
    BY <1>5, AppOrders DEF A!Dispose, A!Leave
  <2>5. (IF work.init /\ work.run /\ work.disposed THEN 0 ELSE 1) \in AppCodes
    BY AppFields
  <2>6. /\ work' \in AppWork /\ work'.phase = "exit" /\ work'.run = work.run
        /\ work'.code = IF work.init /\ work.run /\ work.disposed THEN 0 ELSE 1
    BY AppFields, <2>1, <2>5 DEF AppTypes, AppWork
  <2>2. AppTypes' /\ work'.phase = "exit" /\ work'.run = work.run /\ (work'.code = 0 => work.run)
    BY <1>1, <1>2, <2>6 DEF AppTypes
  <2>3. \A c \in A!Components : state'[c] = "disposed"
    BY <1>3, <1>5, AppOrders
  <2>4. AppPhases'
    BY <1>1, <1>4, <2>2, <2>3 DEF AppPhases
  <2> QED BY <1>1, <2>2, <2>4 DEF AppStored
<1>6. CASE work.i # 6
  <2>1. work' = [work EXCEPT !.i = work.i + 1]
    BY <1>6, AppOrders DEF A!Dispose
  <2>2. /\ AppTypes' /\ work'.phase = "dispose" /\ work'.run = work.run /\ work'.disposed = work.disposed
        /\ work'.i = work.i + 1
    BY AppFields, <1>1, <1>2, <1>6, <2>1 DEF AppTypes, AppWork
  <2>3. AppPhases'
    BY <1>1, <1>3, <1>4, <2>2 DEF AppPhases
  <2> QED BY <1>1, <2>2, <2>3 DEF AppStored
<1> QED BY <1>5, <1>6

\* A component fails to be disposed of.
LEMMA AppDisposeFails ==
    ASSUME AppInv, A!DisposeFails
    PROVE  AppInv'
<1> USE DEF AppInv
<1>1. /\ work.phase = "dispose" /\ work' = [work EXCEPT !.disposed = FALSE, !.phase = "exit", !.code = 1]
      /\ UNCHANGED <<queue, state, store, released>> /\ faults' = faults + 1
  BY DEF A!DisposeFails, A!Leave, A!Fault, AppTypes, AppWork
<1>4. work' \in AppWork /\ work'.phase = "exit" /\ work'.run = work.run /\ work'.code = 1
  BY AppFields, <1>1 DEF AppTypes, AppWork
<1>2. AppTypes' /\ faults' > 0 /\ A!InProgress' = A!InProgress
  BY <1>1, <1>4 DEF AppTypes, A!InProgress
<1>3. AppPhases'
  BY <1>1, <1>2, <1>4 DEF AppPhases
<1> QED BY <1>1, <1>2, <1>3 DEF AppStored

\* Every step of the application.
LEMMA AppSteps ==
    ASSUME AppInv, A!Next
    PROVE  AppInv'
<1>1. \A m \in A!Msg : m \in Msg
  BY DEF A!Msg, Msg
<1> QED BY <1>1, AppInitialize, AppInitializeFails, AppTake, AppFinish, AppDone, AppFail, AppStops, AppDispose,
           AppDisposeFails DEF A!Next, A!Progress

\* What the invariant says of the properties.
LEMMA AppImplies ==
    ASSUME AppInv
    PROVE  A!TypeOK /\ A!EndsInOrder
<1> USE DEF AppInv
<1>1. A!Msg = Msg
  BY DEF A!Msg, Msg
<1>2. A!TypeOK
  BY <1>1 DEF AppTypes, AppWork, AppWork, A!TypeOK, AppIndex, AppInterrupts, AppCodes
<1>3. faults = 0 /\ A!InProgress # {} => \A c \in A!Components : state[c] = "ready"
  <2>1. work.phase = "init" => A!InProgress = {}
    BY DEF AppPhases, A!InProgress
  <2> QED BY <2>1 DEF AppPhases, AppTypes, AppWork, A!Phases
<1>4. work.phase = "exit" /\ work.code = 0 =>
        A!InProgress = {} /\ ToSet(store) = queue.taken /\ \A c \in A!Components : state[c] = "disposed"
  <2>1. SUFFICES ASSUME work.phase = "exit", work.code = 0
                 PROVE  A!InProgress = {} /\ ToSet(store) = queue.taken /\ \A c \in A!Components : state[c] = "disposed"
    OBVIOUS
  <2>2. A!InProgress = {} /\ (\A m \in Msg : released[m] # "error") /\ \A c \in A!Components : state[c] = "disposed"
    BY <2>1 DEF AppPhases
  <2>3. \A m \in queue.taken : m \in Msg /\ released[m] = "ok"
    BY <2>2 DEF AppTypes, AppWork, A!InProgress
  <2> QED BY <2>2, <2>3 DEF AppStored
<1>5. A!ToSet(store) = ToSet(store)
  BY DEF A!ToSet, ToSet
<1> QED BY <1>2, <1>3, <1>4, <1>5 DEF A!EndsInOrder

(***************************************************************************)
(* The serial way.                                                         *)
(***************************************************************************)
SerialQueue == [taken: SUBSET Msg, pipe: Seq(Msg), parked: [S!Sources -> Event], over: SUBSET S!Sources, closed: BOOLEAN]
SerialPCs == {"next", "get", "loading", "loaded", "handle", "sink", "ended"}
SerialModes == {"continue", "fail"}
SerialWork == [pc: SerialPCs, msg: Event, base: [Msg -> Seq(Event)], longest: BOOLEAN, mode: SerialModes]
SerialHows == {"no", "ok", "error"}
SerialTypes ==
  /\ queue \in SerialQueue /\ Len(queue.pipe) <= 1
  /\ \A s \in S!Sources : queue.parked[s] \in S!Of(s) \cup {0}
  /\ work \in SerialWork /\ state \in [cached: BOOLEAN, held: Seq(Event)]
  /\ store \in Seq(Event) /\ released \in [Msg -> SerialHows] /\ faults \in Nat

\* A message is in the pipe, parked at a pump or handled, at one of these.
SerialFree(m) == m \in queue.taken /\ released[m] = "no"
SerialHandles == work.pc \in {"get", "loading", "loaded", "handle", "sink"}
SerialPlaces ==
  /\ \A m \in ToSet(queue.pipe) : SerialFree(m)
  /\ \A s \in S!Sources : queue.parked[s] # 0 =>
       /\ SerialFree(queue.parked[s]) /\ queue.parked[s] \notin ToSet(queue.pipe) /\ queue.parked[s] # work.msg
       /\ \A t \in S!Sources : t # s => queue.parked[t] # queue.parked[s]
  /\ work.msg # 0 => SerialFree(work.msg) /\ work.msg \notin ToSet(queue.pipe) /\ work.msg \notin Dupes \cup Undecided
  /\ SerialHandles <=> work.msg # 0
  /\ \A m \in Msg : m \notin queue.taken => released[m] = "no"
SerialStored ==
  /\ StoredOn(store, work.base) /\ Distinct(store)
  /\ \A m \in Msg : m \in ToSet(store) <=> released[m] = "ok" /\ m \notin Dupes \cup Undecided
  /\ Built(state.held, store, {})
  /\ work.pc \in {"loaded", "handle", "sink"} => Built(work.base[work.msg], store, {})
SerialInv == SerialTypes /\ SerialPlaces /\ SerialStored

\* The values the fields take.
LEMMA SerialFields ==
    /\ "next" \in SerialPCs /\ "get" \in SerialPCs /\ "loading" \in SerialPCs /\ "loaded" \in SerialPCs
    /\ "handle" \in SerialPCs /\ "sink" \in SerialPCs /\ "ended" \in SerialPCs
    /\ "no" \in SerialHows /\ "ok" \in SerialHows /\ "error" \in SerialHows
    /\ 0 \in Event /\ 0 \notin Msg /\ Msg \subseteq Event /\ S!Msg = Msg /\ S!None = 0 /\ S!Other = 0 /\ Msg \subseteq Nat
    /\ \A s : S!Of(s) \subseteq Msg
BY DEF SerialPCs, SerialHows, Event, Msg, S!Msg, S!None, S!Other, S!Of

\* Nothing is taken yet.
LEMMA SerialInitially ==
    ASSUME S!Init
    PROVE  SerialInv
<1>1. SerialTypes
  <2>1. queue \in SerialQueue /\ Len(queue.pipe) <= 1 /\ \A s \in S!Sources : queue.parked[s] \in S!Of(s) \cup {0}
    BY SerialFields, EmptySeq DEF S!Init, SerialQueue
  <2>2. work \in [pc : {"next"}, msg : {0}, base : [Msg -> {<<>>}], longest : BOOLEAN, mode : SerialModes]
    BY SerialFields DEF S!Init, SerialModes
  <2>3. [Msg -> {<<>>}] \subseteq [Msg -> Seq(Event)]
    BY EmptySeq
  <2>4. work \in SerialWork
    BY <2>2, <2>3, SerialFields DEF SerialWork
  <2> QED BY <2>1, <2>4, SerialFields, EmptySeq DEF S!Init, SerialTypes
<1>2. /\ ToSet(<<>>) = {} /\ queue.pipe = <<>> /\ store = <<>> /\ work.pc = "next" /\ work.msg = 0 /\ state.held = <<>>
      /\ released = [m \in Msg |-> "no"] /\ \A s \in S!Sources : queue.parked[s] = 0
  BY SerialFields DEF S!Init, ToSet
<1>3. SerialPlaces
  BY <1>2 DEF SerialPlaces, SerialHandles
<1>4. SerialStored
  BY <1>2, BuiltEmpty DEF SerialStored, StoredOn, Distinct
<1> QED BY <1>1, <1>3, <1>4 DEF SerialInv

\* A pump hands a message over, waits with it or ends.
LEMMA SerialHandsOver ==
    ASSUME SerialInv, NEW s \in S!Sources, NEW m \in S!Of(s), NEW q \in SerialQueue,
           q.pipe = queue.pipe, q.parked = queue.parked, queue.taken \subseteq q.taken, m \in q.taken, released[m] = "no",
           m \notin ToSet(queue.pipe), m # work.msg, \A t \in S!Sources : t # s => queue.parked[t] # m,
           queue' = S!Enqueued(q, s, m) \/ queue' = S!Refused(q, s), UNCHANGED <<work, state, store, released, faults>>
    PROVE  SerialInv'
<1> USE DEF SerialInv
<1>1. m \in Msg /\ m # 0
  BY SerialFields
<1>2. queue \in SerialQueue /\ Len(queue.pipe) <= 1 /\ q.parked \in [S!Sources -> Event]
  BY DEF SerialTypes, SerialQueue
<1>3. /\ queue' \in SerialQueue /\ Len(queue'.pipe) <= 1 /\ queue'.taken = q.taken
      /\ \/ queue'.pipe = queue.pipe /\ queue'.parked = [queue.parked EXCEPT ![s] = 0]
         \/ queue'.pipe = <<m>> /\ queue'.parked = [queue.parked EXCEPT ![s] = 0]
         \/ queue'.pipe = queue.pipe /\ queue'.parked = [queue.parked EXCEPT ![s] = m]
  <2>1. CASE queue' = S!Refused(q, s)
    <3>1. queue' = [q EXCEPT !.parked = [q.parked EXCEPT ![s] = 0], !.over = q.over \cup {s}]
      BY <2>1, SerialFields DEF S!Refused, SerialQueue
    <3>2. [q.parked EXCEPT ![s] = 0] \in [S!Sources -> Event] /\ q.over \cup {s} \in SUBSET S!Sources
      BY <1>2, SerialFields DEF SerialQueue
    <3>3. queue' \in SerialQueue
      BY <3>1, <3>2 DEF SerialQueue
    <3> QED BY <1>2, <3>1, <3>3 DEF SerialQueue
  <2>2. CASE queue' = S!Enqueued(q, s, m) /\ q.pipe = <<>>
    <3>1. queue' = [q EXCEPT !.parked = [q.parked EXCEPT ![s] = 0], !.pipe = <<m>>]
      BY <2>2, SerialFields DEF S!Enqueued, SerialQueue
    <3>2. <<m>> \in Seq(Msg) /\ Len(<<m>>) = 1
      BY <1>1
    <3>3. [q.parked EXCEPT ![s] = 0] \in [S!Sources -> Event]
      BY <1>2, SerialFields
    <3>4. queue' \in SerialQueue
      BY <3>1, <3>2, <3>3 DEF SerialQueue
    <3> QED BY <1>2, <3>1, <3>2, <3>4 DEF SerialQueue
  <2>3. CASE queue' = S!Enqueued(q, s, m) /\ q.pipe # <<>> /\ ~q.closed
    <3>1. queue' = [q EXCEPT !.parked = [q.parked EXCEPT ![s] = m]]
      BY <2>3, SerialFields DEF S!Enqueued, SerialQueue
    <3>3. [q.parked EXCEPT ![s] = m] \in [S!Sources -> Event]
      BY <1>1, <1>2, SerialFields
    <3>4. queue' \in SerialQueue
      BY <3>1, <3>3 DEF SerialQueue
    <3> QED BY <1>2, <3>1, <3>4 DEF SerialQueue
  <2>4. \/ queue' = S!Refused(q, s)
        \/ queue' = S!Enqueued(q, s, m) /\ (q.pipe = <<>> \/ (q.pipe # <<>> /\ ~q.closed))
    BY DEF S!Enqueued
  <2> QED BY <2>1, <2>2, <2>3, <2>4
<1>4. /\ queue'.parked[s] \in {0, m} /\ \A t \in S!Sources : t # s => queue'.parked[t] = queue.parked[t]
      /\ ToSet(queue'.pipe) \subseteq ToSet(queue.pipe) \cup {m}
      /\ m \in ToSet(queue'.pipe) => queue'.parked[s] = 0
  <2>1. ToSet(<<m>>) = {m}
    BY DEF ToSet
  <2> QED BY <1>2, <1>3, <2>1
<1>5. SerialTypes'
  BY <1>3, <1>4 DEF SerialTypes
<1>6. SerialPlaces'
  BY <1>1, <1>3, <1>4 DEF SerialPlaces, SerialFree, SerialHandles
<1>7. SerialStored'
  BY DEF SerialStored
<1> QED BY <1>5, <1>6, <1>7

\* A pump takes a message and finds room in the pipe, or parks with it.
LEMMA SerialYield ==
    ASSUME SerialInv, NEW s \in S!Sources, S!Yield(s)
    PROVE  SerialInv'
<1> DEFINE m == S!Min(S!Of(s) \ queue.taken)
           q == [queue EXCEPT !.taken = @ \cup {m}]
<1>1. m \in S!Of(s) \ queue.taken
  <2>1. S!Of(s) \ queue.taken \in SUBSET Nat /\ S!Of(s) \ queue.taken # {}
    BY SerialFields DEF S!Yield
  <2>2. \E n \in S!Of(s) \ queue.taken : \A x \in S!Of(s) \ queue.taken : n <= x
    BY <2>1, LeastElement
  <2> QED BY <2>2 DEF S!Min
<1>2. queue' = S!Enqueued(q, s, m) /\ UNCHANGED <<work, state, store, released, faults>> /\ queue.parked[s] = 0
  BY SerialFields DEF S!Yield
<1>3. queue \in SerialQueue /\ m \in Msg /\ m # 0
  BY <1>1, SerialFields DEF SerialInv, SerialTypes
<1>4. q \in SerialQueue /\ q.pipe = queue.pipe /\ q.parked = queue.parked /\ queue.taken \subseteq q.taken /\ m \in q.taken
  BY <1>3 DEF SerialQueue
<1>5. /\ released[m] = "no" /\ m \notin ToSet(queue.pipe) /\ m # work.msg
      /\ \A t \in S!Sources : t # s => queue.parked[t] # m
  BY <1>1, <1>3 DEF SerialInv, SerialPlaces, SerialFree
<1> HIDE DEF m, q
<1> QED BY <1>1, <1>2, <1>4, <1>5, SerialHandsOver

\* A parked pump finds room.
LEMMA SerialResume ==
    ASSUME SerialInv, NEW s \in S!Sources, S!Resume(s)
    PROVE  SerialInv'
<1>1. /\ queue' = S!Enqueued(queue, s, queue.parked[s]) \/ queue' = S!Refused(queue, s)
      /\ UNCHANGED <<work, state, store, released, faults>> /\ queue.parked[s] # 0
  BY SerialFields DEF S!Resume
<1>2. queue \in SerialQueue /\ queue.parked[s] \in S!Of(s)
  BY <1>1 DEF SerialInv, SerialTypes
<1>3. /\ queue.parked[s] \in queue.taken /\ released[queue.parked[s]] = "no" /\ queue.parked[s] \notin ToSet(queue.pipe)
      /\ queue.parked[s] # work.msg /\ \A t \in S!Sources : t # s => queue.parked[t] # queue.parked[s]
  BY <1>1 DEF SerialInv, SerialPlaces, SerialFree
<1> QED BY <1>1, <1>2, <1>3, SerialHandsOver

\* A source ends or throws.
LEMMA SerialEnd ==
    ASSUME SerialInv, NEW s \in S!Sources, S!End(s) \/ S!Throw(s)
    PROVE  SerialInv'
<1> USE DEF SerialInv
<1>1. UNCHANGED <<work, state, store, released>> /\ S!EndOf(s) /\ (faults' = faults \/ faults' = faults + 1)
  BY DEF S!End, S!Throw
<1>2. queue' \in SerialQueue /\ queue'.pipe = queue.pipe /\ queue'.parked = queue.parked /\ queue'.taken = queue.taken
  <2> DEFINE o == queue.over \cup {s}
             c == queue.closed \/ S!Closes(o)
  <2>1. queue \in SerialQueue /\ o \in SUBSET S!Sources
    BY DEF SerialTypes, SerialQueue
  <2>2. c \in BOOLEAN
    OBVIOUS
  <2>3. queue' = [queue EXCEPT !.over = o, !.closed = c]
    BY <1>1 DEF S!EndOf
  <2> HIDE DEF o, c
  <2> QED BY <2>1, <2>2, <2>3 DEF SerialQueue
<1>4. SerialTypes'
  BY <1>1, <1>2 DEF SerialTypes
<1>5. SerialPlaces'
  BY <1>1, <1>2 DEF SerialPlaces, SerialFree, SerialHandles
<1>6. SerialStored'
  BY <1>1 DEF SerialStored
<1> QED BY <1>4, <1>5, <1>6

\* One message is released, the others are what they were.
LEMMA SerialReleases ==
    ASSUME SerialInv, NEW m \in Msg, NEW how \in SerialHows, released' = S!Release({m}, how)
    PROVE  released' \in [Msg -> SerialHows] /\ released'[m] = how /\ \A x \in Msg : x # m => released'[x] = released[x]
BY SerialFields DEF SerialInv, SerialTypes, S!Release

\* The next message leaves the pipe and is checked for being a duplicate.
LEMMA SerialTake ==
    ASSUME SerialInv, S!Take
    PROVE  SerialInv'
<1> USE DEF SerialInv
<1> DEFINE m == queue.pipe[1]
<1>1. /\ queue' = [queue EXCEPT !.pipe = <<>>] /\ UNCHANGED <<state, store, faults>> /\ work.pc = "next" /\ queue.pipe # <<>>
      /\ queue \in SerialQueue /\ queue.pipe \in Seq(Msg)
  BY DEF S!Take, SerialTypes, SerialQueue
<1>2. m \in Msg /\ m \in ToSet(queue.pipe) /\ m \in Event /\ m # 0 /\ work.msg = 0
  <2>1. 1 \in DOMAIN queue.pipe
    BY <1>1
  <2> QED BY <1>1, <2>1, SerialFields DEF ToSet, SerialPlaces, SerialHandles
<1>3. /\ queue' \in SerialQueue /\ queue'.pipe = <<>> /\ queue'.parked = queue.parked /\ queue'.taken = queue.taken
      /\ ToSet(queue'.pipe) = {}
  <2>1. queue' \in SerialQueue /\ queue'.pipe = <<>> /\ queue'.parked = queue.parked /\ queue'.taken = queue.taken
    BY <1>1, EmptySeq DEF SerialQueue
  <2> QED BY <2>1 DEF ToSet
<1>4. SerialFree(m) /\ \A s \in S!Sources : queue.parked[s] # m
  BY <1>2 DEF SerialPlaces
<1>5. CASE m \in Dupes \cup Undecided
  <2>1. released' = S!Release({m}, "ok") /\ work' = IF m \in Undecided THEN [work EXCEPT !.pc = "ended"] ELSE work
    BY <1>5 DEF S!Take
  <2>2. /\ work' \in SerialWork /\ work'.msg = 0 /\ work'.base = work.base /\ work'.pc \in {"next", "ended"}
    BY <1>1, <1>2, <2>1, SerialFields DEF SerialTypes, SerialWork
  <2>3. released' \in [Msg -> SerialHows] /\ released'[m] = "ok" /\ \A x \in Msg : x # m => released'[x] = released[x]
    BY <1>2, <2>1, SerialReleases, SerialFields
  <2> HIDE DEF m
  <2>4. SerialTypes'
    BY <1>1, <1>3, <2>2, <2>3 DEF SerialTypes
  <2>5. \A s \in S!Sources : queue.parked[s] # 0 => queue.parked[s] \in Msg
    BY SerialFields DEF SerialTypes
  <2>6. SerialPlaces'
    BY <1>2, <1>3, <1>4, <2>2, <2>3, <2>5 DEF SerialPlaces, SerialFree, SerialHandles
  <2>7. SerialStored'
    BY <1>1, <1>4, <1>5, <2>2, <2>3 DEF SerialStored, SerialFree
  <2> QED BY <2>4, <2>6, <2>7
<1>6. CASE m \notin Dupes \cup Undecided
  <2>1. work' = [work EXCEPT !.pc = "get", !.msg = m] /\ released' = released
    BY <1>6 DEF S!Take
  <2> HIDE DEF m
  <2>2. work' \in SerialWork /\ work'.msg = m /\ work'.base = work.base /\ work'.pc = "get"
    BY <1>2, <2>1, SerialFields DEF SerialTypes, SerialWork
  <2>4. SerialTypes'
    BY <1>1, <1>3, <2>1, <2>2 DEF SerialTypes
  <2>6. SerialPlaces'
    BY <1>2, <1>3, <1>4, <1>6, <2>1, <2>2 DEF SerialPlaces, SerialFree, SerialHandles
  <2>7. SerialStored'
    BY <1>1, <2>1, <2>2 DEF SerialStored
  <2> QED BY <2>4, <2>6, <2>7
<1> QED BY <1>5, <1>6

\* A step of the handling of a message: its state may be another, of what is
\* not stored yet.
LEMMA SerialHandling ==
    ASSUME SerialInv, NEW pc \in {"get", "loading", "loaded", "handle", "sink"}, NEW s \in Seq(Event), NEW held \in Seq(Event),
           work.msg # 0, work' = [work EXCEPT !.pc = pc, !.base = [work.base EXCEPT ![work.msg] = s]],
           state' \in [cached: BOOLEAN, held: Seq(Event)], state'.held = held, UNCHANGED <<queue, store, released, faults>>,
           Built(held, store, {}), pc \in {"loaded", "handle", "sink"} => Built(s, store, {})
    PROVE  SerialInv'
<1> USE DEF SerialInv
<1>1. work.msg \in Msg /\ SerialFree(work.msg) /\ pc \in SerialPCs
  BY SerialFields DEF SerialPlaces, SerialTypes, SerialWork, Event
<1>2. /\ work' \in SerialWork /\ work'.pc = pc /\ work'.msg = work.msg /\ work'.base[work.msg] = s
      /\ \A m \in Msg : m # work.msg => work'.base[m] = work.base[m]
  BY <1>1 DEF SerialTypes, SerialWork
<1>3. SerialTypes'
  BY <1>2 DEF SerialTypes
<1>4. SerialPlaces'
  <2>1. SerialHandles /\ SerialHandles'
    BY <1>2 DEF SerialPlaces, SerialHandles
  <2> QED BY <1>2, <2>1 DEF SerialPlaces, SerialFree
<1>5. SerialStored'
  <2>1. \A i \in DOMAIN store : store[i] # 0 => store[i] \in Msg /\ store[i] # work.msg
    <3>1. work.msg \notin ToSet(store)
      BY <1>1 DEF SerialStored, SerialFree
    <3> QED BY <3>1, SerialFields DEF ToSet, SerialTypes, Event
  <2>2. StoredOn(store, work'.base)
    BY <1>2, <2>1 DEF SerialStored, StoredOn
  <2> QED BY <1>2, <2>2 DEF SerialStored
<1> QED BY <1>3, <1>4, <1>5

\* The state is read, from the cache or the store, the message is handled,
\* or the output is in conflict.
LEMMA SerialGets ==
    ASSUME SerialInv, S!Get \/ S!Load \/ S!Loaded \/ S!Handle \/ S!Conflict
    PROVE  SerialInv'
<1> USE DEF SerialInv
<1>1. /\ work.msg # 0 /\ work.msg \in Msg /\ work \in SerialWork /\ work.base \in [Msg -> Seq(Event)]
      /\ work.base[work.msg] \in Seq(Event) /\ work.base = [work.base EXCEPT ![work.msg] = work.base[work.msg]]
  <2>1. SerialHandles
    BY DEF S!Get, S!Load, S!Loaded, S!Handle, S!Conflict, SerialHandles
  <2>2. work.msg # 0 /\ work.msg \in Msg /\ work \in SerialWork /\ work.base \in [Msg -> Seq(Event)]
    BY <2>1, SerialFields DEF SerialPlaces, SerialTypes, SerialWork, Event
  <2> QED BY <2>2
<1>2. /\ state \in [cached: BOOLEAN, held: Seq(Event)] /\ state.held \in Seq(Event) /\ store \in Seq(Event)
      /\ Built(state.held, store, {})
  BY DEF SerialTypes, SerialStored
<1>3. Built(store, store, {})
  BY <1>2 DEF Built
<1>4. CASE S!Get
  <2> DEFINE pc == IF state.cached THEN "handle" ELSE "loading"
  <2>1. /\ work' = [work EXCEPT !.pc = pc, !.base = [work.base EXCEPT ![work.msg] = state.held]]
        /\ UNCHANGED <<queue, state, store, released, faults>>
    BY <1>1, <1>4 DEF S!Get, S!At, SerialWork
  <2>2. pc \in {"get", "loading", "loaded", "handle", "sink"}
    OBVIOUS
  <2> HIDE DEF pc
  <2> QED BY Zenon, <1>1, <1>2, <2>1, <2>2, SerialHandling
<1>5. CASE S!Load
  <2>1. /\ work' = [work EXCEPT !.pc = "loaded", !.base = [work.base EXCEPT ![work.msg] = store]]
        /\ UNCHANGED <<queue, state, store, released, faults>>
    BY <1>1, <1>5 DEF S!Load, S!At, SerialWork
  <2> QED BY Zenon, <1>1, <1>2, <1>3, <2>1, SerialHandling
<1>6. CASE S!Loaded
  <2>1. /\ work' = [work EXCEPT !.pc = "handle", !.base = [work.base EXCEPT ![work.msg] = work.base[work.msg]]]
        /\ UNCHANGED <<queue, store, released, faults>> /\ state' = [cached |-> TRUE, held |-> work.base[work.msg]]
        /\ work.pc = "loaded"
    BY <1>1, <1>6 DEF S!Loaded, S!At, SerialWork
  <2>2. Built(work.base[work.msg], store, {})
    BY <2>1 DEF SerialStored
  <2>3. state' \in [cached: BOOLEAN, held: Seq(Event)] /\ state'.held = work.base[work.msg]
    BY <1>1, <2>1
  <2> QED BY Zenon, <1>1, <1>2, <2>1, <2>2, <2>3, SerialHandling
<1>7. CASE S!Handle
  <2>1. /\ work' = [work EXCEPT !.pc = "sink", !.base = [work.base EXCEPT ![work.msg] = work.base[work.msg]]]
        /\ UNCHANGED <<queue, state, store, released, faults>> /\ work.pc = "handle"
    BY <1>1, <1>7 DEF S!Handle, S!At, SerialWork
  <2>2. Built(work.base[work.msg], store, {})
    BY <2>1 DEF SerialStored
  <2> QED BY Zenon, <1>1, <1>2, <2>1, <2>2, SerialHandling
<1>8. CASE S!Conflict
  <2>1. /\ work' = [work EXCEPT !.pc = "get", !.base = [work.base EXCEPT ![work.msg] = work.base[work.msg]]]
        /\ UNCHANGED <<queue, store, released, faults>> /\ state' = [cached |-> FALSE, held |-> <<>>]
    BY <1>1, <1>8 DEF S!Conflict, S!At, SerialWork
  <2>2. Built(<<>>, store, {}) /\ <<>> \in Seq(Event)
    BY BuiltEmpty, EmptySeq
  <2>3. state' \in [cached: BOOLEAN, held: Seq(Event)] /\ state'.held = <<>>
    BY <2>1, <2>2
  <2> QED BY Zenon, <1>1, <2>1, <2>2, <2>3, SerialHandling
<1> QED BY <1>4, <1>5, <1>6, <1>7, <1>8

\* A message is over: nothing is handled and the message is released.
LEMMA SerialOver ==
    ASSUME SerialInv, NEW how \in {"ok", "error"}, NEW pc \in {"next", "ended"}, work.msg # 0, S!Over(how, pc), queue' = queue
    PROVE  /\ work.msg \in Msg /\ work.base[work.msg] \in Seq(Event) /\ SerialFree(work.msg)
           /\ work' \in SerialWork /\ work'.base = work.base /\ work'.pc = pc
           /\ released' \in [Msg -> SerialHows] /\ released'[work.msg] = how
           /\ \A m \in Msg : m # work.msg => released'[m] = released[m]
           /\ SerialPlaces'
<1> USE DEF SerialInv
<1>1. /\ work.msg \in Msg /\ SerialFree(work.msg) /\ pc \in SerialPCs /\ how \in SerialHows /\ 0 \in Event
      /\ work \in SerialWork /\ work.base[work.msg] \in Seq(Event)
  BY SerialFields DEF SerialPlaces, SerialTypes, SerialWork, Event
<1>2. work' \in SerialWork /\ work'.pc = pc /\ work'.msg = 0 /\ work'.base = work.base
  BY <1>1, SerialFields DEF S!Over, S!At, SerialWork
<1>3. /\ released' \in [Msg -> SerialHows] /\ released'[work.msg] = how
      /\ \A m \in Msg : m # work.msg => released'[m] = released[m]
  BY <1>1, SerialReleases DEF S!Over
<1>4. \A m \in ToSet(queue.pipe) : m \in Msg /\ m # work.msg
  BY DEF SerialPlaces, SerialTypes, SerialQueue, ToSet
<1>5. \A s \in S!Sources : queue.parked[s] # 0 => queue.parked[s] \in Msg /\ queue.parked[s] # work.msg
  BY SerialFields DEF SerialPlaces, SerialTypes
<1>6. SerialPlaces'
  BY <1>1, <1>2, <1>3, <1>4, <1>5 DEF SerialPlaces, SerialFree, SerialHandles
<1> QED BY <1>1, <1>2, <1>3, <1>6

\* The output is stored.
LEMMA SerialStore ==
    ASSUME SerialInv, S!Store
    PROVE  SerialInv'
<1> USE DEF SerialInv
<1> DEFINE m == work.msg
           s == work.base[work.msg]
<1>1. /\ work.pc = "sink" /\ Len(s) = Len(store) /\ store' = Append(store, m) /\ S!Over("ok", "next")
      /\ state' = [cached |-> TRUE, held |-> Append(s, m)] /\ UNCHANGED <<queue, faults>> /\ m # 0
  BY DEF S!Store, S!Follows, S!Computed, SerialPlaces, SerialHandles
<1>2. /\ m \in Msg /\ s \in Seq(Event) /\ SerialFree(m) /\ SerialPlaces' /\ store \in Seq(Event)
      /\ work' \in SerialWork /\ work'.base = work.base /\ work'.pc = "next"
      /\ released' \in [Msg -> SerialHows] /\ released'[m] = "ok" /\ \A x \in Msg : x # m => released'[x] = released[x]
  BY <1>1, SerialOver DEF SerialTypes
<1>3. s = store
  <2>1. Built(s, store, {})
    BY <1>1 DEF SerialStored
  <2>2. s = SubSeq(store, 1, Len(s))
    BY <1>2, <2>1, BuiltIsPrefix
  <2>3. SubSeq(store, 1, Len(store)) = store
    BY <1>2
  <2> QED BY <1>1, <2>2, <2>3
<1>4. m \in Event /\ <<m>> \in Seq(Event) /\ Append(store, m) = store \o <<m>> /\ store' \in Seq(Event)
      /\ Len(<<m>>) = 1 /\ <<m>>[1] = m /\ DOMAIN <<m>> = {1} /\ ToSet(store') = ToSet(store) \cup {m}
  <2>1. m \in Event /\ store \in Seq(Event)
    BY <1>2, SerialFields
  <2> HIDE DEF m
  <2> QED BY <1>1, <2>1, OneMore
<1>5. m \notin ToSet(store)
  BY <1>2 DEF SerialStored, SerialFree
<1> HIDE DEF m, s
<1>6. StoredOn(store', work.base) /\ Distinct(store')
  <2>1. work.base[m] = SubSeq(store \o <<m>>, 1, Len(store) + 1 - 1)
    <3>1. SubSeq(store \o <<m>>, 1, Len(store)) = SubSeq(store, 1, Len(store)) /\ SubSeq(store, 1, Len(store)) = store
          /\ Len(store) + 1 - 1 = Len(store)
      BY <1>2, <1>4, PrefixOfConcat
    <3> QED BY <1>3, <3>1 DEF s, m
  <2>2. \A j \in DOMAIN <<m>> : <<m>>[j] \notin ToSet(store) /\ work.base[<<m>>[j]] = SubSeq(store \o <<m>>, 1, Len(store) + j - 1)
    BY <1>4, <1>5, <2>1
  <2>3. Distinct(<<m>>)
    BY <1>4 DEF Distinct
  <2>4. StoredOn(store \o <<m>>, work.base) /\ Distinct(store \o <<m>>)
    BY <1>2, <1>4, <2>2, <2>3, StoreGrows DEF SerialStored
  <2> QED BY <1>1, <1>4, <2>4
<1>7. ToSet(store') = ToSet(store) \cup {m}
  BY <1>4
<1>8. state' \in [cached: BOOLEAN, held: Seq(Event)] /\ state'.held = store'
  BY <1>1, <1>3, <1>4
<1>9. SerialTypes'
  BY <1>1, <1>2, <1>4, <1>8 DEF SerialTypes
<1>10. SerialStored'
  <2>1. m \notin Dupes \cup Undecided
    BY <1>1 DEF SerialPlaces, m
  <2>2. \A x \in Msg : x \in ToSet(store') <=> released'[x] = "ok" /\ x \notin Dupes \cup Undecided
    BY <1>2, <1>7, <2>1 DEF SerialStored
  <2>3. Built(store', store', {})
    BY <1>4 DEF Built
  <2> QED BY <1>2, <1>6, <1>8, <2>2, <2>3 DEF SerialStored
<1> QED BY <1>2, <1>9, <1>10

\* The message fails.
LEMMA SerialFail ==
    ASSUME SerialInv, S!Fail
    PROVE  SerialInv'
<1> USE DEF SerialInv
<1>1. \E pc \in {"next", "ended"} : S!Over("error", pc)
  BY DEF S!Fail
<1>2. UNCHANGED <<queue, state, store>> /\ faults' = faults + 1 /\ work.msg # 0
  BY DEF S!Fail, SerialPlaces, SerialHandles
<1>3. /\ work.msg \in Msg /\ SerialFree(work.msg) /\ SerialPlaces' /\ work' \in SerialWork /\ work'.base = work.base
      /\ work'.pc \in {"next", "ended"} /\ released' \in [Msg -> SerialHows] /\ released'[work.msg] = "error"
      /\ \A x \in Msg : x # work.msg => released'[x] = released[x]
  BY <1>1, <1>2, SerialOver
<1>4. SerialTypes'
  BY <1>2, <1>3 DEF SerialTypes
<1>5. SerialStored'
  BY <1>2, <1>3 DEF SerialStored, SerialFree
<1> QED BY <1>3, <1>4, <1>5

\* Another process appends.
LEMMA SerialAppendOther ==
    ASSUME SerialInv, S!AppendOther
    PROVE  SerialInv'
<1> USE DEF SerialInv
<1>1. /\ store' = Append(store, 0) /\ UNCHANGED <<queue, work, state, released, faults>>
      /\ store \in Seq(Event) /\ state.held \in Seq(Event)
  BY SerialFields DEF S!AppendOther, SerialTypes
<1>2. /\ store' = store \o <<0>> /\ <<0>> \in Seq(Event) /\ store' \in Seq(Event)
      /\ StoredOn(store', work.base) /\ Distinct(store') /\ \A m \in Msg : m \in ToSet(store') <=> m \in ToSet(store)
  <2>1. StoredOn(store, work.base) /\ Distinct(store)
    BY DEF SerialStored
  <2>2. store \o <<0>> \in Seq(Event)
    BY <1>1, OneMore, SerialFields
  <2> QED BY <1>1, <2>1, <2>2, OtherGrows
<1>3. Built(state.held, store', {})
  BY <1>1, <1>2, BuiltStays DEF SerialStored
<1>4. work.pc \in {"loaded", "handle", "sink"} => Built(work.base[work.msg], store', {})
  <2>1. SUFFICES ASSUME work.pc \in {"loaded", "handle", "sink"}
                 PROVE  Built(work.base[work.msg], store', {})
    OBVIOUS
  <2>2. work.msg \in Msg /\ work.base[work.msg] \in Seq(Event)
    BY <2>1, SerialFields DEF SerialPlaces, SerialHandles, SerialTypes, SerialWork, Event
  <2>3. Built(work.base[work.msg], store, {})
    BY <2>1 DEF SerialStored
  <2> QED BY <1>1, <1>2, <2>2, <2>3, BuiltStays
<1>5. SerialTypes'
  BY <1>1, <1>2 DEF SerialTypes
<1>6. SerialPlaces'
  BY <1>1 DEF SerialPlaces, SerialFree, SerialHandles
<1>7. SerialStored'
  BY <1>1, <1>2, <1>3, <1>4 DEF SerialStored
<1> QED BY <1>5, <1>6, <1>7

\* Every step of the serial processor and its pumps.
LEMMA SerialSteps ==
    ASSUME SerialInv, S!Next
    PROVE  SerialInv'
<1>1. CASE S!Done
  <2>1. work' \in SerialWork /\ work'.pc = "ended" /\ work'.msg = work.msg /\ work'.base = work.base /\ work.pc = "next"
    BY <1>1, SerialFields DEF S!Done, SerialInv, SerialTypes, SerialWork
  <2>2. UNCHANGED <<queue, state, store, released, faults>>
    BY <1>1 DEF S!Done
  <2>3. SerialTypes'
    BY <2>1, <2>2 DEF SerialInv, SerialTypes
  <2>4. SerialPlaces'
    BY <2>1, <2>2 DEF SerialInv, SerialPlaces, SerialFree, SerialHandles
  <2>5. SerialStored'
    BY <2>1, <2>2 DEF SerialInv, SerialStored
  <2> QED BY <2>3, <2>4, <2>5 DEF SerialInv
<1> QED BY <1>1, SerialTake, SerialGets, SerialStore, SerialFail, SerialAppendOther, SerialYield, SerialResume, SerialEnd
        DEF S!Next, S!Process, S!Pump

\* What the invariant says of the properties.
LEMMA SerialImplies ==
    ASSUME SerialInv
    PROVE  S!TypeOK /\ S!HandledOnItsState
<1> USE DEF SerialInv
<1>1. S!TypeOK
  BY SerialFields DEF S!TypeOK, SerialTypes, SerialQueue, SerialWork, SerialPCs, SerialHows, Event
<1>2. StoredOn(store, work.base) /\ Distinct(store)
  BY DEF SerialStored
<1>3. \A m \in Msg : S!Contains(store, m) <=> m \in ToSet(store)
  BY DEF S!Contains, ToSet
<1>4. state.cached => S!IsPrefix(state.held, store)
  BY BuiltIsPrefix DEF S!IsPrefix, SerialStored, SerialTypes
<1> QED BY <1>1, <1>2, <1>3, <1>4, SerialFields DEF S!HandledOnItsState, StoredOn, Distinct, SerialStored

(***************************************************************************)
(* Rpc mode.                                                               *)
(***************************************************************************)
RpcPCs == {"none", "sleep", "get", "loading", "loaded", "handle", "wait", "out", "over", "failed"}
RpcTries == {1, 2}
RpcHandler == [pc: RpcPCs, base: Seq(Event), current: BOOLEAN, try: RpcTries]
RpcSignal == Msg \X RpcTries
RpcNumbers == 1 .. Messages + 1
RpcQueue == [next: RpcNumbers, low: Seq(Msg), high: Seq(Msg), open: BOOLEAN, late: BOOLEAN]
RpcLoops == {"next", "failed"}
RpcWork == [handler: [Msg -> RpcHandler], loop: RpcLoops, error: BOOLEAN, ended: BOOLEAN, out: Seq(RpcSignal),
            batch: Seq(RpcSignal), back: Seq(RpcSignal), inflight: SUBSET RpcSignal]
RpcState == [cached: BOOLEAN, held: Seq(Event)]
RpcHows == {"no", "ok", "unavailable"}
RpcTypes ==
  /\ queue \in RpcQueue /\ Len(queue.low) <= InputCapacity /\ Len(queue.high) <= InputCapacity
  /\ work \in RpcWork /\ Len(work.out) <= OutputCapacity /\ Len(work.batch) <= MaxBatch
  /\ IsFiniteSet(work.inflight) /\ Cardinality(work.inflight) <= Parallel
  /\ state \in RpcState /\ store \in Seq(Event) /\ released \in [Msg -> RpcHows] /\ faults \in Nat

\* The values the fields take.
LEMMA RpcFields ==
    /\ "none" \in RpcPCs /\ "sleep" \in RpcPCs /\ "get" \in RpcPCs /\ "loading" \in RpcPCs /\ "loaded" \in RpcPCs
    /\ "handle" \in RpcPCs /\ "wait" \in RpcPCs /\ "out" \in RpcPCs /\ "over" \in RpcPCs /\ "failed" \in RpcPCs
    /\ 1 \in RpcTries /\ 2 \in RpcTries /\ "next" \in RpcLoops /\ "failed" \in RpcLoops
    /\ "no" \in RpcHows /\ "ok" \in RpcHows /\ "unavailable" \in RpcHows
    /\ 0 \in Event /\ 0 \notin Msg /\ Msg \subseteq Event /\ Msg \subseteq Nat /\ Msg \subseteq RpcNumbers
    /\ R!Msg = Msg /\ R!Other = 0 /\ R!Signals = RpcSignal /\ R!NoState = <<>> /\ <<>> \in Seq(Event)
<1>1. /\ "none" \in RpcPCs /\ "sleep" \in RpcPCs /\ "get" \in RpcPCs /\ "loading" \in RpcPCs /\ "loaded" \in RpcPCs
      /\ "handle" \in RpcPCs /\ "wait" \in RpcPCs /\ "out" \in RpcPCs /\ "over" \in RpcPCs /\ "failed" \in RpcPCs
      /\ 1 \in RpcTries /\ 2 \in RpcTries /\ "next" \in RpcLoops /\ "failed" \in RpcLoops
      /\ "no" \in RpcHows /\ "ok" \in RpcHows /\ "unavailable" \in RpcHows
  BY DEF RpcPCs, RpcTries, RpcLoops, RpcHows
<1>2. 0 \in Event /\ 0 \notin Msg /\ Msg \subseteq Event /\ Msg \subseteq Nat /\ Msg \subseteq RpcNumbers
  BY SizesAssumption DEF Event, Msg, RpcNumbers
<1>3. R!Msg = Msg /\ R!Other = 0 /\ R!NoState = <<>> /\ <<>> \in Seq(Event)
  BY DEF Msg, R!Msg, R!Other, R!NoState
<1>4. R!Signals = RpcSignal
  BY DEF R!Signals, RpcSignal, R!Msg, Msg, RpcTries
<1> QED BY <1>1, <1>2, <1>3, <1>4

\* The handler of a message and the parts of work.
LEMMA RpcHandlers ==
    ASSUME work \in RpcWork, NEW m \in Msg
    PROVE  /\ R!H(m) = work.handler[m] /\ R!H(m) \in RpcHandler /\ R!Signal(m) \in RpcSignal /\ work.handler \in [Msg -> RpcHandler]
           /\ R!Signal(m) = <<m, work.handler[m].try>> /\ work.handler[m].base \in Seq(Event)
           /\ work.out \in Seq(RpcSignal) /\ work.batch \in Seq(RpcSignal) /\ work.back \in Seq(RpcSignal)
           /\ work.inflight \in SUBSET RpcSignal
<1>1. work.handler \in [Msg -> RpcHandler] /\ work.handler[m] \in RpcHandler
  BY DEF RpcWork
<1>2. work.handler[m].try \in RpcTries /\ work.handler[m].base \in Seq(Event)
  BY <1>1 DEF RpcHandler
<1>3. R!H(m) = work.handler[m] /\ R!Signal(m) = <<m, work.handler[m].try>>
  BY DEF R!H, R!Signal
<1>4. R!Signal(m) \in RpcSignal
  BY <1>2, <1>3 DEF RpcSignal
<1> QED BY <1>1, <1>2, <1>3, <1>4 DEF RpcWork

\* With fewer in flight there are no more than may be.
LEMMA RpcFewer ==
    ASSUME RpcTypes, NEW T \in SUBSET work.inflight
    PROVE  T \in SUBSET RpcSignal /\ IsFiniteSet(T) /\ Cardinality(T) <= Parallel
<1>1. IsFiniteSet(T) /\ Cardinality(T) <= Cardinality(work.inflight)
  BY FS_Subset DEF RpcTypes
<1>2. Cardinality(T) \in Nat /\ Cardinality(work.inflight) \in Nat /\ Parallel \in Nat
  BY <1>1, FS_CardinalityType, SizesAssumption DEF RpcTypes
<1> QED BY <1>1, <1>2 DEF RpcTypes, RpcWork

\* Messages are released, the others are what they were.
LEMMA RpcReleases ==
    ASSUME RpcTypes, NEW ms, NEW how \in RpcHows, released' = R!Release(ms, how)
    PROVE  released' \in [Msg -> RpcHows] /\ \A m \in Msg : released'[m] = IF m \in ms THEN how ELSE released[m]
BY RpcFields DEF RpcTypes, R!Release

\* A step of a handler leaves the queues of signals alone.
LEMMA RpcHandles ==
    ASSUME work \in RpcWork, NEW m \in Msg, NEW h \in RpcHandler
    PROVE  LET g == [work.handler EXCEPT ![m] = h]
           IN g \in [Msg -> RpcHandler] /\ g[m] = h /\ \A x \in Msg : x # m => g[x] = work.handler[x]
BY DEF RpcWork

\* One handler is changed and nothing else of work.
LEMMA RpcAlters ==
    ASSUME work \in RpcWork, NEW m \in Msg, NEW h \in RpcHandler, work' = [work EXCEPT !.handler = [work.handler EXCEPT ![m] = h]]
    PROVE  /\ work' \in RpcWork /\ work'.loop = work.loop /\ work'.error = work.error /\ work'.out = work.out
           /\ work'.batch = work.batch /\ work'.back = work.back /\ work'.inflight = work.inflight
           /\ work'.handler[m] = h /\ \A x \in Msg : x # m => work'.handler[x] = work.handler[x]
<1> DEFINE g == [work.handler EXCEPT ![m] = h]
<1>1. g \in [Msg -> RpcHandler] /\ g[m] = h /\ \A x \in Msg : x # m => g[x] = work.handler[x]
  BY RpcHandles
<1>2. work' = [work EXCEPT !.handler = g]
  OBVIOUS
<1> HIDE DEF g
<1> QED BY <1>1, <1>2 DEF RpcWork

\* The contexts that are to be stored or handled anew, in their order.
Awaiting(w) == IF w.back = <<>> THEN w.batch ELSE w.back
LineOf(w) == Awaiting(w) \o w.out
Line == LineOf(work)
UnderWay(m) == work.handler[m].pc \in {"sleep", "get", "loading", "loaded", "handle"}
RpcLine ==
  /\ \A p \in DOMAIN Line : /\ work.handler[Line[p][1]].pc = "out"
                            /\ Line[p] = <<Line[p][1], work.handler[Line[p][1]].try>>
  /\ \A p, q \in DOMAIN Line : Line[p][1] = Line[q][1] => p = q
  /\ work.back # <<>> =>
       /\ Len(work.back) <= Len(work.batch)
       /\ work.back = SubSeq(work.batch, Len(work.batch) - Len(work.back) + 1, Len(work.batch))
       /\ \A p, q \in DOMAIN work.batch : work.batch[p][1] = work.batch[q][1] => p = q
       /\ \A p \in DOMAIN work.back : ~work.handler[work.back[p][1]].current
\* A message waits in one place, and none for room in the output queue.
RpcQueued ==
  /\ \A p \in DOMAIN queue.high : /\ work.handler[queue.high[p]].pc = "out"
                                  /\ \A q \in DOMAIN queue.high : queue.high[p] = queue.high[q] => p = q
                                  /\ \A q \in DOMAIN Line : queue.high[p] # Line[q][1]
  /\ \A p \in DOMAIN queue.low : /\ work.handler[queue.low[p]].pc = "none" /\ queue.low[p] < queue.next
                                 /\ \A q \in DOMAIN queue.low : queue.low[p] = queue.low[q] => p = q
  /\ \A m \in Msg : m >= queue.next => work.handler[m].pc = "none"
  /\ \A m \in Msg : work.handler[m].pc # "wait"
\* What is under way or in the output queue has its signal in flight, which is
\* not among those of the batch whose contexts were stored or put back: these
\* are at rest, or handled anew under another signal.
AtRest(w, line, m) ==
  w.handler[m].pc \in {"over", "failed"} \/ (w.handler[m].pc = "out" /\ \A q \in DOMAIN line : line[q][1] # m)
RpcSignals ==
  /\ \A p \in DOMAIN work.out : work.out[p] \in work.inflight
  /\ \A m \in Msg : UnderWay(m) => <<m, work.handler[m].try>> \in work.inflight
  /\ work.back # <<>> => \A i \in 1 .. Len(work.batch) - Len(work.back) :
       LET m == work.batch[i][1]
           s == <<m, work.handler[m].try>>
       IN /\ work.handler[m].pc # "none" /\ (m \in ToSet(queue.high) => work.batch[i] = s)
          /\ AtRest(work, Line, m) \/ work.batch[i] # s
\* The first n of them that may be stored, and what they were computed from.
PendingOf(line, w, n) == {<<line[p][1], w[line[p][1]].base>> : p \in {p \in DOMAIN line : p <= n /\ w[line[p][1]].current}}
Pending(n) == PendingOf(Line, work.handler, n)
RpcBuilt ==
  /\ Built(state.held, store, Pending(Len(Line)))
  /\ \A m \in Msg : work.handler[m].current /\ work.handler[m].pc \in {"loaded", "handle"}
                      => Built(work.handler[m].base, store, Pending(Len(Line)))
  /\ \A m \in Msg : work.handler[m].pc = "loaded" => Built(work.handler[m].base, store, {})
  /\ \A p \in DOMAIN Line : work.handler[Line[p][1]].current => Built(work.handler[Line[p][1]].base, store, Pending(p - 1))
Bases == [m \in Msg |-> work.handler[m].base]
RpcStored ==
  /\ StoredOn(store, Bases) /\ Distinct(store)
  /\ \A m \in Msg : m \in ToSet(store) <=> work.handler[m].pc = "over"
  /\ \A m \in Msg : m \in ToSet(store) <=> released[m] = "ok"
RpcInv == RpcTypes /\ RpcLine /\ RpcQueued /\ RpcSignals /\ RpcBuilt /\ RpcStored

\* The line is a sequence of signals, those that await the sink before
\* those in the output queue.
LEMMA LineTypes ==
    ASSUME NEW w \in RpcWork
    PROVE  /\ LineOf(w) \in Seq(RpcSignal) /\ DOMAIN LineOf(w) = 1 .. Len(LineOf(w)) /\ Len(LineOf(w)) \in Nat
           /\ \A p \in DOMAIN LineOf(w) : LineOf(w)[p] \in RpcSignal /\ LineOf(w)[p][1] \in Msg
           /\ Awaiting(w) \in Seq(RpcSignal) /\ Len(Awaiting(w)) \in Nat /\ Len(w.out) \in Nat
           /\ Len(LineOf(w)) = Len(Awaiting(w)) + Len(w.out)
           /\ \A p \in 1 .. Len(Awaiting(w)) : p \in DOMAIN LineOf(w) /\ LineOf(w)[p] = Awaiting(w)[p]
           /\ \A p \in 1 .. Len(w.out) : Len(Awaiting(w)) + p \in DOMAIN LineOf(w) /\ LineOf(w)[Len(Awaiting(w)) + p] = w.out[p]
<1>1. w.out \in Seq(RpcSignal) /\ Awaiting(w) \in Seq(RpcSignal)
  BY DEF RpcWork, Awaiting
<1>2. /\ LineOf(w) \in Seq(RpcSignal) /\ Len(Awaiting(w)) \in Nat /\ Len(w.out) \in Nat
      /\ Len(LineOf(w)) = Len(Awaiting(w)) + Len(w.out) /\ DOMAIN LineOf(w) = 1 .. Len(Awaiting(w)) + Len(w.out)
      /\ \A p \in 1 .. Len(Awaiting(w)) + Len(w.out) :
           LineOf(w)[p] = IF p <= Len(Awaiting(w)) THEN Awaiting(w)[p] ELSE w.out[p - Len(Awaiting(w))]
  BY <1>1, ConcatElements DEF LineOf
<1>3. \A x \in RpcSignal : x[1] \in Msg
  BY DEF RpcSignal
<1>4. \A p \in 1 .. Len(Awaiting(w)) : p \in DOMAIN LineOf(w) /\ LineOf(w)[p] = Awaiting(w)[p]
  BY <1>2
<1>5. ASSUME NEW p \in 1 .. Len(w.out)
      PROVE  Len(Awaiting(w)) + p \in DOMAIN LineOf(w) /\ LineOf(w)[Len(Awaiting(w)) + p] = w.out[p]
  <2>1. Len(Awaiting(w)) + p \in DOMAIN LineOf(w) /\ ~(Len(Awaiting(w)) + p <= Len(Awaiting(w)))
        /\ (Len(Awaiting(w)) + p) - Len(Awaiting(w)) = p
    BY <1>2
  <2> QED BY <1>2, <2>1
<1> QED BY <1>1, <1>2, <1>3, <1>4, <1>5

\* What is collected or in the output queue has a place in the line.
LEMMA LinePlaces ==
    ASSUME work \in RpcWork
    PROVE  /\ DOMAIN work.out = 1 .. Len(work.out) /\ DOMAIN work.batch = 1 .. Len(work.batch)
           /\ DOMAIN work.back = 1 .. Len(work.back) /\ {Len(work.out), Len(work.batch), Len(work.back)} \subseteq Nat
           /\ \A p \in DOMAIN work.out : \E q \in DOMAIN Line : Line[q] = work.out[p]
           /\ work.back # <<>> => \A p \in DOMAIN work.back : p \in DOMAIN Line /\ Line[p] = work.back[p]
           /\ work.back = <<>> => \A p \in DOMAIN work.batch : p \in DOMAIN Line /\ Line[p] = work.batch[p]
           /\ \A p \in DOMAIN work.batch : work.batch[p] \in RpcSignal /\ work.batch[p][1] \in Msg
           /\ \A p \in DOMAIN work.back : work.back[p] \in RpcSignal /\ work.back[p][1] \in Msg
           /\ \A p \in DOMAIN work.out : work.out[p] \in RpcSignal /\ work.out[p][1] \in Msg
           /\ \A p \in 1 .. Len(work.batch) - Len(work.back) : p \in DOMAIN work.batch /\ work.batch[p][1] \in Msg
<1>1. work.out \in Seq(RpcSignal) /\ work.batch \in Seq(RpcSignal) /\ work.back \in Seq(RpcSignal)
  BY DEF RpcWork
<1>2. /\ DOMAIN work.out = 1 .. Len(work.out) /\ DOMAIN work.batch = 1 .. Len(work.batch)
      /\ DOMAIN work.back = 1 .. Len(work.back) /\ {Len(work.out), Len(work.batch), Len(work.back)} \subseteq Nat
  BY <1>1
<1>3. \A p \in DOMAIN work.out : \E q \in DOMAIN Line : Line[q] = work.out[p]
  <2>1. \A p \in 1 .. Len(work.out) : Len(Awaiting(work)) + p \in DOMAIN Line /\ Line[Len(Awaiting(work)) + p] = work.out[p]
    BY LineTypes DEF Line
  <2> QED BY <1>2, <2>1
<1>4. \A p \in 1 .. Len(Awaiting(work)) : p \in DOMAIN Line /\ Line[p] = Awaiting(work)[p]
  BY LineTypes DEF Line
<1>5. \A x \in RpcSignal : x[1] \in Msg
  BY DEF RpcSignal
<1>6. /\ \A p \in DOMAIN work.batch : work.batch[p] \in RpcSignal
      /\ \A p \in DOMAIN work.back : work.back[p] \in RpcSignal
      /\ \A p \in DOMAIN work.out : work.out[p] \in RpcSignal
  BY <1>1
<1>7. \A p \in 1 .. Len(work.batch) - Len(work.back) : p \in DOMAIN work.batch
  <2>1. \A a, b \in Nat : \A p \in 1 .. a - b : p \in 1 .. a
    OBVIOUS
  <2>2. Len(work.batch) \in Nat /\ Len(work.back) \in Nat
    BY <1>1
  <2> QED BY <1>2, <2>1, <2>2
<1> QED BY <1>2, <1>3, <1>4, <1>5, <1>6, <1>7 DEF Awaiting

\* The line moves on by d, whose contexts are over or stored.
LEMMA LineShift ==
    ASSUME NEW line \in Seq(RpcSignal), NEW l2 \in Seq(RpcSignal), NEW w, NEW w2, NEW d \in 0 .. Len(line),
           Len(line) - d <= Len(l2), NEW st \in Seq(Event), NEW t \in Seq(Event),
           \A p \in 1 .. Len(line) - d : /\ l2[p] = line[p + d]
                                         /\ w2[l2[p][1]].base = w[l2[p][1]].base /\ w2[l2[p][1]].current = w[l2[p][1]].current,
           \A p \in 1 .. d : w[line[p][1]].current => /\ Len(w[line[p][1]].base) + 1 \in DOMAIN (st \o t)
                                                      /\ (st \o t)[Len(w[line[p][1]].base) + 1] = line[p][1],
           NEW s \in Seq(Event), NEW n \in Nat, NEW k \in Nat, n <= k + d, Built(s, st, PendingOf(line, w, n))
    PROVE  Built(s, st \o t, PendingOf(l2, w2, k))
<1>1. SUFFICES ASSUME NEW x \in PendingOf(line, w, n)
               PROVE  x \in PendingOf(l2, w2, k) \/ (Len(x[2]) + 1 \in DOMAIN (st \o t) /\ (st \o t)[Len(x[2]) + 1] = x[1])
  BY BuiltGrows
<1>2. PICK p \in DOMAIN line : p <= n /\ w[line[p][1]].current /\ x = <<line[p][1], w[line[p][1]].base>>
  BY DEF PendingOf
<1>3. CASE p <= d
  <2>1. p \in 1 .. d
    BY <1>2, <1>3
  <2>2. x[1] = line[p][1] /\ x[2] = w[line[p][1]].base
    BY <1>2
  <2> QED BY <1>2, <2>1, <2>2
<1>4. CASE ~(p <= d)
  <2> DEFINE q == p - d
  <2>1. q \in 1 .. Len(line) - d /\ q + d = p /\ q <= k /\ q \in DOMAIN l2
    BY <1>2, <1>4
  <2> HIDE DEF q
  <2>2. l2[q] = line[p] /\ w2[l2[q][1]].base = w[line[p][1]].base /\ w2[l2[q][1]].current = w[line[p][1]].current
    BY <2>1
  <2>3. x = <<l2[q][1], w2[l2[q][1]].base>> /\ w2[l2[q][1]].current
    BY <1>2, <2>2
  <2> QED BY <2>1, <2>3 DEF PendingOf
<1> QED BY <1>3, <1>4

\* What that means for each step.
LEMMA RpcShifts ==
    ASSUME work \in RpcWork, work' \in RpcWork, store \in Seq(Event), RpcBuilt, NEW d \in 0 .. Len(Line),
           NEW t \in Seq(Event), store' = store \o t, Len(Line) - d <= Len(Line'),
           \A p \in 1 .. Len(Line) - d : /\ Line'[p] = Line[p + d]
                                         /\ work'.handler[Line[p + d][1]].base = work.handler[Line[p + d][1]].base
                                         /\ work'.handler[Line[p + d][1]].current = work.handler[Line[p + d][1]].current,
           \A p \in 1 .. d : work.handler[Line[p][1]].current =>
             /\ Len(work.handler[Line[p][1]].base) + 1 \in DOMAIN store'
             /\ store'[Len(work.handler[Line[p][1]].base) + 1] = Line[p][1]
    PROVE  /\ \A s \in Seq(Event), n \in Nat, k \in Nat : n <= k + d /\ Built(s, store, Pending(n)) => Built(s, store', Pending(k)')
           /\ \A s \in Seq(Event) : Built(s, store, Pending(Len(Line))) => Built(s, store', Pending(Len(Line))')
           /\ \A s \in Seq(Event) : Built(s, store, {}) => Built(s, store', {})
           /\ \A p \in 1 .. Len(Line) - d : work'.handler[Line'[p][1]].current
                => Built(work'.handler[Line'[p][1]].base, store', Pending(p - 1)')
<1>1. Line \in Seq(RpcSignal) /\ Line' \in Seq(RpcSignal) /\ Len(Line) \in Nat /\ Len(Line') \in Nat
      /\ DOMAIN Line = 1 .. Len(Line)
      /\ \A p \in DOMAIN Line : Line[p][1] \in Msg
  BY LineTypes DEF Line
<1>2. ASSUME NEW s \in Seq(Event), NEW n \in Nat, NEW k \in Nat, n <= k + d, Built(s, store, Pending(n))
      PROVE  Built(s, store', Pending(k)')
  <2> DEFINE w2 == work'.handler
             l2 == Line'
  <2>1. Built(s, store, PendingOf(Line, work.handler, n))
    BY <1>2 DEF Pending
  <2>2. \A p \in 1 .. Len(Line) - d : /\ l2[p] = Line[p + d]
                                      /\ w2[l2[p][1]].base = work.handler[l2[p][1]].base
                                      /\ w2[l2[p][1]].current = work.handler[l2[p][1]].current
    OBVIOUS
  <2>3. \A p \in 1 .. d : work.handler[Line[p][1]].current =>
             /\ Len(work.handler[Line[p][1]].base) + 1 \in DOMAIN (store \o t)
             /\ (store \o t)[Len(work.handler[Line[p][1]].base) + 1] = Line[p][1]
    OBVIOUS
  <2>4. l2 \in Seq(RpcSignal) /\ Len(Line) - d <= Len(l2)
    BY <1>1
  <2>5. Pending(k)' = PendingOf(l2, w2, k)
    BY SMTT(30) DEF Pending, PendingOf
  <2> HIDE DEF w2, l2
  <2>6. Built(s, store \o t, PendingOf(l2, w2, k))
    BY <1>1, <1>2, <2>1, <2>2, <2>3, <2>4, LineShift
  <2> QED BY <2>5, <2>6
<1>3. \A s \in Seq(Event) : Built(s, store, Pending(Len(Line))) => Built(s, store', Pending(Len(Line))')
  <2>1. Len(Line) <= Len(Line') + d
    BY <1>1
  <2> QED BY <1>1, <1>2, <2>1
<1>4. \A s \in Seq(Event) : Built(s, store, {}) => Built(s, store', {})
  BY SMTT(30), BuiltStays
<1>5. ASSUME NEW p \in 1 .. Len(Line) - d, work'.handler[Line'[p][1]].current
      PROVE  Built(work'.handler[Line'[p][1]].base, store', Pending(p - 1)')
  <2>1. p + d \in DOMAIN Line /\ p + d - 1 \in Nat /\ p - 1 \in Nat /\ p + d - 1 <= (p - 1) + d
    BY <1>1
  <2>2. work.handler[Line[p + d][1]].current /\ work'.handler[Line'[p][1]].base = work.handler[Line[p + d][1]].base
    BY <1>5
  <2>3. work.handler[Line[p + d][1]].base \in Seq(Event)
    BY <1>1, <2>1, RpcHandlers
  <2>4. Built(work.handler[Line[p + d][1]].base, store, Pending(p + d - 1))
    BY <2>1, <2>2 DEF RpcBuilt
  <2> QED BY <1>2, <2>1, <2>2, <2>3, <2>4
<1> QED BY <1>2, <1>3, <1>4, <1>5

\* A handler that is under way takes a step, or fails.
LEMMA RpcHandlerSteps ==
    ASSUME RpcInv, NEW m \in Msg, UnderWay(m), NEW h \in RpcHandler, h.try = work.handler[m].try,
           h.pc \in {"get", "loading", "loaded", "handle", "failed"}, NEW I \in SUBSET work.inflight,
           I = work.inflight \/ (h.pc = "failed" /\ I = work.inflight \ {<<m, work.handler[m].try>>}),
           work' \in RpcWork, work'.loop = work.loop, work'.out = work.out, work'.batch = work.batch,
           work'.back = work.back, work'.inflight = I, work'.handler[m] = h,
           \A x \in Msg : x # m => work'.handler[x] = work.handler[x],
           released' \in [Msg -> RpcHows], released'[m] # "ok", \A x \in Msg : x # m => released'[x] = released[x],
           UNCHANGED <<queue, store>>, faults' \in Nat, state' \in RpcState,
           Built(state'.held, store, Pending(Len(Line))),
           h.current /\ h.pc \in {"loaded", "handle"} => Built(h.base, store, Pending(Len(Line))),
           h.pc = "loaded" => Built(h.base, store, {})
    PROVE  RpcInv'
<1>1. /\ work \in RpcWork /\ I \in SUBSET RpcSignal /\ IsFiniteSet(I) /\ Cardinality(I) <= Parallel
      /\ work.out \in Seq(RpcSignal) /\ store \in Seq(Event)
  BY RpcFewer, RpcHandlers DEF RpcInv, RpcTypes
<1>2. /\ work' \in RpcWork /\ work'.loop = work.loop
      /\ work'.out = work.out /\ work'.batch = work.batch /\ work'.back = work.back
      /\ work'.inflight = I /\ work'.handler[m] = h /\ \A x \in Msg : x # m => work'.handler[x] = work.handler[x]
  OBVIOUS
<1>3. RpcTypes'
  BY <1>1, <1>2 DEF RpcInv, RpcTypes
<1>4. Line' = Line
  BY <1>2 DEF Line, LineOf, Awaiting
<1>5. \A p \in DOMAIN Line : Line[p][1] \in Msg /\ Line[p][1] # m
  <2>1. \A p \in DOMAIN Line : Line[p][1] \in Msg
    BY <1>1, LineTypes DEF Line
  <2> QED BY <2>1 DEF RpcInv, RpcLine, UnderWay
<1>6. \A p \in DOMAIN work.back : work.back[p][1] \in Msg /\ work.back[p][1] # m
  <2>1. CASE work.back = <<>>
    BY <2>1
  <2>2. CASE work.back # <<>>
    <3>2. \A p \in DOMAIN work.back : p \in DOMAIN Line /\ Line[p] = work.back[p]
      BY <1>1, <2>2, LinePlaces
    <3> QED BY <1>5, <3>2
  <2> QED BY <2>1, <2>2
<1>7. RpcLine'
  <2>1. \A p \in DOMAIN Line : work'.handler[Line[p][1]] = work.handler[Line[p][1]]
    BY <1>2, <1>5
  <2>2. \A p \in DOMAIN work.back : work'.handler[work.back[p][1]] = work.handler[work.back[p][1]]
    BY <1>2, <1>6
  <2>3. \A p \in DOMAIN Line : /\ work'.handler[Line[p][1]].pc = "out"
                               /\ Line[p] = <<Line[p][1], work'.handler[Line[p][1]].try>>
    BY <2>1 DEF RpcInv, RpcLine
  <2>4. work.back # <<>> => \A p \in DOMAIN work.back : ~work'.handler[work.back[p][1]].current
    BY <2>2 DEF RpcInv, RpcLine
  <2> QED BY <1>2, <1>4, <2>3, <2>4 DEF RpcInv, RpcLine
<1>8. /\ \A p \in DOMAIN queue.high : queue.high[p] \in Msg /\ queue.high[p] # m
      /\ \A p \in DOMAIN queue.low : queue.low[p] \in Msg /\ queue.low[p] # m
  <2>1. queue.high \in Seq(Msg) /\ queue.low \in Seq(Msg)
    BY DEF RpcInv, RpcTypes, RpcQueue
  <2> QED BY <2>1 DEF RpcInv, RpcQueued, UnderWay
<1>9. RpcQueued'
  <2>1. h.pc # "wait" /\ ~(m >= queue.next)
    BY SMTT(30) DEF RpcInv, RpcQueued, UnderWay
  <2> QED BY <1>2, <1>4, <1>5, <1>8, <2>1 DEF RpcInv, RpcQueued
<1>10. RpcSignals'
  <2>2. \A p \in DOMAIN work.out : work.out[p] \in RpcSignal /\ work.out[p][1] # m
    <3>1. \A p \in DOMAIN work.out : work.out[p] \in RpcSignal /\ \E q \in DOMAIN Line : Line[q] = work.out[p]
      BY <1>1, LinePlaces
    <3> QED BY <1>5, <3>1
  <2>3. \A p \in DOMAIN work.out : work.out[p] \in I
    BY <2>2 DEF RpcInv, RpcSignals
  <2>4. \A x \in Msg : UnderWay(x)' => <<x, work'.handler[x].try>> \in I
    <3>1. TAKE x \in Msg
    <3>2. CASE x = m
      BY <1>2, <3>2 DEF RpcInv, RpcSignals, UnderWay
    <3>3. CASE x # m
      BY <1>2, <3>3 DEF RpcInv, RpcSignals, UnderWay
    <3> QED BY <3>2, <3>3
  <2>5. m \notin ToSet(queue.high)
    BY <1>8 DEF ToSet
  <2>6. ASSUME work.back # <<>>, NEW i \in 1 .. Len(work.batch) - Len(work.back)
        PROVE  LET x == work.batch[i][1]
                   s == <<x, work'.handler[x].try>>
               IN /\ work'.handler[x].pc # "none" /\ (x \in ToSet(queue.high) => work.batch[i] = s)
                  /\ AtRest(work', Line, x) \/ work.batch[i] # s
    <3> DEFINE x == work.batch[i][1]
    <3>1. x \in Msg
      BY <1>1, LinePlaces
    <3>2. /\ work.handler[x].pc # "none" /\ (x \in ToSet(queue.high) => work.batch[i] = <<x, work.handler[x].try>>)
          /\ AtRest(work, Line, x) \/ work.batch[i] # <<x, work.handler[x].try>>
      BY <2>6 DEF RpcInv, RpcSignals
    <3> HIDE DEF x
    <3>3. CASE x = m
      <4>1. work.batch[i] # <<m, h.try>> /\ h.pc # "none"
        BY <3>2, <3>3 DEF UnderWay, AtRest
      <4> QED BY <1>2, <2>5, <3>3, <4>1 DEF x
    <3>4. CASE x # m
      BY <1>2, <3>1, <3>2, <3>4 DEF x, AtRest
    <3> QED BY <3>3, <3>4
  <2>7. work'.out = work.out /\ work'.batch = work.batch /\ work'.back = work.back /\ work'.inflight = I
        /\ queue'.high = queue.high /\ Line' = Line
    BY <1>2, <1>4
  <2>8. (\A p \in DOMAIN work.out : work.out[p] \in work.inflight)'
    BY <2>3, <2>7
  <2>9. (\A x \in Msg : UnderWay(x) => <<x, work.handler[x].try>> \in work.inflight)'
    BY <2>4, <2>7
  <2>10. (work.back # <<>> => \A i \in 1 .. Len(work.batch) - Len(work.back) :
            LET x == work.batch[i][1]
                s == <<x, work.handler[x].try>>
            IN /\ work.handler[x].pc # "none" /\ (x \in ToSet(queue.high) => work.batch[i] = s)
               /\ AtRest(work, Line, x) \/ work.batch[i] # s)'
    <3>1. ASSUME work'.back # <<>>, NEW i \in 1 .. Len(work'.batch) - Len(work'.back)
          PROVE  LET x == work'.batch[i][1]
                     s == <<x, work'.handler[x].try>>
                 IN /\ work'.handler[x].pc # "none" /\ (x \in ToSet(queue'.high) => work'.batch[i] = s)
                    /\ AtRest(work', Line', x) \/ work'.batch[i] # s
      BY <2>6, <2>7, <3>1
    <3> QED BY <3>1 DEF AtRest
  <2> QED BY <2>8, <2>9, <2>10 DEF RpcSignals
<1>11. RpcBuilt'
  <2>1. Pending(Len(Line))' = Pending(Len(Line)) /\ \A p \in DOMAIN Line : Pending(p - 1)' = Pending(p - 1)
    BY <1>2, <1>4, <1>5 DEF Pending, PendingOf
  <2> QED BY ZenonT(30), <1>2, <1>4, <1>5, <2>1 DEF RpcInv, RpcBuilt
<1>12. RpcStored'
  <2>1. m \notin ToSet(store) /\ h.pc # "over"
    BY DEF RpcInv, RpcStored, UnderWay
  <2>2. \A i \in DOMAIN store : store[i] # 0 => store[i] \in Msg /\ store[i] # m
    BY <1>1, <2>1 DEF ToSet, Event
  <2>3. StoredOn(store, Bases)'
    <3>1. \A i \in DOMAIN store : store[i] # 0 => Bases'[store[i]] = Bases[store[i]]
      BY <1>2, <2>2 DEF Bases
    <3>2. StoredOn(store, Bases)
      BY DEF RpcInv, RpcStored
    <3> QED BY <3>1, <3>2 DEF StoredOn
  <2>4. Distinct(store)'
    BY DEF RpcInv, RpcStored
  <2> QED BY <1>2, <2>1, <2>3, <2>4 DEF RpcInv, RpcStored
<1> QED BY <1>3, <1>7, <1>9, <1>10, <1>11, <1>12 DEF RpcInv

\* The step of a handler as RpcHandles has it.
LEMMA RpcHandling ==
    ASSUME RpcInv, NEW m \in Msg, UnderWay(m), NEW h \in RpcHandler, h.try = work.handler[m].try,
           h.pc \in {"get", "loading", "loaded", "handle"},
           work' = [work EXCEPT !.handler = [work.handler EXCEPT ![m] = h]],
           UNCHANGED <<queue, store, released, faults>>, state' \in RpcState,
           Built(state'.held, store, Pending(Len(Line))),
           h.current /\ h.pc \in {"loaded", "handle"} => Built(h.base, store, Pending(Len(Line))),
           h.pc = "loaded" => Built(h.base, store, {})
    PROVE  RpcInv'
<1>1. work \in RpcWork
  BY DEF RpcInv, RpcTypes
<1>2. /\ work' \in RpcWork /\ work'.loop = work.loop /\ work'.out = work.out /\ work'.batch = work.batch
      /\ work'.back = work.back /\ work'.inflight = work.inflight /\ work'.handler[m] = h
      /\ \A x \in Msg : x # m => work'.handler[x] = work.handler[x]
  BY <1>1, RpcAlters
<1>3. released' \in [Msg -> RpcHows] /\ faults' \in Nat
  BY DEF RpcInv, RpcTypes
<1>4. released'[m] # "ok" /\ \A x \in Msg : x # m => released'[x] = released[x]
  BY DEF RpcInv, RpcStored, UnderWay
<1> QED BY <1>2, <1>3, <1>4, RpcHandlerSteps

\* A handler sleeps before it tries again.
LEMMA RpcSleep ==
    ASSUME RpcInv, NEW m \in Msg, R!Sleep(m)
    PROVE  RpcInv'
<1> DEFINE h == [work.handler[m] EXCEPT !.pc = "get"]
<1>1. work \in RpcWork /\ work.handler[m] \in RpcHandler /\ R!H(m) = work.handler[m]
  BY RpcHandlers DEF RpcInv, RpcTypes
<1>2. h \in RpcHandler /\ h.try = work.handler[m].try /\ h.pc = "get"
  BY <1>1, RpcFields DEF RpcHandler
<1>3. /\ work' = [work EXCEPT !.handler = [work.handler EXCEPT ![m] = h]]
      /\ UNCHANGED <<queue, state, store, released, faults>> /\ UnderWay(m)
  BY <1>1 DEF R!Sleep, R!At, RpcWork, UnderWay
<1> HIDE DEF h
<1>4. state' \in RpcState /\ Built(state'.held, store, Pending(Len(Line)))
  BY <1>3 DEF RpcInv, RpcTypes, RpcBuilt
<1> QED BY <1>2, <1>3, <1>4, RpcHandling

\* The state is read from the cache, if it is there.
LEMMA RpcGet ==
    ASSUME RpcInv, NEW m \in Msg, R!Get(m)
    PROVE  RpcInv'
<1> DEFINE pc == IF state.cached THEN "handle" ELSE "loading"
           h == [work.handler[m] EXCEPT !.pc = pc, !.current = TRUE, !.base = state.held]
<1>1. work \in RpcWork /\ work.handler[m] \in RpcHandler /\ R!H(m) = work.handler[m] /\ state.held \in Seq(Event)
  BY RpcHandlers DEF RpcInv, RpcTypes, RpcState
<1>2. h \in RpcHandler /\ h.try = work.handler[m].try /\ h.pc \in {"handle", "loading"} /\ h.base = state.held
  BY <1>1, RpcFields DEF RpcHandler
<1>3. /\ work' = [work EXCEPT !.handler = [work.handler EXCEPT ![m] = h]]
      /\ UNCHANGED <<queue, state, store, released, faults>> /\ UnderWay(m)
  BY <1>1 DEF R!Get, RpcWork, UnderWay
<1> HIDE DEF h
<1>4. state' \in RpcState /\ Built(state'.held, store, Pending(Len(Line)))
  BY <1>3 DEF RpcInv, RpcTypes, RpcBuilt
<1>5. Built(h.base, store, Pending(Len(Line)))
  BY <1>2, <1>3, <1>4
<1> QED BY <1>2, <1>3, <1>4, <1>5, RpcHandling

\* The state is loaded from the store.
LEMMA RpcLoad ==
    ASSUME RpcInv, NEW m \in Msg, R!Load(m)
    PROVE  RpcInv'
<1> DEFINE h == [work.handler[m] EXCEPT !.pc = "loaded", !.base = store]
<1>1. work \in RpcWork /\ work.handler[m] \in RpcHandler /\ R!H(m) = work.handler[m] /\ store \in Seq(Event)
  BY RpcHandlers DEF RpcInv, RpcTypes
<1>2. h \in RpcHandler /\ h.try = work.handler[m].try /\ h.pc = "loaded" /\ h.base = store
  BY <1>1, RpcFields DEF RpcHandler
<1>3. /\ work' = [work EXCEPT !.handler = [work.handler EXCEPT ![m] = h]]
      /\ UNCHANGED <<queue, state, store, released, faults>> /\ UnderWay(m)
  BY <1>1 DEF R!Load, RpcWork, UnderWay
<1> HIDE DEF h
<1>4. state' \in RpcState /\ Built(state'.held, store, Pending(Len(Line)))
  BY <1>3 DEF RpcInv, RpcTypes, RpcBuilt
<1>5. Built(h.base, store, Pending(Len(Line))) /\ Built(h.base, store, {})
  BY <1>2 DEF Built
<1> QED BY <1>2, <1>3, <1>4, <1>5, RpcHandling

\* The state that was loaded is put into the cache.
LEMMA RpcLoaded ==
    ASSUME RpcInv, NEW m \in Msg, R!Loaded(m)
    PROVE  RpcInv'
<1> DEFINE h == [work.handler[m] EXCEPT !.pc = "handle"]
<1>1. /\ work \in RpcWork /\ work.handler[m] \in RpcHandler /\ R!H(m) = work.handler[m] /\ state \in RpcState
      /\ work.handler[m].base \in Seq(Event)
  BY RpcHandlers DEF RpcInv, RpcTypes
<1>2. h \in RpcHandler /\ h.try = work.handler[m].try /\ h.pc = "handle" /\ h.base = work.handler[m].base
      /\ h.current = work.handler[m].current
  BY <1>1, RpcFields DEF RpcHandler
<1>3. /\ work' = [work EXCEPT !.handler = [work.handler EXCEPT ![m] = h]]
      /\ UNCHANGED <<queue, store, released, faults>> /\ UnderWay(m) /\ work.handler[m].pc = "loaded"
      /\ state' = IF state.cached THEN state ELSE [state EXCEPT !.cached = TRUE, !.held = work.handler[m].base]
  BY <1>1 DEF R!Loaded, R!At, RpcWork, UnderWay
<1> HIDE DEF h
<1>4. state' \in RpcState /\ (state'.held = state.held \/ state'.held = work.handler[m].base)
  BY <1>1, <1>3 DEF RpcState
<1>5. Built(work.handler[m].base, store, {})
  BY <1>3 DEF RpcInv, RpcBuilt
<1>6. Built(work.handler[m].base, store, Pending(Len(Line)))
  BY <1>5 DEF Built
<1>7. Built(state'.held, store, Pending(Len(Line)))
  BY <1>4, <1>6 DEF RpcInv, RpcBuilt
<1> QED BY <1>2, <1>3, <1>4, <1>6, <1>7, RpcHandling

\* It fails: its message is released and its signal resolved.
LEMMA RpcFails ==
    ASSUME RpcInv, NEW m \in Msg, UnderWay(m), NEW e \in BOOLEAN, queue' = queue, store' = store, faults' \in Nat,
           work' = [R!At(m, "failed") EXCEPT !.error = e, !.inflight = work.inflight \ {R!Signal(m)}],
           released' = R!Release({m}, "unavailable"), state' = state
    PROVE  RpcInv'
<1> DEFINE h == [work.handler[m] EXCEPT !.pc = "failed"]
           I == work.inflight \ {R!Signal(m)}
<1>1. /\ work \in RpcWork /\ work.handler[m] \in RpcHandler /\ R!Signal(m) = <<m, work.handler[m].try>>
      /\ work.inflight \in SUBSET RpcSignal /\ work.out \in Seq(RpcSignal)
  BY RpcHandlers DEF RpcInv, RpcTypes
<1>2. h \in RpcHandler /\ h.try = work.handler[m].try /\ h.pc = "failed"
  BY <1>1, RpcFields DEF RpcHandler
<1> DEFINE g == [work.handler EXCEPT ![m] = h]
<1>3. work' = [work EXCEPT !.handler = g, !.error = e, !.inflight = I]
  BY <1>1 DEF R!At, RpcWork
<1>8. g \in [Msg -> RpcHandler] /\ g[m] = h /\ \A x \in Msg : x # m => g[x] = work.handler[x]
  BY <1>1, <1>2, RpcHandles
<1>4. /\ released' \in [Msg -> RpcHows] /\ released'[m] = "unavailable"
      /\ \A x \in Msg : x # m => released'[x] = released[x]
  <2>1. "unavailable" \in RpcHows
    BY RpcFields
  <2> QED BY SMTT(30), <2>1, RpcReleases DEF RpcInv
<1>5. I \in SUBSET work.inflight /\ I \in SUBSET RpcSignal /\ I = work.inflight \ {<<m, work.handler[m].try>>}
  BY <1>1
<1> HIDE DEF h, I, g
<1>6. /\ work' \in RpcWork /\ work'.loop = work.loop /\ work'.out = work.out /\ work'.batch = work.batch
      /\ work'.back = work.back /\ work'.inflight = I /\ work'.handler[m] = h
      /\ \A x \in Msg : x # m => work'.handler[x] = work.handler[x]
  BY <1>1, <1>3, <1>5, <1>8 DEF RpcWork
<1>7. Built(state'.held, store, Pending(Len(Line))) /\ state' \in RpcState
  BY DEF RpcInv, RpcBuilt, RpcTypes
<1> QED BY <1>2, <1>4, <1>5, <1>6, <1>7, RpcHandlerSteps

\* A handler fails.
LEMMA RpcHandlerFails ==
    ASSUME RpcInv, NEW m \in Msg, R!HandlerFails(m)
    PROVE  RpcInv'
<1>1. UnderWay(m) /\ queue' = queue /\ store' = store /\ state' = state /\ faults' = faults + 1
  BY RpcHandlers DEF R!HandlerFails, UnderWay, RpcInv, RpcTypes
<1>2. faults' \in Nat
  BY <1>1 DEF RpcInv, RpcTypes
<1>3. /\ work' = [R!At(m, "failed") EXCEPT !.error = TRUE, !.inflight = work.inflight \ {R!Signal(m)}]
      /\ released' = R!Release({m}, "unavailable")
  BY DEF R!HandlerFails, R!At, RpcInv, RpcTypes, RpcWork
<1> QED BY Zenon, <1>1, <1>2, <1>3, RpcFails

\* There is room for every signal in flight.
LEMMA RpcRoom ==
    ASSUME RpcInv, Parallel <= OutputCapacity, NEW m \in Msg, UnderWay(m)
    PROVE  Len(work.out) < OutputCapacity
<1> DEFINE n == Len(work.out)
           s == <<m, work.handler[m].try>>
           f == [p \in 1 .. n + 1 |-> IF p = n + 1 THEN s ELSE work.out[p]]
<1>1. work \in RpcWork /\ n \in Nat /\ DOMAIN work.out = 1 .. n
  BY LinePlaces DEF RpcInv, RpcTypes
<1>2. s \in work.inflight /\ \A p \in 1 .. n : work.out[p] \in work.inflight
  BY <1>1 DEF RpcInv, RpcSignals
<1>3. \A p \in 1 .. n : \E q \in DOMAIN Line : Line[q] = work.out[p]
  BY <1>1, LinePlaces
<1>4. \A p \in 1 .. n : work.out[p] # s
  BY <1>3 DEF RpcInv, RpcLine, UnderWay
<1>5. \A p, q \in 1 .. n : work.out[p] = work.out[q] => p = q
  <2>1. \A p \in 1 .. n : Len(Awaiting(work)) + p \in DOMAIN Line /\ Line[Len(Awaiting(work)) + p] = work.out[p]
    BY <1>1, LineTypes DEF Line
  <2>2. Len(Awaiting(work)) \in Nat
    BY <1>1, LineTypes
  <2>3. SUFFICES ASSUME NEW p \in 1 .. n, NEW q \in 1 .. n, work.out[p] = work.out[q]
                 PROVE  p = q
    OBVIOUS
  <2>4. Len(Awaiting(work)) + p = Len(Awaiting(work)) + q
    BY <2>1, <2>3 DEF RpcInv, RpcLine
  <2> QED BY <1>1, <2>2, <2>4
<1>6. n + 1 \notin 1 .. n /\ \A p \in 1 .. n + 1 : p # n + 1 => p \in 1 .. n
  BY <1>1
<1> HIDE DEF n, s
<1>7. f \in [1 .. n + 1 -> work.inflight]
  BY <1>2, <1>6
<1>8. \A p, q \in 1 .. n + 1 : f[p] = f[q] => p = q
  BY <1>4, <1>5, <1>6
<1>9. f \in Injection(1 .. n + 1, work.inflight)
  BY <1>7, <1>8 DEF Injection, IsInjective
<1>10. Cardinality(1 .. n + 1) <= Cardinality(work.inflight)
  BY <1>9, FS_Injection DEF RpcInv, RpcTypes
<1>11. Cardinality(1 .. n + 1) = n + 1
  BY <1>1, FS_Interval
<1>12. Cardinality(work.inflight) \in Nat /\ Parallel \in Nat /\ OutputCapacity \in Nat /\ Cardinality(work.inflight) <= Parallel
  BY FS_CardinalityType, SizesAssumption DEF RpcInv, RpcTypes
<1>13. n < OutputCapacity
  BY <1>1, <1>10, <1>11, <1>12
<1> QED BY <1>13 DEF n

\* What has been handled is enqueued at once.
LEMMA RpcHandleStep ==
    ASSUME RpcInv, Parallel <= OutputCapacity, NEW m \in Msg, R!Handle(m)
    PROVE  RpcInv'
<1> DEFINE h == [work.handler[m] EXCEPT !.pc = "out"]
           g == [work.handler EXCEPT ![m] = h]
           s == R!Signal(m)
           o == Append(work.out, s)
<1>1. /\ work \in RpcWork /\ work.handler[m] \in RpcHandler /\ s = <<m, work.handler[m].try>> /\ R!H(m) = work.handler[m]
      /\ s \in RpcSignal /\ work.out \in Seq(RpcSignal) /\ work.handler[m].base \in Seq(Event)
  BY RpcHandlers DEF RpcInv, RpcTypes
<1>2. work.handler[m].pc = "handle" /\ UnderWay(m) /\ UNCHANGED <<queue, store, faults>>
  BY <1>1 DEF R!Handle, UnderWay
<1>3. Len(work.out) < OutputCapacity
  BY <1>2, RpcRoom
<1>4. work' = [work EXCEPT !.handler = g, !.out = o] /\ released' = released
  BY <1>1, <1>3, RpcFields DEF R!Handle, R!HasOutputRoom, R!Enqueued, RpcWork
<1>5. /\ h \in RpcHandler /\ h.pc = "out" /\ h.try = work.handler[m].try /\ h.base = work.handler[m].base
      /\ h.current = work.handler[m].current
  BY <1>1, RpcFields DEF RpcHandler
<1>6. g \in [Msg -> RpcHandler] /\ g[m] = h /\ \A x \in Msg : x # m => g[x] = work.handler[x]
  BY <1>1, <1>5, RpcHandles
<1>7. o \in Seq(RpcSignal) /\ Len(o) = Len(work.out) + 1 /\ o[Len(o)] = s /\ DOMAIN o = 1 .. Len(work.out) + 1
      /\ Len(work.out) \in Nat /\ \A p \in 1 .. Len(work.out) : o[p] = work.out[p]
  BY <1>1
<1>8. work.handler[m].current =>
        state'.held = Append(work.handler[m].base, m) \/ state'.held = state.held
  BY <1>1 DEF R!Handle, RpcInv, RpcTypes, RpcState
<1>9. ~work.handler[m].current => state'.held = state.held
  BY <1>1 DEF R!Handle
<1>10. state' \in RpcState
  <2>1. Append(work.handler[m].base, m) \in Seq(Event)
    BY <1>1, RpcFields
  <2> QED BY <1>1, <2>1 DEF R!Handle, RpcInv, RpcTypes, RpcState
<1> HIDE DEF h, g, o
<1>11. /\ work' \in RpcWork /\ work'.loop = work.loop /\ work'.out = o /\ work'.batch = work.batch
       /\ work'.back = work.back /\ work'.inflight = work.inflight /\ work'.handler = g
  BY <1>1, <1>4, <1>6, <1>7 DEF RpcWork
<1>12. /\ Line' = Append(Line, s) /\ Len(Line') = Len(Line) + 1 /\ Len(Line) \in Nat /\ Line'[Len(Line) + 1] = s
       /\ \A p \in 1 .. Len(Line) : Line'[p] = Line[p]
       /\ DOMAIN Line = 1 .. Len(Line) /\ DOMAIN Line' = 1 .. Len(Line) + 1
  <2>1. Awaiting(work') = Awaiting(work) /\ Awaiting(work) \in Seq(RpcSignal) /\ Line \in Seq(RpcSignal)
    BY <1>1, <1>11, LineTypes DEF Awaiting, Line
  <2>2. Line' = Append(Line, s)
    BY SMTT(30), <1>1, <1>11, <2>1, AppendConcat DEF Line, LineOf, o
  <2> QED BY <1>1, <2>1, <2>2, AppendProperties
<1>a. PICK N \in Nat : N = Len(Line)
  BY Zenon, <1>12
<1>b. /\ Len(Line') = N + 1 /\ Line'[N + 1] = s /\ \A p \in 1 .. N : Line'[p] = Line[p]
      /\ DOMAIN Line = 1 .. N /\ DOMAIN Line' = 1 .. N + 1
  BY <1>12, <1>a
<1>13. \A p \in 1 .. N : Line[p][1] \in Msg /\ Line[p][1] # m /\ work'.handler[Line[p][1]] = work.handler[Line[p][1]]
  <2>1. \A p \in 1 .. N : Line[p][1] \in Msg
    BY <1>1, <1>b, LineTypes DEF Line
  <2>2. \A p \in 1 .. N : Line[p][1] # m
    BY <1>2, <1>b DEF RpcInv, RpcLine
  <2> QED BY <1>6, <1>11, <2>1, <2>2
<1>14. s[1] = m /\ s[2] = work.handler[m].try
  BY <1>1
<1> HIDE DEF s
<1>15. RpcTypes'
  <2>1. Len(o) <= OutputCapacity
    BY <1>3, <1>7, SizesAssumption
  <2>2. Len(work'.out) <= OutputCapacity /\ Len(work'.batch) <= MaxBatch /\ work'.inflight = work.inflight
    BY <1>11, <2>1 DEF RpcInv, RpcTypes
  <2> QED BY <1>2, <1>4, <1>10, <1>11, <2>2, Zenon DEF RpcInv, RpcTypes
<1>16. RpcLine'
  <2>1. \A p \in DOMAIN Line' : /\ work'.handler[Line'[p][1]].pc = "out"
                                /\ Line'[p] = <<Line'[p][1], work'.handler[Line'[p][1]].try>>
    <3>1. TAKE p \in DOMAIN Line'
    <3>2. CASE p \in 1 .. N
      BY <1>b, <1>13, <3>2 DEF RpcInv, RpcLine
    <3>3. CASE p = N + 1
      BY <1>1, <1>5, <1>6, <1>11, <1>b, <1>14, <3>3
    <3> QED BY <1>b, <3>2, <3>3
  <2>2. \A p, q \in DOMAIN Line' : Line'[p][1] = Line'[q][1] => p = q
    <3>1. \A p \in DOMAIN Line' : p \in 1 .. N \/ p = N + 1
      BY <1>b
    <3> QED BY <1>b, <1>13, <1>14, <3>1 DEF RpcInv, RpcLine
  <2>3. work.back # <<>> => \A p \in DOMAIN work.back : ~work'.handler[work.back[p][1]].current
    <3>1. SUFFICES ASSUME work.back # <<>>, NEW p \in DOMAIN work.back
                   PROVE  ~work'.handler[work.back[p][1]].current
      OBVIOUS
    <3>2. p \in 1 .. N /\ Line[p] = work.back[p]
      BY <1>1, <1>b, <3>1, LinePlaces
    <3>3. work'.handler[work.back[p][1]] = work.handler[work.back[p][1]]
      BY <1>13, <3>2
    <3>4. ~work.handler[work.back[p][1]].current
      BY <3>1 DEF RpcInv, RpcLine
    <3> QED BY <3>3, <3>4
  <2> QED BY <1>11, <2>1, <2>2, <2>3 DEF RpcInv, RpcLine
<1>17. /\ \A p \in DOMAIN queue.high : queue.high[p] \in Msg /\ queue.high[p] # m
       /\ \A p \in DOMAIN queue.low : queue.low[p] \in Msg /\ queue.low[p] # m
  <2>1. queue.high \in Seq(Msg) /\ queue.low \in Seq(Msg)
    BY DEF RpcInv, RpcTypes, RpcQueue
  <2> QED BY <1>2, <2>1 DEF RpcInv, RpcQueued
<1>18. RpcQueued'
  <2>1. \A p \in DOMAIN queue.high : \A q \in DOMAIN Line' : queue.high[p] # Line'[q][1]
    <3>1. \A q \in DOMAIN Line' : q \in 1 .. N \/ q = N + 1
      BY <1>b
    <3> QED BY <1>b, <1>14, <1>17, <3>1 DEF RpcInv, RpcQueued
  <2>2. ~(m >= queue.next)
    BY <1>2 DEF RpcInv, RpcQueued
  <2> QED BY <1>2, <1>5, <1>6, <1>11, <1>17, <2>1, <2>2 DEF RpcInv, RpcQueued
<1>19. RpcSignals'
  <2>1. \A p \in DOMAIN o : o[p] \in work.inflight
    <3>1. \A p \in DOMAIN o : p \in DOMAIN work.out \/ p = Len(work.out) + 1
      BY <1>1, <1>7
    <3>2. s \in work.inflight
      BY <1>1, <1>2 DEF RpcInv, RpcSignals
    <3>3. \A p \in DOMAIN work.out : work.out[p] \in work.inflight
      BY <1>1 DEF RpcInv, RpcSignals
    <3>4. \A p \in DOMAIN work.out : o[p] = work.out[p]
      <4>1. work.out \in Seq(RpcSignal)
        BY <1>1
      <4>2. DOMAIN work.out = 1 .. Len(work.out)
        BY <4>1
      <4> QED BY <1>7, <4>2
    <3>5. o[Len(work.out) + 1] = s
      BY <1>7
    <3> QED BY <3>1, <3>2, <3>3, <3>4, <3>5
  <2>2. \A x \in Msg : UnderWay(x)' => <<x, work'.handler[x].try>> \in work.inflight
    <3>1. \A x \in Msg : UnderWay(x)' => x # m
      BY <1>5, <1>6, <1>11 DEF UnderWay
    <3> QED BY <1>6, <1>11, <3>1 DEF RpcInv, RpcSignals, UnderWay
  <2>5. m \notin ToSet(queue.high)
    BY <1>17 DEF ToSet
  <2>6. ASSUME work.back # <<>>, NEW i \in 1 .. Len(work.batch) - Len(work.back)
        PROVE  LET x == work.batch[i][1]
                   y == <<x, work'.handler[x].try>>
               IN /\ work'.handler[x].pc # "none" /\ (x \in ToSet(queue.high) => work.batch[i] = y)
                  /\ AtRest(work', Line', x) \/ work.batch[i] # y
    <3> DEFINE x == work.batch[i][1]
    <3>1. x \in Msg
      BY <1>1, LinePlaces
    <3>2. /\ work.handler[x].pc # "none" /\ (x \in ToSet(queue.high) => work.batch[i] = <<x, work.handler[x].try>>)
          /\ AtRest(work, Line, x) \/ work.batch[i] # <<x, work.handler[x].try>>
      BY <2>6 DEF RpcInv, RpcSignals
    <3> HIDE DEF x
    <3>3. CASE x = m
      <4>1. work.batch[i] # <<m, h.try>> /\ h.pc # "none"
        BY <1>2, <1>5, <3>2, <3>3 DEF AtRest
      <4> QED BY <1>6, <1>11, <2>5, <3>3, <4>1 DEF x
    <3>4. CASE x # m
      <4>1. work'.handler[x] = work.handler[x]
        BY <1>6, <1>11, <3>1, <3>4
      <4>2. \A q \in DOMAIN Line' : q \in 1 .. N \/ q = N + 1
        BY <1>b
      <4>3. AtRest(work, Line, x) => AtRest(work', Line', x)
        BY <1>b, <1>14, <3>4, <4>1, <4>2 DEF AtRest
      <4> QED BY <3>2, <4>1, <4>3 DEF x
    <3> QED BY <3>3, <3>4
  <2> QED BY <1>2, <1>11, <2>1, <2>2, <2>6 DEF RpcSignals
<1>20. /\ \A b \in Seq(Event), n \in Nat, k \in Nat : n <= k /\ Built(b, store, Pending(n)) => Built(b, store, Pending(k)')
       /\ \A p \in 1 .. N : work'.handler[Line'[p][1]].current
            => Built(work'.handler[Line'[p][1]].base, store, Pending(p - 1)')
  <2>1. store' = store \o <<>> /\ <<>> \in Seq(Event) /\ store \in Seq(Event) /\ store' = store
    BY <1>2, ConcatEmptySeq DEF RpcInv, RpcTypes
  <2>2. 0 \in 0 .. Len(Line) /\ Len(Line) - 0 = N /\ N <= Len(Line') /\ \A p \in 1 .. N : p + 0 = p
    BY <1>a, <1>b
  <2>3. \A p \in 1 .. Len(Line) - 0 : /\ Line'[p] = Line[p + 0]
                                      /\ work'.handler[Line[p + 0][1]].base = work.handler[Line[p + 0][1]].base
                                      /\ work'.handler[Line[p + 0][1]].current = work.handler[Line[p + 0][1]].current
    BY <1>b, <1>13, <2>2
  <2>4. \A n, k \in Nat : n <= k => n <= k + 0
    OBVIOUS
  <2>5. \A p \in 1 .. 0 : FALSE
    OBVIOUS
  <2>6. RpcBuilt
    BY DEF RpcInv
  <2>7. /\ \A b \in Seq(Event), n \in Nat, k \in Nat : n <= k + 0 /\ Built(b, store, Pending(n)) => Built(b, store', Pending(k)')
        /\ \A p \in 1 .. Len(Line) - 0 : work'.handler[Line'[p][1]].current
             => Built(work'.handler[Line'[p][1]].base, store', Pending(p - 1)')
    BY <1>1, <1>11, <2>1, <2>2, <2>3, <2>5, <2>6, RpcShifts
  <2> QED BY <2>1, <2>2, <2>4, <2>7
<1>21. work.handler[m].current => /\ Built(work.handler[m].base, store, Pending(N)')
                                  /\ Built(work.handler[m].base, store, Pending(N + 1)')
  <2>1. work.handler[m].current => Built(work.handler[m].base, store, Pending(N))
    BY <1>2, <1>a DEF RpcInv, RpcBuilt
  <2>2. N + 1 \in Nat /\ N <= N + 1 /\ N <= N
    BY <1>b
  <2> QED BY <1>1, <1>b, <1>20, <2>1, <2>2
<1>22. Built(state'.held, store, Pending(N + 1)')
  <2>1. Built(state.held, store, Pending(N + 1)')
    <3>1. Built(state.held, store, Pending(N)) /\ state.held \in Seq(Event)
      BY <1>a DEF RpcInv, RpcBuilt, RpcTypes, RpcState
    <3>2. N + 1 \in Nat /\ N <= N + 1
      BY <1>b
    <3> QED BY <1>b, <1>20, <3>1, <3>2
  <2>2. work.handler[m].current => Built(Append(work.handler[m].base, m), store, Pending(N + 1)')
    <3>1. SUFFICES ASSUME work.handler[m].current
                   PROVE  Built(Append(work.handler[m].base, m), store, Pending(N + 1)')
      OBVIOUS
    <3>5. N + 1 \in DOMAIN Line' /\ N + 1 <= N + 1 /\ Line'[N + 1][1] = m
      BY <1>b, <1>14
    <3>6. work'.handler[m] = h
      BY <1>6, <1>11
    <3>7. work'.handler[m].current /\ work'.handler[m].base = work.handler[m].base
      BY <1>5, <3>1, <3>6
    <3>2. /\ N + 1 \in DOMAIN Line' /\ N + 1 <= N + 1 /\ Line'[N + 1][1] = m
          /\ work'.handler[m].current /\ work'.handler[m].base = work.handler[m].base
      BY <3>5, <3>7
    <3>3. <<m, work.handler[m].base>> \in Pending(N + 1)'
      <4>1. Pending(N + 1)' = PendingOf(Line', work'.handler, N + 1)
        BY DEF Pending, PendingOf
      <4> QED BY <3>2, <4>1 DEF PendingOf
    <3>4. m \in Event /\ store \in Seq(Event)
      BY RpcFields DEF RpcInv, RpcTypes
    <3> QED BY <1>1, <1>21, <3>1, <3>3, <3>4, BuiltAppend
  <2> QED BY <1>8, <1>9, <2>1, <2>2
<1>23. RpcBuilt'
  <2>1. Pending(Len(Line))' = Pending(N + 1)'
    BY <1>b DEF Pending
  <2>2. Built(state'.held, store', Pending(Len(Line))')
    BY <1>2, <1>22, <2>1
  <2>3. \A x \in Msg : work'.handler[x].current /\ work'.handler[x].pc \in {"loaded", "handle"}
          => Built(work'.handler[x].base, store', Pending(Len(Line))')
    <3>1. SUFFICES ASSUME NEW x \in Msg, work'.handler[x].current, work'.handler[x].pc \in {"loaded", "handle"}
                   PROVE  Built(work'.handler[x].base, store', Pending(Len(Line))')
      OBVIOUS
    <3>2. x # m /\ work'.handler[x] = work.handler[x]
      BY <1>5, <1>6, <1>11, <3>1
    <3>3. Built(work.handler[x].base, store, Pending(N)) /\ work.handler[x].base \in Seq(Event)
      BY <1>1, <1>2, <1>a, <3>1, <3>2, RpcHandlers DEF RpcInv, RpcBuilt
    <3>4. N + 1 \in Nat /\ N <= N + 1
      OBVIOUS
    <3>5. Built(work.handler[x].base, store, Pending(N + 1)')
      BY <1>20, <3>3, <3>4
    <3> QED BY <1>2, <2>1, <3>2, <3>5
  <2>4. \A x \in Msg : work'.handler[x].pc = "loaded" => Built(work'.handler[x].base, store', {})
    <3>1. \A x \in Msg : work'.handler[x].pc = "loaded" => work'.handler[x] = work.handler[x]
      BY <1>5, <1>6, <1>11
    <3> QED BY <1>2, <3>1 DEF RpcInv, RpcBuilt
  <2>5. ASSUME NEW p \in DOMAIN Line', work'.handler[Line'[p][1]].current
        PROVE  Built(work'.handler[Line'[p][1]].base, store', Pending(p - 1)')
    <3>1. CASE p \in 1 .. N
      BY <1>2, <1>20, <2>5, <3>1
    <3>2. CASE p = N + 1
      <4>1. p - 1 = N /\ Line'[p][1] = m /\ work'.handler[m].base = work.handler[m].base /\ work.handler[m].current
        BY <1>5, <1>6, <1>11, <1>14, <1>b, <2>5, <3>2
      <4> QED BY <1>2, <1>21, <4>1
    <3> QED BY <1>b, <3>1, <3>2
  <2> QED BY <2>2, <2>3, <2>4, <2>5 DEF RpcBuilt
<1>24. RpcStored'
  <2>1. Bases' = Bases
    BY <1>5, <1>6, <1>11 DEF Bases
  <2>2. m \notin ToSet(store) /\ h.pc # "over"
    BY <1>2, <1>5 DEF RpcInv, RpcStored
  <2>3. \A x \in Msg : x \in ToSet(store) <=> work'.handler[x].pc = "over"
    BY <1>6, <1>11, <2>2 DEF RpcInv, RpcStored
  <2> QED BY <1>2, <1>4, <2>1, <2>3 DEF RpcInv, RpcStored
<1> QED BY <1>15, <1>16, <1>18, <1>19, <1>23, <1>24 DEF RpcInv

\* The types alone, which need no room for every signal: the message dequeued.
LEMMA RpcDequeued ==
    ASSUME RpcTypes, queue.high \o queue.low # <<>>
    PROVE  /\ R!NextMessage \in Msg /\ R!Dequeued \in RpcQueue
           /\ Len(R!Dequeued.low) <= InputCapacity /\ Len(R!Dequeued.high) <= InputCapacity
           /\ R!Dequeued.next = queue.next
           /\ \/ /\ queue.high # <<>> /\ R!NextMessage = Head(queue.high) /\ R!Dequeued.high = Tail(queue.high)
                 /\ R!Dequeued.low = queue.low
              \/ /\ queue.high = <<>> /\ queue.low # <<>> /\ R!NextMessage = Head(queue.low) /\ R!Dequeued.low = Tail(queue.low)
                 /\ R!Dequeued.high = queue.high
<1>1. /\ queue \in RpcQueue /\ queue.high \in Seq(Msg) /\ queue.low \in Seq(Msg)
      /\ Len(queue.low) <= InputCapacity /\ Len(queue.high) <= InputCapacity /\ InputCapacity \in Nat
  BY SizesAssumption DEF RpcTypes, RpcQueue
<1>2. CASE queue.high # <<>>
  <2>1. /\ Head(queue.high) \in Msg /\ Tail(queue.high) \in Seq(Msg) /\ Len(Tail(queue.high)) = Len(queue.high) - 1
        /\ Len(queue.high) \in Nat
    BY <1>1, <1>2, HeadTailProperties
  <2>2. R!NextMessage = Head(queue.high) /\ R!Dequeued = [queue EXCEPT !.high = Tail(queue.high)]
    BY <1>2 DEF R!NextMessage, R!Dequeued
  <2>3. R!Dequeued \in RpcQueue /\ R!Dequeued.high = Tail(queue.high) /\ R!Dequeued.low = queue.low
        /\ R!Dequeued.next = queue.next
    BY <1>1, <2>1, <2>2 DEF RpcQueue
  <2>4. Len(Tail(queue.high)) <= InputCapacity
    BY <1>1, <2>1
  <2> QED BY <1>1, <1>2, <2>1, <2>2, <2>3, <2>4
<1>3. CASE queue.high = <<>>
  <2>0. queue.low # <<>>
    BY <1>1, <1>3, ConcatEmptySeq
  <2>1. /\ Head(queue.low) \in Msg /\ Tail(queue.low) \in Seq(Msg) /\ Len(Tail(queue.low)) = Len(queue.low) - 1
        /\ Len(queue.low) \in Nat
    BY <1>1, <2>0, HeadTailProperties
  <2>2. R!NextMessage = Head(queue.low) /\ R!Dequeued = [queue EXCEPT !.low = Tail(queue.low)]
    BY <1>3 DEF R!NextMessage, R!Dequeued
  <2>3. R!Dequeued \in RpcQueue /\ R!Dequeued.low = Tail(queue.low) /\ R!Dequeued.high = queue.high
        /\ R!Dequeued.next = queue.next
    BY <1>1, <2>1, <2>2 DEF RpcQueue
  <2>4. Len(Tail(queue.low)) <= InputCapacity
    BY <1>1, <2>1
  <2> QED BY <1>1, <1>3, <2>0, <2>1, <2>2, <2>3, <2>4
<1> QED BY <1>2, <1>3

\* What receiving a message changes.
LEMMA RpcReceiveTypes ==
    ASSUME RpcTypes, R!Receive
    PROVE  /\ RpcTypes' /\ UNCHANGED <<work, state, store, faults>> /\ queue.next \in Msg
           /\ queue'.next = queue.next + 1 /\ queue'.high = queue.high
           /\ \/ queue'.low = Append(queue.low, queue.next) /\ released' = released
              \/ /\ queue'.low = queue.low /\ released'[queue.next] = "unavailable"
                 /\ \A x \in Msg : x # queue.next => released'[x] = released[x]
<1>1. /\ queue \in RpcQueue /\ queue.low \in Seq(Msg) /\ queue.next \in Msg /\ queue.next + 1 \in RpcNumbers
      /\ Len(queue.low) <= InputCapacity /\ InputCapacity \in Nat /\ Len(queue.low) \in Nat
  <2>1. /\ queue \in RpcQueue /\ queue.low \in Seq(Msg) /\ queue.next \in RpcNumbers
        /\ Len(queue.low) <= InputCapacity /\ queue.next <= Messages
    BY DEF RpcTypes, RpcQueue, R!Receive
  <2>2. queue.next \in Msg /\ queue.next + 1 \in RpcNumbers
    BY SMTT(30), <2>1, SizesAssumption DEF RpcNumbers, Msg
  <2> QED BY <2>1, <2>2, SizesAssumption
<1>2. CASE R!HasPlace(queue.low)
  <2>1. queue' = [queue EXCEPT !.next = queue.next + 1, !.low = Append(queue.low, queue.next)] /\ Len(queue.low) < InputCapacity
    BY <1>2 DEF R!Receive, R!HasPlace
  <2>2. Append(queue.low, queue.next) \in Seq(Msg) /\ Len(Append(queue.low, queue.next)) = Len(queue.low) + 1
    BY <1>1
  <2>3. /\ queue' \in RpcQueue /\ queue'.next = queue.next + 1 /\ queue'.high = queue.high
        /\ queue'.low = Append(queue.low, queue.next)
    <3> DEFINE l == Append(queue.low, queue.next)
               n == queue.next + 1
    <3>1. queue \in RpcQueue /\ l \in Seq(Msg) /\ n \in RpcNumbers /\ queue' = [queue EXCEPT !.next = n, !.low = l]
      BY <1>1, <2>1, <2>2
    <3> HIDE DEF l, n
    <3>2. /\ queue' \in RpcQueue /\ queue'.next = n /\ queue'.high = queue.high
          /\ queue'.low = l
      BY ONLY <3>1 DEF RpcQueue
    <3> QED BY <3>2 DEF l, n
  <2>4. Len(queue'.low) <= InputCapacity
    BY <1>1, <2>1, <2>2, <2>3
  <2>5. released' = released /\ UNCHANGED <<work, state, store, faults>>
    BY <1>2 DEF R!Receive
  <2> QED BY <1>1, <1>2, <2>3, <2>4, <2>5 DEF RpcTypes
<1>3. CASE ~R!HasPlace(queue.low)
  <2>1. queue' = [queue EXCEPT !.next = queue.next + 1, !.low = queue.low] /\ released' = R!Release({queue.next}, "unavailable")
    BY <1>3 DEF R!Receive
  <2>3. /\ queue' \in RpcQueue /\ queue'.next = queue.next + 1 /\ queue'.high = queue.high
        /\ queue'.low = queue.low
    BY <1>1, <2>1 DEF RpcQueue
  <2>4. "unavailable" \in RpcHows
    BY RpcFields
  <2>5. released' \in [Msg -> RpcHows] /\ \A m \in Msg : released'[m] = IF m \in {queue.next} THEN "unavailable" ELSE released[m]
    BY <2>1, <2>4, RpcReleases
  <2>6. UNCHANGED <<work, state, store, faults>>
    BY DEF R!Receive
  <2>7. RpcTypes'
    BY <2>3, <2>5, <2>6 DEF RpcTypes
  <2> QED BY <1>1, <1>3, <2>3, <2>5, <2>6, <2>7
<1> QED BY <1>2, <1>3

\* The instance counts as the library does.
LEMMA RpcCardinality == \A T : R!Cardinality(T) = Cardinality(T)
BY Zenon DEF R!Cardinality, Cardinality

\* What dequeuing a message changes.
LEMMA RpcDequeueTypes ==
    ASSUME RpcTypes, R!Dequeue
    PROVE  /\ RpcTypes' /\ UNCHANGED <<state, store, released, faults>> /\ queue' = R!Dequeued /\ queue.high \o queue.low # <<>>
           /\ work.loop = "next" /\ work'.loop = work.loop /\ work'.out = work.out /\ work'.batch = work.batch
           /\ work'.back = work.back /\ work'.handler[R!NextMessage].pc \in {"sleep", "get"}
           /\ \A x \in Msg : x # R!NextMessage => work'.handler[x] = work.handler[x]
           /\ work'.handler[R!NextMessage].base = <<>>
           /\ queue.high # <<>> => work'.handler[R!NextMessage].try # work.handler[R!NextMessage].try
           /\ work'.inflight = work.inflight \cup {<<R!NextMessage, work'.handler[R!NextMessage].try>>}
<1> DEFINE m == R!NextMessage
           try == IF queue.high # <<>> THEN 3 - R!H(m).try ELSE 1
           pc == IF queue.high # <<>> THEN "sleep" ELSE "get"
           h == [R!Handler EXCEPT !.pc = pc, !.try = try]
           I == work.inflight \cup {<<m, try>>}
           g == [work.handler EXCEPT ![m] = h]
<1>1. /\ UNCHANGED <<state, store, released, faults>> /\ queue' = R!Dequeued /\ queue.high \o queue.low # <<>>
      /\ work.loop = "next" /\ Cardinality(work.inflight) < Parallel
      /\ work' = [work EXCEPT !.handler = g, !.inflight = I]
  <2>1. work \in RpcWork
    BY DEF RpcTypes
  <2>2. work' = [work EXCEPT !.handler = g, !.inflight = I]
    BY <2>1 DEF R!Dequeue, RpcWork
  <2>3. UNCHANGED <<state, store, released, faults>> /\ queue' = R!Dequeued /\ work.loop = "next"
    BY DEF R!Dequeue
  <2> HIDE DEF m, try, pc, h, I, g
  <2>4. R!HasRoom /\ queue.high \o queue.low # <<>>
    BY DEF R!Dequeue
  <2>5. Cardinality(work.inflight) < Parallel
    BY <2>4, RpcCardinality DEF R!HasRoom
  <2> QED BY <2>2, <2>3, <2>4, <2>5
<1>2. /\ m \in Msg /\ queue' \in RpcQueue /\ Len(queue'.low) <= InputCapacity /\ Len(queue'.high) <= InputCapacity
  BY <1>1, RpcDequeued
<1>3. /\ work \in RpcWork /\ work.handler[m] \in RpcHandler /\ R!H(m) = work.handler[m] /\ work.inflight \in SUBSET RpcSignal
  BY <1>2, RpcHandlers DEF RpcTypes
<1> HIDE DEF m
<1>4. try \in RpcTries /\ (queue.high # <<>> => try # work.handler[m].try)
  BY <1>3 DEF RpcTries, RpcHandler
<1> HIDE DEF try
<1>5. h \in RpcHandler /\ h.pc \in {"sleep", "get"} /\ h.base = <<>> /\ h.try = try
  BY <1>4, RpcFields DEF RpcHandler, R!Handler
<1> HIDE DEF h
<1>6. g \in [Msg -> RpcHandler] /\ g[m] = h /\ \A x \in Msg : x # m => g[x] = work.handler[x]
  BY <1>2, <1>3, <1>5, RpcHandles
<1>7. I \in SUBSET RpcSignal
  BY <1>2, <1>3, <1>4 DEF RpcSignal
<1>8. IsFiniteSet(I) /\ Cardinality(I) <= Parallel
  <2>1. IsFiniteSet(work.inflight) /\ Cardinality(work.inflight) \in Nat /\ Parallel \in Nat
    BY FS_CardinalityType, SizesAssumption DEF RpcTypes
  <2>2. IsFiniteSet(I) /\ (Cardinality(I) = Cardinality(work.inflight) \/ Cardinality(I) = Cardinality(work.inflight) + 1)
    BY <2>1, FS_AddElement
  <2> QED BY <1>1, <2>1, <2>2
<1> HIDE DEF g, I
<1>9. /\ work' \in RpcWork /\ work'.loop = work.loop /\ work'.out = work.out /\ work'.batch = work.batch
      /\ work'.back = work.back /\ work'.handler = g /\ work'.inflight = I
  BY <1>1, <1>3, <1>6, <1>7 DEF RpcWork
<1>10. RpcTypes'
  BY <1>1, <1>2, <1>8, <1>9 DEF RpcTypes
<1> QED BY <1>1, <1>4, <1>5, <1>6, <1>9, <1>10 DEF m, I

\* What leaving the loop changes.
LEMMA RpcBreakTypes ==
    ASSUME RpcTypes, R!Break
    PROVE  /\ RpcTypes' /\ UNCHANGED <<state, store, released, faults>> /\ queue.high \o queue.low # <<>>
           /\ queue'.low = R!Dequeued.low /\ queue'.high = R!Dequeued.high /\ queue'.next = queue.next
           /\ work'.loop = "failed" /\ work'.out = work.out /\ work'.batch = work.batch
           /\ work'.back = work.back /\ work'.handler = work.handler /\ work'.inflight = work.inflight
<1>1. /\ UNCHANGED <<state, store, released, faults>> /\ queue.high \o queue.low # <<>>
      /\ work' = [work EXCEPT !.loop = "failed"]
  BY DEF R!Break
<1> PICK late \in BOOLEAN : queue' = [R!Dequeued EXCEPT !.open = FALSE, !.late = late]
  BY DEF R!Break
<1>2. /\ R!Dequeued \in RpcQueue /\ Len(R!Dequeued.low) <= InputCapacity /\ Len(R!Dequeued.high) <= InputCapacity
      /\ R!Dequeued.next = queue.next
  BY <1>1, RpcDequeued
<1>3. queue' \in RpcQueue /\ queue'.low = R!Dequeued.low /\ queue'.high = R!Dequeued.high /\ queue'.next = R!Dequeued.next
  BY <1>1, <1>2 DEF RpcQueue
<1>4. /\ work' \in RpcWork /\ work'.loop = "failed" /\ work'.out = work.out /\ work'.batch = work.batch
      /\ work'.back = work.back /\ work'.handler = work.handler /\ work'.inflight = work.inflight
  BY <1>1, RpcFields DEF RpcTypes, RpcWork
<1>5. RpcTypes'
  BY <1>1, <1>2, <1>3, <1>4 DEF RpcTypes
<1> QED BY <1>1, <1>2, <1>3, <1>4, <1>5

\* What collecting a signal for a batch changes.
LEMMA RpcCollectTypes ==
    ASSUME RpcTypes, R!Collect
    PROVE  /\ RpcTypes' /\ UNCHANGED <<queue, state, store, released, faults>> /\ work.out # <<>> /\ work.back = <<>>
           /\ work'.loop = work.loop /\ work'.out = Tail(work.out) /\ work'.batch = Append(work.batch, Head(work.out))
           /\ work'.back = <<>> /\ work'.handler = work.handler /\ work'.inflight = work.inflight \ ToSet(work.batch)
<1>1. /\ UNCHANGED <<queue, state, store, released, faults>> /\ work.out # <<>> /\ work.back = <<>>
      /\ Len(work.batch) < MaxBatch /\ R!ToSet(work.batch) = ToSet(work.batch)
      /\ work' = [work EXCEPT !.out = Tail(work.out), !.batch = Append(work.batch, Head(work.out)),
                              !.inflight = work.inflight \ R!ToSet(work.batch)]
  BY DEF R!Collect, RpcTypes, RpcWork, R!ToSet, ToSet
<1>2. work \in RpcWork /\ work.out \in Seq(RpcSignal) /\ work.batch \in Seq(RpcSignal)
  BY DEF RpcTypes, RpcWork
<1>3. /\ Head(work.out) \in RpcSignal /\ Tail(work.out) \in Seq(RpcSignal) /\ Len(Tail(work.out)) = Len(work.out) - 1
      /\ Len(work.out) \in Nat
  BY <1>1, <1>2, HeadTailProperties
<1>4. /\ Append(work.batch, Head(work.out)) \in Seq(RpcSignal) /\ Len(work.batch) \in Nat
      /\ Len(Append(work.batch, Head(work.out))) = Len(work.batch) + 1
  BY <1>2, <1>3
<1> DEFINE I == work.inflight \ R!ToSet(work.batch)
<1>5. I \in SUBSET RpcSignal /\ IsFiniteSet(I) /\ Cardinality(I) <= Parallel
  BY RpcFewer
<1> HIDE DEF I
<1>6. work' = [work EXCEPT !.out = Tail(work.out), !.batch = Append(work.batch, Head(work.out)), !.inflight = I]
  BY <1>1 DEF I
<1>7. /\ work' \in RpcWork /\ work'.loop = work.loop /\ work'.out = Tail(work.out)
      /\ work'.batch = Append(work.batch, Head(work.out)) /\ work'.back = work.back /\ work'.handler = work.handler
      /\ work'.inflight = I
  <2> DEFINE o == Tail(work.out)
             b == Append(work.batch, Head(work.out))
  <2>1. /\ work \in RpcWork /\ o \in Seq(RpcSignal) /\ b \in Seq(RpcSignal) /\ I \in SUBSET RpcSignal
        /\ work' = [work EXCEPT !.out = o, !.batch = b, !.inflight = I]
    BY <1>2, <1>3, <1>4, <1>5, <1>6
  <2> HIDE DEF o, b
  <2>2. /\ work' \in RpcWork /\ work'.loop = work.loop /\ work'.out = o /\ work'.batch = b /\ work'.back = work.back
        /\ work'.handler = work.handler /\ work'.inflight = I
    BY ONLY <2>1 DEF RpcWork
  <2> QED BY <2>2 DEF o, b
<1>8. Len(work'.out) <= OutputCapacity /\ Len(work'.batch) <= MaxBatch
  <2>1. Len(work.out) <= OutputCapacity /\ OutputCapacity \in Nat /\ MaxBatch \in Nat
    BY SizesAssumption DEF RpcTypes
  <2>2. Len(work'.out) <= OutputCapacity
    BY <1>3, <1>7, <2>1
  <2>3. Len(work'.batch) <= MaxBatch
    BY <1>1, <1>4, <1>7, <2>1
  <2> QED BY <2>2, <2>3
<1>9. RpcTypes'
  BY <1>1, <1>5, <1>7, <1>8 DEF RpcTypes
<1> QED BY <1>1, <1>7, <1>9 DEF I

\* What putting a message back changes.
LEMMA RpcPutBackTypes ==
    ASSUME RpcTypes, R!PutBack
    PROVE  /\ RpcTypes' /\ UNCHANGED <<state, store, faults>> /\ work.back # <<>>
           /\ work'.loop = work.loop /\ work'.out = work.out /\ work'.back = Tail(work.back) /\ work'.handler = work.handler
           /\ Len(work.back) = 1 => work'.batch = <<>> /\ work'.inflight = work.inflight \ ToSet(work.batch)
           /\ Len(work.back) # 1 => work'.batch = work.batch /\ work'.inflight = work.inflight
           /\ \/ /\ released' = released /\ queue'.high = Append(queue.high, Head(work.back)[1])
                 /\ queue'.low = queue.low /\ queue'.next = queue.next
              \/ queue' = queue /\ released' = R!Release({Last(work.batch)[1]}, "unavailable")
<1>1. /\ UNCHANGED <<state, store, faults>> /\ work.back # <<>>
      /\ R!ToSet(work.batch) = ToSet(work.batch) /\ R!Last(work.batch) = Last(work.batch)
  BY DEF R!PutBack, R!ToSet, ToSet, R!Last, Last
<1>2. work \in RpcWork /\ work.back \in Seq(RpcSignal) /\ queue \in RpcQueue /\ queue.high \in Seq(Msg)
  BY DEF RpcTypes, RpcWork, RpcQueue
<1>3. Head(work.back) \in RpcSignal /\ Tail(work.back) \in Seq(RpcSignal)
  BY <1>1, <1>2, HeadTailProperties
<1>4. Head(work.back)[1] \in Msg
  BY <1>3 DEF RpcSignal
<1> DEFINE I == work.inflight \ R!ToSet(work.batch)
<1>5. I \in SUBSET RpcSignal /\ IsFiniteSet(I) /\ Cardinality(I) <= Parallel
  BY RpcFewer
<1>6. /\ work' \in RpcWork /\ work'.loop = work.loop /\ work'.out = work.out /\ work'.back = Tail(work.back)
      /\ work'.handler = work.handler
      /\ Len(work.back) = 1 => work'.batch = <<>> /\ work'.inflight = I
      /\ Len(work.back) # 1 => work'.batch = work.batch /\ work'.inflight = work.inflight
  <2>1. CASE Len(work.back) = 1
    <3>1. work' = [work EXCEPT !.back = Tail(work.back), !.batch = <<>>, !.inflight = I]
      BY <1>2, <2>1 DEF R!PutBack, R!BatchOver, RpcWork
    <3> HIDE DEF I
    <3> QED BY <1>2, <1>3, <1>5, <2>1, <3>1, RpcFields, EmptySeq DEF RpcWork
  <2>2. CASE Len(work.back) # 1
    <3>1. work' = [work EXCEPT !.back = Tail(work.back)]
      BY <2>2 DEF R!PutBack
    <3> QED BY <1>2, <1>3, <2>2, <3>1 DEF RpcWork
  <2> QED BY <2>1, <2>2
<1>7. Len(work'.out) <= OutputCapacity /\ Len(work'.batch) <= MaxBatch /\ IsFiniteSet(work'.inflight)
      /\ Cardinality(work'.inflight) <= Parallel
  <2>1. Len(<<>>) = 0 /\ MaxBatch \in Nat
    BY SizesAssumption
  <2>2. /\ Len(work.out) <= OutputCapacity /\ Len(work.batch) <= MaxBatch /\ IsFiniteSet(work.inflight)
        /\ Cardinality(work.inflight) <= Parallel
    BY DEF RpcTypes
  <2> HIDE DEF I
  <2>3. CASE Len(work.back) = 1
    BY <1>5, <1>6, <2>1, <2>2, <2>3
  <2>4. CASE Len(work.back) # 1
    BY <1>6, <2>2, <2>4
  <2> QED BY <2>3, <2>4
<1>8. /\ \/ /\ released' = released /\ queue'.high = Append(queue.high, Head(work.back)[1])
            /\ queue'.low = queue.low /\ queue'.next = queue.next
         \/ queue' = queue /\ released' = R!Release({Last(work.batch)[1]}, "unavailable")
      /\ queue' \in RpcQueue /\ Len(queue'.low) <= InputCapacity /\ Len(queue'.high) <= InputCapacity
      /\ released' \in [Msg -> RpcHows]
  <2>1. CASE R!HasPlace(queue.high)
    <3>1. queue' = [queue EXCEPT !.high = Append(queue.high, Head(work.back)[1])] /\ released' = released
      BY <2>1 DEF R!PutBack
    <3>2. /\ Append(queue.high, Head(work.back)[1]) \in Seq(Msg) /\ Len(queue.high) \in Nat
          /\ Len(Append(queue.high, Head(work.back)[1])) = Len(queue.high) + 1
      BY <1>2, <1>4
    <3>3. /\ queue' \in RpcQueue /\ queue'.high = Append(queue.high, Head(work.back)[1])
          /\ queue'.low = queue.low /\ queue'.next = queue.next
      BY <1>2, <3>1, <3>2 DEF RpcQueue
    <3>4. Len(queue'.high) <= InputCapacity
      BY <2>1, <3>2, <3>3, SizesAssumption DEF R!HasPlace
    <3> QED BY <3>1, <3>3, <3>4 DEF RpcTypes
  <2>2. CASE ~R!HasPlace(queue.high)
    <3>1. queue' = queue /\ released' = R!Release({Last(work.batch)[1]}, "unavailable")
      BY <1>1, <2>2 DEF R!PutBack
    <3>2. "unavailable" \in RpcHows
      BY RpcFields
    <3>3. released' \in [Msg -> RpcHows]
      BY <3>1, <3>2, RpcReleases
    <3> QED BY <3>1, <3>3 DEF RpcTypes
  <2> QED BY <2>1, <2>2
<1>9. RpcTypes'
  BY <1>1, <1>6, <1>7, <1>8 DEF RpcTypes
<1> QED BY <1>1, <1>6, <1>8, <1>9

\* The first n contexts of the batch are stored.
LEMMA RpcSinks ==
    ASSUME RpcTypes, R!Sink
    PROVE  \E n \in 0 .. Len(work.batch), t \in Seq(Msg) :
             /\ work.back = <<>> /\ work.batch # <<>> /\ RpcTypes' /\ UNCHANGED <<queue, faults>>
             /\ Len(t) = n /\ DOMAIN t = 1 .. n /\ \A i \in 1 .. n : t[i] = work.batch[i][1] /\ R!Good(i)
             /\ store' = store \o t
             /\ \A x \in Msg : released'[x] = IF x \in ToSet(t) THEN "ok" ELSE released[x]
             /\ \A x \in Msg : /\ work'.handler[x].base = work.handler[x].base /\ work'.handler[x].try = work.handler[x].try
                               /\ x \in ToSet(t) => work'.handler[x].pc = "over" /\ ~work'.handler[x].current
                               /\ x \notin ToSet(t) => work'.handler[x].pc = work.handler[x].pc
             /\ work'.loop = work.loop /\ work'.out = work.out
             /\ n = Len(work.batch) =>
                  /\ work'.batch = <<>> /\ work'.back = <<>> /\ work'.inflight = work.inflight \ ToSet(work.batch)
                  /\ state' = state
                  /\ \A x \in Msg : x \notin ToSet(t) => work'.handler[x].current = work.handler[x].current
             /\ n # Len(work.batch) =>
                  /\ work'.batch = work.batch /\ work'.back = SubSeq(work.batch, n + 1, Len(work.batch))
                  /\ work'.inflight = work.inflight /\ state'.held = <<>>
                  /\ \A x \in Msg : ~work'.handler[x].current
<1> DEFINE N == Len(work.batch)
           K == {k \in 0 .. N : \A i \in 1 .. k : R!Good(i)}
           n == R!Max(K)
           s == SubSeq(work.batch, 1, n)
           bad == SubSeq(work.batch, n + 1, N)
           t == R!MsgsOf(s)
           good == R!ToSet(t)
<1>1. /\ work \in RpcWork /\ work.batch \in Seq(RpcSignal) /\ work.handler \in [Msg -> RpcHandler] /\ N \in Nat
      /\ store \in Seq(Event) /\ N <= MaxBatch
  BY DEF RpcTypes, RpcWork
<1>2. n \in 0 .. N /\ \A i \in 1 .. n : R!Good(i)
  <2>1. K \in SUBSET Nat /\ (\A k \in K : k <= N) /\ 0 \in K
    BY <1>1
  <2>2. Max(K) \in K
    <3> HIDE DEF K
    <3> QED BY <1>1, <2>1, MaxProperties
  <2>3. n = Max(K)
    BY DEF R!Max, Max
  <2> QED BY <2>2, <2>3
<1>3. /\ UNCHANGED <<queue, faults>> /\ work.batch # <<>> /\ work.back = <<>>
      /\ store' = store \o t /\ released' = R!Release(good, "ok")
      /\ state' = IF bad = <<>> THEN state ELSE [cached |-> FALSE, held |-> R!NoState]
  BY DEF R!Sink
<1> DEFINE done == [work EXCEPT !.back = bad, !.handler = [m \in R!Msg |->
                      IF m \in good THEN [work.handler[m] EXCEPT !.pc = "over", !.current = FALSE] ELSE work.handler[m]]]
<1>4. work' = IF bad = <<>> THEN R!BatchOver(done) ELSE R!EpochOver(done)
  BY <1>1 DEF R!Sink, RpcWork
<1> HIDE DEF n, K
<1>5. /\ s \in Seq(RpcSignal) /\ Len(s) = n /\ DOMAIN s = 1 .. n /\ \A i \in 1 .. n : s[i] = work.batch[i]
      /\ bad \in Seq(RpcSignal) /\ Len(bad) = N - n
  BY <1>1, <1>2
<1>6. t \in Seq(Msg) /\ Len(t) = n /\ DOMAIN t = 1 .. n /\ \A i \in 1 .. n : t[i] = work.batch[i][1]
  <2>1. t = [i \in 1 .. n |-> s[i][1]]
    BY <1>5 DEF R!MsgsOf
  <2>2. \A i \in 1 .. n : s[i] \in RpcSignal /\ s[i][1] \in Msg
    BY <1>5 DEF RpcSignal
  <2> HIDE DEF s, t
  <2>3. t \in [1 .. n -> Msg] /\ n \in Nat
    BY <1>2, <2>1, <2>2
  <2> QED BY <1>5, <2>1, <2>3
<1>7. bad = <<>> <=> n = N
  <2>1. bad = <<>> <=> Len(bad) = 0
    BY <1>5, EmptySeq
  <2> QED BY <1>1, <1>2, <1>5, <2>1
<1>8. good = ToSet(t)
  BY DEF R!ToSet, ToSet
<1> HIDE DEF t, good, bad, s
<1> DEFINE H == [m \in Msg |-> IF m \in good THEN [work.handler[m] EXCEPT !.pc = "over", !.current = FALSE] ELSE work.handler[m]]
           G == [m \in Msg |-> [H[m] EXCEPT !.current = FALSE]]
           I == work.inflight \ ToSet(work.batch)
<1>9. done = [work EXCEPT !.back = bad, !.handler = H]
  BY RpcFields
<1>10. /\ H \in [Msg -> RpcHandler]
       /\ \A x \in Msg : /\ H[x].base = work.handler[x].base /\ H[x].try = work.handler[x].try
                         /\ x \in good => H[x].pc = "over" /\ ~H[x].current
                         /\ x \notin good => H[x] = work.handler[x]
  <2>1. \A x \in Msg : LET h == [work.handler[x] EXCEPT !.pc = "over", !.current = FALSE]
                       IN h \in RpcHandler /\ h.base = work.handler[x].base /\ h.try = work.handler[x].try
                          /\ h.pc = "over" /\ ~h.current
    BY <1>1, RpcFields DEF RpcHandler
  <2> QED BY Zenon, <1>1, <2>1
<1> HIDE DEF H
<1>11. /\ G \in [Msg -> RpcHandler]
       /\ \A x \in Msg : G[x].base = H[x].base /\ G[x].try = H[x].try /\ G[x].pc = H[x].pc /\ ~G[x].current
  <2>1. \A x \in Msg : LET h == [H[x] EXCEPT !.current = FALSE]
                       IN h \in RpcHandler /\ h.base = H[x].base /\ h.try = H[x].try /\ h.pc = H[x].pc /\ ~h.current
    BY <1>10 DEF RpcHandler
  <2> QED BY <2>1
<1>12. released' \in [Msg -> RpcHows] /\ \A x \in Msg : released'[x] = IF x \in good THEN "ok" ELSE released[x]
  <2>1. "ok" \in RpcHows
    BY RpcFields
  <2> QED BY <1>3, <2>1, RpcReleases
<1>13. store' \in Seq(Event)
  <2>1. t \in Seq(Event)
    BY <1>6 DEF Event
  <2> QED BY <1>1, <1>3, <2>1, ConcatElements
<1>14. I \in SUBSET RpcSignal /\ IsFiniteSet(I) /\ Cardinality(I) <= Parallel
  BY RpcFewer
<1>15. /\ queue \in RpcQueue /\ Len(queue.low) <= InputCapacity /\ Len(queue.high) <= InputCapacity
       /\ Len(work.out) <= OutputCapacity /\ Len(work.batch) <= MaxBatch
       /\ IsFiniteSet(work.inflight) /\ Cardinality(work.inflight) <= Parallel
       /\ state \in RpcState /\ faults \in Nat /\ Len(<<>>) = 0 /\ MaxBatch \in Nat
  BY SizesAssumption DEF RpcTypes
<1>18. \A x \in Msg : released'[x] = IF x \in ToSet(t) THEN "ok" ELSE released[x]
  BY <1>8, <1>12
<1>16. CASE n = N
  <2>1. work' = [work EXCEPT !.back = <<>>, !.handler = H, !.batch = <<>>, !.inflight = I]
    <3>1. work' = R!BatchOver(done) /\ bad = <<>>
      BY <1>4, <1>7, <1>16
    <3>2. R!ToSet(work.batch) = ToSet(work.batch)
      BY DEF R!ToSet, ToSet
    <3>3. work' = [done EXCEPT !.batch = <<>>, !.inflight = done.inflight \ ToSet(work.batch)]
      BY <1>1, <1>9, <3>1, <3>2 DEF R!BatchOver, RpcWork
    <3>4. done = [work EXCEPT !.back = <<>>, !.handler = H]
      BY <1>9, <3>1
    <3> HIDE DEF done
    <3> QED BY <1>1, <3>3, <3>4 DEF RpcWork
  <2> HIDE DEF I, G
  <2>2. /\ work' \in RpcWork /\ work'.handler = H /\ work'.batch = <<>> /\ work'.back = <<>> /\ work'.inflight = I
        /\ work'.loop = work.loop /\ work'.out = work.out
    BY <1>1, <1>10, <1>14, <2>1, RpcFields, EmptySeq DEF RpcWork
  <2>3. state' = state
    BY <1>3, <1>7, <1>16
  <2>4. RpcTypes'
    <3>1. Len(work'.batch) = 0 /\ 0 <= MaxBatch
      BY <1>15, <2>2
    <3>2. work' \in RpcWork /\ Len(work'.out) <= OutputCapacity /\ Len(work'.batch) <= MaxBatch
      BY <1>15, <2>2, <3>1
    <3>3. IsFiniteSet(work'.inflight) /\ Cardinality(work'.inflight) <= Parallel
      BY <1>14, <2>2
    <3>4. queue' \in RpcQueue /\ Len(queue'.low) <= InputCapacity /\ Len(queue'.high) <= InputCapacity
      BY <1>3, <1>15
    <3>5. state' \in RpcState /\ store' \in Seq(Event) /\ released' \in [Msg -> RpcHows] /\ faults' \in Nat
      BY <1>3, <1>12, <1>13, <1>15, <2>3
    <3> QED BY <3>2, <3>3, <3>4, <3>5 DEF RpcTypes
  <2>5. work'.inflight = work.inflight \ ToSet(work.batch)
    BY <2>2 DEF I
  <2>6. \A x \in Msg : x \notin ToSet(t) => work'.handler[x].current = work.handler[x].current
    BY <1>8, <1>10, <2>2
  <2>7. \A x \in Msg : /\ work'.handler[x].base = work.handler[x].base /\ work'.handler[x].try = work.handler[x].try
                       /\ x \in ToSet(t) => work'.handler[x].pc = "over" /\ ~work'.handler[x].current
                       /\ x \notin ToSet(t) => work'.handler[x].pc = work.handler[x].pc
    BY <1>8, <1>10, <2>2
  <2> n \in 0 .. Len(work.batch) /\ t \in Seq(Msg)
    BY <1>2, <1>6
  <2> WITNESS n \in 0 .. Len(work.batch), t \in Seq(Msg)
  <2> QED BY <1>2, <1>3, <1>6, <1>16, <1>18, <2>2, <2>3, <2>4, <2>5, <2>6, <2>7
<1>17. CASE n # N
  <2>1. work' = [work EXCEPT !.back = bad, !.handler = G]
    <3>1. work' = R!EpochOver(done)
      BY <1>4, <1>7, <1>17
    <3>2. done.handler = H
      BY Zenon, <1>1, <1>9 DEF RpcWork
    <3>3. work' = [done EXCEPT !.handler = G]
      BY Zenon, <1>1, <1>9, <3>1, <3>2, RpcFields DEF R!EpochOver, RpcWork
    <3> HIDE DEF G
    <3> QED BY <1>1, <1>9, <3>3 DEF RpcWork
  <2> HIDE DEF I, G
  <2>2. /\ work' \in RpcWork /\ work'.handler = G /\ work'.batch = work.batch /\ work'.back = bad
        /\ work'.inflight = work.inflight /\ work'.loop = work.loop /\ work'.out = work.out
    BY <1>1, <1>5, <1>11, <2>1 DEF RpcWork
  <2>3. state' \in RpcState /\ state'.held = <<>>
    <3>1. state' = [cached |-> FALSE, held |-> <<>>]
      BY <1>3, <1>7, <1>17, RpcFields
    <3> QED BY <3>1, RpcFields DEF RpcState
  <2>4. RpcTypes'
    <3>2. work' \in RpcWork /\ Len(work'.out) <= OutputCapacity /\ Len(work'.batch) <= MaxBatch
      BY <1>15, <2>2
    <3>3. IsFiniteSet(work'.inflight) /\ Cardinality(work'.inflight) <= Parallel
      BY <1>15, <2>2
    <3>4. queue' \in RpcQueue /\ Len(queue'.low) <= InputCapacity /\ Len(queue'.high) <= InputCapacity
      BY <1>3, <1>15
    <3>5. state' \in RpcState /\ store' \in Seq(Event) /\ released' \in [Msg -> RpcHows] /\ faults' \in Nat
      BY <1>3, <1>12, <1>13, <1>15, <2>3
    <3> QED BY <3>2, <3>3, <3>4, <3>5 DEF RpcTypes
  <2>6. \A x \in Msg : ~work'.handler[x].current
    BY <1>11, <2>2
  <2>7. \A x \in Msg : /\ work'.handler[x].base = work.handler[x].base /\ work'.handler[x].try = work.handler[x].try
                       /\ x \in ToSet(t) => work'.handler[x].pc = "over" /\ ~work'.handler[x].current
                       /\ x \notin ToSet(t) => work'.handler[x].pc = work.handler[x].pc
    BY <1>8, <1>10, <1>11, <2>2
  <2>8. work'.back = SubSeq(work.batch, n + 1, Len(work.batch))
    BY <2>2 DEF bad
  <2> n \in 0 .. Len(work.batch) /\ t \in Seq(Msg)
    BY <1>2, <1>6
  <2> WITNESS n \in 0 .. Len(work.batch), t \in Seq(Msg)
  <2> QED BY <1>2, <1>3, <1>6, <1>17, <1>18, <2>2, <2>3, <2>4, <2>6, <2>7, <2>8
<1> QED BY <1>16, <1>17

\* A message is received.
LEMMA RpcReceive ==
    ASSUME RpcInv, R!Receive
    PROVE  RpcInv'
<1> DEFINE m == queue.next
<1>1. /\ RpcTypes' /\ UNCHANGED <<work, state, store, faults>> /\ m \in Msg /\ m \in Nat
      /\ queue'.next = m + 1 /\ queue'.high = queue.high
      /\ \/ queue'.low = Append(queue.low, m) /\ released' = released
         \/ /\ queue'.low = queue.low /\ released'[m] = "unavailable"
            /\ \A x \in Msg : x # m => released'[x] = released[x]
  BY RpcReceiveTypes, RpcFields DEF RpcInv
<1>2. Line' = Line /\ queue.low \in Seq(Msg)
  BY <1>1 DEF Line, LineOf, Awaiting, RpcInv, RpcTypes, RpcQueue
<1>3. work.handler[m].pc = "none"
  BY <1>1 DEF RpcInv, RpcQueued
<1> HIDE DEF m
<1>4. RpcLine'
  BY <1>1, <1>2 DEF RpcInv, RpcLine
<1>5. RpcQueued'
  <2>1. \A p \in DOMAIN queue'.low : \/ p \in DOMAIN queue.low /\ queue'.low[p] = queue.low[p]
                                     \/ p = Len(queue.low) + 1 /\ queue'.low[p] = m
    <3>1. CASE queue'.low = Append(queue.low, m)
      BY SMTT(30), <1>1, <1>2, <3>1
    <3>2. CASE queue'.low = queue.low
      BY <3>2
    <3> QED BY <1>1, <3>1, <3>2
  <2>2. \A p \in DOMAIN queue.low : queue.low[p] \in Msg /\ queue.low[p] < m
    BY <1>2 DEF RpcInv, RpcQueued, m
  <2>3. \A p \in DOMAIN queue'.low : /\ work.handler[queue'.low[p]].pc = "none" /\ queue'.low[p] < m + 1
                                     /\ \A q \in DOMAIN queue'.low : queue'.low[p] = queue'.low[q] => p = q
    <3>1. \A x \in Msg : x < m => x < m + 1 /\ x # m
      BY <1>1, RpcFields
    <3>2. m < m + 1
      BY <1>1
    <3> QED BY <1>3, <2>1, <2>2, <3>1, <3>2 DEF RpcInv, RpcQueued
  <2>4. \A x \in Msg : x >= m + 1 => work.handler[x].pc = "none"
    <3>1. \A x \in Msg : x >= m + 1 => x >= m
      BY <1>1, RpcFields
    <3> QED BY <3>1 DEF RpcInv, RpcQueued, m
  <2> QED BY <1>1, <1>2, <2>3, <2>4 DEF RpcInv, RpcQueued
<1>6. RpcSignals'
  BY <1>1, <1>2 DEF RpcInv, RpcSignals, UnderWay
<1>7. RpcBuilt'
  <2>1. \A n : Pending(n)' = Pending(n)
    BY <1>1, <1>2 DEF Pending, PendingOf
  <2> QED BY <1>1, <1>2, <2>1 DEF RpcInv, RpcBuilt
<1>8. RpcStored'
  BY <1>1, <1>3 DEF RpcInv, RpcStored, Bases
<1> QED BY <1>1, <1>4, <1>5, <1>6, <1>7, <1>8 DEF RpcInv

\* The message that is dequeued waited for it, and nowhere else.
LEMMA RpcDequeues ==
    ASSUME RpcInv, queue.high \o queue.low # <<>>
    PROVE  LET m == R!NextMessage
           IN /\ m \in Msg /\ ~(m >= queue.next) /\ work.handler[m].pc = (IF queue.high # <<>> THEN "out" ELSE "none")
              /\ \A q \in DOMAIN Line : Line[q][1] # m
              /\ \A p \in DOMAIN R!Dequeued.high : /\ R!Dequeued.high[p] # m
                                                   /\ \E q \in DOMAIN queue.high : R!Dequeued.high[p] = queue.high[q]
              /\ \A p \in DOMAIN R!Dequeued.low : /\ R!Dequeued.low[p] # m
                                                  /\ \E q \in DOMAIN queue.low : R!Dequeued.low[p] = queue.low[q]
              /\ \A p, q \in DOMAIN R!Dequeued.high : R!Dequeued.high[p] = R!Dequeued.high[q] => p = q
              /\ \A p, q \in DOMAIN R!Dequeued.low : R!Dequeued.low[p] = R!Dequeued.low[q] => p = q
              /\ \A x \in ToSet(queue.high) : x # m => x \in ToSet(R!Dequeued.high)
<1> DEFINE m == R!NextMessage
           dh == R!Dequeued.high
           dl == R!Dequeued.low
<1>1. /\ m \in Msg /\ m \in Nat /\ queue.next \in Nat
      /\ \/ queue.high # <<>> /\ m = Head(queue.high) /\ dh = Tail(queue.high) /\ dl = queue.low
         \/ queue.high = <<>> /\ queue.low # <<>> /\ m = Head(queue.low) /\ dl = Tail(queue.low) /\ dh = queue.high
  <2>1. queue.next \in Nat
    BY SizesAssumption DEF RpcInv, RpcTypes, RpcQueue, RpcNumbers
  <2> QED BY <2>1, RpcDequeued, RpcFields DEF RpcInv
<1>2. queue.high \in Seq(Msg) /\ queue.low \in Seq(Msg)
  BY DEF RpcInv, RpcTypes, RpcQueue
<1>3. \A s \in Seq(Msg) : s # <<>> =>
        /\ Head(s) = s[1] /\ 1 \in DOMAIN s
        /\ \A p \in DOMAIN Tail(s) : p + 1 \in DOMAIN s /\ Tail(s)[p] = s[p + 1] /\ p \in Nat
        /\ \A p \in DOMAIN s : p = 1 \/ (p - 1 \in DOMAIN Tail(s) /\ Tail(s)[p - 1] = s[p])
  <2>1. TAKE s \in Seq(Msg)
  <2>2. HAVE s # <<>>
  <2>3. /\ Len(s) \in Nat \ {0} /\ DOMAIN s = 1 .. Len(s) /\ Tail(s) \in Seq(Msg) /\ Len(Tail(s)) = Len(s) - 1
        /\ \A p \in 1 .. Len(Tail(s)) : Tail(s)[p] = s[p + 1]
    BY <2>2, EmptySeq, HeadTailProperties
  <2>4. DOMAIN Tail(s) = 1 .. Len(s) - 1
    BY <2>3
  <2>5. \A p \in 1 .. Len(s) : p = 1 \/ (p - 1 \in 1 .. Len(s) - 1 /\ (p - 1) + 1 = p)
    BY <2>3
  <2>6. Head(s) = s[1]
    OBVIOUS
  <2>7. \A p \in DOMAIN s : p = 1 \/ (p - 1 \in DOMAIN Tail(s) /\ Tail(s)[p - 1] = s[p])
    BY <2>3, <2>4, <2>5
  <2>8. \A p \in DOMAIN Tail(s) : p + 1 \in DOMAIN s /\ Tail(s)[p] = s[p + 1] /\ p \in Nat
    BY <2>3, <2>4
  <2> QED BY <2>3, <2>6, <2>7, <2>8
<1>4. \A a, b \in Nat : a + 1 = b + 1 => a = b
  OBVIOUS
<1>5. \A a \in Nat : a + 1 # 1 \/ a = 0
  OBVIOUS
<1>6. \A s \in Seq(Msg) : \A p \in DOMAIN Tail(s) : s # <<>> => p # 0
  BY HeadTailProperties
<1> HIDE DEF m, dh, dl
<1>7. ASSUME NEW s \in Seq(Msg), s # <<>>, \A p, q \in DOMAIN s : s[p] = s[q] => p = q
      PROVE  /\ \A p \in DOMAIN Tail(s) : Tail(s)[p] # Head(s) /\ \E q \in DOMAIN s : Tail(s)[p] = s[q]
             /\ \A p, q \in DOMAIN Tail(s) : Tail(s)[p] = Tail(s)[q] => p = q
             /\ \A x \in ToSet(s) : x # Head(s) => x \in ToSet(Tail(s))
  <2>1. \A p \in DOMAIN Tail(s) : Tail(s)[p] # Head(s) /\ \E q \in DOMAIN s : Tail(s)[p] = s[q]
    BY <1>3, <1>5, <1>6, <1>7
  <2>2. \A p, q \in DOMAIN Tail(s) : Tail(s)[p] = Tail(s)[q] => p = q
    BY <1>3, <1>4, <1>7
  <2>3. \A x \in ToSet(s) : x # Head(s) => x \in ToSet(Tail(s))
    <3>1. SUFFICES ASSUME NEW p \in DOMAIN s, s[p] # Head(s)
                   PROVE  s[p] \in ToSet(Tail(s))
      BY DEF ToSet
    <3>2. p - 1 \in DOMAIN Tail(s) /\ Tail(s)[p - 1] = s[p]
      BY <1>3, <1>7, <3>1
    <3> HIDE <1>3
    <3> QED BY <3>2 DEF ToSet
  <2> QED BY <2>1, <2>2, <2>3
<1>8. /\ \A p, q \in DOMAIN queue.high : queue.high[p] = queue.high[q] => p = q
      /\ \A p, q \in DOMAIN queue.low : queue.low[p] = queue.low[q] => p = q
      /\ \A p \in DOMAIN queue.high : work.handler[queue.high[p]].pc = "out" /\ queue.high[p] \in Msg
      /\ \A p \in DOMAIN queue.low : work.handler[queue.low[p]].pc = "none" /\ queue.low[p] < queue.next
      /\ \A p \in DOMAIN queue.high, q \in DOMAIN Line : queue.high[p] # Line[q][1]
      /\ \A q \in DOMAIN Line : work.handler[Line[q][1]].pc = "out"
      /\ \A x \in Msg : x >= queue.next => work.handler[x].pc = "none"
  BY <1>2 DEF RpcInv, RpcQueued, RpcLine
<1>9. CASE queue.high # <<>> /\ m = Head(queue.high) /\ dh = Tail(queue.high) /\ dl = queue.low
  <2>1. m = queue.high[1] /\ 1 \in DOMAIN queue.high
    BY <1>2, <1>3, <1>9
  <2>2. work.handler[m].pc = "out" /\ ~(m >= queue.next) /\ \A q \in DOMAIN Line : Line[q][1] # m
    BY <1>1, <1>8, <2>1
  <2>3. \A p \in DOMAIN dl : dl[p] # m
    BY <1>8, <1>9, <2>2
  <2>4. /\ \A p \in DOMAIN dh : dh[p] # m /\ \E q \in DOMAIN queue.high : dh[p] = queue.high[q]
        /\ \A p, q \in DOMAIN dh : dh[p] = dh[q] => p = q
        /\ \A x \in ToSet(queue.high) : x # m => x \in ToSet(dh)
    BY <1>2, <1>7, <1>8, <1>9
  <2> QED BY <1>1, <1>8, <1>9, <2>2, <2>3, <2>4 DEF m, dh, dl
<1>10. CASE queue.high = <<>> /\ queue.low # <<>> /\ m = Head(queue.low) /\ dl = Tail(queue.low) /\ dh = queue.high
  <2>1. m = queue.low[1] /\ 1 \in DOMAIN queue.low
    BY <1>2, <1>3, <1>10
  <2>2. work.handler[m].pc = "none" /\ ~(m >= queue.next) /\ \A q \in DOMAIN Line : Line[q][1] # m
    BY <1>1, <1>8, <2>1
  <2>3. \A p \in DOMAIN dh : dh[p] # m
    BY <1>8, <1>10, <2>2
  <2>4. /\ \A p \in DOMAIN dl : dl[p] # m /\ \E q \in DOMAIN queue.low : dl[p] = queue.low[q]
        /\ \A p, q \in DOMAIN dl : dl[p] = dl[q] => p = q
    BY <1>2, <1>7, <1>8, <1>10
  <2>5. \A x \in ToSet(queue.high) : x \in ToSet(dh)
    BY <1>10
  <2> QED BY <1>1, <1>8, <1>10, <2>2, <2>3, <2>4, <2>5 DEF m, dh, dl
<1> QED BY <1>1, <1>9, <1>10

\* A message is dequeued and its handler starts.
LEMMA RpcDequeue ==
    ASSUME RpcInv, R!Dequeue
    PROVE  RpcInv'
<1> DEFINE m == R!NextMessage
           dh == R!Dequeued.high
           dl == R!Dequeued.low
           h == work'.handler[m]
<1>1. /\ RpcTypes' /\ UNCHANGED <<state, store, released, faults>> /\ queue.high \o queue.low # <<>>
      /\ work.loop = "next" /\ work'.loop = work.loop /\ work'.out = work.out /\ work'.batch = work.batch
      /\ work'.back = work.back /\ h.pc \in {"sleep", "get"}
      /\ \A x \in Msg : x # m => work'.handler[x] = work.handler[x]
      /\ queue.high # <<>> => h.try # work.handler[m].try
      /\ work'.inflight = work.inflight \cup {<<m, h.try>>}
      /\ queue'.high = dh /\ queue'.low = dl
  BY RpcDequeueTypes DEF RpcInv
<1>2. queue'.next = queue.next
  BY <1>1, RpcDequeueTypes, RpcDequeued DEF RpcInv
<1>3. /\ m \in Msg /\ ~(m >= queue.next) /\ work.handler[m].pc = (IF queue.high # <<>> THEN "out" ELSE "none")
      /\ \A q \in DOMAIN Line : Line[q][1] # m
      /\ \A p \in DOMAIN dh : dh[p] # m /\ \E q \in DOMAIN queue.high : dh[p] = queue.high[q]
      /\ \A p \in DOMAIN dl : dl[p] # m /\ \E q \in DOMAIN queue.low : dl[p] = queue.low[q]
      /\ \A p, q \in DOMAIN dh : dh[p] = dh[q] => p = q
      /\ \A p, q \in DOMAIN dl : dl[p] = dl[q] => p = q
      /\ \A x \in ToSet(queue.high) : x # m => x \in ToSet(dh)
  BY <1>1, RpcDequeues
<1>4. Line' = Line
  BY <1>1 DEF Line, LineOf, Awaiting
<1>5. work \in RpcWork /\ queue.high \in Seq(Msg) /\ queue.low \in Seq(Msg)
  BY DEF RpcInv, RpcTypes, RpcQueue
<1> HIDE DEF m, dh, dl, h
<1>6. \A p \in DOMAIN Line : Line[p][1] \in Msg /\ Line[p][1] # m /\ work'.handler[Line[p][1]] = work.handler[Line[p][1]]
  BY <1>1, <1>3, <1>5, LineTypes DEF Line
<1>7. RpcLine'
  <2>1. \A p \in DOMAIN Line : /\ work'.handler[Line[p][1]].pc = "out"
                               /\ Line[p] = <<Line[p][1], work'.handler[Line[p][1]].try>>
    BY <1>6 DEF RpcInv, RpcLine
  <2>2. work.back # <<>> => \A p \in DOMAIN work.back : ~work'.handler[work.back[p][1]].current
    <3>1. SUFFICES ASSUME work.back # <<>>, NEW p \in DOMAIN work.back
                   PROVE  ~work'.handler[work.back[p][1]].current
      OBVIOUS
    <3>2. p \in DOMAIN Line /\ Line[p] = work.back[p]
      BY <1>5, <3>1, LinePlaces
    <3>3. work'.handler[work.back[p][1]] = work.handler[work.back[p][1]]
      BY <1>6, <3>2
    <3> QED BY <3>1, <3>3 DEF RpcInv, RpcLine
  <2> QED BY <1>1, <1>4, <2>1, <2>2 DEF RpcInv, RpcLine
<1>8. RpcQueued'
  <2>1. \A p \in DOMAIN dh : /\ work'.handler[dh[p]].pc = "out" /\ \A q \in DOMAIN Line : dh[p] # Line[q][1]
    <3>1. TAKE p \in DOMAIN dh
    <3>2. PICK q \in DOMAIN queue.high : dh[p] = queue.high[q]
      BY <1>3
    <3>3. dh[p] \in Msg /\ dh[p] # m
      BY <1>3, <1>5, <3>2
    <3>4. work'.handler[dh[p]] = work.handler[queue.high[q]]
      BY <1>1, <3>2, <3>3
    <3> QED BY <3>2, <3>4 DEF RpcInv, RpcQueued
  <2>2. \A p \in DOMAIN dl : work'.handler[dl[p]].pc = "none" /\ dl[p] < queue.next
    <3>1. TAKE p \in DOMAIN dl
    <3>2. PICK q \in DOMAIN queue.low : dl[p] = queue.low[q]
      BY <1>3
    <3>3. dl[p] \in Msg /\ dl[p] # m
      BY <1>3, <1>5, <3>2
    <3>4. work'.handler[dl[p]] = work.handler[queue.low[q]]
      BY <1>1, <3>2, <3>3
    <3> QED BY <3>2, <3>4 DEF RpcInv, RpcQueued
  <2>3. \A x \in Msg : x >= queue.next => work'.handler[x].pc = "none"
    BY <1>1, <1>3 DEF RpcInv, RpcQueued
  <2>4. \A x \in Msg : work'.handler[x].pc # "wait"
    BY <1>1 DEF RpcInv, RpcQueued, h
  <2> QED BY <1>1, <1>2, <1>3, <1>4, <2>1, <2>2, <2>3, <2>4 DEF RpcQueued
<1>9. RpcSignals'
  <2>1. \A p \in DOMAIN work.out : work.out[p] \in work'.inflight
    BY <1>1 DEF RpcInv, RpcSignals
  <2>2. \A x \in Msg : UnderWay(x)' => <<x, work'.handler[x].try>> \in work'.inflight
    <3>1. TAKE x \in Msg
    <3>2. CASE x = m
      BY <1>1, <3>2 DEF h
    <3>3. CASE x # m
      BY <1>1, <3>3 DEF RpcInv, RpcSignals, UnderWay
    <3> QED BY <3>2, <3>3
  <2>3. ASSUME work.back # <<>>, NEW i \in 1 .. Len(work.batch) - Len(work.back)
        PROVE  LET x == work.batch[i][1]
                   s == <<x, work'.handler[x].try>>
               IN /\ work'.handler[x].pc # "none" /\ (x \in ToSet(dh) => work.batch[i] = s)
                  /\ AtRest(work', Line, x) \/ work.batch[i] # s
    <3> DEFINE x == work.batch[i][1]
    <3>1. x \in Msg
      BY <1>5, LinePlaces
    <3>2. /\ work.handler[x].pc # "none" /\ (x \in ToSet(queue.high) => work.batch[i] = <<x, work.handler[x].try>>)
          /\ AtRest(work, Line, x) \/ work.batch[i] # <<x, work.handler[x].try>>
      BY <1>1, <2>3 DEF RpcInv, RpcSignals
    <3>3. m \notin ToSet(dh) /\ ToSet(dh) \subseteq ToSet(queue.high)
      BY <1>3 DEF ToSet
    <3> HIDE DEF x
    <3>4. CASE x = m
      <4>1. queue.high # <<>> /\ work.handler[m].pc = "out"
        BY <1>3, <3>2, <3>4
      <4>2. m \in ToSet(queue.high)
        <5>1. m = Head(queue.high)
          BY <4>1 DEF m, R!NextMessage
        <5>2. Head(queue.high) = queue.high[1] /\ 1 \in DOMAIN queue.high
          BY <1>5, <4>1
        <5> QED BY <5>1, <5>2 DEF ToSet
      <4>3. work.batch[i] # <<m, h.try>> /\ h.pc # "none"
        BY <1>1, <3>2, <3>4, <4>1, <4>2
      <4> QED BY <3>3, <3>4, <4>3 DEF x, h
    <3>5. CASE x # m
      <4>1. work'.handler[x] = work.handler[x] /\ (x \in ToSet(queue.high) <=> x \in ToSet(dh))
        BY <1>1, <1>3, <3>1, <3>3, <3>5
      <4> QED BY <3>2, <4>1 DEF x, AtRest
    <3> QED BY <3>4, <3>5
  <2> QED BY <1>1, <1>4, <2>1, <2>2, <2>3 DEF RpcSignals
<1>10. RpcBuilt'
  <2>1. Pending(Len(Line))' = Pending(Len(Line)) /\ \A p \in DOMAIN Line : Pending(p - 1)' = Pending(p - 1)
    BY <1>4, <1>6 DEF Pending, PendingOf
  <2>2. \A x \in Msg : work'.handler[x].pc \in {"loaded", "handle"} => work'.handler[x] = work.handler[x]
    BY <1>1 DEF h
  <2> QED BY <1>1, <1>4, <1>6, <2>1, <2>2 DEF RpcInv, RpcBuilt
<1>11. RpcStored'
  <2>1. m \notin ToSet(store) /\ h.pc # "over" /\ store \in Seq(Event)
    BY <1>1, <1>3 DEF RpcInv, RpcStored, RpcTypes
  <2>2. \A i \in DOMAIN store : store[i] # 0 => store[i] \in Msg /\ store[i] # m
    BY <2>1 DEF ToSet, Event
  <2>3. StoredOn(store, Bases)'
    <3>1. \A i \in DOMAIN store : store[i] # 0 => Bases'[store[i]] = Bases[store[i]]
      BY <1>1, <2>2 DEF Bases
    <3>2. StoredOn(store, Bases)
      BY DEF RpcInv, RpcStored
    <3> QED BY <1>1, <3>1, <3>2 DEF StoredOn
  <2>4. \A x \in Msg : x \in ToSet(store) <=> work'.handler[x].pc = "over"
    BY <1>1, <2>1 DEF RpcInv, RpcStored, h
  <2> QED BY <1>1, <2>3, <2>4 DEF RpcInv, RpcStored
<1> QED BY <1>1, <1>7, <1>8, <1>9, <1>10, <1>11 DEF RpcInv

\* A failed loop drops the message it dequeued.
LEMMA RpcBreak ==
    ASSUME RpcInv, R!Break
    PROVE  RpcInv'
<1> DEFINE m == R!NextMessage
           dh == R!Dequeued.high
           dl == R!Dequeued.low
<1>1. /\ RpcTypes' /\ UNCHANGED <<state, store, released, faults>> /\ queue.high \o queue.low # <<>>
      /\ queue'.low = dl /\ queue'.high = dh /\ queue'.next = queue.next
      /\ work'.loop = "failed" /\ work'.out = work.out /\ work'.batch = work.batch
      /\ work'.back = work.back /\ work'.handler = work.handler /\ work'.inflight = work.inflight
  BY RpcBreakTypes DEF RpcInv
<1>3. /\ \A p \in DOMAIN dh : \E q \in DOMAIN queue.high : dh[p] = queue.high[q]
      /\ \A p \in DOMAIN dl : \E q \in DOMAIN queue.low : dl[p] = queue.low[q]
      /\ \A p, q \in DOMAIN dh : dh[p] = dh[q] => p = q
      /\ \A p, q \in DOMAIN dl : dl[p] = dl[q] => p = q
  BY <1>1, RpcDequeues
<1>4. Line' = Line
  BY <1>1 DEF Line, LineOf, Awaiting
<1> HIDE DEF m, dh, dl
<1>7. RpcLine'
  BY <1>1, <1>4 DEF RpcInv, RpcLine
<1>8. RpcQueued'
  <2>1. \A p \in DOMAIN dh : work.handler[dh[p]].pc = "out" /\ \A q \in DOMAIN Line : dh[p] # Line[q][1]
    <3>1. TAKE p \in DOMAIN dh
    <3>2. PICK q \in DOMAIN queue.high : dh[p] = queue.high[q]
      BY <1>3
    <3> QED BY <3>2 DEF RpcInv, RpcQueued
  <2>2. \A p \in DOMAIN dl : work.handler[dl[p]].pc = "none" /\ dl[p] < queue.next
    <3>1. TAKE p \in DOMAIN dl
    <3>2. PICK q \in DOMAIN queue.low : dl[p] = queue.low[q]
      BY <1>3
    <3> QED BY <3>2 DEF RpcInv, RpcQueued
  <2>3. /\ \A x \in Msg : x >= queue.next => work.handler[x].pc = "none"
        /\ \A x \in Msg : work.handler[x].pc # "wait"
    BY DEF RpcInv, RpcQueued
  <2> QED BY <1>1, <1>3, <1>4, <2>1, <2>2, <2>3 DEF RpcQueued
<1>9. RpcSignals'
  <2>1. ToSet(dh) \subseteq ToSet(queue.high)
    BY <1>3 DEF ToSet
  <2>2. \A x : AtRest(work', Line, x) <=> AtRest(work, Line, x)
    BY <1>1 DEF AtRest
  <2> QED BY <1>1, <1>4, <2>1, <2>2 DEF RpcInv, RpcSignals, UnderWay
<1>10. RpcBuilt'
  <2>1. \A n : Pending(n)' = Pending(n)
    BY <1>1, <1>4 DEF Pending, PendingOf
  <2> QED BY <1>1, <1>4, <2>1 DEF RpcInv, RpcBuilt
<1>11. RpcStored'
  BY <1>1 DEF RpcInv, RpcStored, Bases
<1> QED BY <1>1, <1>7, <1>8, <1>9, <1>10, <1>11 DEF RpcInv

\* No signal of a batch that is collected is in flight elsewhere.
LEMMA RpcBatchSignals ==
    ASSUME RpcInv
    PROVE  /\ \A p \in DOMAIN work.out : work.out[p] \in work.inflight \ ToSet(work.batch)
           /\ \A x \in Msg : UnderWay(x) => <<x, work.handler[x].try>> \in work.inflight \ ToSet(work.batch)
<1>1. work \in RpcWork
  BY DEF RpcInv, RpcTypes
<1>2. SUFFICES ASSUME NEW i \in DOMAIN work.batch
               PROVE  /\ \A p \in DOMAIN work.out : work.out[p] # work.batch[i]
                      /\ \A x \in Msg : UnderWay(x) => <<x, work.handler[x].try>> # work.batch[i]
  BY DEF RpcInv, RpcSignals, ToSet
<1>3. \A p \in DOMAIN work.out : /\ Len(Awaiting(work)) + p \in DOMAIN Line /\ Line[Len(Awaiting(work)) + p] = work.out[p]
                                 /\ p > 0 /\ p \in Nat
  <2>1. \A p \in 1 .. Len(work.out) : Len(Awaiting(work)) + p \in DOMAIN Line /\ Line[Len(Awaiting(work)) + p] = work.out[p]
    BY <1>1, LineTypes DEF Line
  <2>2. DOMAIN work.out = 1 .. Len(work.out)
    BY <1>1, LinePlaces
  <2> QED BY <2>1, <2>2
<1>4. Len(Awaiting(work)) \in Nat /\ \A p \in DOMAIN Awaiting(work) : p \in DOMAIN Line /\ p <= Len(Awaiting(work)) /\ p \in Nat
                                       /\ Line[p] = Awaiting(work)[p]
  <2>1. /\ Awaiting(work) \in Seq(RpcSignal) /\ Len(Awaiting(work)) \in Nat
        /\ \A p \in 1 .. Len(Awaiting(work)) : p \in DOMAIN Line /\ Line[p] = Awaiting(work)[p]
    BY <1>1, LineTypes DEF Line
  <2> QED BY <2>1
<1>5. ASSUME NEW j \in DOMAIN Awaiting(work), Awaiting(work)[j] = work.batch[i]
      PROVE  /\ \A p \in DOMAIN work.out : work.out[p] # work.batch[i]
             /\ \A x \in Msg : UnderWay(x) => <<x, work.handler[x].try>> # work.batch[i]
  <2>1. j \in DOMAIN Line /\ Line[j] = work.batch[i] /\ j <= Len(Awaiting(work)) /\ j \in Nat
    BY <1>4, <1>5
  <2>2. \A p \in DOMAIN work.out : work.out[p] # work.batch[i]
    <3>1. SUFFICES ASSUME NEW p \in DOMAIN work.out, work.out[p] = work.batch[i]
                   PROVE  FALSE
      OBVIOUS
    <3>2. Len(Awaiting(work)) + p \in DOMAIN Line /\ Line[Len(Awaiting(work)) + p] = Line[j] /\ p > 0 /\ p \in Nat
      BY <1>3, <2>1, <3>1
    <3>3. Len(Awaiting(work)) + p = j
      BY <2>1, <3>2 DEF RpcInv, RpcLine
    <3> QED BY <1>4, <2>1, <3>2, <3>3
  <2>3. \A x \in Msg : UnderWay(x) => <<x, work.handler[x].try>> # work.batch[i]
    <3>1. work.handler[work.batch[i][1]].pc = "out"
      BY <2>1 DEF RpcInv, RpcLine
    <3> QED BY <3>1 DEF UnderWay
  <2> QED BY <2>2, <2>3
<1>6. CASE work.back = <<>>
  BY <1>5, <1>6 DEF Awaiting
<1>7. CASE work.back # <<>>
  <2> DEFINE d == Len(work.batch) - Len(work.back)
  <2>1. /\ work.back = SubSeq(work.batch, d + 1, Len(work.batch)) /\ Len(work.back) <= Len(work.batch)
        /\ work.batch \in Seq(RpcSignal) /\ work.back \in Seq(RpcSignal)
        /\ DOMAIN work.batch = 1 .. Len(work.batch) /\ DOMAIN work.back = 1 .. Len(work.back)
        /\ Len(work.batch) \in Nat /\ Len(work.back) \in Nat
    BY <1>1, <1>7, LinePlaces DEF RpcInv, RpcLine, RpcWork
  <2>2. CASE i \in 1 .. d
    <3> DEFINE x == work.batch[i][1]
    <3>1. x \in Msg /\ (AtRest(work, Line, x) \/ work.batch[i] # <<x, work.handler[x].try>>)
      BY <1>1, <1>7, <2>2, LinePlaces DEF RpcInv, RpcSignals
    <3>3. \A p \in DOMAIN work.out : work.out[p] # work.batch[i]
      <4>1. SUFFICES ASSUME NEW p \in DOMAIN work.out, work.out[p] = work.batch[i]
                     PROVE  FALSE
        OBVIOUS
      <4>2. PICK q \in DOMAIN Line : Line[q] = work.batch[i]
        BY <1>3, <4>1
      <4>3. work.handler[x].pc = "out" /\ work.batch[i] = <<x, work.handler[x].try>>
        BY <4>2 DEF RpcInv, RpcLine
      <4> QED BY <3>1, <4>2, <4>3 DEF AtRest
    <3>4. \A y \in Msg : UnderWay(y) => <<y, work.handler[y].try>> # work.batch[i]
      <4>1. SUFFICES ASSUME NEW y \in Msg, UnderWay(y), <<y, work.handler[y].try>> = work.batch[i]
                     PROVE  FALSE
        OBVIOUS
      <4>2. x = y /\ work.batch[i] = <<x, work.handler[x].try>>
        BY <4>1
      <4> QED BY <3>1, <4>1, <4>2 DEF UnderWay, AtRest
    <3> QED BY <3>3, <3>4
  <2>3. CASE i \notin 1 .. d
    <3>1. i - d \in 1 .. Len(work.back) /\ d \in Nat /\ d + (i - d) = i
      <4>1. PICK a \in Nat, b \in Nat : a = Len(work.batch) /\ b = Len(work.back)
        BY <2>1
      <4>2. i \in 1 .. a /\ b <= a /\ i \notin 1 .. a - b /\ d = a - b
        BY <2>1, <2>3, <4>1
      <4> HIDE DEF d
      <4>3. i - d \in 1 .. b /\ d \in Nat /\ d + (i - d) = i
        BY <4>2
      <4> QED BY <4>1, <4>3
    <3>2. work.back[i - d] = work.batch[i]

      <4>2. \A k \in 1 .. Len(work.back) : work.back[k] = work.batch[d + k]
        <5> HIDE DEF d
        <5>1. \A k \in 1 .. Len(work.batch) - (d + 1) + 1 : SubSeq(work.batch, d + 1, Len(work.batch))[k] = work.batch[(d + 1) + k - 1]
          BY <2>1, <3>1
        <5>2. Len(work.batch) - (d + 1) + 1 = Len(work.back) /\ \A k \in 1 .. Len(work.back) : (d + 1) + k - 1 = d + k
          BY <2>1, <3>1 DEF d
        <5> QED BY <2>1, <5>1, <5>2
      <4> QED BY <3>1, <4>2
    <3>3. i - d \in DOMAIN Awaiting(work) /\ Awaiting(work)[i - d] = work.batch[i]
      BY <1>7, <2>1, <3>1, <3>2 DEF Awaiting
    <3> QED BY <1>5, <3>3
  <2> QED BY <2>2, <2>3
<1> QED BY <1>6, <1>7

\* A signal moves from the output queue to the batch: the line is the same.
LEMMA RpcCollect ==
    ASSUME RpcInv, R!Collect
    PROVE  RpcInv'
<1>1. /\ RpcTypes' /\ UNCHANGED <<queue, state, store, released, faults>> /\ work.out # <<>> /\ work.back = <<>>
      /\ work'.loop = work.loop /\ work'.out = Tail(work.out) /\ work'.batch = Append(work.batch, Head(work.out))
      /\ work'.back = <<>> /\ work'.handler = work.handler /\ work'.inflight = work.inflight \ ToSet(work.batch)
  BY RpcCollectTypes DEF RpcInv
<1>2. work.out \in Seq(RpcSignal) /\ work.batch \in Seq(RpcSignal)
  BY DEF RpcInv, RpcTypes, RpcWork
<1>3. Line' = Line
  BY ZenonT(30), <1>1, <1>2, MoveHead DEF Line, LineOf, Awaiting
<1>4. RpcLine'
  BY <1>1, <1>3 DEF RpcInv, RpcLine
<1>5. RpcQueued'
  BY <1>1, <1>3 DEF RpcInv, RpcQueued
<1>6. RpcSignals'
  <2>1. \A p \in DOMAIN Tail(work.out) : p + 1 \in DOMAIN work.out /\ Tail(work.out)[p] = work.out[p + 1]
    <3>1. /\ Tail(work.out) \in Seq(RpcSignal) /\ Len(Tail(work.out)) = Len(work.out) - 1
          /\ \A p \in 1 .. Len(Tail(work.out)) : Tail(work.out)[p] = work.out[p + 1]
      BY <1>1, <1>2, HeadTailProperties
    <3>2. DOMAIN Tail(work.out) = 1 .. Len(work.out) - 1 /\ DOMAIN work.out = 1 .. Len(work.out) /\ Len(work.out) \in Nat
      BY <1>2, <3>1
    <3> QED BY <3>1, <3>2
  <2>2. /\ \A p \in DOMAIN work'.out : work'.out[p] \in work'.inflight
        /\ \A m \in Msg : UnderWay(m)' => <<m, work'.handler[m].try>> \in work'.inflight
    BY <1>1, <2>1, RpcBatchSignals DEF UnderWay
  <2> QED BY <1>1, <2>2 DEF RpcSignals
<1>7. RpcBuilt'
  <2>1. \A n : Pending(n)' = Pending(n)
    BY <1>1, <1>3 DEF Pending, PendingOf
  <2> QED BY <1>1, <1>3, <2>1 DEF RpcInv, RpcBuilt
<1>8. RpcStored'
  BY <1>1 DEF RpcInv, RpcStored, Bases
<1> QED BY <1>1, <1>4, <1>5, <1>6, <1>7, <1>8 DEF RpcInv

\* Another process appends an event.
LEMMA RpcAppendOther ==
    ASSUME RpcInv, R!AppendOther
    PROVE  RpcInv'
<1> DEFINE t == <<0>>
<1>1. UNCHANGED <<queue, work, state, released, faults>> /\ store' = Append(store, 0) /\ store \in Seq(Event)
  BY RpcFields DEF R!AppendOther, RpcInv, RpcTypes
<1>2. /\ StoredOn(store \o t, Bases) /\ Distinct(store \o t) /\ store' = store \o t /\ t \in Seq(Event)
      /\ \A m \in Msg : m \in ToSet(store \o t) <=> m \in ToSet(store)
  BY <1>1, OtherGrows DEF RpcInv, RpcStored
<1> HIDE DEF t
<1>3. store' \in Seq(Event)
  BY <1>1, <1>2, ConcatElements
<1>4. RpcTypes'
  BY <1>1, <1>3 DEF RpcInv, RpcTypes
<1>5. Line' = Line /\ Bases' = Bases
  BY SMTT(30), <1>1 DEF Line, LineOf, Awaiting, Bases
<1>6. RpcLine' /\ RpcQueued' /\ RpcSignals'
  BY ZenonT(30), <1>1, <1>5 DEF RpcInv, RpcLine, RpcQueued, RpcSignals, UnderWay
<1>7. RpcBuilt'
  <2>1. work \in RpcWork /\ work' \in RpcWork
    BY <1>4 DEF RpcInv, RpcTypes
  <2>2. Line \in Seq(RpcSignal) /\ Len(Line) \in Nat /\ DOMAIN Line = 1 .. Len(Line)
    BY <2>1, LineTypes DEF Line
  <2>3. 0 \in 0 .. Len(Line) /\ Len(Line) - 0 = Len(Line) /\ \A p \in 1 .. Len(Line) : p + 0 = p
    BY <2>2
  <2>4. \A p \in 1 .. 0 : FALSE
    OBVIOUS
  <2>5. \A p \in 1 .. Len(Line) - 0 : /\ Line'[p] = Line[p + 0]
                                      /\ work'.handler[Line[p + 0][1]].base = work.handler[Line[p + 0][1]].base
                                      /\ work'.handler[Line[p + 0][1]].current = work.handler[Line[p + 0][1]].current
    BY <1>1, <1>5, <2>3
  <2>6. /\ \A s \in Seq(Event) : Built(s, store, Pending(Len(Line))) => Built(s, store', Pending(Len(Line))')
        /\ \A s \in Seq(Event) : Built(s, store, {}) => Built(s, store', {})
        /\ \A p \in 1 .. Len(Line) - 0 : work'.handler[Line'[p][1]].current
             => Built(work'.handler[Line'[p][1]].base, store', Pending(p - 1)')
    <3>1. Len(Line) - 0 <= Len(Line') /\ RpcBuilt
      BY <1>5, <2>2 DEF RpcInv
    <3>2. \A p \in 1 .. 0 : work.handler[Line[p][1]].current =>
             /\ Len(work.handler[Line[p][1]].base) + 1 \in DOMAIN store'
             /\ store'[Len(work.handler[Line[p][1]].base) + 1] = Line[p][1]
      BY <2>4
    <3> QED BY <1>1, <1>2, <2>1, <2>3, <2>5, <3>1, <3>2, RpcShifts
  <2>7. \A m \in Msg : work.handler[m].base \in Seq(Event)
    BY <2>1, RpcHandlers
  <2>8. state.held \in Seq(Event)
    BY DEF RpcInv, RpcTypes, RpcState
  <2>9. \A p \in DOMAIN Line : work'.handler[Line[p][1]].current
             => Built(work'.handler[Line[p][1]].base, store', Pending(p - 1)')
    BY <1>5, <2>2, <2>3, <2>6
  <2> QED BY <1>1, <1>5, <2>6, <2>7, <2>8, <2>9 DEF RpcInv, RpcBuilt
<1>8. RpcStored'
  <2>1. StoredOn(store', Bases') /\ Distinct(store')
    BY <1>2, <1>5
  <2>2. /\ \A m \in Msg : m \in ToSet(store') <=> work'.handler[m].pc = "over"
        /\ \A m \in Msg : m \in ToSet(store') <=> released'[m] = "ok"
    BY <1>1, <1>2 DEF RpcInv, RpcStored
  <2> QED BY <2>1, <2>2 DEF RpcStored
<1> QED BY <1>4, <1>6, <1>7, <1>8 DEF RpcInv

\* The end of a sequence without its first.
LEMMA TailSuffix ==
    ASSUME NEW S1, NEW s \in Seq(S1), NEW b \in 1 .. Len(s)
    PROVE  LET t == SubSeq(s, Len(s) - b + 1, Len(s))
           IN Head(t) = s[Len(s) - b + 1] /\ t[b] = s[Len(s)] /\ Tail(t) = SubSeq(s, Len(s) - (b - 1) + 1, Len(s))
<1> DEFINE t == SubSeq(s, Len(s) - b + 1, Len(s))
           u == SubSeq(s, Len(s) - (b - 1) + 1, Len(s))
<1>1. PICK n \in Nat : n = Len(s)
  OBVIOUS
<1>2. b \in 1 .. n
  BY <1>1
<1>3. /\ n - b + 1 \in 1 .. n /\ n - (n - b + 1) + 1 = b /\ 1 \in 1 .. b /\ b \in 1 .. b
      /\ \A p \in 1 .. b : (n - b + 1) + p - 1 = n - b + p
      /\ n - (b - 1) + 1 \in 1 .. n + 1 /\ n - (n - (b - 1) + 1) + 1 = b - 1
      /\ \A p \in 1 .. b - 1 : (n - (b - 1) + 1) + p - 1 = n - b + (p + 1) /\ p + 1 \in 1 .. b
      /\ b - 1 \in Nat /\ n - b + b = n
  BY <1>2
<1>4. t \in Seq(S1) /\ Len(t) = b /\ \A p \in 1 .. b : t[p] = s[n - b + p]
  <2>1. \A i, j \in 1 .. n + 1 : /\ SubSeq(s, i, n) \in Seq(S1) /\ Len(SubSeq(s, i, n)) = n - i + 1
                                 /\ \A p \in 1 .. n - i + 1 : SubSeq(s, i, n)[p] = s[i + p - 1]
    BY <1>1
  <2> QED BY <1>1, <1>3, <2>1
<1>5. u \in Seq(S1) /\ Len(u) = b - 1 /\ \A p \in 1 .. b - 1 : u[p] = s[n - b + (p + 1)]
  <2>1. \A i, j \in 1 .. n + 1 : /\ SubSeq(s, i, n) \in Seq(S1) /\ Len(SubSeq(s, i, n)) = n - i + 1
                                 /\ \A p \in 1 .. n - i + 1 : SubSeq(s, i, n)[p] = s[i + p - 1]
    BY <1>1
  <2> QED BY <1>1, <1>3, <2>1
<1> HIDE DEF t, u
<1>6. t # <<>>
  BY <1>2, <1>4
<1>7. Tail(t) \in Seq(S1) /\ Len(Tail(t)) = b - 1 /\ \A p \in 1 .. b - 1 : Tail(t)[p] = t[p + 1]
  BY <1>4, <1>6, HeadTailProperties
<1>8. Tail(t) = u
  <2>1. \A p \in 1 .. b - 1 : Tail(t)[p] = u[p]
    BY SMTT(30), <1>3, <1>4, <1>5, <1>7
  <2> QED BY <1>5, <1>7, <2>1, SeqEqual
<1>9. Head(t) = s[n - b + 1] /\ t[b] = s[n]
  BY <1>3, <1>4
<1> QED BY <1>1, <1>8, <1>9 DEF t, u

\* The next of the contexts that are put back.
LEMMA RpcPutBack ==
    ASSUME RpcInv, R!PutBack
    PROVE  RpcInv'
<1> DEFINE x == Head(work.back)
           m == x[1]
           y == Last(work.batch)[1]
<1>1. /\ RpcTypes' /\ UNCHANGED <<state, store, faults>> /\ work.back # <<>>
      /\ work'.loop = work.loop /\ work'.out = work.out /\ work'.back = Tail(work.back) /\ work'.handler = work.handler
      /\ Len(work.back) = 1 => work'.batch = <<>> /\ work'.inflight = work.inflight \ ToSet(work.batch)
      /\ Len(work.back) # 1 => work'.batch = work.batch /\ work'.inflight = work.inflight
      /\ \/ /\ released' = released /\ queue'.high = Append(queue.high, m)
            /\ queue'.low = queue.low /\ queue'.next = queue.next
         \/ queue' = queue /\ released' = R!Release({y}, "unavailable")
  BY RpcPutBackTypes DEF RpcInv
<1>2. /\ work \in RpcWork /\ work' \in RpcWork /\ work.back \in Seq(RpcSignal) /\ work.batch \in Seq(RpcSignal)
      /\ work.out \in Seq(RpcSignal) /\ queue.high \in Seq(Msg) /\ store \in Seq(Event)
  BY <1>1 DEF RpcInv, RpcTypes, RpcWork, RpcQueue
<1>3. /\ x \in RpcSignal /\ Tail(work.back) \in Seq(RpcSignal) /\ Len(Tail(work.back)) = Len(work.back) - 1
      /\ Len(work.back) \in Nat \ {0} /\ x = work.back[1] /\ \A p \in 1 .. Len(work.back) - 1 : Tail(work.back)[p] = work.back[p + 1]
  BY <1>1, <1>2, EmptySeq, HeadTailProperties
<1>4. m \in Msg
  BY <1>3 DEF RpcSignal
<1>5. /\ Len(work.back) <= Len(work.batch) /\ Len(work.batch) \in Nat
      /\ work.back = SubSeq(work.batch, Len(work.batch) - Len(work.back) + 1, Len(work.batch))
      /\ \A p, q \in DOMAIN work.batch : work.batch[p][1] = work.batch[q][1] => p = q
      /\ \A p \in DOMAIN work.back : ~work.handler[work.back[p][1]].current
  <2>1. Len(work.batch) \in Nat
    BY <1>2
  <2>2. RpcLine /\ work.back # <<>>
    BY <1>1 DEF RpcInv
  <2> QED BY <2>1, <2>2 DEF RpcLine
<1> HIDE DEF x
<1>6. work'.back = <<>> <=> Len(work.back) = 1
  <2>1. \A s \in Seq(RpcSignal) : s = <<>> <=> Len(s) = 0
    BY EmptySeq
  <2>2. Tail(work.back) = <<>> <=> Len(work.back) - 1 = 0
    BY <1>3, <2>1
  <2> QED BY <1>1, <1>3, <2>2
<1>7. Line' = Tail(work.back) \o work.out /\ Line = work.back \o work.out
  <2>1. Line = work.back \o work.out
    BY <1>1 DEF Line, LineOf, Awaiting
  <2>2. CASE Len(work.back) = 1
    BY <1>1, <1>6, <2>1, <2>2 DEF Line, LineOf, Awaiting
  <2>3. CASE Len(work.back) # 1
    BY <1>1, <1>6, <2>1, <2>3 DEF Line, LineOf, Awaiting
  <2> QED BY <2>2, <2>3, <2>1
<1>8. /\ Line \in Seq(RpcSignal) /\ Line' \in Seq(RpcSignal) /\ Len(Line) \in Nat /\ Len(Line') = Len(Line) - 1
      /\ DOMAIN Line = 1 .. Len(Line) /\ DOMAIN Line' = 1 .. Len(Line) - 1 /\ 1 \in DOMAIN Line /\ Line[1] = x
      /\ \A p \in 1 .. Len(Line) - 1 : p + 1 \in DOMAIN Line /\ Line'[p] = Line[p + 1]
  <2>1. Line' = Tail(Line) /\ Line # <<>> /\ Head(Line) = x /\ Line \in Seq(RpcSignal)
    <3>1. /\ work.back \o work.out \in Seq(RpcSignal) /\ work.back \o work.out # <<>>
          /\ Head(work.back \o work.out) = Head(work.back) /\ Tail(work.back \o work.out) = Tail(work.back) \o work.out
      <4>1. work.back # <<>>
        BY <1>1
      <4> QED BY ZenonT(30), <1>2, <4>1, TailConcat
    <3> QED BY <1>7, <3>1 DEF x
  <2>2. /\ Tail(Line) \in Seq(RpcSignal) /\ Len(Tail(Line)) = Len(Line) - 1 /\ Len(Line) \in Nat \ {0}
        /\ \A p \in 1 .. Len(Line) - 1 : Tail(Line)[p] = Line[p + 1]
    BY <2>1, EmptySeq, HeadTailProperties
  <2>3. Line[1] = x
    BY SMTT(30), <2>1
  <2>4. PICK n \in Nat : n = Len(Line)
    BY Zenon, <2>2
  <2>5. DOMAIN Line = 1 .. n /\ DOMAIN Tail(Line) = 1 .. n - 1 /\ n # 0
    BY <2>1, <2>2, <2>4
  <2>6. 1 \in 1 .. n /\ \A p \in 1 .. n - 1 : p + 1 \in 1 .. n
    BY <2>5
  <2> QED BY <2>1, <2>2, <2>3, <2>4, <2>5, <2>6
<1>9. /\ work.handler[m].pc = "out" /\ x = <<m, work.handler[m].try>> /\ ~work.handler[m].current
      /\ \A p \in DOMAIN Line' : Line'[p][1] # m /\ \E q \in DOMAIN Line : Line'[p] = Line[q]
      /\ \A p \in DOMAIN queue.high : queue.high[p] # m
  <2>1. work.handler[m].pc = "out" /\ x = <<m, work.handler[m].try>> /\ \A p \in DOMAIN queue.high : queue.high[p] # m
    BY ZenonT(30), <1>8 DEF RpcInv, RpcLine, RpcQueued
  <2>2. ~work.handler[m].current
    BY <1>2, <1>3, <1>5
  <2>3. \A p \in DOMAIN Line' : Line'[p][1] # m /\ \E q \in DOMAIN Line : Line'[p] = Line[q]
    <3>1. TAKE p \in DOMAIN Line'
    <3>2. p + 1 \in DOMAIN Line /\ Line'[p] = Line[p + 1] /\ p + 1 # 1
      BY <1>8
    <3>3. Line[p + 1][1] # m
      BY <1>8, <3>2 DEF RpcInv, RpcLine
    <3> QED BY <3>2, <3>3
  <2> QED BY <2>1, <2>2, <2>3
<1>10. PICK a \in Nat, b \in Nat : a = Len(work.batch) /\ b = Len(work.back)
  BY <1>3, <1>5
<1>11. /\ DOMAIN work.batch = 1 .. a /\ DOMAIN work.back = 1 .. b /\ work.batch[a - b + 1] = x
       /\ work.back[b] = work.batch[a]
       /\ Tail(work.back) = SubSeq(work.batch, a - (b - 1) + 1, a)
  <2>1. DOMAIN work.batch = 1 .. a /\ DOMAIN work.back = 1 .. b
    BY <1>2, <1>10
  <2>2. b \in 1 .. Len(work.batch)
    BY <1>3, <1>5, <1>10
  <2>3. work.back = SubSeq(work.batch, Len(work.batch) - b + 1, Len(work.batch))
    BY <1>5, <1>10
  <2>4. /\ Head(work.back) = work.batch[Len(work.batch) - b + 1] /\ work.back[b] = work.batch[Len(work.batch)]
        /\ Tail(work.back) = SubSeq(work.batch, Len(work.batch) - (b - 1) + 1, Len(work.batch))
    BY <1>2, <2>2, <2>3, TailSuffix
  <2> QED BY <1>10, <2>1, <2>4 DEF x
<1>a. b # 0 /\ b <= a /\ a - b + 1 \in 1 .. a /\ a \in 1 .. a /\ b \in 1 .. b
  <2>1. b # 0 /\ b <= a
    BY <1>3, <1>5, <1>10
  <2> QED BY <2>1
<1> HIDE DEF m
<1>12. RpcLine'
  <2>1. \A p \in DOMAIN Line' : /\ work.handler[Line'[p][1]].pc = "out"
                                /\ Line'[p] = <<Line'[p][1], work.handler[Line'[p][1]].try>>
    BY <1>9 DEF RpcInv, RpcLine
  <2>2. \A p, q \in DOMAIN Line' : Line'[p][1] = Line'[q][1] => p = q
    <3>1. SUFFICES ASSUME NEW p \in DOMAIN Line', NEW q \in DOMAIN Line', Line'[p][1] = Line'[q][1]
                   PROVE  p = q
      OBVIOUS
    <3>2. p + 1 \in DOMAIN Line /\ q + 1 \in DOMAIN Line /\ Line[p + 1][1] = Line[q + 1][1]
      BY <1>8, <3>1
    <3>3. p + 1 = q + 1
      BY <3>2 DEF RpcInv, RpcLine
    <3> QED BY <1>8, <3>3
  <2>3. work'.back # <<>> =>
          /\ Len(work'.back) <= Len(work'.batch)
          /\ work'.back = SubSeq(work'.batch, Len(work'.batch) - Len(work'.back) + 1, Len(work'.batch))
          /\ \A p, q \in DOMAIN work'.batch : work'.batch[p][1] = work'.batch[q][1] => p = q
          /\ \A p \in DOMAIN work'.back : ~work.handler[work'.back[p][1]].current
    <3>1. SUFFICES ASSUME Len(work.back) # 1
                   PROVE  /\ Len(work'.back) <= Len(work'.batch)
                          /\ work'.back = SubSeq(work'.batch, Len(work'.batch) - Len(work'.back) + 1, Len(work'.batch))
                          /\ \A p, q \in DOMAIN work'.batch : work'.batch[p][1] = work'.batch[q][1] => p = q
                          /\ \A p \in DOMAIN work'.back : ~work.handler[work'.back[p][1]].current
      BY <1>6
    <3>2. work'.batch = work.batch /\ work'.back = Tail(work.back) /\ Len(work'.back) = b - 1 /\ Len(work'.batch) = a
      BY <1>1, <1>3, <1>10, <3>1
    <3>4. b - 1 <= a
      BY <1>a
    <3>3. \A p \in DOMAIN work'.back : p + 1 \in DOMAIN work.back /\ work'.back[p] = work.back[p + 1]
      <4>1. DOMAIN Tail(work.back) = 1 .. b - 1
        BY <1>3, <1>10
      <4>2. \A p \in 1 .. b - 1 : p + 1 \in 1 .. b
        BY <1>a
      <4> QED BY <1>3, <1>10, <1>11, <3>2, <4>1, <4>2
    <3> QED BY ZenonT(30), <1>5, <1>11, <3>2, <3>3, <3>4
  <2> QED BY <1>1, <2>1, <2>2, <2>3 DEF RpcLine
<1>13. RpcQueued'
  <2>1. \A p \in DOMAIN queue'.high : \/ p \in DOMAIN queue.high /\ queue'.high[p] = queue.high[p]
                                      \/ p = Len(queue.high) + 1 /\ queue'.high[p] = m
    <3>1. CASE queue'.high = Append(queue.high, m)
      <4>2. \A p \in DOMAIN Append(queue.high, m) :
              \/ p \in DOMAIN queue.high /\ Append(queue.high, m)[p] = queue.high[p]
              \/ p = Len(queue.high) + 1 /\ Append(queue.high, m)[p] = m
        BY <1>2, <1>4
      <4> QED BY <3>1, <4>2
    <3>2. CASE queue' = queue
      BY <3>2
    <3> QED BY <1>1, <3>1, <3>2
  <2>2. queue'.low = queue.low /\ queue'.next = queue.next
    BY <1>1
  <2>3. \A p \in DOMAIN queue'.high : /\ work.handler[queue'.high[p]].pc = "out"
                                      /\ \A q \in DOMAIN queue'.high : queue'.high[p] = queue'.high[q] => p = q
    BY <1>9, <2>1 DEF RpcInv, RpcQueued
  <2>4. \A p \in DOMAIN queue'.high, q \in DOMAIN Line' : queue'.high[p] # Line'[q][1]
    BY <1>9, <2>1 DEF RpcInv, RpcQueued
  <2> QED BY <1>1, <2>2, <2>3, <2>4 DEF RpcInv, RpcQueued
<1>14. RpcSignals'
  <2>3. ToSet(queue'.high) \subseteq ToSet(queue.high) \cup {m}
    <3>1. ToSet(Append(queue.high, m)) = ToSet(queue.high) \cup {m}
      BY <1>2, <1>4, ToSetAppend
    <3> QED BY <1>1, <3>1
  <2>4. CASE Len(work.back) = 1
    BY SMTT(30), <1>1, <1>6, <2>4, RpcBatchSignals DEF RpcSignals, UnderWay
  <2>5. CASE Len(work.back) # 1
    <3>1. ASSUME NEW i \in 1 .. Len(work'.batch) - Len(work'.back)
          PROVE  LET z == work'.batch[i][1]
                     s == <<z, work'.handler[z].try>>
                 IN /\ work'.handler[z].pc # "none" /\ (z \in ToSet(queue'.high) => work'.batch[i] = s)
                    /\ AtRest(work', Line', z) \/ work'.batch[i] # s
      <4> DEFINE z == work.batch[i][1]
      <4>1. i \in 1 .. a - (b - 1)
        BY <1>1, <1>3, <1>10, <2>5
      <4>2. \/ i \in 1 .. a - b
            \/ i = a - b + 1
        BY <1>a, <4>1
      <4>3. CASE i \in 1 .. a - b
        <5>1. /\ work.handler[z].pc # "none" /\ (z \in ToSet(queue.high) => work.batch[i] = <<z, work.handler[z].try>>)
              /\ AtRest(work, Line, z) \/ work.batch[i] # <<z, work.handler[z].try>>
          BY <1>1, <1>10, <4>3 DEF RpcInv, RpcSignals
        <5>2. z # m
          <6>1. i \in 1 .. a /\ i # a - b + 1
            BY <1>a, <4>3
          <6> QED BY <1>5, <1>11, <1>a, <6>1 DEF m
        <5> HIDE DEF z
        <5>3. z \in ToSet(queue'.high) => z \in ToSet(queue.high)
          BY <2>3, <5>2
        <5>4. AtRest(work, Line, z) => AtRest(work', Line', z)
          BY <1>1, <1>9 DEF AtRest
        <5> QED BY <1>1, <2>5, <5>1, <5>3, <5>4 DEF z
      <4>4. CASE i = a - b + 1
        <5>1. work.batch[i] = x /\ z = m
          BY <1>11, <4>4 DEF m
        <5>2. AtRest(work', Line', z) /\ work.handler[z].pc # "none" /\ work.batch[i] = <<z, work.handler[z].try>>
          BY <1>1, <1>9, <5>1 DEF AtRest
        <5> HIDE DEF z
        <5> QED BY <1>1, <2>5, <5>2 DEF z
      <4> QED BY <4>2, <4>3, <4>4
    <3>2. /\ \A p \in DOMAIN work.out : work.out[p] \in work.inflight
          /\ \A z \in Msg : UnderWay(z) => <<z, work.handler[z].try>> \in work.inflight
      BY DEF RpcInv, RpcSignals
    <3>3. \A z : UnderWay(z)' <=> UnderWay(z)
      BY <1>1 DEF UnderWay
    <3> QED BY <1>1, <2>5, <3>1, <3>2, <3>3 DEF RpcSignals
  <2> QED BY <2>4, <2>5
<1>15. RpcBuilt'
  <2>1. store' = store \o <<>> /\ <<>> \in Seq(Event) /\ store' = store
    BY <1>1, <1>2, ConcatEmptySeq, EmptySeq
  <2>2. 1 \in 0 .. Len(Line) /\ Len(Line) - 1 <= Len(Line')
    BY <1>8
  <2>3. \A p \in 1 .. 1 : p = 1
    OBVIOUS
  <2>4. RpcBuilt
    BY DEF RpcInv
  <2>5. ~work.handler[Line[1][1]].current
    BY <1>8, <1>9 DEF m
  <2>6. /\ \A s \in Seq(Event) : Built(s, store, Pending(Len(Line))) => Built(s, store', Pending(Len(Line))')
        /\ \A p \in 1 .. Len(Line) - 1 : work'.handler[Line'[p][1]].current
             => Built(work'.handler[Line'[p][1]].base, store', Pending(p - 1)')
    <3>1. \A p \in 1 .. 1 : work.handler[Line[p][1]].current =>
             /\ Len(work.handler[Line[p][1]].base) + 1 \in DOMAIN store'
             /\ store'[Len(work.handler[Line[p][1]].base) + 1] = Line[p][1]
      BY <2>3, <2>5
    <3>2. \A p \in 1 .. Len(Line) - 1 : /\ Line'[p] = Line[p + 1]
                                      /\ work'.handler[Line[p + 1][1]].base = work.handler[Line[p + 1][1]].base
                                      /\ work'.handler[Line[p + 1][1]].current = work.handler[Line[p + 1][1]].current
      BY <1>1, <1>8
    <3> QED BY <1>2, <2>1, <2>2, <2>4, <3>1, <3>2, RpcShifts
  <2>7. \A z \in Msg : work.handler[z].base \in Seq(Event)
    BY <1>2, RpcHandlers
  <2>8. state.held \in Seq(Event)
    BY DEF RpcInv, RpcTypes, RpcState
  <2> QED BY <1>1, <1>8, <2>1, <2>4, <2>6, <2>7, <2>8 DEF RpcBuilt
<1>16. RpcStored'
  <2>1. CASE released' = released
    BY <1>1, <2>1 DEF RpcInv, RpcStored, Bases
  <2>2. CASE released' = R!Release({y}, "unavailable")
    <3>1. y \in Msg /\ work.handler[y].pc = "out"
      <4>1. Last(work.batch) = work.back[b]
        BY <1>10, <1>11 DEF Last
      <4>2. b \in DOMAIN Line /\ Line[b] = work.back[b]
        BY <1>1, <1>2, <1>11, <1>a, LinePlaces
      <4>3. Line[b][1] \in Msg
        BY <1>2, <4>2, LineTypes DEF Line
      <4> QED BY <4>1, <4>2, <4>3 DEF RpcInv, RpcLine
    <3> HIDE DEF y
    <3>2. "unavailable" \in RpcHows
      BY RpcFields
    <3>3. \A z \in Msg : released'[z] = IF z \in {y} THEN "unavailable" ELSE released[z]
      BY <2>2, <3>2, RpcReleases DEF RpcInv
    <3> QED BY <1>1, <3>1, <3>3 DEF RpcInv, RpcStored, Bases
  <2> QED BY <1>1, <2>1, <2>2
<1> QED BY <1>1, <1>12, <1>13, <1>14, <1>15, <1>16 DEF RpcInv

\* A context that is stored was computed from exactly the events before it.
LEMMA RpcGoodBases ==
    ASSUME RpcInv, work.back = <<>>, NEW n \in 0 .. Len(work.batch), NEW t \in Seq(Msg), Len(t) = n,
           \A i \in 1 .. n : t[i] = work.batch[i][1] /\ R!Good(i)
    PROVE  \A i \in 1 .. n : /\ work.handler[t[i]].base = SubSeq(store \o t, 1, Len(store) + i - 1)
                             /\ i \in DOMAIN Line /\ Line[i][1] = t[i] /\ work.handler[t[i]].current
                             /\ Len(work.handler[t[i]].base) + 1 \in DOMAIN (store \o t)
                             /\ (store \o t)[Len(work.handler[t[i]].base) + 1] = t[i]
<1>1. work \in RpcWork /\ store \in Seq(Event) /\ t \in Seq(Event) /\ Len(store) \in Nat /\ n \in Nat /\ DOMAIN t = 1 .. n
  BY DEF RpcInv, RpcTypes, Event
<1>2. /\ store \o t \in Seq(Event)
      /\ \A i \in 1 .. n : /\ Len(store) + i \in DOMAIN (store \o t) /\ (store \o t)[Len(store) + i] = t[i]
                         /\ Len(store) + i - 1 + 1 = Len(store) + i
  <2>1. store \o t \in Seq(Event)
    BY <1>1, ConcatProperties
  <2> QED BY <1>1, <2>1, LandsAt
<1>3. \A i \in 1 .. n : i \in DOMAIN Line /\ Line[i] = work.batch[i] /\ Line[i][1] = t[i] /\ t[i] \in Msg
  <2>1. DOMAIN work.batch = 1 .. Len(work.batch) /\ Len(work.batch) \in Nat
    BY <1>1, LinePlaces
  <2>2. \A i \in 1 .. n : i \in DOMAIN work.batch
    BY <2>1
  <2>3. \A i \in DOMAIN work.batch : i \in DOMAIN Line /\ Line[i] = work.batch[i] /\ work.batch[i][1] \in Msg
    BY <1>1, LinePlaces
  <2> QED BY <2>2, <2>3
<1>4. \A i \in 1 .. n : /\ work.handler[t[i]].current /\ Len(work.handler[t[i]].base) = Len(store) + i - 1
                        /\ work.handler[t[i]].base \in Seq(Event)
  <2>1. TAKE i \in 1 .. n
  <2>2. R!H(work.batch[i][1]) = work.handler[t[i]] /\ work.handler[t[i]].base \in Seq(Event)
    BY <1>1, <1>3, RpcHandlers
  <2>3. Len(R!H(work.batch[i][1]).base) = Len(store) + i - 1 /\ R!H(work.batch[i][1]).current
    BY DEF R!Good, R!Follows
  <2> QED BY <2>2, <2>3
<1>5. \A i \in 1 .. n : /\ Len(work.handler[t[i]].base) + 1 \in DOMAIN (store \o t)
                        /\ (store \o t)[Len(work.handler[t[i]].base) + 1] = t[i]
  <2>1. TAKE i \in 1 .. n
  <2>2. Len(work.handler[t[i]].base) + 1 = Len(store) + i
    BY <1>2, <1>4
  <2>3. Len(store) + i \in DOMAIN (store \o t) /\ (store \o t)[Len(store) + i] = t[i]
    BY <1>2
  <2> QED BY <2>2, <2>3, Zenon
<1>6. ASSUME NEW i \in 1 .. n
      PROVE  work.handler[t[i]].base = SubSeq(store \o t, 1, Len(store) + i - 1)
  <2> DEFINE b == work.handler[t[i]].base
  <2>1. Built(b, store, Pending(i - 1)) /\ b \in Seq(Event) /\ Len(b) = Len(store) + i - 1
    BY <1>3, <1>4, <1>6 DEF RpcInv, RpcBuilt
  <2>2. ASSUME NEW x \in Pending(i - 1)
        PROVE  Len(x[2]) + 1 \in DOMAIN (store \o t) /\ (store \o t)[Len(x[2]) + 1] = x[1]
    <3>1. PICK p \in DOMAIN Line : p <= i - 1 /\ x = <<Line[p][1], work.handler[Line[p][1]].base>>
      BY DEF Pending, PendingOf
    <3>2. p \in 1 .. n
      <4>1. DOMAIN Line = 1 .. Len(Line) /\ Len(Line) \in Nat
        BY <1>1, LineTypes DEF Line
      <4> QED BY <1>1, <3>1, <4>1
    <3>3. x[1] = t[p] /\ x[2] = work.handler[t[p]].base
      BY <1>3, <3>1, <3>2
    <3> QED BY <1>5, <3>2, <3>3
  <2> HIDE DEF b
  <2>3. Built(b, store \o t, {})
    BY <1>1, <2>1, <2>2, BuiltGrows
  <2>4. b = SubSeq(store \o t, 1, Len(b))
    BY <1>2, <2>1, <2>3, BuiltIsPrefix
  <2> QED BY <2>1, <2>4 DEF b
<1> QED BY <1>3, <1>4, <1>5, <1>6

\* The contexts of the batch are stored, or those up to the first that cannot be.
LEMMA RpcSink ==
    ASSUME RpcInv, R!Sink
    PROVE  RpcInv'
<1>1. PICK n \in 0 .. Len(work.batch), t \in Seq(Msg) :
             /\ work.back = <<>> /\ work.batch # <<>> /\ RpcTypes' /\ UNCHANGED <<queue, faults>>
             /\ Len(t) = n /\ DOMAIN t = 1 .. n /\ \A i \in 1 .. n : t[i] = work.batch[i][1] /\ R!Good(i)
             /\ store' = store \o t
             /\ \A x \in Msg : released'[x] = IF x \in ToSet(t) THEN "ok" ELSE released[x]
             /\ \A x \in Msg : /\ work'.handler[x].base = work.handler[x].base /\ work'.handler[x].try = work.handler[x].try
                               /\ x \in ToSet(t) => work'.handler[x].pc = "over" /\ ~work'.handler[x].current
                               /\ x \notin ToSet(t) => work'.handler[x].pc = work.handler[x].pc
             /\ work'.loop = work.loop /\ work'.out = work.out
             /\ n = Len(work.batch) =>
                  /\ work'.batch = <<>> /\ work'.back = <<>> /\ work'.inflight = work.inflight \ ToSet(work.batch)
                  /\ state' = state
                  /\ \A x \in Msg : x \notin ToSet(t) => work'.handler[x].current = work.handler[x].current
             /\ n # Len(work.batch) =>
                  /\ work'.batch = work.batch /\ work'.back = SubSeq(work.batch, n + 1, Len(work.batch))
                  /\ work'.inflight = work.inflight /\ state'.held = <<>>
                  /\ \A x \in Msg : ~work'.handler[x].current
  BY RpcSinks DEF RpcInv
<1>2. /\ work \in RpcWork /\ work' \in RpcWork /\ store \in Seq(Event) /\ work.batch \in Seq(RpcSignal) /\ work.out \in Seq(RpcSignal)
      /\ t \in Seq(Event) /\ queue.high \in Seq(Msg) /\ queue.low \in Seq(Msg) /\ n \in Nat
  BY SMTT(30), <1>1 DEF RpcInv, RpcTypes, Event, RpcWork, RpcQueue
<1>h. \A x \in Msg : /\ work'.handler[x].base = work.handler[x].base /\ work'.handler[x].try = work.handler[x].try
                     /\ x \in ToSet(t) => work'.handler[x].pc = "over" /\ ~work'.handler[x].current
                     /\ x \notin ToSet(t) => work'.handler[x].pc = work.handler[x].pc
  BY <1>1
<1>t. work.back = <<>> /\ Len(t) = n /\ DOMAIN t = 1 .. n /\ store' = store \o t /\ queue' = queue /\ work'.loop = work.loop /\ work'.out = work.out
  BY <1>1
<1>3. \A i \in 1 .. n : /\ work.handler[t[i]].base = SubSeq(store \o t, 1, Len(store) + i - 1)
                        /\ i \in DOMAIN Line /\ Line[i][1] = t[i] /\ work.handler[t[i]].current
                        /\ Len(work.handler[t[i]].base) + 1 \in DOMAIN (store \o t)
                        /\ (store \o t)[Len(work.handler[t[i]].base) + 1] = t[i]
  <2>1. Len(t) = n /\ \A i \in 1 .. n : t[i] = work.batch[i][1] /\ R!Good(i)
    BY <1>1
  <2> QED BY <1>t, <2>1, RpcGoodBases
<1>4. \A x \in ToSet(t) : x \in Msg /\ work.handler[x].pc = "out" /\ \E i \in 1 .. n : i \in DOMAIN Line /\ Line[i][1] = x /\ t[i] = x
  <2>1. TAKE x \in ToSet(t)
  <2>2. PICK i \in 1 .. n : t[i] = x
    BY <1>t DEF ToSet
  <2>3. x \in Msg
    BY <1>t, <2>2
  <2>4. i \in DOMAIN Line /\ Line[i][1] = x
    BY <1>3, <2>2
  <2>5. work.handler[x].pc = "out"
    BY <2>4 DEF RpcInv, RpcLine
  <2> QED BY <2>2, <2>3, <2>4, <2>5
\* How the line moves on.
<1>5. PICK a \in Nat, c \in Nat : a = Len(work.batch) /\ c = Len(Line)
  BY <1>2, LineTypes DEF Line
<1>6. DOMAIN Line = 1 .. c
  BY <1>2, <1>5, LineTypes DEF Line
<1> DEFINE r == SubSeq(work.batch, n + 1, Len(work.batch))
<1>b. /\ n = a => work'.batch = <<>> /\ work'.back = <<>>
      /\ n # a => work'.batch = work.batch /\ work'.back = r
  BY <1>1, <1>5
<1>7. /\ Line' \in Seq(RpcSignal) /\ Len(Line') = c - n /\ DOMAIN Line' = 1 .. c - n /\ c - n \in Nat /\ n \in 0 .. c
      /\ \A p \in 1 .. c - n : Line'[p] = Line[p + n] /\ p + n \in DOMAIN Line /\ p + n \notin 1 .. n
      /\ n # a => work'.back # <<>> /\ Len(work'.back) = a - n
  <2>1. Line = work.batch \o work.out
    BY <1>t DEF Line, LineOf, Awaiting
  <2>2. /\ r \in Seq(RpcSignal) /\ Len(r) = a - n /\ (r = <<>> <=> n = a)
        /\ r \o work.out \in Seq(RpcSignal) /\ Len(r \o work.out) = c - n /\ DOMAIN (r \o work.out) = 1 .. c - n
        /\ c - n \in Nat /\ n \in 0 .. c
        /\ \A p \in 1 .. c - n : (r \o work.out)[p] = Line[p + n] /\ p + n \in DOMAIN Line /\ p + n \notin 1 .. n
    <3>1. PICK s1 \in Seq(RpcSignal), t1 \in Seq(RpcSignal) : s1 = work.batch /\ t1 = work.out
      BY <1>2
    <3> DEFINE l == s1 \o t1
               r1 == SubSeq(s1, n + 1, Len(s1))
    <3>2. n \in 0 .. Len(s1)
      BY <3>1
    <3>3. /\ r1 \in Seq(RpcSignal) /\ Len(r1) = Len(s1) - n /\ (r1 = <<>> <=> n = Len(s1))
          /\ r1 \o t1 \in Seq(RpcSignal) /\ Len(r1 \o t1) = Len(l) - n /\ DOMAIN (r1 \o t1) = 1 .. Len(l) - n
          /\ Len(l) - n \in Nat /\ n \in 0 .. Len(l)
          /\ \A p \in 1 .. Len(l) - n : (r1 \o t1)[p] = l[p + n] /\ p + n \in DOMAIN l /\ p + n \notin 1 .. n
      <4>1. /\ r1 \in Seq(RpcSignal) /\ Len(r1) = Len(s1) - n /\ (r1 = <<>> <=> n = Len(s1))
            /\ r1 \o t1 \in Seq(RpcSignal) /\ Len(r1 \o t1) = Len(l) - n /\ DOMAIN (r1 \o t1) = 1 .. Len(l) - n
            /\ Len(l) - n \in Nat /\ n \in 0 .. Len(l)
        BY ONLY <3>2, DropConcat
      <4>2. \A p \in 1 .. Len(l) - n : (r1 \o t1)[p] = l[p + n] /\ p + n \in DOMAIN l /\ p + n \notin 1 .. n
        BY ONLY <3>2, DropConcat
      <4> QED BY <4>1, <4>2
    <3>4. Line = l /\ r1 = r /\ t1 = work.out
      BY <2>1, <3>1
    <3>5. Len(l) = c /\ Len(s1) = a
      BY <1>5, <3>1, <3>4
    <3> HIDE DEF r, l, r1
    <3> QED BY <3>3, <3>4, <3>5
  <2>3. Line' = r \o work.out
    <3> HIDE DEF r
    <3>1. CASE n = a
      BY <1>b, <1>t, <2>2, <3>1 DEF Line, LineOf, Awaiting
    <3>2. CASE n # a
      BY <1>b, <1>t, <2>2, <3>2 DEF Line, LineOf, Awaiting
    <3> QED BY <3>1, <3>2
  <2>4. n # a => work'.back # <<>> /\ Len(work'.back) = a - n
    BY <1>b, <2>2
  <2> QED BY <2>2, <2>3, <2>4
<1>8. \A p \in 1 .. c - n : /\ Line'[p][1] \in Msg /\ Line'[p][1] \notin ToSet(t)
                            /\ work.handler[Line'[p][1]].pc = "out" /\ Line'[p] = <<Line'[p][1], work.handler[Line'[p][1]].try>>
  <2>1. TAKE p \in 1 .. c - n
  <2>2. p + n \in DOMAIN Line /\ Line'[p] = Line[p + n] /\ p + n \notin 1 .. n
    BY <1>7
  <2>3. Line'[p][1] \notin ToSet(t)
    <3>1. SUFFICES ASSUME Line'[p][1] \in ToSet(t)
                   PROVE  FALSE
      OBVIOUS
    <3>2. PICK i \in 1 .. n : i \in DOMAIN Line /\ Line[i][1] = Line'[p][1]
      BY <1>4, <3>1
    <3>3. i = p + n
      BY <2>2, <3>2 DEF RpcInv, RpcLine
    <3> QED BY <2>2, <3>2, <3>3
  <2>4. Line[p + n][1] \in Msg
    BY <1>2, <2>2, LineTypes DEF Line
  <2>5. work.handler[Line[p + n][1]].pc = "out" /\ Line[p + n] = <<Line[p + n][1], work.handler[Line[p + n][1]].try>>
    BY <2>2 DEF RpcInv, RpcLine
  <2> QED BY <2>2, <2>3, <2>4, <2>5
<1>9. \A p, q \in 1 .. c - n : Line'[p][1] = Line'[q][1] => p = q
  <2>1. SUFFICES ASSUME NEW p \in 1 .. c - n, NEW q \in 1 .. c - n, Line'[p][1] = Line'[q][1]
                 PROVE  p = q
    OBVIOUS
  <2>2. p + n \in DOMAIN Line /\ q + n \in DOMAIN Line /\ Line[p + n][1] = Line[q + n][1]
    BY <1>7, <2>1
  <2>3. p + n = q + n
    BY <2>2 DEF RpcInv, RpcLine
  <2> QED BY <1>2, <1>7, <2>3
<1>10. RpcLine'
  <2>1. \A p \in DOMAIN Line' : /\ work'.handler[Line'[p][1]].pc = "out"
                                /\ Line'[p] = <<Line'[p][1], work'.handler[Line'[p][1]].try>>
    <3>1. TAKE p \in DOMAIN Line'
    <3>2. p \in 1 .. c - n
      BY <1>7
    <3>3. /\ Line'[p][1] \in Msg /\ Line'[p][1] \notin ToSet(t)
          /\ work.handler[Line'[p][1]].pc = "out" /\ Line'[p] = <<Line'[p][1], work.handler[Line'[p][1]].try>>
      BY <1>8, <3>2
    <3> QED BY <1>h, <3>3
  <2>2. work'.back # <<>> =>
          /\ Len(work'.back) <= Len(work'.batch)
          /\ work'.back = SubSeq(work'.batch, Len(work'.batch) - Len(work'.back) + 1, Len(work'.batch))
          /\ \A p, q \in DOMAIN work'.batch : work'.batch[p][1] = work'.batch[q][1] => p = q
          /\ \A p \in DOMAIN work'.back : ~work'.handler[work'.back[p][1]].current
    <3>1. SUFFICES ASSUME work'.back # <<>>
                   PROVE  /\ Len(work'.back) <= Len(work'.batch)
                          /\ work'.back = SubSeq(work'.batch, Len(work'.batch) - Len(work'.back) + 1, Len(work'.batch))
                          /\ \A p, q \in DOMAIN work'.batch : work'.batch[p][1] = work'.batch[q][1] => p = q
                          /\ \A p \in DOMAIN work'.back : ~work'.handler[work'.back[p][1]].current
      OBVIOUS
    <3>2. n # a
      BY <1>1, <1>5, <3>1
    <3>3. work'.batch = work.batch /\ work'.back = SubSeq(work.batch, n + 1, a) /\ Len(work'.back) = a - n /\ \A x \in Msg : ~work'.handler[x].current
      BY <1>1, <1>5, <1>7, <3>2
    <3>4. a - n <= a /\ a - (a - n) + 1 = n + 1
      BY <1>2
    <3>5. \A p, q \in DOMAIN work.batch : work.batch[p][1] = work.batch[q][1] => p = q
      <4>1. \A p \in DOMAIN work.batch : p \in DOMAIN Line /\ Line[p] = work.batch[p]
        BY <1>1, <1>2, LinePlaces
      <4> QED BY <4>1 DEF RpcInv, RpcLine
    <3>6. \A p \in DOMAIN work'.back : work'.back[p][1] \in Msg
      <4>1. work'.back \in Seq(RpcSignal)
        BY <1>2 DEF RpcWork
      <4>2. \A x \in RpcSignal : x[1] \in Msg
        BY DEF RpcSignal
      <4> QED BY <4>1, <4>2
    <3> QED BY <1>5, <3>3, <3>4, <3>5, <3>6
  <2> QED BY <1>7, <1>9, <2>1, <2>2 DEF RpcLine
<1>11. /\ \A p \in DOMAIN queue.high : queue.high[p] \in Msg /\ queue.high[p] \notin ToSet(t)
       /\ \A p \in DOMAIN queue.low : queue.low[p] \in Msg /\ queue.low[p] \notin ToSet(t)
  <2>1. \A p \in DOMAIN queue.high : queue.high[p] \in Msg /\ \A q \in DOMAIN Line : queue.high[p] # Line[q][1]
    BY <1>2 DEF RpcInv, RpcQueued
  <2>2. \A p \in DOMAIN queue.low : queue.low[p] \in Msg /\ work.handler[queue.low[p]].pc # "out"
    BY <1>2 DEF RpcInv, RpcQueued
  <2> QED BY <1>4, <2>1, <2>2
<1>12. RpcQueued'
  <2>1. \A p \in DOMAIN queue.high : /\ work'.handler[queue.high[p]].pc = "out"
                                     /\ \A q \in DOMAIN Line' : queue.high[p] # Line'[q][1]
    <3>1. \A p \in DOMAIN queue.high : work.handler[queue.high[p]].pc = "out" /\ \A q \in DOMAIN Line : queue.high[p] # Line[q][1]
      BY DEF RpcInv, RpcQueued
    <3>2. \A q \in DOMAIN Line' : q + n \in DOMAIN Line /\ Line'[q] = Line[q + n]
      BY <1>7
    <3>3. \A p \in DOMAIN queue.high : work'.handler[queue.high[p]].pc = "out"
      BY <1>11, <1>h, <3>1
    <3> QED BY <3>1, <3>2, <3>3
  <2>2. \A p \in DOMAIN queue.low : work'.handler[queue.low[p]].pc = "none"
    <3>1. \A p \in DOMAIN queue.low : work.handler[queue.low[p]].pc = "none"
      BY DEF RpcInv, RpcQueued
    <3> QED BY <1>11, <1>h, <3>1
  <2>3. \A x \in Msg : /\ x >= queue.next => work'.handler[x].pc = "none"
                       /\ work'.handler[x].pc # "wait"
    <3>1. \A x \in Msg : x >= queue.next => x \notin ToSet(t)
      BY <1>4 DEF RpcInv, RpcQueued
    <3> QED BY <1>h, <3>1 DEF RpcInv, RpcQueued
  <2> QED BY <1>t, <2>1, <2>2, <2>3 DEF RpcInv, RpcQueued
<1>13. RpcSignals'
  <2>2. \A x \in Msg : UnderWay(x)' => UnderWay(x) /\ work'.handler[x].try = work.handler[x].try
    BY <1>1 DEF UnderWay
  <2>3. CASE n = a
    BY <1>1, <1>5, <2>2, <2>3, RpcBatchSignals DEF RpcSignals
  <2>4. CASE n # a
    <3>1. /\ \A p \in DOMAIN work.out : work.out[p] \in work.inflight
          /\ \A x \in Msg : UnderWay(x) => <<x, work.handler[x].try>> \in work.inflight
      BY DEF RpcInv, RpcSignals
    <3>2. Len(work'.batch) - Len(work'.back) = n /\ work'.batch = work.batch
      <4>1. a - (a - n) = n
        BY <1>2
      <4> QED BY <1>1, <1>5, <1>7, <2>4, <4>1
    <3>3. \A i \in 1 .. n : work.batch[i][1] \in Msg /\ work.batch[i][1] \in ToSet(t) /\ work.batch[i][1] \notin ToSet(queue.high)
      <4>1. \A i \in 1 .. n : t[i] \in ToSet(t) /\ t[i] = work.batch[i][1]
        BY <1>1 DEF ToSet
      <4>2. \A x \in ToSet(t) : x \notin ToSet(queue.high)
        BY <1>11 DEF ToSet
      <4> QED BY <1>4, <4>1, <4>2
    <3>4. \A i \in 1 .. n : work'.handler[work.batch[i][1]].pc = "over" /\ AtRest(work', Line', work.batch[i][1])
      BY <1>1, <3>3 DEF AtRest
    <3> QED BY <1>1, <1>5, <2>2, <2>4, <3>1, <3>2, <3>3, <3>4 DEF RpcSignals
  <2> QED BY SMTT(30), <2>3, <2>4
<1>14. RpcBuilt'
  <2>1. /\ \A x \in Msg : work.handler[x].base \in Seq(Event) /\ work'.handler[x].base = work.handler[x].base
        /\ state.held \in Seq(Event)
        /\ \A x \in Msg : work'.handler[x].pc \in {"loaded", "handle"} => work.handler[x].pc = work'.handler[x].pc /\ x \notin ToSet(t)
    <3>1. \A x \in Msg : work.handler[x].base \in Seq(Event)
      BY <1>2, RpcHandlers
    <3> QED BY <1>1, <3>1 DEF RpcInv, RpcTypes, RpcState
  <2>2. \A s \in Seq(Event) : Built(s, store, {}) => Built(s, store', {})
    BY <1>1, <1>2, BuiltStays
  <2>3. \A x \in Msg : work'.handler[x].pc = "loaded" => Built(work'.handler[x].base, store', {})
    BY <2>1, <2>2 DEF RpcInv, RpcBuilt
  <2>4. CASE n = a
    <3>1. /\ \A s \in Seq(Event) : Built(s, store, Pending(Len(Line))) => Built(s, store', Pending(Len(Line))')
          /\ \A p \in 1 .. c - n : work'.handler[Line'[p][1]].current
               => Built(work'.handler[Line'[p][1]].base, store', Pending(p - 1)')
      <4>1. n \in 0 .. Len(Line) /\ Len(Line) - n = c - n
        BY <1>5, <1>7
      <4>7. Len(Line) - n <= Len(Line')
        BY <1>7, <4>1
      <4>2. \A p \in 1 .. Len(Line) - n : /\ Line'[p] = Line[p + n]
                                         /\ work'.handler[Line[p + n][1]].base = work.handler[Line[p + n][1]].base
                                         /\ work'.handler[Line[p + n][1]].current = work.handler[Line[p + n][1]].current
        <5>1. \A x \in Msg : x \notin ToSet(t) => work'.handler[x].current = work.handler[x].current
          BY <1>1, <1>5, <2>4
        <5>2. \A p \in 1 .. c - n : Line'[p] = Line[p + n] /\ Line'[p][1] \in Msg /\ Line'[p][1] \notin ToSet(t)
          BY <1>7, <1>8
        <5> QED BY <1>h, <4>1, <5>1, <5>2
      <4>3. \A p \in 1 .. n : work.handler[Line[p][1]].current =>
             /\ Len(work.handler[Line[p][1]].base) + 1 \in DOMAIN store'
             /\ store'[Len(work.handler[Line[p][1]].base) + 1] = Line[p][1]
        BY <1>3, <1>t
      <4>4. RpcBuilt /\ store' = store \o t
        BY <1>t DEF RpcInv
      <4>5. \A p \in 1 .. Len(Line) - n : work'.handler[Line'[p][1]].current
               => Built(work'.handler[Line'[p][1]].base, store', Pending(p - 1)')
        BY <1>2, <4>1, <4>2, <4>3, <4>4, <4>7, RpcShifts
      <4>6. \A s \in Seq(Event) : Built(s, store, Pending(Len(Line))) => Built(s, store', Pending(Len(Line))')
        BY <1>2, <4>1, <4>2, <4>3, <4>4, <4>7, RpcShifts
      <4> QED BY <4>1, <4>5, <4>6
    <3>2. state' = state /\ \A x \in Msg : x \notin ToSet(t) => work'.handler[x].current = work.handler[x].current
      BY <1>1, <1>5, <2>4
    <3> QED BY <1>1, <1>7, <2>1, <2>3, <3>1, <3>2 DEF RpcInv, RpcBuilt
  <2>5. CASE n # a
    <3>1. state'.held = <<>> /\ \A x \in Msg : ~work'.handler[x].current
      BY <1>1, <1>5, <2>5
    <3>2. Built(state'.held, store', Pending(Len(Line))')
      BY <3>1, BuiltEmpty
    <3> QED BY <1>7, <1>8, <2>3, <3>1, <3>2 DEF RpcBuilt
  <2> QED BY <2>4, <2>5
<1>15. RpcStored'
  <2>1. Bases' = Bases
    BY <1>1 DEF Bases
  <2>2. \A i \in DOMAIN t : t[i] # 0 => t[i] \notin ToSet(store) /\ Bases[t[i]] = SubSeq(store \o t, 1, Len(store) + i - 1)
    <3>1. \A x \in ToSet(t) : x \notin ToSet(store)
      BY <1>4 DEF RpcInv, RpcStored
    <3>2. \A i \in DOMAIN t : t[i] \in ToSet(t) /\ Bases[t[i]] = work.handler[t[i]].base
      BY <1>4 DEF ToSet, Bases
    <3>3. \A i \in DOMAIN t : work.handler[t[i]].base = SubSeq(store \o t, 1, Len(store) + i - 1)
      BY <1>3, <1>t
    <3> QED BY <3>1, <3>2, <3>3
  <2>3. Distinct(t)
    <3>1. SUFFICES ASSUME NEW i \in 1 .. n, NEW j \in 1 .. n, t[i] = t[j]
                   PROVE  i = j
      BY <1>1 DEF Distinct
    <3>2. i \in DOMAIN Line /\ j \in DOMAIN Line /\ Line[i][1] = Line[j][1]
      BY <1>3, <3>1
    <3> QED BY <3>2 DEF RpcInv, RpcLine
  <2>4. StoredOn(store', Bases') /\ Distinct(store')
    <3>1. StoredOn(store, Bases) /\ Distinct(store)
      BY DEF RpcInv, RpcStored
    <3>2. StoredOn(store \o t, Bases) /\ Distinct(store \o t)
      BY <1>2, <2>2, <2>3, <3>1, StoreGrows
    <3> QED BY <1>1, <2>1, <3>2
  <2>5. ToSet(store') = ToSet(store) \cup ToSet(t)
    BY <1>1, <1>2, ToSetConcat
  <2>6. \A x \in Msg : /\ x \in ToSet(store') <=> work'.handler[x].pc = "over"
                       /\ x \in ToSet(store') <=> released'[x] = "ok"
    BY <1>1, <2>5 DEF RpcInv, RpcStored
  <2> QED BY <2>4, <2>6 DEF RpcStored
<1> QED BY <1>1, <1>10, <1>12, <1>13, <1>14, <1>15 DEF RpcInv

\* Nothing is received yet.
LEMMA RpcInitially ==
    ASSUME R!Init
    PROVE  RpcInv
<1> DEFINE w == [handler |-> [m \in Msg |-> R!Handler], loop |-> "next", error |-> FALSE, ended |-> FALSE, out |-> <<>>,
                 batch |-> <<>>, back |-> <<>>, inflight |-> {}]
<1>1. /\ queue = [next |-> 1, low |-> <<>>, high |-> <<>>, open |-> TRUE, late |-> FALSE] /\ work = w
      /\ state = [cached |-> FALSE, held |-> <<>>] /\ store = <<>> /\ released = [m \in Msg |-> "no"] /\ faults = 0
  BY RpcFields DEF R!Init
<1>2. /\ \A T1 : <<>> \in Seq(T1) /\ Len(<<>>) = 0 /\ DOMAIN <<>> = {} /\ ToSet(<<>>) = {} /\ <<>> \o <<>> = <<>>
  BY EmptySeq, ConcatEmptySeq DEF ToSet
<1>3. R!Handler \in RpcHandler /\ R!Handler.pc = "none" /\ ~R!Handler.current
  BY <1>2, RpcFields DEF R!Handler, RpcHandler
<1>4. /\ w \in RpcWork /\ work = w /\ \A m \in Msg : work.handler[m] = R!Handler
      /\ work.out = <<>> /\ work.batch = <<>> /\ work.back = <<>> /\ work.inflight = {} /\ work.loop = "next"
  BY <1>1, <1>2, <1>3, RpcFields DEF RpcWork
<1>5. RpcTypes
  <2>1. queue \in RpcQueue /\ Len(queue.low) = 0 /\ Len(queue.high) = 0
    <3>1. 1 \in RpcNumbers
      BY SizesAssumption DEF RpcNumbers
    <3> QED BY <1>1, <1>2, <3>1 DEF RpcQueue
  <2>2. IsFiniteSet({}) /\ Cardinality({}) = 0
    BY FS_EmptySet
  <2>3. state \in RpcState
    BY <1>1, <1>2 DEF RpcState
  <2>4. released \in [Msg -> RpcHows] /\ faults \in Nat /\ store \in Seq(Event)
    BY <1>1, <1>2, RpcFields
  <2>5. /\ 0 <= InputCapacity /\ 0 <= OutputCapacity /\ 0 <= MaxBatch /\ 0 <= Parallel
    BY SizesAssumption
  <2> QED BY <1>2, <1>4, <2>1, <2>2, <2>3, <2>4, <2>5 DEF RpcTypes
<1>6. Line = <<>>
  BY <1>2, <1>4 DEF Line, LineOf, Awaiting
<1>7. RpcLine /\ RpcSignals
  BY <1>2, <1>3, <1>4, <1>6 DEF RpcLine, RpcSignals, UnderWay
<1>8. RpcQueued
  <2>1. queue.low = <<>> /\ queue.high = <<>>
    BY <1>1
  <2> QED BY <1>2, <1>3, <1>4, <2>1 DEF RpcQueued
<1>9. RpcBuilt
  <2>1. state.held = <<>>
    BY <1>1
  <2> QED BY <1>2, <1>3, <1>4, <1>6, <2>1, BuiltEmpty DEF RpcBuilt
<1>10. RpcStored
  BY <1>1, <1>2, <1>3, <1>4 DEF RpcStored, StoredOn, Distinct
<1> QED BY <1>5, <1>7, <1>8, <1>9, <1>10 DEF RpcInv

\* The iteration of the output queue is over: nothing else is changed.
LEMMA RpcOutputEnds ==
    ASSUME work \in RpcWork, R!OutputEnds
    PROVE  /\ work' \in RpcWork /\ UNCHANGED <<queue, state, store, released, faults>>
           /\ work'.handler = work.handler /\ work'.out = work.out /\ work'.batch = work.batch
           /\ work'.back = work.back /\ work'.inflight = work.inflight
BY DEF R!OutputEnds, RpcWork
LEMMA RpcEnds ==
    ASSUME RpcInv, R!OutputEnds
    PROVE  RpcInv'
<1>1. /\ work' \in RpcWork /\ UNCHANGED <<queue, state, store, released, faults>>
      /\ work'.handler = work.handler /\ work'.out = work.out /\ work'.batch = work.batch
      /\ work'.back = work.back /\ work'.inflight = work.inflight
  BY RpcOutputEnds DEF RpcInv, RpcTypes
<1>2. Line' = Line /\ \A m : AtRest(work', Line, m) <=> AtRest(work, Line, m)
  BY <1>1 DEF Line, LineOf, Awaiting, AtRest
<1>3. RpcTypes' /\ RpcLine' /\ RpcQueued'
  <2>1. RpcTypes'
    BY <1>1 DEF RpcInv, RpcTypes
  <2>2. RpcLine'
    BY <1>1, <1>2 DEF RpcInv, RpcLine
  <2>3. RpcQueued'
    BY <1>1, <1>2 DEF RpcInv, RpcQueued
  <2> QED BY <2>1, <2>2, <2>3
<1>4. RpcSignals'
  BY <1>1, <1>2 DEF RpcInv, RpcSignals, UnderWay
<1>5. RpcBuilt'
  <2>1. \A n : Pending(n)' = Pending(n)
    BY <1>1, <1>2 DEF Pending, PendingOf
  <2> QED BY <1>1, <1>2, <2>1 DEF RpcInv, RpcBuilt
<1>6. RpcStored'
  BY <1>1 DEF RpcInv, RpcStored, Bases
<1> QED BY <1>3, <1>4, <1>5, <1>6 DEF RpcInv

\* Every step of rpc mode, if no handler has to wait for room.
LEMMA RpcSteps ==
    ASSUME RpcInv, R!Next, Parallel <= OutputCapacity
    PROVE  RpcInv'
<1>1. ASSUME NEW m \in Msg, R!Handling(m)
      PROVE  RpcInv'
  <2>1. ~R!Offer(m)
    <3>1. R!H(m) = work.handler[m] /\ work.handler[m].pc # "wait"
      BY RpcHandlers DEF RpcInv, RpcTypes, RpcQueued
    <3> QED BY <3>1 DEF R!Offer
  <2> QED BY <1>1, <2>1, RpcSleep, RpcGet, RpcLoad, RpcLoaded, RpcHandleStep DEF R!Handling
<1>2. R!Msg = Msg
  BY RpcFields
<1> QED BY <1>1, <1>2, RpcReceive, RpcDequeue, RpcBreak, RpcCollect, RpcSink, RpcPutBack, RpcEnds, RpcAppendOther, RpcHandlerFails
    DEF R!Next, R!Output

\* What a handler does changes it alone, or what it leaves in the output queue
\* and in flight: the types hold whatever the capacities are.
LEMMA RpcAltered ==
    ASSUME RpcTypes, NEW m \in Msg, NEW h \in RpcHandler,
           work' = [work EXCEPT !.handler = [work.handler EXCEPT ![m] = h]],
           queue' = queue, store' = store, released' = released, state' \in RpcState, faults' = faults
    PROVE  RpcTypes'
<1>1. work \in RpcWork
  BY DEF RpcTypes
<1>2. /\ work' \in RpcWork /\ work'.out = work.out
      /\ work'.batch = work.batch /\ work'.back = work.back /\ work'.inflight = work.inflight
  BY <1>1, RpcAlters
<1> QED BY <1>2 DEF RpcTypes

\* The types hold while a handler gets its state.
LEMMA RpcAlteredStates ==
    ASSUME RpcTypes, NEW m \in Msg, R!Sleep(m) \/ R!Get(m) \/ R!Load(m) \/ R!Loaded(m)
    PROVE  RpcTypes'
<1>1. /\ work \in RpcWork /\ work.handler[m] \in RpcHandler /\ R!H(m) = work.handler[m] /\ state \in RpcState
      /\ work.handler[m].base \in Seq(Event) /\ state.held \in Seq(Event) /\ store \in Seq(Event)
  BY RpcHandlers DEF RpcTypes, RpcState
<1>2. CASE R!Sleep(m)
  <2> DEFINE h == [work.handler[m] EXCEPT !.pc = "get"]
  <2>1. h \in RpcHandler
    BY <1>1, RpcFields DEF RpcHandler
  <2>2. /\ work' = [work EXCEPT !.handler = [work.handler EXCEPT ![m] = h]]
        /\ queue' = queue /\ state' = state /\ store' = store /\ released' = released /\ faults' = faults
    BY <1>1, <1>2 DEF R!Sleep, R!At, RpcWork
  <2> HIDE DEF h
  <2> QED BY <1>1, <2>1, <2>2, RpcAltered
<1>3. CASE R!Get(m)
  <2> DEFINE pc == IF state.cached THEN "handle" ELSE "loading"
             h == [work.handler[m] EXCEPT !.pc = pc, !.current = TRUE, !.base = state.held]
  <2>1. h \in RpcHandler
    BY <1>1, RpcFields DEF RpcHandler
  <2>2. /\ work' = [work EXCEPT !.handler = [work.handler EXCEPT ![m] = h]]
        /\ queue' = queue /\ state' = state /\ store' = store /\ released' = released /\ faults' = faults
    BY <1>1, <1>3 DEF R!Get, RpcWork
  <2> HIDE DEF h
  <2> QED BY <1>1, <2>1, <2>2, RpcAltered
<1>4. CASE R!Load(m)
  <2> DEFINE h == [work.handler[m] EXCEPT !.pc = "loaded", !.base = store]
  <2>1. h \in RpcHandler
    BY <1>1, RpcFields DEF RpcHandler
  <2>2. /\ work' = [work EXCEPT !.handler = [work.handler EXCEPT ![m] = h]]
        /\ queue' = queue /\ state' = state /\ store' = store /\ released' = released /\ faults' = faults
    BY <1>1, <1>4 DEF R!Load, RpcWork
  <2> HIDE DEF h
  <2> QED BY <1>1, <2>1, <2>2, RpcAltered
<1>5. CASE R!Loaded(m)
  <2> DEFINE h == [work.handler[m] EXCEPT !.pc = "handle"]
  <2>1. h \in RpcHandler
    BY <1>1, RpcFields DEF RpcHandler
  <2>2. /\ work' = [work EXCEPT !.handler = [work.handler EXCEPT ![m] = h]]
        /\ state' = IF state.cached THEN state ELSE [state EXCEPT !.cached = TRUE, !.held = work.handler[m].base]
        /\ queue' = queue /\ store' = store /\ released' = released /\ faults' = faults
    BY <1>1, <1>5 DEF R!Loaded, R!At, RpcWork
  <2>3. state' \in RpcState
    BY <1>1, <2>2 DEF RpcState
  <2> HIDE DEF h
  <2> QED BY <2>1, <2>2, <2>3, RpcAltered
<1> QED BY <1>2, <1>3, <1>4, <1>5

\* The types hold when a message fails.
LEMMA RpcFailedTypes ==
    ASSUME RpcTypes, NEW m \in Msg, NEW e \in BOOLEAN, queue' = queue, store' = store, faults' \in Nat,
           work' = [R!At(m, "failed") EXCEPT !.error = e, !.inflight = work.inflight \ {R!Signal(m)}],
           released' = R!Release({m}, "unavailable"), state' \in RpcState
    PROVE  RpcTypes'
<1> DEFINE h == [work.handler[m] EXCEPT !.pc = "failed"]
           g == [work.handler EXCEPT ![m] = h]
           I == work.inflight \ {R!Signal(m)}
<1>1. /\ work \in RpcWork /\ work.handler[m] \in RpcHandler
  BY RpcHandlers DEF RpcTypes
<1>2. h \in RpcHandler
  BY <1>1, RpcFields DEF RpcHandler
<1>3. work' = [work EXCEPT !.handler = g, !.error = e, !.inflight = I]
  BY <1>1 DEF R!At, RpcWork
<1>4. g \in [Msg -> RpcHandler]
  BY <1>1, <1>2, RpcHandles
<1>5. "unavailable" \in RpcHows
  BY RpcFields
<1>6. released' \in [Msg -> RpcHows]
  BY <1>5, RpcReleases
<1>7. I \in SUBSET work.inflight
  OBVIOUS
<1>8. I \in SUBSET RpcSignal /\ IsFiniteSet(I) /\ Cardinality(I) <= Parallel
  BY <1>7, RpcFewer
<1> HIDE DEF h, g, I
<1>9. work' \in RpcWork /\ work'.out = work.out /\ work'.batch = work.batch /\ work'.inflight = I
  BY <1>1, <1>3, <1>4, <1>8 DEF RpcWork
<1> QED BY <1>6, <1>8, <1>9 DEF RpcTypes

\* The types hold when what is handled is refused, goes to the output queue
\* or waits for room.
LEMMA RpcRefusedTypes ==
    ASSUME RpcTypes, NEW m \in Msg, R!Refused(m), queue' = queue, store' = store, faults' = faults, state' \in RpcState
    PROVE  RpcTypes'
<1>1. work \in RpcWork /\ work.error \in BOOLEAN /\ faults' \in Nat
  BY DEF RpcTypes, RpcWork
<1>2. /\ work' = [R!At(m, "failed") EXCEPT !.error = work.error, !.inflight = work.inflight \ {R!Signal(m)}]
      /\ released' = R!Release({m}, "unavailable")
  BY <1>1 DEF R!Refused, R!At, RpcWork
<1> QED BY Zenon, <1>1, <1>2, RpcFailedTypes
LEMMA RpcEnqueueTypes ==
    ASSUME RpcTypes, NEW m \in Msg, queue' = queue, store' = store, released' = released, faults' = faults, state' \in RpcState,
           (work' = R!Enqueued(work, m) /\ R!HasOutputRoom) \/ work' = R!At(m, "wait")
    PROVE  RpcTypes'
<1>1. /\ work \in RpcWork /\ work.handler[m] \in RpcHandler /\ R!Signal(m) \in RpcSignal /\ work.out \in Seq(RpcSignal)
  BY RpcHandlers DEF RpcTypes
<1>3. CASE work' = R!Enqueued(work, m) /\ R!HasOutputRoom
  <2> DEFINE h == [work.handler[m] EXCEPT !.pc = "out"]
             g == [work.handler EXCEPT ![m] = h]
             o == Append(work.out, R!Signal(m))
  <2>1. h \in RpcHandler
    BY <1>1, RpcFields DEF RpcHandler
  <2>2. g \in [Msg -> RpcHandler]
    BY <1>1, <2>1, RpcHandles
  <2>3. work' = [work EXCEPT !.handler = g, !.out = o]
    BY <1>1, <1>3 DEF R!Enqueued, RpcWork
  <2>4. o \in Seq(RpcSignal) /\ Len(o) <= OutputCapacity
    <3>1. o \in Seq(RpcSignal) /\ Len(o) = Len(work.out) + 1 /\ Len(work.out) \in Nat /\ OutputCapacity \in Nat
      BY <1>1, AppendProperties, SizesAssumption
    <3> HIDE DEF o
    <3> QED BY <1>3, <3>1 DEF R!HasOutputRoom
  <2> HIDE DEF h, g, o
  <2>5. work' \in RpcWork /\ work'.out = o /\ work'.batch = work.batch /\ work'.inflight = work.inflight
    BY <1>1, <2>2, <2>3, <2>4 DEF RpcWork
  <2> QED BY <2>3, <2>4, <2>5 DEF RpcTypes
<1>4. CASE work' = R!At(m, "wait")
  <2> DEFINE h == [work.handler[m] EXCEPT !.pc = "wait"]
  <2>1. h \in RpcHandler
    BY <1>1, RpcFields DEF RpcHandler
  <2>2. work' = [work EXCEPT !.handler = [work.handler EXCEPT ![m] = h]]
    BY <1>1, <1>4 DEF R!At, RpcWork
  <2> HIDE DEF h
  <2> QED BY <2>1, <2>2, RpcAltered
<1> QED BY <1>3, <1>4

\* Whatever the capacities are, the types hold.
LEMMA RpcTypeSteps ==
    ASSUME RpcTypes, R!Next
    PROVE  RpcTypes'
<1>1. CASE R!Receive
  BY <1>1, RpcReceiveTypes
<1>2. CASE R!Dequeue
  BY <1>2, RpcDequeueTypes
<1>3. CASE R!Break
  BY <1>3, RpcBreakTypes
<1>4. CASE R!Collect
  BY <1>4, RpcCollectTypes
<1>5. CASE R!PutBack
  BY <1>5, RpcPutBackTypes
<1>6. CASE R!Sink
  <2>1. \E n \in 0 .. Len(work.batch), t \in Seq(Msg) : RpcTypes'
    BY <1>6, RpcSinks
  <2> QED BY <2>1
<1>7. CASE R!AppendOther
  <2>1. UNCHANGED <<queue, work, state, released, faults>> /\ store' = Append(store, 0)
    BY <1>7, RpcFields DEF R!AppendOther
  <2>2. store' \in Seq(Event)
    BY <2>1, RpcFields DEF RpcTypes
  <2> QED BY <2>1, <2>2 DEF RpcTypes
<1>8. ASSUME NEW m \in Msg, R!Handle(m)
      PROVE  RpcTypes'
  <2>1. /\ queue' = queue /\ store' = store /\ faults' = faults
        /\ \/ R!Refused(m)
           \/ released' = released /\ ((work' = R!Enqueued(work, m) /\ R!HasOutputRoom) \/ work' = R!At(m, "wait"))
    BY <1>8 DEF R!Handle
  <2>2. state' \in RpcState
    <3>1. /\ R!H(m) = work.handler[m] /\ work.handler[m].base \in Seq(Event) /\ state \in RpcState
      BY RpcHandlers DEF RpcTypes
    <3>2. Append(work.handler[m].base, m) \in Seq(Event)
      BY <3>1, RpcFields
    <3> QED BY <1>8, <3>1, <3>2 DEF R!Handle, RpcState
  <2> QED BY <2>1, <2>2, RpcEnqueueTypes, RpcRefusedTypes
<1>9. ASSUME NEW m \in Msg, R!Offer(m)
      PROVE  RpcTypes'
  <2>1. /\ queue' = queue /\ store' = store /\ faults' = faults /\ state' = state
        /\ R!Refused(m) \/ (released' = released /\ work' = R!Enqueued(work, m) /\ R!HasOutputRoom)
    BY <1>9 DEF R!Offer
  <2>2. state' \in RpcState
    BY <2>1 DEF RpcTypes
  <2> QED BY <2>1, <2>2, RpcEnqueueTypes, RpcRefusedTypes
<1>10. ASSUME NEW m \in Msg, R!HandlerFails(m)
       PROVE  RpcTypes'
  <2>1. queue' = queue /\ store' = store /\ state' = state /\ faults' = faults + 1
    BY <1>10 DEF R!HandlerFails
  <2>2. state' \in RpcState /\ faults' \in Nat
    BY <2>1 DEF RpcTypes
  <2>3. /\ work' = [R!At(m, "failed") EXCEPT !.error = TRUE, !.inflight = work.inflight \ {R!Signal(m)}]
        /\ released' = R!Release({m}, "unavailable")
    BY <1>10 DEF R!HandlerFails, R!At, RpcTypes, RpcWork
  <2> QED BY Zenon, <2>1, <2>2, <2>3, RpcFailedTypes
<1>11. \/ R!Receive \/ R!Dequeue \/ R!Break \/ R!Collect \/ R!PutBack \/ R!Sink \/ R!OutputEnds \/ R!AppendOther
       \/ \E m \in Msg : (R!Sleep(m) \/ R!Get(m) \/ R!Load(m) \/ R!Loaded(m)) \/ R!Handle(m) \/ R!Offer(m) \/ R!HandlerFails(m)
  BY RpcFields DEF R!Next, R!Output, R!Handling
<1>12. CASE R!OutputEnds
  BY <1>12, RpcOutputEnds DEF RpcTypes
<1> QED BY <1>1, <1>2, <1>3, <1>4, <1>5, <1>6, <1>7, <1>8, <1>9, <1>10, <1>11, <1>12, RpcAlteredStates

\* What the types say of the type invariant.
LEMMA RpcTypesImply ==
    ASSUME RpcTypes
    PROVE  R!TypeOK
<1>1. \A m \in R!Msg : work.handler[m].pc \in RpcPCs
  BY RpcFields DEF RpcTypes, RpcWork, RpcHandler
<1>2. /\ queue.next \in RpcNumbers /\ queue.open \in BOOLEAN /\ queue.late \in BOOLEAN /\ queue.high \in Seq(Msg) /\ queue.low \in Seq(Msg)
      /\ Len(queue.low) <= InputCapacity /\ Len(queue.high) <= InputCapacity
  BY DEF RpcTypes, RpcQueue
<1>3. /\ work.loop \in RpcLoops /\ work.ended \in BOOLEAN /\ work.out \in Seq(RpcSignal) /\ work.batch \in Seq(RpcSignal) /\ work.back \in Seq(RpcSignal)
      /\ Len(work.out) <= OutputCapacity /\ Len(work.batch) <= MaxBatch /\ work.inflight \subseteq RpcSignal
      /\ R!Cardinality(work.inflight) <= Parallel
  BY RpcCardinality DEF RpcTypes, RpcWork
<1>4. released \in [Msg -> RpcHows]
  BY DEF RpcTypes
<1> QED BY <1>1, <1>2, <1>3, <1>4, RpcFields DEF R!TypeOK, RpcPCs, RpcNumbers, RpcLoops, RpcHows

\* What the invariant says of the property.
LEMMA RpcImplies ==
    ASSUME RpcInv
    PROVE  R!HandledOnItsState
<1>1. \A m \in Msg : R!Contains(store, m) <=> m \in ToSet(store)
  BY DEF R!Contains, ToSet
<1>2. store \in Seq(Event)
  BY DEF RpcInv, RpcTypes
<1>3. \A i \in DOMAIN store : store[i] # 0 => R!H(store[i]).base = SubSeq(store, 1, i - 1)
  <2>1. TAKE i \in DOMAIN store
  <2>2. HAVE store[i] # 0
  <2>3. store[i] \in Msg
    BY <1>2, <2>2 DEF Event
  <2>4. Bases[store[i]] = work.handler[store[i]].base
    BY <2>3 DEF Bases
  <2> QED BY <2>2, <2>4 DEF RpcInv, RpcStored, StoredOn, R!H
<1>4. \A i, j \in DOMAIN store : store[i] = store[j] /\ store[i] # 0 => i = j
  BY DEF RpcInv, RpcStored, Distinct
<1>5. \A m \in Msg : released[m] = "ok" <=> R!Contains(store, m)
  BY <1>1 DEF RpcInv, RpcStored
<1> QED BY <1>3, <1>4, <1>5, RpcFields DEF R!HandledOnItsState

\* A step that changes nothing keeps the types of rpc mode.
LEMMA RpcTypesStutter ==
    ASSUME RpcTypes, UNCHANGED all
    PROVE  RpcTypes'
BY DEF RpcTypes, all

\* A step that changes nothing keeps the invariant of rpc mode,
LEMMA RpcStutter ==
    ASSUME RpcInv, UNCHANGED all
    PROVE  RpcInv'
<1>1. RpcTypes'
  BY RpcTypesStutter DEF RpcInv
<1>2. RpcLine'
  BY DEF RpcInv, RpcLine, Line, all
<1>3. RpcQueued'
  BY DEF RpcInv, RpcQueued, Line, all
<1>4. RpcSignals'
  BY DEF RpcInv, RpcSignals, UnderWay, Line, all
<1>5. RpcBuilt'
  BY DEF RpcInv, RpcBuilt, Pending, Line, all
<1>6. RpcStored'
  BY DEF RpcInv, RpcStored, Bases, all
<1> QED BY <1>1, <1>2, <1>3, <1>4, <1>5, <1>6 DEF RpcInv

\* that of serial mode,
LEMMA SerialStutter ==
    ASSUME SerialInv, UNCHANGED all
    PROVE  SerialInv'
<1>1. SerialTypes'
  BY DEF SerialInv, SerialTypes, all
<1>2. SerialPlaces'
  BY DEF SerialInv, SerialPlaces, SerialFree, SerialHandles, all
<1>3. SerialStored'
  BY DEF SerialInv, SerialStored, all
<1> QED BY <1>1, <1>2, <1>3 DEF SerialInv

\* that of the application,
LEMMA AppStutter ==
    ASSUME AppInv, UNCHANGED all
    PROVE  AppInv'
<1>1. AppTypes'
  BY DEF AppInv, AppTypes, all
<1>2. AppPhases'
  BY DEF AppInv, AppPhases, A!InProgress, all
<1>3. AppStored'
  BY DEF AppInv, AppStored, all
<1> QED BY <1>1, <1>2, <1>3 DEF AppInv

\* and that of the state cache.
LEMMA CacheStutter ==
    ASSUME CacheInv, UNCHANGED all
    PROVE  CacheInv'
<1>1. CacheTypes'
  BY DEF CacheInv, CacheTypes, all
<1>2. CacheQueued'
  BY DEF CacheInv, CacheQueued, all
<1>3. CacheStored'
  BY DEF CacheInv, CacheStored, CacheBases, all
<1>4. CacheBuilt'
  BY DEF CacheInv, CacheBuilt, CacheBuiltOf, Queued, all
<1> QED BY <1>1, <1>2, <1>3, <1>4 DEF CacheInv

(***************************************************************************)
(* The four, one of which runs.                                            *)
(***************************************************************************)
PipelineTypes ==
  /\ adapter \in {"rpc", "serial", "application", "cache"}
  /\ Is("rpc") => RpcTypes
  /\ Is("serial") => SerialInv
  /\ Is("application") => AppInv
  /\ Is("cache") => CacheInv
PipelineInv == PipelineTypes /\ adapter \in Adapters /\ (Is("rpc") => RpcInv)

\* The way that is chosen starts in its initial state.
LEMMA PipelineInitially ==
    ASSUME Init
    PROVE  PipelineInv
<1>1. adapter \in Adapters
  BY DEF Init
<1>2. CASE Is("rpc") /\ R!Init
  <2>1. RpcInv /\ RpcTypes
    BY <1>2, RpcInitially DEF RpcInv
  <2> QED BY <1>1, <1>2, <2>1 DEF PipelineInv, PipelineTypes, Is
<1>3. CASE Is("serial") /\ S!Init
  <2>1. SerialInv
    BY <1>3, SerialInitially
  <2> QED BY <1>1, <1>3, <2>1 DEF PipelineInv, PipelineTypes, Is
<1>4. CASE Is("application") /\ A!Init
  <2>1. AppInv
    BY <1>4, AppInitially
  <2> QED BY <1>1, <1>4, <2>1 DEF PipelineInv, PipelineTypes, Is
<1>5. CASE Is("cache") /\ C!Init
  <2>1. CacheInv
    BY <1>5, CacheInitially
  <2> QED BY <1>1, <1>5, <2>1 DEF PipelineInv, PipelineTypes, Is
<1> QED BY <1>2, <1>3, <1>4, <1>5 DEF Init

\* A step of the way that was chosen keeps its types.
LEMMA PipelineTypesStep ==
    ASSUME PipelineTypes, [Next]_all
    PROVE  PipelineTypes'
<1>1. CASE UNCHANGED all
  <2>1. adapter' = adapter
    BY <1>1 DEF all
  <2>2. /\ Is("rpc") => RpcTypes'
        /\ Is("serial") => SerialInv'
        /\ Is("application") => AppInv'
        /\ Is("cache") => CacheInv'
    BY <1>1, RpcTypesStutter, SerialStutter, AppStutter, CacheStutter DEF PipelineTypes
  <2> QED BY <2>1, <2>2 DEF PipelineTypes, Is
<1>2. CASE Next /\ Is("rpc") /\ R!Next
  <2>1. RpcTypes' /\ adapter' = adapter
    BY <1>2, RpcTypeSteps DEF PipelineTypes, Next
  <2> QED BY <1>2, <2>1 DEF PipelineTypes, Is
<1>3. CASE Next /\ Is("serial") /\ S!Next
  <2>1. SerialInv' /\ adapter' = adapter
    BY <1>3, SerialSteps DEF PipelineTypes, Next
  <2> QED BY <1>3, <2>1 DEF PipelineTypes, Is
<1>4. CASE Next /\ Is("application") /\ A!Next
  <2>1. AppInv' /\ adapter' = adapter
    BY <1>4, AppSteps DEF PipelineTypes, Next
  <2> QED BY <1>4, <2>1 DEF PipelineTypes, Is
<1>5. CASE Next /\ Is("cache") /\ C!Next
  <2>1. CacheInv' /\ adapter' = adapter
    BY <1>5, CacheSteps DEF PipelineTypes, Next
  <2> QED BY <1>5, <2>1 DEF PipelineTypes, Is
<1> QED BY <1>1, <1>2, <1>3, <1>4, <1>5 DEF Next

\* A step of the way that was chosen keeps its invariant.
LEMMA PipelineStep ==
    ASSUME PipelineInv, [Next]_all, "rpc" \in Adapters => Parallel <= OutputCapacity
    PROVE  PipelineInv'
<1>1. PipelineTypes' /\ adapter' = adapter
  BY PipelineTypesStep DEF PipelineInv, Next, all
<1>2. Is("rpc") => RpcInv'
  <2> SUFFICES ASSUME Is("rpc") PROVE RpcInv'
    OBVIOUS
  <2>1. RpcInv /\ Parallel <= OutputCapacity
    BY DEF PipelineInv, Is
  <2>2. CASE UNCHANGED all
    BY <2>1, <2>2, RpcStutter
  <2>3. CASE Next
    <3>1. R!Next
      BY <2>3 DEF Next, Is
    <3> QED BY <2>1, <3>1, RpcSteps
  <2> QED BY <2>2, <2>3
<1> QED BY <1>1, <1>2 DEF PipelineInv, Is

\* Every variable has its type; no queue of the rpc mode holds more than its
\* capacity and no more handlers are under way than maximumParallelRpcRequests
\* (RpcMessageProcessor 31-60, 90-150), whatever the sizes are.
THEOREM PipelineTypeCorrect == Spec => []TypeOK
<1>1. Init => PipelineTypes
  BY PipelineInitially DEF PipelineInv
<1>2. PipelineTypes /\ [Next]_all => PipelineTypes'
  BY PipelineTypesStep
<1>3. PipelineTypes => TypeOK
  <2> SUFFICES ASSUME PipelineTypes PROVE TypeOK
    OBVIOUS
  <2>1. CASE Is("rpc")
    <3>1. R!TypeOK
      BY <2>1, RpcTypesImply DEF PipelineTypes
    <3> QED BY <2>1, <3>1 DEF TypeOK, Is
  <2>2. CASE Is("serial")
    <3>1. S!TypeOK
      BY <2>2, SerialImplies DEF PipelineTypes
    <3> QED BY <2>2, <3>1 DEF TypeOK, Is
  <2>3. CASE Is("application")
    <3>1. A!TypeOK
      BY <2>3, AppImplies DEF PipelineTypes
    <3> QED BY <2>3, <3>1 DEF TypeOK, Is
  <2>4. CASE Is("cache")
    <3>1. C!TypeOK
      BY <2>4, CacheImplies DEF PipelineTypes
    <3> QED BY <2>4, <3>1 DEF TypeOK, Is
  <2> QED BY <2>1, <2>2, <2>3, <2>4 DEF PipelineTypes, Is
<1> QED BY <1>1, <1>2, <1>3, PTL DEF Spec

\* Every event that is stored was computed from exactly the events stored
\* before it, is stored once and its message alone is released as handled, in
\* rpc mode, in serial mode and with the state cache (but for the keys whose
\* epoch it forgot); the components of an application are ready while messages
\* are handled.  In rpc mode no handler may have to wait for room in the output
\* queue, which the defaults give: 5000 places for 500 handlers.
THEOREM HandledOnItsStateHolds ==
    ASSUME "rpc" \in Adapters => Parallel <= OutputCapacity
    PROVE  Spec => []HandledOnItsState
<1>1. Init => PipelineInv
  BY PipelineInitially
<1>2. PipelineInv /\ [Next]_all => PipelineInv'
  BY PipelineStep
<1>3. PipelineInv => HandledOnItsState
  <2> SUFFICES ASSUME PipelineInv PROVE HandledOnItsState
    OBVIOUS
  <2>1. Is("rpc") => R!HandledOnItsState
    BY RpcImplies DEF PipelineInv
  <2>2. Is("serial") => S!HandledOnItsState
    BY SerialImplies DEF PipelineInv, PipelineTypes
  <2>3. Is("application") => A!EndsInOrder
    BY AppImplies DEF PipelineInv, PipelineTypes
  <2>4. Is("cache") => C!HandledOnItsState
    BY CacheImplies DEF PipelineInv, PipelineTypes
  <2> QED BY <2>1, <2>2, <2>3, <2>4 DEF HandledOnItsState
<1> QED BY <1>1, <1>2, <1>3, PTL DEF Spec
=============================================================================
