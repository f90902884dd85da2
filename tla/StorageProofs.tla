--------------------------- MODULE StorageProofs ---------------------------
(***************************************************************************)
(* What StorageAdapters promises of the adapters that write to a service   *)
(* and load from one, proved for any number of instances, inputs,          *)
(* snapshots, parts, retries and faults.                                   *)
(***************************************************************************)
EXTENDS StorageAdapters, SequenceLemmas

-----------------------------------------------------------------------------
(* The sinks.  A batch is turned into requests that have every message of  *)
(* it, those for one destination in their order.                           *)

SinkMsg == UNION {ToSet(Batches[b]) : b \in DOMAIN Batches}
Less == {p \in Nat \X Nat : p[1] < p[2]}
InDest == {p \in Nat \X Nat : Dest[p[1]] = Dest[p[2]] => p[1] < p[2]}

\* The instance of Sinks has its own copies of the operators of the community
\* modules.
LEMMA SinkNames ==
    /\ \A s : S!ToSet(s) = ToSet(s) /\ S!FlattenSeq(s) = FlattenSeq(s)
    /\ \A s, P : S!Those(s, P) = Those(s, P)
    /\ \A T : S!Max(T) = Max(T) /\ S!Min(T) = Min(T)
    /\ S!Msg = SinkMsg
<1>1. \A s : S!ToSet(s) = ToSet(s)  BY DEF S!ToSet, ToSet
<1>2. \A s : S!FlattenSeq(s) = FlattenSeq(s)  BY DEF S!FlattenSeq, FlattenSeq
<1>3. \A s, P : S!Those(s, P) = Those(s, P)  BY <1>2 DEF S!Those, Those
<1>4. \A T : S!Max(T) = Max(T) /\ S!Min(T) = Min(T)  BY DEF S!Max, Max, S!Min, Min
<1>5. S!Msg = SinkMsg  BY <1>1 DEF S!Msg, SinkMsg
<1>6. QED  BY <1>1, <1>2, <1>3, <1>4, <1>5

\* A batch.
LEMMA BatchProperties ==
    ASSUME NEW b \in DOMAIN Batches
    PROVE  /\ Batches[b] \in Seq(SinkMsg) /\ SortedBy(Batches[b], Less)
           /\ ToSet(Batches[b]) \subseteq SinkMsg /\ SinkMsg \subseteq Nat
<1>1. Batches \in Seq(Seq(Nat)) /\ \A c \in DOMAIN Batches : Batches[c] \in Seq(Nat)
  <2>1. Batches \in Seq(Seq(Nat))  BY BatchesAssumption
  <2>2. QED  BY <2>1
<1>2. SinkMsg \subseteq Nat
  <2>1. \A c \in DOMAIN Batches : \A i \in DOMAIN Batches[c] : Batches[c][i] \in Nat  BY <1>1
  <2>2. QED  BY <2>1 DEF SinkMsg, ToSet
<1>3. ToSet(Batches[b]) \subseteq SinkMsg  BY DEF SinkMsg
<1>4. Batches[b] \in Seq(SinkMsg)
  <2> DEFINE s == Batches[b]
  <2>1. s \in Seq(Nat) /\ \A i \in DOMAIN s : s[i] \in ToSet(s)  BY <1>1 DEF ToSet
  <2>2. \A i \in DOMAIN s : s[i] \in SinkMsg  BY <1>3, <2>1
  <2> HIDE DEF s
  <2>3. s \in Seq(SinkMsg)  BY <2>1, <2>2
  <2>4. QED  BY <2>3 DEF s
<1>5. SortedBy(Batches[b], Less)
  <2>1. \A i, j \in DOMAIN Batches[b] : i < j => Batches[b][i] < Batches[b][j]  BY BatchesAssumption
  <2>2. \A i \in DOMAIN Batches[b] : Batches[b][i] \in Nat
    BY <1>1
  <2>3. QED  BY <2>1, <2>2 DEF SortedBy, Less
<1>6. QED  BY <1>2, <1>3, <1>4, <1>5

\* The first message for each destination.
LEMMA FirstsProperties ==
    ASSUME NEW s \in Seq(SinkMsg), SortedBy(s, Less), SinkMsg \subseteq Nat
    PROVE  /\ S!Firsts(s) \in Seq(SinkMsg) /\ ToSet(S!Firsts(s)) \subseteq ToSet(s)
           /\ \A i, j \in DOMAIN S!Firsts(s) : i < j => Dest[S!Firsts(s)[i]] # Dest[S!Firsts(s)[j]]
           /\ \A m \in ToSet(s) : \E i \in DOMAIN S!Firsts(s) : Dest[S!Firsts(s)[i]] = Dest[m]
<1> DEFINE I == {x \in DOMAIN s : \A y \in 1..(x - 1) : Dest[s[y]] # Dest[s[x]]}
           P == {s[i] : i \in I}
           f == S!Firsts(s)
<1>1. f = Those(s, P)  BY SinkNames DEF S!Firsts
<1>2. Len(s) \in Nat /\ DOMAIN s = 1..Len(s) /\ \A i \in DOMAIN s : s[i] \in SinkMsg /\ s[i] \in Nat
  <2>1. Len(s) \in Nat /\ DOMAIN s = 1..Len(s) /\ \A i \in DOMAIN s : s[i] \in SinkMsg  OBVIOUS
  <2>2. QED  BY <2>1
<1> HIDE DEF P, f
<1>3. f \in Seq(SinkMsg) /\ ToSet(f) = ToSet(s) \cap P /\ SortedBy(f, Less)
  BY <1>1, ThoseProperties
<1>4. \A i \in DOMAIN f : f[i] \in P  BY <1>3 DEF ToSet
<1>5. ASSUME NEW i \in DOMAIN f, NEW j \in DOMAIN f, i < j PROVE Dest[f[i]] # Dest[f[j]]
  <2>1. PICK x \in I, y \in I : f[i] = s[x] /\ f[j] = s[y]  BY <1>4 DEF P
  <2>2. s[x] < s[y]
    <3>1. <<f[i], f[j]>> \in Less  BY <1>3, <1>5 DEF SortedBy
    <3>2. QED  BY <2>1, <3>1 DEF Less
  <2>3. x < y
    <3>1. x \in 1..Len(s) /\ y \in 1..Len(s) /\ s[x] \in Nat /\ s[y] \in Nat  BY <1>2
    <3>2. x # y  BY <2>2, <3>1
    <3>3. CASE y < x
      <4>1. <<s[y], s[x]>> \in Less  BY <3>3 DEF SortedBy
      <4>2. QED  BY <2>2, <3>1, <4>1 DEF Less
    <3>4. QED  BY <3>1, <3>2, <3>3
  <2>4. x \in 1..(y - 1)  BY <1>2, <2>3
  <2>5. QED  BY <2>1, <2>4
<1>6. ASSUME NEW m \in ToSet(s) PROVE \E i \in DOMAIN f : Dest[f[i]] = Dest[m]
  <2> DEFINE X == {x \in DOMAIN s : Dest[s[x]] = Dest[m]}
  <2>1. X \subseteq Nat /\ X # {}  BY <1>2 DEF ToSet
  <2>2. PICK x \in X : \A y \in X : x <= y
    <3> HIDE DEF X
    <3>1. QED  BY <2>1, LeastElement
  <2>3. \A y \in 1..(x - 1) : Dest[s[y]] # Dest[s[x]]
    <3>1. \A y \in 1..(x - 1) : y \in DOMAIN s /\ ~(x <= y)  BY <1>2
    <3>2. QED  BY <2>2, <3>1
  <2>4. s[x] \in ToSet(s) \cap P  BY <2>3 DEF P, ToSet
  <2>5. \E i \in DOMAIN f : f[i] = s[x]  BY <1>3, <2>4 DEF ToSet
  <2>6. QED  BY <2>5
<1>7. QED  BY <1>3, <1>5, <1>6 DEF f

\* What the requests for a batch must be.
RequestsFor(r, s) ==
    /\ r \in Seq(Seq(SinkMsg)) /\ \A i \in DOMAIN r : r[i] # <<>>
    /\ ToSet(FlattenSeq(r)) = ToSet(s)

\* A request for each destination,
LEMMA ByDestProperties ==
    ASSUME NEW s \in Seq(SinkMsg), SortedBy(s, Less), SinkMsg \subseteq Nat
    PROVE  /\ RequestsFor(S!ByDest(s), s) /\ SortedBy(FlattenSeq(S!ByDest(s)), InDest)
           /\ FlattenSeq(S!ByDest(s)) \in Seq(SinkMsg)
<1> DEFINE f == S!Firsts(s)
           P(i) == {m \in ToSet(s) : Dest[m] = Dest[f[i]]}
           r == S!ByDest(s)
<1>1. /\ f \in Seq(SinkMsg) /\ ToSet(f) \subseteq ToSet(s)
      /\ \A i, j \in DOMAIN f : i < j => Dest[f[i]] # Dest[f[j]]
      /\ \A m \in ToSet(s) : \E i \in DOMAIN f : Dest[f[i]] = Dest[m]
  BY FirstsProperties
<1> HIDE DEF f
<1>2. r = [i \in DOMAIN f |-> Those(s, P(i))]  BY SinkNames DEF S!ByDest, f
<1>3. SortedBy(s, InDest)
  <2>1. Less \subseteq InDest  BY DEF Less, InDest
  <2>2. QED  BY <2>1 DEF SortedBy
<1>4. \A i \in DOMAIN f :
        Those(s, P(i)) \in Seq(SinkMsg) /\ ToSet(Those(s, P(i))) = P(i) /\ SortedBy(Those(s, P(i)), InDest)
  <2>1. ASSUME NEW i \in DOMAIN f
        PROVE  Those(s, P(i)) \in Seq(SinkMsg) /\ ToSet(Those(s, P(i))) = P(i) /\ SortedBy(Those(s, P(i)), InDest)
    <3> DEFINE Q == P(i)
    <3>1. Q \subseteq ToSet(s)  OBVIOUS
    <3> HIDE DEF Q
    <3>2. Those(s, Q) \in Seq(SinkMsg) /\ ToSet(Those(s, Q)) = ToSet(s) \cap Q /\ SortedBy(Those(s, Q), InDest)
      BY <1>3, ThoseProperties
    <3>3. QED  BY <3>1, <3>2 DEF Q
  <2>2. QED  BY <2>1
<1>5. /\ r \in Seq(Seq(SinkMsg)) /\ DOMAIN r = DOMAIN f
      /\ \A i \in DOMAIN f : ToSet(r[i]) = P(i) /\ SortedBy(r[i], InDest)
  <2>1. Len(f) \in Nat /\ DOMAIN f = 1..Len(f)  BY <1>1
  <2>2. r \in [1..Len(f) -> Seq(SinkMsg)]  BY <1>2, <1>4, <2>1
  <2>3. r \in Seq(Seq(SinkMsg)) /\ DOMAIN r = DOMAIN f  BY <2>1, <2>2
  <2>4. \A i \in DOMAIN f : r[i] = Those(s, P(i))  BY <1>2
  <2>5. QED  BY <1>4, <2>3, <2>4
<1> HIDE DEF r
<1>6. \A i \in DOMAIN r : r[i] # <<>>
  <2>1. \A i \in DOMAIN f : f[i] \in P(i)  BY <1>1 DEF ToSet
  <2>2. ToSet(<<>>) = {}  BY DEF ToSet
  <2>3. QED  BY <1>5, <2>1, <2>2
<1>7. ToSet(FlattenSeq(r)) = ToSet(s) /\ FlattenSeq(r) \in Seq(SinkMsg)
  <2>1. ToSet(FlattenSeq(r)) = UNION {ToSet(r[i]) : i \in DOMAIN r} /\ FlattenSeq(r) \in Seq(SinkMsg)
    BY <1>5, FlattenElements, FlattenType
  <2>2. \A m \in ToSet(s) : \E i \in DOMAIN f : m \in P(i)  BY <1>1
  <2>3. QED  BY <1>5, <2>1, <2>2
<1>8. SortedBy(FlattenSeq(r), InDest)
  <2>1. ASSUME NEW i \in DOMAIN r, NEW j \in DOMAIN r, i < j, NEW a \in ToSet(r[i]), NEW b \in ToSet(r[j])
        PROVE  <<a, b>> \in InDest
    <3>1. Dest[a] = Dest[f[i]] /\ Dest[b] = Dest[f[j]] /\ a \in ToSet(s) /\ b \in ToSet(s)  BY <1>5
    <3>2. Dest[a] # Dest[b]  BY <1>1, <1>5, <2>1, <3>1
    <3>3. \A i1 \in DOMAIN s : s[i1] \in SinkMsg  OBVIOUS
    <3>4. a \in Nat /\ b \in Nat  BY <3>1, <3>3 DEF ToSet
    <3>5. QED  BY <3>2, <3>4 DEF InDest
  <2>2. QED  BY <1>5, <2>1, FlattenSorted
<1>9. QED  BY <1>5, <1>6, <1>7, <1>8 DEF RequestsFor, r

\* or for each message.
LEMMA SinglesProperties ==
    ASSUME NEW s \in Seq(SinkMsg), NEW R
    PROVE  RequestsFor(S!Singles(s), s) /\ (SortedBy(s, R) => SortedBy(FlattenSeq(S!Singles(s)), R))
<1> DEFINE r == S!Singles(s)
<1>1. r = [i \in DOMAIN s |-> <<s[i]>>]  BY DEF S!Singles
<1>2. r \in Seq(Seq(SinkMsg)) /\ DOMAIN r = DOMAIN s
  <2>1. Len(s) \in Nat /\ DOMAIN s = 1..Len(s) /\ \A i \in DOMAIN s : <<s[i]>> \in Seq(SinkMsg)  OBVIOUS
  <2>2. r \in [1..Len(s) -> Seq(SinkMsg)]  BY <1>1, <2>1
  <2>3. QED  BY <2>1, <2>2
<1>3. \A i \in DOMAIN r : r[i] = <<s[i]>>  BY <1>1, <1>2
<1>4. \A i \in DOMAIN r : r[i] # <<>> /\ ToSet(r[i]) = {s[i]} /\ SortedBy(r[i], R)
  BY <1>3 DEF ToSet, SortedBy
<1> HIDE DEF r
<1>5. ToSet(FlattenSeq(r)) = ToSet(s)
  <2>1. ToSet(FlattenSeq(r)) = UNION {ToSet(r[i]) : i \in DOMAIN r}  BY <1>2, FlattenElements
  <2>2. ToSet(s) = UNION {{s[i]} : i \in DOMAIN s}  BY DEF ToSet
  <2>3. QED  BY <1>2, <1>4, <2>1, <2>2
<1>6. ASSUME SortedBy(s, R) PROVE SortedBy(FlattenSeq(r), R)
  <2>1. \A i, j \in DOMAIN r : i < j => \A a \in ToSet(r[i]), b \in ToSet(r[j]) : <<a, b>> \in R
    BY <1>2, <1>4, <1>6 DEF SortedBy
  <2>2. QED  BY <1>2, <1>4, <2>1, FlattenSorted
<1>7. QED  BY <1>2, <1>4, <1>5, <1>6 DEF RequestsFor, r

\* Those of BigQuerySink have the rows of a table in slices.
LEMMA SlicesProperties ==
    ASSUME NEW s \in Seq(SinkMsg)
    PROVE  RequestsFor(S!Slices(s), s)
<1> DEFINE L == Len(s)
           R == RowsPerRequest
           q == (L + R - 1) \div R
           E(i) == IF i * R <= L THEN i * R ELSE L
           piece(i) == SubSeq(s, (i - 1) * R + 1, E(i))
           r == S!Slices(s)
<1>1. L \in Nat /\ R \in Nat \ {0} /\ DOMAIN s = 1..L  BY SizesAssumption
<1> HIDE DEF R
<1>2. q \in Nat /\ q * R >= L /\ (q >= 1 => (q - 1) * R < L)
  <2> HIDE DEF L
  <2>1. q \in Nat /\ q * R >= L /\ (q - 1) * R < L  BY <1>1
  <2>2. QED  BY <2>1
<1>3. r = [i \in 1..q |-> piece(i)]
  <2>1. \A i \in 1..q : Min({i * R, L}) = E(i)
    <3>1. \A i \in 1..q : i * R \in Int /\ L \in Int  BY <1>1, <1>2
    <3> HIDE DEF L, q
    <3>2. QED  BY <3>1, MinOfTwo
  <2>2. r = [i \in 1..q |-> SubSeq(s, (i - 1) * R + 1, Min({i * R, L}))]
    BY SinkNames DEF S!Slices, R
  <2> HIDE DEF r, q
  <2>3. QED  BY <2>1, <2>2
<1> HIDE DEF L, q, r
<1>4. ASSUME NEW i \in 1..q
      PROVE  (i - 1) * R \in Nat /\ E(i) \in Nat /\ (i - 1) * R < E(i) /\ E(i) <= L
  <2>0. i \in Nat /\ i >= 1 /\ i <= q  BY <1>2
  <2>1. (i - 1) * R <= (q - 1) * R  BY <1>1, <1>2, <2>0
  <2>2. (i - 1) * R + R = i * R /\ (i - 1) * R \in Nat /\ i * R \in Nat  BY <1>1, <2>0
  <2>3. (q - 1) * R \in Int /\ (q - 1) * R < L  BY <1>1, <1>2, <2>0
  <2>4. (i - 1) * R < L  BY <1>1, <2>1, <2>2, <2>3
  <2> DEFINE x == (i - 1) * R
             y == i * R
  <2>5. x \in Nat /\ y \in Nat /\ x + R = y /\ x < L  BY <2>2, <2>4
  <2> HIDE DEF x, y
  <2>6. /\ (IF y <= L THEN y ELSE L) \in Nat /\ x < (IF y <= L THEN y ELSE L)
        /\ (IF y <= L THEN y ELSE L) <= L
    BY <1>1, <2>5
  <2>7. QED  BY <2>2, <2>6 DEF x, y
<1>5. \A a \in Nat, b \in Nat : a < b /\ b <= L =>
         /\ SubSeq(s, a + 1, b) \in Seq(SinkMsg) /\ Len(SubSeq(s, a + 1, b)) = b - a
         /\ \A j \in 1..(b - a) : SubSeq(s, a + 1, b)[j] = s[a + j]
  BY DEF L
<1>6. ASSUME NEW i \in 1..q
      PROVE  /\ piece(i) \in Seq(SinkMsg) /\ piece(i) # <<>>
             /\ ToSet(piece(i)) = {s[j] : j \in ((i - 1) * R + 1)..E(i)}
  <2> DEFINE a == (i - 1) * R
             b == E(i)
             p == piece(i)
  <2>1. a \in Nat /\ b \in Nat /\ a < b /\ b <= L  BY <1>4
  <2>2. /\ SubSeq(s, a + 1, b) \in Seq(SinkMsg) /\ Len(SubSeq(s, a + 1, b)) = b - a
        /\ \A j \in 1..(b - a) : SubSeq(s, a + 1, b)[j] = s[a + j]
    <3> HIDE DEF a, b
    <3>1. QED  BY <1>5, <2>1
  <2>3. p = SubSeq(s, a + 1, b)  OBVIOUS
  <2> HIDE DEF a, b, p
  <2>4. p \in Seq(SinkMsg) /\ Len(p) = b - a /\ DOMAIN p = 1..(b - a) /\ \A j \in 1..(b - a) : p[j] = s[a + j]
    BY <2>2, <2>3
  <2>5. p # <<>>  BY <2>1, <2>4
  <2>6. ToSet(p) = {s[j] : j \in (a + 1)..b}
    <3>1. \A j \in 1..(b - a) : a + j \in (a + 1)..b  BY <2>1
    <3>2. \A j \in (a + 1)..b : j - a \in 1..(b - a) /\ a + (j - a) = j  BY <2>1
    <3>3. \A j \in (a + 1)..b : p[j - a] = s[j]  BY <2>4, <3>2
    <3>4. QED  BY <2>4, <3>1, <3>2, <3>3 DEF ToSet
  <2>7. QED  BY <2>4, <2>5, <2>6 DEF a, b, p
<1>7. r \in Seq(Seq(SinkMsg)) /\ DOMAIN r = 1..q /\ \A i \in 1..q : r[i] = piece(i)
  <2> HIDE DEF piece
  <2>1. r \in [1..q -> Seq(SinkMsg)]  BY <1>3, <1>6
  <2>2. QED  BY <1>2, <1>3, <2>1
<1>8. \A i \in DOMAIN r : r[i] # <<>>  BY <1>6, <1>7
<1>9. ToSet(FlattenSeq(r)) = UNION {ToSet(r[i]) : i \in 1..q}  BY <1>7, FlattenElements
<1>10. ToSet(FlattenSeq(r)) \subseteq ToSet(s)
  <2>1. ASSUME NEW i \in 1..q PROVE ToSet(r[i]) \subseteq ToSet(s)
    <3>1. \A j \in ((i - 1) * R + 1)..E(i) : j \in 1..L
      <4> DEFINE a == (i - 1) * R
                 b == E(i)
      <4>1. a \in Nat /\ b \in Nat /\ b <= L  BY <1>4
      <4> HIDE DEF a, b
      <4>2. \A j \in (a + 1)..b : j \in 1..L  BY <1>1, <4>1
      <4>3. QED  BY <4>2 DEF a, b
    <3>2. ToSet(r[i]) = {s[j] : j \in ((i - 1) * R + 1)..E(i)}  BY <1>6, <1>7
    <3>3. QED  BY <1>1, <3>1, <3>2 DEF ToSet
  <2>2. QED  BY <1>9, <2>1
<1>11. ASSUME NEW j \in 1..L PROVE s[j] \in ToSet(FlattenSeq(r))
  <2> DEFINE X == {i \in 1..q : j <= i * R}
  <2>1. q \in X
    <3>1. j \in Nat /\ j >= 1 /\ j <= L  BY <1>1
    <3>2. q # 0  BY <1>1, <1>2, <3>1
    <3>3. q * R \in Nat  BY <1>1, <1>2
    <3>4. QED  BY <1>1, <1>2, <3>1, <3>2, <3>3
  <2>2. PICK i \in X : \A k \in X : i <= k
    <3>1. X \in SUBSET Nat /\ X # {}  BY <2>1
    <3> HIDE DEF X
    <3>2. QED  BY <3>1, LeastElement
  <2>3. i \in 1..q /\ j <= i * R  BY <2>2
  <2>4. (i - 1) * R < j
    <3>1. CASE i = 1  BY <1>1, <3>1
    <3>2. CASE i # 1
      <4>1. i - 1 \in 1..q /\ ~(i <= i - 1)  BY <1>2, <2>3, <3>2
      <4>2. i - 1 \notin X  BY <2>2, <4>1
      <4>3. ~(j <= (i - 1) * R)  BY <4>1, <4>2
      <4>4. (i - 1) * R \in Nat  BY <1>4
      <4>5. QED  BY <4>3, <4>4
    <3>3. QED  BY <3>1, <3>2
  <2>5. j \in ((i - 1) * R + 1)..E(i)
    <3>1. (i - 1) * R \in Nat /\ E(i) \in Nat  BY <1>4, <2>3
    <3>2. j <= E(i)  BY <1>1, <2>3
    <3>3. QED  BY <2>4, <3>1, <3>2
  <2>6. s[j] \in ToSet(r[i])  BY ZenonT(30), <1>6, <1>7, <2>3, <2>5
  <2>7. QED  BY <1>9, <2>3, <2>6
<1>12. ToSet(FlattenSeq(r)) = ToSet(s)  BY <1>1, <1>10, <1>11 DEF ToSet
<1>13. QED  BY <1>7, <1>8, <1>12 DEF RequestsFor, r

\* What sink() makes of a batch.
LEMMA RequestsProperties ==
    ASSUME NEW s \in Seq(SinkMsg), SortedBy(s, Less), SinkMsg \subseteq Nat
    PROVE  /\ RequestsFor(S!Requests(s), s)
           /\ S!Kind \in S!Sequential \cup S!Transacted => SortedBy(FlattenSeq(S!Requests(s)), InDest)
<1> DEFINE d == S!ByDest(s)
           k == S!Kind
<1>1. RequestsFor(d, s) /\ SortedBy(FlattenSeq(d), InDest) /\ FlattenSeq(d) \in Seq(SinkMsg)
  BY ByDestProperties
<1>2. SortedBy(s, InDest)
  <2>1. Less \subseteq InDest  BY DEF Less, InDest
  <2>2. QED  BY <2>1 DEF SortedBy
<1>3. RequestsFor(S!Singles(s), s) /\ SortedBy(FlattenSeq(S!Singles(s)), InDest)
  BY <1>2, SinglesProperties
<1>4. /\ RequestsFor(S!Singles(FlattenSeq(d)), s)
      /\ SortedBy(FlattenSeq(S!Singles(FlattenSeq(d))), InDest)
  <2> DEFINE t == FlattenSeq(d)
  <2>1. t \in Seq(SinkMsg) /\ SortedBy(t, InDest) /\ ToSet(t) = ToSet(s)  BY <1>1 DEF RequestsFor
  <2> HIDE DEF t
  <2>2. RequestsFor(S!Singles(t), t) /\ SortedBy(FlattenSeq(S!Singles(t)), InDest)
    BY <2>1, SinglesProperties
  <2>3. RequestsFor(S!Singles(t), s)  BY <2>1, <2>2 DEF RequestsFor
  <2>4. QED  BY <2>2, <2>3 DEF t
<1>5. RequestsFor(FlattenSeq([i \in DOMAIN d |-> S!Slices(d[i])]), s)
  <2> DEFINE e == [i \in DOMAIN d |-> S!Slices(d[i])]
             Q == Seq(SinkMsg)
  <2> HIDE DEF d
  <2>1. d \in Seq(Q) /\ Len(d) \in Nat /\ DOMAIN d = 1..Len(d) /\ \A i \in DOMAIN d : d[i] \in Q
    BY <1>1 DEF RequestsFor
  <2>2. \A i \in DOMAIN d : RequestsFor(S!Slices(d[i]), d[i])  BY <2>1, SlicesProperties
  <2>3. e \in Seq(Seq(Q)) /\ DOMAIN e = DOMAIN d /\ \A i \in DOMAIN d : e[i] = S!Slices(d[i])
    <3>1. e \in [1..Len(d) -> Seq(Q)]  BY <2>1, <2>2 DEF RequestsFor
    <3>2. QED  BY <2>1, <3>1
  <2> HIDE DEF e, Q
  <2>4. FlattenSeq(e) \in Seq(Q) /\ ToSet(FlattenSeq(e)) = UNION {ToSet(e[i]) : i \in DOMAIN e}
    BY <2>3, FlattenType, FlattenElements
  <2>5. \A i \in DOMAIN FlattenSeq(e) : FlattenSeq(e)[i] # <<>>
    <3>1. \A x \in ToSet(FlattenSeq(e)) : x # <<>>
      <4>1. \A i \in DOMAIN e : \A x \in ToSet(e[i]) : x # <<>>  BY <2>2, <2>3 DEF RequestsFor, ToSet
      <4>2. QED  BY <2>4, <4>1
    <3>2. QED  BY <3>1 DEF ToSet
  <2>6. ToSet(FlattenSeq(FlattenSeq(e))) = ToSet(s)
    <3>1. ToSet(FlattenSeq(FlattenSeq(e))) = UNION {ToSet(x) : x \in ToSet(FlattenSeq(e))}
      <4> DEFINE g == FlattenSeq(e)
      <4>1. g \in Seq(Seq(SinkMsg))  BY <2>4 DEF Q
      <4> HIDE DEF g
      <4>2. ToSet(FlattenSeq(g)) = UNION {ToSet(g[i]) : i \in DOMAIN g}  BY <4>1, FlattenElements
      <4>3. ToSet(g) = {g[i] : i \in DOMAIN g}  BY DEF ToSet
      <4>4. ToSet(FlattenSeq(g)) = UNION {ToSet(x) : x \in ToSet(g)}  BY <4>2, <4>3
      <4>5. QED  BY <4>4 DEF g
    <3>2. \A i \in DOMAIN d : UNION {ToSet(x) : x \in ToSet(e[i])} = ToSet(d[i])
      <4>1. ASSUME NEW i \in DOMAIN d PROVE UNION {ToSet(x) : x \in ToSet(e[i])} = ToSet(d[i])
        <5> DEFINE g == S!Slices(d[i])
        <5>1. g \in Seq(Seq(SinkMsg)) /\ ToSet(FlattenSeq(g)) = ToSet(d[i]) /\ e[i] = g
          BY <2>2, <2>3 DEF RequestsFor
        <5> HIDE DEF g
        <5>2. ToSet(FlattenSeq(g)) = UNION {ToSet(g[j]) : j \in DOMAIN g}  BY <5>1, FlattenElements
        <5>3. ToSet(g) = {g[j] : j \in DOMAIN g}  BY DEF ToSet
        <5>4. ToSet(FlattenSeq(g)) = UNION {ToSet(x) : x \in ToSet(g)}  BY <5>2, <5>3
        <5>5. QED  BY <5>1, <5>4
      <4>2. QED  BY <4>1
    <3>3. ToSet(FlattenSeq(d)) = UNION {ToSet(d[i]) : i \in DOMAIN d}
      BY <2>1, FlattenElements DEF Q
    <3>4. ToSet(FlattenSeq(d)) = ToSet(s)  BY <1>1 DEF RequestsFor
    <3>5. UNION {ToSet(x) : x \in ToSet(FlattenSeq(e))} = UNION {ToSet(d[i]) : i \in DOMAIN d}
      BY <2>3, <2>4, <3>2
    <3>6. QED  BY <3>1, <3>3, <3>4, <3>5
  <2>7. QED  BY <2>4, <2>5, <2>6 DEF RequestsFor, e, Q
<1> DEFINE b == FlattenSeq([i \in DOMAIN d |-> S!Slices(d[i])])
<1>6. S!Requests(s) = CASE k \in {"kafka", "kafkaTx", "mssqlTable"} -> d
                        [] k = "pubsub" -> S!Singles(FlattenSeq(d))
                        [] k = "bigquery" -> b
                        [] OTHER -> S!Singles(s)
  BY SinkNames DEF S!Requests
<1> HIDE DEF d, b, k
<1>7. CASE k \in {"kafka", "kafkaTx", "mssqlTable"}
  <2>1. S!Requests(s) = d  BY <1>6, <1>7
  <2>2. QED  BY <1>1, <2>1
<1>8. CASE k = "pubsub"
  <2>1. S!Requests(s) = S!Singles(FlattenSeq(d))  BY <1>6, <1>8
  <2>2. QED  BY <1>4, <2>1
<1>9. CASE k = "bigquery"
  <2>1. S!Requests(s) = b  BY <1>6, <1>9
  <2>2. S!Kind \notin S!Sequential \cup S!Transacted  BY <1>9 DEF k, S!Sequential, S!Transacted
  <2>3. QED  BY <1>5, <2>1, <2>2 DEF b
<1>10. CASE k \notin {"kafka", "kafkaTx", "mssqlTable", "pubsub", "bigquery"}
  <2>1. S!Requests(s) = S!Singles(s)  BY <1>6, <1>10
  <2>2. QED  BY <1>3, <2>1
<1>11. QED  BY <1>7, <1>8, <1>9, <1>10

SinkCaller ==
    [kind : Kinds, poison : Poisons, batch : 1..(Len(Batches) + 1), attempt : 1..(Retries + 1),
     pc : {"begin", "send", "abort", "failed", "end"}, todo : Seq(Seq(SinkMsg))]
SinkFlight == [request : Seq(SinkMsg), batch : Nat, attempt : Nat]
SinkWire == [open : BOOLEAN, tx : Seq(SinkMsg), flight : SUBSET SinkFlight]

Ordering == S!Kind \in S!Sequential \cup S!Transacted
Transacts == S!Kind \in S!Transacted

\* The call's batch, what is left of it, and what has been written, if only
\* into the transaction.
This == Batches[caller.batch]
Rest == FlattenSeq(caller.todo)
Written == IF Transacts THEN stored \o wire.tx ELSE stored
SaidOk == UNION {ToSet(Batches[b]) : b \in {x \in DOMAIN Batches : told[x] = "ok"}}

SinkTyped ==
    /\ stored \in Seq(SinkMsg) /\ caller \in SinkCaller /\ wire \in SinkWire
    /\ told \in [DOMAIN Batches -> {"no", "ok", "failed"}] /\ faults \in 0..MaxFaults
    /\ \A i \in DOMAIN caller.todo : caller.todo[i] # <<>>
    /\ caller.pc \in {"send", "abort", "failed"} => caller.batch \in DOMAIN Batches
    /\ caller.pc = "send" => ToSet(Rest) \subseteq ToSet(This)
    /\ caller.pc = "send" /\ Transacts => ToSet(wire.tx) \subseteq ToSet(This)
    /\ Ordering => wire.flight = {}
    /\ \A b \in DOMAIN Batches : told[b] # "no" => b < caller.batch

\* Every message of the batch has been written, is under way or is left.
SinkStored == S!Kind \notin S!Buffered =>
    /\ SaidOk \subseteq ToSet(stored)
    /\ caller.pc = "send" => \A m \in ToSet(This) :
          \/ m \in ToSet(Written) \/ m \in ToSet(Rest)
          \/ S!Kind \in S!Parallel /\ \E r \in wire.flight : S!Mine(r) /\ m \in ToSet(r.request)

\* Every attempt but the one that is being made was failed by a request.
Failures(c) == IF c.pc \in {"abort", "failed"} THEN c.attempt ELSE c.attempt - 1
SinkDeserved == S!Kind # "kafkaTx" =>
    /\ S!DeservedByAll
    /\ faults >= Failures(caller) \/ S!Poisoned(This)

\* A transaction is made of what is not left, each message once.
SinkEven(s) == \A b \in DOMAIN Batches : \A m, n \in ToSet(Batches[b]) : Occurs(s, {m}) = Occurs(s, {n})
SinkWhole == Transacts =>
    /\ SinkEven(stored)
    /\ caller.pc = "send" => \A m \in SinkMsg :
          Occurs(wire.tx, {m}) + Occurs(Rest, {m}) = IF m \in ToSet(This) THEN 1 ELSE 0

\* n is written after every m.
Follows(s, m, n) == \E j \in DOMAIN s : s[j] = n /\ \A i \in DOMAIN s : s[i] = m => i < j
Precedes(m, n) == m < n /\ Dest[m] = Dest[n]
SinkInOrder(s, M, N) == \A m \in M, n \in N : Precedes(m, n) => Follows(s, m, n)
SinkOrdered == Ordering =>
    /\ SinkInOrder(stored, SaidOk, SaidOk)
    /\ caller.pc = "send" =>
         LET done == ToSet(This) \ ToSet(Rest) IN
         /\ SortedBy(Rest, InDest)
         /\ SinkInOrder(Written, SaidOk \cup done, done)
         /\ \A m \in done, n \in ToSet(Rest) : Dest[m] = Dest[n] => m < n

SinkInv == SinkTyped /\ SinkStored /\ SinkDeserved /\ SinkWhole /\ SinkOrdered

\* The kinds are of one sort each.
LEMMA SinkSorts ==
    /\ Ordering <=> S!Kind \in {"kafka", "redis", "pubsub", "kafkaTx", "mssqlTable", "mssqlSproc"}
    /\ Transacts => Ordering
    /\ S!Kind \in S!Buffered \cup S!Parallel => ~Ordering
    /\ S!Kind \in S!Buffered => S!Kind \notin S!Parallel
    /\ S!Kind = "kafkaTx" => Transacts
    /\ Ordering <=> S!Kind \in S!Sequential \/ Transacts
BY DEF Ordering, Transacts, S!Sequential, S!Transacted, S!Parallel, S!Buffered

LEMMA SinkSameKind ==
    ASSUME caller'.kind = caller.kind
    PROVE  S!Kind' = S!Kind /\ (Ordering' <=> Ordering) /\ (Transacts' <=> Transacts)
BY DEF S!Kind, Ordering, Transacts

\* The parts of the state.
LEMMA SinkParts ==
    ASSUME SinkTyped
    PROVE  /\ caller.kind \in Kinds /\ caller.poison \in Poisons /\ caller.batch \in 1..(Len(Batches) + 1)
           /\ caller.attempt \in 1..(Retries + 1) /\ caller.pc \in {"begin", "send", "abort", "failed", "end"}
           /\ caller.todo \in Seq(Seq(SinkMsg))
           /\ wire.open \in BOOLEAN /\ wire.tx \in Seq(SinkMsg) /\ wire.flight \subseteq SinkFlight
           /\ Rest \in Seq(SinkMsg) /\ Written \in Seq(SinkMsg) /\ stored \in Seq(SinkMsg)
           /\ caller.todo = <<>> => Rest = <<>>
<1>1. caller \in SinkCaller /\ wire \in SinkWire /\ stored \in Seq(SinkMsg)  BY DEF SinkTyped
<1>2. /\ caller.kind \in Kinds /\ caller.poison \in Poisons /\ caller.batch \in 1..(Len(Batches) + 1)
      /\ caller.attempt \in 1..(Retries + 1) /\ caller.pc \in {"begin", "send", "abort", "failed", "end"}
      /\ caller.todo \in Seq(Seq(SinkMsg))
  BY <1>1 DEF SinkCaller
<1>3. wire.open \in BOOLEAN /\ wire.tx \in Seq(SinkMsg) /\ wire.flight \subseteq SinkFlight
  BY <1>1 DEF SinkWire
<1>4. Rest \in Seq(SinkMsg)  BY <1>2, FlattenType DEF Rest
<1>5. Written \in Seq(SinkMsg)
  <2>1. stored \o wire.tx \in Seq(SinkMsg)  BY <1>1, <1>3, ConcatElements
  <2>2. QED  BY <1>1, <2>1 DEF Written
<1>6. caller.todo = <<>> => Rest = <<>>  BY <1>2, FlattenType DEF Rest
<1>7. QED  BY <1>1, <1>2, <1>3, <1>4, <1>5, <1>6

\* The first request that is left.
LEMMA SinkHead ==
    ASSUME SinkTyped, caller.todo # <<>>
    PROVE  /\ Head(caller.todo) \in Seq(SinkMsg) /\ Tail(caller.todo) \in Seq(Seq(SinkMsg))
           /\ FlattenSeq(Tail(caller.todo)) \in Seq(SinkMsg)
           /\ Rest = Head(caller.todo) \o FlattenSeq(Tail(caller.todo))
           /\ ToSet(Rest) = ToSet(Head(caller.todo)) \cup ToSet(FlattenSeq(Tail(caller.todo)))
           /\ \A i \in DOMAIN Tail(caller.todo) : Tail(caller.todo)[i] # <<>>
           /\ Head(caller.todo) # <<>>
<1> DEFINE t == caller.todo
           q == Head(t)
           r == Tail(t)
           Q == Seq(SinkMsg)
<1>1. t \in Seq(Q) /\ t # <<>> /\ \A i \in DOMAIN t : t[i] # <<>>
  <2>1. t \in Seq(Q)  BY SinkParts
  <2>2. QED  BY <2>1 DEF SinkTyped
<1> HIDE DEF t
<1>2. q \in Q /\ r \in Seq(Q) /\ FlattenSeq(t) = q \o FlattenSeq(r)  BY <1>1, FlattenTail
<1>3. q = t[1] /\ 1 \in DOMAIN t /\ Len(r) = Len(t) - 1 /\ \A i \in 1..Len(r) : r[i] = t[i + 1] /\ i + 1 \in DOMAIN t
  <2> HIDE DEF Q
  <2>1. /\ Len(t) \in Nat \ {0} /\ DOMAIN t = 1..Len(t) /\ q = t[1]
        /\ r \in Seq(Q) /\ Len(r) = Len(t) - 1 /\ \A i \in 1..(Len(t) - 1) : r[i] = t[i + 1]
    BY <1>1, HeadTailProperties, EmptySeq
  <2>2. QED  BY <2>1
<1>4. \A i \in DOMAIN r : r[i] # <<>>
  <2>1. DOMAIN r = 1..Len(r)  BY <1>2
  <2>2. QED  BY <1>1, <1>3, <2>1
<1>5. q # <<>>  BY <1>1, <1>3
<1> HIDE DEF q, r
<1>6. FlattenSeq(r) \in Seq(SinkMsg)  BY <1>2, FlattenType DEF Q
<1>7. ToSet(q \o FlattenSeq(r)) = ToSet(q) \cup ToSet(FlattenSeq(r))
  <2> DEFINE f == FlattenSeq(r)
  <2>1. f \in Seq(SinkMsg) /\ q \in Seq(SinkMsg)  BY <1>2, <1>6 DEF Q
  <2> HIDE DEF f
  <2>2. ToSet(q \o f) = ToSet(q) \cup ToSet(f)  BY <2>1, ToSetConcat
  <2>3. QED  BY <2>2 DEF f
<1>8. QED  BY <1>2, <1>4, <1>5, <1>6, <1>7 DEF Rest, t, q, r, Q

\* The call's batch comes after those that were written.
LEMMA SinkThis ==
    ASSUME SinkTyped, caller.batch \in DOMAIN Batches
    PROVE  /\ This \in Seq(SinkMsg) /\ SortedBy(This, Less)
           /\ ToSet(This) \subseteq SinkMsg /\ SinkMsg \subseteq Nat
           /\ \A m \in SaidOk, n \in ToSet(This) : m < n /\ m # n
           /\ SaidOk \subseteq SinkMsg
<1>1. /\ This \in Seq(SinkMsg) /\ SortedBy(This, Less)
      /\ ToSet(This) \subseteq SinkMsg /\ SinkMsg \subseteq Nat
  BY BatchProperties DEF This
<1>2. SaidOk \subseteq SinkMsg  BY DEF SaidOk, SinkMsg
<1>3. ASSUME NEW m \in SaidOk, NEW n \in ToSet(This) PROVE m < n /\ m # n
  <2>1. PICK b \in DOMAIN Batches : told[b] = "ok" /\ m \in ToSet(Batches[b])  BY DEF SaidOk
  <2>2. b < caller.batch  BY <2>1 DEF SinkTyped
  <2>3. PICK i \in DOMAIN Batches[b] : Batches[b][i] = m  BY <2>1 DEF ToSet
  <2>4. PICK j \in DOMAIN This : This[j] = n  BY DEF ToSet
  <2>5. Batches[b][i] < Batches[caller.batch][j]  BY <2>2, <2>4, BatchesAssumption DEF This
  <2>6. m \in Nat /\ n \in Nat  BY <1>1, <1>2
  <2>7. QED  BY <2>3, <2>4, <2>5, <2>6 DEF This
<1>4. QED  BY <1>1, <1>2, <1>3

\* What a request that is awaited writes.
SinkWrites(x) ==
    /\ wire'.open = wire.open /\ wire'.flight = wire.flight
    /\ Transacts => stored' = stored /\ wire'.tx = wire.tx \o x
    /\ ~Transacts => stored' = stored \o x /\ wire'.tx = wire.tx

\* Sequences may be joined in any grouping.
LEMMA Regrouped ==
    ASSUME NEW T, NEW u \in Seq(T), NEW v \in Seq(T), NEW y \in Seq(T)
    PROVE  u \o (v \o y) = (u \o v) \o y
BY ConcatAssociative

LEMMA SinkWritesIs ==
    ASSUME SinkTyped, NEW x \in Seq(SinkMsg), S!Writes(x), caller'.kind = caller.kind
    PROVE  SinkWrites(x) /\ stored' \in Seq(SinkMsg) /\ wire' \in SinkWire /\ Written' = Written \o x
<1>1. wire \in SinkWire /\ stored \in Seq(SinkMsg) /\ wire.tx \in Seq(SinkMsg)
  BY SinkParts DEF SinkTyped
<1>2. stored \o x \in Seq(SinkMsg) /\ wire.tx \o x \in Seq(SinkMsg)  BY <1>1, ConcatElements
<1>3. Transacts' <=> Transacts  BY SinkSameKind
<1>4. CASE Transacts
  <2>1. wire' = [wire EXCEPT !.tx = @ \o x] /\ stored' = stored  BY <1>4 DEF S!Writes, Transacts
  <2>2. /\ wire' \in SinkWire /\ wire'.tx = wire.tx \o x /\ wire'.open = wire.open
        /\ wire'.flight = wire.flight
    BY <1>1, <1>2, <2>1 DEF SinkWire
  <2>3. Written' = stored \o (wire.tx \o x) /\ Written = stored \o wire.tx
    BY <1>3, <1>4, <2>1, <2>2 DEF Written
  <2>4. stored \o (wire.tx \o x) = (stored \o wire.tx) \o x
    <3> DEFINE a == stored
               b == wire.tx
    <3>1. a \in Seq(SinkMsg) /\ b \in Seq(SinkMsg)  BY <1>1
    <3> HIDE DEF a, b
    <3>2. a \o (b \o x) = (a \o b) \o x  BY <3>1, Regrouped
    <3>3. QED  BY <3>2 DEF a, b
  <2>5. QED  BY <1>1, <1>4, <2>1, <2>2, <2>3, <2>4 DEF SinkWrites
<1>5. CASE ~Transacts
  <2>1. wire' = wire /\ stored' = stored \o x  BY <1>5 DEF S!Writes, Transacts
  <2>2. Written' = stored' /\ Written = stored  BY <1>3, <1>5 DEF Written
  <2>3. QED  BY <1>1, <1>2, <1>5, <2>1, <2>2 DEF SinkWrites
<1>6. QED  BY <1>4, <1>5

\* The call goes on for the same batch, in the same attempt.
SinkGoesOn ==
    /\ caller'.kind = caller.kind /\ caller'.poison = caller.poison
    /\ caller'.batch = caller.batch /\ caller'.attempt = caller.attempt

\* A step of the call that leaves what is left to it as typed as it was.
LEMMA SinkTypedStep ==
    ASSUME SinkTyped, caller' \in SinkCaller, wire' \in SinkWire, stored' \in Seq(SinkMsg),
           caller'.kind = caller.kind, caller'.batch = caller.batch, told' = told,
           faults' \in 0..MaxFaults,
           \A i \in DOMAIN caller'.todo : caller'.todo[i] # <<>>,
           caller'.pc \in {"send", "abort", "failed"} => caller.batch \in DOMAIN Batches,
           caller'.pc = "send" => ToSet(FlattenSeq(caller'.todo)) \subseteq ToSet(This),
           caller'.pc = "send" /\ Transacts => ToSet(wire'.tx) \subseteq ToSet(This),
           Ordering => wire'.flight = {}
    PROVE  SinkTyped'
<1>1. (Ordering' <=> Ordering) /\ (Transacts' <=> Transacts)  BY SinkSameKind
<1>2. This' = This /\ Rest' = FlattenSeq(caller'.todo)  BY DEF This, Rest
<1>3. /\ told \in [DOMAIN Batches -> {"no", "ok", "failed"}]
      /\ \A b \in DOMAIN Batches : told[b] # "no" => b < caller.batch
  BY DEF SinkTyped
<1>4. QED  BY <1>1, <1>2, <1>3 DEF SinkTyped

LEMMA SinkFaults ==
    ASSUME faults \in 0..MaxFaults
    PROVE  /\ S!Fault => faults' \in 0..MaxFaults /\ faults' = faults + 1
           /\ S!NoFault => faults' = faults
           /\ MaxFaults \in Nat /\ Retries \in Nat
<1>1. MaxFaults \in Nat /\ Retries \in Nat  BY SizesAssumption
<1>2. QED  BY <1>1 DEF S!Fault, S!NoFault

\* sink() is called.
LEMMA SinkBeginIs ==
    ASSUME SinkTyped, S!Begin
    PROVE  /\ SinkTyped' /\ SinkGoesOn /\ caller.pc = "begin" /\ caller.batch \in DOMAIN Batches
           /\ UNCHANGED <<stored, told, faults>> /\ wire'.flight = wire.flight
           /\ \/ /\ caller'.pc = "failed" /\ caller'.todo = caller.todo
                 /\ S!Kind = "kafkaTx" \/ S!Poisoned(This)
              \/ /\ caller'.pc = "send" /\ caller'.todo = S!Requests(This)
                 /\ Transacts => wire'.tx = <<>>
<1> DEFINE opens == S!Kind \in S!Transacted /\ ~S!Refused
           fails == /\ S!Refused \/ S!Poisoned(This)
                    /\ caller' = [caller EXCEPT !.pc = "failed"]
           sends == ~S!Refused /\ caller' = [caller EXCEPT !.pc = "send", !.todo = S!Requests(This)]
<1>1. /\ caller.pc = "begin" /\ caller.batch <= Len(Batches) /\ UNCHANGED <<stored, told, faults>>
      /\ fails \/ sends
      /\ wire' = IF opens THEN [wire EXCEPT !.open = TRUE, !.tx = <<>>] ELSE wire
  BY DEF S!Begin, S!Batch, This
<1>2. caller.batch \in DOMAIN Batches
  <2>1. caller.batch \in 1..(Len(Batches) + 1)  BY SinkParts
  <2>2. Batches \in Seq(Seq(Nat))  BY BatchesAssumption
  <2>3. QED  BY <1>1, <2>1, <2>2
<1>3. caller \in SinkCaller /\ wire \in SinkWire  BY DEF SinkTyped
<1>4. RequestsFor(S!Requests(This), This)
  <2>1. This \in Seq(SinkMsg) /\ SortedBy(This, Less) /\ SinkMsg \subseteq Nat  BY <1>2, SinkThis
  <2> HIDE DEF This
  <2>2. QED  BY <2>1, RequestsProperties
<1>5. /\ wire' \in SinkWire /\ wire'.flight = wire.flight /\ (opens => wire'.tx = <<>>)
      /\ (~opens => wire' = wire)
  <2>1. CASE opens
    <3>1. wire' = [wire EXCEPT !.open = TRUE, !.tx = <<>>]  BY <1>1, <2>1
    <3>2. <<>> \in Seq(SinkMsg)  OBVIOUS
    <3>3. QED  BY <1>3, <2>1, <3>1, <3>2 DEF SinkWire
  <2>2. CASE ~opens  BY <1>1, <1>3, <2>2
  <2>3. QED  BY <2>1, <2>2
<1>6. Ordering => wire'.flight = {}  BY <1>5 DEF SinkTyped
<1>7. \A i \in DOMAIN caller.todo : caller.todo[i] # <<>>  BY DEF SinkTyped
<1>8. faults' \in 0..MaxFaults /\ stored' \in Seq(SinkMsg)  BY <1>1 DEF SinkTyped
<1>9. CASE fails
  <2>1. caller' = [caller EXCEPT !.pc = "failed"]  BY <1>1, <1>9
  <2>2. caller' \in SinkCaller /\ caller'.pc = "failed" /\ caller'.todo = caller.todo /\ SinkGoesOn
    BY <1>3, <2>1 DEF SinkCaller, SinkGoesOn
  <2>3. SinkTyped'
    BY <1>1, <1>2, <1>5, <1>6, <1>7, <1>8, <2>2, SinkTypedStep DEF SinkGoesOn
  <2>4. S!Kind = "kafkaTx" \/ S!Poisoned(This)  BY <1>9 DEF S!Refused
  <2>5. QED  BY <1>1, <1>2, <1>5, <2>2, <2>3, <2>4
<1>10. CASE sends
  <2> DEFINE r == S!Requests(This)
  <2>1. caller' = [caller EXCEPT !.pc = "send", !.todo = r]  BY <1>1, <1>10
  <2>2. r \in Seq(Seq(SinkMsg)) /\ ToSet(FlattenSeq(r)) = ToSet(This) /\ \A i \in DOMAIN r : r[i] # <<>>
    BY <1>4 DEF RequestsFor
  <2> HIDE DEF r
  <2>3. caller' \in SinkCaller /\ caller'.pc = "send" /\ caller'.todo = r /\ SinkGoesOn
    BY <1>3, <2>1, <2>2 DEF SinkCaller, SinkGoesOn
  <2>4. Transacts => wire'.tx = <<>>  BY <1>5, <1>10 DEF Transacts
  <2>5. Transacts => ToSet(wire'.tx) = {}  BY <2>4 DEF ToSet
  <2>6. SinkTyped'
    BY <1>1, <1>2, <1>5, <1>6, <1>8, <2>2, <2>3, <2>5, SinkTypedStep DEF SinkGoesOn
  <2>7. QED  BY <1>1, <1>2, <1>5, <2>3, <2>4, <2>6 DEF r
<1>11. QED  BY <1>1, <1>9, <1>10

\* A call that fails keeps what is left, and goes to "abort" or "failed".
LEMMA SinkFailsIs ==
    ASSUME SinkTyped, S!Fails
    PROVE  /\ caller' \in SinkCaller /\ SinkGoesOn /\ caller'.pc \in {"abort", "failed"}
           /\ caller'.todo = caller.todo
BY DEF SinkTyped, S!Fails, SinkCaller, SinkGoesOn

\* Part of a sequence.
LEMMA SinkPart ==
    ASSUME NEW s \in Seq(SinkMsg), NEW n \in 0..Len(s)
    PROVE  SubSeq(s, 1, n) \in Seq(SinkMsg) /\ ToSet(SubSeq(s, 1, n)) \subseteq ToSet(s)
<1>1. Len(s) \in Nat /\ DOMAIN s = 1..Len(s)  OBVIOUS
<1>2. /\ SubSeq(s, 1, n) \in Seq(SinkMsg) /\ Len(SubSeq(s, 1, n)) = n
      /\ \A i \in 1..n : SubSeq(s, 1, n)[i] = s[i]
  BY <1>1
<1>3. DOMAIN SubSeq(s, 1, n) = 1..n /\ 1..n \subseteq DOMAIN s  BY <1>1, <1>2
<1>4. QED  BY <1>2, <1>3 DEF ToSet

\* A request is awaited.
LEMMA SinkAwaitIs ==
    ASSUME SinkTyped, S!Await
    PROVE  /\ SinkTyped' /\ SinkGoesOn /\ caller.pc = "send" /\ caller.todo # <<>> /\ Ordering
           /\ told' = told /\ wire'.flight = wire.flight
           /\ \/ /\ caller'.pc \in {"abort", "failed"} /\ UNCHANGED <<stored, faults>>
                 /\ S!Poisoned(Head(caller.todo))
              \/ /\ caller'.pc = "send" /\ caller'.todo = Tail(caller.todo)
                 /\ SinkWrites(Head(caller.todo)) /\ Written' = Written \o Head(caller.todo) /\ faults' = faults
              \/ /\ caller'.pc \in {"abort", "failed"} /\ S!Fault
                 /\ \E x \in Seq(SinkMsg) : ToSet(x) \subseteq ToSet(Head(caller.todo)) /\ SinkWrites(x)
<1> DEFINE q == Head(caller.todo)
           t == Tail(caller.todo)
<1>1. caller.pc = "send" /\ caller.todo # <<>> /\ told' = told /\ Ordering
  BY DEF S!Await, S!Sending, Ordering
<1>2. caller \in SinkCaller /\ wire \in SinkWire /\ stored \in Seq(SinkMsg) /\ faults \in 0..MaxFaults
  BY DEF SinkTyped
<1>3. /\ q \in Seq(SinkMsg) /\ t \in Seq(Seq(SinkMsg)) /\ (\A i \in DOMAIN t : t[i] # <<>>)
      /\ ToSet(q) \subseteq ToSet(Rest) /\ ToSet(FlattenSeq(t)) \subseteq ToSet(Rest)
  BY <1>1, SinkHead
<1>4. ToSet(Rest) \subseteq ToSet(This) /\ caller.batch \in DOMAIN Batches
  BY <1>1 DEF SinkTyped
<1>5. wire.flight = {}  BY <1>1 DEF SinkTyped
<1>6. \A i \in DOMAIN caller.todo : caller.todo[i] # <<>>  BY DEF SinkTyped
<1> HIDE DEF q, t
<1>7. CASE S!Fails /\ UNCHANGED <<stored, wire, faults>> /\ S!Poisoned(q)
  <2>1. /\ caller' \in SinkCaller /\ SinkGoesOn /\ caller'.pc \in {"abort", "failed"}
        /\ caller'.todo = caller.todo
    BY <1>7, SinkFailsIs
  <2>2. SinkTyped'
    BY <1>1, <1>2, <1>4, <1>5, <1>6, <1>7, <2>1, SinkTypedStep DEF SinkGoesOn
  <2>3. QED  BY <1>1, <1>7, <2>1, <2>2 DEF q
<1>8. CASE S!Writes(q) /\ caller' = [caller EXCEPT !.todo = Tail(@)] /\ S!NoFault
  <2>1. caller' = [caller EXCEPT !.todo = t]  BY <1>8 DEF t
  <2>2. /\ caller' \in SinkCaller /\ SinkGoesOn /\ caller'.pc = caller.pc /\ caller'.todo = t
    BY <1>2, <1>3, <2>1 DEF SinkCaller, SinkGoesOn
  <2>3. SinkWrites(q) /\ stored' \in Seq(SinkMsg) /\ wire' \in SinkWire /\ Written' = Written \o q
    BY <1>3, <1>8, <2>2, SinkWritesIs DEF SinkGoesOn
  <2>4. Transacts => ToSet(wire'.tx) \subseteq ToSet(This)
    <3>1. Transacts => ToSet(wire.tx) \subseteq ToSet(This)  BY <1>1 DEF SinkTyped
    <3>2. wire.tx \in Seq(SinkMsg)  BY SinkParts
    <3>3. ToSet(wire.tx \o q) = ToSet(wire.tx) \cup ToSet(q)
      <4> DEFINE w == wire.tx
      <4>1. w \in Seq(SinkMsg)  BY <3>2
      <4> HIDE DEF w
      <4>2. ToSet(w \o q) = ToSet(w) \cup ToSet(q)  BY <1>3, <4>1, ToSetConcat
      <4>3. QED  BY <4>2 DEF w
    <3>4. QED  BY <1>3, <1>4, <2>3, <3>1, <3>3 DEF SinkWrites
  <2>5. faults' = faults  BY <1>8 DEF S!NoFault
  <2>6. wire'.flight = wire.flight  BY <2>3 DEF SinkWrites
  <2>7. SinkTyped'
    BY <1>1, <1>2, <1>3, <1>4, <1>5, <2>2, <2>3, <2>4, <2>5, <2>6, SinkTypedStep DEF SinkGoesOn
  <2>8. QED  BY <1>1, <2>2, <2>3, <2>5, <2>6, <2>7 DEF q, t
<1>9. CASE S!Fault /\ S!Fails /\ \E n \in 0..Len(q) : S!Writes(SubSeq(q, 1, n))
  <2>1. /\ caller' \in SinkCaller /\ SinkGoesOn /\ caller'.pc \in {"abort", "failed"}
        /\ caller'.todo = caller.todo
    BY <1>9, SinkFailsIs
  <2>2. PICK n \in 0..Len(q) : S!Writes(SubSeq(q, 1, n))  BY <1>9
  <2> DEFINE x == SubSeq(q, 1, n)
  <2>3. x \in Seq(SinkMsg) /\ ToSet(x) \subseteq ToSet(q) /\ S!Writes(x)  BY <1>3, <2>2, SinkPart
  <2> HIDE DEF x
  <2>4. SinkWrites(x) /\ stored' \in Seq(SinkMsg) /\ wire' \in SinkWire
    BY <2>1, <2>3, SinkWritesIs DEF SinkGoesOn
  <2>5. faults' \in 0..MaxFaults  BY <1>2, <1>9, SinkFaults
  <2>6. wire'.flight = wire.flight  BY <2>4 DEF SinkWrites
  <2>7. SinkTyped'
    BY <1>1, <1>4, <1>5, <1>6, <2>1, <2>4, <2>5, <2>6, SinkTypedStep DEF SinkGoesOn
  <2>8. QED  BY <1>1, <1>9, <2>1, <2>3, <2>4, <2>6, <2>7 DEF q
<1>10. \/ S!Fails /\ UNCHANGED <<stored, wire, faults>> /\ S!Poisoned(q)
       \/ S!Writes(q) /\ caller' = [caller EXCEPT !.todo = Tail(@)] /\ S!NoFault
       \/ S!Fault /\ S!Fails /\ \E n \in 0..Len(q) : S!Writes(SubSeq(q, 1, n))
  BY DEF S!Await, q
<1>11. QED  BY <1>7, <1>8, <1>9, <1>10

\* Requests get under way.
LEMMA SinkLaunchIs ==
    ASSUME SinkTyped, NEW R, R \subseteq Seq(SinkMsg), wire' = S!Launch(R)
    PROVE  /\ wire' \in SinkWire /\ wire'.tx = wire.tx /\ wire.flight \subseteq wire'.flight
           /\ \A x \in R : [request |-> x, batch |-> caller.batch, attempt |-> caller.attempt] \in wire'.flight
<1> DEFINE L == {[request |-> x, batch |-> caller.batch, attempt |-> caller.attempt] : x \in R}
<1>1. wire \in SinkWire /\ wire.flight \subseteq SinkFlight  BY SinkParts DEF SinkTyped
<1>2. caller.batch \in Nat /\ caller.attempt \in Nat
  <2>1. caller.batch \in 1..(Len(Batches) + 1) /\ caller.attempt \in 1..(Retries + 1)  BY SinkParts
  <2>2. Batches \in Seq(Seq(Nat)) /\ Retries \in Nat  BY BatchesAssumption, SizesAssumption
  <2>3. QED  BY <2>1, <2>2
<1>3. L \subseteq SinkFlight  BY <1>2 DEF SinkFlight
<1>4. wire' = [wire EXCEPT !.flight = wire.flight \cup L]  BY DEF S!Launch
<1> HIDE DEF L
<1>5. wire' \in SinkWire /\ wire'.tx = wire.tx /\ wire'.flight = wire.flight \cup L
  BY <1>1, <1>3, <1>4 DEF SinkWire
<1>6. QED  BY <1>5 DEF L

LEMMA SinkBufferIs ==
    ASSUME SinkTyped, S!Buffer
    PROVE  /\ SinkTyped' /\ SinkGoesOn /\ S!Kind \in S!Buffered /\ caller.pc = "send"
           /\ UNCHANGED <<stored, told, faults>>
           /\ caller'.pc = "send" \/ (caller'.pc \in {"abort", "failed"} /\ S!Poisoned(Head(caller.todo)))
<1> DEFINE q == Head(caller.todo)
           t == Tail(caller.todo)
<1>1. /\ caller.pc = "send" /\ caller.todo # <<>> /\ UNCHANGED <<stored, told, faults>>
      /\ S!Kind \in S!Buffered /\ ~Ordering /\ ~Transacts
  BY SinkSorts DEF S!Buffer, S!Sending
<1>2. caller \in SinkCaller /\ wire \in SinkWire /\ stored \in Seq(SinkMsg) /\ faults \in 0..MaxFaults
  BY DEF SinkTyped
<1>3. /\ q \in Seq(SinkMsg) /\ t \in Seq(Seq(SinkMsg)) /\ (\A i \in DOMAIN t : t[i] # <<>>)
      /\ ToSet(q) \subseteq ToSet(Rest) /\ ToSet(FlattenSeq(t)) \subseteq ToSet(Rest)
  BY <1>1, SinkHead
<1>4. ToSet(Rest) \subseteq ToSet(This) /\ caller.batch \in DOMAIN Batches
  BY <1>1 DEF SinkTyped
<1>5. \A i \in DOMAIN caller.todo : caller.todo[i] # <<>>  BY DEF SinkTyped
<1> HIDE DEF q, t
<1>6. CASE S!Poisoned(q) /\ S!Fails /\ UNCHANGED wire
  <2>1. /\ caller' \in SinkCaller /\ SinkGoesOn /\ caller'.pc \in {"abort", "failed"}
        /\ caller'.todo = caller.todo
    BY <1>6, SinkFailsIs
  <2>2. SinkTyped'
    BY <1>1, <1>2, <1>4, <1>5, <1>6, <2>1, SinkTypedStep DEF SinkGoesOn
  <2>3. QED  BY <1>1, <1>6, <2>1, <2>2 DEF q
<1>7. CASE wire' = S!Launch({q}) /\ caller' = [caller EXCEPT !.todo = t]
  <2>1. /\ caller' \in SinkCaller /\ SinkGoesOn /\ caller'.pc = caller.pc /\ caller'.todo = t
    BY <1>2, <1>3, <1>7 DEF SinkCaller, SinkGoesOn
  <2>2. {q} \subseteq Seq(SinkMsg)  BY <1>3
  <2>3. wire' \in SinkWire  BY <1>7, <2>2, SinkLaunchIs
  <2>4. SinkTyped'
    BY <1>1, <1>2, <1>3, <1>4, <2>1, <2>3, SinkTypedStep DEF SinkGoesOn
  <2>5. QED  BY <1>1, <2>1, <2>4
<1>8. \/ S!Poisoned(q) /\ S!Fails /\ UNCHANGED wire
      \/ wire' = S!Launch({q}) /\ caller' = [caller EXCEPT !.todo = t]
  BY DEF S!Buffer, q, t
<1>9. QED  BY <1>6, <1>7, <1>8

\* What is poisoned stays so, in a part and later.
LEMMA SinkPoison ==
    /\ \A s, t : S!Poisoned(s) /\ ToSet(s) \subseteq ToSet(t) => S!Poisoned(t)
    /\ caller'.poison = caller.poison /\ caller'.batch = caller.batch => (S!Poisoned(This)' <=> S!Poisoned(This))
    /\ caller'.poison = caller.poison =>
         \A b \in DOMAIN Batches : S!Poisoned(Batches[b])' <=> S!Poisoned(Batches[b])
<1>1. \A s, t : S!Poisoned(s) /\ ToSet(s) \subseteq ToSet(t) => S!Poisoned(t)
  BY SinkNames DEF S!Poisoned
<1>2. caller'.poison = caller.poison /\ caller'.batch = caller.batch => (S!Poisoned(This)' <=> S!Poisoned(This))
  BY DEF S!Poisoned, This
<1>3. caller'.poison = caller.poison =>
         \A b \in DOMAIN Batches : S!Poisoned(Batches[b])' <=> S!Poisoned(Batches[b])
  BY DEF S!Poisoned
<1>4. QED  BY <1>1, <1>2, <1>3

LEMMA SinkSendAllIs ==
    ASSUME SinkTyped, S!SendAll
    PROVE  /\ SinkTyped' /\ SinkGoesOn /\ S!Kind \in S!Parallel /\ caller.pc = "send"
           /\ UNCHANGED <<stored, told, faults>> /\ wire.flight \subseteq wire'.flight
           /\ \/ /\ caller'.pc = "send"
                 /\ \A m \in ToSet(Rest) : \E r \in wire'.flight : S!Mine(r)' /\ m \in ToSet(r.request)
              \/ caller'.pc # "send" /\ S!Poisoned(This)
<1> DEFINE sent == {r \in ToSet(caller.todo) : ~S!Poisoned(r)}
           bad == \E r \in ToSet(caller.todo) : S!Poisoned(r)
<1>1. /\ caller.pc = "send" /\ caller.todo # <<>> /\ UNCHANGED <<stored, told, faults>>
      /\ S!Kind \in S!Parallel /\ ~Ordering /\ ~Transacts
      /\ wire' = S!Launch(sent) /\ (bad => S!Fails) /\ (~bad => caller' = [caller EXCEPT !.todo = <<>>])
  BY SinkNames, SinkSorts DEF S!SendAll, S!Sending
<1>2. caller \in SinkCaller /\ wire \in SinkWire /\ stored \in Seq(SinkMsg) /\ faults \in 0..MaxFaults
  BY DEF SinkTyped
<1>3. caller.batch \in DOMAIN Batches  BY <1>1 DEF SinkTyped
<1>5. caller.todo \in Seq(Seq(SinkMsg))  BY SinkParts
<1>6. ToSet(caller.todo) = {caller.todo[i] : i \in DOMAIN caller.todo}  BY DEF ToSet
<1>7. ToSet(caller.todo) \subseteq Seq(SinkMsg)
  <2>1. \A i \in DOMAIN caller.todo : caller.todo[i] \in Seq(SinkMsg)  BY <1>5
  <2>2. QED  BY <1>6, <2>1
<1>8. /\ wire' \in SinkWire /\ wire.flight \subseteq wire'.flight
      /\ \A x \in sent :
            [request |-> x, batch |-> caller.batch, attempt |-> caller.attempt] \in wire'.flight
  BY <1>1, <1>7, SinkLaunchIs
<1>4. CASE ~bad
  <2>1. <<>> \in Seq(Seq(SinkMsg))  OBVIOUS
  <2>2. caller' \in SinkCaller /\ SinkGoesOn /\ caller'.pc = "send" /\ caller'.todo = <<>>
    BY <1>1, <1>2, <1>4, <2>1 DEF SinkCaller, SinkGoesOn
  <2>3. sent = ToSet(caller.todo)  BY <1>4
  <2> HIDE DEF sent
  <2>4. FlattenSeq(<<>>) = <<>>  BY <1>5, FlattenType
  <2>5. ToSet(<<>>) = {}  BY DEF ToSet
  <2>6. SinkTyped'
    BY <1>1, <1>2, <1>3, <1>8, <2>2, <2>4, <2>5, SinkTypedStep DEF SinkGoesOn
  <2>7. ASSUME NEW m \in ToSet(Rest) PROVE \E r \in wire'.flight : S!Mine(r)' /\ m \in ToSet(r.request)
    <3>1. ToSet(Rest) = UNION {ToSet(caller.todo[i]) : i \in DOMAIN caller.todo}
      BY <1>5, FlattenElements DEF Rest
    <3>2. PICK x \in ToSet(caller.todo) : m \in ToSet(x)  BY <1>6, <3>1
    <3>3. PICK r \in wire'.flight : r.request = x /\ r.batch = caller'.batch /\ r.attempt = caller'.attempt
      BY <1>8, <2>2, <2>3, <3>2 DEF SinkGoesOn
    <3>4. S!Mine(r)'  BY <2>2, <3>3 DEF S!Mine
    <3>5. QED  BY <3>2, <3>3, <3>4
  <2>8. QED  BY <1>1, <1>8, <2>2, <2>6, <2>7
<1>9. CASE bad
  <2>1. caller' \in SinkCaller /\ SinkGoesOn /\ caller'.pc \in {"abort", "failed"} /\ caller'.todo = caller.todo
    BY <1>1, <1>9, SinkFailsIs
  <2>2. SinkTyped'
    BY <1>1, <1>2, <1>3, <1>8, <2>1, SinkTypedStep DEF SinkGoesOn, SinkTyped
  <2>3. S!Poisoned(This)
    <3>1. PICK x \in ToSet(caller.todo) : S!Poisoned(x)  BY <1>9
    <3>2. ToSet(Rest) = UNION {ToSet(caller.todo[i]) : i \in DOMAIN caller.todo}
      BY <1>5, FlattenElements DEF Rest
    <3>3. ToSet(x) \subseteq ToSet(This)  BY <1>1, <1>6, <3>2 DEF SinkTyped
    <3>4. QED  BY <3>1, <3>3, SinkPoison
  <2>4. QED  BY <1>1, <1>8, <2>1, <2>2, <2>3
<1>10. QED  BY <1>4, <1>9

\* A request that is under way takes effect or fails.
LEMMA SinkLandsIs ==
    ASSUME SinkTyped, S!Lands
    PROVE  /\ SinkTyped' /\ SinkGoesOn /\ ~Ordering /\ caller'.todo = caller.todo /\ told' = told
           /\ \E r \in wire.flight :
                /\ wire'.flight = wire.flight \ {r}
                /\ stored' \in {stored, stored \o r.request} /\ r.request \in Seq(SinkMsg)
                /\ \/ stored' = stored \o r.request /\ caller'.pc = caller.pc /\ faults' = faults
                   \/ S!Fault /\ caller'.pc = caller.pc /\ ~(S!Mine(r) /\ S!Kind \in S!Parallel)
                   \/ S!Fault /\ caller'.pc \in {"abort", "failed"} /\ caller.pc = "send"
<1>1. PICK r \in wire.flight :
        /\ wire' = [wire EXCEPT !.flight = @ \ {r}] /\ told' = told
        /\ \/ stored' = stored \o r.request /\ UNCHANGED caller /\ S!NoFault
           \/ /\ S!Fault /\ stored' \in {stored, stored \o r.request}
              /\ IF S!Mine(r) /\ S!Kind \in S!Parallel THEN S!Fails ELSE UNCHANGED caller
  BY DEF S!Lands
<1>2. ~Ordering /\ ~Transacts  BY SinkSorts DEF SinkTyped
<1>3. caller \in SinkCaller /\ wire \in SinkWire /\ stored \in Seq(SinkMsg) /\ faults \in 0..MaxFaults
  BY DEF SinkTyped
<1>4. wire' \in SinkWire /\ wire'.flight = wire.flight \ {r}
  BY <1>1, <1>3 DEF SinkWire
<1>5. r.request \in Seq(SinkMsg)
  <2>1. r \in SinkFlight  BY SinkParts
  <2>2. QED  BY <2>1 DEF SinkFlight
<1>6. stored' \in {stored, stored \o r.request} /\ stored' \in Seq(SinkMsg)
  <2> DEFINE q == r.request
  <2>1. q \in Seq(SinkMsg)  BY <1>5
  <2> HIDE DEF q
  <2>2. stored \o q \in Seq(SinkMsg)  BY <1>3, <2>1, ConcatElements
  <2>3. QED  BY <1>1, <1>3, <2>2 DEF q
<1>7. faults' \in 0..MaxFaults  BY <1>1, <1>3, SinkFaults
<1>8. /\ \A i \in DOMAIN caller.todo : caller.todo[i] # <<>>
      /\ caller.pc \in {"send", "abort", "failed"} => caller.batch \in DOMAIN Batches
      /\ caller.pc = "send" => ToSet(FlattenSeq(caller.todo)) \subseteq ToSet(This)
  BY DEF SinkTyped, Rest
<1>9. CASE UNCHANGED caller
  <2>1. SinkTyped' /\ SinkGoesOn
    BY <1>1, <1>2, <1>3, <1>4, <1>6, <1>7, <1>8, <1>9, SinkTypedStep DEF SinkGoesOn
  <2>2. S!Mine(r) => ~S!Fails  BY <1>9, SinkFailsIs DEF S!Mine
  <2>3. \/ stored' = stored \o r.request /\ faults' = faults
        \/ S!Fault /\ ~(S!Mine(r) /\ S!Kind \in S!Parallel)
    BY <1>1, <2>2 DEF S!NoFault
  <2>4. QED  BY <1>1, <1>2, <1>4, <1>5, <1>6, <1>9, <2>1, <2>3
<1>10. CASE S!Fault /\ S!Mine(r) /\ S!Fails
  <2>1. /\ caller' \in SinkCaller /\ SinkGoesOn /\ caller'.pc \in {"abort", "failed"}
        /\ caller'.todo = caller.todo
    BY <1>10, SinkFailsIs
  <2>2. caller.pc = "send"  BY <1>10 DEF S!Mine
  <2>3. SinkTyped'
    BY <1>1, <1>2, <1>4, <1>6, <1>7, <1>8, <2>1, <2>2, SinkTypedStep DEF SinkGoesOn
  <2>4. QED  BY <1>1, <1>2, <1>4, <1>5, <1>6, <1>10, <2>1, <2>2, <2>3
<1>11. QED  BY <1>1, <1>9, <1>10

\* The call returns.
LEMMA SinkEndsIs ==
    ASSUME SinkTyped, caller.batch \in DOMAIN Batches, NEW how \in {"ok", "failed"}, S!EndsWith(how),
           wire' \in SinkWire, wire'.flight = wire.flight, stored' \in Seq(SinkMsg), faults' \in 0..MaxFaults
    PROVE  /\ SinkTyped' /\ caller'.kind = caller.kind /\ caller'.poison = caller.poison
           /\ caller'.pc \in {"begin", "end"} /\ caller'.attempt = 1
           /\ \A b \in DOMAIN Batches : told'[b] = IF b = caller.batch THEN how ELSE told[b]
           /\ SaidOk' = IF how = "ok" THEN SaidOk \cup ToSet(This) ELSE SaidOk
<1>1. caller \in SinkCaller /\ told \in [DOMAIN Batches -> {"no", "ok", "failed"}]  BY DEF SinkTyped
<1>2. Len(Batches) \in Nat /\ DOMAIN Batches = 1..Len(Batches) /\ Retries \in Nat
  <2>1. Batches \in Seq(Seq(Nat))  BY BatchesAssumption
  <2>2. QED  BY <2>1, SizesAssumption
<1>3. /\ caller' = [caller EXCEPT !.batch = @ + 1, !.attempt = 1, !.todo = <<>>,
                                  !.pc = IF caller.batch = Len(Batches) THEN "end" ELSE "begin"]
      /\ told' = [told EXCEPT ![caller.batch] = how]
  BY DEF S!EndsWith
<1>4. /\ caller' \in SinkCaller /\ caller'.kind = caller.kind /\ caller'.poison = caller.poison
      /\ caller'.pc \in {"begin", "end"} /\ caller'.attempt = 1 /\ caller'.batch = caller.batch + 1
      /\ caller'.todo = <<>>
  <2>1. caller.batch + 1 \in 1..(Len(Batches) + 1) /\ 1 \in 1..(Retries + 1) /\ <<>> \in Seq(Seq(SinkMsg))
    BY <1>2
  <2>2. QED  BY <1>1, <1>3, <2>1 DEF SinkCaller
<1>5. /\ told' \in [DOMAIN Batches -> {"no", "ok", "failed"}]
      /\ \A b \in DOMAIN Batches : told'[b] = IF b = caller.batch THEN how ELSE told[b]
  BY <1>1, <1>3
<1>6. \A b \in DOMAIN Batches : told[b] # "no" => b < caller.batch  BY DEF SinkTyped
<1>7. \A b \in DOMAIN Batches : told'[b] # "no" => b < caller'.batch
  <2>1. ASSUME NEW b \in DOMAIN Batches, told'[b] # "no" PROVE b < caller.batch + 1
    <3>1. b \in Nat /\ caller.batch \in Nat  BY <1>2
    <3>2. CASE b = caller.batch  BY <3>1, <3>2
    <3>3. CASE b # caller.batch
      <4>1. told[b] # "no"  BY <1>5, <2>1, <3>3
      <4>2. b < caller.batch  BY <1>6, <4>1
      <4>3. QED  BY <3>1, <4>2
    <3>4. QED  BY <3>2, <3>3
  <2>2. QED  BY <1>4, <2>1
<1>8. Ordering' => wire'.flight = {}
  <2>1. Ordering' <=> Ordering  BY <1>4, SinkSameKind
  <2>2. QED  BY <2>1 DEF SinkTyped
<1>9. SinkTyped'  BY <1>4, <1>5, <1>7, <1>8 DEF SinkTyped
<1>10. SaidOk' = IF how = "ok" THEN SaidOk \cup ToSet(This) ELSE SaidOk
  <2>1. told[caller.batch] = "no"
    <3>1. caller.batch \in Nat  BY <1>2
    <3>2. QED  BY <1>6, <3>1
  <2> DEFINE X == {b \in DOMAIN Batches : told[b] = "ok"}
             Y == {b \in DOMAIN Batches : told'[b] = "ok"}
  <2>2. Y = IF how = "ok" THEN X \cup {caller.batch} ELSE X  BY <1>5, <2>1
  <2>3. SaidOk = UNION {ToSet(Batches[b]) : b \in X} /\ SaidOk' = UNION {ToSet(Batches[b]) : b \in Y}
    BY DEF SaidOk
  <2> HIDE DEF X, Y
  <2>4. CASE how = "ok"
    <3>1. Y = X \cup {caller.batch}  BY <2>2, <2>4
    <3>2. QED  BY <2>3, <2>4, <3>1 DEF This
  <2>5. CASE how # "ok"
    <3>1. Y = X  BY <2>2, <2>5
    <3>2. QED  BY <2>3, <2>5, <3>1
  <2>6. QED  BY <2>4, <2>5
<1>11. QED  BY <1>4, <1>5, <1>9, <1>10

\* What the call was told, when nothing was told now.
LEMMA SinkToldNothing == ASSUME told' = told PROVE SaidOk' = SaidOk
BY DEF SaidOk

LEMMA SinkReturnIs ==
    ASSUME SinkTyped, S!Return
    PROVE  /\ SinkTyped' /\ caller'.kind = caller.kind /\ caller'.poison = caller.poison
           /\ caller.pc = "send" /\ caller.todo = <<>> /\ ~Transacts
           /\ S!Kind \in S!Parallel => ~\E r \in wire.flight : S!Mine(r)
           /\ caller'.pc \in {"begin", "end"} /\ caller'.attempt = 1
           /\ UNCHANGED <<stored, faults>>
           /\ \A b \in DOMAIN Batches : told'[b] = "failed" => told[b] = "failed"
           /\ SaidOk' = SaidOk \cup ToSet(This)
<1>1. /\ caller.pc = "send" /\ caller.todo = <<>> /\ ~Transacts
      /\ S!Kind \in S!Parallel => ~\E r \in wire.flight : S!Mine(r)
      /\ S!EndsWith("ok") /\ UNCHANGED <<stored, wire, faults>>
  BY DEF S!Return, S!Awaited, Transacts
<1>2. caller.batch \in DOMAIN Batches /\ wire \in SinkWire /\ stored \in Seq(SinkMsg) /\ faults \in 0..MaxFaults
  BY <1>1 DEF SinkTyped
<1>3. /\ SinkTyped' /\ caller'.kind = caller.kind /\ caller'.poison = caller.poison
      /\ caller'.pc \in {"begin", "end"} /\ caller'.attempt = 1
      /\ \A b \in DOMAIN Batches : told'[b] = IF b = caller.batch THEN "ok" ELSE told[b]
      /\ SaidOk' = SaidOk \cup ToSet(This)
  BY <1>1, <1>2, SinkEndsIs
<1>4. \A b \in DOMAIN Batches : told'[b] = "failed" => told[b] = "failed"  BY <1>3
<1>5. QED  BY <1>1, <1>3, <1>4

\* The transaction ends.
LEMMA SinkNoTransactionIs ==
    ASSUME SinkTyped
    PROVE  /\ wire' = S!NoTransaction => wire' \in SinkWire /\ wire'.flight = wire.flight
           /\ wire' = [wire EXCEPT !.tx = <<>>] => wire' \in SinkWire /\ wire'.flight = wire.flight
<1>1. wire \in SinkWire /\ <<>> \in Seq(SinkMsg)  BY DEF SinkTyped
<1>2. QED  BY <1>1 DEF SinkWire, S!NoTransaction

LEMMA SinkCommitIs ==
    ASSUME SinkTyped, S!Commit
    PROVE  /\ SinkTyped' /\ caller'.kind = caller.kind /\ caller'.poison = caller.poison
           /\ caller.pc = "send" /\ caller.todo = <<>> /\ Transacts
           /\ \/ /\ stored' = Written /\ caller'.pc \in {"begin", "end"} /\ caller'.attempt = 1
                 /\ faults' = faults /\ SaidOk' = SaidOk \cup ToSet(This)
                 /\ \A b \in DOMAIN Batches : told'[b] = "failed" => told[b] = "failed"
              \/ /\ stored' \in {stored, stored \o wire.tx} /\ SinkGoesOn
                 /\ caller'.pc \in {"abort", "failed"} /\ S!Fault /\ told' = told
<1>1. caller.pc = "send" /\ caller.todo = <<>> /\ Transacts  BY DEF S!Commit, Transacts
<1>2. caller.batch \in DOMAIN Batches /\ wire \in SinkWire /\ stored \in Seq(SinkMsg) /\ faults \in 0..MaxFaults
  BY <1>1 DEF SinkTyped
<1>3. Written = stored \o wire.tx /\ Written \in Seq(SinkMsg)  BY <1>1, SinkParts DEF Written
<1>4. CASE stored' = stored \o wire.tx /\ wire' = S!NoTransaction /\ S!EndsWith("ok") /\ S!NoFault
  <2>1. stored' = Written /\ wire' \in SinkWire /\ wire'.flight = wire.flight /\ faults' = faults
    BY <1>3, <1>4, SinkNoTransactionIs DEF S!NoFault
  <2>2. /\ SinkTyped' /\ caller'.kind = caller.kind /\ caller'.poison = caller.poison
        /\ caller'.pc \in {"begin", "end"} /\ caller'.attempt = 1
        /\ \A b \in DOMAIN Batches : told'[b] = IF b = caller.batch THEN "ok" ELSE told[b]
        /\ SaidOk' = SaidOk \cup ToSet(This)
    BY <1>2, <1>3, <1>4, <2>1, SinkEndsIs
  <2>3. \A b \in DOMAIN Batches : told'[b] = "failed" => told[b] = "failed"  BY <2>2
  <2>4. QED  BY <1>1, <2>1, <2>2, <2>3
<1>5. CASE /\ S!Fault /\ stored' \in {stored, stored \o wire.tx} /\ wire' = [wire EXCEPT !.tx = <<>>]
           /\ caller' = [caller EXCEPT !.pc = IF S!Kind = "kafkaTx" THEN "failed" ELSE "abort"]
           /\ told' = told
  <2>1. caller \in SinkCaller  BY DEF SinkTyped
  <2>2. /\ caller' \in SinkCaller /\ SinkGoesOn /\ caller'.pc \in {"abort", "failed"}
        /\ caller'.todo = caller.todo
    BY <1>5, <2>1 DEF SinkCaller, SinkGoesOn
  <2>3. wire' \in SinkWire /\ wire'.flight = wire.flight  BY <1>5, SinkNoTransactionIs
  <2>4. stored' \in Seq(SinkMsg)  BY <1>2, <1>3, <1>5
  <2>5. faults' \in 0..MaxFaults  BY <1>2, <1>5, SinkFaults
  <2>6. DOMAIN caller.todo = {} /\ (Ordering => wire.flight = {})  BY <1>1 DEF SinkTyped
  <2>7. SinkTyped'
    BY <1>2, <1>5, <2>2, <2>3, <2>4, <2>5, <2>6, SinkTypedStep DEF SinkGoesOn
  <2>8. QED  BY <1>1, <1>5, <2>2, <2>7 DEF SinkGoesOn
<1>6. QED  BY <1>4, <1>5 DEF S!Commit

LEMMA SinkAbortIs ==
    ASSUME SinkTyped, S!Abort
    PROVE  /\ SinkTyped' /\ SinkGoesOn /\ caller.pc = "abort" /\ caller'.pc = "failed"
           /\ UNCHANGED <<stored, told>> /\ faults' \in 0..MaxFaults /\ faults' >= faults
<1>1. /\ caller.pc = "abort" /\ caller' = [caller EXCEPT !.pc = "failed"] /\ UNCHANGED <<stored, told>>
      /\ S!Fault \/ S!NoFault
      /\ wire' = S!NoTransaction \/ wire' = [wire EXCEPT !.tx = <<>>]
  BY DEF S!Abort
<1>2. /\ caller.batch \in DOMAIN Batches /\ caller \in SinkCaller /\ stored \in Seq(SinkMsg)
      /\ faults \in 0..MaxFaults /\ (Ordering => wire.flight = {})
      /\ \A i \in DOMAIN caller.todo : caller.todo[i] # <<>>
  BY <1>1 DEF SinkTyped
<1>3. /\ caller' \in SinkCaller /\ SinkGoesOn /\ caller'.pc = "failed" /\ caller'.todo = caller.todo
  BY <1>1, <1>2 DEF SinkCaller, SinkGoesOn
<1>4. faults' \in 0..MaxFaults /\ faults' >= faults  BY <1>1, <1>2, SinkFaults
<1>5. wire' \in SinkWire /\ wire'.flight = wire.flight  BY <1>1, SinkNoTransactionIs
<1>6. SinkTyped'
  BY <1>1, <1>2, <1>3, <1>4, <1>5, SinkTypedStep DEF SinkGoesOn
<1>7. QED  BY <1>1, <1>3, <1>4, <1>6

\* The retrier calls again or gives up.
LEMMA SinkRetryIs ==
    ASSUME SinkTyped, S!Retry
    PROVE  /\ SinkTyped' /\ caller'.kind = caller.kind /\ caller'.poison = caller.poison
           /\ caller.pc = "failed" /\ caller'.pc \in {"begin", "end"} /\ UNCHANGED <<stored, faults>>
           /\ SaidOk' = SaidOk
           /\ \/ /\ caller'.batch = caller.batch /\ caller'.attempt = caller.attempt + 1 /\ told' = told
              \/ /\ caller'.attempt = 1 /\ caller.attempt = Retries + 1
                 /\ \A b \in DOMAIN Batches : told'[b] = "failed" => told[b] = "failed" \/ b = caller.batch
<1>1. caller.pc = "failed" /\ UNCHANGED <<stored, wire, faults>>  BY DEF S!Retry
<1>2. /\ caller.batch \in DOMAIN Batches /\ caller \in SinkCaller /\ wire \in SinkWire
      /\ stored \in Seq(SinkMsg) /\ faults \in 0..MaxFaults /\ (Ordering => wire.flight = {})
  BY <1>1 DEF SinkTyped
<1>3. caller.attempt \in 1..(Retries + 1) /\ Retries \in Nat  BY SinkParts, SizesAssumption
<1>4. CASE caller.attempt <= Retries
  <2>1. caller' = [caller EXCEPT !.attempt = @ + 1, !.pc = "begin", !.todo = <<>>] /\ told' = told
    BY <1>4 DEF S!Retry, S!MayRetry
  <2>2. caller.attempt + 1 \in 1..(Retries + 1) /\ <<>> \in Seq(Seq(SinkMsg))  BY <1>3, <1>4
  <2>3. /\ caller' \in SinkCaller /\ caller'.kind = caller.kind /\ caller'.poison = caller.poison
        /\ caller'.batch = caller.batch /\ caller'.attempt = caller.attempt + 1
        /\ caller'.pc = "begin" /\ caller'.todo = <<>>
    BY <1>2, <2>1, <2>2 DEF SinkCaller
  <2>4. SinkTyped'  BY <1>1, <1>2, <2>1, <2>3, SinkTypedStep
  <2>5. SaidOk' = SaidOk  BY <2>1, SinkToldNothing
  <2>6. QED  BY <1>1, <2>1, <2>3, <2>4, <2>5
<1>5. CASE ~(caller.attempt <= Retries)
  <2>1. S!EndsWith("failed")  BY <1>5 DEF S!Retry, S!MayRetry
  <2>2. /\ SinkTyped' /\ caller'.kind = caller.kind /\ caller'.poison = caller.poison
        /\ caller'.pc \in {"begin", "end"} /\ caller'.attempt = 1
        /\ \A b \in DOMAIN Batches : told'[b] = IF b = caller.batch THEN "failed" ELSE told[b]
        /\ SaidOk' = SaidOk
    BY <1>1, <1>2, <2>1, SinkEndsIs
  <2>3. caller.attempt = Retries + 1  BY <1>3, <1>5
  <2>4. \A b \in DOMAIN Batches : told'[b] = "failed" => told[b] = "failed" \/ b = caller.batch  BY <2>2
  <2>5. QED  BY <1>1, <2>2, <2>3, <2>4
<1>6. QED  BY <1>4, <1>5

\* A batch fails only after as many failures as there were attempts.
LEMMA SinkDeservedStep ==
    ASSUME SinkTyped, SinkDeserved, caller'.kind = caller.kind, caller'.poison = caller.poison,
           faults' \in Nat, faults' >= faults,
           \A b \in DOMAIN Batches : told'[b] = "failed" =>
              told[b] = "failed" \/ (b = caller.batch /\ Failures(caller) > Retries),
           \/ faults' >= Failures(caller')
           \/ caller'.batch = caller.batch /\ (S!Poisoned(This) \/ S!Kind = "kafkaTx")
           \/ /\ caller'.batch = caller.batch /\ Failures(caller') \in Int
              /\ Failures(caller') - Failures(caller) <= faults' - faults
    PROVE  SinkDeserved'
<1>1. SUFFICES ASSUME S!Kind # "kafkaTx"
               PROVE  S!DeservedByAll' /\ (faults' >= Failures(caller') \/ S!Poisoned(This)')
  <2>1. S!Kind' = S!Kind  BY SinkSameKind
  <2>2. Failures(caller)' = Failures(caller')  BY DEF Failures
  <2>3. QED  BY <2>1, <2>2 DEF SinkDeserved
<1>2. S!DeservedByAll /\ (faults >= Failures(caller) \/ S!Poisoned(This))  BY <1>1 DEF SinkDeserved
<1>3. faults \in Nat /\ Retries \in Nat /\ Failures(caller) \in Nat
  <2>1. MaxFaults \in Nat /\ Retries \in Nat  BY SizesAssumption
  <2>2. caller.attempt \in 1..(Retries + 1)  BY SinkParts
  <2>3. QED  BY <2>1, <2>2 DEF SinkTyped, Failures
<1>4. S!DeservedByAll'
  <2>1. ASSUME NEW b \in DOMAIN Batches, told'[b] = "failed"
        PROVE  S!Poisoned(Batches[b])' \/ faults' > Retries
    <3>1. CASE told[b] = "failed"
      <4>1. S!Poisoned(Batches[b]) \/ faults > Retries  BY <1>2, <3>1 DEF S!DeservedByAll
      <4>2. QED  BY <1>3, <4>1, SinkPoison
    <3>2. CASE b = caller.batch /\ Failures(caller) > Retries
      <4>1. S!Poisoned(Batches[b]) \/ faults > Retries  BY <1>2, <1>3, <3>2 DEF This
      <4>2. QED  BY <1>3, <4>1, SinkPoison
    <3>3. QED  BY <2>1, <3>1, <3>2
  <2>2. QED  BY <2>1 DEF S!DeservedByAll
<1>5. faults' >= Failures(caller') \/ S!Poisoned(This)'
  <2> DEFINE f == Failures(caller)
             g == Failures(caller')
  <2> HIDE DEF f, g
  <2>1. CASE caller'.batch = caller.batch /\ S!Poisoned(This)  BY <2>1, SinkPoison
  <2>2. CASE /\ caller'.batch = caller.batch /\ g \in Int
             /\ g - f <= faults' - faults /\ faults >= f
    <3>1. f \in Nat  BY <1>3 DEF f
    <3>2. faults' >= g  BY <1>3, <2>2, <3>1
    <3>3. QED  BY <3>2 DEF g
  <2>3. QED  BY <1>1, <1>2, <2>1, <2>2 DEF f, g
<1>6. QED  BY <1>4, <1>5

LEMMA SinkDeservedNext ==
    ASSUME SinkTyped, SinkDeserved, S!Next
    PROVE  SinkDeserved'
<1>0. /\ faults \in 0..MaxFaults /\ faults \in Nat /\ Retries \in Nat
      /\ caller.attempt \in 1..(Retries + 1) /\ caller.attempt \in Nat
  <2>1. MaxFaults \in Nat /\ Retries \in Nat  BY SizesAssumption
  <2>2. caller.attempt \in 1..(Retries + 1)  BY SinkParts
  <2>3. QED  BY <2>1, <2>2 DEF SinkTyped
<1>1. SinkTyped' => faults' \in Nat /\ caller'.attempt \in Nat
  <2>1. SinkTyped' => faults' \in 0..MaxFaults /\ caller' \in SinkCaller  BY DEF SinkTyped
  <2>2. QED  BY <1>0, <2>1, SizesAssumption DEF SinkCaller
<1>2. S!Fault => faults' = faults + 1  BY DEF S!Fault
<1>3. ASSUME caller'.attempt = caller.attempt
      PROVE  /\ Failures(caller') \in Int /\ Failures(caller') - Failures(caller) <= 1
             /\ ~(caller'.pc \in {"abort", "failed"}) => Failures(caller') - Failures(caller) <= 0
             /\ caller.pc \in {"abort", "failed"} => Failures(caller') - Failures(caller) <= 0
             /\ caller'.pc = caller.pc => Failures(caller') - Failures(caller) <= 0
  BY <1>0, <1>3 DEF Failures
<1>4. ASSUME told' = told, NEW b \in DOMAIN Batches, told'[b] = "failed"
      PROVE  told[b] = "failed" \/ (b = caller.batch /\ Failures(caller) > Retries)
  BY <1>4
<1>5. \A s \in {Head(caller.todo)} :
         caller.pc = "send" /\ caller.todo # <<>> /\ S!Poisoned(s) => S!Poisoned(This)
  <2>1. caller.pc = "send" /\ caller.todo # <<>> => ToSet(Head(caller.todo)) \subseteq ToSet(This)
    BY SinkHead DEF SinkTyped
  <2>2. QED  BY <2>1, SinkPoison
<1>6. CASE S!Begin
  <2>1. /\ SinkTyped' /\ SinkGoesOn /\ UNCHANGED <<stored, told, faults>>
        /\ caller'.pc = "send" \/ S!Kind = "kafkaTx" \/ S!Poisoned(This)
    BY <1>6, SinkBeginIs
  <2>2. QED  BY <1>0, <1>1, <1>3, <1>4, <2>1, SinkDeservedStep DEF SinkGoesOn
<1>7. CASE S!Await
  <2>1. /\ SinkTyped' /\ SinkGoesOn /\ told' = told /\ caller.pc = "send" /\ caller.todo # <<>>
        /\ \/ faults' = faults /\ S!Poisoned(Head(caller.todo))
           \/ faults' = faults /\ caller'.pc = "send"
           \/ S!Fault
    BY <1>7, SinkAwaitIs
  <2>2. QED  BY <1>0, <1>1, <1>2, <1>3, <1>4, <1>5, <2>1, SinkDeservedStep DEF SinkGoesOn
<1>8. CASE S!Buffer
  <2>1. /\ SinkTyped' /\ SinkGoesOn /\ UNCHANGED <<stored, told, faults>> /\ caller.pc = "send"
        /\ caller.todo # <<>>
        /\ caller'.pc = "send" \/ S!Poisoned(Head(caller.todo))
    BY <1>8, SinkBufferIs DEF S!Buffer, S!Sending
  <2>2. QED  BY <1>0, <1>1, <1>3, <1>4, <1>5, <2>1, SinkDeservedStep DEF SinkGoesOn
<1>9. CASE S!SendAll
  <2>1. /\ SinkTyped' /\ SinkGoesOn /\ UNCHANGED <<stored, told, faults>>
        /\ caller'.pc = "send" \/ S!Poisoned(This)
    BY <1>9, SinkSendAllIs
  <2>2. QED  BY <1>0, <1>1, <1>3, <1>4, <2>1, SinkDeservedStep DEF SinkGoesOn
<1>10. CASE S!Lands
  <2>1. /\ SinkTyped' /\ SinkGoesOn /\ told' = told
        /\ (faults' = faults /\ caller'.pc = caller.pc) \/ S!Fault
    BY <1>10, SinkLandsIs
  <2>2. QED  BY <1>0, <1>1, <1>2, <1>3, <1>4, <2>1, SinkDeservedStep DEF SinkGoesOn
<1>11. ASSUME SinkTyped', caller'.kind = caller.kind, caller'.poison = caller.poison,
              caller'.pc \in {"begin", "end"}, caller'.attempt = 1, faults' = faults,
              \A b \in DOMAIN Batches : told'[b] = "failed" => told[b] = "failed"
       PROVE  SinkDeserved'
  <2>1. Failures(caller') = 0  BY <1>11 DEF Failures
  <2>2. QED  BY <1>0, <1>11, <2>1, SinkDeservedStep
<1>12. CASE S!Return  BY <1>11, <1>12, SinkReturnIs
<1>13. CASE S!Commit
  <2>1. CASE SinkGoesOn /\ S!Fault /\ told' = told
    <3>1. SinkTyped'  BY <1>13, SinkCommitIs
    <3>2. QED  BY <1>0, <1>1, <1>2, <1>3, <1>4, <2>1, <3>1, SinkDeservedStep DEF SinkGoesOn
  <2>2. CASE ~(SinkGoesOn /\ S!Fault /\ told' = told)
    BY <1>11, <1>13, <2>2, SinkCommitIs
  <2>3. QED  BY <2>1, <2>2
<1>14. CASE S!Abort
  <2>1. /\ SinkTyped' /\ SinkGoesOn /\ told' = told /\ caller.pc = "abort" /\ faults' >= faults
    BY <1>14, SinkAbortIs
  <2>2. faults' \in Nat /\ Failures(caller') \in Int /\ Failures(caller') - Failures(caller) <= faults' - faults
    <3>1. /\ faults \in Nat /\ faults' \in Nat /\ faults' >= faults
          /\ Failures(caller) \in Int /\ Failures(caller') \in Int
      BY <1>0, <1>1, <1>3, <2>1 DEF SinkGoesOn, Failures
    <3>2. Failures(caller') - Failures(caller) <= 0  BY <1>3, <2>1 DEF SinkGoesOn
    <3>3. \A f, g \in Int, x, y \in Nat : g - f <= 0 /\ y >= x => g - f <= y - x  OBVIOUS
    <3>4. QED  BY <3>1, <3>2, <3>3
  <2>3. QED  BY <1>4, <2>1, <2>2, SinkDeservedStep DEF SinkGoesOn
<1>15. CASE S!Retry
  <2>1. /\ SinkTyped' /\ caller'.kind = caller.kind /\ caller'.poison = caller.poison
        /\ caller.pc = "failed" /\ caller'.pc \in {"begin", "end"} /\ faults' = faults
        /\ \/ /\ caller'.batch = caller.batch /\ caller'.attempt = caller.attempt + 1 /\ told' = told
           \/ /\ caller'.attempt = 1 /\ caller.attempt = Retries + 1
              /\ \A b \in DOMAIN Batches : told'[b] = "failed" => told[b] = "failed" \/ b = caller.batch
    BY <1>15, SinkRetryIs
  <2>2. Failures(caller) = caller.attempt /\ Failures(caller') = caller'.attempt - 1
    BY <2>1 DEF Failures
  <2>3. CASE caller'.batch = caller.batch /\ caller'.attempt = caller.attempt + 1 /\ told' = told
    <3>1. Failures(caller') \in Int /\ Failures(caller') - Failures(caller) <= faults' - faults
      BY <1>0, <2>1, <2>2, <2>3
    <3>2. QED  BY <1>0, <1>1, <1>4, <2>1, <2>3, <3>1, SinkDeservedStep
  <2>4. CASE /\ caller'.attempt = 1 /\ caller.attempt = Retries + 1
             /\ \A b \in DOMAIN Batches : told'[b] = "failed" => told[b] = "failed" \/ b = caller.batch
    <3>1. faults' >= Failures(caller') /\ Failures(caller) > Retries /\ faults' >= faults
      BY <1>0, <2>1, <2>2, <2>4
    <3>2. QED  BY <1>1, <2>1, <2>4, <3>1, SinkDeservedStep
  <2>5. QED  BY <2>1, <2>3, <2>4
<1>16. QED
  BY <1>6, <1>7, <1>8, <1>9, <1>10, <1>12, <1>13, <1>14, <1>15 DEF S!Next, S!Progress

\* Two sequences of writes, one after the other.
LEMMA FollowsConcat ==
    ASSUME NEW T, NEW s \in Seq(T), NEW x \in Seq(T), NEW m, NEW n
    PROVE  /\ Follows(s, m, n) /\ m \notin ToSet(x) => Follows(s \o x, m, n)
           /\ Follows(x, m, n) => Follows(s \o x, m, n)
           /\ m \notin ToSet(x) /\ n \in ToSet(x) => Follows(x, m, n)
<1> DEFINE u == s \o x
           a == Len(s)
           b == Len(x)
<1>1. /\ a \in Nat /\ b \in Nat /\ DOMAIN s = 1..a /\ DOMAIN x = 1..b /\ DOMAIN u = 1..(a + b)
      /\ \A i \in 1..a : u[i] = s[i]
      /\ \A i \in 1..b : u[a + i] = x[i]
  BY ConcatElements
<1> HIDE DEF u, a, b
<1>2. \A i \in DOMAIN u : i \in 1..a \/ (i - a \in 1..b /\ u[i] = x[i - a])
  <2>1. \A i \in 1..(a + b) : i \in 1..a \/ (i - a \in 1..b /\ a + (i - a) = i)  BY <1>1
  <2>2. QED  BY <1>1, <2>1
<1>3. ASSUME Follows(s, m, n), m \notin ToSet(x) PROVE Follows(u, m, n)
  <2>1. PICK j \in 1..a : s[j] = n /\ \A i \in 1..a : s[i] = m => i < j  BY <1>1, <1>3 DEF Follows
  <2>2. \A i \in 1..b : x[i] # m  BY <1>1, <1>3 DEF ToSet
  <2>3. u[j] = n /\ j \in DOMAIN u  BY <1>1, <2>1
  <2>4. \A i \in DOMAIN u : u[i] = m => i < j  BY <1>1, <1>2, <2>1, <2>2
  <2>5. QED  BY <2>3, <2>4 DEF Follows
<1>4. ASSUME Follows(x, m, n) PROVE Follows(u, m, n)
  <2>1. PICK j \in 1..b : x[j] = n /\ \A i \in 1..b : x[i] = m => i < j  BY <1>1, <1>4 DEF Follows
  <2>2. u[a + j] = n /\ a + j \in DOMAIN u  BY <1>1, <2>1
  <2>3. ASSUME NEW i \in DOMAIN u, u[i] = m PROVE i < a + j
    <3>1. CASE i \in 1..a  BY <1>1, <2>1, <3>1
    <3>2. CASE i - a \in 1..b /\ u[i] = x[i - a]
      <4>1. i - a < j  BY <2>1, <2>3, <3>2
      <4>2. i \in Int /\ j \in Int  BY <1>1, <2>1
      <4>3. QED  BY <1>1, <4>1, <4>2
    <3>3. QED  BY <1>2, <3>1, <3>2
  <2>4. QED  BY <2>2, <2>3 DEF Follows
<1>5. m \notin ToSet(x) /\ n \in ToSet(x) => Follows(x, m, n)  BY DEF Follows, ToSet
<1>6. QED  BY <1>3, <1>4, <1>5 DEF u

LEMMA FollowsSorted ==
    ASSUME NEW x \in Seq(Nat), SortedBy(x, InDest), NEW m \in Nat, NEW n \in ToSet(x), Precedes(m, n)
    PROVE  Follows(x, m, n)
<1>1. Len(x) \in Nat /\ DOMAIN x = 1..Len(x) /\ \A i \in DOMAIN x : x[i] \in Nat  OBVIOUS
<1>2. PICK j \in DOMAIN x : x[j] = n  BY DEF ToSet
<1>3. n \in Nat /\ m < n /\ Dest[m] = Dest[n]  BY <1>1, <1>2 DEF Precedes
<1>4. ASSUME NEW i \in DOMAIN x, x[i] = m PROVE i < j
  <2>1. i \in Nat /\ j \in Nat /\ i # j  BY <1>1, <1>2, <1>3, <1>4
  <2>2. CASE j < i
    <3>1. <<n, m>> \in InDest  BY <1>2, <1>4, <2>2 DEF SortedBy
    <3>2. n < m  BY <1>3, <3>1 DEF InDest
    <3>3. QED  BY <1>3, <3>2
  <2>3. QED  BY <2>1, <2>2
<1>5. QED  BY <1>2, <1>4 DEF Follows

\* A transaction without rest has its batch once.
LEMMA SinkTxEven ==
    ASSUME SinkTyped, SinkWhole, Transacts, caller.pc = "send", caller.todo = <<>>
    PROVE  SinkEven(wire.tx)
<1>1. wire.tx \in Seq(SinkMsg) /\ Rest = <<>> /\ caller.batch \in DOMAIN Batches
  BY SinkParts DEF SinkTyped
<1>2. \A m \in SinkMsg : Occurs(wire.tx, {m}) = IF m \in ToSet(This) THEN 1 ELSE 0
  <2>1. \A m \in SinkMsg : Occurs(wire.tx, {m}) + Occurs(Rest, {m}) = IF m \in ToSet(This) THEN 1 ELSE 0
    BY DEF SinkWhole
  <2>2. ASSUME NEW m \in SinkMsg PROVE Occurs(wire.tx, {m}) = IF m \in ToSet(This) THEN 1 ELSE 0
    <3>1. <<>> \in Seq(SinkMsg) /\ Len(<<>>) = 0  OBVIOUS
    <3>2. Occurs(<<>>, {m}) \in 0..0  BY <3>1, OccursBounds
    <3> DEFINE w == wire.tx
    <3>3. w \in Seq(SinkMsg) /\ Len(w) \in Nat  BY <1>1
    <3> HIDE DEF w
    <3>4. Occurs(w, {m}) \in 0..Len(w)  BY <3>3, OccursBounds
    <3>5. Occurs(w, {m}) \in Nat  BY <3>3, <3>4
    <3>6. Occurs(Rest, {m}) = 0  BY <1>1, <3>2
    <3>7. Occurs(wire.tx, {m}) + Occurs(Rest, {m}) = IF m \in ToSet(This) THEN 1 ELSE 0  BY <2>1
    <3> DEFINE a == Occurs(wire.tx, {m})
               b == IF m \in ToSet(This) THEN 1 ELSE 0
    <3>8. a \in Nat /\ a + 0 = b  BY <3>5, <3>6, <3>7 DEF w
    <3> HIDE DEF a, b
    <3>9. a = b  BY <3>8
    <3>10. QED  BY <3>9 DEF a, b
  <2>3. QED  BY <2>2
<1>3. ASSUME NEW b \in DOMAIN Batches, NEW m \in ToSet(Batches[b]), NEW n \in ToSet(Batches[b]),
             m \in ToSet(This)
      PROVE  n \in ToSet(This)
  <2>1. PICK i \in DOMAIN Batches[b] : Batches[b][i] = m  BY DEF ToSet
  <2>2. PICK j \in DOMAIN This : This[j] = m  BY <1>3 DEF ToSet
  <2>3. m \in Nat  BY <1>1, <1>3, SinkThis
  <2>4. ~(b < caller.batch) /\ ~(caller.batch < b)
    <3>1. b < caller.batch => m < m  BY <1>1, <2>1, <2>2, BatchesAssumption DEF This
    <3>2. caller.batch < b => m < m  BY <1>1, <2>1, <2>2, BatchesAssumption DEF This
    <3>3. QED  BY <2>3, <3>1, <3>2
  <2>5. b \in Int /\ caller.batch \in Int
    <3>1. Batches \in Seq(Seq(Nat))  BY BatchesAssumption
    <3>2. QED  BY <1>1, <3>1
  <2>6. b = caller.batch  BY <2>4, <2>5
  <2>7. QED  BY <2>6 DEF This
<1>4. QED  BY <1>2, <1>3 DEF SinkEven, SinkMsg

\* What is written is written after the rest.
LEMMA SinkEvenConcat ==
    ASSUME NEW s \in Seq(SinkMsg), NEW x \in Seq(SinkMsg), SinkEven(s), SinkEven(x)
    PROVE  SinkEven(s \o x)
<1>1. ASSUME NEW b \in DOMAIN Batches, NEW m \in ToSet(Batches[b]), NEW n \in ToSet(Batches[b])
      PROVE  Occurs(s \o x, {m}) = Occurs(s \o x, {n})
  <2>1. \A k : Occurs(s \o x, {k}) = Occurs(s, {k}) + Occurs(x, {k})  BY OccursConcat
  <2>2. Occurs(s, {m}) = Occurs(s, {n}) /\ Occurs(x, {m}) = Occurs(x, {n})  BY DEF SinkEven
  <2>3. QED  BY <2>1, <2>2
<1>2. QED  BY Zenon, <1>1 DEF SinkEven

\* A call that does not go on sending leaves what it was told true, if what is
\* written now is part of no batch that was written.
LEMMA SinkLater ==
    ASSUME SinkTyped, SinkStored, SinkWhole, SinkOrdered,
           caller'.kind = caller.kind, caller'.pc # "send", SaidOk' = SaidOk,
           NEW x \in Seq(SinkMsg), stored' = stored \o x,
           Transacts => SinkEven(x), Ordering => ToSet(x) \cap SaidOk = {}
    PROVE  SinkStored' /\ SinkWhole' /\ SinkOrdered'
<1>1. S!Kind' = S!Kind /\ (Ordering' <=> Ordering) /\ (Transacts' <=> Transacts)  BY SinkSameKind
<1>2. stored \in Seq(SinkMsg)  BY DEF SinkTyped
<1>3. SinkStored'
  <2>1. ToSet(stored') = ToSet(stored) \cup ToSet(x)  BY <1>2, ToSetConcat
  <2>2. QED  BY <1>1, <2>1 DEF SinkStored, S!Buffered
<1>4. SinkWhole'
  <2>1. ASSUME Transacts PROVE SinkEven(stored')
    <3>1. SinkEven(stored) /\ SinkEven(x)  BY <2>1 DEF SinkWhole
    <3>2. QED  BY <1>2, <3>1, SinkEvenConcat
  <2>2. SinkEven(stored)' <=> SinkEven(stored')  BY DEF SinkEven
  <2>3. QED  BY <1>1, <2>1, <2>2 DEF SinkWhole
<1>5. SinkOrdered'
  <2>1. ASSUME Ordering, NEW m \in SaidOk, NEW n \in SaidOk, Precedes(m, n)
        PROVE  Follows(stored', m, n)
    <3>1. Follows(stored, m, n) /\ m \notin ToSet(x)  BY <2>1 DEF SinkOrdered, SinkInOrder
    <3>2. QED  BY <1>2, <3>1, FollowsConcat
  <2>2. QED  BY <1>1, <2>1 DEF SinkOrdered, SinkInOrder
<1>6. QED  BY <1>3, <1>4, <1>5

\* A call that was sent whole is told so.
LEMMA SinkReturns ==
    ASSUME SinkTyped, SinkStored, SinkWhole, SinkOrdered,
           caller'.kind = caller.kind, caller.pc = "send", caller.todo = <<>>, caller'.pc # "send",
           SaidOk' = SaidOk \cup ToSet(This), stored' = Written,
           S!Kind \in S!Parallel => ~\E r \in wire.flight : S!Mine(r)
    PROVE  SinkStored' /\ SinkWhole' /\ SinkOrdered'
<1>1. S!Kind' = S!Kind /\ (Ordering' <=> Ordering) /\ (Transacts' <=> Transacts)  BY SinkSameKind
<1>2. /\ stored \in Seq(SinkMsg) /\ wire.tx \in Seq(SinkMsg) /\ Rest = <<>>
      /\ Transacts => Written = stored \o wire.tx
      /\ ~Transacts => Written = stored
  BY SinkParts DEF Written
<1>3. /\ This \in Seq(SinkMsg) /\ ToSet(This) \subseteq SinkMsg /\ SinkMsg \subseteq Nat
      /\ \A m \in SaidOk, n \in ToSet(This) : m < n /\ m # n
      /\ SaidOk \subseteq SinkMsg
  <2>1. caller.batch \in DOMAIN Batches  BY DEF SinkTyped
  <2>2. QED  BY <2>1, SinkThis
<1> DEFINE w == wire.tx
<1>4. w \in Seq(SinkMsg) /\ (Transacts => stored' = stored \o w /\ ToSet(w) \subseteq ToSet(This))
      /\ (~Transacts => stored' = stored)
  BY <1>2 DEF SinkTyped
<1>5. ToSet(Rest) = {}  BY <1>2 DEF ToSet
<1>6. SinkStored'
  <2>1. ToSet(stored) \subseteq ToSet(stored')
    <3> HIDE DEF w
    <3>1. ToSet(stored \o w) = ToSet(stored) \cup ToSet(w)  BY <1>2, <1>4, ToSetConcat
    <3>2. QED  BY <1>4, <3>1
  <2>2. ASSUME S!Kind \notin S!Buffered PROVE SaidOk' \subseteq ToSet(stored')
    <3>1. SaidOk \subseteq ToSet(stored) /\ ToSet(This) \subseteq ToSet(Written)
      BY <1>5, <2>2 DEF SinkStored
    <3>2. QED  BY <2>1, <3>1
  <2>3. QED  BY <1>1, <2>2 DEF SinkStored, S!Buffered
<1>7. SinkWhole'
  <2>1. ASSUME Transacts PROVE SinkEven(stored')
    <3>1. SinkEven(stored) /\ SinkEven(w)  BY <2>1, SinkTxEven DEF SinkWhole
    <3> HIDE DEF w
    <3>2. QED  BY <1>2, <1>4, <2>1, <3>1, SinkEvenConcat
  <2>2. SinkEven(stored)' <=> SinkEven(stored')  BY DEF SinkEven
  <2>3. QED  BY <1>1, <2>1, <2>2 DEF SinkWhole
<1>8. SinkOrdered'
  <2>1. ASSUME Ordering, NEW m \in SaidOk \cup ToSet(This), NEW n \in SaidOk \cup ToSet(This), Precedes(m, n)
        PROVE  Follows(stored', m, n)
    <3>1. CASE n \in ToSet(This)
      BY <1>5, <2>1, <3>1 DEF SinkOrdered, SinkInOrder
    <3>2. CASE n \in SaidOk /\ m \in ToSet(This)
      <4>1. n < m /\ m < n /\ m \in Nat /\ n \in Nat  BY <1>3, <2>1, <3>2 DEF Precedes
      <4>2. QED  BY <4>1
    <3>3. CASE n \in SaidOk /\ m \in SaidOk
      <4>1. Follows(stored, m, n)  BY <2>1, <3>3 DEF SinkOrdered, SinkInOrder
      <4>2. Transacts => m \notin ToSet(w)  BY <1>3, <1>4, <3>3
      <4> HIDE DEF w
      <4>3. QED  BY <1>2, <1>4, <4>1, <4>2, FollowsConcat
    <3>4. QED  BY <2>1, <3>1, <3>2, <3>3
  <2>2. QED  BY <1>1, <2>1 DEF SinkOrdered, SinkInOrder
<1>9. QED  BY <1>6, <1>7, <1>8

\* At first the whole batch is left.
LEMMA SinkBegins ==
    ASSUME SinkTyped, SinkStored, SinkWhole, SinkOrdered, S!Begin, caller'.pc = "send"
    PROVE  SinkStored' /\ SinkWhole' /\ SinkOrdered'
<1>1. /\ SinkGoesOn /\ caller.batch \in DOMAIN Batches /\ UNCHANGED <<stored, told, faults>>
      /\ caller'.todo = S!Requests(This) /\ (Transacts => wire'.tx = <<>>)
  BY SinkBeginIs
<1>2. /\ S!Kind' = S!Kind /\ (Ordering' <=> Ordering) /\ (Transacts' <=> Transacts)
      /\ This' = This /\ SaidOk' = SaidOk
  BY <1>1, SinkSameKind, SinkToldNothing DEF SinkGoesOn, This
<1> DEFINE r == FlattenSeq(S!Requests(This))
<1>3. Rest' = r  BY <1>1 DEF Rest
<1>4. This \in Seq(SinkMsg) /\ SortedBy(This, Less) /\ SinkMsg \subseteq Nat  BY <1>1, SinkThis
<1>5. r \in Seq(SinkMsg) /\ ToSet(r) = ToSet(This) /\ (Ordering => SortedBy(r, InDest))
  <2> DEFINE s == This
  <2>1. s \in Seq(SinkMsg) /\ SortedBy(s, Less)  BY <1>4
  <2> HIDE DEF s
  <2>2. RequestsFor(S!Requests(s), s) /\ (Ordering => SortedBy(FlattenSeq(S!Requests(s)), InDest))
    BY <1>4, <2>1, RequestsProperties DEF Ordering
  <2>3. FlattenSeq(S!Requests(s)) \in Seq(SinkMsg)
    <3> DEFINE t == S!Requests(s)
    <3>1. t \in Seq(Seq(SinkMsg))  BY <2>2 DEF RequestsFor
    <3> HIDE DEF t
    <3>2. FlattenSeq(t) \in Seq(SinkMsg)  BY <3>1, FlattenType
    <3>3. QED  BY <3>2 DEF t
  <2>4. QED  BY <2>2, <2>3 DEF RequestsFor, s
<1> HIDE DEF r
<1>6. SinkStored'
  <2>1. S!Kind \notin S!Buffered => SaidOk \subseteq ToSet(stored)  BY DEF SinkStored
  <2>2. \A m \in ToSet(This)' : m \in ToSet(Rest)'  BY <1>2, <1>3, <1>5
  <2>3. QED  BY <1>1, <1>2, <2>1, <2>2 DEF SinkStored, S!Buffered
<1>7. SinkWhole'
  <2>1. ASSUME Transacts, NEW m \in SinkMsg
        PROVE  Occurs(wire'.tx, {m}) + Occurs(r, {m}) = IF m \in ToSet(This) THEN 1 ELSE 0
    <3>1. \A x \in SinkMsg : <<x, x>> \notin InDest  BY <1>4 DEF InDest
    <3>2. Occurs(r, {m}) = IF m \in ToSet(r) THEN 1 ELSE 0
      BY <1>5, <2>1, <3>1, SinkSorts, OccursOnce
    <3>3. Occurs(<<>>, {m}) = 0
      <4>1. <<>> \in Seq(SinkMsg) /\ Len(<<>>) = 0  OBVIOUS
      <4>2. Occurs(<<>>, {m}) \in 0..0  BY <4>1, OccursBounds
      <4>3. QED  BY <4>2
    <3>4. wire'.tx = <<>>  BY <1>1, <2>1
    <3>5. QED  BY <1>5, <3>2, <3>3, <3>4
  <2>2. Transacts => SinkEven(stored)  BY DEF SinkWhole
  <2>3. SinkEven(stored)' <=> SinkEven(stored)  BY <1>1 DEF SinkEven
  <2>4. QED  BY <1>2, <1>3, <2>1, <2>2, <2>3 DEF SinkWhole
<1>8. SinkOrdered'
  <2>1. Ordering => SinkInOrder(stored, SaidOk, SaidOk)  BY DEF SinkOrdered
  <2>2. ToSet(This)' \ ToSet(Rest)' = {}  BY <1>2, <1>3, <1>5
  <2>3. SinkInOrder(stored', SaidOk', SaidOk') <=> SinkInOrder(stored, SaidOk, SaidOk)
    BY <1>1, <1>2
  <2>4. ASSUME NEW s, NEW M PROVE SinkInOrder(s, M, {})  BY DEF SinkInOrder
  <2>5. QED  BY <1>2, <1>3, <1>5, <2>1, <2>2, <2>3, <2>4 DEF SinkOrdered
<1>9. QED  BY <1>6, <1>7, <1>8

\* A sequence over a set is one over any set that contains it.
LEMMA SeqOfMore ==
    ASSUME NEW A, NEW B, A \subseteq B, NEW s \in Seq(A)
    PROVE  s \in Seq(B)
<1>1. Len(s) \in Nat /\ s \in [1..Len(s) -> A]  BY LenProperties
<1>2. s \in [1..Len(s) -> B]  BY <1>1
<1>3. QED  BY <1>1, <1>2, SeqDef

\* Then the requests are written one by one.
LEMMA SinkAwaits ==
    ASSUME SinkTyped, SinkStored, SinkWhole, SinkOrdered, S!Await, caller'.pc = "send"
    PROVE  SinkStored' /\ SinkWhole' /\ SinkOrdered'
<1> DEFINE q == Head(caller.todo)
           t == FlattenSeq(Tail(caller.todo))
           w == Written
           z == wire.tx
           done == ToSet(This) \ ToSet(Rest)
<1>1. /\ SinkGoesOn /\ caller.pc = "send" /\ caller.todo # <<>> /\ Ordering /\ told' = told
      /\ caller'.todo = Tail(caller.todo) /\ SinkWrites(q) /\ Written' = w \o q
      /\ caller.batch \in DOMAIN Batches
  BY SinkAwaitIs DEF SinkTyped
<1>2. /\ S!Kind' = S!Kind /\ (Ordering' <=> Ordering) /\ (Transacts' <=> Transacts)
      /\ This' = This /\ SaidOk' = SaidOk /\ Rest' = t
  BY <1>1, SinkSameKind, SinkToldNothing DEF SinkGoesOn, This, Rest
<1>3. /\ q \in Seq(SinkMsg) /\ t \in Seq(SinkMsg) /\ Rest = q \o t
      /\ ToSet(Rest) = ToSet(q) \cup ToSet(t)
  BY <1>1, SinkHead
<1>4. w \in Seq(SinkMsg) /\ z \in Seq(SinkMsg) /\ stored \in Seq(SinkMsg)  BY SinkParts
<1>5. ToSet(Rest) \subseteq ToSet(This)  BY <1>1 DEF SinkTyped
<1>6. /\ ToSet(This) \subseteq SinkMsg /\ SinkMsg \subseteq Nat
      /\ \A m \in SaidOk, n \in ToSet(This) : m < n /\ m # n
      /\ SaidOk \subseteq SinkMsg
  BY <1>1, SinkThis
<1> HIDE DEF q, t, w, z
<1>7. SinkStored'
  <2>1. ToSet(w \o q) = ToSet(w) \cup ToSet(q)  BY <1>3, <1>4, ToSetConcat
  <2>2. ToSet(stored) \subseteq ToSet(stored')
    <3>1. ToSet(stored \o q) = ToSet(stored) \cup ToSet(q)  BY <1>3, <1>4, ToSetConcat
    <3>2. QED  BY <1>1, <3>1 DEF SinkWrites
  <2>3. S!Kind \notin S!Buffered /\ S!Kind \notin S!Parallel  BY <1>1, SinkSorts
  <2>4. SaidOk \subseteq ToSet(stored)  BY <2>3 DEF SinkStored
  <2>5. \A m \in ToSet(This) : m \in ToSet(w) \/ m \in ToSet(Rest)  BY <1>1, <2>3 DEF SinkStored, w
  <2>6. \A m \in ToSet(This)' : m \in ToSet(Written)' \/ m \in ToSet(Rest)'
    BY <1>1, <1>2, <1>3, <2>1, <2>5
  <2>7. QED  BY <1>2, <2>2, <2>4, <2>6 DEF SinkStored
<1>8. SinkWhole'
  <2>1. ASSUME Transacts, NEW m \in SinkMsg
        PROVE  Occurs(wire'.tx, {m}) + Occurs(t, {m}) = IF m \in ToSet(This) THEN 1 ELSE 0
    <3>1. wire'.tx = z \o q  BY <1>1, <2>1 DEF SinkWrites, z
    <3>2. Occurs(z \o q, {m}) = Occurs(z, {m}) + Occurs(q, {m})  BY <1>3, <1>4, OccursConcat
    <3>3. Occurs(q \o t, {m}) = Occurs(q, {m}) + Occurs(t, {m})  BY <1>3, OccursConcat
    <3>4. Occurs(z, {m}) + Occurs(q \o t, {m}) = IF m \in ToSet(This) THEN 1 ELSE 0
      BY <1>1, <1>3, <2>1 DEF SinkWhole, z
    <3>5. Occurs(z, {m}) \in Nat /\ Occurs(q, {m}) \in Nat /\ Occurs(t, {m}) \in Nat
      <4>1. ASSUME NEW s \in Seq(SinkMsg) PROVE Occurs(s, {m}) \in Nat
        <5>1. Occurs(s, {m}) \in 0..Len(s) /\ Len(s) \in Nat  BY OccursBounds
        <5>2. QED  BY <5>1
      <4>2. QED  BY <1>3, <1>4, <4>1
    <3>6. \A a, b, c \in Nat : (a + b) + c = a + (b + c)  OBVIOUS
    <3>7. (Occurs(z, {m}) + Occurs(q, {m})) + Occurs(t, {m}) = Occurs(z, {m}) + (Occurs(q, {m}) + Occurs(t, {m}))
      BY <3>5, <3>6
    <3>8. QED  BY <3>1, <3>2, <3>3, <3>4, <3>7
  <2>2. Transacts => SinkEven(stored) /\ stored' = stored  BY <1>1 DEF SinkWhole, SinkWrites
  <2>3. SinkEven(stored)' <=> SinkEven(stored')  BY DEF SinkEven
  <2>4. QED  BY <1>2, <2>1, <2>2, <2>3 DEF SinkWhole
<1>9. SinkOrdered'
  <2>1. /\ SinkInOrder(stored, SaidOk, SaidOk) /\ SortedBy(Rest, InDest)
        /\ SinkInOrder(w, SaidOk \cup done, done)
        /\ \A m \in done, n \in ToSet(Rest) : Dest[m] = Dest[n] => m < n
    BY <1>1 DEF SinkOrdered, w
  <2>2. SortedBy(q, InDest) /\ SortedBy(t, InDest) /\ \A m \in ToSet(q), n \in ToSet(t) : <<m, n>> \in InDest
    BY <1>3, <2>1, SortedConcat
  <2>3. ASSUME NEW m \in SaidOk, NEW n \in SaidOk, Precedes(m, n) PROVE Follows(stored', m, n)
    <3>1. Follows(stored, m, n)  BY <2>1, <2>3 DEF SinkInOrder
    <3>2. m \notin ToSet(q)  BY <1>3, <1>5, <1>6, <2>3
    <3>3. Follows(stored \o q, m, n)  BY <1>3, <1>4, <3>1, <3>2, FollowsConcat
    <3>4. QED  BY <1>1, <3>1, <3>3 DEF SinkWrites
  <2> DEFINE D == ToSet(This) \ ToSet(t)
  <2>4. D \subseteq done \cup ToSet(q)  BY <1>3
  <2>5. ASSUME NEW m \in SaidOk \cup D, NEW n \in D, Precedes(m, n) PROVE Follows(w \o q, m, n)
    <3>1. m \in Nat /\ n \in Nat /\ q \in Seq(Nat)
      <4>1. m \in Nat /\ n \in Nat  BY <1>6
      <4>2. q \in Seq(Nat)  BY <1>3, <1>6, SeqOfMore
      <4>3. QED  BY <4>1, <4>2
    <3>2. CASE n \in ToSet(q) /\ m \notin ToSet(q)
      BY <1>3, <1>4, <3>2, FollowsConcat
    <3>3. CASE n \in ToSet(q) /\ m \in ToSet(q)
      <4>1. Follows(q, m, n)  BY <2>2, <2>5, <3>1, <3>3, FollowsSorted
      <4>2. QED  BY <1>3, <1>4, <4>1, FollowsConcat
    <3>4. CASE n \notin ToSet(q) /\ m \notin ToSet(q)
      <4>1. n \in done /\ m \in SaidOk \cup done  BY <2>4, <3>4
      <4>2. Follows(w, m, n)  BY <2>1, <2>5, <4>1 DEF SinkInOrder
      <4>3. QED  BY <1>3, <1>4, <3>4, <4>2, FollowsConcat
    <3>5. CASE n \notin ToSet(q) /\ m \in ToSet(q)
      <4>1. n \in done /\ m \in ToSet(Rest)  BY <1>3, <2>4, <3>5
      <4>2. Dest[n] = Dest[m] /\ m < n  BY <2>5 DEF Precedes
      <4>3. n < m  BY <2>1, <4>1, <4>2
      <4>4. QED  BY <3>1, <4>2, <4>3
    <3>6. QED  BY <3>2, <3>3, <3>4, <3>5
  <2>6. ASSUME NEW m \in D, NEW n \in ToSet(t), Dest[m] = Dest[n] PROVE m < n
    <3>1. CASE m \in done
      <4>1. n \in ToSet(Rest)  BY <1>3
      <4>2. QED  BY <2>1, <2>6, <3>1, <4>1
    <3>2. CASE m \in ToSet(q)
      <4>1. <<m, n>> \in InDest  BY <2>2, <3>2
      <4>2. QED  BY <2>6, <4>1 DEF InDest
    <3>3. QED  BY <2>4, <3>1, <3>2
  <2>7. ToSet(This)' \ ToSet(Rest)' = D  BY <1>2
  <2>8. SinkInOrder(stored', SaidOk', SaidOk')  BY <1>2, <2>3 DEF SinkInOrder
  <2>9. SinkInOrder(Written', SaidOk' \cup D, D)  BY <1>1, <1>2, <2>5 DEF SinkInOrder
  <2>10. SortedBy(Rest', InDest) /\ ToSet(Rest') = ToSet(t)  BY <1>2, <2>2
  <2> HIDE DEF D
  <2>11. QED  BY <2>6, <2>7, <2>8, <2>9, <2>10 DEF SinkOrdered
<1>10. QED  BY <1>7, <1>8, <1>9

\* The requests of the other sinks are made together, and awaited together or
\* not at all.
LEMMA SinkUnderWay ==
    ASSUME SinkTyped, SinkStored, SinkWhole, SinkOrdered,
           S!Buffer \/ S!SendAll \/ S!Lands, caller'.pc = "send"
    PROVE  SinkStored' /\ SinkWhole' /\ SinkOrdered'
<1>1. SinkGoesOn /\ told' = told /\ ~Ordering
  BY SinkBufferIs, SinkSendAllIs, SinkLandsIs, SinkSorts
<1>2. /\ S!Kind' = S!Kind /\ (Ordering' <=> Ordering) /\ (Transacts' <=> Transacts) /\ ~Transacts
      /\ This' = This /\ SaidOk' = SaidOk
  BY <1>1, SinkSameKind, SinkToldNothing, SinkSorts DEF SinkGoesOn, This
<1>3. SinkWhole' /\ SinkOrdered'  BY <1>1, <1>2 DEF SinkWhole, SinkOrdered
<1>4. stored \in Seq(SinkMsg) /\ Written = stored /\ Written' = stored'
  BY <1>2 DEF SinkTyped, Written
<1>5. SinkStored'
  <2>1. CASE S!Kind \in S!Buffered  BY <1>2, <2>1 DEF SinkStored, S!Buffered
  <2>2. CASE S!Kind \notin S!Buffered /\ S!SendAll
    <3>1. /\ caller.pc = "send" /\ stored' = stored /\ wire.flight \subseteq wire'.flight
          /\ S!Kind \in S!Parallel
          /\ \A m \in ToSet(Rest) : \E r \in wire'.flight : S!Mine(r)' /\ m \in ToSet(r.request)
      BY <2>2, SinkSendAllIs
    <3>2. \A r \in wire.flight : S!Mine(r) => S!Mine(r)'
      BY <1>1, <3>1 DEF S!Mine, SinkGoesOn
    <3>3. ASSUME NEW m \in ToSet(This)
          PROVE  m \in ToSet(stored) \/ \E r \in wire'.flight : S!Mine(r)' /\ m \in ToSet(r.request)
      <4>1. \/ m \in ToSet(stored) \/ m \in ToSet(Rest)
            \/ \E r \in wire.flight : S!Mine(r) /\ m \in ToSet(r.request)
        BY <1>4, <2>2, <3>1 DEF SinkStored
      <4>2. QED  BY <3>1, <3>2, <4>1
    <3>4. SaidOk \subseteq ToSet(stored)  BY <2>2 DEF SinkStored
    <3>5. QED  BY <1>2, <1>4, <3>1, <3>3, <3>4 DEF SinkStored, S!Parallel
  <2>3. CASE S!Kind \notin S!Buffered /\ S!Lands
    <3>1. PICK x \in wire.flight :
            /\ wire'.flight = wire.flight \ {x} /\ caller'.todo = caller.todo
            /\ x.request \in Seq(SinkMsg)
            /\ stored' \in {stored, stored \o x.request} /\ caller.pc = "send"
            /\ stored' = stored \o x.request \/ ~(S!Mine(x) /\ S!Kind \in S!Parallel)
      <4>1. caller'.todo = caller.todo  BY <2>3, SinkLandsIs
      <4>2. \E x \in wire.flight :
              /\ wire'.flight = wire.flight \ {x}
              /\ stored' \in {stored, stored \o x.request} /\ x.request \in Seq(SinkMsg)
              /\ \/ stored' = stored \o x.request /\ caller'.pc = caller.pc
                 \/ caller'.pc = caller.pc /\ ~(S!Mine(x) /\ S!Kind \in S!Parallel)
                 \/ caller'.pc \in {"abort", "failed"}
        BY <2>3, SinkLandsIs
      <4>3. QED  BY <4>1, <4>2
    <3>2. ToSet(stored) \subseteq ToSet(stored') /\ (stored' = stored \o x.request => ToSet(x.request) \subseteq ToSet(stored'))
      <4> DEFINE q == x.request
      <4>1. q \in Seq(SinkMsg) /\ stored' \in {stored, stored \o q}  BY <3>1
      <4> HIDE DEF q
      <4>2. ToSet(stored \o q) = ToSet(stored) \cup ToSet(q)  BY <1>4, <4>1, ToSetConcat
      <4>3. ToSet(stored) \subseteq ToSet(stored') /\ (stored' = stored \o q => ToSet(q) \subseteq ToSet(stored'))
        BY <4>1, <4>2
      <4>4. QED  BY <4>3 DEF q
    <3>3. \A r \in wire.flight : S!Mine(r) => S!Mine(r)'
      BY <1>1, <3>1 DEF S!Mine, SinkGoesOn
    <3>4. Rest' = Rest  BY <3>1 DEF Rest
    <3>5. ASSUME NEW m \in ToSet(This)
          PROVE  \/ m \in ToSet(stored') \/ m \in ToSet(Rest)
                 \/ S!Kind \in S!Parallel /\ \E r \in wire'.flight : S!Mine(r)' /\ m \in ToSet(r.request)
      <4>1. \/ m \in ToSet(stored) \/ m \in ToSet(Rest)
            \/ S!Kind \in S!Parallel /\ \E r \in wire.flight : S!Mine(r) /\ m \in ToSet(r.request)
        BY <1>4, <2>3, <3>1 DEF SinkStored
      <4>2. CASE S!Kind \in S!Parallel /\ \E r \in wire.flight : S!Mine(r) /\ m \in ToSet(r.request)
        <5>1. PICK r \in wire.flight : S!Mine(r) /\ m \in ToSet(r.request)  BY <4>2
        <5>2. CASE r = x  BY <3>1, <3>2, <4>2, <5>1, <5>2
        <5>3. CASE r # x  BY <3>1, <3>3, <4>2, <5>1, <5>3
        <5>4. QED  BY <5>2, <5>3
      <4>3. QED  BY <3>2, <4>1, <4>2
    <3>6. SaidOk \subseteq ToSet(stored)  BY <2>3 DEF SinkStored
    <3>7. QED  BY <1>2, <1>4, <3>2, <3>4, <3>5, <3>6 DEF SinkStored, S!Parallel
  <2>4. CASE S!Kind \notin S!Buffered /\ S!Buffer  BY <2>4, SinkBufferIs
  <2>5. QED  BY <2>1, <2>2, <2>3, <2>4
<1>6. QED  BY <1>3, <1>5

\* Every step keeps what was said true.
LEMMA SinkKept ==
    ASSUME SinkTyped, SinkStored, SinkWhole, SinkOrdered, S!Next
    PROVE  SinkStored' /\ SinkWhole' /\ SinkOrdered'
<1>1. stored \in Seq(SinkMsg) /\ stored \o <<>> = stored /\ <<>> \in Seq(SinkMsg) /\ ToSet(<<>>) = {}
  <2>1. stored \in Seq(SinkMsg)  BY DEF SinkTyped
  <2>2. stored \o <<>> = stored  BY <2>1, ConcatEmptySeq
  <2>3. QED  BY <2>1, <2>2 DEF ToSet
<1>2. SinkEven(<<>>)
  <2>1. ASSUME NEW m PROVE Occurs(<<>>, {m}) = 0
    <3>1. Len(<<>>) = 0  OBVIOUS
    <3>2. Occurs(<<>>, {m}) \in 0..0  BY <1>1, <3>1, OccursBounds
    <3>3. QED  BY <3>2
  <2>2. QED  BY <2>1 DEF SinkEven
<1>3. ASSUME caller'.kind = caller.kind, caller'.pc # "send", SaidOk' = SaidOk, stored' = stored
      PROVE  SinkStored' /\ SinkWhole' /\ SinkOrdered'
  <2> DEFINE x == <<>>
  <2>1. x \in Seq(SinkMsg) /\ stored' = stored \o x /\ SinkEven(x) /\ ToSet(x) = {}
    BY <1>1, <1>2, <1>3
  <2> HIDE DEF x
  <2>2. QED  BY <1>3, <2>1, SinkLater
<1>4. CASE S!Begin
  <2>1. CASE caller'.pc = "send"  BY <1>4, <2>1, SinkBegins
  <2>2. CASE caller'.pc # "send"
    <3>1. caller'.kind = caller.kind /\ SaidOk' = SaidOk /\ stored' = stored
      BY <1>4, SinkBeginIs, SinkToldNothing DEF SinkGoesOn
    <3>2. QED  BY <1>3, <2>2, <3>1
  <2>3. QED  BY <2>1, <2>2
<1>5. CASE S!Await
  <2>1. CASE caller'.pc = "send"  BY <1>5, <2>1, SinkAwaits
  <2>2. CASE caller'.pc # "send"
    <3>1. /\ caller'.kind = caller.kind /\ SaidOk' = SaidOk /\ caller.pc = "send" /\ caller.todo # <<>>
          /\ \/ stored' = stored
             \/ \E x \in Seq(SinkMsg) : ToSet(x) \subseteq ToSet(Head(caller.todo)) /\ SinkWrites(x)
      BY <1>5, <2>2, SinkAwaitIs, SinkToldNothing DEF SinkGoesOn
    <3>2. CASE stored' = stored  BY <1>3, <2>2, <3>1, <3>2
    <3>3. CASE \E x \in Seq(SinkMsg) : ToSet(x) \subseteq ToSet(Head(caller.todo)) /\ SinkWrites(x)
      <4>1. PICK x \in Seq(SinkMsg) : ToSet(x) \subseteq ToSet(Head(caller.todo)) /\ SinkWrites(x)  BY <3>3
      <4>2. CASE Transacts
        <5>1. stored' = stored  BY <4>1, <4>2 DEF SinkWrites
        <5>2. QED  BY <1>3, <2>2, <3>1, <5>1
      <4>3. CASE ~Transacts
        <5>1. stored' = stored \o x  BY <4>1, <4>3 DEF SinkWrites
        <5>2. ToSet(x) \subseteq ToSet(This) /\ caller.batch \in DOMAIN Batches
          BY <3>1, <4>1, SinkHead DEF SinkTyped
        <5>3. ToSet(x) \cap SaidOk = {}  BY <5>2, SinkThis
        <5>4. QED  BY <2>2, <3>1, <4>3, <5>1, <5>3, SinkLater
      <4>4. QED  BY <4>2, <4>3
    <3>4. QED  BY <3>1, <3>2, <3>3
  <2>3. QED  BY <2>1, <2>2
<1>6. CASE S!Buffer \/ S!SendAll \/ S!Lands
  <2>1. CASE caller'.pc = "send"  BY <1>6, <2>1, SinkUnderWay
  <2>2. CASE caller'.pc # "send"
    <3>1. caller'.kind = caller.kind /\ SaidOk' = SaidOk /\ ~Ordering /\ ~Transacts
      BY <1>6, SinkBufferIs, SinkSendAllIs, SinkLandsIs, SinkSorts, SinkToldNothing DEF SinkGoesOn
    <3>2. stored' = stored \/ \E x \in Seq(SinkMsg) : stored' = stored \o x
      BY <1>6, SinkBufferIs, SinkSendAllIs, SinkLandsIs
    <3>3. CASE stored' = stored  BY <1>3, <2>2, <3>1, <3>3
    <3>4. CASE \E x \in Seq(SinkMsg) : stored' = stored \o x
      BY <2>2, <3>1, <3>4, SinkLater
    <3>5. QED  BY <3>2, <3>3, <3>4
  <2>3. QED  BY <2>1, <2>2
<1>7. CASE S!Return
  <2>1. /\ caller'.kind = caller.kind /\ caller.pc = "send" /\ caller.todo = <<>> /\ caller'.pc # "send"
        /\ ~Transacts /\ SaidOk' = SaidOk \cup ToSet(This) /\ stored' = stored
        /\ S!Kind \in S!Parallel => ~\E r \in wire.flight : S!Mine(r)
    BY <1>7, SinkReturnIs
  <2>2. stored' = Written  BY <2>1 DEF Written
  <2>3. QED  BY <2>1, <2>2, SinkReturns
<1>8. CASE S!Commit
  <2>1. /\ caller'.kind = caller.kind /\ caller.pc = "send" /\ caller.todo = <<>> /\ Transacts
        /\ caller'.pc # "send"
        /\ \/ stored' = Written /\ SaidOk' = SaidOk \cup ToSet(This)
           \/ stored' \in {stored, stored \o wire.tx} /\ told' = told
    BY <1>8, SinkCommitIs
  <2>2. S!Kind \notin S!Parallel  BY <2>1, SinkSorts
  <2>3. CASE stored' = Written /\ SaidOk' = SaidOk \cup ToSet(This)
    BY <2>1, <2>2, <2>3, SinkReturns
  <2>4. CASE stored' \in {stored, stored \o wire.tx} /\ told' = told
    <3> DEFINE x == wire.tx
    <3>1. x \in Seq(SinkMsg) /\ SaidOk' = SaidOk  BY <2>4, SinkParts, SinkToldNothing
    <3>2. SinkEven(x)  BY <2>1, SinkTxEven
    <3>3. ToSet(x) \cap SaidOk = {}
      <4>1. ToSet(x) \subseteq ToSet(This) /\ caller.batch \in DOMAIN Batches  BY <2>1 DEF SinkTyped
      <4>2. QED  BY <4>1, SinkThis
    <3>4. stored' = stored \/ stored' = stored \o x  BY <2>4
    <3> HIDE DEF x
    <3>5. CASE stored' = stored  BY <1>3, <2>1, <3>1, <3>5
    <3>6. CASE stored' = stored \o x  BY <2>1, <3>1, <3>2, <3>3, <3>6, SinkLater
    <3>7. QED  BY <3>4, <3>5, <3>6
  <2>5. QED  BY <2>1, <2>3, <2>4
<1>9. CASE S!Abort
  <2>1. caller'.kind = caller.kind /\ caller'.pc # "send" /\ SaidOk' = SaidOk /\ stored' = stored
    BY <1>9, SinkAbortIs, SinkToldNothing DEF SinkGoesOn
  <2>2. QED  BY <1>3, <2>1
<1>10. CASE S!Retry
  <2>1. caller'.kind = caller.kind /\ caller'.pc # "send" /\ SaidOk' = SaidOk /\ stored' = stored
    BY <1>10, SinkRetryIs
  <2>2. QED  BY <1>3, <2>1
<1>11. QED
  BY <1>4, <1>5, <1>6, <1>7, <1>8, <1>9, <1>10 DEF S!Next, S!Progress

LEMMA SinkNext == ASSUME SinkInv, S!Next PROVE SinkInv'
<1>1. SinkTyped'
  BY SinkBeginIs, SinkAwaitIs, SinkBufferIs, SinkSendAllIs, SinkLandsIs, SinkReturnIs, SinkCommitIs,
     SinkAbortIs, SinkRetryIs DEF SinkInv, S!Next, S!Progress
<1>2. QED  BY <1>1, SinkKept, SinkDeservedNext DEF SinkInv

LEMMA SinkInit == ASSUME S!Init PROVE SinkInv
<1>1. PICK k \in Kinds, p \in Poisons :
      /\ caller = [kind |-> k, poison |-> p, batch |-> 1, attempt |-> 1, pc |-> "begin", todo |-> <<>>]
      /\ stored = <<>> /\ faults = 0 /\ told = [b \in DOMAIN Batches |-> "no"]
      /\ wire = [open |-> FALSE, tx |-> <<>>, flight |-> {}]
  BY DEF S!Init
<1>2. Len(Batches) \in Nat /\ Retries \in Nat /\ MaxFaults \in Nat
  <2>1. Batches \in Seq(Seq(Nat))  BY BatchesAssumption
  <2>2. QED  BY <2>1, SizesAssumption
<1>3. /\ <<>> \in Seq(Seq(SinkMsg)) /\ <<>> \in Seq(SinkMsg) /\ DOMAIN <<>> = {}
      /\ 1 \in 1..(Len(Batches) + 1) /\ 1 \in 1..(Retries + 1)
  BY <1>2
<1>4. caller.batch = 1 /\ caller.attempt = 1 /\ caller.pc = "begin" /\ caller.todo = <<>>
  BY <1>1
<1>5. caller \in SinkCaller  BY <1>1, <1>3 DEF SinkCaller
<1>6. wire \in SinkWire /\ wire.flight = {}  BY <1>1, <1>3 DEF SinkWire
<1>7. \A b \in DOMAIN Batches : told[b] = "no"  BY <1>1
<1>8. SinkTyped
  <2>1. told \in [DOMAIN Batches -> {"no", "ok", "failed"}]  BY <1>1
  <2>2. faults \in 0..MaxFaults /\ stored \in Seq(SinkMsg)  BY <1>1, <1>2, <1>3
  <2>3. QED  BY <1>3, <1>4, <1>5, <1>6, <1>7, <2>1, <2>2 DEF SinkTyped
<1>9. SaidOk = {}  BY <1>7 DEF SaidOk
<1>10. SinkStored  BY <1>4, <1>9 DEF SinkStored
<1>11. SinkDeserved  BY <1>1, <1>4, <1>7 DEF SinkDeserved, S!DeservedByAll, Failures
<1>12. SinkWhole
  <2>1. \A m : Occurs(<<>>, {m}) = 0
    <3>1. ASSUME NEW m PROVE Occurs(<<>>, {m}) = 0
      <4>1. Len(<<>>) = 0  OBVIOUS
      <4>2. Occurs(<<>>, {m}) \in 0..0  BY <1>3, <4>1, OccursBounds
      <4>3. QED  BY <4>2
    <3>2. QED  BY <3>1
  <2>2. QED  BY <1>1, <1>4, <2>1 DEF SinkWhole, SinkEven
<1>13. SinkOrdered  BY <1>4, <1>9 DEF SinkOrdered, SinkInOrder
<1>14. QED  BY <1>8, <1>10, <1>11, <1>12, <1>13 DEF SinkInv

\* What the runs check of the sinks.
LEMMA SinkImplies ==
    ASSUME SinkInv
    PROVE  S!TypeOK /\ S!OkIsStored /\ S!Deserved /\ S!Whole /\ S!InOrder
<1>1. /\ SinkTyped /\ stored \in Seq(SinkMsg)
      /\ caller.kind \in Kinds /\ caller.poison \in Poisons /\ caller.batch \in 1..(Len(Batches) + 1)
      /\ caller.attempt \in 1..(Retries + 1) /\ caller.pc \in {"begin", "send", "abort", "failed", "end"}
      /\ caller.todo \in Seq(Seq(SinkMsg)) /\ wire.open \in BOOLEAN /\ wire.tx \in Seq(SinkMsg)
  BY SinkParts DEF SinkInv
<1>2. S!TypeOK
  <2>1. \A i \in DOMAIN caller.todo : caller.todo[i] \in Seq(SinkMsg) /\ caller.todo[i] # <<>>
    BY <1>1 DEF SinkTyped
  <2>2. QED  BY <1>1, <2>1, SinkNames DEF S!TypeOK, S!Kind, SinkTyped
<1>3. \A m : S!Count(m) = Occurs(stored, {m})
  <2>1. \A m : {i \in DOMAIN stored : stored[i] = m} = {i \in DOMAIN stored : stored[i] \in {m}}
    OBVIOUS
  <2>2. \A T : S!Cardinality(T) = Cardinality(T)  BY DEF S!Cardinality, Cardinality
  <2>3. QED  BY <2>1, <2>2 DEF S!Count, Occurs
<1>4. S!Ok = SaidOk  BY SinkNames DEF S!Ok, SaidOk
<1>5. \A m \in ToSet(stored) : S!Count(m) > 0
  <2>1. ASSUME NEW m \in ToSet(stored) PROVE Occurs(stored, {m}) > 0
    <3>1. \E i \in DOMAIN stored : stored[i] \in {m}  BY DEF ToSet
    <3>2. Occurs(stored, {m}) \in 0..Len(stored) /\ Len(stored) \in Nat /\ Occurs(stored, {m}) # 0
      BY <1>1, <3>1, OccursBounds
    <3>3. QED  BY <3>2
  <2>2. QED  BY <1>3, <2>1
<1>6. S!OkIsStored  BY <1>4, <1>5 DEF S!OkIsStored, SinkInv, SinkStored
<1>7. S!Deserved  BY DEF S!Deserved, SinkInv, SinkDeserved
<1>8. S!Whole
  <2>1. Transacts => SinkEven(stored)  BY DEF SinkInv, SinkWhole
  <2>2. QED  BY <1>3, <2>1, SinkNames DEF S!Whole, SinkEven, Transacts
<1>9. S!InOrder
  <2>1. ASSUME Ordering, NEW m \in SaidOk, NEW n \in SaidOk, Precedes(m, n)
        PROVE  S!LastAt(m) < S!LastAt(n)
    <3> DEFINE At(x) == {i \in DOMAIN stored : stored[i] = x}
               L == Len(stored)
    <3>1. L \in Nat /\ DOMAIN stored = 1..L  BY <1>1
    <3>2. Follows(stored, m, n)  BY <2>1 DEF SinkInv, SinkOrdered, SinkInOrder
    <3>3. PICK j \in At(n) : \A i \in At(m) : i < j  BY <3>2 DEF Follows
    <3>4. m \in ToSet(stored)  BY <2>1, SinkSorts DEF SinkInv, SinkStored
    <3>5. At(m) # {} /\ At(n) # {}  BY <3>3, <3>4 DEF ToSet
    <3>6. ASSUME NEW x, At(x) # {} PROVE Max(At(x)) \in At(x) /\ \A i \in At(x) : i <= Max(At(x))
      <4> DEFINE T == At(x)
      <4>1. T \in SUBSET Nat /\ T # {} /\ \A i \in T : i <= L  BY <3>1, <3>6
      <4> HIDE DEF T, L
      <4>2. Max(T) \in T /\ \A i \in T : i <= Max(T)  BY <3>1, <4>1, MaxProperties
      <4>3. QED  BY <4>2 DEF T
    <3>7. Max(At(m)) < j /\ j <= Max(At(n))  BY <3>3, <3>5, <3>6
    <3>8. Max(At(m)) \in Nat /\ j \in Nat /\ Max(At(n)) \in Nat
      <4>1. Max(At(m)) \in DOMAIN stored /\ Max(At(n)) \in DOMAIN stored  BY <3>5, <3>6
      <4>2. QED  BY <3>1, <4>1
    <3>9. S!LastAt(m) = Max(At(m)) /\ S!LastAt(n) = Max(At(n))  BY SinkNames DEF S!LastAt
    <3>10. \A a, b, c \in Nat : a < b /\ b <= c => a < c  OBVIOUS
    <3> HIDE DEF At
    <3>11. QED  BY <3>7, <3>8, <3>9, <3>10
  <2>2. QED  BY <1>4, <2>1 DEF S!InOrder, Ordering, Precedes
<1>10. QED  BY <1>2, <1>6, <1>7, <1>8, <1>9

-----------------------------------------------------------------------------
(* Cosmos DB.  The first invariant says what is loaded: whatever a caller  *)
(* has put together so far is a prefix of what is stored, and a state of   *)
(* the current sequence number is the stored one.                          *)

CosmosPart ==
    {p \in Instances \X Nat \X Nat :
        p[2] \in DOMAIN Outputs[p[1]] /\ p[3] \in 1..Outputs[p[1]][p[2]]}
CosmosParts == Seq(CosmosPart)
CosmosCallers == Instances \cup {0}
CosmosBlobs == UNION {[D -> CosmosParts] : D \in SUBSET Nat}
CosmosStored ==
    [kind : Stores, data : CosmosParts, sn : Nat,
     blobs : CosmosBlobs, listed : SUBSET Nat]
CosmosCaller ==
    [pc : {"idle", "load", "blob", "query", "sink"}, input : Nat \ {0}, state : CosmosParts, sn : Nat,
     at : Nat \cup {-1}, mark : Nat \cup {-1}, attempt : Nat]
CosmosRequest == [sn : Nat, new : CosmosParts, count : Nat, state : CosmosParts, last : BOOLEAN]
CosmosSnap == [pc : {"idle", "list", "write"}, sn : Nat, state : CosmosParts, list : SUBSET Nat]
CosmosWire == [late : SUBSET CosmosRequest, snap : [Snapshotters -> CosmosSnap]]

IsEvents(s) == s.kind \in {"events", "slowEvents"}

\* The store counts its events; every snapshot is a prefix of them, and what is
\* listed is there.
CosmosStoreOK(s) ==
    /\ s \in CosmosStored
    /\ IsEvents(s) => s.sn = Len(s.data)
    /\ IsEvents(s) \/ DOMAIN s.blobs = {}
    /\ \A n \in DOMAIN s.blobs : n <= s.sn /\ s.blobs[n] = SubSeq(s.data, 1, n)
    /\ s.listed \subseteq DOMAIN s.blobs

\* What a caller has loaded.
Within(c) == c.at = -1 \/ c.sn <= c.at
CosmosCallerOK(s, w, c) ==
    /\ IF w = 0 THEN c.pc # "sink" /\ (c.at = -1 => c.pc = "idle") ELSE c.at = -1 /\ (c.pc # "idle" => c.input \in DOMAIN Outputs[w])
    /\ c.at # -1 => IsEvents(s) /\ c.at <= s.sn
    /\ c.pc = "blob" => IsEvents(s) /\ c.sn \in DOMAIN s.blobs /\ Within(c)
    /\ c.pc = "query" /\ IsEvents(s) => c.sn <= s.sn /\ c.state = SubSeq(s.data, 1, c.sn) /\ Within(c)
    /\ c.pc = "sink" => c.sn <= s.sn /\ (c.sn = s.sn => c.state = s.data)
    /\ w = 0 /\ c.pc = "idle" /\ c.at # -1 => c.state = SubSeq(s.data, 1, c.at)

\* A request that is accepted writes what it adds behind what is stored.
CosmosRequestOK(s, r) ==
    /\ r.new # <<>> => r.count > 0
    /\ r.sn <= s.sn
    /\ r.sn = s.sn => r.state = s.data \o r.new

\* A snapshot that is listed next has been written.
CosmosSnapOK(s, j) ==
    /\ j.pc # "idle" => j.sn \in DOMAIN s.blobs
    /\ j.list \subseteq DOMAIN s.blobs

CosmosInv ==
    /\ CosmosStoreOK(stored)
    /\ caller \in [CosmosCallers -> CosmosCaller]
    /\ \A w \in CosmosCallers : CosmosCallerOK(stored, w, caller[w])
    /\ wire \in CosmosWire
    /\ \A r \in wire.late : CosmosRequestOK(stored, r)
    /\ \A x \in Snapshotters : CosmosSnapOK(stored, wire.snap[x])

LEMMA CosmosCallersAre == Instances \subseteq CosmosCallers /\ 0 \in CosmosCallers
BY DEF CosmosCallers

\* The instance of CosmosStore has its own copies of the operators of the
\* community modules.
LEMMA CosmosNames ==
    /\ C!Events <=> IsEvents(stored)
    /\ \A s : C!ToSet(s) = ToSet(s) /\ C!Max(s) = Max(s) /\ C!Min(s) = Min(s)
    /\ \A s, e : C!Contains(s, e) <=> Contains(s, e)
BY DEF C!Events, IsEvents, C!ToSet, ToSet, C!Max, Max, C!Min, Min, C!Contains, Contains

\* What an instance stores for one of its inputs.
LEMMA CosmosPartsProperties ==
    ASSUME NEW w \in Instances, NEW i \in DOMAIN Outputs[w]
    PROVE  /\ C!Parts(w, i) \in CosmosParts /\ Len(C!Parts(w, i)) = Outputs[w][i]
           /\ \A n \in 1..Outputs[w][i] : C!Parts(w, i)[n] = <<w, i, n>>
           /\ Outputs[w][i] \in Nat /\ i \in 1..Len(Outputs[w]) /\ Len(Outputs[w]) \in Nat
<1>1. Outputs[w] \in Seq(Nat)  BY InstancesAssumption
<1>2. Outputs[w][i] \in Nat /\ i \in 1..Len(Outputs[w]) /\ Len(Outputs[w]) \in Nat  BY <1>1
<1>3. \A n \in 1..Outputs[w][i] : <<w, i, n>> \in CosmosPart  BY <1>2 DEF CosmosPart
<1>4. C!Parts(w, i) = [n \in 1..Outputs[w][i] |-> <<w, i, n>>]  BY DEF C!Parts
<1>5. C!Parts(w, i) \in [1..Outputs[w][i] -> CosmosPart]  BY <1>3, <1>4
<1>6. C!Parts(w, i) \in CosmosParts /\ Len(C!Parts(w, i)) = Outputs[w][i]
  BY <1>2, <1>5 DEF CosmosParts
<1>7. QED  BY <1>2, <1>4, <1>6

\* What is stored only grows.
CosmosGrows(s, t) ==
    /\ t.kind = s.kind /\ s.sn <= t.sn
    /\ Len(s.data) <= Len(t.data)
    /\ \A n \in 0..Len(s.data) : SubSeq(t.data, 1, n) = SubSeq(s.data, 1, n)
    /\ t.sn = s.sn => t.data = s.data
    /\ DOMAIN s.blobs \subseteq DOMAIN t.blobs

\* What callers have loaded stays right when more is stored.
LEMMA CosmosStaysLoaded ==
    ASSUME NEW s, NEW t, CosmosStoreOK(s), CosmosStoreOK(t), CosmosGrows(s, t)
    PROVE  /\ \A w \in CosmosCallers, c \in CosmosCaller : CosmosCallerOK(s, w, c) => CosmosCallerOK(t, w, c)
           /\ \A r \in CosmosRequest : CosmosRequestOK(s, r) => CosmosRequestOK(t, r)
           /\ \A j \in CosmosSnap : CosmosSnapOK(s, j) => CosmosSnapOK(t, j)
<1>1. /\ s.sn \in Nat /\ t.sn \in Nat /\ s.data \in CosmosParts /\ t.data \in CosmosParts
      /\ IsEvents(s) <=> IsEvents(t)
      /\ IsEvents(s) => s.sn = Len(s.data)
  BY DEF CosmosStoreOK, CosmosStored, CosmosGrows, IsEvents
<1>2. ASSUME NEW w \in CosmosCallers, NEW c \in CosmosCaller, CosmosCallerOK(s, w, c)
      PROVE  CosmosCallerOK(t, w, c)
  <2>1. c.sn \in Nat /\ c.at \in Nat \cup {-1}  BY DEF CosmosCaller
  <2>2. \A n \in Nat : IsEvents(s) /\ n <= s.sn => SubSeq(t.data, 1, n) = SubSeq(s.data, 1, n)
    BY <1>1 DEF CosmosGrows
  <2>3. c.at # -1 => c.at \in Nat /\ IsEvents(s) /\ c.at <= s.sn  BY <2>1, <1>2 DEF CosmosCallerOK
  <2>4. c.pc = "sink" => c.sn <= t.sn /\ (c.sn = t.sn => c.state = t.data)
    BY <1>1, <1>2, <2>1 DEF CosmosCallerOK, CosmosGrows
  <2>5. c.at # -1 => c.at <= t.sn  BY <1>1, <2>3 DEF CosmosGrows
  <2>6. c.pc = "query" /\ IsEvents(s) => c.sn <= t.sn /\ c.state = SubSeq(t.data, 1, c.sn) /\ Within(c)
    BY <1>1, <1>2, <2>1, <2>2 DEF CosmosCallerOK, CosmosGrows
  <2>7. w = 0 /\ c.pc = "idle" /\ c.at # -1 => c.state = SubSeq(t.data, 1, c.at)
    BY <1>2, <2>2, <2>3 DEF CosmosCallerOK
  <2>8. c.pc = "blob" => IsEvents(t) /\ c.sn \in DOMAIN t.blobs /\ Within(c)
    BY <1>1, <1>2 DEF CosmosCallerOK, CosmosGrows
  <2>9. QED  BY <1>1, <1>2, <2>3, <2>4, <2>5, <2>6, <2>7, <2>8 DEF CosmosCallerOK
<1>3. ASSUME NEW r \in CosmosRequest, CosmosRequestOK(s, r)
      PROVE  CosmosRequestOK(t, r)
  <2>1. r.sn \in Nat  BY DEF CosmosRequest
  <2>2. s.sn <= t.sn /\ (t.sn = s.sn => t.data = s.data)  BY DEF CosmosGrows
  <2>3. /\ r.new # <<>> => r.count > 0
        /\ r.sn <= s.sn /\ (r.sn = s.sn => r.state = s.data \o r.new)
    BY <1>3 DEF CosmosRequestOK
  <2>4. r.sn <= t.sn  BY <1>1, <2>1, <2>2, <2>3
  <2>5. r.sn = t.sn => t.sn = s.sn  BY <1>1, <2>1, <2>2, <2>3
  <2>6. QED  BY <2>2, <2>3, <2>4, <2>5 DEF CosmosRequestOK
<1>4. \A j \in CosmosSnap : CosmosSnapOK(s, j) => CosmosSnapOK(t, j)  BY DEF CosmosSnapOK, CosmosGrows
<1>5. QED  BY <1>2, <1>3, <1>4

\* A request that is accepted makes what is stored grow.
LEMMA CosmosExecuted ==
    ASSUME CosmosStoreOK(stored), NEW r \in CosmosRequest, CosmosRequestOK(stored, r), C!Matches(r)
    PROVE  CosmosStoreOK(C!Executed(r)) /\ CosmosGrows(stored, C!Executed(r))
<1> DEFINE t == C!Executed(r)
<1>1. /\ stored \in CosmosStored /\ stored.data \in CosmosParts /\ stored.sn \in Nat
      /\ r.new \in CosmosParts /\ r.state \in CosmosParts /\ r.count \in Nat /\ r.sn \in Nat
      /\ r.sn = stored.sn /\ r.state = stored.data \o r.new
  BY DEF CosmosStoreOK, CosmosStored, CosmosRequest, CosmosRequestOK, C!Matches
<1>2. CASE C!Verifies(r)
  <2>1. t = stored  BY <1>2 DEF C!Executed
  <2>2. CosmosGrows(stored, stored)  BY <1>1 DEF CosmosGrows
  <2>3. QED  BY <2>1, <2>2
<1>3. CASE ~C!Verifies(r)
  <2>1. r.new # <<>> /\ r.count > 0  BY <1>3 DEF C!Verifies, CosmosRequestOK
  <2>2. r.state \in CosmosParts /\ Len(r.state) = Len(stored.data) + Len(r.new) /\ Len(r.new) > 0
        /\ Len(r.new) \in Nat /\ Len(stored.data) \in Nat
    BY <1>1, <2>1 DEF CosmosParts
  <2> DEFINE sn == stored.sn + (IF IsEvents(stored) THEN Len(r.new) ELSE r.count)
  <2>3. t = [stored EXCEPT !.data = r.state, !.sn = sn]
    BY <1>1, <1>3, CosmosNames DEF C!Executed
  <2>0. sn \in Nat /\ stored.sn < sn
    <3>1. CASE IsEvents(stored)  BY <1>1, <2>2, <3>1
    <3>2. CASE ~IsEvents(stored)  BY <1>1, <2>1, <3>2
    <3>3. QED  BY <3>1, <3>2
  <2>14. /\ IsEvents(stored) => sn = stored.sn + Len(r.new)
  OBVIOUS
  <2> HIDE DEF t, sn
  <2>4. /\ t \in CosmosStored /\ t.kind = stored.kind /\ t.blobs = stored.blobs /\ t.listed = stored.listed
        /\ t.data = r.state /\ t.sn = sn
    BY <1>1, <2>0, <2>3 DEF CosmosStored
  <2>5. /\ stored.sn < t.sn /\ t.sn \in Nat /\ Len(t.data) = Len(stored.data) + Len(r.new)
        /\ IsEvents(stored) => t.sn = stored.sn + Len(r.new)
    BY <2>0, <2>2, <2>4, <2>14
  <2>6. \A n \in 0..Len(stored.data) : SubSeq(t.data, 1, n) = SubSeq(stored.data, 1, n)
    <3> DEFINE a == stored.data
    <3>1. a \in Seq(CosmosPart) /\ r.new \in Seq(CosmosPart) /\ t.data = a \o r.new
      BY <1>1, <2>4 DEF CosmosParts
    <3> HIDE DEF a
    <3>2. \A n \in 0..Len(a) : SubSeq(a \o r.new, 1, n) = SubSeq(a, 1, n)  BY <3>1, PrefixOfConcat
    <3>3. QED  BY <3>1, <3>2 DEF a
  <2>7. CosmosGrows(stored, t)
    <3>1. stored.sn <= t.sn /\ t.sn # stored.sn  BY <1>1, <2>5
    <3>2. \A m, n \in Nat : m <= m + n  OBVIOUS
    <3>3. Len(stored.data) <= Len(t.data)  BY <2>2, <2>5, <3>2
    <3>4. QED  BY <2>4, <2>6, <3>1, <3>3 DEF CosmosGrows
  <2>8. IsEvents(t) <=> IsEvents(stored)  BY <2>4 DEF IsEvents
  <2>9. ASSUME NEW n \in DOMAIN t.blobs
        PROVE  n <= t.sn /\ t.blobs[n] = SubSeq(t.data, 1, n)
    <3>1. n \in DOMAIN stored.blobs /\ n <= stored.sn /\ stored.blobs[n] = SubSeq(stored.data, 1, n)
          /\ IsEvents(stored) /\ stored.sn = Len(stored.data)
      BY <2>4, <2>9 DEF CosmosStoreOK
    <3>2. n \in Nat  BY <1>1, <3>1 DEF CosmosStored, CosmosBlobs
    <3>3. n \in 0..Len(stored.data) /\ n <= t.sn  BY <1>1, <2>2, <2>5, <3>1, <3>2
    <3>4. t.blobs[n] = SubSeq(t.data, 1, n)  BY <2>4, <2>6, <3>1, <3>3
    <3>5. QED  BY <3>3, <3>4
  <2>10. CosmosStoreOK(t)  BY <1>1, <2>2, <2>4, <2>5, <2>8, <2>9 DEF CosmosStoreOK
  <2>11. QED  BY <2>7, <2>10 DEF t
<1>4. QED  BY <1>2, <1>3

\* A step keeps the invariant if it keeps what it changes right.
LEMMA CosmosKeeps ==
    ASSUME CosmosInv, CosmosStoreOK(stored'), CosmosGrows(stored, stored'),
           caller' \in [CosmosCallers -> CosmosCaller],
           \A w \in CosmosCallers : caller'[w] = caller[w] \/ CosmosCallerOK(stored', w, caller'[w]),
           wire' \in CosmosWire,
           \A r \in wire'.late : r \in wire.late \/ CosmosRequestOK(stored', r),
           \A x \in Snapshotters : wire'.snap[x] = wire.snap[x] \/ CosmosSnapOK(stored', wire'.snap[x])
    PROVE  CosmosInv'
<1>1. /\ \A w \in CosmosCallers, c \in CosmosCaller :
            CosmosCallerOK(stored, w, c) => CosmosCallerOK(stored', w, c)
      /\ \A r \in CosmosRequest : CosmosRequestOK(stored, r) => CosmosRequestOK(stored', r)
      /\ \A j \in CosmosSnap : CosmosSnapOK(stored, j) => CosmosSnapOK(stored', j)
  BY CosmosStaysLoaded DEF CosmosInv
<1>2. \A w \in CosmosCallers : CosmosCallerOK(stored', w, caller'[w])
  <2>1. \A w \in CosmosCallers : caller[w] \in CosmosCaller /\ CosmosCallerOK(stored, w, caller[w])
    BY DEF CosmosInv
  <2>2. QED  BY <1>1, <2>1
<1>3. \A r \in wire'.late : CosmosRequestOK(stored', r)
  <2>1. \A r \in wire.late : r \in CosmosRequest /\ CosmosRequestOK(stored, r)
    BY DEF CosmosInv, CosmosWire
  <2>2. QED  BY <1>1, <2>1
<1>4. \A x \in Snapshotters : CosmosSnapOK(stored', wire'.snap[x])
  <2>1. \A x \in Snapshotters : wire.snap[x] \in CosmosSnap /\ CosmosSnapOK(stored, wire.snap[x])
    BY DEF CosmosInv, CosmosWire
  <2>2. QED  BY <1>1, <2>1
<1>5. QED  BY <1>2, <1>3, <1>4 DEF CosmosInv

\* What is stored is right while nothing is stored.
LEMMA CosmosGrowsNot == ASSUME CosmosInv PROVE CosmosStoreOK(stored) /\ CosmosGrows(stored, stored)
<1>1. stored.sn \in Nat /\ stored.data \in CosmosParts /\ CosmosStoreOK(stored)
  BY DEF CosmosInv, CosmosStoreOK, CosmosStored
<1>2. Len(stored.data) \in Nat  BY <1>1 DEF CosmosParts
<1>3. QED  BY <1>1, <1>2 DEF CosmosGrows

\* One that only moves a caller keeps it if that caller is right.
LEMMA CosmosMoves ==
    ASSUME CosmosInv, UNCHANGED <<stored, wire>>, NEW w \in CosmosCallers, NEW c \in CosmosCaller,
           caller' = [caller EXCEPT ![w] = c], CosmosCallerOK(stored, w, c)
    PROVE  CosmosInv'
<1>1. CosmosStoreOK(stored') /\ CosmosGrows(stored, stored')  BY CosmosGrowsNot
<1>2. caller \in [CosmosCallers -> CosmosCaller] /\ wire \in CosmosWire  BY DEF CosmosInv
<1>3. caller' \in [CosmosCallers -> CosmosCaller]  BY <1>2
<1>4. \A v \in CosmosCallers : caller'[v] = IF v = w THEN c ELSE caller[v]  BY <1>2
<1>5. \A v \in CosmosCallers : caller'[v] = caller[v] \/ CosmosCallerOK(stored', v, caller'[v])
  BY <1>4
<1>6. QED  BY <1>1, <1>2, <1>3, <1>5, CosmosKeeps

\* What the first steps need of a caller.
LEMMA CosmosTypes ==
    ASSUME CosmosInv, NEW w \in CosmosCallers
    PROVE  /\ caller[w] \in CosmosCaller /\ CosmosCallerOK(stored, w, caller[w])
           /\ stored.data \in CosmosParts /\ stored.sn \in Nat
           /\ IsEvents(stored) => stored.sn = Len(stored.data)
           /\ caller[w].input \in Nat \ {0} /\ caller[w].sn \in Nat /\ caller[w].state \in CosmosParts
           /\ caller[w].at \in Nat \cup {-1} /\ caller[w].mark \in Nat \cup {-1}
           /\ caller[w].attempt \in Nat
BY DEF CosmosInv, CosmosCaller, CosmosStoreOK, CosmosStored

\* The inputs of an instance of which something is stored.
CosmosMine(w) == {stored.data[n][2] : n \in {x \in DOMAIN stored.data : stored.data[x][1] = w}}

\* The watermark is the last of them, unless the source has asked already.
LEMMA WatermarkProperties ==
    ASSUME CosmosInv, NEW w \in Instances
    PROVE  /\ C!Watermark(w) \in Nat \cup {-1}
           /\ caller[w].mark # -1 => C!Watermark(w) = caller[w].mark
           /\ caller[w].mark = -1 =>
                \/ CosmosMine(w) = {} /\ C!Watermark(w) = -1
                \/ C!Watermark(w) \in CosmosMine(w) /\ \A i \in CosmosMine(w) : i <= C!Watermark(w)
<1> DEFINE mine == CosmosMine(w)
<1>1. caller[w].mark \in Nat \cup {-1} /\ stored.data \in Seq(CosmosPart)
  BY CosmosTypes DEF CosmosCallers, CosmosParts
<1>2. Outputs[w] \in Seq(Nat)  BY InstancesAssumption
<1>3. \A x \in DOMAIN stored.data : stored.data[x] \in CosmosPart  BY <1>1
<1>4. \A x \in DOMAIN stored.data :
        stored.data[x][1] = w => stored.data[x][2] \in Nat /\ stored.data[x][2] <= Len(Outputs[w])
  <2>1. \A p \in CosmosPart : p[1] = w => p[2] \in 1..Len(Outputs[w])  BY <1>2 DEF CosmosPart
  <2>2. Len(Outputs[w]) \in Nat  BY <1>2
  <2>3. QED  BY <1>3, <2>1, <2>2
<1>5. mine \in SUBSET Nat /\ \A i \in mine : i <= Len(Outputs[w])  BY <1>4 DEF CosmosMine
<1>6. C!Watermark(w) = IF caller[w].mark # -1 \/ mine = {} THEN caller[w].mark ELSE Max(mine)
  BY CosmosNames DEF C!Watermark, CosmosMine, C!NoSn
<1> HIDE DEF mine
<1>7. mine # {} => Max(mine) \in mine /\ \A i \in mine : i <= Max(mine)
  <2> DEFINE b == Len(Outputs[w])
  <2>1. b \in Nat /\ \A i \in mine : i <= b  BY <1>2, <1>5
  <2> HIDE DEF b
  <2>2. QED  BY <1>5, <2>1, MaxProperties
<1>8. QED  BY <1>1, <1>5, <1>6, <1>7 DEF mine

\* A caller that begins anew has loaded nothing.
LEMMA CosmosIdle ==
    ASSUME CosmosInv, NEW w \in Instances, NEW c \in CosmosCaller, c.pc \in {"idle", "load"}, c.at = -1,
           c.pc = "idle" \/ c.input \in DOMAIN Outputs[w]
    PROVE  CosmosCallerOK(stored, w, c)
<1>1. w # 0  BY InstancesAssumption
<1>2. QED  BY <1>1 DEF CosmosCallerOK

\* The invariant holds at first.
LEMMA CosmosInit == ASSUME C!Init PROVE CosmosInv
<1>1. PICK k \in Stores :
        stored = [kind |-> k, data |-> <<>>, sn |-> 0, blobs |-> <<>>, listed |-> {}]
  BY DEF C!Init
<1>2. <<>> \in CosmosParts  BY DEF CosmosParts
<1>3. <<>> \in CosmosBlobs /\ DOMAIN <<>> = {}
  <2>1. <<>> \in [{} -> CosmosParts]  OBVIOUS
  <2>2. QED  BY <2>1 DEF CosmosBlobs
<1>4. CosmosStoreOK(stored)
  <2>1. stored \in CosmosStored  BY <1>1, <1>2, <1>3 DEF CosmosStored
  <2>2. QED  BY <1>1, <1>3, <2>1 DEF CosmosStoreOK
<1> DEFINE idle == [pc |-> "idle", input |-> 1, state |-> <<>>, sn |-> 0, at |-> -1, mark |-> -1, attempt |-> 1]
<1>5. idle \in CosmosCaller  BY <1>2 DEF CosmosCaller
<1>6. caller = [w \in CosmosCallers |-> idle]  BY DEF C!Init, CosmosCallers, C!Reader, C!NoSn
<1>7. \A w \in CosmosCallers : CosmosCallerOK(stored, w, idle)  BY DEF CosmosCallerOK
<1>8. wire = [late |-> {}, snap |-> [x \in Snapshotters |-> [pc |-> "idle", sn |-> 0, state |-> <<>>, list |-> {}]]]
  BY DEF C!Init
<1>9. wire \in CosmosWire /\ \A x \in Snapshotters : CosmosSnapOK(stored, wire.snap[x])
  BY <1>2, <1>8 DEF CosmosWire, CosmosSnap, CosmosSnapOK
<1> HIDE DEF idle
<1>10. QED  BY <1>4, <1>5, <1>6, <1>7, <1>8, <1>9 DEF CosmosInv

\* The callers that have been answered, and those that start anew.
LEMMA CosmosAnew ==
    ASSUME CosmosInv, NEW w \in Instances, NEW c,
           \/ c = [C!Idle(caller[w]) EXCEPT !.input = @ + 1, !.mark = IF C!Events THEN C!Watermark(w) ELSE C!NoSn]
           \/ c = C!Restarted(w)
           \/ caller[w].pc # "idle" /\ c = [C!Idle(caller[w]) EXCEPT !.pc = "load"]
    PROVE  /\ c \in CosmosCaller /\ c.pc \in {"idle", "load"} /\ c.at = -1
           /\ c.pc = "idle" \/ c.input \in DOMAIN Outputs[w]
           /\ c.pc = "load" => c.input = caller[w].input /\ c.mark = caller[w].mark
<1> DEFINE b == caller[w]
<1>1. b \in CosmosCaller /\ CosmosCallerOK(stored, w, b) /\ w # 0  
  BY InstancesAssumption, CosmosTypes DEF CosmosCallers
<1>2. b.at = -1 /\ (b.pc # "idle" => b.input \in DOMAIN Outputs[w])  BY <1>1 DEF CosmosCallerOK
<1>3. C!Watermark(w) \in Nat \cup {-1}  BY WatermarkProperties
<1>4. <<>> \in CosmosParts  BY DEF CosmosParts
<1> DEFINE i == [b EXCEPT !.pc = "idle", !.state = <<>>, !.sn = 0]
<1>5. i \in CosmosCaller /\ i.pc = "idle" /\ i.at = -1 /\ i.input = b.input /\ i.mark = b.mark
  BY <1>1, <1>2, <1>4 DEF CosmosCaller
<1>6. i = C!Idle(b)  BY DEF C!Idle
<1> DEFINE mark == IF C!Events THEN C!Watermark(w) ELSE C!NoSn
<1>7. mark \in Nat \cup {-1}  BY <1>3 DEF C!NoSn
<1>8. \/ c = [i EXCEPT !.input = @ + 1, !.mark = mark]
      \/ c = [i EXCEPT !.mark = -1, !.attempt = 1]
      \/ b.pc # "idle" /\ c = [i EXCEPT !.pc = "load"]
  BY <1>6 DEF C!Restarted, C!NoSn
<1> HIDE DEF i, b, mark
<1>9. i.input \in Nat /\ i.input + 1 \in Nat \ {0}  BY <1>5 DEF CosmosCaller
<1>10. CASE c = [i EXCEPT !.input = @ + 1, !.mark = mark]
  BY <1>5, <1>7, <1>9, <1>10 DEF CosmosCaller
<1>11. CASE c = [i EXCEPT !.mark = -1, !.attempt = 1]
  BY <1>5, <1>11 DEF CosmosCaller
<1>12. CASE b.pc # "idle" /\ c = [i EXCEPT !.pc = "load"]
  <2>1. c \in CosmosCaller /\ c.pc = "load" /\ c.at = -1 /\ c.input = b.input /\ c.mark = b.mark
    BY <1>5, <1>12 DEF CosmosCaller
  <2>2. QED  BY <1>2, <1>12, <2>1 DEF b
<1>13. QED  BY <1>8, <1>10, <1>11, <1>12

\* The deduper drops a message, or lets it through.
LEMMA CosmosIsDupe == ASSUME CosmosInv, NEW w \in Instances, C!IsDupe(w) PROVE CosmosInv'
<1> DEFINE b == caller[w]
<1>0. w \in CosmosCallers /\ UNCHANGED <<stored, wire>> /\ b \in CosmosCaller /\ CosmosCallerOK(stored, w, b)
  BY CosmosTypes DEF CosmosCallers, C!IsDupe
<1>1. b.pc = "idle" /\ b.input \in DOMAIN Outputs[w] /\ b.input \in Nat \ {0} /\ w # 0
  BY <1>0, InstancesAssumption, CosmosTypes DEF C!IsDupe, C!Inputs
<1>2. CASE C!Answered(w, "dupe")
  <2> DEFINE c == [C!Idle(caller[w]) EXCEPT !.input = @ + 1, !.mark = IF C!Events THEN C!Watermark(w) ELSE C!NoSn]
  <2>1. caller' = [caller EXCEPT ![w] = c]  BY <1>2 DEF C!Answered, C!Caller
  <2> HIDE DEF c
  <2>2. c \in CosmosCaller /\ c.pc \in {"idle", "load"} /\ c.at = -1 /\ (c.pc = "idle" \/ c.input \in DOMAIN Outputs[w])
    BY ZenonT(30), CosmosAnew DEF c
  <2>3. CosmosCallerOK(stored, w, c)  BY <2>2, CosmosIdle
  <2>4. QED  BY <1>0, <2>1, <2>2, <2>3, CosmosMoves
<1>3. CASE ~C!Answered(w, "dupe")
  <2> DEFINE mark == IF C!Events THEN b.input ELSE b.mark
             c == [b EXCEPT !.pc = "load", !.mark = mark, !.attempt = 1]
  <2>1. caller' = [caller EXCEPT ![w] = c]  BY <1>3 DEF C!IsDupe, C!Caller
  <2>2. b.mark \in Nat \cup {-1} /\ b.at = -1  BY <1>0, <1>1 DEF CosmosCaller, CosmosCallerOK
  <2>3. mark \in Nat \cup {-1}  BY <1>1, <2>2
  <2> HIDE DEF mark
  <2>4. c \in CosmosCaller /\ c.pc = "load" /\ c.at = -1 /\ c.input = b.input
    BY <1>0, <2>2, <2>3 DEF CosmosCaller
  <2> HIDE DEF b, c
  <2>5. CosmosCallerOK(stored, w, c)  BY <1>1, <2>4, CosmosIdle
  <2>6. QED  BY <1>0, <2>1, <2>4, <2>5, CosmosMoves
<1>4. QED  BY <1>2, <1>3

\* The list of snapshots is read, and the last of those below is chosen.
LEMMA CosmosReadList == ASSUME CosmosInv, NEW w \in CosmosCallers, C!ReadList(w) PROVE CosmosInv'
<1> DEFINE b == caller[w]
<1>1. /\ b.pc = "load" /\ UNCHANGED <<stored, wire>> /\ b \in CosmosCaller /\ CosmosCallerOK(stored, w, b)
      /\ stored.sn \in Nat /\ stored.data \in CosmosParts /\ b.at \in Nat \cup {-1}
  BY CosmosTypes DEF C!ReadList
<1>2. <<>> \in CosmosParts /\ SubSeq(stored.data, 1, 0) = <<>>  BY <1>1 DEF CosmosParts
<1>3. CASE C!Events /\ C!Below(b.at) # {}
  <2> DEFINE below == C!Below(b.at)
             c == [b EXCEPT !.pc = "blob", !.sn = Max(below)]
  <2>1. /\ stored.listed \in SUBSET Nat /\ stored.listed \subseteq DOMAIN stored.blobs
        /\ \A n \in DOMAIN stored.blobs : n <= stored.sn
    BY DEF CosmosInv, CosmosStoreOK, CosmosStored
  <2>2. below = {n \in stored.listed : b.at = -1 \/ n <= b.at}  BY DEF C!Below, C!NoSn
  <2>3. below \in SUBSET Nat /\ \A n \in below : n <= stored.sn  BY <2>1, <2>2
  <2>4. caller' = [caller EXCEPT ![w] = c]  BY <1>3, CosmosNames DEF C!ReadList, C!Caller
  <2> HIDE DEF below
  <2>5. Max(below) \in below  BY <1>1, <1>3, <2>3, MaxProperties DEF below
  <2>6. Max(below) \in Nat /\ Max(below) \in DOMAIN stored.blobs /\ (b.at = -1 \/ Max(below) <= b.at)
    BY <2>1, <2>2, <2>3, <2>5
  <2>7. /\ c \in CosmosCaller /\ c.pc = "blob" /\ c.sn = Max(below)
        /\ c.at = b.at /\ c.input = b.input
    BY <1>1, <2>6 DEF CosmosCaller
  <2> HIDE DEF c, b
  <2>8. CosmosCallerOK(stored, w, c)
    BY <1>1, <1>3, <2>6, <2>7, CosmosNames DEF CosmosCallerOK, Within
  <2>9. QED  BY <1>1, <2>4, <2>7, <2>8, CosmosMoves
<1>4. CASE ~(C!Events /\ C!Below(b.at) # {})
  <2> DEFINE c == [b EXCEPT !.pc = "query", !.sn = 0, !.state = <<>>]
  <2>1. caller' = [caller EXCEPT ![w] = c]  BY <1>4 DEF C!ReadList, C!Caller
  <2>2. /\ c \in CosmosCaller /\ c.pc = "query" /\ c.sn = 0 /\ c.state = <<>>
        /\ c.at = b.at /\ c.input = b.input
    BY <1>1, <1>2 DEF CosmosCaller
  <2> HIDE DEF c, b
  <2>3. CosmosCallerOK(stored, w, c)  BY <1>1, <1>2, <2>2 DEF CosmosCallerOK, Within
  <2>4. QED  BY <1>1, <2>1, <2>2, <2>3, CosmosMoves
<1>5. QED  BY <1>3, <1>4

\* The snapshot is read, if it is there.
LEMMA CosmosReadBlob == ASSUME CosmosInv, NEW w \in CosmosCallers, C!ReadBlob(w) PROVE CosmosInv'
<1> DEFINE b == caller[w]
<1>1. /\ b.pc = "blob" /\ UNCHANGED <<stored, wire>> /\ b \in CosmosCaller /\ CosmosCallerOK(stored, w, b)
      /\ stored.sn \in Nat /\ stored.data \in CosmosParts /\ b.at \in Nat \cup {-1}
  BY CosmosTypes DEF C!ReadBlob
<1>2. IsEvents(stored) /\ b.sn \in DOMAIN stored.blobs /\ Within(b)  BY <1>1 DEF CosmosCallerOK
<1>3. stored.blobs[b.sn] = SubSeq(stored.data, 1, b.sn) /\ b.sn <= stored.sn /\ stored.blobs[b.sn] \in CosmosParts
  <2>1. stored.blobs \in CosmosBlobs  BY DEF CosmosInv, CosmosStoreOK, CosmosStored
  <2>2. stored.blobs[b.sn] \in CosmosParts  BY <1>2, <2>1 DEF CosmosBlobs
  <2>3. QED  BY <1>2, <2>2 DEF CosmosInv, CosmosStoreOK
<1> DEFINE c == [b EXCEPT !.pc = "query", !.state = stored.blobs[b.sn]]
<1>4. caller' = [caller EXCEPT ![w] = c]  BY <1>2 DEF C!ReadBlob, C!Caller
<1>5. /\ c \in CosmosCaller /\ c.pc = "query" /\ c.sn = b.sn /\ c.state = stored.blobs[b.sn]
      /\ c.at = b.at /\ c.input = b.input
  BY <1>1, <1>3 DEF CosmosCaller
<1> HIDE DEF c, b
<1>6. CosmosCallerOK(stored, w, c)  BY <1>1, <1>2, <1>3, <1>5 DEF CosmosCallerOK, Within
<1>7. QED  BY <1>1, <1>4, <1>5, <1>6, CosmosMoves

\* The events behind the snapshot complete it.
LEMMA CosmosQuery == ASSUME CosmosInv, NEW w \in CosmosCallers, C!Query(w) PROVE CosmosInv'
<1> DEFINE b == caller[w]
           d == stored.data
<1>1. /\ b.pc = "query" /\ UNCHANGED <<stored, wire>> /\ b \in CosmosCaller /\ CosmosCallerOK(stored, w, b)
      /\ stored.sn \in Nat /\ d \in Seq(CosmosPart) /\ b.at \in Nat \cup {-1} /\ b.sn \in Nat
      /\ IsEvents(stored) => stored.sn = Len(d)
  BY CosmosTypes DEF C!Query, CosmosParts
<1> DEFINE to == IF b.at = -1 THEN stored.sn ELSE b.at
           loaded == IF C!Events THEN b.state \o C!AfterSnapshot(b) ELSE d
           sn == IF C!Events THEN Len(loaded) ELSE stored.sn
           c == [b EXCEPT !.pc = IF w = 0 THEN "idle" ELSE "sink", !.state = loaded, !.sn = sn]
<1>2. caller' = [caller EXCEPT ![w] = c]  BY DEF C!Query, C!Caller, C!Reader
<1>3. b.at # -1 => IsEvents(stored) /\ b.at <= stored.sn  BY <1>1 DEF CosmosCallerOK
<1>4. IsEvents(stored) => b.sn <= to /\ to \in 0..Len(d) /\ b.state = SubSeq(d, 1, b.sn)
  BY <1>1, <1>3 DEF CosmosCallerOK, Within
<1>5. IsEvents(stored) => loaded = SubSeq(d, 1, to)
  <2>1. SUFFICES ASSUME IsEvents(stored) PROVE loaded = SubSeq(d, 1, to)  OBVIOUS
  <2>2. b.at # -1 => Min({b.at, stored.sn}) = b.at
    <3>1. SUFFICES ASSUME b.at # -1 PROVE Min({b.at, stored.sn}) = b.at  OBVIOUS
    <3>2. b.at \in Int /\ stored.sn \in Int /\ b.at <= stored.sn  BY <1>1, <1>3, <3>1
    <3>3. QED  BY <3>2, MinOfTwo
  <2>3. C!AfterSnapshot(b) = SubSeq(d, b.sn + 1, to)
    BY <2>2, CosmosNames DEF C!AfterSnapshot, C!NoSn
  <2> HIDE DEF to
  <2>4. b.sn \in 0..Len(d) /\ to \in b.sn..Len(d)  BY <1>1, <1>4, <2>1
  <2>5. SubSeq(d, 1, b.sn) \o SubSeq(d, b.sn + 1, to) = SubSeq(d, 1, to)
    BY <1>1, <2>4, SubSeqConcat
  <2>6. QED  BY <1>4, <2>1, <2>3, <2>5, CosmosNames
<1>6. loaded \in CosmosParts /\ sn \in Nat /\ sn <= stored.sn /\ (sn = stored.sn => loaded = d)
  <2>1. CASE IsEvents(stored)
    <3>1. loaded = SubSeq(d, 1, to) /\ to \in 0..Len(d) /\ sn = Len(loaded)  BY <1>4, <1>5, <2>1, CosmosNames
    <3> HIDE DEF loaded, to, sn
    <3>2. SubSeq(d, 1, to) \in Seq(CosmosPart) /\ Len(SubSeq(d, 1, to)) = to  BY <1>1, <3>1
    <3>3. SubSeq(d, 1, Len(d)) = d  BY <1>1
    <3>4. QED  BY <1>1, <2>1, <3>1, <3>2, <3>3 DEF CosmosParts
  <2>2. CASE ~IsEvents(stored)
    <3>1. loaded = d /\ sn = stored.sn  BY <2>2, CosmosNames
    <3> HIDE DEF loaded, sn
    <3>2. QED  BY <1>1, <3>1 DEF CosmosParts
  <2>3. QED  BY <2>1, <2>2
<1>7. w = 0 => b.at # -1 /\ loaded = SubSeq(d, 1, b.at)
  <2>1. w = 0 => b.at # -1  BY <1>1 DEF CosmosCallerOK
  <2>2. QED  BY <1>3, <1>5, <2>1
<1> HIDE DEF loaded, sn, to
<1>8. /\ c \in CosmosCaller /\ c.pc = (IF w = 0 THEN "idle" ELSE "sink") /\ c.sn = sn /\ c.state = loaded
      /\ c.at = b.at /\ c.input = b.input
  BY <1>1, <1>6 DEF CosmosCaller
<1> HIDE DEF c, b
<1>9. CosmosCallerOK(stored, w, c)
  <2>1. CASE w = 0  BY <1>1, <1>7, <1>8, <2>1 DEF CosmosCallerOK
  <2>2. CASE w # 0  BY <1>1, <1>6, <1>8, <2>2 DEF CosmosCallerOK
  <2>3. QED  BY <2>1, <2>2
<1>10. QED  BY <1>1, <1>2, <1>8, <1>9, CosmosMoves

\* A past state is asked for.
LEMMA CosmosReadPast == ASSUME CosmosInv, C!ReadPast PROVE CosmosInv'
<1>1. PICK at \in 0..stored.sn :
        /\ C!Events /\ caller[0].at = -1
        /\ caller' = [caller EXCEPT ![0] = [caller[0] EXCEPT !.pc = "load", !.at = at]]
        /\ UNCHANGED <<stored, wire>>
  BY Zenon DEF C!ReadPast, C!Caller, C!Reader, C!NoSn
<1> DEFINE c == [caller[0] EXCEPT !.pc = "load", !.at = at]
<1>2. 0 \in CosmosCallers /\ caller[0] \in CosmosCaller /\ stored.sn \in Nat  BY CosmosTypes DEF CosmosCallers
<1>0. at \in Nat /\ at <= stored.sn  BY <1>2
<1>3. c \in CosmosCaller /\ c.pc = "load" /\ c.at = at
  BY <1>0, <1>2 DEF CosmosCaller
<1>4. caller' = [caller EXCEPT ![0] = c]  BY <1>1
<1> HIDE DEF c
<1>5. CosmosCallerOK(stored, 0, c)  BY <1>0, <1>1, <1>3, CosmosNames DEF CosmosCallerOK
<1>6. QED  BY <1>1, <1>2, <1>3, <1>4, <1>5, CosmosMoves

\* What an instance asks the store for follows from what it loaded.
LEMMA CosmosRequests ==
    ASSUME CosmosInv, NEW w \in Instances, caller[w].pc = "sink"
    PROVE  /\ C!Request(w) \in CosmosRequest /\ CosmosRequestOK(stored, C!Request(w))
           /\ caller[w].input \in DOMAIN Outputs[w]
           /\ C!Request(w).new = C!Parts(w, caller[w].input) /\ C!Request(w).sn = caller[w].sn
           /\ C!Request(w).last = C!Verified(w, caller[w].input, "last")
<1> DEFINE c == caller[w]
           new == C!Parts(w, c.input)
           n == IF C!Verified(w, c.input, "first") THEN 1 ELSE 0
           last == C!Verified(w, c.input, "last")
<1>1. c \in CosmosCaller /\ CosmosCallerOK(stored, w, c) /\ w # 0 /\ c.state \in CosmosParts /\ c.sn \in Nat
  BY InstancesAssumption, CosmosTypes DEF CosmosCallers
<1>2. c.input \in DOMAIN Outputs[w] /\ c.sn <= stored.sn /\ (c.sn = stored.sn => c.state = stored.data)
  BY <1>1 DEF CosmosCallerOK
<1>3. new \in CosmosParts  BY <1>2, CosmosPartsProperties
<1>4. C!Request(w) = [sn |-> c.sn, new |-> new, count |-> Len(new) + n, state |-> c.state \o new,
                       last |-> last]
  BY DEF C!Request
<1>5. n \in Nat  OBVIOUS
<1>9. last \in BOOLEAN  BY DEF C!Verified
<1> HIDE DEF c, new, n, last
<1>6. Len(new) + n \in Nat /\ (new # <<>> => Len(new) + n > 0) /\ c.state \o new \in CosmosParts
  BY <1>1, <1>3, <1>5 DEF CosmosParts
<1>7. C!Request(w) \in CosmosRequest /\ CosmosRequestOK(stored, C!Request(w))
  <2> DEFINE r == C!Request(w)
  <2>1. /\ r = [sn |-> r.sn, new |-> r.new, count |-> r.count, state |-> r.state, last |-> r.last]
        /\ r.sn = c.sn /\ r.new = new /\ r.count = Len(new) + n /\ r.state = c.state \o new /\ r.last = last
    BY <1>4
  <2> HIDE DEF r
  <2>2. r \in CosmosRequest  BY <1>1, <1>3, <1>6, <1>9, <2>1 DEF CosmosRequest
  <2>3. CosmosRequestOK(stored, r)  BY <1>2, <1>6, <2>1 DEF CosmosRequestOK
  <2>4. QED  BY <2>2, <2>3 DEF r
<1>8. QED  BY <1>2, <1>4, <1>7 DEF c, new, last

\* sink() stores, or fails for a conflict.
LEMMA CosmosSink == ASSUME CosmosInv, NEW w \in Instances, C!Sink(w) PROVE CosmosInv'
<1> DEFINE r == C!Request(w)
           anew == [C!Idle(caller[w]) EXCEPT !.pc = "load"]
           answered == [C!Idle(caller[w]) EXCEPT !.input = @ + 1, !.mark = IF C!Events THEN C!Watermark(w) ELSE C!NoSn]
<1>1. w \in CosmosCallers /\ caller[w].pc = "sink" /\ UNCHANGED wire  BY DEF C!Sink, CosmosCallers
<1>2. r \in CosmosRequest /\ CosmosRequestOK(stored, r)  BY <1>1, CosmosRequests
<1>3. CASE C!Matches(r)
  <2>1. stored' = C!Executed(r) /\ caller' = [caller EXCEPT ![w] = answered]
    BY <1>3 DEF C!Sink, C!Answered, C!Caller
  <2>2. CosmosStoreOK(stored') /\ CosmosGrows(stored, stored')
    BY <1>2, <1>3, <2>1, CosmosExecuted DEF CosmosInv
  <2> HIDE DEF answered
  <2>3. answered \in CosmosCaller /\ answered.pc \in {"idle", "load"} /\ answered.at = -1
        /\ (answered.pc = "idle" \/ answered.input \in DOMAIN Outputs[w])
    BY Zenon, CosmosAnew DEF answered
  <2>4. CosmosCallerOK(stored, w, answered)  BY <2>3, CosmosIdle
  <2>5. CosmosCallerOK(stored', w, answered)
    BY <1>1, <2>2, <2>3, <2>4, CosmosStaysLoaded DEF CosmosInv
  <2>6. caller \in [CosmosCallers -> CosmosCaller] /\ wire \in CosmosWire  BY DEF CosmosInv
  <2>7. caller' \in [CosmosCallers -> CosmosCaller]  BY <2>1, <2>3, <2>6
  <2>8. \A v \in CosmosCallers : caller'[v] = caller[v] \/ CosmosCallerOK(stored', v, caller'[v])
    BY <2>1, <2>5, <2>6
  <2>9. QED  BY <1>1, <2>2, <2>6, <2>7, <2>8, CosmosKeeps
<1>4. CASE ~C!Matches(r)
  <2>1. stored' = stored /\ caller' = [caller EXCEPT ![w] = anew]
    BY <1>4 DEF C!Sink, C!Answered, C!Caller
  <2> HIDE DEF anew
  <2>2. anew \in CosmosCaller /\ anew.pc \in {"idle", "load"} /\ anew.at = -1
        /\ (anew.pc = "idle" \/ anew.input \in DOMAIN Outputs[w])
    BY Zenon, <1>1, CosmosAnew DEF anew
  <2>3. CosmosCallerOK(stored, w, anew)  BY <2>2, CosmosIdle
  <2>4. QED  BY <1>1, <2>1, <2>2, <2>3, CosmosMoves
<1>5. QED  BY <1>3, <1>4

\* Throttling, a failure or a crash: the caller tries again, or starts anew, and
\* a request that failed was executed, was not, or still will be.
LEMMA CosmosThrottled == ASSUME CosmosInv, C!Throttled PROVE CosmosInv'
<1>1. PICK w \in Instances :
        /\ caller[w].pc = "sink" /\ UNCHANGED <<stored, wire>>
        /\ caller' = [caller EXCEPT ![w] = IF caller[w].attempt < Attempts
                                             THEN [caller[w] EXCEPT !.attempt = @ + 1] ELSE C!Restarted(w)]
  BY DEF C!Throttled, C!Caller
<1> DEFINE b == caller[w]
<1>2. w \in CosmosCallers /\ b \in CosmosCaller /\ CosmosCallerOK(stored, w, b) /\ b.attempt \in Nat
  BY CosmosTypes DEF CosmosCallers
<1>3. CASE b.attempt < Attempts
  <2> DEFINE c == [b EXCEPT !.attempt = @ + 1]
  <2>1. caller' = [caller EXCEPT ![w] = c]  BY <1>1, <1>3
  <2>2. /\ c \in CosmosCaller /\ c.pc = b.pc /\ c.sn = b.sn /\ c.state = b.state /\ c.at = b.at
        /\ c.input = b.input
    BY <1>2 DEF CosmosCaller
  <2> HIDE DEF b, c
  <2>3. CosmosCallerOK(stored, w, c)  BY <1>2, <2>2 DEF CosmosCallerOK, Within
  <2>4. QED  BY <1>1, <1>2, <2>1, <2>2, <2>3, CosmosMoves
<1>4. CASE ~(b.attempt < Attempts)
  <2> DEFINE c == C!Restarted(w)
  <2>1. caller' = [caller EXCEPT ![w] = c]  BY <1>1, <1>4
  <2>2. c \in CosmosCaller /\ c.pc \in {"idle", "load"} /\ c.at = -1
        /\ (c.pc = "idle" \/ c.input \in DOMAIN Outputs[w])
    BY Zenon, CosmosAnew
  <2> HIDE DEF c
  <2>3. CosmosCallerOK(stored, w, c)  BY <2>2, CosmosIdle
  <2>4. QED  BY <1>1, <1>2, <2>1, <2>2, <2>3, CosmosMoves
<1>5. QED  BY <1>3, <1>4

LEMMA CosmosCrash == ASSUME CosmosInv, C!Crash PROVE CosmosInv'
<1>1. PICK w \in Instances :
        UNCHANGED <<stored, wire>> /\ caller' = [caller EXCEPT ![w] = C!Restarted(w)]
  BY DEF C!Crash, C!Caller
<1> DEFINE c == C!Restarted(w)
<1>2. c \in CosmosCaller /\ c.pc \in {"idle", "load"} /\ c.at = -1
      /\ (c.pc = "idle" \/ c.input \in DOMAIN Outputs[w])
  BY Zenon, CosmosAnew
<1> HIDE DEF c
<1>3. CosmosCallerOK(stored, w, c)  BY <1>2, CosmosIdle
<1>4. w \in CosmosCallers  BY DEF CosmosCallers
<1>5. caller' = [caller EXCEPT ![w] = c]  BY <1>1 DEF c
<1>6. QED  BY <1>1, <1>2, <1>3, <1>4, <1>5, CosmosMoves

\* A restarted caller, whatever else its request did.
LEMMA CosmosRestarts ==
    ASSUME CosmosInv, NEW w \in Instances, caller' = [caller EXCEPT ![w] = C!Restarted(w)],
           CosmosStoreOK(stored'), CosmosGrows(stored, stored')
    PROVE  /\ caller' \in [CosmosCallers -> CosmosCaller]
           /\ \A v \in CosmosCallers : caller'[v] = caller[v] \/ CosmosCallerOK(stored', v, caller'[v])
<1> DEFINE c == C!Restarted(w)
<1>1. c \in CosmosCaller /\ c.pc \in {"idle", "load"} /\ c.at = -1
      /\ (c.pc = "idle" \/ c.input \in DOMAIN Outputs[w])
  BY Zenon, CosmosAnew
<1>2. caller' = [caller EXCEPT ![w] = c]  OBVIOUS
<1> HIDE DEF c
<1>3. CosmosCallerOK(stored, w, c)  BY <1>1, CosmosIdle
<1>4. w \in CosmosCallers  BY DEF CosmosCallers
<1>5. CosmosCallerOK(stored', w, c)  BY <1>1, <1>3, <1>4, CosmosStaysLoaded DEF CosmosInv
<1>6. caller \in [CosmosCallers -> CosmosCaller]  BY DEF CosmosInv
<1>7. QED  BY <1>1, <1>2, <1>4, <1>5, <1>6

LEMMA CosmosLost == ASSUME CosmosInv, C!Lost PROVE CosmosInv'
<1>1. PICK w \in Instances :
        /\ caller[w].pc = "sink" /\ caller' = [caller EXCEPT ![w] = C!Restarted(w)]
        /\ \/ stored' \in {stored} \cup (IF C!Matches(C!Request(w)) THEN {C!Executed(C!Request(w))} ELSE {})
              /\ wire' = wire
           \/ wire' = [wire EXCEPT !.late = @ \cup {C!Request(w)}] /\ stored' = stored
  BY DEF C!Lost, C!Caller
<1> DEFINE r == C!Request(w)
<1>2. r \in CosmosRequest /\ CosmosRequestOK(stored, r)  BY <1>1, CosmosRequests
<1>3. \/ stored' = stored
      \/ wire' = wire /\ C!Matches(r) /\ stored' = C!Executed(r)
  BY <1>1
<1>4. CosmosStoreOK(stored') /\ CosmosGrows(stored, stored')
  <2> HIDE DEF r
  <2>1. CASE stored' = stored  BY <2>1, CosmosGrowsNot
  <2>2. CASE C!Matches(r) /\ stored' = C!Executed(r)  BY <1>2, <2>2, CosmosGrowsNot, CosmosExecuted
  <2>3. QED  BY <1>3, <2>1, <2>2
<1>5. /\ caller' \in [CosmosCallers -> CosmosCaller]
      /\ \A v \in CosmosCallers : caller'[v] = caller[v] \/ CosmosCallerOK(stored', v, caller'[v])
  BY <1>1, <1>4, CosmosRestarts
<1>6. wire' = wire \/ (wire' = [wire EXCEPT !.late = @ \cup {r}] /\ stored' = stored)  BY <1>1
<1> HIDE DEF r
<1>7. wire \in CosmosWire  BY DEF CosmosInv
<1>8. wire' \in CosmosWire /\ wire'.snap = wire.snap /\ wire'.late \subseteq wire.late \cup {r}
      /\ (r \in wire'.late \ wire.late => stored' = stored)
  BY <1>2, <1>6, <1>7 DEF CosmosWire
<1>9. \A x \in wire'.late : x \in wire.late \/ CosmosRequestOK(stored', x)
  BY <1>2, <1>8
<1>10. \A x \in Snapshotters : wire'.snap[x] = wire.snap[x]  BY <1>8
<1>11. QED  BY <1>4, <1>5, <1>8, <1>9, <1>10, CosmosKeeps

\* A late request is executed, or refused.
LEMMA CosmosExecutedLate == ASSUME CosmosInv, C!ExecutedLate PROVE CosmosInv'
<1>1. PICK r \in wire.late :
        /\ wire' = [wire EXCEPT !.late = @ \ {r}] /\ UNCHANGED caller
        /\ stored' = IF C!Matches(r) THEN C!Executed(r) ELSE stored
  BY DEF C!ExecutedLate
<1>2. wire \in CosmosWire /\ r \in CosmosRequest /\ CosmosRequestOK(stored, r)
      /\ caller \in [CosmosCallers -> CosmosCaller]
  BY DEF CosmosInv, CosmosWire
<1>3. CosmosStoreOK(stored') /\ CosmosGrows(stored, stored')
  BY <1>1, <1>2, CosmosGrowsNot, CosmosExecuted
<1>4. wire' \in CosmosWire /\ wire'.snap = wire.snap /\ wire'.late \subseteq wire.late
  BY <1>1, <1>2 DEF CosmosWire
<1>5. QED  BY <1>1, <1>2, <1>3, <1>4, CosmosKeeps

\* A snapshot is written, the list of them read and written.
LEMMA CosmosTakeSnapshot == ASSUME CosmosInv, C!TakeSnapshot PROVE CosmosInv'
<1>1. PICK x \in Snapshotters, sn \in 1..stored.sn :
        /\ C!Events
        /\ wire' = [wire EXCEPT !.snap[x] =
                      [pc |-> "list", sn |-> sn, state |-> SubSeq(stored.data, 1, sn), list |-> {}]]
        /\ stored' = [stored EXCEPT !.blobs = [n \in DOMAIN @ \cup {sn} |->
                                                 IF n = sn THEN SubSeq(stored.data, 1, sn) ELSE @[n]]]
        /\ UNCHANGED caller
  BY DEF C!TakeSnapshot, C!Snap
<1> DEFINE state == SubSeq(stored.data, 1, sn)
           blobs == [n \in DOMAIN stored.blobs \cup {sn} |-> IF n = sn THEN state ELSE stored.blobs[n]]
           j == [pc |-> "list", sn |-> sn, state |-> state, list |-> {}]
<1>2. /\ stored \in CosmosStored /\ stored.sn \in Nat /\ stored.data \in Seq(CosmosPart) /\ stored.blobs \in CosmosBlobs
      /\ wire \in CosmosWire /\ caller \in [CosmosCallers -> CosmosCaller] /\ CosmosStoreOK(stored)
  BY DEF CosmosInv, CosmosStoreOK, CosmosStored, CosmosParts
<1>3. IsEvents(stored) /\ stored.sn = Len(stored.data)  BY <1>1, <1>2, CosmosNames DEF CosmosStoreOK
<1>4. sn \in Nat /\ sn <= stored.sn /\ state \in CosmosParts  BY <1>2, <1>3 DEF CosmosParts
<1>5. blobs \in CosmosBlobs /\ DOMAIN blobs = DOMAIN stored.blobs \cup {sn}
  <2>1. PICK D \in SUBSET Nat : stored.blobs \in [D -> CosmosParts]  BY <1>2 DEF CosmosBlobs
  <2>2. DOMAIN stored.blobs = D /\ \A n \in D : stored.blobs[n] \in CosmosParts  BY <2>1
  <2> HIDE DEF state
  <2>3. blobs \in [D \cup {sn} -> CosmosParts] /\ D \cup {sn} \in SUBSET Nat  BY <1>4, <2>2
  <2>4. QED  BY <2>2, <2>3 DEF CosmosBlobs
<1>6. stored' = [stored EXCEPT !.blobs = blobs]  BY <1>1
<1>7. wire' = [wire EXCEPT !.snap[x] = j]  BY <1>1
<1>8. \A n \in DOMAIN blobs : n <= stored.sn /\ blobs[n] = SubSeq(stored.data, 1, n)
  <2>1. ASSUME NEW n \in DOMAIN blobs, n = sn PROVE n <= stored.sn /\ blobs[n] = SubSeq(stored.data, 1, n)
    BY <1>4, <2>1
  <2>2. ASSUME NEW n \in DOMAIN blobs, n # sn PROVE n <= stored.sn /\ blobs[n] = SubSeq(stored.data, 1, n)
    <3>1. n \in DOMAIN stored.blobs /\ blobs[n] = stored.blobs[n]  BY <2>2
    <3>2. QED  BY <1>2, <3>1 DEF CosmosStoreOK
  <2>3. QED  BY <2>1, <2>2
<1> HIDE DEF blobs, state
<1>9. /\ stored' \in CosmosStored /\ stored'.kind = stored.kind /\ stored'.data = stored.data
      /\ stored'.sn = stored.sn /\ stored'.blobs = blobs /\ stored'.listed = stored.listed
  BY <1>2, <1>5, <1>6 DEF CosmosStored
<1>10. CosmosStoreOK(stored')
  <2>1. IsEvents(stored')  BY <1>3, <1>9 DEF IsEvents
  <2>2. QED  BY <1>2, <1>3, <1>5, <1>8, <1>9, <2>1 DEF CosmosStoreOK
<1>11. CosmosGrows(stored, stored')
  <2>1. Len(stored.data) \in Nat  BY <1>2
  <2>2. QED  BY <1>2, <1>5, <1>9, <2>1 DEF CosmosGrows
<1>12. j \in CosmosSnap /\ CosmosSnapOK(stored', j)  BY <1>4, <1>5, <1>9 DEF CosmosSnap, CosmosSnapOK
<1> HIDE DEF j
<1>13. /\ wire' \in CosmosWire /\ wire'.late = wire.late
       /\ \A y \in Snapshotters : wire'.snap[y] = IF y = x THEN j ELSE wire.snap[y]
  BY <1>2, <1>7, <1>12 DEF CosmosWire
<1>14. \A y \in Snapshotters : wire'.snap[y] = wire.snap[y] \/ CosmosSnapOK(stored', wire'.snap[y])
  BY <1>12, <1>13
<1>15. QED  BY <1>1, <1>2, <1>10, <1>11, <1>13, <1>14, CosmosKeeps

LEMMA CosmosListRead == ASSUME CosmosInv, C!ListRead PROVE CosmosInv'
<1>1. PICK x \in Snapshotters :
        /\ wire.snap[x].pc = "list" /\ UNCHANGED <<stored, caller>>
        /\ wire' = [wire EXCEPT !.snap[x] =
             [wire.snap[x] EXCEPT !.pc = IF wire.snap[x].sn \in stored.listed THEN "idle" ELSE "write",
                                  !.list = stored.listed]]
  BY Zenon DEF C!ListRead, C!Snap
<1> DEFINE b == wire.snap[x]
           j == [b EXCEPT !.pc = IF b.sn \in stored.listed THEN "idle" ELSE "write", !.list = stored.listed]
<1>2. /\ wire \in CosmosWire /\ b \in CosmosSnap /\ CosmosSnapOK(stored, b)
      /\ caller \in [CosmosCallers -> CosmosCaller]
      /\ stored.listed \in SUBSET Nat /\ stored.listed \subseteq DOMAIN stored.blobs
  BY DEF CosmosInv, CosmosWire, CosmosStoreOK, CosmosStored
<1>3. b.sn \in DOMAIN stored.blobs  BY <1>1, <1>2 DEF CosmosSnapOK
<1>4. j \in CosmosSnap /\ j.sn = b.sn /\ j.list = stored.listed  BY <1>2 DEF CosmosSnap
<1>5. wire' = [wire EXCEPT !.snap[x] = j]  BY <1>1
<1> HIDE DEF j, b
<1>6. CosmosSnapOK(stored, j)  BY <1>2, <1>3, <1>4 DEF CosmosSnapOK
<1>7. /\ wire' \in CosmosWire /\ wire'.late = wire.late
      /\ \A y \in Snapshotters : wire'.snap[y] = IF y = x THEN j ELSE wire.snap[y]
  BY <1>2, <1>4, <1>5 DEF CosmosWire
<1>8. CosmosStoreOK(stored') /\ CosmosGrows(stored, stored')  BY <1>1, CosmosGrowsNot
<1>9. \A y \in Snapshotters : wire'.snap[y] = wire.snap[y] \/ CosmosSnapOK(stored', wire'.snap[y])
  BY <1>1, <1>6, <1>7
<1>10. QED  BY <1>1, <1>2, <1>7, <1>8, <1>9, CosmosKeeps

LEMMA CosmosListWritten == ASSUME CosmosInv, C!ListWritten PROVE CosmosInv'
<1>1. PICK x \in Snapshotters :
        /\ wire.snap[x].pc = "write" /\ UNCHANGED caller
        /\ wire' = [wire EXCEPT !.snap[x] = [wire.snap[x] EXCEPT !.pc = "idle", !.list = {}, !.state = <<>>]]
        /\ stored' = [stored EXCEPT !.listed = wire.snap[x].list \cup {wire.snap[x].sn}]
  BY Zenon DEF C!ListWritten, C!Snap
<1> DEFINE b == wire.snap[x]
           j == [b EXCEPT !.pc = "idle", !.list = {}, !.state = <<>>]
           listed == b.list \cup {b.sn}
<1>2. /\ wire \in CosmosWire /\ b \in CosmosSnap /\ CosmosSnapOK(stored, b)
      /\ caller \in [CosmosCallers -> CosmosCaller]
      /\ stored \in CosmosStored /\ stored.sn \in Nat /\ stored.data \in Seq(CosmosPart) /\ CosmosStoreOK(stored)
  BY DEF CosmosInv, CosmosWire, CosmosStoreOK, CosmosStored, CosmosParts
<1>3. b.sn \in DOMAIN stored.blobs /\ b.list \subseteq DOMAIN stored.blobs  BY <1>1, <1>2 DEF CosmosSnapOK
<1>4. <<>> \in CosmosParts  BY DEF CosmosParts
<1>5. j \in CosmosSnap /\ j.pc = "idle" /\ j.list = {} /\ listed \in SUBSET Nat
  BY <1>2, <1>4 DEF CosmosSnap
<1>6. wire' = [wire EXCEPT !.snap[x] = j] /\ stored' = [stored EXCEPT !.listed = listed]  BY <1>1
<1>7. listed \subseteq DOMAIN stored.blobs  BY <1>3
<1> HIDE DEF j, b, listed
<1>8. /\ stored' \in CosmosStored /\ stored'.kind = stored.kind /\ stored'.data = stored.data
      /\ stored'.sn = stored.sn /\ stored'.blobs = stored.blobs /\ stored'.listed = listed
  BY <1>2, <1>5, <1>6 DEF CosmosStored
<1>9. CosmosStoreOK(stored')
  <2>1. IsEvents(stored') <=> IsEvents(stored)  BY <1>8 DEF IsEvents
  <2>2. QED  BY <1>2, <1>7, <1>8, <2>1 DEF CosmosStoreOK
<1>10. CosmosGrows(stored, stored')
  <2>1. Len(stored.data) \in Nat  BY <1>2
  <2>2. QED  BY <1>2, <1>8, <2>1 DEF CosmosGrows
<1>11. CosmosSnapOK(stored', j)  BY <1>5 DEF CosmosSnapOK
<1>12. /\ wire' \in CosmosWire /\ wire'.late = wire.late
       /\ \A y \in Snapshotters : wire'.snap[y] = IF y = x THEN j ELSE wire.snap[y]
  BY <1>2, <1>5, <1>6 DEF CosmosWire
<1>13. \A y \in Snapshotters : wire'.snap[y] = wire.snap[y] \/ CosmosSnapOK(stored', wire'.snap[y])
  BY <1>11, <1>12
<1>14. QED  BY <1>1, <1>2, <1>9, <1>10, <1>12, <1>13, CosmosKeeps

\* Every step of the instances, of the reader and of the snapshots.
LEMMA CosmosNextInv == ASSUME CosmosInv, C!Next PROVE CosmosInv'
<1>1. \A w \in Instances : w \in CosmosCallers  BY DEF CosmosCallers
<1>2. 0 \in CosmosCallers  BY DEF CosmosCallers
<1>3. ASSUME NEW w \in CosmosCallers, C!Loads(w) PROVE CosmosInv'
  BY <1>3, CosmosReadList, CosmosReadBlob, CosmosQuery DEF C!Loads
<1>4. ASSUME NEW w \in Instances, C!Progress(w) PROVE CosmosInv'
  BY <1>1, <1>3, <1>4, CosmosIsDupe, CosmosSink DEF C!Progress
<1>5. QED
  BY <1>2, <1>3, <1>4, CosmosReadPast, CosmosThrottled, CosmosLost, CosmosCrash, CosmosExecutedLate,
     CosmosTakeSnapshot, CosmosListRead, CosmosListWritten DEF C!Next, C!Reader

\* What is loaded is what the invariant says.
LEMMA CosmosImplies == ASSUME CosmosInv PROVE C!LoadedIsPrefix
<1>1. \A n \in DOMAIN stored.blobs : stored.blobs[n] = SubSeq(stored.data, 1, n)
  BY DEF CosmosInv, CosmosStoreOK
<1>2. DOMAIN caller = CosmosCallers  BY DEF CosmosInv
<1>3. \A w \in CosmosCallers : CosmosCallerOK(stored, w, caller[w])  BY DEF CosmosInv
<1>4. QED  BY <1>1, <1>2, <1>3 DEF C!LoadedIsPrefix, CosmosCallerOK, C!Reader, C!NoSn

-----------------------------------------------------------------------------
(* The second invariant says what is stored: all of an input, and of those *)
(* before it, and in an event store once.  There an instance that is past  *)
(* the deduper has nothing of its input in the store, if no request of its *)
(* former life is executed late.                                           *)

CosmosHas(d, p) == \E n \in DOMAIN d : d[n] = p
\* With a verification behind the messages the materialized sink stores nothing.
CosmosSkips(k, w, i) == k \notin {"events", "slowEvents"} /\ C!Verified(w, i, "last")
CosmosWritten(k, d, w, i) == CosmosSkips(k, w, i) \/ \A n \in 1..Outputs[w][i] : CosmosHas(d, <<w, i, n>>)
CosmosWrittenBefore(k, d, w, i) == \A j \in 1..(i - 1) : CosmosWritten(k, d, w, j)

\* What is stored of an input implies all of the inputs up to it.
CosmosDataOK(k, d) ==
    \A n \in DOMAIN d : \A i \in 1..d[n][2] : CosmosWritten(k, d, d[n][1], i)

\* What was answered is written, and what the source takes for answered.
CosmosWrittenCaller(s, w, c) ==
    /\ c.input <= Len(Outputs[w]) + 1
    /\ CosmosWrittenBefore(s.kind, s.data, w, c.input)
    /\ IsEvents(s) /\ c.pc = "idle" =>
         \A i \in DOMAIN Outputs[w] : i <= c.mark => CosmosWritten(s.kind, s.data, w, i)
    /\ IsEvents(s) /\ c.pc # "idle" => c.mark = c.input

\* A request has the parts of an input, and those before are written.
CosmosWrittenRequest(s, r) ==
    \E w \in Instances : \E i \in DOMAIN Outputs[w] :
       /\ r.new = C!Parts(w, i) /\ r.last = C!Verified(w, i, "last")
       /\ CosmosWrittenBefore(s.kind, s.data, w, i)

\* Where two parts are.
CosmosTogether(d, m, n) ==
    /\ d[m] = d[n] => m = n
    /\ d[m][1] = d[n][1] /\ d[m][2] = d[n][2] /\ d[m][3] < d[n][3] => n = m + d[n][3] - d[m][3]
    /\ d[m][1] = d[n][1] /\ d[m][2] < d[n][2] => m < n

\* What is stored of an instance is of the inputs before, or is known to it.
CosmosOnceCaller(d, w, c) ==
    \A n \in DOMAIN d : d[n][1] = w =>
      /\ c.pc # "idle" => d[n][2] < c.input
      /\ c.pc = "idle" /\ c.mark # -1 => d[n][2] <= c.mark \/ d[n][2] < c.input

CosmosOnce ==
    stored.kind = "events" =>
      /\ \A m, n \in DOMAIN stored.data : CosmosTogether(stored.data, m, n)
      /\ \A w \in Instances : CosmosOnceCaller(stored.data, w, caller[w])

CosmosTold ==
    /\ told = [w \in Instances |-> [i \in DOMAIN Outputs[w] |-> told[w][i]]]
    /\ \A w \in Instances : \A i \in DOMAIN Outputs[w] : told[w][i] # "no" => i < caller[w].input

CosmosWrittenInv ==
    /\ CosmosInv
    /\ CosmosDataOK(stored.kind, stored.data)
    /\ \A w \in Instances : CosmosWrittenCaller(stored, w, caller[w])
    /\ \A r \in wire.late : CosmosWrittenRequest(stored, r)
    /\ wire.late = {} \/ stored.kind # "events"
    /\ CosmosOnce /\ CosmosTold

\* What a longer sequence has.
LEMMA CosmosHasMore ==
    ASSUME NEW d \in CosmosParts, NEW new \in CosmosParts
    PROVE  /\ \A p : CosmosHas(d, p) => CosmosHas(d \o new, p)
           /\ \A k, w, i : CosmosWritten(k, d, w, i) => CosmosWritten(k, d \o new, w, i)
           /\ \A k, w, i : CosmosWrittenBefore(k, d, w, i) => CosmosWrittenBefore(k, d \o new, w, i)
           /\ \A n \in DOMAIN new : CosmosHas(d \o new, new[n])
<1> DEFINE e == d \o new
<1>1. /\ d \in Seq(CosmosPart) /\ new \in Seq(CosmosPart) /\ Len(d) \in Nat /\ Len(new) \in Nat
      /\ Len(e) = Len(d) + Len(new) /\ e \in Seq(CosmosPart)
      /\ \A i \in 1..(Len(d) + Len(new)) : e[i] = IF i <= Len(d) THEN d[i] ELSE new[i - Len(d)]
  BY DEF CosmosParts
<1> HIDE DEF e
<1>2. ASSUME NEW p, CosmosHas(d, p) PROVE CosmosHas(e, p)
  <2>1. PICK n \in DOMAIN d : d[n] = p  BY <1>2 DEF CosmosHas
  <2>2. n \in DOMAIN e /\ e[n] = d[n]  BY <1>1
  <2>3. QED  BY <2>1, <2>2 DEF CosmosHas
<1>3. \A k, w, i : CosmosWritten(k, d, w, i) => CosmosWritten(k, e, w, i)  BY <1>2 DEF CosmosWritten
<1>4. \A k, w, i : CosmosWrittenBefore(k, d, w, i) => CosmosWrittenBefore(k, e, w, i)
  BY <1>3 DEF CosmosWrittenBefore
<1>5. ASSUME NEW n \in DOMAIN new PROVE CosmosHas(e, new[n])
  <2>1. n \in 1..Len(new)  BY <1>1
  <2>2. n + Len(d) \in DOMAIN e /\ ~(n + Len(d) <= Len(d)) /\ (n + Len(d)) - Len(d) = n  BY <1>1, <2>1
  <2>3. e[n + Len(d)] = new[n]  BY <1>1, <2>2
  <2>4. QED  BY <2>2, <2>3 DEF CosmosHas
<1>6. QED  BY <1>2, <1>3, <1>4, <1>5 DEF e

\* The parts of one more input.
LEMMA CosmosMoreParts ==
    ASSUME NEW s, NEW t, s.data \in CosmosParts, t.kind = s.kind,
           NEW w \in Instances, NEW i \in DOMAIN Outputs[w], t.data = s.data \o C!Parts(w, i),
           CosmosDataOK(s.kind, s.data), CosmosWrittenBefore(s.kind, s.data, w, i)
    PROVE  /\ CosmosDataOK(t.kind, t.data) /\ CosmosWritten(t.kind, t.data, w, i)
           /\ \A v \in Instances : \A c : CosmosWrittenCaller(s, v, c) => CosmosWrittenCaller(t, v, c)
           /\ \A r : CosmosWrittenRequest(s, r) => CosmosWrittenRequest(t, r)
           /\ CosmosWrittenBefore(t.kind, t.data, w, i + 1)
<1> DEFINE d == s.data
           k == s.kind
           new == C!Parts(w, i)
           e == d \o new
<1>1. /\ new \in CosmosParts /\ Len(new) = Outputs[w][i] /\ Outputs[w][i] \in Nat
      /\ \A n \in 1..Outputs[w][i] : new[n] = <<w, i, n>>
      /\ i \in 1..Len(Outputs[w]) /\ Len(Outputs[w]) \in Nat
  BY CosmosPartsProperties
<1>2. t.data = e /\ t.kind = k /\ (IsEvents(t) <=> IsEvents(s))  BY DEF IsEvents
<1>3. /\ d \in Seq(CosmosPart) /\ new \in Seq(CosmosPart) /\ Len(d) \in Nat /\ Len(new) \in Nat
      /\ Len(e) = Len(d) + Len(new) /\ DOMAIN e = 1..(Len(d) + Len(new))
      /\ \A j \in 1..(Len(d) + Len(new)) : e[j] = IF j <= Len(d) THEN d[j] ELSE new[j - Len(d)]
  <2> HIDE DEF new, d
  <2>1. d \in Seq(CosmosPart) /\ new \in Seq(CosmosPart)  BY <1>1 DEF CosmosParts, d
  <2>2. QED  BY <2>1, ConcatElements
<1>4. /\ \A v, j : CosmosWritten(k, d, v, j) => CosmosWritten(k, e, v, j)
      /\ \A v, j : CosmosWrittenBefore(k, d, v, j) => CosmosWrittenBefore(k, e, v, j)
      /\ \A n \in DOMAIN new : CosmosHas(e, new[n])
  BY <1>1, CosmosHasMore
<1>5. DOMAIN new = 1..Outputs[w][i]  BY <1>1, <1>3
<1> HIDE DEF e, new
<1>6. CosmosWritten(k, e, w, i)  BY <1>1, <1>4, <1>5 DEF CosmosWritten
<1>7. CosmosWrittenBefore(k, e, w, i + 1)
  <2>1. CosmosWrittenBefore(k, e, w, i)  BY <1>4
  <2>2. \A j \in 1..((i + 1) - 1) : j \in 1..(i - 1) \/ j = i  BY <1>1
  <2>3. QED  BY <1>6, <2>1, <2>2 DEF CosmosWrittenBefore
<1>8. CosmosDataOK(k, e)
  <2>1. ASSUME NEW n \in DOMAIN e, NEW j \in 1..e[n][2] PROVE CosmosWritten(k, e, e[n][1], j)
    <3>1. CASE n <= Len(d)
      <4>1. n \in DOMAIN d /\ e[n] = d[n]  BY <1>3, <3>1
      <4>2. CosmosWritten(k, d, d[n][1], j)  BY <2>1, <4>1 DEF CosmosDataOK
      <4>3. QED  BY <1>4, <4>1, <4>2
    <3>2. CASE ~(n <= Len(d))
      <4>0. n \in 1..(Len(d) + Len(new))  BY <1>3
      <4>1. n - Len(d) \in 1..Outputs[w][i] /\ e[n] = new[n - Len(d)]
        <5> HIDE DEF d
        <5>1. \A x, a, b \in Nat : x \in 1..(a + b) /\ ~(x <= a) => x - a \in 1..b /\ x = a + (x - a)  OBVIOUS
        <5>2. Len(d) \in Nat /\ Len(new) \in Nat /\ n \in Nat  BY <1>1, <1>3, <4>0
        <5>3. n - Len(d) \in 1..Len(new)  BY <3>2, <4>0, <5>1, <5>2
        <5>4. QED  BY <1>1, <1>3, <3>2, <4>0, <5>3
      <4>2. e[n][1] = w /\ e[n][2] = i  BY <1>1, <4>1
      <4>3. j \in 1..((i + 1) - 1)  BY <1>1, <2>1, <4>2
      <4>4. QED  BY <1>7, <4>2, <4>3 DEF CosmosWrittenBefore
    <3>3. QED  BY <3>1, <3>2
  <2>2. QED  BY <2>1 DEF CosmosDataOK
<1>9. ASSUME NEW v \in Instances, NEW c, CosmosWrittenCaller(s, v, c) PROVE CosmosWrittenCaller(t, v, c)
  BY <1>2, <1>4, <1>9 DEF CosmosWrittenCaller
<1>10. ASSUME NEW r, CosmosWrittenRequest(s, r) PROVE CosmosWrittenRequest(t, r)
  <2>1. PICK v \in Instances : \E j \in DOMAIN Outputs[v] :
          /\ r.new = C!Parts(v, j) /\ r.last = C!Verified(v, j, "last")
          /\ CosmosWrittenBefore(k, d, v, j)
    BY <1>10 DEF CosmosWrittenRequest
  <2>2. PICK j \in DOMAIN Outputs[v] :
          /\ r.new = C!Parts(v, j) /\ r.last = C!Verified(v, j, "last")
          /\ CosmosWrittenBefore(k, d, v, j)
    BY <2>1
  <2>3. CosmosWrittenBefore(t.kind, t.data, v, j)  BY <1>2, <1>4, <2>2
  <2>4. QED  BY <2>2, <2>3 DEF CosmosWrittenRequest
<1>11. QED  BY <1>2, <1>6, <1>7, <1>8, <1>9, <1>10

\* Or it is stored nothing, for the sake of a verification.
LEMMA CosmosMore ==
    ASSUME NEW s, NEW t, s.data \in CosmosParts, t.kind = s.kind,
           NEW w \in Instances, NEW i \in DOMAIN Outputs[w],
           t.data = s.data \o C!Parts(w, i) \/ (t.data = s.data /\ CosmosSkips(s.kind, w, i)),
           CosmosDataOK(s.kind, s.data), CosmosWrittenBefore(s.kind, s.data, w, i)
    PROVE  /\ CosmosDataOK(t.kind, t.data) /\ CosmosWritten(t.kind, t.data, w, i)
           /\ \A v \in Instances : \A c : CosmosWrittenCaller(s, v, c) => CosmosWrittenCaller(t, v, c)
           /\ \A r : CosmosWrittenRequest(s, r) => CosmosWrittenRequest(t, r)
           /\ CosmosWrittenBefore(t.kind, t.data, w, i + 1)
<1>1. CASE t.data = s.data \o C!Parts(w, i)  BY <1>1, CosmosMoreParts
<1>2. CASE t.data = s.data /\ CosmosSkips(s.kind, w, i)
  <2>1. CosmosDataOK(t.kind, t.data) /\ CosmosWrittenBefore(t.kind, t.data, w, i)  BY <1>2
  <2>2. CosmosWritten(t.kind, t.data, w, i)  BY <1>2 DEF CosmosWritten
  <2>3. CosmosWrittenBefore(t.kind, t.data, w, i + 1)
    <3>1. i \in Nat  BY CosmosPartsProperties
    <3>2. \A j \in 1..((i + 1) - 1) : j \in 1..(i - 1) \/ j = i  BY <3>1
    <3>3. QED  BY <2>1, <2>2, <3>2 DEF CosmosWrittenBefore
  <2>4. /\ \A v \in Instances : \A c : CosmosWrittenCaller(s, v, c) => CosmosWrittenCaller(t, v, c)
        /\ \A r : CosmosWrittenRequest(s, r) => CosmosWrittenRequest(t, r)
    BY <1>2 DEF CosmosWrittenCaller, CosmosWrittenRequest, IsEvents
  <2>5. QED  BY <2>1, <2>2, <2>3, <2>4
<1>3. QED  BY <1>1, <1>2

\* They come behind all that is stored, once.
LEMMA CosmosOnceMore ==
    ASSUME NEW d \in CosmosParts, NEW w \in Instances, NEW i \in DOMAIN Outputs[w],
           \A m, n \in DOMAIN d : CosmosTogether(d, m, n),
           \A n \in DOMAIN d : d[n][1] = w => d[n][2] < i
    PROVE  /\ \A m, n \in DOMAIN (d \o C!Parts(w, i)) : CosmosTogether(d \o C!Parts(w, i), m, n)
           /\ \A v \in Instances \ {w} : \A c : CosmosOnceCaller(d, v, c) => CosmosOnceCaller(d \o C!Parts(w, i), v, c)
           /\ \A n \in DOMAIN (d \o C!Parts(w, i)) :
                (d \o C!Parts(w, i))[n][1] = w => (d \o C!Parts(w, i))[n][2] <= i
<1> DEFINE new == C!Parts(w, i)
           e == d \o new
           L == Len(d)
<1>1. /\ new \in CosmosParts /\ Len(new) = Outputs[w][i] /\ Outputs[w][i] \in Nat /\ i \in Nat
      /\ \A n \in 1..Outputs[w][i] : new[n] = <<w, i, n>>
  BY CosmosPartsProperties
<1>2. /\ L \in Nat /\ Len(new) \in Nat /\ DOMAIN d = 1..L /\ DOMAIN e = 1..(L + Len(new))
      /\ \A j \in 1..(L + Len(new)) : e[j] = IF j <= L THEN d[j] ELSE new[j - L]
  <2> HIDE DEF new
  <2>1. d \in Seq(CosmosPart) /\ new \in Seq(CosmosPart)  BY <1>1 DEF CosmosParts
  <2>2. QED  BY <2>1, ConcatElements
<1>3. \A n \in DOMAIN d : d[n][2] \in Nat /\ d[n][3] \in Nat
  <2>1. \A p \in CosmosPart : p[2] \in Nat /\ p[3] \in Nat  BY DEF CosmosPart
  <2>2. \A n \in DOMAIN d : d[n] \in CosmosPart  BY DEF CosmosParts
  <2>3. QED  BY <2>1, <2>2
<1> HIDE DEF e, new, L
<1>4. \A n \in DOMAIN e : n \in Nat /\ \/ n <= L /\ n \in DOMAIN d /\ e[n] = d[n]
                                       \/ n > L /\ e[n] = <<w, i, n - L>>
  <2>1. \A n \in DOMAIN e : n <= L => n \in DOMAIN d /\ e[n] = d[n]  BY <1>2
  <2>2. \A n \in DOMAIN e : n > L => n - L \in 1..Outputs[w][i] /\ e[n] = new[n - L]  BY <1>1, <1>2
  <2>3. QED  BY <1>1, <1>2, <2>1, <2>2
<1>5. ASSUME NEW m \in DOMAIN e, NEW n \in DOMAIN e PROVE CosmosTogether(e, m, n)
  <2>1. CASE m <= L /\ n <= L
    <3>1. e[m] = d[m] /\ e[n] = d[n] /\ m \in DOMAIN d /\ n \in DOMAIN d  BY <1>2, <1>4, <2>1
    <3>2. CosmosTogether(d, m, n)  BY <3>1
    <3>3. QED  BY <3>1, <3>2 DEF CosmosTogether
  <2>2. CASE m > L /\ n > L
    <3>1. e[m] = <<w, i, m - L>> /\ e[n] = <<w, i, n - L>> /\ m \in Nat /\ n \in Nat  BY <1>2, <1>4, <2>2
    <3>2. e[m][3] = m - L /\ e[n][3] = n - L /\ e[m][2] = i /\ e[n][2] = i  BY <3>1
    <3>3. e[m] = e[n] => m = n  BY <1>2, <3>1, <3>2
    <3>4. n = m + (n - L) - (m - L)  BY <1>2, <3>1
    <3>5. ~(i < i)  BY <1>1
    <3>6. QED  BY <3>2, <3>3, <3>4, <3>5 DEF CosmosTogether
  <2>3. CASE m <= L /\ n > L
    <3>1. /\ e[m] = d[m] /\ m \in DOMAIN d /\ e[n][1] = w /\ e[n][2] = i /\ m \in Nat /\ n \in Nat
      BY <1>2, <1>4, <2>3
    <3>2. d[m][1] = w => d[m][2] < i /\ d[m][2] # i  BY <1>1, <1>3, <3>1
    <3>3. m < n  BY <1>2, <2>3, <3>1
    <3>4. QED  BY <3>1, <3>2, <3>3 DEF CosmosTogether
  <2>4. CASE m > L /\ n <= L
    <3>1. /\ e[n] = d[n] /\ n \in DOMAIN d /\ e[m][1] = w /\ e[m][2] = i
      BY <1>2, <1>4, <2>4
    <3>2. d[n][1] = w => d[n][2] # i /\ ~(i < d[n][2])  BY <1>1, <1>3, <3>1
    <3>3. QED  BY <3>1, <3>2 DEF CosmosTogether
  <2>5. m \in Nat /\ n \in Nat  BY <1>4
  <2>6. QED  BY <1>2, <2>1, <2>2, <2>3, <2>4, <2>5
<1>6. ASSUME NEW v \in Instances \ {w}, NEW c, CosmosOnceCaller(d, v, c) PROVE CosmosOnceCaller(e, v, c)
  <2>1. \A n \in DOMAIN e : e[n][1] = v => n \in DOMAIN d /\ e[n] = d[n]  BY <1>4
  <2>2. QED  BY <1>6, <2>1 DEF CosmosOnceCaller
<1>7. \A n \in DOMAIN e : e[n][1] = w => e[n][2] <= i
  BY <1>1, <1>3, <1>4
<1>8. QED  BY <1>5, <1>6, <1>7 DEF e, new

\* Where the parts are in the store, as CosmosStore says it.
LEMMA CosmosTogetherIs ==
    \A m, n \in DOMAIN stored.data : C!Together(m, n) <=> CosmosTogether(stored.data, m, n)
BY DEF C!Together, CosmosTogether

\* Answering an input: the instance goes on with the next.
LEMMA CosmosAnswers ==
    ASSUME CosmosInv, CosmosTold, NEW w \in Instances, NEW how, NEW c,
           caller[w].input \in DOMAIN Outputs[w], c.input = caller[w].input + 1,
           caller' = [caller EXCEPT ![w] = c],
           told' = [told EXCEPT ![w][caller[w].input] = how]
    PROVE  CosmosTold'
<1> DEFINE i == caller[w].input
<1>1. /\ caller \in [CosmosCallers -> CosmosCaller] /\ i \in Nat /\ Instances \subseteq CosmosCallers
      /\ \A v \in Instances : Outputs[v] \in Seq(Nat)
  BY CosmosTypes, InstancesAssumption DEF CosmosInv, CosmosCallers
<1>2. \A v \in Instances : caller'[v] = IF v = w THEN c ELSE caller[v]  BY <1>1
<1>3. told = [v \in Instances |-> [j \in DOMAIN Outputs[v] |-> told[v][j]]]  BY DEF CosmosTold
<1>4. \A v \in Instances : DOMAIN told[v] = DOMAIN Outputs[v]  BY <1>3
<1>5. told' = [v \in Instances |-> IF v = w THEN [told[w] EXCEPT ![i] = how] ELSE told[v]]
  BY <1>3
<1>6. \A v \in Instances : told'[v] = [j \in DOMAIN Outputs[v] |-> IF v = w /\ j = i THEN how ELSE told[v][j]]
  <2>1. told[w] = [j \in DOMAIN Outputs[w] |-> told[w][j]]  BY <1>3
  <2>2. [told[w] EXCEPT ![i] = how] = [j \in DOMAIN Outputs[w] |-> IF j = i THEN how ELSE told[w][j]]
    BY <2>1
  <2>3. \A v \in Instances : v # w => told'[v] = [j \in DOMAIN Outputs[v] |-> told[v][j]]
    BY <1>3, <1>5
  <2>4. QED  BY <1>5, <2>2, <2>3
<1>7. told' = [v \in Instances |-> [j \in DOMAIN Outputs[v] |-> told'[v][j]]]
  <2>1. ASSUME NEW v \in Instances PROVE told'[v] = [j \in DOMAIN Outputs[v] |-> told'[v][j]]
    <3> DEFINE f == [j \in DOMAIN Outputs[v] |-> IF v = w /\ j = i THEN how ELSE told[v][j]]
    <3>1. told'[v] = f  BY <1>6
    <3>2. f = [j \in DOMAIN Outputs[v] |-> f[j]]  OBVIOUS
    <3> HIDE DEF f
    <3>3. QED  BY <3>1, <3>2
  <2>2. told' = [v \in Instances |-> told'[v]]  BY <1>5
  <2>3. QED  BY <2>1, <2>2
<1>8. ASSUME NEW v \in Instances, NEW j \in DOMAIN Outputs[v], told'[v][j] # "no"
      PROVE  j < caller'[v].input
  <2>1. j \in Nat  BY <1>1
  <2>2. CASE v = w /\ j = i  BY <1>1, <1>2, <2>2
  <2>3. CASE ~(v = w /\ j = i)
    <3>1. told[v][j] # "no"  BY <1>6, <1>8, <2>3
    <3>2. j < caller[v].input  BY <3>1 DEF CosmosTold
    <3>3. QED  BY <1>1, <1>2, <2>1, <3>2
  <2>4. QED  BY <2>2, <2>3
<1>9. QED  BY <1>7, <1>8 DEF CosmosTold

\* One caller moves, and nothing is stored.
LEMMA CosmosWrittenMoves ==
    ASSUME CosmosWrittenInv, CosmosInv', UNCHANGED <<stored, wire>>, NEW w \in Instances, NEW c,
           caller' = [caller EXCEPT ![w] = c], CosmosWrittenCaller(stored, w, c),
           stored.kind = "events" => CosmosOnceCaller(stored.data, w, c), CosmosTold'
    PROVE  CosmosWrittenInv'
<1>1. caller \in [CosmosCallers -> CosmosCaller] /\ Instances \subseteq CosmosCallers
  BY DEF CosmosWrittenInv, CosmosInv, CosmosCallers
<1>2. \A v \in Instances : caller'[v] = IF v = w THEN c ELSE caller[v]  BY <1>1
<1>3. \A v \in Instances : CosmosWrittenCaller(stored', v, caller'[v])
  BY <1>2 DEF CosmosWrittenInv
<1>4. CosmosOnce'  BY <1>2 DEF CosmosWrittenInv, CosmosOnce
<1>5. QED  BY <1>3, <1>4 DEF CosmosWrittenInv

\* Nothing is stored and no input begun or answered.
LEMMA CosmosWrittenKeeps ==
    ASSUME CosmosWrittenInv, CosmosInv', stored'.data = stored.data, stored'.kind = stored.kind,
           wire'.late = wire.late, told' = told,
           \A w \in Instances :
             /\ caller'[w].input = caller[w].input
             /\ \/ caller'[w].mark = caller[w].mark /\ (caller'[w].pc = "idle" <=> caller[w].pc = "idle")
                \/ caller'[w].mark = -1 /\ caller'[w].pc = "idle"
    PROVE  CosmosWrittenInv'
<1>1. IsEvents(stored') <=> IsEvents(stored)  BY DEF IsEvents
<1>2. ASSUME NEW w \in Instances PROVE CosmosWrittenCaller(stored', w, caller'[w])
  <2>1. CosmosWrittenCaller(stored, w, caller[w])  BY DEF CosmosWrittenInv
  <2>2. CASE caller'[w].mark = caller[w].mark /\ (caller'[w].pc = "idle" <=> caller[w].pc = "idle")
    BY <1>1, <2>1, <2>2 DEF CosmosWrittenCaller
  <2>3. CASE caller'[w].mark = -1 /\ caller'[w].pc = "idle"
    <3>1. \A i \in DOMAIN Outputs[w] : ~(i <= -1)
      <4>1. Outputs[w] \in Seq(Nat)  BY InstancesAssumption
      <4>2. QED  BY <4>1
    <3>2. QED  BY <1>1, <2>1, <2>3, <3>1 DEF CosmosWrittenCaller
  <2>4. QED  BY <2>2, <2>3
<1>3. ASSUME NEW w \in Instances, CosmosOnceCaller(stored.data, w, caller[w])
      PROVE  CosmosOnceCaller(stored'.data, w, caller'[w])
  BY <1>3 DEF CosmosOnceCaller
<1>4. CosmosOnce'  BY <1>3 DEF CosmosWrittenInv, CosmosOnce
<1>5. CosmosTold'  BY DEF CosmosWrittenInv, CosmosTold
<1>6. \A r : CosmosWrittenRequest(stored, r) => CosmosWrittenRequest(stored', r)
  BY DEF CosmosWrittenRequest
<1>7. QED  BY <1>2, <1>4, <1>5, <1>6 DEF CosmosWrittenInv

\* What the deduper goes by: the inputs up to the watermark are written, and
\* there is nothing in the store of those behind it.
LEMMA WatermarkWritten ==
    ASSUME CosmosWrittenInv, NEW w \in Instances, IsEvents(stored)
    PROVE  /\ caller[w].pc = "idle" =>
                \A i \in DOMAIN Outputs[w] : i <= C!Watermark(w) => CosmosWritten(stored.kind, stored.data, w, i)
           /\ stored.kind = "events" => \A n \in DOMAIN stored.data : stored.data[n][1] = w =>
                stored.data[n][2] <= C!Watermark(w) \/ stored.data[n][2] < caller[w].input
<1> DEFINE c == caller[w]
           mark == C!Watermark(w)
<1>1. /\ CosmosWrittenCaller(stored, w, c) /\ CosmosDataOK(stored.kind, stored.data) /\ CosmosInv
      /\ stored.kind = "events" => CosmosOnceCaller(stored.data, w, c)
  BY DEF CosmosWrittenInv, CosmosOnce
<1>2. /\ mark \in Nat \cup {-1}
      /\ c.mark # -1 => mark = c.mark
      /\ c.mark = -1 =>
           \/ CosmosMine(w) = {} /\ mark = -1
           \/ mark \in CosmosMine(w) /\ \A i \in CosmosMine(w) : i <= mark
  BY <1>1, WatermarkProperties
<1> HIDE DEF mark
<1>3. \A i \in DOMAIN Outputs[w] : i \in Nat \ {0}
  <2>1. Outputs[w] \in Seq(Nat)  BY InstancesAssumption
  <2>2. QED  BY <2>1
<1>4. ASSUME c.pc = "idle", NEW i \in DOMAIN Outputs[w], i <= mark PROVE CosmosWritten(stored.kind, stored.data, w, i)
  <2>1. CASE c.mark # -1  BY <1>1, <1>2, <1>4, <2>1 DEF CosmosWrittenCaller
  <2>2. CASE c.mark = -1
    <3>1. mark # -1  BY <1>3, <1>4
    <3>2. mark \in CosmosMine(w)  BY <1>2, <2>2, <3>1
    <3>3. PICK n \in DOMAIN stored.data : stored.data[n][1] = w /\ stored.data[n][2] = mark
      BY <3>2 DEF CosmosMine
    <3>4. i \in 1..mark  BY <1>2, <1>3, <1>4, <3>1
    <3>5. QED  BY <1>1, <3>3, <3>4 DEF CosmosDataOK
  <2>3. QED  BY <2>1, <2>2
<1>5. ASSUME stored.kind = "events", NEW n \in DOMAIN stored.data, stored.data[n][1] = w
      PROVE  stored.data[n][2] <= mark \/ stored.data[n][2] < c.input
  <2>1. stored.data[n][2] \in CosmosMine(w)  BY <1>5 DEF CosmosMine
  <2>2. CosmosOnceCaller(stored.data, w, c)  BY <1>1, <1>5
  <2>3. CASE c.pc = "idle" /\ c.mark # -1  BY <1>2, <1>5, <2>2, <2>3 DEF CosmosOnceCaller
  <2>4. CASE c.pc # "idle"  BY <1>5, <2>2, <2>4 DEF CosmosOnceCaller
  <2>5. CASE c.mark = -1  BY <1>2, <2>1, <2>5
  <2>6. QED  BY <2>3, <2>4, <2>5
<1>6. QED  BY <1>4, <1>5 DEF mark

LEMMA CosmosWrittenIsDupe ==
    ASSUME CosmosWrittenInv, CosmosInv', NEW w \in Instances, C!IsDupe(w)
    PROVE  CosmosWrittenInv'
<1> DEFINE b == caller[w]
           mark == C!Watermark(w)
           drop == C!Events /\ mark # -1 /\ b.input <= mark
<1>1. /\ CosmosInv /\ CosmosTold /\ w \in CosmosCallers /\ CosmosWrittenCaller(stored, w, b)
      /\ b \in CosmosCaller /\ b.input \in Nat \ {0}
  BY CosmosTypes DEF CosmosWrittenInv, CosmosCallers
<1>2. b.pc = "idle" /\ b.input \in DOMAIN Outputs[w] /\ UNCHANGED <<stored, wire>>
  BY DEF C!IsDupe, C!Inputs
<1>3. b.input \in 1..Len(Outputs[w]) /\ Len(Outputs[w]) \in Nat /\ mark \in Nat \cup {-1}
  BY <1>1, <1>2, InstancesAssumption, WatermarkProperties
<1>4. CosmosWrittenBefore(stored.kind, stored.data, w, b.input)  BY <1>1 DEF CosmosWrittenCaller
<1>5. IsEvents(stored) =>
        /\ \A i \in DOMAIN Outputs[w] : i <= mark => CosmosWritten(stored.kind, stored.data, w, i)
        /\ stored.kind = "events" => \A n \in DOMAIN stored.data : stored.data[n][1] = w =>
             stored.data[n][2] <= mark \/ stored.data[n][2] < b.input
  BY <1>2, WatermarkWritten
<1>6. stored.kind = "events" => IsEvents(stored)  BY DEF IsEvents
<1>7. \A n \in DOMAIN stored.data : stored.data[n][2] \in Nat
  <2>1. stored.data \in Seq(CosmosPart)  BY <1>1, CosmosTypes DEF CosmosParts
  <2>2. \A p \in CosmosPart : p[2] \in Nat  BY DEF CosmosPart
  <2>3. QED  BY <2>1, <2>2
<1>8. CASE drop
  <2> DEFINE c == [C!Idle(b) EXCEPT !.input = @ + 1, !.mark = IF C!Events THEN mark ELSE C!NoSn]
  <2>1. told' = [told EXCEPT ![w][b.input] = "dupe"] /\ caller' = [caller EXCEPT ![w] = c]
    BY <1>8 DEF C!IsDupe, C!Answered, C!Caller, C!NoSn
  <2>2. c.pc = "idle" /\ c.input = b.input + 1 /\ c.mark = mark
    BY <1>1, <1>8 DEF C!Idle, CosmosCaller
  <2> HIDE DEF b, c, mark
  <2>3. CosmosTold'  BY <1>1, <1>2, <2>1, <2>2, CosmosAnswers DEF b
  <2>4. IsEvents(stored) /\ b.input <= mark  BY <1>8, CosmosNames
  <2>5. CosmosWrittenBefore(stored.kind, stored.data, w, b.input + 1)
    <3>1. CosmosWritten(stored.kind, stored.data, w, b.input)  BY <1>2, <1>5, <2>4
    <3>2. \A j \in 1..((b.input + 1) - 1) : j \in 1..(b.input - 1) \/ j = b.input  BY <1>1
    <3>3. QED  BY <1>4, <3>1, <3>2 DEF CosmosWrittenBefore
  <2>6. CosmosWrittenCaller(stored, w, c)
    <3>1. c.input <= Len(Outputs[w]) + 1  BY <1>3, <2>2
    <3>2. QED  BY <1>5, <2>2, <2>4, <2>5, <3>1 DEF CosmosWrittenCaller
  <2>7. stored.kind = "events" => CosmosOnceCaller(stored.data, w, c)
    <3>1. SUFFICES ASSUME stored.kind = "events", NEW n \in DOMAIN stored.data, stored.data[n][1] = w
                   PROVE  stored.data[n][2] <= c.mark \/ stored.data[n][2] < c.input
      BY <2>2 DEF CosmosOnceCaller
    <3>2. stored.data[n][2] <= mark \/ stored.data[n][2] < b.input  BY <1>5, <2>4, <3>1
    <3>3. QED  BY <1>1, <1>7, <2>2, <3>2
  <2>8. QED  BY <1>2, <2>1, <2>3, <2>6, <2>7, CosmosWrittenMoves
<1>9. CASE ~drop
  <2> DEFINE m == IF C!Events THEN b.input ELSE b.mark
             c == [b EXCEPT !.pc = "load", !.mark = m, !.attempt = 1]
  <2>1. told' = told /\ caller' = [caller EXCEPT ![w] = c]
    BY <1>9 DEF C!IsDupe, C!Caller, C!NoSn
  <2>2. c.pc = "load" /\ c.input = b.input /\ (IsEvents(stored) => c.mark = b.input)
    BY <1>1, CosmosNames DEF CosmosCaller
  <2>3. IsEvents(stored) => ~(b.input <= mark)
    BY <1>1, <1>3, <1>9, CosmosNames
  <2> HIDE DEF b, c, mark, m, drop
  <2>4. CosmosWrittenCaller(stored, w, c)  BY <1>1, <1>4, <2>2 DEF CosmosWrittenCaller
  <2>5. stored.kind = "events" => CosmosOnceCaller(stored.data, w, c)
    <3>1. SUFFICES ASSUME stored.kind = "events", NEW n \in DOMAIN stored.data, stored.data[n][1] = w
                   PROVE  stored.data[n][2] < c.input
      BY <2>2 DEF CosmosOnceCaller
    <3>2. stored.data[n][2] <= mark \/ stored.data[n][2] < b.input  BY <1>5, <1>6, <3>1
    <3>3. ~(b.input <= mark)  BY <1>6, <2>3, <3>1
    <3>4. QED  BY <1>1, <1>3, <1>7, <2>2, <3>2, <3>3
  <2>6. CosmosTold'
    <3>1. \A v \in Instances : caller'[v].input = caller[v].input
      <4>1. caller \in [CosmosCallers -> CosmosCaller] /\ Instances \subseteq CosmosCallers
        BY <1>1 DEF CosmosInv, CosmosCallers
      <4>2. \A v \in Instances : caller'[v] = IF v = w THEN c ELSE caller[v]  BY <2>1, <4>1
      <4>3. QED  BY <2>2, <4>2 DEF b
    <3>2. QED  BY <1>1, <2>1, <3>1 DEF CosmosTold
  <2>7. QED  BY <1>2, <2>1, <2>4, <2>5, <2>6, CosmosWrittenMoves
<1>10. QED  BY <1>8, <1>9

\* What is stored when a request is executed.
LEMMA CosmosExecutedData ==
    ASSUME CosmosInv, NEW r \in CosmosRequest, CosmosRequestOK(stored, r), C!Matches(r)
    PROVE  /\ \/ C!Executed(r).data = stored.data \o r.new
              \/ C!Executed(r).data = stored.data /\ r.last /\ ~C!Events
           /\ C!Executed(r).kind = stored.kind
           /\ stored.data \in CosmosParts
<1> DEFINE t == C!Executed(r)
<1>1. /\ stored \in CosmosStored /\ stored.data \in CosmosParts /\ stored.kind \in Stores /\ r.new \in CosmosParts
      /\ r.state = stored.data \o r.new
  BY DEF CosmosInv, CosmosStoreOK, CosmosStored, CosmosRequest, CosmosRequestOK, C!Matches
<1>2. CASE C!Verifies(r)
  <2>1. r.new = <<>> \/ (r.last /\ ~C!Events)  BY <1>2 DEF C!Verifies
  <2>2. stored.data \o <<>> = stored.data  BY <1>1 DEF CosmosParts
  <2>3. QED  BY <1>1, <1>2, <2>1, <2>2 DEF C!Executed
<1>3. CASE ~C!Verifies(r)  BY <1>1, <1>3 DEF C!Executed, CosmosStored
<1>4. QED  BY <1>1, <1>2, <1>3

\* The instance's own request is executed: it has the parts of its input.
LEMMA CosmosStoresInput ==
    ASSUME CosmosWrittenInv, NEW w \in Instances, caller[w].pc = "sink",
           C!Matches(C!Request(w)), stored' = C!Executed(C!Request(w))
    PROVE  /\ CosmosDataOK(stored'.kind, stored'.data) /\ CosmosWritten(stored'.kind, stored'.data, w, caller[w].input)
           /\ stored'.kind = stored.kind
           /\ \A v \in Instances : CosmosWrittenCaller(stored', v, caller[v])
           /\ \A r : CosmosWrittenRequest(stored, r) => CosmosWrittenRequest(stored', r)
           /\ CosmosWrittenBefore(stored'.kind, stored'.data, w, caller[w].input + 1)
           /\ stored.kind = "events" =>
                /\ \A m, n \in DOMAIN stored'.data : CosmosTogether(stored'.data, m, n)
                /\ \A v \in Instances \ {w} : CosmosOnceCaller(stored'.data, v, caller[v])
                /\ \A n \in DOMAIN stored'.data :
                     stored'.data[n][1] = w => stored'.data[n][2] <= caller[w].input
<1> DEFINE i == caller[w].input
<1>1. /\ CosmosInv /\ CosmosDataOK(stored.kind, stored.data) /\ CosmosOnce
      /\ \A v \in Instances : CosmosWrittenCaller(stored, v, caller[v])
  BY DEF CosmosWrittenInv
<1>2. /\ C!Request(w) \in CosmosRequest /\ CosmosRequestOK(stored, C!Request(w))
      /\ i \in DOMAIN Outputs[w] /\ C!Request(w).new = C!Parts(w, i)
      /\ C!Request(w).last = C!Verified(w, i, "last")
  BY <1>1, CosmosRequests
<1>3. /\ \/ stored'.data = stored.data \o C!Parts(w, i)
         \/ stored'.data = stored.data /\ CosmosSkips(stored.kind, w, i)
      /\ stored'.kind = stored.kind /\ stored.data \in CosmosParts
  BY <1>1, <1>2, CosmosExecutedData DEF CosmosSkips, C!Events
<1>4. CosmosWrittenBefore(stored.kind, stored.data, w, i)  BY <1>1 DEF CosmosWrittenCaller
<1> HIDE DEF i
<1>5. /\ CosmosDataOK(stored'.kind, stored'.data) /\ CosmosWritten(stored'.kind, stored'.data, w, i)
      /\ \A v \in Instances : \A c : CosmosWrittenCaller(stored, v, c) => CosmosWrittenCaller(stored', v, c)
      /\ \A r : CosmosWrittenRequest(stored, r) => CosmosWrittenRequest(stored', r)
      /\ CosmosWrittenBefore(stored'.kind, stored'.data, w, i + 1)
  BY <1>1, <1>2, <1>3, <1>4, CosmosMore
<1>6. ASSUME stored.kind = "events"
      PROVE  /\ \A m, n \in DOMAIN stored'.data : CosmosTogether(stored'.data, m, n)
             /\ \A v \in Instances \ {w} : CosmosOnceCaller(stored'.data, v, caller[v])
             /\ \A n \in DOMAIN stored'.data : stored'.data[n][1] = w => stored'.data[n][2] <= i
  <2>1. /\ \A m, n \in DOMAIN stored.data : CosmosTogether(stored.data, m, n)
        /\ \A v \in Instances : CosmosOnceCaller(stored.data, v, caller[v])
    BY <1>1, <1>6 DEF CosmosOnce
  <2>2. \A n \in DOMAIN stored.data : stored.data[n][1] = w => stored.data[n][2] < i
    BY <2>1 DEF CosmosOnceCaller, i
  <2> DEFINE e == stored.data \o C!Parts(w, i)
  <2>3. /\ \A m, n \in DOMAIN e : CosmosTogether(e, m, n)
        /\ \A v \in Instances \ {w} : \A c : CosmosOnceCaller(stored.data, v, c) => CosmosOnceCaller(e, v, c)
        /\ \A n \in DOMAIN e : e[n][1] = w => e[n][2] <= i
    BY <1>2, <1>3, <2>1, <2>2, CosmosOnceMore
  <2>4. e = stored'.data  BY <1>3, <1>6 DEF CosmosSkips
  <2> HIDE DEF e
  <2>5. QED  BY <2>1, <2>3, <2>4
<1>7. QED  BY <1>1, <1>3, <1>5, <1>6 DEF i

\* A caller that has been answered by the store.
LEMMA CosmosWrittenSink ==
    ASSUME CosmosWrittenInv, CosmosInv', NEW w \in Instances, C!Sink(w)
    PROVE  CosmosWrittenInv'
<1> DEFINE b == caller[w]
           mark == IF C!Events THEN C!Watermark(w) ELSE C!NoSn
           c == [C!Idle(b) EXCEPT !.input = @ + 1, !.mark = mark]
<1>1. /\ CosmosInv /\ CosmosTold /\ CosmosWrittenCaller(stored, w, b) /\ w \in CosmosCallers
      /\ b \in CosmosCaller /\ b.input \in Nat \ {0} /\ b.pc = "sink" /\ wire' = wire
      /\ caller \in [CosmosCallers -> CosmosCaller] /\ Instances \subseteq CosmosCallers
  BY CosmosTypes DEF CosmosWrittenInv, CosmosInv, C!Sink, CosmosCallers
<1>2. b.input \in DOMAIN Outputs[w]  BY <1>1, CosmosRequests
<1>3. b.input \in 1..Len(Outputs[w]) /\ Len(Outputs[w]) \in Nat /\ DOMAIN Outputs[w] = 1..Len(Outputs[w])
  <2>1. Outputs[w] \in Seq(Nat)  BY InstancesAssumption
  <2>2. QED  BY <1>2, <2>1
<1>4. IsEvents(stored) => mark = b.input
  <2>1. IsEvents(stored) => b.mark = b.input /\ b.mark # -1  BY <1>1 DEF CosmosWrittenCaller
  <2>2. QED  BY <1>1, <2>1, WatermarkProperties, CosmosNames
<1>5. CASE C!Matches(C!Request(w))
  <2>1. /\ stored' = C!Executed(C!Request(w)) /\ told' = [told EXCEPT ![w][b.input] = "ok"]
        /\ caller' = [caller EXCEPT ![w] = c]
    BY <1>5 DEF C!Sink, C!Answered, C!Caller
  <2>2. c.pc = "idle" /\ c.input = b.input + 1 /\ c.mark = mark
    BY <1>1 DEF C!Idle, CosmosCaller
  <2> HIDE DEF b, c, mark
  <2>3. CosmosTold'  BY <1>1, <1>2, <2>1, <2>2, CosmosAnswers DEF b
  <2>4. /\ CosmosDataOK(stored'.kind, stored'.data) /\ CosmosWritten(stored'.kind, stored'.data, w, b.input)
        /\ stored'.kind = stored.kind
        /\ \A v \in Instances : CosmosWrittenCaller(stored', v, caller[v])
        /\ \A r : CosmosWrittenRequest(stored, r) => CosmosWrittenRequest(stored', r)
        /\ CosmosWrittenBefore(stored'.kind, stored'.data, w, b.input + 1)
        /\ stored.kind = "events" =>
             /\ \A m, n \in DOMAIN stored'.data : CosmosTogether(stored'.data, m, n)
             /\ \A v \in Instances \ {w} : CosmosOnceCaller(stored'.data, v, caller[v])
             /\ \A n \in DOMAIN stored'.data : stored'.data[n][1] = w => stored'.data[n][2] <= b.input
    BY <1>1, <1>5, <2>1, CosmosStoresInput DEF b
  <2>5. IsEvents(stored') <=> IsEvents(stored)  BY <2>4 DEF IsEvents
  <2>6. CosmosWrittenCaller(stored', w, c)
    <3>1. c.input <= Len(Outputs[w]) + 1  BY <1>3, <2>2
    <3>2. ASSUME IsEvents(stored'), NEW i \in DOMAIN Outputs[w], i <= c.mark
          PROVE  CosmosWritten(stored'.kind, stored'.data, w, i)
      <4>1. i <= b.input /\ i \in Nat \ {0}  BY <1>3, <1>4, <2>2, <2>5, <3>2
      <4>2. i \in 1..((b.input + 1) - 1)  BY <1>1, <4>1
      <4>3. QED  BY <2>4, <4>2 DEF CosmosWrittenBefore
    <3>3. QED  BY <2>2, <2>4, <3>1, <3>2 DEF CosmosWrittenCaller
  <2>7. \A v \in Instances : caller'[v] = IF v = w THEN c ELSE caller[v]  BY <1>1, <2>1
  <2>8. \A v \in Instances : CosmosWrittenCaller(stored', v, caller'[v])  BY <2>4, <2>6, <2>7
  <2>9. CosmosOnce'
    <3>1. SUFFICES ASSUME stored.kind = "events"
                   PROVE  \A v \in Instances : CosmosOnceCaller(stored'.data, v, caller'[v])
      BY <2>4 DEF CosmosOnce
    <3>2. IsEvents(stored)  BY <3>1 DEF IsEvents
    <3>3. CosmosOnceCaller(stored'.data, w, c)
      BY <1>4, <2>2, <2>4, <3>1, <3>2 DEF CosmosOnceCaller
    <3>4. QED  BY <2>4, <2>7, <3>1, <3>3
  <2>10. \A r \in wire'.late : CosmosWrittenRequest(stored', r)
    BY <1>1, <2>4 DEF CosmosWrittenInv
  <2>11. wire'.late = {} \/ stored'.kind # "events"  BY <1>1, <2>4 DEF CosmosWrittenInv
  <2>12. QED  BY <2>3, <2>4, <2>8, <2>9, <2>10, <2>11 DEF CosmosWrittenInv
<1>6. CASE ~C!Matches(C!Request(w))
  <2> DEFINE a == [C!Idle(b) EXCEPT !.pc = "load"]
  <2>1. stored' = stored /\ told' = told /\ caller' = [caller EXCEPT ![w] = a]
    BY <1>6 DEF C!Sink, C!Caller
  <2>2. a.pc = "load" /\ a.input = b.input /\ a.mark = b.mark  BY <1>1 DEF C!Idle, CosmosCaller
  <2> HIDE DEF a
  <2>3. \A v \in Instances : caller'[v] = IF v = w THEN a ELSE caller[v]  BY <1>1, <2>1
  <2>4. \A v \in Instances :
          /\ caller'[v].input = caller[v].input /\ caller'[v].mark = caller[v].mark
          /\ caller'[v].pc = "idle" <=> caller[v].pc = "idle"
    BY <1>1, <2>2, <2>3
  <2>5. QED  BY <1>1, <2>1, <2>4, CosmosWrittenKeeps
<1>7. QED  BY <1>5, <1>6

\* An instance that starts anew asks for the watermark again.
LEMMA CosmosRestartedIs ==
    ASSUME CosmosInv, NEW w \in Instances, caller' = [caller EXCEPT ![w] = C!Restarted(w)]
    PROVE  /\ \A v \in Instances \ {w} : caller'[v] = caller[v]
           /\ caller'[w].pc = "idle" /\ caller'[w].mark = -1 /\ caller'[w].input = caller[w].input
<1>1. caller \in [CosmosCallers -> CosmosCaller] /\ w \in CosmosCallers /\ Instances \subseteq CosmosCallers
  BY DEF CosmosInv, CosmosCallers
<1>2. caller[w] \in CosmosCaller  BY <1>1
<1>3. C!Restarted(w) = [[caller[w] EXCEPT !.pc = "idle", !.state = <<>>, !.sn = 0] EXCEPT !.mark = -1, !.attempt = 1]
  BY DEF C!Restarted, C!Idle, C!NoSn
<1> DEFINE c == C!Restarted(w)
<1>4. c.pc = "idle" /\ c.mark = -1 /\ c.input = caller[w].input  BY <1>2, <1>3 DEF CosmosCaller
<1> HIDE DEF c
<1>5. caller' = [caller EXCEPT ![w] = c]  BY DEF c
<1>6. QED  BY <1>1, <1>4, <1>5

LEMMA CosmosWrittenLost ==
    ASSUME CosmosWrittenInv, CosmosInv', C!Lost
    PROVE  CosmosWrittenInv'
<1>1. PICK w \in Instances :
        /\ caller[w].pc = "sink" /\ caller' = [caller EXCEPT ![w] = C!Restarted(w)] /\ told' = told
        /\ \/ stored' \in {stored} \cup (IF C!Matches(C!Request(w)) THEN {C!Executed(C!Request(w))} ELSE {})
              /\ wire' = wire
           \/ C!Slow /\ wire' = [wire EXCEPT !.late = @ \cup {C!Request(w)}] /\ stored' = stored
  BY DEF C!Lost, C!Caller
<1>2. /\ \A v \in Instances \ {w} : caller'[v] = caller[v]
      /\ caller'[w].pc = "idle" /\ caller'[w].mark = -1 /\ caller'[w].input = caller[w].input
  BY <1>1, CosmosRestartedIs DEF CosmosWrittenInv
<1>3. \A v \in Instances :
        /\ caller'[v].input = caller[v].input
        /\ \/ caller'[v].mark = caller[v].mark /\ (caller'[v].pc = "idle" <=> caller[v].pc = "idle")
           \/ caller'[v].mark = -1 /\ caller'[v].pc = "idle"
  BY <1>2
<1>4. CASE stored' = stored /\ wire' = wire
  BY <1>1, <1>3, <1>4, CosmosWrittenKeeps
<1>5. CASE C!Matches(C!Request(w)) /\ stored' = C!Executed(C!Request(w)) /\ wire' = wire
  <2>1. /\ CosmosDataOK(stored'.kind, stored'.data) /\ stored'.kind = stored.kind
        /\ \A v \in Instances : CosmosWrittenCaller(stored', v, caller[v])
        /\ \A r : CosmosWrittenRequest(stored, r) => CosmosWrittenRequest(stored', r)
        /\ stored.kind = "events" =>
             /\ \A m, n \in DOMAIN stored'.data : CosmosTogether(stored'.data, m, n)
             /\ \A v \in Instances \ {w} : CosmosOnceCaller(stored'.data, v, caller[v])
    BY <1>1, <1>5, CosmosStoresInput
  <2>2. CosmosWrittenCaller(stored', w, caller'[w])
    <3>1. \A i \in DOMAIN Outputs[w] : ~(i <= -1)
      <4>1. Outputs[w] \in Seq(Nat)  BY InstancesAssumption
      <4>2. QED  BY <4>1
    <3>2. CosmosWrittenCaller(stored', w, caller[w])  BY <2>1
    <3>3. QED  BY <1>2, <3>1, <3>2 DEF CosmosWrittenCaller
  <2>3. \A v \in Instances : CosmosWrittenCaller(stored', v, caller'[v])  BY <1>2, <2>1, <2>2
  <2>4. CosmosOnceCaller(stored'.data, w, caller'[w])  BY <1>2 DEF CosmosOnceCaller
  <2>5. CosmosOnce'  BY <1>2, <2>1, <2>4 DEF CosmosOnce
  <2>6. CosmosTold'  BY <1>1, <1>3 DEF CosmosWrittenInv, CosmosTold
  <2>7. QED  BY <1>5, <2>1, <2>3, <2>5, <2>6 DEF CosmosWrittenInv
<1>6. CASE C!Slow /\ wire' = [wire EXCEPT !.late = @ \cup {C!Request(w)}] /\ stored' = stored
  <2> DEFINE r == C!Request(w)
             i == caller[w].input
  <2>1. i \in DOMAIN Outputs[w] /\ r.new = C!Parts(w, i) /\ r.last = C!Verified(w, i, "last")
    BY <1>1, CosmosRequests DEF CosmosWrittenInv
  <2>2. CosmosWrittenBefore(stored.kind, stored.data, w, i)  BY DEF CosmosWrittenInv, CosmosWrittenCaller
  <2>3. CosmosWrittenRequest(stored, r)  BY <2>1, <2>2 DEF CosmosWrittenRequest
  <2>4. stored.kind # "events"  BY <1>6 DEF C!Slow
  <2> HIDE DEF r
  <2>5. wire \in CosmosWire /\ wire' = [wire EXCEPT !.late = @ \cup {r}]
    BY <1>6 DEF CosmosWrittenInv, CosmosInv, r
  <2>6. wire'.late = wire.late \cup {r}  BY <2>5 DEF CosmosWire
  <2>7. \A x \in wire'.late : CosmosWrittenRequest(stored', x)
    BY <1>6, <2>3, <2>6 DEF CosmosWrittenInv
  <2>8. \A v \in Instances : CosmosWrittenCaller(stored', v, caller'[v])
    <3>1. CosmosWrittenCaller(stored', w, caller'[w])
      <4>1. \A j \in DOMAIN Outputs[w] : ~(j <= -1)
        <5>1. Outputs[w] \in Seq(Nat)  BY InstancesAssumption
        <5>2. QED  BY <5>1
      <4>2. CosmosWrittenCaller(stored, w, caller[w])  BY DEF CosmosWrittenInv
      <4>3. QED  BY <1>2, <1>6, <4>1, <4>2 DEF CosmosWrittenCaller
    <3>2. QED  BY <1>2, <1>6, <3>1 DEF CosmosWrittenInv
  <2>9. CosmosOnce'  BY <1>6, <2>4 DEF CosmosOnce
  <2>10. CosmosTold'  BY <1>1, <1>3 DEF CosmosWrittenInv, CosmosTold
  <2>11. QED  BY <1>6, <2>4, <2>7, <2>8, <2>9, <2>10 DEF CosmosWrittenInv
<1>7. QED  BY <1>1, <1>4, <1>5, <1>6

LEMMA CosmosWrittenExecutedLate ==
    ASSUME CosmosWrittenInv, CosmosInv', C!ExecutedLate
    PROVE  CosmosWrittenInv'
<1>1. PICK r \in wire.late :
        /\ wire' = [wire EXCEPT !.late = @ \ {r}] /\ UNCHANGED <<caller, told>>
        /\ stored' = IF C!Matches(r) THEN C!Executed(r) ELSE stored
  BY DEF C!ExecutedLate
<1>2. /\ CosmosInv /\ wire \in CosmosWire /\ r \in CosmosRequest /\ CosmosRequestOK(stored, r)
      /\ CosmosWrittenRequest(stored, r) /\ stored.kind # "events" /\ CosmosDataOK(stored.kind, stored.data)
      /\ \A v \in Instances : CosmosWrittenCaller(stored, v, caller[v])
      /\ \A x \in wire.late : CosmosWrittenRequest(stored, x)
  BY DEF CosmosWrittenInv, CosmosInv, CosmosWire
<1>3. wire'.late \subseteq wire.late  BY <1>1, <1>2 DEF CosmosWire
<1>4. /\ stored'.kind = stored.kind /\ CosmosDataOK(stored'.kind, stored'.data)
      /\ \A v \in Instances : CosmosWrittenCaller(stored', v, caller[v])
      /\ \A x : CosmosWrittenRequest(stored, x) => CosmosWrittenRequest(stored', x)
  <2>1. CASE C!Matches(r)
    <3>1. /\ stored'.data = stored.data \o r.new \/ (stored'.data = stored.data /\ r.last /\ ~C!Events)
          /\ stored'.kind = stored.kind /\ stored.data \in CosmosParts
      BY <1>1, <1>2, <2>1, CosmosExecutedData
    <3>2. PICK v \in Instances : \E i \in DOMAIN Outputs[v] :
            /\ r.new = C!Parts(v, i) /\ r.last = C!Verified(v, i, "last")
            /\ CosmosWrittenBefore(stored.kind, stored.data, v, i)
      BY <1>2 DEF CosmosWrittenRequest
    <3>3. PICK i \in DOMAIN Outputs[v] :
            /\ r.new = C!Parts(v, i) /\ r.last = C!Verified(v, i, "last")
            /\ CosmosWrittenBefore(stored.kind, stored.data, v, i)
      BY <3>2
    <3>4. stored'.data = stored.data \o C!Parts(v, i) \/ (stored'.data = stored.data /\ CosmosSkips(stored.kind, v, i))
      BY <3>1, <3>3 DEF CosmosSkips, C!Events
    <3>5. /\ CosmosDataOK(stored'.kind, stored'.data)
          /\ \A u \in Instances : \A c : CosmosWrittenCaller(stored, u, c) => CosmosWrittenCaller(stored', u, c)
          /\ \A x : CosmosWrittenRequest(stored, x) => CosmosWrittenRequest(stored', x)
      BY <1>2, <3>1, <3>3, <3>4, CosmosMore
    <3>6. QED  BY <1>2, <3>1, <3>5
  <2>2. CASE ~C!Matches(r)  BY <1>1, <1>2, <2>2
  <2>3. QED  BY <2>1, <2>2
<1>5. CosmosOnce'  BY <1>2, <1>4 DEF CosmosOnce
<1>6. CosmosTold'  BY <1>1 DEF CosmosWrittenInv, CosmosTold
<1>7. \A v \in Instances : CosmosWrittenCaller(stored', v, caller'[v])  BY <1>1, <1>4
<1>8. \A x \in wire'.late : CosmosWrittenRequest(stored', x)  BY <1>2, <1>3, <1>4
<1>9. QED  BY <1>2, <1>4, <1>5, <1>6, <1>7, <1>8 DEF CosmosWrittenInv

\* The other steps store nothing and answer nobody.
LEMMA CosmosWrittenLoads ==
    ASSUME CosmosWrittenInv, CosmosInv', NEW w \in CosmosCallers, C!Loads(w)
    PROVE  CosmosWrittenInv'
<1> DEFINE b == caller[w]
<1>1. /\ caller \in [CosmosCallers -> CosmosCaller] /\ b \in CosmosCaller /\ Instances \subseteq CosmosCallers
      /\ b.pc # "idle" /\ UNCHANGED <<stored, wire, told>>
  BY DEF CosmosWrittenInv, CosmosInv, CosmosCallers, C!Loads, C!ReadList, C!ReadBlob, C!Query
<1>2. \E c : /\ caller' = [caller EXCEPT ![w] = c]
             /\ c.input = b.input /\ c.mark = b.mark /\ (c.pc = "idle" => w = 0)
  <2>1. CASE C!ReadList(w)
    <3> DEFINE c == IF C!Events /\ C!Below(b.at) # {} THEN [b EXCEPT !.pc = "blob", !.sn = C!Max(C!Below(b.at))]
                                                      ELSE [b EXCEPT !.pc = "query", !.sn = 0, !.state = <<>>]
    <3>1. caller' = [caller EXCEPT ![w] = c]  BY <2>1 DEF C!ReadList, C!Caller
    <3>2. c.input = b.input /\ c.mark = b.mark /\ c.pc # "idle"  BY <1>1 DEF CosmosCaller
    <3> HIDE DEF c
    <3>3. QED  BY <3>1, <3>2
  <2>2. CASE C!ReadBlob(w)
    <3> DEFINE c == IF b.sn \in DOMAIN stored.blobs THEN [b EXCEPT !.pc = "query", !.state = stored.blobs[b.sn]]
                                                    ELSE [b EXCEPT !.pc = "query", !.sn = 0, !.state = <<>>]
    <3>1. caller' = [caller EXCEPT ![w] = c]  BY <2>2 DEF C!ReadBlob, C!Caller
    <3>2. c.input = b.input /\ c.mark = b.mark /\ c.pc # "idle"  BY <1>1 DEF CosmosCaller
    <3> HIDE DEF c
    <3>3. QED  BY <3>1, <3>2
  <2>3. CASE C!Query(w)
    <3>1. PICK state, sn :
            caller' = [caller EXCEPT ![w] = [b EXCEPT !.pc = IF w = 0 THEN "idle" ELSE "sink", !.state = state, !.sn = sn]]
      BY Zenon, <2>3 DEF C!Query, C!Caller, C!Reader
    <3> DEFINE c == [b EXCEPT !.pc = IF w = 0 THEN "idle" ELSE "sink", !.state = state, !.sn = sn]
    <3>2. caller' = [caller EXCEPT ![w] = c]  BY <3>1
    <3>3. c.input = b.input /\ c.mark = b.mark /\ (c.pc = "idle" => w = 0)  BY <1>1 DEF CosmosCaller
    <3> HIDE DEF c
    <3>4. QED  BY <3>2, <3>3
  <2>4. QED  BY <2>1, <2>2, <2>3 DEF C!Loads
<1>3. PICK c : /\ caller' = [caller EXCEPT ![w] = c]
               /\ c.input = b.input /\ c.mark = b.mark /\ (c.pc = "idle" => w = 0)
  BY <1>2
<1>6. \A v \in Instances : caller'[v] = IF v = w THEN c ELSE caller[v]  BY <1>1, <1>3
<1>7. 0 \notin Instances  BY InstancesAssumption
<1>8. \A v \in Instances :
        /\ caller'[v].input = caller[v].input /\ caller'[v].mark = caller[v].mark
        /\ caller'[v].pc = "idle" <=> caller[v].pc = "idle"
  BY <1>1, <1>3, <1>6, <1>7
<1>9. QED  BY <1>1, <1>8, CosmosWrittenKeeps

LEMMA CosmosWrittenOthers ==
    ASSUME CosmosWrittenInv, CosmosInv',
           C!ReadPast \/ C!Throttled \/ C!Crash \/ C!TakeSnapshot \/ C!ListRead \/ C!ListWritten
    PROVE  CosmosWrittenInv'
<1>1. /\ CosmosInv /\ caller \in [CosmosCallers -> CosmosCaller] /\ Instances \subseteq CosmosCallers
      /\ wire \in CosmosWire /\ stored \in CosmosStored
  <2>1. CosmosInv  BY DEF CosmosWrittenInv
  <2>2. caller \in [CosmosCallers -> CosmosCaller] /\ wire \in CosmosWire /\ CosmosStoreOK(stored)
    BY <2>1 DEF CosmosInv
  <2>3. stored \in CosmosStored  BY <2>2 DEF CosmosStoreOK
  <2>4. Instances \subseteq CosmosCallers  BY SMTT(30), CosmosCallersAre
  <2>5. QED  BY <2>1, <2>2, <2>3, <2>4
<1>2. told' = told  BY Zenon DEF C!ReadPast, C!Throttled, C!Crash, C!TakeSnapshot, C!ListRead, C!ListWritten
<1>3. stored'.data = stored.data /\ stored'.kind = stored.kind
  BY Zenon, <1>1 DEF C!ReadPast, C!Throttled, C!Crash, C!TakeSnapshot, C!ListRead, C!ListWritten, CosmosStored
<1>4. wire'.late = wire.late
  <2>1. CASE C!ReadPast \/ C!Throttled \/ C!Crash  BY Zenon, <2>1 DEF C!ReadPast, C!Throttled, C!Crash
  <2>2. CASE C!TakeSnapshot \/ C!ListRead \/ C!ListWritten
    <3>1. PICK x, j : C!Snap(x, j)  BY <2>2, ZenonT(30) DEF C!TakeSnapshot, C!ListRead, C!ListWritten
    <3>2. QED  BY <1>1, <3>1 DEF C!Snap, CosmosWire
  <2>3. QED  BY <2>1, <2>2
<1>5. ASSUME NEW v \in Instances
      PROVE  /\ caller'[v].input = caller[v].input
             /\ \/ caller'[v].mark = caller[v].mark /\ (caller'[v].pc = "idle" <=> caller[v].pc = "idle")
                \/ caller'[v].mark = -1 /\ caller'[v].pc = "idle"
  <2>1. CASE UNCHANGED caller  BY <2>1
  <2>2. CASE C!ReadPast
    <3>1. \E c : caller' = [caller EXCEPT ![0] = c]  BY Zenon, <2>2 DEF C!ReadPast, C!Caller, C!Reader
    <3>2. v # 0  BY InstancesAssumption
    <3>3. caller'[v] = caller[v]  BY <1>1, <3>1, <3>2
    <3>4. QED  BY <3>3
  <2>3. CASE C!Crash
    <3>1. PICK w \in Instances : caller' = [caller EXCEPT ![w] = C!Restarted(w)]
      BY <2>3 DEF C!Crash, C!Caller
    <3>2. QED  BY <1>1, <3>1, CosmosRestartedIs
  <2>4. CASE C!Throttled
    <3>1. PICK w \in Instances :
            \/ caller' = [caller EXCEPT ![w] = [caller[w] EXCEPT !.attempt = @ + 1]]
            \/ caller' = [caller EXCEPT ![w] = C!Restarted(w)]
      BY <2>4 DEF C!Throttled, C!Caller
    <3>2. CASE caller' = [caller EXCEPT ![w] = [caller[w] EXCEPT !.attempt = @ + 1]]
      <4> DEFINE c == [caller[w] EXCEPT !.attempt = @ + 1]
      <4>1. c.input = caller[w].input /\ c.mark = caller[w].mark /\ c.pc = caller[w].pc
        BY <1>1 DEF CosmosCaller
      <4>2. caller' = [caller EXCEPT ![w] = c]  BY <3>2
      <4> HIDE DEF c
      <4>3. caller'[v] = IF v = w THEN c ELSE caller[v]  BY <1>1, <4>2
      <4>4. QED  BY <4>1, <4>3
    <3>3. CASE caller' = [caller EXCEPT ![w] = C!Restarted(w)]
      BY <1>1, <3>3, CosmosRestartedIs
    <3>4. QED  BY <3>1, <3>2, <3>3
  <2>5. QED
    BY Zenon, <2>1, <2>2, <2>3, <2>4
       DEF C!TakeSnapshot, C!ListRead, C!ListWritten
<1>6. QED  BY <1>2, <1>3, <1>4, <1>5, CosmosWrittenKeeps

\* Both invariants hold at first,
LEMMA CosmosWrittenInit == ASSUME C!Init PROVE CosmosWrittenInv
<1>1. CosmosInv  BY CosmosInit
<1>2. stored.data = <<>> /\ wire.late = {}  BY DEF C!Init
<1>3. \A w \in Instances : caller[w].input = 1 /\ caller[w].pc = "idle" /\ caller[w].mark = -1
  BY DEF C!Init, C!NoSn
<1>4. \A w \in Instances : Outputs[w] \in Seq(Nat)  BY InstancesAssumption
<1>5. CosmosDataOK(stored.kind, stored.data)  BY <1>2 DEF CosmosDataOK
<1>6. \A w \in Instances : CosmosWrittenCaller(stored, w, caller[w])
  BY <1>3, <1>4 DEF CosmosWrittenCaller, CosmosWrittenBefore
<1>7. CosmosOnce  BY <1>2 DEF CosmosOnce, CosmosOnceCaller
<1>8. told = [w \in Instances |-> [i \in DOMAIN Outputs[w] |-> "no"]]  BY DEF C!Init, C!Inputs
<1>9. CosmosTold  BY <1>8 DEF CosmosTold
<1>10. QED  BY <1>1, <1>2, <1>5, <1>6, <1>7, <1>9 DEF CosmosWrittenInv

\* and every step keeps them.
LEMMA CosmosWrittenNext == ASSUME CosmosWrittenInv, C!Next PROVE CosmosWrittenInv'
<1>1. CosmosInv'  BY CosmosNextInv DEF CosmosWrittenInv
<1>2. Instances \subseteq CosmosCallers /\ 0 \in CosmosCallers  BY DEF CosmosCallers
<1>3. ASSUME NEW w \in CosmosCallers, C!Loads(w) PROVE CosmosWrittenInv'
  BY <1>1, <1>3, CosmosWrittenLoads
<1>4. ASSUME NEW w \in Instances, C!Progress(w) PROVE CosmosWrittenInv'
  BY <1>1, <1>2, <1>3, <1>4, CosmosWrittenIsDupe, CosmosWrittenSink DEF C!Progress
<1>5. QED
  BY <1>1, <1>2, <1>3, <1>4, CosmosWrittenLost, CosmosWrittenExecutedLate, CosmosWrittenOthers
     DEF C!Next, C!Reader

\* What an instance was told is written is there, whole and once.
LEMMA CosmosWrittenImplies == ASSUME CosmosWrittenInv PROVE C!OkIsStored /\ C!WholeInTime
<1>1. ASSUME NEW w \in Instances, NEW i \in DOMAIN Outputs[w], told[w][i] # "no"
      PROVE  C!Stored(w, i) \/ (~C!Events /\ C!Verified(w, i, "last"))
  <2>1. i < caller[w].input  BY <1>1 DEF CosmosWrittenInv, CosmosTold
  <2>2. Outputs[w] \in Seq(Nat) /\ caller[w].input \in Nat
    BY InstancesAssumption, CosmosTypes DEF CosmosWrittenInv, CosmosCallers
  <2>3. i \in 1..(caller[w].input - 1)  BY <2>1, <2>2
  <2>4. CosmosWritten(stored.kind, stored.data, w, i)
    BY <2>3 DEF CosmosWrittenInv, CosmosWrittenCaller, CosmosWrittenBefore
  <2>5. /\ DOMAIN C!Parts(w, i) = 1..Outputs[w][i]
        /\ \A n \in 1..Outputs[w][i] : C!Parts(w, i)[n] = <<w, i, n>>
    BY CosmosPartsProperties DEF C!Parts
  <2>6. stored.data \in Seq(CosmosPart)  BY CosmosTypes DEF CosmosWrittenInv, CosmosCallers, CosmosParts
  <2>7. \A p : CosmosHas(stored.data, p) => C!Contains(stored.data, p)
    BY <2>6 DEF CosmosHas, C!Contains
  <2>8. QED  BY <2>4, <2>5, <2>7 DEF C!Stored, CosmosWritten, CosmosSkips, C!Events
<1>2. C!OkIsStored  BY <1>1 DEF C!OkIsStored, C!Inputs
<1>3. C!WholeInTime
  <2>1. SUFFICES ASSUME ~C!Slow, C!Events, NEW m \in DOMAIN stored.data, NEW n \in DOMAIN stored.data
                 PROVE  C!Together(m, n)
    BY DEF C!WholeInTime, C!Whole
  <2>2. stored.kind = "events"  BY <2>1 DEF C!Slow, C!Events
  <2>3. CosmosTogether(stored.data, m, n)  BY <2>2 DEF CosmosWrittenInv, CosmosOnce
  <2>4. QED  BY <2>3, CosmosTogetherIs
<1>4. QED  BY <1>2, <1>3

-----------------------------------------------------------------------------
(* The upload in parts.  Until it ends, every part is in one place: still  *)
(* to be sent, under way or finished.                                      *)

UploadPart == 1..UploadParts
UploadSent == (Nat \ {0}) \X UploadPart
UploadCaller ==
    [pc : {"create", "send", "complete", "end"}, todo : Seq(UploadPart), counter : Nat,
     finished : Seq(UploadSent), tries : [UploadPart -> 0..(Retries + 1)], together : BOOLEAN]
UploadWire == [flight : SUBSET UploadSent, held : SUBSET UploadSent]

\* The counter counts the tries.
UploadTries(tries) == {x \in UploadPart \X (1..(Retries + 1)) : x[2] <= tries[x[1]]}
UploadTyped ==
    /\ stored \in Seq(UploadPart) /\ caller \in UploadCaller /\ wire \in UploadWire
    /\ caller.together \in SentTogether
    /\ told \in {"no", "ok", "failed"} /\ faults \in 0..MaxFaults
    /\ caller.counter = Cardinality(UploadTries(caller.tries))
    /\ \A r \in wire.flight \cup wire.held : r[1] <= caller.counter
    /\ \A i \in DOMAIN caller.finished : caller.finished[i][1] <= caller.counter

IsTodo(c, p) == \E i \in DOMAIN c.todo : c.todo[i] = p
IsSent(w, p) == \E r \in w.flight : r[2] = p
IsFinished(c, p) == \E i \in DOMAIN c.finished : c.finished[i][2] = p
UploadPlaces(c, w) ==
    /\ \A p \in UploadPart :
          /\ IsTodo(c, p) \/ IsSent(w, p) \/ IsFinished(c, p)
          /\ ~(IsTodo(c, p) /\ IsSent(w, p)) /\ ~(IsTodo(c, p) /\ IsFinished(c, p))
          /\ ~(IsSent(w, p) /\ IsFinished(c, p))
          /\ IsTodo(c, p) => c.tries[p] <= Retries
    /\ \A i, j \in DOMAIN c.todo : c.todo[i] = c.todo[j] => i = j
    /\ \A q, r \in w.flight : q[2] = r[2] => q = r
    /\ \A i, j \in DOMAIN c.finished : c.finished[i][2] = c.finished[j][2] => i = j
    /\ c.pc = "complete" => c.todo = <<>> /\ w.flight = {}

\* One after the other, they are finished in their order and so numbered.
UploadRest(c, n) ==
    /\ Len(c.todo) = UploadParts - n
    /\ \A i \in 1..(UploadParts - n) : c.todo[i] = n + i
UploadOrdered(c, w) ==
    /\ \A i \in DOMAIN c.finished : c.finished[i][2] = i
    /\ \A i, j \in DOMAIN c.finished : i < j => c.finished[i][1] < c.finished[j][1]
    /\ w.flight = {} => UploadRest(c, Len(c.finished))
    /\ \A r \in w.flight :
          /\ w.flight = {r} /\ r[2] = Len(c.finished) + 1 /\ UploadRest(c, Len(c.finished) + 1)
          /\ \A i \in DOMAIN c.finished : c.finished[i][1] < r[1]

UploadInv ==
    /\ UploadTyped
    /\ caller.pc # "end" => stored = <<>> /\ told = "no" /\ UploadPlaces(caller, wire)
    /\ caller.pc # "end" /\ ~caller.together => UploadOrdered(caller, wire)
    /\ U!OkIsStored /\ U!WholeObject

\* At first every part is still to be sent.
LEMMA UploadInit == ASSUME U!Init PROVE UploadInv
<1>0. UploadParts \in Nat \ {0} /\ Retries \in Nat /\ MaxFaults \in Nat  BY SizesAssumption
<1>1. PICK t \in SentTogether :
        caller = [pc |-> "create", todo |-> [i \in 1..UploadParts |-> i], counter |-> 0, finished |-> <<>>,
                  tries |-> [i \in 1..UploadParts |-> 0], together |-> t]
  BY DEF U!Init
<1>2. stored = <<>> /\ told = "no" /\ faults = 0 /\ wire = [flight |-> {}, held |-> {}]
  BY DEF U!Init
<1>3. /\ caller.pc = "create" /\ caller.todo = [i \in 1..UploadParts |-> i] /\ caller.counter = 0
      /\ caller.finished = <<>> /\ caller.tries = [i \in 1..UploadParts |-> 0] /\ caller.together = t
      /\ wire.flight = {} /\ wire.held = {} /\ t \in BOOLEAN
  BY <1>1, <1>2, AdaptersAssumption
<1>4. caller.todo \in Seq(UploadPart) /\ Len(caller.todo) = UploadParts /\ DOMAIN caller.todo = UploadPart
  BY <1>0, <1>3 DEF UploadPart
<1>5. caller \in UploadCaller
  BY <1>0, <1>1, <1>3, <1>4 DEF UploadCaller, UploadPart
<1>6. UploadTries(caller.tries) = {}  BY <1>0, <1>3 DEF UploadTries, UploadPart
<1>11. caller.counter = Cardinality(UploadTries(caller.tries))  BY <1>3, <1>6, FS_EmptySet
<1>12. DOMAIN caller.finished = {} /\ stored \in Seq(UploadPart)  BY <1>2, <1>3
<1>13. wire \in UploadWire  BY <1>2 DEF UploadWire
<1>7. UploadTyped  BY <1>0, <1>2, <1>3, <1>5, <1>11, <1>12, <1>13 DEF UploadTyped
<1>8. UploadPlaces(caller, wire)
  BY <1>0, <1>3, <1>4 DEF UploadPlaces, IsTodo, IsSent, IsFinished, UploadPart
<1>9. UploadOrdered(caller, wire)  BY <1>0, <1>3, <1>4 DEF UploadOrdered, UploadRest, UploadPart
<1>10. QED  BY <1>2, <1>3, <1>7, <1>8, <1>9 DEF UploadInv, U!OkIsStored, U!WholeObject

\* The tries are finitely many, and one more adds one.
LEMMA UploadTriesProperties ==
    ASSUME NEW f \in [UploadPart -> 0..(Retries + 1)]
    PROVE  /\ IsFiniteSet(UploadTries(f)) /\ Cardinality(UploadTries(f)) \in 0..(UploadParts * (Retries + 1))
           /\ \A p \in UploadPart : f[p] <= Retries =>
                Cardinality(UploadTries([f EXCEPT ![p] = @ + 1])) = Cardinality(UploadTries(f)) + 1
<1>0. UploadParts \in Nat \ {0} /\ Retries \in Nat  BY SizesAssumption
<1>1. /\ IsFiniteSet(UploadPart \X (1..(Retries + 1)))
      /\ Cardinality(UploadPart \X (1..(Retries + 1))) = UploadParts * (Retries + 1)
  <2>1. \A n \in Nat : IsFiniteSet(1..n) /\ Cardinality(1..n) = n  BY FS_Interval
  <2>2. /\ IsFiniteSet(UploadPart) /\ Cardinality(UploadPart) = UploadParts
        /\ IsFiniteSet(1..(Retries + 1)) /\ Cardinality(1..(Retries + 1)) = Retries + 1
    BY <1>0, <2>1 DEF UploadPart
  <2>3. QED  BY <2>2, FS_Product
<1>2. /\ IsFiniteSet(UploadTries(f))
      /\ Cardinality(UploadTries(f)) <= UploadParts * (Retries + 1)
  <2>1. UploadTries(f) \in SUBSET (UploadPart \X (1..(Retries + 1)))  BY DEF UploadTries
  <2>2. IsFiniteSet(UploadTries(f)) /\ Cardinality(UploadTries(f)) <= Cardinality(UploadPart \X (1..(Retries + 1)))
    BY <1>1, <2>1, FS_Subset
  <2>3. QED  BY <1>1, <2>2
<1>3. Cardinality(UploadTries(f)) \in Nat  BY <1>2, FS_CardinalityType
<1>4. ASSUME NEW p \in UploadPart, f[p] <= Retries
      PROVE  Cardinality(UploadTries([f EXCEPT ![p] = @ + 1])) = Cardinality(UploadTries(f)) + 1
  <2>1. f[p] \in Nat /\ f[p] + 1 \in 1..(Retries + 1)  BY <1>0, <1>4
  <2> DEFINE g == [f EXCEPT ![p] = @ + 1]
  <2>2. /\ \A q \in UploadPart : g[q] = IF q = p THEN f[p] + 1 ELSE f[q]
        /\ \A q \in UploadPart : f[q] \in Nat
    BY <1>0
  <2> HIDE DEF g
  <2>3. UploadTries(g) = UploadTries(f) \cup {<<p, f[p] + 1>>}
    <3>1. \A q \in UploadPart, n \in 1..(Retries + 1) :
            <<q, n>> \in UploadTries(g) <=> <<q, n>> \in UploadTries(f) \/ (q = p /\ n = f[p] + 1)
      <4>1. \A q \in UploadPart, n \in 1..(Retries + 1) :
              n <= g[q] <=> n <= f[q] \/ (q = p /\ n = f[p] + 1)
        BY <1>0, <2>1, <2>2
      <4>2. QED  BY <4>1 DEF UploadTries
    <3>2. QED  BY <2>1, <3>1 DEF UploadTries
  <2>4. <<p, f[p] + 1>> \notin UploadTries(f)  BY <2>1 DEF UploadTries
  <2>5. QED  BY <1>2, <2>3, <2>4, FS_AddElement DEF g
<1>5. QED  BY <1>0, <1>2, <1>3, <1>4

\* An upload that is given up stored nothing, and a request failed.
LEMMA UploadGivesUp ==
    ASSUME UploadInv, caller.pc # "end", U!Fault, U!Ends("failed"), UNCHANGED stored,
           wire' \in UploadWire, \A r \in wire'.flight \cup wire'.held : r[1] <= caller.counter
    PROVE  UploadInv'
<1>0. MaxFaults \in Nat  BY SizesAssumption
<1>1. /\ stored \in Seq(UploadPart) /\ caller \in UploadCaller /\ caller.together \in SentTogether
      /\ faults \in 0..MaxFaults /\ stored = <<>>
      /\ caller.counter = Cardinality(UploadTries(caller.tries))
      /\ \A i \in DOMAIN caller.finished : caller.finished[i][1] <= caller.counter
  BY DEF UploadInv, UploadTyped
<1>2. /\ caller' = [caller EXCEPT !.pc = "end"] /\ told' = "failed" /\ stored' = <<>>
      /\ faults' \in 1..MaxFaults
  BY <1>0, <1>1 DEF U!Ends, U!Fault
<1>3. /\ caller' \in UploadCaller /\ caller'.pc = "end" /\ caller'.together = caller.together
      /\ caller'.counter = caller.counter /\ caller'.tries = caller.tries
      /\ caller'.finished = caller.finished
  BY <1>1, <1>2 DEF UploadCaller
<1>4. UploadTyped'  BY <1>0, <1>1, <1>2, <1>3 DEF UploadTyped, UploadTries
<1>5. QED  BY <1>2, <1>3, <1>4 DEF UploadInv, U!OkIsStored, U!WholeObject

LEMMA UploadCreate == ASSUME UploadInv, U!Create PROVE UploadInv'
<1>1. caller.pc = "create" /\ UNCHANGED <<stored, wire>>  BY DEF U!Create
<1>2. CASE U!Fault /\ U!Ends("failed")
  BY <1>1, <1>2, UploadGivesUp DEF UploadInv, UploadTyped
<1>3. CASE U!NoFault /\ caller' = [caller EXCEPT !.pc = "send"] /\ UNCHANGED told
  <2>1. caller \in UploadCaller  BY DEF UploadInv, UploadTyped
  <2>2. /\ caller' \in UploadCaller /\ caller'.pc = "send" /\ caller'.together = caller.together
        /\ caller'.counter = caller.counter /\ caller'.tries = caller.tries
        /\ caller'.finished = caller.finished /\ caller'.todo = caller.todo
    BY <1>3, <2>1 DEF UploadCaller
  <2>3. UNCHANGED <<stored, wire, told, faults>>  BY <1>1, <1>3 DEF U!NoFault
  <2>4. UploadTyped'  BY <2>2, <2>3 DEF UploadInv, UploadTyped
  <2>5. UploadPlaces(caller, wire)'
    BY <1>1, <2>2, <2>3 DEF UploadInv, UploadPlaces, IsTodo, IsSent, IsFinished
  <2>6. ~caller.together => UploadOrdered(caller, wire)'
    BY <1>1, <2>2, <2>3 DEF UploadInv, UploadOrdered, UploadRest
  <2>7. stored' = <<>> /\ told' = "no"  BY <1>1, <2>3 DEF UploadInv
  <2>8. QED  BY <2>2, <2>4, <2>5, <2>6, <2>7 DEF UploadInv, U!OkIsStored, U!WholeObject
<1>4. QED  BY <1>2, <1>3 DEF U!Create

\* What is typed, for the steps.
LEMMA UploadTypes ==
    ASSUME UploadInv
    PROVE  /\ UploadParts \in Nat \ {0} /\ Retries \in Nat /\ MaxFaults \in Nat
           /\ stored \in Seq(UploadPart) /\ caller \in UploadCaller /\ wire \in UploadWire
           /\ caller.todo \in Seq(UploadPart) /\ Len(caller.todo) \in Nat
           /\ DOMAIN caller.todo = 1..Len(caller.todo)
           /\ caller.finished \in Seq(UploadSent) /\ Len(caller.finished) \in Nat
           /\ DOMAIN caller.finished = 1..Len(caller.finished)
           /\ caller.counter \in Nat /\ caller.tries \in [UploadPart -> 0..(Retries + 1)]
           /\ caller.together \in SentTogether /\ caller.together \in BOOLEAN
           /\ wire.flight \subseteq UploadSent /\ wire.held \subseteq UploadSent
           /\ faults \in 0..MaxFaults
           /\ caller.counter = Cardinality(UploadTries(caller.tries))
<1>1. stored \in Seq(UploadPart) /\ caller \in UploadCaller /\ wire \in UploadWire /\ faults \in 0..MaxFaults
      /\ caller.counter = Cardinality(UploadTries(caller.tries)) /\ caller.together \in SentTogether
  BY DEF UploadInv, UploadTyped
<1>2. UploadParts \in Nat \ {0} /\ Retries \in Nat /\ MaxFaults \in Nat  BY SizesAssumption
<1>3. /\ caller.todo \in Seq(UploadPart) /\ caller.finished \in Seq(UploadSent) /\ caller.counter \in Nat
      /\ caller.tries \in [UploadPart -> 0..(Retries + 1)] /\ caller.together \in BOOLEAN
  BY <1>1 DEF UploadCaller
<1>4. wire.flight \subseteq UploadSent /\ wire.held \subseteq UploadSent  BY <1>1 DEF UploadWire
<1>5. QED  BY <1>1, <1>2, <1>3, <1>4

\* The numbers among them.
LEMMA UploadNumbers ==
    ASSUME UploadInv
    PROVE  /\ UploadParts \in Nat \ {0} /\ Retries \in Nat /\ caller.counter \in Nat
           /\ DOMAIN caller.todo = 1..Len(caller.todo) /\ Len(caller.todo) \in Nat
           /\ DOMAIN caller.finished = 1..Len(caller.finished) /\ Len(caller.finished) \in Nat
           /\ caller.tries \in [UploadPart -> 0..(Retries + 1)]
BY UploadTypes

\* A step before the end keeps the invariant if it keeps the places.
LEMMA UploadGoesOn ==
    ASSUME UploadInv, UploadTyped', caller.pc # "end", UNCHANGED <<stored, told>>,
           caller'.together = caller.together, UploadPlaces(caller, wire)',
           ~caller.together => UploadOrdered(caller, wire)'
    PROVE  UploadInv'
<1>1. stored' = <<>> /\ told' = "no"  BY DEF UploadInv
<1>2. QED  BY <1>1 DEF UploadInv, U!OkIsStored, U!WholeObject

LEMMA UploadSend == ASSUME UploadInv, U!Send PROVE UploadInv'
<1> DEFINE h == Head(caller.todo)
           n == caller.counter + 1
<1>1. /\ caller.pc = "send" /\ caller.todo # <<>> /\ (caller.together \/ wire.flight = {})
      /\ caller' = [caller EXCEPT !.counter = n, !.todo = Tail(caller.todo),
                                  !.tries = [caller.tries EXCEPT ![h] = @ + 1]]
      /\ wire' = [wire EXCEPT !.flight = @ \cup {<<n, h>>}]
      /\ UNCHANGED <<stored, told, faults>>
  BY UploadTypes DEF U!Send, UploadCaller
<1>2. /\ h \in UploadPart /\ Tail(caller.todo) \in Seq(UploadPart)
      /\ Len(Tail(caller.todo)) = Len(caller.todo) - 1 /\ Len(caller.todo) \in Nat \ {0}
      /\ \A i \in 1..(Len(caller.todo) - 1) : Tail(caller.todo)[i] = caller.todo[i + 1]
      /\ h = caller.todo[1]
  BY <1>1, UploadTypes, HeadTailProperties, EmptySeq
<1>3. UploadPlaces(caller, wire)  BY <1>1 DEF UploadInv
<1>4. IsTodo(caller, h)
  <2>1. 1 \in DOMAIN caller.todo  BY <1>2, UploadTypes
  <2>2. QED  BY <1>2, <2>1 DEF IsTodo
<1>5. caller.tries[h] <= Retries /\ ~IsSent(wire, h) /\ ~IsFinished(caller, h)
  BY <1>2, <1>3, <1>4 DEF UploadPlaces
<1> DEFINE tries == [caller.tries EXCEPT ![h] = @ + 1]
<1>6. tries \in [UploadPart -> 0..(Retries + 1)]
  <2>1. caller.tries[h] \in 0..(Retries + 1) /\ Retries \in Nat  BY <1>2, UploadNumbers
  <2>2. caller.tries[h] + 1 \in 0..(Retries + 1)  BY <1>5, <2>1
  <2>3. QED  BY <1>2, <2>2, UploadNumbers
<1>7. Cardinality(UploadTries(tries)) = n  BY <1>2, <1>5, UploadTypes, UploadTriesProperties
<1>8. <<n, h>> \in UploadSent /\ n \in Nat \ {0}
  <2>1. caller.counter \in Nat  BY UploadTypes
  <2>2. n \in Nat \ {0}  BY <2>1
  <2>3. QED  BY <1>2, <2>2 DEF UploadSent
<1>13. \A p \in UploadPart : p # h => tries[p] = caller.tries[p]  BY <1>2, UploadTypes
<1> HIDE DEF h, n, tries
<1>9. /\ caller' \in UploadCaller /\ caller'.pc = "send" /\ caller'.todo = Tail(caller.todo)
      /\ caller'.counter = n /\ caller'.tries = tries /\ caller'.finished = caller.finished
      /\ caller'.together = caller.together
  BY <1>1, <1>2, <1>6, <1>8, UploadTypes DEF UploadCaller, tries
<1>10. wire' \in UploadWire /\ wire'.flight = wire.flight \cup {<<n, h>>} /\ wire'.held = wire.held
  BY <1>1, <1>8, UploadTypes DEF UploadWire
<1>11. UploadTyped'
  <2>1. \A r \in wire.flight \cup wire.held : r[1] \in Nat /\ r[1] <= caller.counter
    BY UploadTypes DEF UploadInv, UploadTyped, UploadSent
  <2>2. \A i \in DOMAIN caller.finished : caller.finished[i][1] \in Nat /\ caller.finished[i][1] <= caller.counter
    <3>1. \A i \in DOMAIN caller.finished : caller.finished[i] \in UploadSent  BY UploadTypes
    <3>2. QED  BY <3>1 DEF UploadInv, UploadTyped, UploadSent
  <2>3. \A m \in Nat : m <= caller.counter => m <= n  BY UploadTypes DEF n
  <2>6. n <= n  BY <1>8
  <2>4. \A r \in wire'.flight \cup wire'.held : r[1] <= caller'.counter  BY <1>8, <1>9, <1>10, <2>1, <2>3, <2>6
  <2>5. QED  BY <1>1, <1>7, <1>9, <1>10, <2>2, <2>3, <2>4 DEF UploadInv, UploadTyped
<1>12. UploadPlaces(caller, wire)'
  <2>1. \A i \in DOMAIN caller'.todo : i + 1 \in DOMAIN caller.todo /\ caller'.todo[i] = caller.todo[i + 1]
    <3>1. DOMAIN caller'.todo = 1..(Len(caller.todo) - 1)  BY <1>2, <1>9
    <3>2. DOMAIN caller.todo = 1..Len(caller.todo)  BY UploadNumbers
    <3>3. \A i \in 1..(Len(caller.todo) - 1) : i + 1 \in 1..Len(caller.todo)  BY <1>2
    <3>4. QED  BY <1>2, <1>9, <3>1, <3>2, <3>3
  <2>2. \A p \in UploadPart : IsTodo(caller', p) <=> (IsTodo(caller, p) /\ p # h)
    <3>1. ASSUME NEW i \in DOMAIN caller'.todo PROVE caller'.todo[i] # h
      <4>0. i \in 1..(Len(caller.todo) - 1) /\ DOMAIN caller.todo = 1..Len(caller.todo)
        BY <1>2, <1>9, UploadNumbers
      <4>1. i + 1 # 1 /\ 1 \in DOMAIN caller.todo  BY <1>2, <4>0
      <4>2. QED  BY <1>2, <1>3, <2>1, <4>1 DEF UploadPlaces
    <3>2. ASSUME NEW i \in DOMAIN caller.todo, caller.todo[i] # h
          PROVE  i - 1 \in DOMAIN caller'.todo /\ caller'.todo[i - 1] = caller.todo[i]
      <4>1. i # 1 /\ i \in 1..Len(caller.todo)  BY <1>2, <3>2, UploadTypes
      <4>2. i - 1 \in 1..(Len(caller.todo) - 1)  BY <1>2, <4>1
      <4>3. DOMAIN caller'.todo = 1..(Len(caller.todo) - 1)  BY <1>2, <1>9
      <4>4. caller'.todo[i - 1] = caller.todo[(i - 1) + 1]  BY <1>2, <1>9, <4>2
      <4>5. (i - 1) + 1 = i  BY <4>1
      <4>6. QED  BY <4>2, <4>3, <4>4, <4>5
    <3>3. QED  BY <2>1, <3>1, <3>2 DEF IsTodo
  <2>10. <<n, h>>[2] = h /\ <<n, h>> \in wire'.flight /\ wire.flight \subseteq wire'.flight  BY <1>10
  <2>11. \A r \in wire'.flight : r \in wire.flight \/ r[2] = h  BY <1>10
  <2>3. \A p \in UploadPart : IsSent(wire', p) <=> (IsSent(wire, p) \/ p = h)
    BY <2>10, <2>11 DEF IsSent
  <2>4. \A p \in UploadPart : IsFinished(caller', p) <=> IsFinished(caller, p)  BY <1>9 DEF IsFinished
  <2>5. \A i, j \in DOMAIN caller'.todo : caller'.todo[i] = caller'.todo[j] => i = j
    <3>1. \A i, j \in DOMAIN caller'.todo : i \in Int /\ j \in Int  BY <1>2, <1>9
    <3>2. \A i, j \in DOMAIN caller'.todo : caller'.todo[i] = caller'.todo[j] => i + 1 = j + 1
      BY <1>3, <2>1 DEF UploadPlaces
    <3>3. QED  BY <3>1, <3>2
  <2>6. \A q, r \in wire'.flight : q[2] = r[2] => q = r
    <3>1. \A r \in wire.flight : r[2] # h  BY <1>5 DEF IsSent
    <3>2. QED  BY <1>3, <1>10, <3>1 DEF UploadPlaces
  <2>7. \A p \in UploadPart : IsTodo(caller', p) => caller'.tries[p] <= Retries
    BY <1>3, <1>9, <1>13, <2>2 DEF UploadPlaces
  <2>8. \A p \in UploadPart :
          /\ IsTodo(caller', p) \/ IsSent(wire', p) \/ IsFinished(caller', p)
          /\ ~(IsTodo(caller', p) /\ IsSent(wire', p)) /\ ~(IsTodo(caller', p) /\ IsFinished(caller', p))
          /\ ~(IsSent(wire', p) /\ IsFinished(caller', p))
    BY <1>3, <1>5, <2>2, <2>3, <2>4 DEF UploadPlaces
  <2>9. QED  BY <1>3, <1>9, <2>5, <2>6, <2>7, <2>8 DEF UploadPlaces
<1>14. ASSUME ~caller.together PROVE UploadOrdered(caller, wire)'
  <2>1. UploadOrdered(caller, wire) /\ wire.flight = {}  BY <1>1, <1>14 DEF UploadInv
  <2>2. UploadRest(caller, Len(caller.finished))  BY <2>1 DEF UploadOrdered
  <2>3. h = Len(caller.finished) + 1  BY <1>2, <2>2, UploadTypes DEF UploadRest
  <2>4. UploadRest(caller', Len(caller.finished) + 1)
    <3>1. Len(caller'.todo) = UploadParts - (Len(caller.finished) + 1)
      BY <1>2, <1>9, <2>2, UploadTypes DEF UploadRest
    <3>2. ASSUME NEW i \in 1..(UploadParts - (Len(caller.finished) + 1))
          PROVE  caller'.todo[i] = (Len(caller.finished) + 1) + i
      <4>1. i \in 1..(Len(caller.todo) - 1) /\ i + 1 \in 1..(UploadParts - Len(caller.finished))
        <5>1. Len(caller.todo) = UploadParts - Len(caller.finished)  BY <2>2 DEF UploadRest
        <5>2. UploadParts \in Nat /\ Len(caller.finished) \in Nat  BY UploadNumbers
        <5>3. QED  BY <5>1, <5>2
      <4>2. caller'.todo[i] = caller.todo[i + 1]  BY <1>2, <1>9, <4>1
      <4>3. caller.todo[i + 1] = Len(caller.finished) + (i + 1)  BY <2>2, <4>1 DEF UploadRest
      <4>4. \A k \in Nat : k + (i + 1) = (k + 1) + i  BY <4>1
      <4>5. QED  BY <4>2, <4>3, <4>4, UploadTypes
    <3>3. QED  BY <3>1, <3>2 DEF UploadRest
  <2>5. wire'.flight = {<<n, h>>}  BY <1>10, <2>1
  <2>6. \A i \in DOMAIN caller.finished : caller.finished[i][1] < n
    <3>1. \A i \in DOMAIN caller.finished : caller.finished[i] \in UploadSent  BY UploadTypes
    <3>2. \A i \in DOMAIN caller.finished : caller.finished[i][1] \in Nat /\ caller.finished[i][1] <= caller.counter
      BY <3>1 DEF UploadInv, UploadTyped, UploadSent
    <3>3. \A m \in Nat : m <= caller.counter => m < n  BY UploadTypes DEF n
    <3>4. QED  BY <3>2, <3>3
  <2>7. /\ \A i \in DOMAIN caller'.finished : caller'.finished[i][2] = i
        /\ \A i, j \in DOMAIN caller'.finished : i < j => caller'.finished[i][1] < caller'.finished[j][1]
    BY <1>9, <2>1 DEF UploadOrdered
  <2>8. \A r \in wire'.flight : r = <<n, h>> /\ r[1] = n /\ r[2] = h  BY <2>5
  <2>9. wire'.flight # {}  BY <2>5
  <2>10. caller'.finished = caller.finished  BY <1>9
  <2>11. ASSUME NEW r \in wire'.flight
         PROVE  /\ wire'.flight = {r} /\ r[2] = Len(caller'.finished) + 1
                /\ UploadRest(caller', Len(caller'.finished) + 1)
                /\ \A i \in DOMAIN caller'.finished : caller'.finished[i][1] < r[1]
    BY <2>3, <2>4, <2>5, <2>6, <2>8, <2>10
  <2>12. QED  BY <2>7, <2>9, <2>11 DEF UploadOrdered
<1>15. QED  BY <1>1, <1>9, <1>11, <1>12, <1>14, UploadGoesOn

LEMMA UploadReturns == ASSUME UploadInv, U!Returns PROVE UploadInv'
<1>1. PICK r \in wire.flight :
        /\ caller.pc = "send" /\ wire' = [flight |-> wire.flight \ {r}, held |-> wire.held \cup {r}]
        /\ caller' = [caller EXCEPT !.finished = Append(@, r)]
        /\ UNCHANGED <<stored, told, faults>>
  BY DEF U!Returns, U!Hold, U!NoFault
<1> DEFINE f == caller.finished
           k == Len(caller.finished)
<1>2. r \in UploadSent /\ f \in Seq(UploadSent) /\ k \in Nat /\ DOMAIN f = 1..k  BY UploadTypes
<1>3. /\ Append(f, r) \in Seq(UploadSent) /\ Len(Append(f, r)) = k + 1
      /\ \A i \in 1..k : Append(f, r)[i] = f[i]
      /\ Append(f, r)[k + 1] = r
  BY <1>2, AppendProperties
<1> HIDE DEF f, k
<1>4. /\ caller' \in UploadCaller /\ caller'.pc = "send" /\ caller'.todo = caller.todo
      /\ caller'.counter = caller.counter /\ caller'.tries = caller.tries
      /\ caller'.finished = Append(f, r) /\ caller'.together = caller.together
  BY <1>1, <1>3, UploadTypes DEF UploadCaller, f
<1>5. wire' \in UploadWire /\ wire'.flight = wire.flight \ {r} /\ wire'.held = wire.held \cup {r}
  BY <1>1, <1>2, UploadTypes DEF UploadWire
<1>6. UploadPlaces(caller, wire)  BY <1>1 DEF UploadInv
<1>7. /\ DOMAIN caller'.finished = 1..(k + 1)
      /\ \A i \in 1..k : caller'.finished[i] = f[i]
      /\ caller'.finished[k + 1] = r /\ k + 1 \in 1..(k + 1) /\ 1..k \subseteq 1..(k + 1)
      /\ \A i \in 1..(k + 1) : i \in 1..k \/ i = k + 1
  BY <1>2, <1>3, <1>4
<1>8. UploadTyped'
  <2>1. \A q \in wire.flight \cup wire.held : q[1] <= caller.counter  BY DEF UploadInv, UploadTyped
  <2>2. \A i \in 1..k : f[i][1] <= caller.counter  BY <1>2 DEF UploadInv, UploadTyped, f
  <2>3. \A i \in DOMAIN caller'.finished : caller'.finished[i][1] <= caller'.counter
    BY <1>4, <1>7, <2>1, <2>2
  <2>4. \A q \in wire'.flight \cup wire'.held : q[1] <= caller'.counter  BY <1>4, <1>5, <2>1
  <2>5. QED  BY <1>1, <1>4, <1>5, <2>3, <2>4 DEF UploadInv, UploadTyped
<1>9. UploadPlaces(caller, wire)'
  <2>1. r[2] \in UploadPart /\ IsSent(wire, r[2])  BY <1>2 DEF UploadSent, IsSent
  <2>2. ~IsFinished(caller, r[2]) /\ ~IsTodo(caller, r[2])  BY <1>6, <2>1 DEF UploadPlaces
  <2>3. \A p \in UploadPart : IsTodo(caller', p) <=> IsTodo(caller, p)  BY <1>4 DEF IsTodo
  <2>4. \A p \in UploadPart : IsSent(wire', p) <=> (IsSent(wire, p) /\ p # r[2])
    <3>1. \A q \in wire.flight : q[2] = r[2] => q = r  BY <1>6 DEF UploadPlaces
    <3>2. QED  BY <1>5, <3>1 DEF IsSent
  <2>5. \A p \in UploadPart : IsFinished(caller', p) <=> (IsFinished(caller, p) \/ p = r[2])
    <3>1. ASSUME NEW p \in UploadPart, IsFinished(caller, p) PROVE IsFinished(caller', p)
      <4>1. PICK i \in 1..k : f[i][2] = p  BY <1>2, <3>1 DEF IsFinished, f
      <4>2. i \in DOMAIN caller'.finished /\ caller'.finished[i][2] = p  BY <1>7, <4>1
      <4>3. QED  BY <4>2 DEF IsFinished
    <3>2. IsFinished(caller', r[2])  BY <1>7 DEF IsFinished
    <3>3. ASSUME NEW p \in UploadPart, NEW i \in DOMAIN caller'.finished, caller'.finished[i][2] = p, p # r[2]
          PROVE  IsFinished(caller, p)
      <4>1. i \in 1..k /\ f[i][2] = p  BY <1>7, <3>3
      <4>2. QED  BY <1>2, <4>1 DEF IsFinished, f
    <3>4. QED  BY <3>1, <3>2, <3>3 DEF IsFinished
  <2>6. \A i, j \in DOMAIN caller'.finished : caller'.finished[i][2] = caller'.finished[j][2] => i = j
    <3>1. \A i \in 1..k : f[i][2] # r[2]  BY <1>2, <2>2 DEF IsFinished, f
    <3>2. \A i, j \in 1..k : f[i][2] = f[j][2] => i = j  BY <1>2, <1>6 DEF UploadPlaces, f
    <3>3. QED  BY <1>7, <3>1, <3>2
  <2>7. \A p \in UploadPart :
          /\ IsTodo(caller', p) \/ IsSent(wire', p) \/ IsFinished(caller', p)
          /\ ~(IsTodo(caller', p) /\ IsSent(wire', p)) /\ ~(IsTodo(caller', p) /\ IsFinished(caller', p))
          /\ ~(IsSent(wire', p) /\ IsFinished(caller', p))
          /\ IsTodo(caller', p) => caller'.tries[p] <= Retries
    BY <1>4, <1>6, <2>2, <2>3, <2>4, <2>5 DEF UploadPlaces
  <2>8. QED  BY <1>4, <1>5, <1>6, <2>6, <2>7 DEF UploadPlaces
<1>10. ASSUME ~caller.together PROVE UploadOrdered(caller, wire)'
  <2>1. UploadOrdered(caller, wire)  BY <1>1, <1>10 DEF UploadInv
  <2>2. /\ wire.flight = {r} /\ r[2] = k + 1 /\ UploadRest(caller, k + 1)
        /\ \A i \in 1..k : f[i][1] < r[1]
    BY <1>2, <2>1 DEF UploadOrdered, f, k
  <2>3. wire'.flight = {} /\ UploadRest(caller', k + 1) /\ Len(caller'.finished) = k + 1
    BY <1>3, <1>4, <1>5, <2>2 DEF UploadRest
  <2>4. \A i \in DOMAIN caller'.finished : caller'.finished[i][2] = i
    <3>1. \A i \in 1..k : f[i][2] = i  BY <1>2, <2>1 DEF UploadOrdered, f
    <3>2. QED  BY <1>7, <2>2, <3>1
  <2>5. ASSUME NEW i \in 1..(k + 1), NEW j \in 1..(k + 1), i < j
        PROVE  caller'.finished[i][1] < caller'.finished[j][1]
    <3>1. i \in 1..k  BY <1>2, <2>5
    <3>2. CASE j = k + 1  BY <1>7, <2>2, <3>1, <3>2
    <3>3. CASE j # k + 1
      <4>1. j \in 1..k  BY <1>7, <3>3
      <4>2. f[i][1] < f[j][1]  BY <1>2, <2>1, <2>5, <3>1, <4>1 DEF UploadOrdered, f
      <4>3. QED  BY <1>7, <3>1, <4>1, <4>2
    <3>4. QED  BY <3>2, <3>3
  <2>6. QED  BY <1>7, <2>3, <2>4, <2>5 DEF UploadOrdered
<1>11. QED  BY <1>1, <1>4, <1>8, <1>9, <1>10, UploadGoesOn

LEMMA UploadFails == ASSUME UploadInv, U!Fails PROVE UploadInv'
<1>1. PICK r \in wire.flight :
        /\ caller.pc = "send" /\ U!Fault /\ UNCHANGED stored
        /\ \/ wire' = [flight |-> wire.flight \ {r}, held |-> wire.held \cup {r}]
           \/ wire' = [wire EXCEPT !.flight = @ \ {r}]
        /\ IF caller.tries[r[2]] <= Retries
             THEN caller' = [caller EXCEPT !.todo = <<r[2]>> \o @] /\ UNCHANGED told
             ELSE U!Ends("failed")
  BY DEF U!Fails, U!Hold
<1>2. r \in UploadSent /\ r[2] \in UploadPart  BY UploadTypes DEF UploadSent
<1>3. /\ wire' \in UploadWire /\ wire'.flight = wire.flight \ {r}
      /\ wire'.held \in {wire.held, wire.held \cup {r}}
  <2>1. wire \in UploadWire  BY UploadTypes
  <2>2. QED  BY <1>1, <1>2, <2>1 DEF UploadWire
<1>4. \A q \in wire.flight \cup wire.held : q[1] <= caller.counter  BY DEF UploadInv, UploadTyped
<1>5. \A q \in wire'.flight \cup wire'.held : q[1] <= caller.counter
  <2>1. wire'.flight \cup wire'.held \subseteq wire.flight \cup wire.held  BY <1>3
  <2>2. QED  BY <1>4, <2>1
<1>6. CASE ~(caller.tries[r[2]] <= Retries)  BY <1>1, <1>3, <1>5, <1>6, UploadGivesUp
<1>7. CASE caller.tries[r[2]] <= Retries
  <2> DEFINE t == caller.todo
             n == Len(caller.todo)
             s == <<r[2]>> \o t
  <2>1. t \in Seq(UploadPart) /\ n \in Nat /\ DOMAIN t = 1..n  BY UploadTypes
  <2>2. /\ s \in Seq(UploadPart) /\ Len(s) = n + 1 /\ DOMAIN s = 1..(n + 1)
        /\ s[1] = r[2] /\ \A i \in 1..n : s[i + 1] = t[i]
    <3>1. <<r[2]>> \in Seq(UploadPart) /\ Len(<<r[2]>>) = 1 /\ <<r[2]>>[1] = r[2]  BY <1>2
    <3> DEFINE u == <<r[2]>>
    <3> HIDE DEF u, t
    <3>2. /\ u \o t \in Seq(UploadPart) /\ Len(u \o t) = Len(u) + Len(t) /\ DOMAIN (u \o t) = 1..(Len(u) + Len(t))
          /\ \A j \in 1..(Len(u) + Len(t)) : (u \o t)[j] = IF j <= Len(u) THEN u[j] ELSE t[j - Len(u)]
      BY <2>1, <3>1, ConcatElements DEF u
    <3>3. Len(u) = 1 /\ u[1] = r[2] /\ Len(t) = n  BY <3>1 DEF u, t
    <3>4. Len(u \o t) = n + 1 /\ DOMAIN (u \o t) = 1..(n + 1)  BY <2>1, <3>2, <3>3
    <3>5. \A j \in 1..(n + 1) : (u \o t)[j] = IF j <= 1 THEN u[j] ELSE t[j - 1]
      BY <2>1, <3>2, <3>3
    <3>6. (u \o t)[1] = r[2]  BY <2>1, <3>3, <3>5
    <3>7. ASSUME NEW i \in 1..n PROVE (u \o t)[i + 1] = t[i]
      <4>1. i + 1 \in 1..(n + 1) /\ ~(i + 1 <= 1) /\ (i + 1) - 1 = i  BY <2>1
      <4>2. QED  BY <3>5, <4>1
    <3>8. QED  BY <3>2, <3>4, <3>6, <3>7 DEF u
  <2> HIDE DEF s, t, n
  <2>3. /\ caller' \in UploadCaller /\ caller'.pc = "send" /\ caller'.todo = s
        /\ caller'.counter = caller.counter /\ caller'.tries = caller.tries
        /\ caller'.finished = caller.finished /\ caller'.together = caller.together
        /\ UNCHANGED told
    BY <1>1, <1>7, <2>2, UploadTypes DEF UploadCaller, s, t
  <2>4. faults' \in 0..MaxFaults  BY <1>1, UploadTypes DEF U!Fault
  <2>5. UploadTyped'  BY <1>1, <1>3, <1>5, <2>3, <2>4 DEF UploadInv, UploadTyped
  <2>6. UploadPlaces(caller, wire)  BY <1>1 DEF UploadInv
  <2>7. \A i \in 1..(n + 1) : i = 1 \/ (i - 1 \in 1..n /\ s[i] = t[i - 1] /\ i = (i - 1) + 1)
    <3>1. ASSUME NEW i \in 1..(n + 1), i # 1 PROVE i - 1 \in 1..n /\ s[i] = t[i - 1] /\ i = (i - 1) + 1
      <4>1. i - 1 \in 1..n /\ i = (i - 1) + 1  BY <2>1, <3>1
      <4>2. s[(i - 1) + 1] = t[i - 1]  BY <2>2, <4>1
      <4>3. QED  BY <4>1, <4>2
    <3>2. QED  BY <3>1
  <2>8. UploadPlaces(caller, wire)'
    <3>1. IsSent(wire, r[2]) /\ ~IsFinished(caller, r[2]) /\ ~IsTodo(caller, r[2])
      BY <1>2, <2>6 DEF UploadPlaces, IsSent
    <3>2. \A p \in UploadPart : IsTodo(caller', p) <=> (IsTodo(caller, p) \/ p = r[2])
      <4>1. ASSUME NEW p \in UploadPart, IsTodo(caller, p) PROVE IsTodo(caller', p)
        <5>1. PICK i \in 1..n : t[i] = p  BY <2>1, <4>1 DEF IsTodo, t
        <5>2. i + 1 \in 1..(n + 1) /\ s[i + 1] = p  BY <2>1, <2>2, <5>1
        <5>3. QED  BY <2>2, <2>3, <5>2 DEF IsTodo
      <4>2. IsTodo(caller', r[2])
        <5>1. 1 \in 1..(n + 1)  BY <2>1
        <5>2. QED  BY <2>2, <2>3, <5>1 DEF IsTodo
      <4>3. ASSUME NEW p \in UploadPart, IsTodo(caller', p), p # r[2] PROVE IsTodo(caller, p)
        <5>1. PICK i \in 1..(n + 1) : s[i] = p  BY <2>2, <2>3, <4>3 DEF IsTodo
        <5>2. i - 1 \in 1..n /\ t[i - 1] = p  BY <2>2, <2>7, <4>3, <5>1
        <5>3. QED  BY <2>1, <5>2 DEF IsTodo, t
      <4>4. QED  BY <4>1, <4>2, <4>3
    <3>3. \A p \in UploadPart : IsSent(wire', p) <=> (IsSent(wire, p) /\ p # r[2])
      <4>1. \A q \in wire.flight : q[2] = r[2] => q = r  BY <2>6 DEF UploadPlaces
      <4>2. QED  BY <1>3, <4>1 DEF IsSent
    <3>4. \A p \in UploadPart : IsFinished(caller', p) <=> IsFinished(caller, p)  BY <2>3 DEF IsFinished
    <3>5. \A i, j \in DOMAIN caller'.todo : caller'.todo[i] = caller'.todo[j] => i = j
      <4>1. \A i \in 1..n : t[i] # r[2]  BY <2>1, <3>1 DEF IsTodo, t
      <4>2. \A i, j \in 1..n : t[i] = t[j] => i = j  BY <2>1, <2>6 DEF UploadPlaces, t
      <4>3. ASSUME NEW i \in 1..(n + 1), NEW j \in 1..(n + 1), s[i] = s[j] PROVE i = j
        <5>1. CASE i = 1  BY <2>2, <2>7, <4>1, <4>3, <5>1
        <5>2. CASE i # 1
          <6>1. i - 1 \in 1..n /\ s[i] = t[i - 1] /\ i = (i - 1) + 1  BY <2>7, <5>2
          <6>2. j # 1  BY <2>2, <4>1, <4>3, <6>1
          <6>3. j - 1 \in 1..n /\ s[j] = t[j - 1] /\ j = (j - 1) + 1  BY <2>7, <6>2
          <6>4. i - 1 = j - 1  BY <4>2, <4>3, <6>1, <6>3
          <6>5. QED  BY <6>1, <6>3, <6>4
        <5>3. QED  BY <5>1, <5>2
      <4>4. QED  BY <2>2, <2>3, <4>3
    <3>6. \A p \in UploadPart :
            /\ IsTodo(caller', p) \/ IsSent(wire', p) \/ IsFinished(caller', p)
            /\ ~(IsTodo(caller', p) /\ IsSent(wire', p)) /\ ~(IsTodo(caller', p) /\ IsFinished(caller', p))
            /\ ~(IsSent(wire', p) /\ IsFinished(caller', p))
            /\ IsTodo(caller', p) => caller'.tries[p] <= Retries
      BY <1>7, <2>3, <2>6, <3>1, <3>2, <3>3, <3>4 DEF UploadPlaces
    <3>7. QED  BY <1>3, <2>3, <2>6, <3>5, <3>6 DEF UploadPlaces
  <2>9. ASSUME ~caller.together PROVE UploadOrdered(caller, wire)'
    <3> DEFINE k == Len(caller.finished)
    <3>1. UploadOrdered(caller, wire) /\ k \in Nat /\ UploadParts \in Nat
      BY <1>1, <2>9, UploadTypes DEF UploadInv
    <3>2. wire.flight = {r} /\ r[2] = k + 1 /\ UploadRest(caller, k + 1)  BY <3>1 DEF UploadOrdered
    <3>3. wire'.flight = {}  BY <1>3, <3>2
    <3> HIDE DEF k
    <3>4. n = UploadParts - (k + 1) /\ \A i \in 1..n : t[i] = (k + 1) + i  BY <3>2 DEF UploadRest, n, t
    <3>5. Len(caller'.todo) = UploadParts - k /\ UploadParts - k = n + 1  BY <2>1, <2>2, <2>3, <3>1, <3>4
    <3>6. ASSUME NEW i \in 1..(n + 1) PROVE s[i] = k + i
      <4>1. CASE i = 1  BY <2>2, <3>2, <4>1
      <4>2. CASE i # 1
        <5>1. i - 1 \in 1..n /\ s[i] = t[i - 1]  BY <2>7, <4>2
        <5>2. t[i - 1] = (k + 1) + (i - 1)  BY <3>4, <5>1
        <5>3. QED  BY <3>1, <5>1, <5>2
      <4>3. QED  BY <4>1, <4>2
    <3>7. UploadRest(caller', k)  BY <2>3, <3>5, <3>6 DEF UploadRest
    <3>8. QED  BY <2>3, <3>1, <3>3, <3>7 DEF UploadOrdered, k
  <2>10. QED  BY <1>1, <2>3, <2>5, <2>8, <2>9, UploadGoesOn
<1>8. QED  BY <1>6, <1>7

LEMMA UploadComplete == ASSUME UploadInv, U!Complete PROVE UploadInv'
<1>1. /\ caller.pc = "send" /\ caller.todo = <<>> /\ wire.flight = {}
      /\ caller' = [caller EXCEPT !.pc = "complete"] /\ UNCHANGED <<stored, wire, told, faults>>
  BY DEF U!Complete
<1>2. /\ caller' \in UploadCaller /\ caller'.pc = "complete" /\ caller'.todo = caller.todo
      /\ caller'.counter = caller.counter /\ caller'.tries = caller.tries
      /\ caller'.finished = caller.finished /\ caller'.together = caller.together
  BY <1>1, UploadTypes DEF UploadCaller
<1>3. UploadTyped'  BY <1>1, <1>2 DEF UploadInv, UploadTyped
<1>4. UploadPlaces(caller, wire)'
  BY <1>1, <1>2 DEF UploadInv, UploadPlaces, IsTodo, IsSent, IsFinished
<1>5. ~caller.together => UploadOrdered(caller, wire)'
  BY <1>1, <1>2 DEF UploadInv, UploadOrdered, UploadRest
<1>6. QED  BY <1>1, <1>2, <1>3, <1>4, <1>5, UploadGoesOn

\* When no part is left to be sent or under way, the finished ones are all of
\* them, each once.
LEMMA UploadAllFinished ==
    ASSUME UploadInv, caller.pc = "complete"
    PROVE  /\ U!Object \in Seq(UploadPart) /\ Len(U!Object) = UploadParts
           /\ U!ToSet(U!Object) = UploadPart /\ U!Object # <<>>
           /\ ~caller.together => U!InOrder /\ \A i \in 1..UploadParts : U!Object[i] = i
<1> DEFINE f == caller.finished
           k == Len(caller.finished)
           o == [i \in 1..k |-> f[i][2]]
<1>1. f \in Seq(UploadSent) /\ k \in Nat /\ DOMAIN f = 1..k /\ UploadParts \in Nat \ {0}  BY UploadTypes
<1>2. U!Object = o  BY <1>1 DEF U!Object
<1>3. UploadPlaces(caller, wire) /\ caller.todo = <<>> /\ wire.flight = {}
  BY DEF UploadInv, UploadPlaces
<1>4. \A i \in 1..k : f[i][2] \in UploadPart  BY <1>1 DEF UploadSent
<1>5. o \in [1..k -> UploadPart] /\ \A i \in 1..k : o[i] = f[i][2]  BY <1>4
<1>6. o \in Seq(UploadPart) /\ Len(o) = k /\ DOMAIN o = 1..k  BY <1>1, <1>5
<1>7. \A p \in UploadPart : \E i \in 1..k : f[i][2] = p
  BY <1>1, <1>3 DEF UploadPlaces, IsTodo, IsSent, IsFinished
<1>8. \A i, j \in 1..k : f[i][2] = f[j][2] => i = j  BY <1>1, <1>3 DEF UploadPlaces
<1>9. ~caller.together => U!InOrder /\ \A i \in 1..k : f[i][2] = i
  BY <1>1 DEF UploadInv, UploadOrdered, U!InOrder, U!Number
<1> HIDE DEF f, k
<1>10. \A p \in UploadPart : \E i \in 1..k : o[i] = p  BY <1>5, <1>7
<1>11. \A i, j \in 1..k : o[i] = o[j] => i = j  BY <1>5, <1>8
<1> HIDE DEF o
<1>12. k = UploadParts
  <2>1. IsFiniteSet(1..k) /\ Cardinality(1..k) = k /\ Cardinality(UploadPart) = UploadParts
    <3>1. \A n \in Nat : IsFiniteSet(1..n) /\ Cardinality(1..n) = n  BY FS_Interval
    <3>2. QED  BY <1>1, <3>1 DEF UploadPart
  <2>2. ExistsBijection(1..k, UploadPart)
    <3>1. IsInjective(o)  BY <1>5, <1>11 DEF IsInjective
    <3>2. o \in Bijection(1..k, UploadPart)  BY <1>5, <1>10, <3>1 DEF Bijection, Injection, Surjection
    <3>3. QED  BY <3>2 DEF ExistsBijection
  <2>3. Cardinality(UploadPart) = Cardinality(1..k)  BY <2>1, <2>2, FS_Bijection
  <2>4. QED  BY <2>1, <2>3
<1>13. U!ToSet(o) = UploadPart  BY <1>5, <1>6, <1>10 DEF U!ToSet
<1>14. o # <<>>  BY <1>1, <1>6, <1>12
<1>15. QED  BY <1>2, <1>5, <1>6, <1>9, <1>12, <1>13, <1>14

LEMMA UploadCompleted == ASSUME UploadInv, U!Completed PROVE UploadInv'
<1>1. caller.pc = "complete" /\ UNCHANGED wire /\ caller' = [caller EXCEPT !.pc = "end"]
  BY DEF U!Completed, U!Ends
<1>2. /\ caller' \in UploadCaller /\ caller'.pc = "end" /\ caller'.counter = caller.counter
      /\ caller'.tries = caller.tries /\ caller'.finished = caller.finished
      /\ caller'.together = caller.together
  BY <1>1, UploadTypes DEF UploadCaller
<1>3. stored = <<>>  BY <1>1 DEF UploadInv
<1>4. /\ stored' \in {<<>>, U!Object} /\ faults' \in 0..MaxFaults
      /\ \/ told' = "ok" /\ stored' = U!Object
         \/ told' = "failed" /\ faults' > 0
         \/ told' = "failed" /\ ~U!InOrder
  BY <1>1, <1>3, UploadTypes DEF U!Completed, U!Ends, U!Fault, U!NoFault
<1>5. /\ U!Object \in Seq(UploadPart) /\ Len(U!Object) = UploadParts
      /\ U!ToSet(U!Object) = UploadPart /\ U!Object # <<>>
      /\ ~caller.together => U!InOrder /\ \A i \in 1..UploadParts : U!Object[i] = i
  BY <1>1, UploadAllFinished
<1>6. UploadTyped'
  <2>0. <<>> \in Seq(UploadPart)  OBVIOUS
  <2>1. stored' \in Seq(UploadPart) /\ told' \in {"no", "ok", "failed"}  BY <1>4, <1>5, <2>0
  <2>2. QED  BY <1>1, <1>2, <1>4, <2>1 DEF UploadInv, UploadTyped
<1>7. U!OkIsStored'  BY <1>2, <1>4, <1>5 DEF U!OkIsStored
<1>8. U!WholeObject'
  <2>1. CASE stored' = <<>>  BY <2>1 DEF U!WholeObject
  <2>2. CASE stored' = U!Object
    <3>1. U!ToSet(stored') = U!ToSet(U!Object)  BY <2>2
    <3>2. QED  BY <1>2, <1>5, <2>2, <3>1 DEF U!WholeObject, UploadPart, U!ToSet
  <2>3. QED  BY <1>4, <2>1, <2>2
<1>9. QED  BY <1>2, <1>6, <1>7, <1>8 DEF UploadInv

LEMMA UploadNext == ASSUME UploadInv, U!Next PROVE UploadInv'
BY UploadCreate, UploadSend, UploadReturns, UploadFails, UploadComplete, UploadCompleted
   DEF U!Next, U!Progress

\* What the upload promises follows.
LEMMA UploadImplies == ASSUME UploadInv PROVE U!TypeOK /\ U!OkIsStored /\ U!WholeObject
<1> DEFINE M == UploadParts * (Retries + 1)
<1>1. caller.counter \in 0..M
  BY UploadTypes, UploadTriesProperties
<1>2. M \in Nat  BY UploadTypes
<1> HIDE DEF M
<1>3. \A r \in wire.flight \cup wire.held : r \in (1..M) \X UploadPart
  <2>1. \A r \in wire.flight \cup wire.held : r \in UploadSent /\ r[1] <= caller.counter
    BY UploadTypes DEF UploadInv, UploadTyped
  <2>2. \A n \in Nat \ {0} : n <= caller.counter => n \in 1..M  BY <1>1, <1>2
  <2>3. QED  BY <2>1, <2>2 DEF UploadSent
<1>4. caller.finished \in Seq((1..M) \X UploadPart)
  <2>1. \A i \in DOMAIN caller.finished :
          caller.finished[i] \in UploadSent /\ caller.finished[i][1] <= caller.counter
    BY UploadTypes DEF UploadInv, UploadTyped
  <2>2. \A n \in Nat \ {0} : n <= caller.counter => n \in 1..M  BY <1>1, <1>2
  <2>3. \A i \in DOMAIN caller.finished : caller.finished[i] \in (1..M) \X UploadPart
    BY <2>1, <2>2 DEF UploadSent
  <2>4. caller.finished \in Seq(UploadSent)  BY UploadTypes
  <2> HIDE DEF M
  <2>5. QED  BY <2>3, <2>4
<1>5. U!Sent = (1..M) \X UploadPart  BY DEF U!Sent, U!Numbers, M, UploadPart
<1>6. wire.flight \subseteq U!Sent /\ wire.held \subseteq U!Sent /\ caller.finished \in Seq(U!Sent)
  BY <1>3, <1>4, <1>5
<1>7. caller.pc \in {"create", "send", "complete", "end"} /\ caller.todo \in Seq(1..UploadParts)
      /\ stored \in Seq(1..UploadParts)
  BY UploadTypes DEF UploadCaller, UploadPart
<1>8. U!TypeOK
  BY <1>1, <1>6, <1>7, UploadTypes DEF U!TypeOK, UploadInv, UploadTyped, M
<1>9. QED  BY <1>8 DEF UploadInv

-----------------------------------------------------------------------------
(* The adapters together.                                                  *)

LoadedInv == adapter \in {"sinks", "cosmos", "upload"} /\ (Is("cosmos") => CosmosInv)
StorageInv ==
    /\ adapter \in {"sinks", "cosmos", "upload"}
    /\ Is("sinks") => SinkInv
    /\ Is("cosmos") => CosmosWrittenInv
    /\ Is("upload") => UploadInv

\* The invariant of the adapter that was chosen holds at first,
LEMMA StorageInit == ASSUME Init PROVE LoadedInv /\ StorageInv
<1>1. adapter \in {"sinks", "cosmos", "upload"}  BY AdaptersAssumption DEF Init
<1>2. QED
  BY <1>1, SinkInit, CosmosInit, CosmosWrittenInit, UploadInit DEF Init, LoadedInv, StorageInv, Is

\* every step of the adapter keeps it,
LEMMA LoadedStep == ASSUME LoadedInv, Next PROVE LoadedInv'
<1>1. adapter' = adapter  BY DEF Next
<1>2. CASE Is("cosmos")
  <2>1. CosmosInv'  BY <1>2, CosmosNextInv DEF Next, Is, LoadedInv
  <2>2. QED  BY <1>1, <2>1 DEF LoadedInv
<1>3. QED  BY <1>1, <1>2 DEF LoadedInv, Is

LEMMA StorageStep == ASSUME StorageInv, Next PROVE StorageInv'
<1>1. adapter' = adapter  BY DEF Next
<1>2. CASE Is("sinks")
  <2>1. SinkInv'  BY <1>2, SinkNext DEF Next, Is, StorageInv
  <2>2. QED  BY <1>1, <1>2, <2>1 DEF StorageInv, Is
<1>3. CASE Is("cosmos")
  <2>1. CosmosWrittenInv'  BY <1>3, CosmosWrittenNext DEF Next, Is, StorageInv
  <2>2. QED  BY <1>1, <1>3, <2>1 DEF StorageInv, Is
<1>4. CASE Is("upload")
  <2>1. UploadInv'  BY <1>4, UploadNext DEF Next, Is, StorageInv
  <2>2. QED  BY <1>1, <1>4, <2>1 DEF StorageInv, Is
<1>5. QED  BY <1>2, <1>3, <1>4 DEF StorageInv, Is

\* and nothing is lost while nothing happens.
LEMMA StorageStutter ==
    ASSUME UNCHANGED all
    PROVE  (LoadedInv => LoadedInv') /\ (StorageInv => StorageInv')
<1>0. UNCHANGED <<stored, caller, wire, told, faults, adapter>>  BY DEF all
<1>1. CosmosInv' <=> CosmosInv  BY <1>0 DEF CosmosInv
<1>2. CosmosWrittenInv' <=> CosmosWrittenInv
  BY <1>0, <1>1 DEF CosmosWrittenInv, CosmosOnce, CosmosTold
<1>3. SinkInv' <=> SinkInv
  BY <1>0 DEF SinkInv, SinkTyped, SinkStored, SinkDeserved, SinkWhole, SinkOrdered, Rest, This, Written,
     SaidOk, Transacts, Ordering, S!Kind, S!Mine, S!Poisoned, S!DeservedByAll
<1>4. UploadInv' <=> UploadInv
  BY <1>0 DEF UploadInv, UploadTyped, U!OkIsStored, U!WholeObject
<1>5. QED  BY <1>0, <1>1, <1>2, <1>3, <1>4 DEF LoadedInv, StorageInv, Is

\* So they hold in every behaviour of the adapters.
THEOREM StorageSafety == Spec => []StorageInv
<1>1. Init => StorageInv  BY StorageInit
<1>2. StorageInv /\ [Next]_all => StorageInv'  BY StorageStep, StorageStutter
<1>3. QED  BY <1>1, <1>2, PTL DEF Spec

\* Whatever is loaded from Cosmos DB is just the events up to its number, for
\* any number of instances, of inputs and of snapshots that are listed, written
\* and read while the events go on.
THEOREM LoadsPrefixes == Spec => []LoadedIsPrefix
<1>1. Init => LoadedInv  BY StorageInit
<1>2. LoadedInv /\ [Next]_all => LoadedInv'  BY LoadedStep, StorageStutter
<1>3. LoadedInv => LoadedIsPrefix  BY CosmosImplies DEF LoadedInv, LoadedIsPrefix
<1>4. QED  BY <1>1, <1>2, <1>3, PTL DEF Spec

\* What a caller was told is written is in the store, whatever requests failed,
\* before or after their effect, and however often they were made; and no batch
\* fails but for more failures than retries or a message that cannot be formatted.
THEOREM ToldIsStored == Spec => []OkIsStored
<1>1. StorageInv => OkIsStored
  BY SinkImplies, CosmosWrittenImplies, UploadImplies DEF StorageInv, OkIsStored
<1>2. QED  BY <1>1, StorageSafety, PTL

\* What is written is whole and in order: the messages of a transaction, those of
\* one destination, what an instance stores for one input, the parts of an object.
THEOREM WritesWhole == Spec => []WrittenWhole
<1>1. StorageInv => WrittenWhole
  BY SinkImplies, CosmosWrittenImplies, UploadImplies DEF StorageInv, WrittenWhole
<1>2. QED  BY <1>1, StorageSafety, PTL
============================================================================
