------------------------ MODULE SinkCoordinatorProofs ------------------------
(***************************************************************************)
(* Proofs about SinkCoordinator, for every number of contexts, partitions, *)
(* attempts and failures and every guarantee of the two sinks.             *)
(***************************************************************************)
EXTENDS SinkCoordinatorProps, SequenceLemmas

-----------------------------------------------------------------------------
(* What the operators of Batching return for every sequence of contexts:   *)
(* cutting outputs into chunks keeps them all and their order, no chunk    *)
(* exceeds the size or mixes what the sink wants apart, and the contexts   *)
(* that pass the filter build on one another.                              *)

\* What the items of one call have in common if the sink asks for it.
Uniform(sink, c) ==
    sink.consistency = "AtomicPerPartition" => \A m, n \in DOMAIN c : c[m].key = c[n].key

Groups(sink, S) == {c \in Seq(S) : c # <<>> /\ Uniform(sink, c)}
Parts(sink, size, S) == {c \in Seq(S) : Len(c) <= size /\ Uniform(sink, c)}

\* An item that may go together with the last one of a uniform sequence.
LEMMA UniformAppend ==
    ASSUME NEW sink, NEW S, NEW c \in Seq(S), NEW e \in S,
           Uniform(sink, c), c = <<>> \/ Together(sink, Last(c), e)
    PROVE  Uniform(sink, Append(c, e))
<1>1. /\ Append(c, e) \in Seq(S) /\ Len(Append(c, e)) = Len(c) + 1
      /\ \A i \in 1..Len(c) : Append(c, e)[i] = c[i]
      /\ Append(c, e)[Len(c) + 1] = e
  BY AppendProperties
<1> SUFFICES ASSUME sink.consistency = "AtomicPerPartition",
                    NEW m \in DOMAIN Append(c, e), NEW n \in DOMAIN Append(c, e)
             PROVE  Append(c, e)[m].key = Append(c, e)[n].key
  BY DEF Uniform
<1>2. \A i \in 1..Len(c) : c[i].key = e.key
  <2> SUFFICES ASSUME NEW i \in 1..Len(c) PROVE c[i].key = e.key  OBVIOUS
  <2>1. c # <<>> /\ Len(c) \in 1..Len(c)  OBVIOUS
  <2>2. c[Len(c)].key = e.key  BY <2>1 DEF Together, Last
  <2>3. c[i].key = c[Len(c)].key  BY <2>1 DEF Uniform
  <2>4. QED  BY <2>2, <2>3
<1>3. \A i \in 1..(Len(c) + 1) : Append(c, e)[i].key = e.key
  <2> SUFFICES ASSUME NEW i \in 1..(Len(c) + 1) PROVE Append(c, e)[i].key = e.key  OBVIOUS
  <2>1. CASE i = Len(c) + 1  BY <1>1, <2>1
  <2>2. CASE i # Len(c) + 1
    <3>1. i \in 1..Len(c)  BY <2>2
    <3>2. QED  BY <1>1, <1>2, <3>1
  <2>3. QED  BY <2>1, <2>2
<1>4. m \in 1..(Len(c) + 1) /\ n \in 1..(Len(c) + 1)  BY <1>1
<1>5. QED  BY <1>3, <1>4

\* Two uniform sequences of which the second may follow the first.
LEMMA UniformConcat ==
    ASSUME NEW sink, NEW S, NEW c \in Seq(S), NEW d \in Seq(S), d # <<>>,
           Uniform(sink, c), Uniform(sink, d),
           c = <<>> \/ Together(sink, Last(c), Head(d))
    PROVE  Uniform(sink, c \o d)
<1>1. /\ c \o d \in Seq(S) /\ Len(c \o d) = Len(c) + Len(d)
      /\ \A i \in 1..(Len(c) + Len(d)) : (c \o d)[i] = IF i <= Len(c) THEN c[i] ELSE d[i - Len(c)]
  BY ConcatProperties
<1> SUFFICES ASSUME sink.consistency = "AtomicPerPartition",
                    NEW m \in DOMAIN (c \o d), NEW n \in DOMAIN (c \o d)
             PROVE  (c \o d)[m].key = (c \o d)[n].key
  BY DEF Uniform
<1>2. Len(d) \in Nat \ {0} /\ 1 \in 1..Len(d) /\ Head(d) = d[1]  BY EmptySeq
<1>3. \A i \in 1..Len(d) : d[i].key = d[1].key  BY <1>2 DEF Uniform
<1>4. \A i \in 1..Len(c) : c[i].key = d[1].key
  <2> SUFFICES ASSUME NEW i \in 1..Len(c) PROVE c[i].key = d[1].key  OBVIOUS
  <2>1. c # <<>> /\ Len(c) \in 1..Len(c)  OBVIOUS
  <2>2. c[Len(c)].key = d[1].key  BY <1>2, <2>1 DEF Together, Last
  <2>3. c[i].key = c[Len(c)].key  BY <2>1 DEF Uniform
  <2>4. QED  BY <2>2, <2>3
<1>5. \A i \in 1..(Len(c) + Len(d)) : (c \o d)[i].key = d[1].key
  <2> SUFFICES ASSUME NEW i \in 1..(Len(c) + Len(d)) PROVE (c \o d)[i].key = d[1].key  OBVIOUS
  <2>1. CASE i <= Len(c)
    <3>1. i \in 1..Len(c) /\ (c \o d)[i] = c[i]  BY <1>1, <2>1
    <3>2. QED  BY <1>4, <3>1
  <2>2. CASE ~(i <= Len(c))
    <3>1. i - Len(c) \in 1..Len(d) /\ (c \o d)[i] = d[i - Len(c)]  BY <1>1, <2>2
    <3>2. QED  BY <1>3, <3>1
  <2>3. QED  BY <2>1, <2>2
<1>6. m \in 1..(Len(c) + Len(d)) /\ n \in 1..(Len(c) + Len(d))  BY <1>1
<1>7. QED  BY <1>5, <1>6

-----------------------------------------------------------------------------
\* One more item in the groups.
LEMMA GroupedProperties ==
    ASSUME NEW sink, NEW S, NEW g \in Seq(Groups(sink, S)), NEW i \in S
    PROVE  /\ Grouped(sink, g, i) \in Seq(Groups(sink, S))
           /\ FlattenSeq(Grouped(sink, g, i)) = Append(FlattenSeq(g), i)
<1> DEFINE G == Groups(sink, S)
<1>0. G \subseteq Seq(S) /\ g \in Seq(Seq(S))
  <2>1. G \subseteq Seq(S)  BY DEF Groups
  <2>2. QED  BY <2>1, SeqMonotonic
<1>1. CASE g # <<>> /\ Together(sink, Last(Last(g)), i)
  <2> DEFINE f == Front(g)
             l == Last(g)
  <2>1. f \in Seq(G) /\ l \in G /\ Append(f, l) = g  BY <1>1, FrontLast
  <2> HIDE DEF f, l, G
  <2>2. l \in Seq(S) /\ l # <<>> /\ Uniform(sink, l) /\ f \in Seq(Seq(S))
    BY <1>0, <2>1, SeqMonotonic DEF G, Groups
  <2>3. Append(l, i) \in Seq(S) /\ Append(l, i) # <<>>  BY <2>2, AppendProperties
  <2>4. Uniform(sink, Append(l, i))  BY <1>1, <2>2, UniformAppend DEF l
  <2>5. Append(l, i) \in G  BY <2>3, <2>4 DEF G, Groups
  <2>6. Append(f, Append(l, i)) \in Seq(G)  BY <2>1, <2>5, AppendProperties
  <2>7. FlattenSeq(Append(f, Append(l, i))) = FlattenSeq(f) \o Append(l, i)
    BY <2>2, <2>3, FlattenAppend
  <2>8. FlattenSeq(g) = FlattenSeq(f) \o l  BY <2>1, <2>2, FlattenAppend
  <2>9. FlattenSeq(f) \in Seq(S)  BY <2>2, FlattenType
  <2>10. FlattenSeq(f) \o Append(l, i) = Append(FlattenSeq(f) \o l, i)
    BY <2>2, <2>9, AppendConcat
  <2>11. Grouped(sink, g, i) = Append(f, Append(l, i))  BY <1>1 DEF Grouped, f, l
  <2>12. QED  BY <2>6, <2>7, <2>8, <2>10, <2>11 DEF G
<1>2. CASE ~(g # <<>> /\ Together(sink, Last(Last(g)), i))
  <2>1. <<i>> \in Seq(S) /\ <<i>> # <<>> /\ Uniform(sink, <<i>>)  BY DEF Uniform
  <2>2. <<i>> \in G  BY <2>1 DEF Groups
  <2> HIDE DEF G
  <2>3. Append(g, <<i>>) \in Seq(G)  BY <2>2, AppendProperties DEF G
  <2>4. FlattenSeq(Append(g, <<i>>)) = FlattenSeq(g) \o <<i>>  BY <1>0, <2>1, FlattenAppend
  <2>5. FlattenSeq(g) \in Seq(S)  BY <1>0, FlattenType
  <2>6. FlattenSeq(g) \o <<i>> = Append(FlattenSeq(g), i)  BY <2>5, AppendIsConcat
  <2>7. Grouped(sink, g, i) = Append(g, <<i>>)  BY <1>2 DEF Grouped
  <2>8. QED  BY <2>3, <2>4, <2>6, <2>7 DEF G
<1>3. QED  BY <1>1, <1>2

\* The groups of a container's items are its items in order.
LEMMA GroupByProperties ==
    ASSUME NEW sink, NEW S, NEW items \in Seq(S)
    PROVE  /\ GroupBy(sink, items) \in Seq(Groups(sink, S))
           /\ FlattenSeq(GroupBy(sink, items)) = items
<1> DEFINE N == Len(items)
           Q == Seq(Groups(sink, S))
           step == [n \in 1..N |-> [x \in Q |-> Grouped(sink, x, items[n])]]
           Is(g) == g = [n \in 0..N |-> IF n = 0 THEN <<>> ELSE Grouped(sink, g[n - 1], items[n])]
           F == CHOOSE g : Is(g)
<1>1. N \in Nat /\ \A n \in 1..N : items[n] \in S  OBVIOUS
<1>2. \A n \in 1..N : \A x \in Q : Grouped(sink, x, items[n]) \in Q
  BY <1>1, GroupedProperties
<1>3. step \in [1..N -> [Q -> Q]]
  <2> HIDE DEF Q, N
  <2>1. QED  BY <1>2
<1>4. \E f \in [0..N -> Q] : Recurs(f, N, <<>>, step)
  <2>1. <<>> \in Q  OBVIOUS
  <2> HIDE DEF step, Q, N
  <2>2. QED  BY <1>1, <1>3, <2>1, Recursion
<1>5. PICK f \in [0..N -> Q] : Recurs(f, N, <<>>, step)  BY <1>4
<1>6. Is(f)
  <2> HIDE DEF Q
  <2>1. \A n \in 1..N : f[n - 1] \in Q  OBVIOUS
  <2>2. \A n \in 1..N : f[n] = Grouped(sink, f[n - 1], items[n])  BY <1>5, <2>1 DEF Recurs
  <2>3. f[0] = <<>>  BY <1>5 DEF Recurs
  <2>4. QED  BY <2>2, <2>3
<1>7. Is(F)
  <2> HIDE DEF Is
  <2>1. QED  BY <1>6
<1>8. GroupBy(sink, items) = F[N]  BY DEF GroupBy
<1> HIDE DEF F
<1> DEFINE T == {n \in Nat : n \in 0..N => F[n] \in Q /\ FlattenSeq(F[n]) = SubSeq(items, 1, n)}
<1>9. 0 \in T
  <2>1. F[0] = <<>>  BY <1>1, <1>7
  <2>2. <<>> \in Q /\ <<>> \in Seq(Seq(S))  OBVIOUS
  <2>3. FlattenSeq(<<>>) = <<>>  BY <2>2, FlattenType
  <2>4. SubSeq(items, 1, 0) = <<>>  BY SubSeqEmpty
  <2>5. QED  BY <2>1, <2>2, <2>3, <2>4
<1>10. ASSUME NEW n \in 1..N, n - 1 \in T PROVE n \in T
  <2>1. F[n - 1] \in Q /\ FlattenSeq(F[n - 1]) = SubSeq(items, 1, n - 1)  BY <1>10
  <2>2. F[n] = Grouped(sink, F[n - 1], items[n])  BY <1>7
  <2>3. /\ Grouped(sink, F[n - 1], items[n]) \in Q
        /\ FlattenSeq(Grouped(sink, F[n - 1], items[n])) = Append(FlattenSeq(F[n - 1]), items[n])
    BY <1>1, <2>1, GroupedProperties
  <2>4. SubSeq(items, 1, n) = Append(SubSeq(items, 1, n - 1), items[n])  BY SubSeqAppend
  <2>5. F[n] \in Q /\ FlattenSeq(F[n]) = SubSeq(items, 1, n)  BY <2>1, <2>2, <2>3, <2>4
  <2> HIDE DEF Q
  <2>6. QED  BY <2>5
<1>11. 0..N \subseteq T
  <2> HIDE DEF T
  <2>1. QED  BY <1>1, <1>9, <1>10, BoundedInduction
<1>12. SubSeq(items, 1, N) = items  OBVIOUS
<1>13. N \in T /\ N \in 0..N
  <2> HIDE DEF T
  <2>1. QED  BY <1>1, <1>11
<1>14. F[N] \in Q /\ FlattenSeq(F[N]) = SubSeq(items, 1, N)  BY <1>13
<1>15. QED  BY <1>8, <1>12, <1>14

-----------------------------------------------------------------------------
\* Cutting a sequence into pieces.
LEMMA PiecesProperties ==
    ASSUME NEW sink, NEW S, NEW s \in Seq(S), s # <<>>, Uniform(sink, s), NEW n \in Nat \ {0}
    PROVE  /\ Pieces(s, n) \in Seq(Parts(sink, n, S))
           /\ Pieces(s, n) # <<>> /\ Last(Pieces(s, n)) # <<>>
           /\ FlattenSeq(Pieces(s, n)) = s
<1> DEFINE L == Len(s)
           q == (L + n - 1) \div n
           E(i) == IF i * n < L THEN i * n ELSE L
           piece(i) == SubSeq(s, (i - 1) * n + 1, E(i))
           P == Pieces(s, n)
<1>1. L \in Nat \ {0}  BY EmptySeq
<1> HIDE DEF L
<1>2. q \in Nat \ {0} /\ q * n >= L /\ (q - 1) * n < L  BY <1>1
<1> HIDE DEF q
<1>3. ASSUME NEW i \in 1..q
      PROVE  /\ (i - 1) * n \in Nat /\ (i - 1) * n < L
             /\ E(i) \in Nat /\ (i - 1) * n < E(i) /\ E(i) <= (i - 1) * n + n /\ E(i) <= L
  <2>1. (i - 1) * n <= (q - 1) * n  BY <1>2
  <2>2. (i - 1) * n + n = i * n /\ (i - 1) * n \in Nat /\ i * n \in Nat  BY <1>2
  <2>3. (q - 1) * n \in Int  BY <1>2
  <2>4. (i - 1) * n < L  BY <1>1, <1>2, <2>1, <2>2, <2>3
  <2> DEFINE x == (i - 1) * n
             y == i * n
  <2>5. x \in Nat /\ y \in Nat /\ x + n = y /\ x < L  BY <2>2, <2>4
  <2> HIDE DEF x, y
  <2>6. /\ (IF y < L THEN y ELSE L) \in Nat /\ x < (IF y < L THEN y ELSE L)
        /\ (IF y < L THEN y ELSE L) <= x + n /\ (IF y < L THEN y ELSE L) <= L
    BY <1>1, <2>5
  <2>7. QED  BY <2>2, <2>4, <2>6 DEF x, y
<1>4. \A a \in Nat, b \in Nat : a < b /\ b <= L =>
         /\ SubSeq(s, a + 1, b) \in Seq(S) /\ Len(SubSeq(s, a + 1, b)) = b - a
         /\ \A j \in 1..(b - a) : SubSeq(s, a + 1, b)[j] = s[a + j]
  BY DEF L
<1>5. ASSUME NEW i \in 1..q
      PROVE  /\ piece(i) \in Seq(S) /\ Len(piece(i)) = E(i) - (i - 1) * n
             /\ \A j \in 1..(E(i) - (i - 1) * n) : piece(i)[j] = s[(i - 1) * n + j]
  <2> DEFINE a == (i - 1) * n
             b == E(i)
  <2>1. a \in Nat /\ b \in Nat /\ a < b /\ b <= L  BY <1>3
  <2> HIDE DEF a, b
  <2>2. /\ SubSeq(s, a + 1, b) \in Seq(S) /\ Len(SubSeq(s, a + 1, b)) = b - a
        /\ \A j \in 1..(b - a) : SubSeq(s, a + 1, b)[j] = s[a + j]
    BY <1>4, <2>1
  <2>3. QED  BY <2>2 DEF a, b
<1>6. P = [i \in 1..q |-> piece(i)]  BY DEF Pieces, L, q
<1>7. ASSUME NEW i \in 1..q PROVE piece(i) \in Parts(sink, n, S) /\ piece(i) # <<>>
  <2> DEFINE p == piece(i)
             a == (i - 1) * n
             b == E(i)
  <2>1. /\ a \in Nat /\ b \in Nat /\ a < b /\ b <= a + n /\ b <= L
        /\ p \in Seq(S) /\ Len(p) = b - a /\ \A j \in 1..(b - a) : p[j] = s[a + j]
    BY <1>3, <1>5
  <2> HIDE DEF p, a, b
  <2>2. Len(p) <= n /\ p # <<>>  BY <2>1
  <2>3. Uniform(sink, p)
    <3>1. \A j \in 1..(b - a) : a + j \in 1..L  BY <1>1, <2>1
    <3>2. \A j \in DOMAIN p : a + j \in DOMAIN s /\ p[j] = s[a + j]  BY <2>1, <3>1 DEF L
    <3>3. QED  BY <3>2 DEF Uniform
  <2>4. QED  BY <2>1, <2>2, <2>3 DEF Parts, p
<1>8. P \in Seq(Parts(sink, n, S)) /\ Len(P) = q /\ \A i \in 1..q : P[i] = piece(i)
  <2> HIDE DEF P, piece
  <2>1. \A i \in 1..q : piece(i) \in Parts(sink, n, S)  BY <1>7
  <2>2. QED  BY <1>2, <1>6, <2>1
<1>9. P # <<>> /\ Last(P) # <<>>
  <2> HIDE DEF P, piece
  <2>1. q \in 1..q /\ P[q] = piece(q)  BY <1>2, <1>8
  <2>2. QED  BY <1>2, <1>7, <1>8, <2>1 DEF Last
<1>10. P \in Seq(Seq(S))
  <2>1. Parts(sink, n, S) \subseteq Seq(S)  BY DEF Parts
  <2>2. QED  BY <1>8, <2>1, SeqMonotonic
<1> HIDE DEF P
<1>11. PICK f \in [0..Len(P) -> Seq(S)] :
         /\ f[0] = <<>> /\ \A i \in 1..Len(P) : f[i] = f[i - 1] \o P[i]
         /\ FlattenSeq(P) = f[Len(P)]
  BY <1>10, FlattenRecursion
<1> DEFINE T == {i \in Nat : i \in 0..q => f[i] = SubSeq(s, 1, E(i))}
<1>12. 0 \in T
  <2>1. E(0) = 0  BY <1>1
  <2>2. SubSeq(s, 1, 0) = <<>>  BY SubSeqEmpty
  <2>3. QED  BY <1>11, <2>1, <2>2
<1>13. ASSUME NEW i \in 1..q, i - 1 \in T PROVE i \in T
  <2>1. f[i] = f[i - 1] \o piece(i)  BY <1>8, <1>11
  <2>2. f[i - 1] = SubSeq(s, 1, E(i - 1))
    <3>1. i - 1 \in 0..q  OBVIOUS
    <3>2. QED  BY <1>13, <3>1
  <2>3. E(i - 1) = (i - 1) * n  BY <1>3
  <2> DEFINE a == (i - 1) * n
             b == E(i)
  <2>4. a \in 0..L /\ b \in a..L  BY <1>1, <1>3
  <2>5. f[i] = SubSeq(s, 1, a) \o SubSeq(s, a + 1, b)  BY <2>1, <2>2, <2>3
  <2> HIDE DEF a, b
  <2>6. SubSeq(s, 1, a) \o SubSeq(s, a + 1, b) = SubSeq(s, 1, b)
    BY <2>4, SubSeqConcat DEF L
  <2>7. f[i] = SubSeq(s, 1, E(i))  BY <2>5, <2>6 DEF b
  <2> HIDE DEF E
  <2>8. QED  BY <2>7
<1>14. 0..q \subseteq T
  <2> HIDE DEF T
  <2>1. QED  BY <1>2, <1>12, <1>13, BoundedInduction
<1>15. q \in T /\ q \in 0..q
  <2> HIDE DEF T
  <2>1. QED  BY <1>2, <1>14
<1>16. f[q] = SubSeq(s, 1, L)
  <2>1. E(q) = L  BY <1>1, <1>2
  <2> HIDE DEF E
  <2>2. QED  BY <1>15, <2>1
<1>17. SubSeq(s, 1, L) = s  BY DEF L
<1>18. QED  BY <1>8, <1>9, <1>11, <1>16, <1>17 DEF P

-----------------------------------------------------------------------------
(* The generator.  Between two groups it has yielded whole parts and holds *)
(* another; what it has yielded last is not empty unless more follows.     *)

States(sink, size, S) ==
    {st \in [chunks : Seq(Parts(sink, size, S)), batch : Parts(sink, size, S)] :
        st.batch = <<>> => st.chunks = <<>> \/ Last(st.chunks) # <<>>}

Through(st) == FlattenSeq(st.chunks) \o st.batch

\* Chunks are sequences of items.
LEMMA PartsAreSequences ==
    ASSUME NEW sink, NEW size, NEW S
    PROVE  Seq(Parts(sink, size, S)) \subseteq Seq(Seq(S))
<1>1. Parts(sink, size, S) \subseteq Seq(S)  BY DEF Parts
<1>2. QED  BY <1>1, SeqMonotonic

\* A chunk that is yielded takes the items of the batch with it.
LEMMA YieldProperties ==
    ASSUME NEW sink, NEW size \in Nat, NEW S, NEW st \in States(sink, size, S)
    PROVE  /\ Append(st.chunks, st.batch) \in Seq(Parts(sink, size, S))
           /\ FlattenSeq(Append(st.chunks, st.batch)) = Through(st)
           /\ <<>> \in Parts(sink, size, S)
           /\ Through(st) \in Seq(S)
<1>1. st.chunks \in Seq(Parts(sink, size, S)) /\ st.batch \in Parts(sink, size, S)
  BY DEF States
<1>2. Append(st.chunks, st.batch) \in Seq(Parts(sink, size, S))  BY <1>1, AppendProperties
<1>3. st.chunks \in Seq(Seq(S)) /\ st.batch \in Seq(S)
  BY <1>1, PartsAreSequences DEF Parts
<1>4. FlattenSeq(Append(st.chunks, st.batch)) = FlattenSeq(st.chunks) \o st.batch
  BY <1>3, FlattenAppend
<1>5. <<>> \in Parts(sink, size, S)  BY DEF Parts, Uniform
<1>6. Through(st) \in Seq(S)
  <2>1. FlattenSeq(st.chunks) \in Seq(S)  BY <1>3, FlattenType
  <2>2. QED  BY <1>3, <2>1, ConcatProperties DEF Through
<1>7. QED  BY <1>2, <1>4, <1>5, <1>6 DEF Through

\* A group is added to the batch, or in chunks of their own, in its order.
LEMMA AddGroupProperties ==
    ASSUME NEW sink, NEW S, NEW size \in Nat \ {0}, NEW st \in States(sink, size, S),
           NEW group \in Groups(sink, S), NEW len \in Nat, Len(group) <= len
    PROVE  /\ AddGroup(sink, size, st, group, len) \in States(sink, size, S)
           /\ Through(AddGroup(sink, size, st, group, len)) = Through(st) \o group
<1> DEFINE P == Parts(sink, size, S)
           apart == st.batch # <<>> /\ ~Together(sink, Last(st.batch), Head(group))
           s == IF apart THEN Yield(st) ELSE st
           r == AddGroup(sink, size, st, group, len)
<1>0. st.chunks \in Seq(P) /\ st.batch \in P  BY DEF States
<1>1. /\ group \in Seq(S) /\ group # <<>> /\ Uniform(sink, group)
  BY DEF Groups
<1>2. s.chunks \in Seq(P) /\ s.batch \in P /\ Through(s) = Through(st)
  <2>1. CASE apart
    <3>1. s = [chunks |-> Append(st.chunks, st.batch), batch |-> <<>>]  BY <2>1 DEF Yield
    <3> HIDE DEF s, P
    <3>2. /\ FlattenSeq(Append(st.chunks, st.batch)) = Through(st) /\ Through(st) \in Seq(S)
          /\ Append(st.chunks, st.batch) \in Seq(P) /\ <<>> \in P
      BY YieldProperties DEF P
    <3>3. s.chunks = Append(st.chunks, st.batch) /\ s.batch = <<>>  BY <3>1
    <3>4. Through(st) \o <<>> = Through(st)  BY <3>2, ConcatEmptySeq
    <3>5. Through(s) = FlattenSeq(s.chunks) \o s.batch  BY DEF Through
    <3>6. Through(s) = Through(st) \o <<>>  BY <3>2, <3>3, <3>5
    <3>7. QED  BY <3>2, <3>3, <3>4, <3>6
  <2>2. CASE ~apart
    <3>1. s = st  BY <2>2
    <3> HIDE DEF s, P
    <3>2. QED  BY <1>0, <3>1
  <2>3. QED  BY <2>1, <2>2
<1>3. s.batch = <<>> \/ Together(sink, Last(s.batch), Head(group))
  <2>1. CASE apart  BY <2>1 DEF Yield
  <2>2. CASE ~apart  BY <2>2
  <2>3. QED  BY <2>1, <2>2
<1>4. r = IF Len(group) > size
          THEN [chunks |-> s.chunks \o Pieces(s.batch \o group, size), batch |-> <<>>]
          ELSE IF Len(s.batch) + len <= size
          THEN [s EXCEPT !.batch = @ \o group]
          ELSE [Yield(s) EXCEPT !.batch = group]
  BY DEF AddGroup
<1>5. s = [chunks |-> s.chunks, batch |-> s.batch]
  <2>1. CASE apart  BY <2>1 DEF Yield
  <2>2. CASE ~apart  BY <2>2 DEF States
  <2>3. QED  BY <2>1, <2>2
<1> HIDE DEF apart, s, r
<1> DEFINE b == s.batch
           c == s.chunks
<1>6. b \in Seq(S) /\ Len(b) <= size /\ Uniform(sink, b) /\ c \in Seq(P) /\ c \in Seq(Seq(S))
  BY <1>2, PartsAreSequences DEF Parts
<1>7. FlattenSeq(c) \in Seq(S) /\ Through(st) = FlattenSeq(c) \o b
  BY <1>2, <1>6, FlattenType DEF Through
<1>8. (FlattenSeq(c) \o b) \o group = FlattenSeq(c) \o (b \o group)
  <2>1. \A x, y, z \in Seq(S) : (x \o y) \o z = x \o (y \o z)  BY SMTT(30), ConcatAssociative
  <2> HIDE DEF b, c
  <2>2. QED  BY <1>1, <1>6, <1>7, <2>1
<1>9. b \o group \in Seq(S) /\ Len(b \o group) = Len(b) + Len(group) /\ b \o group # <<>>
  <2>1. b \o group \in Seq(S) /\ Len(b \o group) = Len(b) + Len(group)
    BY <1>1, <1>6, ConcatProperties
  <2>2. Len(group) \in Nat \ {0} /\ Len(b) \in Nat  BY <1>1, <1>6, EmptySeq
  <2>3. QED  BY <2>1, <2>2
<1>10. Uniform(sink, b \o group)  BY <1>1, <1>3, <1>6, UniformConcat
<1>11. CASE Len(group) > size
  <2> DEFINE p == Pieces(b \o group, size)
  <2>1. p \in Seq(P) /\ p # <<>> /\ Last(p) # <<>> /\ FlattenSeq(p) = b \o group
    BY <1>9, <1>10, PiecesProperties
  <2>2. r = [chunks |-> c \o p, batch |-> <<>>]  BY <1>4, <1>11
  <2> HIDE DEF p, b, c, P
  <2>3. p \in Seq(Seq(S))  BY <2>1, PartsAreSequences DEF P
  <2>4. FlattenSeq(c \o p) = FlattenSeq(c) \o (b \o group)  BY <1>6, <2>1, <2>3, FlattenConcat
  <2>5. c \o p \in Seq(P) /\ Len(c \o p) = Len(c) + Len(p)
        /\ \A i \in 1..(Len(c) + Len(p)) : (c \o p)[i] = IF i <= Len(c) THEN c[i] ELSE p[i - Len(c)]
    BY <1>6, <2>1, ConcatProperties
  <2>6. Last(c \o p) # <<>>
    <3>1. Len(p) \in Nat \ {0} /\ Len(c) \in Nat  BY <1>6, <2>1, EmptySeq
    <3> DEFINE h == Len(c) + Len(p)
    <3>2. h \in 1..(Len(c) + Len(p)) /\ ~(h <= Len(c)) /\ h - Len(c) = Len(p)  BY <3>1
    <3>3. (c \o p)[h] = p[Len(p)]  BY <2>5, <3>2
    <3>4. QED  BY <2>1, <2>5, <3>3 DEF Last
  <2>7. <<>> \in P  BY DEF P, Parts, Uniform
  <2>8. r \in States(sink, size, S)  BY <2>2, <2>5, <2>6, <2>7 DEF States, P
  <2>9. Through(r) = FlattenSeq(c \o p)
    <3>1. FlattenSeq(c \o p) \in Seq(S)
      BY <1>7, <1>9, <2>4, ConcatProperties
    <3>2. FlattenSeq(c \o p) \o <<>> = FlattenSeq(c \o p)  BY <3>1, ConcatEmptySeq
    <3>3. QED  BY <2>2, <3>2 DEF Through
  <2>10. QED  BY <1>7, <1>8, <2>4, <2>8, <2>9 DEF r
<1>12. CASE ~(Len(group) > size) /\ Len(b) + len <= size
  <2>1. r = [chunks |-> c, batch |-> b \o group]  BY <1>4, <1>5, <1>12
  <2>2. Len(b \o group) <= size
    <3>1. Len(b) \in Nat /\ Len(group) \in Nat  BY <1>1, <1>6
    <3>2. QED  BY <1>9, <1>12, <3>1
  <2>3. b \o group \in P  BY <1>9, <1>10, <2>2 DEF Parts
  <2> HIDE DEF b, c, P
  <2>4. r \in States(sink, size, S)  BY <1>6, <1>9, <2>1, <2>3 DEF States, P
  <2>5. Through(r) = FlattenSeq(c) \o (b \o group)  BY <2>1 DEF Through
  <2>6. QED  BY <1>7, <1>8, <2>4, <2>5 DEF r
<1>13. CASE ~(Len(group) > size) /\ ~(Len(b) + len <= size)
  <2>1. r = [chunks |-> Append(c, b), batch |-> group]  BY <1>4, <1>13 DEF Yield
  <2>2. group \in P  BY <1>1, <1>13 DEF Parts
  <2>3. b \in P  BY <1>2
  <2> HIDE DEF b, c, P
  <2>4. Append(c, b) \in Seq(P)  BY <1>6, <2>3, AppendProperties
  <2>5. r \in States(sink, size, S)  BY <1>1, <2>1, <2>2, <2>4 DEF States, P
  <2>6. FlattenSeq(Append(c, b)) = FlattenSeq(c) \o b  BY <1>6, FlattenAppend
  <2>7. Through(r) = (FlattenSeq(c) \o b) \o group  BY <2>1, <2>6 DEF Through
  <2>8. QED  BY <1>7, <2>5, <2>7 DEF r
<1>14. QED  BY <1>11, <1>12, <1>13

\* No sequence is longer than the flattening it is part of.
LEMMA FlattenLength ==
    ASSUME NEW S, NEW s \in Seq(Seq(S)), NEW m \in 1..Len(s)
    PROVE  Len(s[m]) <= Len(FlattenSeq(s))
<1>1. PICK f \in [0..Len(s) -> Seq(S)] :
         /\ f[0] = <<>> /\ \A n \in 1..Len(s) : f[n] = f[n - 1] \o s[n]
         /\ FlattenSeq(s) = f[Len(s)]
  BY FlattenRecursion
<1> DEFINE T == {n \in Nat : n \in m..Len(s) => Len(s[m]) <= Len(f[n])}
<1>2. 0 \in T  OBVIOUS
<1>3. ASSUME NEW n \in 1..Len(s), n - 1 \in T PROVE n \in T
  <2>0. n - 1 \in 0..Len(s)  OBVIOUS
  <2>1. f[n - 1] \in Seq(S) /\ s[n] \in Seq(S) /\ s[m] \in Seq(S)
    <3>1. f[n - 1] \in Seq(S)  BY <2>0
    <3>2. s[n] \in Seq(S)  OBVIOUS
    <3>3. s[m] \in Seq(S)  OBVIOUS
    <3>4. QED  BY <3>1, <3>2, <3>3
  <2>2. Len(f[n - 1] \o s[n]) = Len(f[n - 1]) + Len(s[n])  BY <2>1, ConcatProperties
  <2>3. f[n] = f[n - 1] \o s[n]  BY <1>1
  <2>4. Len(f[n - 1]) \in Nat /\ Len(s[n]) \in Nat /\ Len(s[m]) \in Nat  BY <2>1
  <2>5. Len(f[n]) = Len(f[n - 1]) + Len(s[n])  BY <2>2, <2>3
  <2> DEFINE a == Len(f[n - 1])
             b == Len(s[n])
             c == Len(f[n])
             d == Len(s[m])
  <2>6. n \in m..Len(s) => d <= c
    <3>1. CASE n = m
      <4>1. b = d  BY <3>1
      <4> HIDE DEF a, b, c, d
      <4>2. a \in Nat /\ b \in Nat /\ c = a + b  BY <2>4, <2>5 DEF a, b, c
      <4>3. QED  BY <4>1, <4>2
    <3>2. CASE n # m
      <4>1. n \in m..Len(s) => d <= a  BY <1>3, <3>2
      <4> HIDE DEF a, b, c, d
      <4>2. a \in Nat /\ b \in Nat /\ d \in Nat /\ c = a + b  BY <2>4, <2>5 DEF a, b, c, d
      <4>3. QED  BY <4>1, <4>2
    <3>3. QED  BY <3>1, <3>2
  <2>7. n \in Nat  OBVIOUS
  <2>8. QED  BY <2>6, <2>7
<1>4. Len(s) \in Nat  OBVIOUS
<1>5. 0..Len(s) \subseteq T
  <2> HIDE DEF T
  <2>1. QED  BY <1>2, <1>3, <1>4, BoundedInduction
<1>6. Len(s) \in m..Len(s) /\ Len(s) \in 0..Len(s)  OBVIOUS
<1>7. Len(s) \in T
  <2> HIDE DEF T
  <2>1. QED  BY <1>5, <1>6
<1>8. QED  BY <1>1, <1>6, <1>7

\* So are all items of a context,
LEMMA AddContainerProperties ==
    ASSUME NEW sink, NEW S, NEW size \in Nat \ {0}, NEW st \in States(sink, size, S),
           NEW items \in Seq(S)
    PROVE  /\ AddContainer(sink, size, st, items) \in States(sink, size, S)
           /\ Through(AddContainer(sink, size, st, items)) = Through(st) \o items
<1> DEFINE G == GroupBy(sink, items)
           N == Len(G)
           Q == States(sink, size, S)
           add(x, n) == AddGroup(sink, size, x, G[n], Len(items))
           step == [n \in 1..N |-> [x \in Q |-> add(x, n)]]
           Is(g) == g = [n \in 0..N |-> IF n = 0 THEN st ELSE add(g[n - 1], n)]
           F == CHOOSE g : Is(g)
<1>1. G \in Seq(Groups(sink, S)) /\ FlattenSeq(G) = items /\ G \in Seq(Seq(S))
  <2>1. G \in Seq(Groups(sink, S)) /\ FlattenSeq(G) = items  BY GroupByProperties
  <2>2. Groups(sink, S) \subseteq Seq(S)  BY DEF Groups
  <2> HIDE DEF G
  <2>3. QED  BY <2>1, <2>2, SeqMonotonic
<1>2. AddContainer(sink, size, st, items) = F[N]  BY DEF AddContainer
<1> HIDE DEF G
<1>3. N \in Nat /\ \A n \in 1..N : G[n] \in Groups(sink, S) /\ Len(G[n]) <= Len(items)
  BY <1>1, FlattenLength
<1>4. \A n \in 1..N : \A x \in Q : add(x, n) \in Q /\ Through(add(x, n)) = Through(x) \o G[n]
  <2> SUFFICES ASSUME NEW n \in 1..N, NEW x \in Q
               PROVE  add(x, n) \in Q /\ Through(add(x, n)) = Through(x) \o G[n]
    OBVIOUS
  <2>1. Len(items) \in Nat  OBVIOUS
  <2>2. G[n] \in Groups(sink, S) /\ Len(G[n]) <= Len(items)  BY <1>3
  <2> DEFINE g == G[n]
             l == Len(items)
  <2>3. g \in Groups(sink, S) /\ l \in Nat /\ Len(g) <= l  BY <2>1, <2>2
  <2> HIDE DEF g, l
  <2>4. /\ AddGroup(sink, size, x, g, l) \in Q
        /\ Through(AddGroup(sink, size, x, g, l)) = Through(x) \o g
    BY <2>3, AddGroupProperties
  <2>5. QED  BY <2>4 DEF g, l
<1>5. step \in [1..N -> [Q -> Q]]
  <2> HIDE DEF Q, N, add
  <2>1. QED  BY <1>4
<1>6. \E f \in [0..N -> Q] : Recurs(f, N, st, step)
  <2> HIDE DEF step, N
  <2>1. QED  BY <1>3, <1>5, Recursion
<1>7. PICK f \in [0..N -> Q] : Recurs(f, N, st, step)  BY <1>6
<1>8. Is(f)
  <2> HIDE DEF Q, N, add
  <2>1. \A n \in 1..N : f[n - 1] \in Q  BY <1>3
  <2>2. \A n \in 1..N : f[n] = add(f[n - 1], n)  BY <1>7, <2>1 DEF Recurs
  <2>3. f[0] = st  BY <1>7 DEF Recurs
  <2>4. QED  BY <2>2, <2>3
<1>9. Is(F)
  <2> HIDE DEF Is
  <2>1. QED  BY <1>8
<1>10. PICK p \in [0..N -> Seq(S)] :
         /\ p[0] = <<>> /\ \A n \in 1..N : p[n] = p[n - 1] \o G[n]
         /\ FlattenSeq(G) = p[N]
  BY <1>1, FlattenRecursion
<1>11. Through(st) \in Seq(S)  BY YieldProperties
<1> DEFINE T == {n \in Nat : n \in 0..N => F[n] \in Q /\ Through(F[n]) = Through(st) \o p[n]}
<1> HIDE DEF F, N, add, Q
<1>12. 0 \in T
  <2>1. F[0] = st  BY <1>3, <1>9
  <2>2. Through(st) \o <<>> = Through(st)  BY <1>11, ConcatEmptySeq
  <2>3. F[0] \in Q /\ Through(F[0]) = Through(st) \o p[0]  BY <1>10, <2>1, <2>2 DEF Q
  <2>4. QED  BY <2>3
<1>13. ASSUME NEW n \in 1..N, n - 1 \in T PROVE n \in T
  <2>1. n - 1 \in 0..N  BY <1>3
  <2>2. F[n - 1] \in Q /\ Through(F[n - 1]) = Through(st) \o p[n - 1]  BY <1>13, <2>1
  <2>3. F[n] = add(F[n - 1], n)  BY <1>3, <1>9
  <2>4. F[n] \in Q /\ Through(F[n]) = (Through(st) \o p[n - 1]) \o G[n]
    BY <1>4, <2>2, <2>3
  <2>5. p[n - 1] \in Seq(S) /\ G[n] \in Seq(S)  BY <1>3, <2>1 DEF Groups
  <2>6. (Through(st) \o p[n - 1]) \o G[n] = Through(st) \o (p[n - 1] \o G[n])
    <3>1. \A x, y, z \in Seq(S) : (x \o y) \o z = x \o (y \o z)  BY SMTT(30), ConcatAssociative
    <3>2. QED  BY <1>11, <2>5, <3>1
  <2>7. Through(F[n]) = Through(st) \o p[n]  BY <1>10, <2>4, <2>6
  <2>8. QED  BY <2>4, <2>7
<1>14. 0..N \subseteq T
  <2> HIDE DEF T
  <2>1. QED  BY <1>3, <1>12, <1>13, BoundedInduction
<1>15. N \in T /\ N \in 0..N
  <2> HIDE DEF T
  <2>1. QED  BY <1>3, <1>14
<1>16. F[N] \in Q /\ Through(F[N]) = Through(st) \o p[N]  BY <1>15
<1>17. QED  BY <1>1, <1>2, <1>10, <1>16 DEF Q

\* and those of all contexts.
LEMMA BatchedProperties ==
    ASSUME NEW sink, NEW S, NEW size \in Nat \ {0}, NEW containers \in Seq(Seq(S))
    PROVE  /\ Batched(sink, size, containers) \in States(sink, size, S)
           /\ Through(Batched(sink, size, containers)) = FlattenSeq(containers)
<1>0. ASSUME NEW x \in States(sink, size, S), NEW i \in Seq(S)
      PROVE  /\ AddContainer(sink, size, x, i) \in States(sink, size, S)
             /\ Through(AddContainer(sink, size, x, i)) = Through(x) \o i
  <2>1. AddContainer(sink, size, x, i) \in States(sink, size, S)
    BY AddContainerProperties
  <2>2. Through(AddContainer(sink, size, x, i)) = Through(x) \o i
    BY AddContainerProperties
  <2>3. QED  BY <2>1, <2>2
<1> DEFINE N == Len(containers)
           Q == States(sink, size, S)
           b == [chunks |-> <<>>, batch |-> <<>>]
           add(x, n) == AddContainer(sink, size, x, containers[n])
           step == [n \in 1..N |-> [x \in Q |-> add(x, n)]]
           Is(g) == g = [n \in 0..N |-> IF n = 0 THEN b ELSE add(g[n - 1], n)]
           F == CHOOSE g : Is(g)
<1>1. Batched(sink, size, containers) = F[N]  BY DEF Batched
<1>2. N \in Nat /\ \A n \in 1..N : containers[n] \in Seq(S)  OBVIOUS
<1>3. b \in Q /\ Through(b) = <<>>
  <2>1. <<>> \in Parts(sink, size, S) /\ <<>> \in Seq(Parts(sink, size, S))
    BY DEF Parts, Uniform
  <2>2. b \in Q  BY <2>1 DEF States
  <2>3. <<>> \in Seq(Seq(S)) /\ <<>> \in Seq(S)  OBVIOUS
  <2>4. FlattenSeq(<<>>) = <<>> /\ <<>> \o <<>> = <<>>  BY <2>3, FlattenType, ConcatEmptySeq
  <2>5. Through(b) = FlattenSeq(<<>>) \o <<>>  BY DEF Through
  <2>6. QED  BY <2>2, <2>4, <2>5
<1>4. \A n \in 1..N : \A x \in Q :
         add(x, n) \in Q /\ Through(add(x, n)) = Through(x) \o containers[n]
  <2> SUFFICES ASSUME NEW n \in 1..N, NEW x \in Q
               PROVE  add(x, n) \in Q /\ Through(add(x, n)) = Through(x) \o containers[n]
    OBVIOUS
  <2> DEFINE c == containers[n]
  <2>1. c \in Seq(S)  BY <1>2
  <2> HIDE DEF c
  <2>2. AddContainer(sink, size, x, c) \in Q /\ Through(AddContainer(sink, size, x, c)) = Through(x) \o c
    BY <1>0, <2>1
  <2>3. QED  BY <2>2 DEF c
<1>5. step \in [1..N -> [Q -> Q]]
  <2> HIDE DEF Q, N, add
  <2>1. QED  BY <1>4
<1>6. \E f \in [0..N -> Q] : Recurs(f, N, b, step)
  <2> HIDE DEF step, N, Q, b
  <2>1. QED  BY <1>2, <1>3, <1>5, Recursion
<1>7. PICK f \in [0..N -> Q] : Recurs(f, N, b, step)  BY <1>6
<1>8. Is(f)
  <2> HIDE DEF Q, N, add, b
  <2>1. \A n \in 1..N : f[n - 1] \in Q  BY <1>2
  <2>2. \A n \in 1..N : f[n] = add(f[n - 1], n)  BY <1>7, <2>1 DEF Recurs
  <2>3. f[0] = b  BY <1>7 DEF Recurs
  <2>4. QED  BY <2>2, <2>3
<1>9. Is(F)
  <2> HIDE DEF Is
  <2>1. QED  BY <1>8
<1>10. PICK p \in [0..N -> Seq(S)] :
         /\ p[0] = <<>> /\ \A n \in 1..N : p[n] = p[n - 1] \o containers[n]
         /\ FlattenSeq(containers) = p[N]
  BY FlattenRecursion
<1> DEFINE T == {n \in Nat : n \in 0..N => F[n] \in Q /\ Through(F[n]) = p[n]}
<1> HIDE DEF F, N, add, Q, b
<1>12. 0 \in T
  <2>1. F[0] = b  BY <1>2, <1>9
  <2>2. F[0] \in Q /\ Through(F[0]) = p[0]  BY <1>3, <1>10, <2>1
  <2>3. QED  BY <2>2
<1>13. ASSUME NEW n \in 1..N, n - 1 \in T PROVE n \in T
  <2>1. n - 1 \in 0..N  BY <1>2
  <2>2. F[n - 1] \in Q /\ Through(F[n - 1]) = p[n - 1]  BY <1>13, <2>1
  <2>3. F[n] = add(F[n - 1], n)  BY <1>2, <1>9
  <2>4. F[n] \in Q /\ Through(F[n]) = p[n]  BY <1>4, <1>10, <2>2, <2>3
  <2>5. QED  BY <2>4
<1>14. 0..N \subseteq T
  <2> HIDE DEF T
  <2>1. QED  BY <1>2, <1>12, <1>13, BoundedInduction
<1>15. N \in T /\ N \in 0..N
  <2> HIDE DEF T
  <2>1. QED  BY <1>2, <1>14
<1>16. F[N] \in Q /\ Through(F[N]) = p[N]  BY <1>15
<1>17. QED  BY <1>1, <1>10, <1>16 DEF Q

\* The chunks a sink is called with hold the contexts' items, each once and
\* in order, none is larger than the size, and where the sink is
\* AtomicPerPartition all items of a chunk are of one partition.
THEOREM ChunksKeepAll ==
    ASSUME NEW sink, NEW S, NEW size \in Nat \ {0}, NEW containers \in Seq(Seq(S))
    PROVE  /\ Chunks(sink, size, containers) \in Seq(Parts(sink, size, S))
           /\ FlattenSeq(Chunks(sink, size, containers)) = FlattenSeq(containers)
           /\ Chunks(sink, size, containers) = <<>> \/ Last(Chunks(sink, size, containers)) # <<>>
<1> DEFINE end == Batched(sink, size, containers)
<1>1. end \in States(sink, size, S) /\ Through(end) = FlattenSeq(containers)
  BY BatchedProperties
<1>2. Chunks(sink, size, containers)
        = IF end.batch = <<>> THEN end.chunks ELSE Append(end.chunks, end.batch)
  BY DEF Chunks, Yield
<1> HIDE DEF end
<1>3. end.chunks \in Seq(Parts(sink, size, S)) /\ end.batch \in Parts(sink, size, S)
  BY <1>1 DEF States
<1>4. CASE end.batch = <<>>
  <2>1. end.chunks \in Seq(Seq(S))  BY <1>3, PartsAreSequences
  <2>2. FlattenSeq(end.chunks) \o <<>> = FlattenSeq(end.chunks)
    BY <2>1, FlattenType, ConcatEmptySeq
  <2>3. QED  BY <1>1, <1>2, <1>3, <1>4, <2>2 DEF States, Through
<1>5. CASE end.batch # <<>>
  <2> DEFINE c == end.chunks
             b == end.batch
             P == Parts(sink, size, S)
  <2>1. FlattenSeq(Append(c, b)) = Through(end) /\ Append(c, b) \in Seq(P)
    BY <1>1, YieldProperties
  <2>2. c \in Seq(P) /\ b \in P  BY <1>3
  <2> HIDE DEF c, b, P
  <2>3. Append(c, b) # <<>> /\ Last(Append(c, b)) = b
    BY <2>2, AppendProperties DEF Last
  <2>4. QED  BY <1>1, <1>2, <1>5, <2>1, <2>3 DEF c, b, P
<1>6. QED  BY <1>4, <1>5

-----------------------------------------------------------------------------
(* The filters.  In what passes them, each context that stores to a        *)
(* partition builds on all that those before it store there.               *)

ContextsOf(K) == [stored : Seq(K), loaded : SUBSET K, published : Seq(K),
                  base : [K -> Nat], epoch : [K -> Nat]]

\* StoredTo counts occurrences.
LEMMA StoredToOccurs ==
    ASSUME NEW K, NEW c \in ContextsOf(K), NEW k
    PROVE  /\ StoredTo(c, k) = Occurs(c.stored, {k})
           /\ StoredTo(c, k) \in Nat
           /\ StoredTo(c, k) > 0 <=> k \in ToSet(c.stored)
<1> DEFINE s == c.stored
<1>1. s \in Seq(K)  BY DEF ContextsOf
<1>2. {n \in DOMAIN s : s[n] = k} = {n \in DOMAIN s : s[n] \in {k}}  OBVIOUS
<1>3. StoredTo(c, k) = Occurs(s, {k})  BY <1>2 DEF StoredTo, Occurs
<1> HIDE DEF s
<1>4. Occurs(s, {k}) \in 0..Len(s)  BY <1>1, OccursBounds
<1>5. Occurs(s, {k}) = 0 <=> \A n \in DOMAIN s : s[n] \notin {k}  BY <1>1, OccursBounds
<1>6. Occurs(s, {k}) \in Nat
  <2>1. Len(s) \in Nat  BY <1>1
  <2>2. QED  BY <1>4, <2>1
<1>7. StoredTo(c, k) > 0 <=> k \in ToSet(s)  BY <1>3, <1>5, <1>6 DEF ToSet
<1>8. QED  BY <1>3, <1>6, <1>7 DEF s

\* The recursion StoredBy is defined by.
LEMMA StoredByRecursion ==
    ASSUME NEW K, NEW cs \in Seq(ContextsOf(K)), NEW k
    PROVE  /\ StoredBy(cs, k)[0] = 0
           /\ \A i \in 1..Len(cs) : StoredBy(cs, k)[i] = StoredBy(cs, k)[i - 1] + StoredTo(cs[i], k)
           /\ \A i \in 0..Len(cs) : StoredBy(cs, k)[i] \in Nat
<1> DEFINE N == Len(cs)
           step == [i \in 1..N |-> [x \in Nat |-> x + StoredTo(cs[i], k)]]
           Is(g) == g = [i \in 0..N |-> IF i = 0 THEN 0 ELSE g[i - 1] + StoredTo(cs[i], k)]
           F == CHOOSE g : Is(g)
<1>0. StoredBy(cs, k) = F  BY DEF StoredBy
<1>1. N \in Nat /\ \A i \in 1..N : cs[i] \in ContextsOf(K)  OBVIOUS
<1>2. \A i \in 1..N : StoredTo(cs[i], k) \in Nat
  <2> SUFFICES ASSUME NEW i \in 1..N PROVE StoredTo(cs[i], k) \in Nat  OBVIOUS
  <2> DEFINE c == cs[i]
  <2>1. c \in ContextsOf(K)  BY <1>1
  <2> HIDE DEF c
  <2>2. StoredTo(c, k) \in Nat  BY <2>1, StoredToOccurs
  <2>3. QED  BY <2>2 DEF c
<1>3. step \in [1..N -> [Nat -> Nat]]
  <2> HIDE DEF N
  <2>1. QED  BY <1>2
<1>4. \E f \in [0..N -> Nat] : Recurs(f, N, 0, step)
  <2> HIDE DEF step, N
  <2>1. QED  BY <1>1, <1>3, Recursion
<1>5. PICK f \in [0..N -> Nat] : Recurs(f, N, 0, step)  BY <1>4
<1>6. Is(f)
  <2> HIDE DEF N
  <2>1. \A i \in 1..N : f[i - 1] \in Nat  BY <1>1
  <2>2. \A i \in 1..N : f[i] = f[i - 1] + StoredTo(cs[i], k)  BY <1>5, <2>1 DEF Recurs
  <2>3. f[0] = 0  BY <1>5 DEF Recurs
  <2>4. QED  BY <2>2, <2>3
<1>7. Is(F)
  <2> HIDE DEF Is
  <2>1. QED  BY <1>6
<1> HIDE DEF F, N
<1>8. F[0] = 0 /\ \A i \in 1..N : F[i] = F[i - 1] + StoredTo(cs[i], k)
  BY <1>1, <1>7
<1> DEFINE T == {i \in Nat : i \in 0..N => F[i] \in Nat}
<1>9. 0 \in T  BY <1>8
<1>10. ASSUME NEW i \in 1..N, i - 1 \in T PROVE i \in T
  <2>1. F[i - 1] \in Nat /\ StoredTo(cs[i], k) \in Nat  BY <1>1, <1>2, <1>10
  <2>2. F[i] \in Nat  BY <1>8, <2>1
  <2>3. QED  BY <2>2
<1>11. 0..N \subseteq T
  <2> HIDE DEF T
  <2>1. QED  BY <1>1, <1>9, <1>10, BoundedInduction
<1>12. \A i \in 0..N : F[i] \in Nat  BY <1>11
<1>13. QED  BY <1>0, <1>8, <1>12 DEF N

\* Counts never decrease.
LEMMA StoredByGrows ==
    ASSUME NEW K, NEW cs \in Seq(ContextsOf(K)), NEW k,
           NEW a \in 0..Len(cs), NEW b \in a..Len(cs)
    PROVE  StoredBy(cs, k)[a] <= StoredBy(cs, k)[b]
<1> DEFINE F == StoredBy(cs, k)
           N == Len(cs)
           T == {i \in Nat : i \in a..N => F[a] <= F[i]}
<1>1. /\ N \in Nat
      /\ \A i \in 1..N : F[i] = F[i - 1] + StoredTo(cs[i], k)
      /\ \A i \in 0..N : F[i] \in Nat
      /\ \A i \in 1..N : StoredTo(cs[i], k) \in Nat
  <2>1. \A i \in 1..N : F[i] = F[i - 1] + StoredTo(cs[i], k)  BY StoredByRecursion
  <2>2. \A i \in 0..N : F[i] \in Nat  BY StoredByRecursion
  <2>3. ASSUME NEW i \in 1..N PROVE StoredTo(cs[i], k) \in Nat
    <3> DEFINE c == cs[i]
    <3>1. c \in ContextsOf(K)  OBVIOUS
    <3> HIDE DEF c
    <3>2. StoredTo(c, k) \in Nat  BY <3>1, StoredToOccurs
    <3>3. QED  BY <3>2 DEF c
  <2>4. QED  BY <2>1, <2>2, <2>3
<1>2. a \in 0..N /\ b \in a..N  OBVIOUS
<1> HIDE DEF F, N
<1>3. 0 \in T  BY <1>1, <1>2
<1>4. ASSUME NEW i \in 1..N, i - 1 \in T PROVE i \in T
  <2>1. F[i] = F[i - 1] + StoredTo(cs[i], k)  BY <1>1
  <2>2. F[i - 1] \in Nat /\ StoredTo(cs[i], k) \in Nat /\ F[i] \in Nat /\ F[a] \in Nat
    <3>1. i - 1 \in 0..N /\ i \in 0..N  BY <1>1
    <3>2. QED  BY <1>1, <1>2, <3>1
  <2>3. i \in a..N => F[a] <= F[i]
    <3>1. CASE i = a  BY <2>2, <3>1
    <3>2. CASE i # a
      <4>1. i \in a..N => F[a] <= F[i - 1]  BY <1>1, <1>2, <1>4, <3>2
      <4>2. QED  BY <2>1, <2>2, <4>1
    <3>3. QED  BY <3>1, <3>2
  <2>4. QED  BY <2>3
<1>5. 0..N \subseteq T
  <2> HIDE DEF T
  <2>1. QED  BY <1>1, <1>3, <1>4, BoundedInduction
<1>6. b \in T
  <2>1. b \in 0..N  BY <1>1, <1>2
  <2> HIDE DEF T
  <2>2. QED  BY <1>5, <2>1
<1>7. QED  BY <1>2, <1>6 DEF F

\* What contexts that store nothing to k add up to.
LEMMA StoredByNone ==
    ASSUME NEW K, NEW cs \in Seq(ContextsOf(K)), NEW k, NEW m \in 0..Len(cs),
           \A i \in 1..m : StoredTo(cs[i], k) = 0
    PROVE  StoredBy(cs, k)[m] = 0
<1> DEFINE F == StoredBy(cs, k)
           T == {i \in Nat : i \in 0..m => F[i] = 0}
<1>1. F[0] = 0 /\ \A i \in 1..Len(cs) : F[i] = F[i - 1] + StoredTo(cs[i], k)
  <2>1. F[0] = 0  BY StoredByRecursion
  <2>2. \A i \in 1..Len(cs) : F[i] = F[i - 1] + StoredTo(cs[i], k)  BY StoredByRecursion
  <2>3. QED  BY <2>1, <2>2
<1> HIDE DEF F
<1>2. 0 \in T  BY <1>1
<1>3. ASSUME NEW i \in 1..m, i - 1 \in T PROVE i \in T
  <2>1. i \in 1..Len(cs) /\ i - 1 \in 0..m  OBVIOUS
  <2>2. F[i] = F[i - 1] + StoredTo(cs[i], k) /\ F[i - 1] = 0 /\ StoredTo(cs[i], k) = 0
    BY <1>1, <1>3, <2>1
  <2>3. F[i] = 0  BY <2>2
  <2>4. QED  BY <2>3
<1>4. m \in Nat  OBVIOUS
<1>5. 0..m \subseteq T
  <2> HIDE DEF T
  <2>1. QED  BY <1>2, <1>3, <1>4, BoundedInduction
<1>6. m \in T
  <2> HIDE DEF T
  <2>1. QED  BY <1>4, <1>5
<1>7. QED  BY <1>6 DEF F

\* The counts of a prefix are those of the whole.
LEMMA StoredByPrefix ==
    ASSUME NEW K, NEW cs \in Seq(ContextsOf(K)), NEW k, NEW m \in 0..Len(cs),
           NEW d \in Seq(ContextsOf(K)), Len(d) = m, \A i \in 1..m : d[i] = cs[i],
           NEW n \in 0..m
    PROVE  StoredBy(d, k)[n] = StoredBy(cs, k)[n]
<1> DEFINE F == StoredBy(cs, k)
           G == StoredBy(d, k)
           T == {i \in Nat : i \in 0..m => G[i] = F[i]}
<1>1. F[0] = 0 /\ \A i \in 1..Len(cs) : F[i] = F[i - 1] + StoredTo(cs[i], k)
  <2>1. F[0] = 0  BY StoredByRecursion
  <2>2. \A i \in 1..Len(cs) : F[i] = F[i - 1] + StoredTo(cs[i], k)  BY StoredByRecursion
  <2>3. QED  BY <2>1, <2>2
<1>2. G[0] = 0 /\ \A i \in 1..m : G[i] = G[i - 1] + StoredTo(d[i], k)
  <2>1. G[0] = 0  BY StoredByRecursion
  <2>2. \A i \in 1..Len(d) : G[i] = G[i - 1] + StoredTo(d[i], k)  BY StoredByRecursion
  <2>3. QED  BY <2>1, <2>2
<1> HIDE DEF F, G
<1>3. 0 \in T  BY <1>1, <1>2
<1>4. ASSUME NEW i \in 1..m, i - 1 \in T PROVE i \in T
  <2>1. i \in 1..Len(cs) /\ i - 1 \in 0..m  OBVIOUS
  <2>2. G[i - 1] = F[i - 1] /\ d[i] = cs[i]  BY <1>4, <2>1
  <2>3. G[i] = F[i]  BY <1>1, <1>2, <2>1, <2>2
  <2>4. QED  BY <2>3
<1>5. m \in Nat  OBVIOUS
<1>6. 0..m \subseteq T
  <2> HIDE DEF T
  <2>1. QED  BY <1>3, <1>4, <1>5, BoundedInduction
<1>7. n \in T
  <2> HIDE DEF T
  <2>1. QED  BY <1>6
<1>8. QED  BY <1>7 DEF F, G

\* The least member of a set of positions, or one more than there are.
LEMMA FirstPosition ==
    ASSUME NEW N \in Nat, NEW B \in SUBSET (1..N)
    PROVE  LET v == IF B = {} THEN N + 1 ELSE CHOOSE i \in B : \A j \in B : i <= j
           IN  v \in 1..(N + 1) /\ \A i \in B : v <= i
<1> DEFINE least == CHOOSE i \in B : \A j \in B : i <= j
<1>1. CASE B = {}  BY <1>1
<1>2. CASE B # {}
  <2>1. \E i \in B : \A j \in B : i <= j
    <3>1. B \in SUBSET Nat  OBVIOUS
    <3>2. QED  BY <1>2, <3>1, LeastElement
  <2>2. least \in B /\ \A j \in B : least <= j  BY <2>1
  <2> HIDE DEF least
  <2>3. least \in 1..(N + 1)  BY <2>2
  <2>4. QED  BY <1>2, <2>2, <2>3 DEF least
<1>3. QED  BY <1>1, <1>2

\* The first stale context is one of them, or one more than there are.
LEMMA FirstStaleType ==
    ASSUME NEW K, NEW cs \in Seq(ContextsOf(K)), NEW now
    PROVE  FirstStale(cs, now) \in 1..(Len(cs) + 1)
<1> DEFINE stale == {i \in DOMAIN cs : \E k \in cs[i].loaded : cs[i].epoch[k] < now[k]}
           N == Len(cs)
<1>1. FirstStale(cs, now) = IF stale = {} THEN N + 1
                               ELSE CHOOSE i \in stale : \A j \in stale : i <= j
  BY DEF FirstStale
<1>2. N \in Nat /\ stale \in SUBSET (1..N)  OBVIOUS
<1> HIDE DEF stale, N
<1>3. (IF stale = {} THEN N + 1 ELSE CHOOSE i \in stale : \A j \in stale : i <= j) \in 1..(N + 1)
  BY <1>2, FirstPosition
<1>4. QED  BY <1>1, <1>3 DEF N

\* Where the first context that stores to k started.
StoringTo(cs, k) == {i \in DOMAIN cs : StoredTo(cs[i], k) > 0}
FirstOf(cs, k) == CHOOSE j \in StoringTo(cs, k) : \A h \in StoringTo(cs, k) : j <= h
Origin(cs, k) == cs[FirstOf(cs, k)].base[k]

\* Context i starts where those before it end, as far as it stores at all.
Linear(cs, i, k) == StoredTo(cs[i], k) > 0 => cs[i].base[k] = Origin(cs, k) + StoredBy(cs, k)[i - 1]

LEMMA FirstOfProperties ==
    ASSUME NEW K, NEW cs \in Seq(ContextsOf(K)), NEW k, StoringTo(cs, k) # {}
    PROVE  /\ FirstOf(cs, k) \in StoringTo(cs, k)
           /\ \A h \in StoringTo(cs, k) : FirstOf(cs, k) <= h
           /\ \A j \in StoringTo(cs, k) : (\A h \in StoringTo(cs, k) : j <= h) => j = FirstOf(cs, k)
<1> DEFINE B == StoringTo(cs, k)
           f == FirstOf(cs, k)
<1>1. B \in SUBSET Nat
  <2>1. DOMAIN cs = 1..Len(cs)  OBVIOUS
  <2>2. QED  BY <2>1 DEF StoringTo
<1>2. \E j \in B : \A h \in B : j <= h
  <2> HIDE DEF B
  <2>1. B # {}  BY DEF B
  <2>2. QED  BY <1>1, <2>1, LeastElement
<1>3. f \in B /\ \A h \in B : f <= h
  <2>1. f = CHOOSE j \in B : \A h \in B : j <= h  BY DEF FirstOf
  <2> HIDE DEF B, f
  <2>2. QED  BY <1>2, <2>1
<1> HIDE DEF B, f
<1>4. \A j \in B : (\A h \in B : j <= h) => j = f
  <2> SUFFICES ASSUME NEW j \in B, \A h \in B : j <= h PROVE j = f  OBVIOUS
  <2>1. j <= f /\ f <= j /\ j \in Nat /\ f \in Nat  BY <1>1, <1>3
  <2>2. QED  BY <2>1
<1>5. QED  BY <1>3, <1>4 DEF B, f

\* What the filter lets pass of the first m contexts is linear.
LEMMA FilteredIsLinear ==
    ASSUME NEW K, NEW cs \in Seq(ContextsOf(K)), NEW m \in 0..Len(cs)
    PROVE  LET d == SubSeq(cs, 1, m)
           IN  /\ FirstNonLinear(d) \in 1..(m + 1)
               /\ \A i \in 1..m : i < FirstNonLinear(d) => \A k : Linear(cs, i, k)
<1> DEFINE d == SubSeq(cs, 1, m)
           before(i, k) == {j \in 1..(i - 1) : StoredTo(d[j], k) > 0}
           first(i, k) == CHOOSE j \in before(i, k) : \A h \in before(i, k) : j <= h
           reached(i, k) == d[first(i, k)].base[k] + StoredBy(d, k)[i - 1]
           breaks == {i \in DOMAIN d : \E k \in ToSet(d[i].stored) :
                        before(i, k) # {} /\ d[i].base[k] # reached(i, k)}
           v == FirstNonLinear(d)
<1>1. d \in Seq(ContextsOf(K)) /\ Len(d) = m /\ \A i \in 1..m : d[i] = cs[i]  OBVIOUS
<1>2. v = IF breaks = {} THEN Len(d) + 1 ELSE CHOOSE i \in breaks : \A j \in breaks : i <= j
  BY DEF FirstNonLinear
<1> HIDE DEF d
<1>3. m \in Nat /\ breaks \in SUBSET (1..m)  BY <1>1
<1>4. v \in 1..(m + 1) /\ \A i \in breaks : v <= i
  <2> HIDE DEF v, breaks
  <2> DEFINE w == IF breaks = {} THEN m + 1 ELSE CHOOSE i \in breaks : \A j \in breaks : i <= j
  <2>1. w \in 1..(m + 1)  BY <1>3, FirstPosition
  <2>2. \A i \in breaks : w <= i  BY <1>3, FirstPosition
  <2>3. QED  BY <1>1, <1>2, <2>1, <2>2
<1>5. ASSUME NEW i \in 1..m, i < v, NEW k, StoredTo(cs[i], k) > 0
      PROVE  cs[i].base[k] = Origin(cs, k) + StoredBy(cs, k)[i - 1]
  <2>1. i \notin breaks
    <3> HIDE DEF v, breaks
    <3>1. v \in Nat /\ ~(v <= i)  BY <1>4, <1>5
    <3>2. QED  BY <1>4, <3>1
  <2>2. k \in ToSet(d[i].stored)
    <3>1. cs[i] \in ContextsOf(K)
      <4>1. i \in 1..Len(cs)  OBVIOUS
      <4>2. QED  BY <4>1
    <3>2. k \in ToSet(cs[i].stored)  BY <1>5, <3>1, StoredToOccurs
    <3>3. QED  BY <1>1, <3>2
  <2>3. before(i, k) = {} \/ d[i].base[k] = reached(i, k)
    <3>1. i \in DOMAIN d  BY <1>1
    <3>2. QED  BY <2>1, <2>2, <3>1
  <2> DEFINE B == StoringTo(cs, k)
             f == FirstOf(cs, k)
  <2>4. i \in B  BY <1>5 DEF StoringTo
  <2>5. /\ f \in B /\ \A h \in B : f <= h
        /\ \A j \in B : (\A h \in B : j <= h) => j = f
    <3>1. B # {}  BY <2>4
    <3>2. f \in B  BY <3>1, FirstOfProperties
    <3>3. \A h \in B : f <= h  BY <3>1, FirstOfProperties
    <3>4. \A j \in B : (\A h \in B : j <= h) => j = f  BY <3>1, FirstOfProperties
    <3>5. QED  BY <3>2, <3>3, <3>4
  <2>6. B \in SUBSET (1..Len(cs)) /\ \A j \in 1..Len(cs) : j \in B <=> StoredTo(cs[j], k) > 0
    BY DEF StoringTo
  <2>7. before(i, k) = {j \in B : j < i}
    <3>1. \A j \in 1..(i - 1) : j \in 1..m /\ j \in 1..Len(cs)  OBVIOUS
    <3>2. \A j \in 1..(i - 1) : StoredTo(d[j], k) > 0 <=> j \in B  BY <1>1, <2>6, <3>1
    <3>3. \A j \in B : j < i => j \in 1..(i - 1)  BY <2>6
    <3> HIDE DEF B
    <3>4. \A j \in {h \in B : h < i} : j \in 1..(i - 1)  BY <3>3
    <3>5. \A j \in 1..(i - 1) : j < i  OBVIOUS
    <3>6. QED  BY <3>2, <3>4, <3>5
  <2>8. StoredBy(d, k)[i - 1] = StoredBy(cs, k)[i - 1]
    <3>1. i - 1 \in 0..m  OBVIOUS
    <3>2. QED  BY <1>1, <3>1, StoredByPrefix
  <2>9. CASE before(i, k) = {}
    <3>1. f = i
      <4>1. \A h \in B : ~(h < i)  BY <2>7, <2>9
      <4>2. \A h \in B : i <= h  BY <2>6, <4>1
      <4>3. QED  BY <2>4, <2>5, <4>2
    <3>2. \A j \in 1..(i - 1) : StoredTo(cs[j], k) = 0
      <4> SUFFICES ASSUME NEW j \in 1..(i - 1) PROVE StoredTo(cs[j], k) = 0  OBVIOUS
      <4>1. j \in 1..Len(cs) /\ cs[j] \in ContextsOf(K)
        <5>1. j \in 1..Len(cs)  OBVIOUS
        <5>2. QED  BY <5>1
      <4>2. StoredTo(cs[j], k) \in Nat
        <5> DEFINE c == cs[j]
        <5>1. c \in ContextsOf(K)  BY <4>1
        <5> HIDE DEF c
        <5>2. StoredTo(c, k) \in Nat  BY <5>1, StoredToOccurs
        <5>3. QED  BY <5>2 DEF c
      <4>3. j \notin B  BY <2>7, <2>9
      <4>4. ~(StoredTo(cs[j], k) > 0)  BY <2>6, <4>1, <4>3
      <4>5. QED  BY <4>2, <4>4
    <3>3. StoredBy(cs, k)[i - 1] = 0
      <4>1. i - 1 \in 0..Len(cs)  OBVIOUS
      <4>2. QED  BY <3>2, <4>1, StoredByNone
    <3>4. cs[i].base[k] \in Nat
      <4>1. cs[i] \in ContextsOf(K) /\ k \in K
        <5>1. i \in 1..Len(cs)  OBVIOUS
        <5>2. cs[i] \in ContextsOf(K)  BY <5>1
        <5>3. cs[i].stored \in Seq(K) /\ k \in ToSet(cs[i].stored)
          BY <1>1, <2>2, <5>2 DEF ContextsOf
        <5>4. k \in K  BY <5>3 DEF ToSet
        <5>5. QED  BY <5>2, <5>4
      <4>2. QED  BY <4>1 DEF ContextsOf
    <3>5. Origin(cs, k) = cs[i].base[k]  BY <3>1 DEF Origin
    <3>6. QED  BY <3>3, <3>4, <3>5
  <2>10. CASE before(i, k) # {}
    <3>1. f < i /\ f \in before(i, k)
      <4>1. PICK j \in B : j < i  BY <2>7, <2>10
      <4>2. f <= j /\ f \in Int /\ j \in Int  BY <2>5, <2>6, <4>1
      <4>3. f < i  BY <4>1, <4>2
      <4>4. QED  BY <2>5, <2>7, <4>3
    <3>2. first(i, k) = f
      <4> DEFINE X == before(i, k)
                 p == first(i, k)
      <4>1. X \subseteq B /\ \A h \in X : f <= h  BY <2>5, <2>7
      <4>2. p = CHOOSE j \in X : \A h \in X : j <= h  OBVIOUS
      <4>3. f \in X  BY <3>1
      <4> HIDE DEF X, p, B, f
      <4>4. p \in X /\ p <= f  BY <4>1, <4>2, <4>3
      <4>5. f <= p  BY <4>1, <4>4
      <4>6. p \in Int /\ f \in Int  BY <2>6, <4>1, <4>3, <4>4
      <4>7. p = f  BY <4>4, <4>5, <4>6
      <4>8. QED  BY <4>7 DEF p, f
    <3>3. d[f] = cs[f] /\ d[i] = cs[i]
      <4>1. f \in 1..m  BY <2>5, <2>6, <3>1
      <4>2. QED  BY <1>1, <4>1
    <3>4. d[i].base[k] = d[f].base[k] + StoredBy(d, k)[i - 1]  BY <2>3, <2>10, <3>2
    <3>5. QED  BY <2>8, <3>3, <3>4 DEF Origin
  <2>11. QED  BY <2>9, <2>10
<1>6. QED
  <2> HIDE DEF v, breaks
  <2>1. \A i \in 1..m : i < v => \A k : Linear(cs, i, k)  BY <1>5 DEF Linear
  <2>2. QED  BY <1>4, <2>1 DEF v, d

\* Of two contexts that store to k the later one starts no earlier than where
\* the other ends.
LEMMA LinearOrder ==
    ASSUME NEW K, NEW cs \in Seq(ContextsOf(K)), NEW k \in K,
           NEW i \in 1..Len(cs), NEW j \in 1..Len(cs), i < j,
           StoredTo(cs[i], k) > 0, StoredTo(cs[j], k) > 0, Linear(cs, i, k), Linear(cs, j, k)
    PROVE  cs[i].base[k] + StoredTo(cs[i], k) <= cs[j].base[k]
<1> DEFINE F == StoredBy(cs, k)
           o == Origin(cs, k)
           s == StoredTo(cs[i], k)
<1>1. o \in Nat
  <2>1. StoringTo(cs, k) # {}  BY DEF StoringTo
  <2>2. FirstOf(cs, k) \in StoringTo(cs, k)  BY <2>1, FirstOfProperties
  <2>3. FirstOf(cs, k) \in DOMAIN cs  BY <2>2 DEF StoringTo
  <2> DEFINE h == FirstOf(cs, k)
  <2> HIDE DEF h
  <2>4. cs[h] \in ContextsOf(K)  BY <2>3 DEF h
  <2>5. cs[h].base[k] \in Nat  BY <2>4 DEF ContextsOf
  <2>6. QED  BY <2>5 DEF h, Origin
<1>2. F[i] = F[i - 1] + s  BY StoredByRecursion
<1>3. F[i] \in Nat /\ F[i - 1] \in Nat /\ F[j - 1] \in Nat
  <2>1. i \in 0..Len(cs) /\ i - 1 \in 0..Len(cs) /\ j - 1 \in 0..Len(cs)  OBVIOUS
  <2>2. \A n \in 0..Len(cs) : F[n] \in Nat  BY StoredByRecursion
  <2> HIDE DEF F
  <2>3. QED  BY <2>1, <2>2
<1>4. F[i] <= F[j - 1]
  <2>1. i \in 0..Len(cs) /\ j - 1 \in i..Len(cs)  OBVIOUS
  <2>2. QED  BY <2>1, StoredByGrows
<1>5. s \in Nat
  <2> DEFINE c == cs[i]
  <2>1. c \in ContextsOf(K)  OBVIOUS
  <2> HIDE DEF c
  <2>2. StoredTo(c, k) \in Nat  BY <2>1, StoredToOccurs
  <2>3. QED  BY <2>2 DEF c
<1>6. cs[i].base[k] = o + F[i - 1] /\ cs[j].base[k] = o + F[j - 1]  BY DEF Linear
<1> HIDE DEF F, o, s
<1>7. o + F[i - 1] + s <= o + F[j - 1]  BY SMTT(30), <1>1, <1>2, <1>3, <1>4, <1>5
<1>8. QED  BY <1>6, <1>7 DEF s

-----------------------------------------------------------------------------
(* The inductive invariant.                                                *)

Targets == {"store", "publish"}
Errors == {"none", "conflict", "other"}
ItemSet(target) ==
    IF target = "store"
    THEN [ctx : Index, key : Key, sn : Nat, verify : BOOLEAN, last : BOOLEAN]
    ELSE [ctx : Index, key : Key, last : BOOLEAN]

FramesFor(target) ==
    [target : {target}, done : Seq(Index), items : Seq(Index), size : Nat, completed : Nat,
     chunks : Seq(Seq(ItemSet(target)))]
Frames == FramesFor("store") \cup FramesFor("publish")
Results == [successful : Seq(Index), failed : Seq(Index), error : Errors, retryable : BOOLEAN]

Types ==
    /\ sinks \in [store : StoreSinks, publish : PublishSinks]
    /\ contexts \in Seq(ContextsOf(Key)) /\ Len(contexts) = Contexts
    /\ \A i \in Index, k \in Key : contexts[i].epoch[k] <= 2
    /\ epochs \in [Key -> Nat] /\ \A k \in Key : epochs[k] >= 2
    /\ events \in [Key -> Seq(0..Contexts)]
    /\ sent \in Seq(Index)
    /\ pc \in {"handle", "store", "publish", "partial", "done"}
    /\ frame \in Frames
    /\ storeOutcome \in Results
    /\ outcome \in [error : Errors, at : 1..(Contexts + 1)]
    /\ attempt \in 1..MaxAttempts
    /\ faults \in 0..MaxFaults

\* In partition k, what other processes stored comes first, and an event of
\* context i is among those that follow the ones its state was computed from.
Placed(k) ==
    \A p \in DOMAIN events[k] :
        IF events[k][p] = 0
        THEN \A q \in 1..p : events[k][q] = 0
        ELSE LET i == events[k][p]
             IN  /\ StoredTo(contexts[i], k) > 0 /\ Linear(contexts, i, k)
                 /\ contexts[i].base[k] < p
                 /\ p <= contexts[i].base[k] + StoredTo(contexts[i], k)

\* All that context i stored is in the store.
Whole(i) == \A k \in Key : Times(events[k], i) = StoredTo(contexts[i], k)

\* What context i only loaded was, when it was stored, what it had loaded.
Current(i, k) == {n \in DOMAIN events[k] : events[k][n] < i} = 1..contexts[i].base[k]
OnlyLoaded(i) == {k \in contexts[i].loaded : StoredTo(contexts[i], k) = 0}
Settled(i) == Whole(i) /\ (Serial => \A k \in OnlyLoaded(i) : Current(i, k))

\* All that context i was computed from has been invalidated.
Gone(i) == \A k \in contexts[i].loaded : epochs[k] > contexts[i].epoch[k]

\* The contexts a frame works on are those from Start + 1 to End; the first
\* Passed of the batch have completed.
Span(a, b) == [n \in 1..(b - a) |-> a + n]
Start(f) == Len(f.done)
End(f) == Len(f.done) + Len(f.items)
Passed(f) == Len(f.done) + f.completed

\* The items a frame has yet to pass to its sink, and those of them that add
\* to partition k for context i, or verify it.
Pending(f) == FlattenSeq(f.chunks)
Adds(i, k) == {x \in ItemSet("store") : x.ctx = i /\ x.key = k /\ ~x.verify}
Verifies(i, k) == {x \in ItemSet("store") : x.ctx = i /\ x.key = k /\ x.verify}

\* Items of contexts a + 1 to b in their order; the last item of a context is
\* the last one.
Ordered(s, a, b) ==
    /\ \A n \in DOMAIN s : a < s[n].ctx /\ s[n].ctx <= b
    /\ \A m, n \in DOMAIN s :
          m < n => s[m].ctx <= s[n].ctx /\ (s[m].last => s[m].ctx < s[n].ctx)

Shaped(f) ==
    f.chunks # <<>> =>
        /\ f.size > 0 /\ (Sink(f.target).maxBatch > 0 => f.size <= Sink(f.target).maxBatch)
        /\ f.chunks \in Seq(Parts(Sink(f.target), f.size, ItemSet(f.target)))
        /\ Last(f.chunks) # <<>>
        /\ f.done = Prefix(Start(f)) /\ f.items = Span(Start(f), End(f)) /\ End(f) <= Contexts
        /\ Ordered(Pending(f), Passed(f), End(f))

\* What a frame for the store has yet to add are events of contexts that passed
\* the filter, at the sequence number their state had; with it, these contexts
\* are settled.
Storing(f) ==
    /\ f.target = "store"
    /\ f.chunks # <<>> => End(f) = Good
    /\ \A n \in DOMAIN Pending(f) :
          Pending(f)[n].sn = contexts[Pending(f)[n].ctx].base[Pending(f)[n].key]
    /\ \A i \in Index, k \in Key :
          Occurs(Pending(f), Adds(i, k)) <= StoredTo(contexts[i], k)
    /\ \A i \in 1..Good :
          /\ \A k \in Key : Times(events[k], i) + Occurs(Pending(f), Adds(i, k))
                                >= StoredTo(contexts[i], k)
          /\ Serial => \A k \in OnlyLoaded(i) :
                            Current(i, k) \/ Occurs(Pending(f), Verifies(i, k)) > 0

\* The contexts before the one at which storing failed are settled, and no later
\* one is published; after a conflict those from there on are invalidated.
Partial ==
    /\ storeOutcome.error # "none" /\ storeOutcome.failed # <<>>
    /\ \A i \in Index : i < Head(storeOutcome.failed) => Settled(i)
    /\ frame.chunks # <<>> => End(frame) < Head(storeOutcome.failed)
    /\ storeOutcome.error = "conflict" =>
           \A i \in Index : i >= Head(storeOutcome.failed) => Gone(i)

Concluded ==
    /\ \A i \in Acknowledged : Settled(i)
    /\ \A i \in HandledAnew : Gone(i)

SinkInv ==
    /\ Types
    /\ \A k \in Key : Placed(k)
    /\ \A i \in ToSet(sent) : Whole(i)
    /\ Shaped(frame)
    /\ pc \in {"handle", "done"} => frame.chunks = <<>>
    /\ pc = "store" => Storing(frame)
    /\ pc \in {"publish", "partial"} => frame.target = "publish"
    /\ pc = "publish" => \A i \in Index : Settled(i)
    /\ pc = "partial" => Partial
    /\ pc = "done" => Concluded

\* If no sink fails of itself, serial contexts pass the filter, and those before
\* a conflict are published.
Sends(i) == {x \in ItemSet("publish") : x.ctx = i}
Publishing(i) ==
    Times(sent, i) + Occurs(Pending(frame), Sends(i)) >= Len(contexts[i].published)

PublishInv ==
    Serial /\ faults = 0 =>
        /\ pc = "handle" => \A k \in Key : epochs[k] = 2
        /\ pc = "store" => Good = Contexts
        /\ pc = "publish" => \A i \in Index : Publishing(i)
        /\ pc = "partial" => /\ storeOutcome.error = "conflict"
                             /\ \A i \in 1..(Head(storeOutcome.failed) - 1) : Publishing(i)
        /\ AcknowledgedIsPublished

\* If no sink fails of itself and each context has one item for the store, the
\* pending items are those of the contexts after the last one stored, and nothing
\* of these is in the store.
Untouched(i) == \A k \in Key : Times(events[k], i) = 0
OneEach(f) ==
    /\ \A i \in Index : i > Passed(f) => Untouched(i)
    /\ \A n \in DOMAIN Pending(f) : Pending(f)[n].ctx = Passed(f) + n /\ Pending(f)[n].last

AbsentInv ==
    NoneIsCut /\ faults = 0 =>
        /\ pc = "handle" => \A i \in Index : Untouched(i)
        /\ pc = "store" => \A i \in Index : i > Good => Untouched(i)
        /\ pc = "store" /\ frame.chunks # <<>> => OneEach(frame)
        /\ pc = "partial" =>
              /\ storeOutcome.error = "conflict"
              /\ \A i \in Index : i >= Head(storeOutcome.failed) => Untouched(i)
        /\ HandledAnewIsAbsent

-----------------------------------------------------------------------------
(* Contexts and items.                                                     *)

\* The number of messages for a partition is a number.
LEMMA StoredToNat ==
    ASSUME NEW S, NEW c, c.stored \in Seq(S), NEW k
    PROVE  StoredTo(c, k) = Occurs(c.stored, {k}) /\ StoredTo(c, k) \in Nat
<1>1. StoredTo(c, k) = Occurs(c.stored, {k})  BY DEF StoredTo, Occurs
<1>2. Occurs(c.stored, {k}) \in 0..Len(c.stored)  BY OccursBounds
<1>3. QED  BY <1>1, <1>2

\* The states handlers start from are numbers for every key.
LEMMA BaseType ==
    ASSUME NEW plan \in [Index -> Plan]
    PROVE  Base(plan) \in [Index -> [Key -> Nat]]
<1> DEFINE N == Contexts - 1
           S == [Key -> Nat]
           zero == [k \in Key |-> 0]
           next(x, i) == [k \in Key |-> x[k] + StoredTo(plan[i - 1], k)]
           step == [n \in 1..N |-> [x \in S |-> IF plan[n + 1].branch THEN x ELSE next(x, n + 1)]]
           Is(g) == g = [i \in Index |->
                           IF i = 1 THEN zero
                           ELSE IF plan[i].branch THEN g[i - 1] ELSE next(g[i - 1], i)]
           F == CHOOSE g : Is(g)
<1>0. Base(plan) = F  BY DEF Base
<1>1. Contexts \in Nat  BY SinkAssumption
<1>2. \A i \in Index, k \in Key : StoredTo(plan[i], k) \in Nat
  <2> SUFFICES ASSUME NEW i \in Index, NEW k \in Key PROVE StoredTo(plan[i], k) \in Nat  OBVIOUS
  <2>1. plan[i].stored \in Seq(Key)  BY SinkAssumption DEF Plans
  <2>2. QED  BY <2>1, StoredToNat
<1>3. zero \in S /\ \A x \in S, i \in 2..Contexts : next(x, i) \in S
  <2>1. \A i \in 2..Contexts : i - 1 \in Index  BY <1>1 DEF Index
  <2>2. QED  BY <1>2, <2>1
<1>4. CASE Contexts = 0
  <2>1. Index = {}  BY <1>4 DEF Index
  <2>2. Is([i \in Index |-> zero])  BY <2>1
  <2>3. Is(F)
    <3> HIDE DEF Is
    <3>1. QED  BY <2>2
  <2>4. F = [i \in Index |-> zero]  BY <2>1, <2>3
  <2>5. QED  BY <1>0, <1>3, <2>4
<1>5. CASE Contexts # 0
  <2>1. N \in Nat /\ Index = 1..(N + 1) /\ Contexts = N + 1  BY <1>1, <1>5 DEF Index
  <2>2. step \in [1..N -> [S -> S]]
    <3>1. \A n \in 1..N, x \in S : next(x, n + 1) \in S
      <4>1. \A n \in 1..N : n + 1 \in 2..Contexts
        <5> HIDE DEF N
        <5>1. QED  BY <2>1
      <4> HIDE DEF S, N, next
      <4>2. QED  BY <1>3, <4>1
    <3> HIDE DEF S, N, next
    <3>2. QED  BY <3>1
  <2>3. \E f \in [0..N -> S] : Recurs(f, N, zero, step)
    <3> HIDE DEF step, N, S, zero
    <3>1. QED  BY <1>3, <2>1, <2>2, Recursion
  <2>4. PICK f \in [0..N -> S] : Recurs(f, N, zero, step)  BY <2>3
  <2> DEFINE g == [i \in Index |-> f[i - 1]]
  <2>5. g \in [Index -> S]
    <3>1. \A i \in Index : i - 1 \in 0..N  BY <2>1
    <3> HIDE DEF S, N
    <3>2. QED  BY <3>1
  <2>6. g[1] = zero
    <3> HIDE DEF zero, step
    <3>1. f[0] = zero  BY <2>4 DEF Recurs
    <3>2. 1 \in Index /\ 1 - 1 = 0  BY <2>1
    <3>3. QED  BY <3>1, <3>2
  <2>7. ASSUME NEW i \in Index, i # 1
        PROVE  g[i] = IF plan[i].branch THEN g[i - 1] ELSE next(g[i - 1], i)
    <3>1. i - 1 \in 1..N /\ i - 1 \in Index /\ (i - 1) + 1 = i  BY <2>1, <2>7
    <3>2. f[i - 1] = step[i - 1][f[i - 2]]
      <4> HIDE DEF step, zero, N
      <4>1. f[i - 1] = step[i - 1][f[(i - 1) - 1]]  BY <2>4, <3>1 DEF Recurs
      <4>2. (i - 1) - 1 = i - 2  BY <3>1
      <4>3. QED  BY <4>1, <4>2
    <3>3. f[i - 2] \in S /\ g[i] = f[i - 1] /\ g[i - 1] = f[i - 2]
      <4> HIDE DEF S, N
      <4>1. i - 2 \in 0..N /\ (i - 1) - 1 = i - 2  BY <2>1, <3>1
      <4>2. QED  BY <3>1, <4>1
    <3>4. step[i - 1][f[i - 2]] = IF plan[i].branch THEN f[i - 2] ELSE next(f[i - 2], i)
      <4> HIDE DEF S, N, next
      <4>1. QED  BY <3>1, <3>3
    <3>5. QED
      <4> HIDE DEF S, N, next, g, step
      <4>1. QED  BY <3>2, <3>3, <3>4
  <2>8. Is(g)
    <3> HIDE DEF zero, next
    <3>1. g = [i \in Index |-> g[i]]  BY <2>5
    <3> HIDE DEF g
    <3>2. QED  BY <2>6, <2>7, <3>1
  <2>9. Is(F)
    <3> HIDE DEF Is
    <3>1. QED  BY <2>8
  <2> HIDE DEF F
  <2>10. F[1] = zero /\ \A i \in Index : i # 1 =>
            F[i] = IF plan[i].branch THEN F[i - 1] ELSE next(F[i - 1], i)
    <3>1. 1 \in Index  BY <2>1
    <3> HIDE DEF zero, next
    <3>2. QED  BY <2>9, <3>1
  <2> DEFINE T == {n \in Nat : n \in 0..N => F[n + 1] \in S}
  <2>11. 0 \in T  BY <1>3, <2>10
  <2>12. ASSUME NEW n \in 1..N, n - 1 \in T PROVE n \in T
    <3>1. n + 1 \in Index /\ n + 1 # 1 /\ (n - 1) + 1 = n /\ (n + 1) - 1 = n /\ n - 1 \in 0..N
          /\ n + 1 \in 2..Contexts /\ n \in Nat
      <4> HIDE DEF N
      <4>1. QED  BY <2>1
    <3>2. F[n] \in S
      <4> HIDE DEF S, N
      <4>1. QED  BY <2>12, <3>1
    <3>3. F[n + 1] = IF plan[n + 1].branch THEN F[n] ELSE next(F[n], n + 1)
      <4> HIDE DEF next, zero, S
      <4>1. QED  BY <2>10, <3>1
    <3>4. F[n + 1] \in S
      <4> HIDE DEF next, zero, S, N
      <4>1. QED  BY <1>3, <3>1, <3>2, <3>3
    <3>5. QED  BY <3>1, <3>4
  <2>13. 0..N \subseteq T
    <3> HIDE DEF T, N
    <3>1. QED  BY <2>1, <2>11, <2>12, BoundedInduction
  <2>14. \A i \in Index : F[i] \in S
    <3> HIDE DEF S
    <3> SUFFICES ASSUME NEW i \in Index PROVE F[i] \in S  OBVIOUS
    <3>1. i - 1 \in 0..N /\ (i - 1) + 1 = i  BY <2>1
    <3>2. QED  BY <2>13, <3>1
  <2>15. F = [i \in Index |-> F[i]]
    <3> HIDE DEF zero, next
    <3>1. QED  BY <2>9
  <2>16. QED
    <3> HIDE DEF S
    <3>1. F \in [Index -> S]  BY <2>14, <2>15
    <3>2. QED  BY <1>0, <3>1 DEF S
<1>6. QED  BY <1>4, <1>5

\* The contexts and the guarantees of the sinks.
LEMMA TypesFacts ==
    ASSUME Types
    PROVE  /\ Contexts \in Nat /\ Index = 1..Contexts
           /\ \A i \in Index : contexts[i] \in ContextsOf(Key)
           /\ \A t \in Targets : Sink(t) \in Guarantees
<1>1. Contexts \in Nat /\ Index = 1..Contexts  BY SinkAssumption DEF Index
<1>2. \A i \in Index : contexts[i] \in ContextsOf(Key)  BY <1>1 DEF Types
<1>3. Sink("store") \in Guarantees /\ Sink("publish") \in Guarantees
  BY SinkAssumption DEF Sink, Types
<1>4. QED  BY <1>1, <1>2, <1>3 DEF Targets

\* Items for a sink in the order of contexts a + 1 to b: all that they stored
\* and loaded, or published.
Itemized(t, s, a, b) ==
    /\ s \in Seq(ItemSet(t)) /\ Ordered(s, a, b)
    /\ t = "store" =>
          /\ \A n \in DOMAIN s : s[n].sn = contexts[s[n].ctx].base[s[n].key]
          /\ \A i \in Index, k \in Key :
                Occurs(s, Adds(i, k)) = IF a < i /\ i <= b THEN StoredTo(contexts[i], k) ELSE 0
          /\ \A i \in Index : a < i /\ i <= b =>
                \A k \in OnlyLoaded(i) : Occurs(s, Verifies(i, k)) > 0
          /\ NoneIsCut => Len(s) = b - a /\ \A n \in DOMAIN s : s[n].ctx = a + n /\ s[n].last
    /\ t = "publish" =>
          \A i \in Index : a < i /\ i <= b => Occurs(s, Sends(i)) = Len(contexts[i].published)

\* The items of a context for the store: its messages, then one to verify each
\* state it only loaded.
LEMMA StoreItemsProperties ==
    ASSUME Types, NEW i \in Index
    PROVE  Itemized("store", StoreItems(i), i - 1, i)
<1> DEFINE c == contexts[i]
           S == {k \in c.loaded : StoredTo(c, k) = 0}
           rest == SetToSeq(S)
           keys == c.stored \o rest
           N == Len(c.stored)
           item(n) == [ctx |-> i, key |-> keys[n], sn |-> c.base[keys[n]],
                       verify |-> n > N, last |-> n = Len(keys)]
           s == StoreItems(i)
<1>0. i \in 1..Contexts /\ Contexts \in Nat /\ c \in ContextsOf(Key)  BY TypesFacts
<1>1. c.stored \in Seq(Key) /\ c.loaded \subseteq Key /\ c.base \in [Key -> Nat]
  BY <1>0 DEF ContextsOf
<1>2. rest \in Seq(Key) /\ ToSet(rest) = S
  <2>1. S \subseteq Key  BY <1>1
  <2>2. IsFiniteSet(S)  BY <2>1, FS_Subset, SinkAssumption
  <2> HIDE DEF S
  <2>3. rest \in Seq(S) /\ ToSet(rest) = S  BY <2>2, SetToSeqProperties
  <2>4. QED  BY <2>1, <2>3, SeqMonotonic
<1> HIDE DEF rest
<1>3. /\ keys \in Seq(Key) /\ Len(keys) = N + Len(rest) /\ N \in Nat /\ Len(rest) \in Nat
      /\ \A n \in 1..N : keys[n] = c.stored[n]
      /\ \A n \in 1..Len(rest) : keys[N + n] = rest[n]
  <2> HIDE DEF c
  <2>1. QED  BY <1>1, <1>2
<1>4. s = [n \in 1..Len(keys) |-> item(n)]
  <2>1. DOMAIN keys = 1..Len(keys)  BY <1>3
  <2>2. s = [n \in DOMAIN keys |-> item(n)]  BY DEF StoreItems, rest
  <2> HIDE DEF keys, item
  <2>3. QED  BY <2>1, <2>2
<1> HIDE DEF keys, c, s
<1>5. Len(keys) \in Nat /\ \A n \in 1..Len(keys) : keys[n] \in Key  BY <1>3
<1>6. \A n \in 1..Len(keys) : item(n) \in ItemSet("store")
  <2>1. ItemSet("store") = [ctx : Index, key : Key, sn : Nat, verify : BOOLEAN, last : BOOLEAN]
    BY DEF ItemSet
  <2> SUFFICES ASSUME NEW n \in 1..Len(keys) PROVE item(n) \in ItemSet("store")  OBVIOUS
  <2>2. keys[n] \in Key  BY <1>5
  <2>3. c.base[keys[n]] \in Nat  BY <1>1, <2>2
  <2>4. (n > N) \in BOOLEAN /\ (n = Len(keys)) \in BOOLEAN  OBVIOUS
  <2>5. QED  BY <2>1, <2>2, <2>3, <2>4
<1>7. /\ s \in Seq(ItemSet("store")) /\ Len(s) = Len(keys) /\ DOMAIN s = 1..Len(keys)
      /\ \A n \in 1..Len(keys) : s[n] = item(n)
  <2> HIDE DEF item
  <2>1. QED  BY <1>4, <1>5, <1>6
<1>8. \A n \in 1..Len(keys) : /\ s[n].ctx = i /\ s[n].key = keys[n] /\ s[n].sn = c.base[keys[n]]
                              /\ s[n].verify <=> n > N
                              /\ s[n].last <=> n = Len(keys)
  <2> SUFFICES ASSUME NEW n \in 1..Len(keys)
               PROVE  /\ s[n].ctx = i /\ s[n].key = keys[n] /\ s[n].sn = c.base[keys[n]]
                      /\ s[n].verify <=> n > N
                      /\ s[n].last <=> n = Len(keys)
    BY SMTT(30)
  <2>1. s[n] = item(n)  BY Zenon, <1>7
  <2>2. /\ item(n).ctx = i /\ item(n).key = keys[n] /\ item(n).sn = c.base[keys[n]]
        /\ item(n).verify <=> n > N
        /\ item(n).last <=> n = Len(keys)
    OBVIOUS
  <2> HIDE DEF item
  <2>3. QED  BY <2>1, <2>2
<1> HIDE DEF item
<1>9. Ordered(s, i - 1, i)
  <2>1. \A n \in DOMAIN s : i - 1 < s[n].ctx /\ s[n].ctx <= i
    <3> SUFFICES ASSUME NEW n \in 1..Len(keys) PROVE i - 1 < s[n].ctx /\ s[n].ctx <= i  BY <1>7
    <3>1. s[n].ctx = i /\ i - 1 < i /\ i <= i  BY <1>0, <1>8
    <3>2. QED  BY <3>1
  <2>2. \A m, n \in DOMAIN s :
          m < n => s[m].ctx <= s[n].ctx /\ (s[m].last => s[m].ctx < s[n].ctx)
    <3> SUFFICES ASSUME NEW m \in 1..Len(keys), NEW n \in 1..Len(keys), m < n
                 PROVE  s[m].ctx <= s[n].ctx /\ ~s[m].last
      BY <1>7
    <3>1. ~s[m].last  BY <1>5, <1>8
    <3>2. s[m].ctx <= s[n].ctx  BY SMTT(30), <1>0, <1>8
    <3>3. QED  BY <3>1, <3>2
  <2>3. QED  BY <2>1, <2>2 DEF Ordered
<1>10. \A n \in DOMAIN s : s[n].sn = contexts[s[n].ctx].base[s[n].key]  BY ZenonT(30), <1>7, <1>8 DEF c
<1>11. ASSUME NEW j \in Index, NEW k \in Key
       PROVE  Occurs(s, Adds(j, k)) = IF i - 1 < j /\ j <= i THEN StoredTo(contexts[j], k) ELSE 0
  <2>1. \A n \in 1..Len(keys) : s[n] \in Adds(j, k) <=> j = i /\ keys[n] = k /\ n <= N
    <3> SUFFICES ASSUME NEW n \in 1..Len(keys)
                 PROVE  s[n] \in Adds(j, k) <=> j = i /\ keys[n] = k /\ n <= N
      OBVIOUS
    <3>1. s[n] \in ItemSet("store")  BY <1>6, <1>7
    <3>2. s[n] \in Adds(j, k) <=> s[n].ctx = j /\ s[n].key = k /\ ~s[n].verify  BY <3>1 DEF Adds
    <3>3. ~(n > N) <=> n <= N  BY <1>3
    <3>4. QED  BY <1>8, <3>2, <3>3
  <2>2. CASE j = i
    <3>1. {n \in DOMAIN s : s[n] \in Adds(j, k)} = {n \in DOMAIN c.stored : c.stored[n] = k}
      <4>1. DOMAIN c.stored = 1..N  BY <1>1
      <4>2. \A n \in 1..Len(keys) : n <= N => n \in 1..N /\ c.stored[n] = keys[n]  BY <1>3
      <4>3. \A n \in 1..N : n \in 1..Len(keys) /\ n <= N  BY <1>3
      <4>4. QED  BY <1>7, <2>1, <2>2, <4>1, <4>2, <4>3
    <3>2. i - 1 < j /\ j <= i  BY <1>0, <2>2
    <3>3. Occurs(s, Adds(j, k)) = StoredTo(c, k)  BY <3>1 DEF Occurs, StoredTo
    <3>4. QED  BY <2>2, <3>2, <3>3 DEF c
  <2>3. CASE j # i
    <3>1. ~(i - 1 < j /\ j <= i)  BY <1>0, <2>3, TypesFacts
    <3>2. \A n \in DOMAIN s : s[n] \notin Adds(j, k)  BY <1>7, <2>1, <2>3
    <3>3. Occurs(s, Adds(j, k)) = 0  BY <1>7, <3>2, OccursBounds
    <3>4. QED  BY <3>1, <3>3
  <2>4. QED  BY <2>2, <2>3
<1>12. ASSUME NEW j \in Index, i - 1 < j, j <= i, NEW k \in OnlyLoaded(j)
       PROVE  Occurs(s, Verifies(j, k)) > 0
  <2>1. j = i /\ k \in S /\ k \in Key
    <3>1. j = i  BY <1>0, <1>12, TypesFacts
    <3>2. QED  BY <1>1, <1>12, <3>1 DEF OnlyLoaded, c
  <2>2. PICK n \in DOMAIN rest : rest[n] = k
    <3> HIDE DEF S
    <3>1. k \in ToSet(rest)  BY <1>2, <2>1
    <3>2. QED  BY <3>1 DEF ToSet
  <2>3. n \in 1..Len(rest) /\ N + n \in 1..Len(keys) /\ N + n > N
    <3>1. n \in 1..Len(rest)  BY <1>2, <2>2
    <3>2. QED  BY <1>3, <3>1
  <2>4. s[N + n].ctx = j /\ s[N + n].key = k /\ s[N + n].verify
    BY <1>3, <1>8, <2>1, <2>2, <2>3
  <2>5. s[N + n] \in ItemSet("store")  BY <1>6, <1>7, <2>3
  <2>6. s[N + n] \in Verifies(j, k)  BY <2>4, <2>5 DEF Verifies
  <2>7. Occurs(s, Verifies(j, k)) \in 0..Len(s) /\ Occurs(s, Verifies(j, k)) # 0
    <3> DEFINE V == Verifies(j, k)
    <3>1. s[N + n] \in V  BY <2>6
    <3> HIDE DEF V
    <3>2. Occurs(s, V) \in 0..Len(s)  BY <1>7, OccursBounds
    <3>3. Occurs(s, V) = 0 => \A m \in DOMAIN s : s[m] \notin V  BY <1>7, OccursBounds
    <3>4. QED  BY <1>7, <2>3, <3>1, <3>2, <3>3 DEF V
  <2>8. QED  BY <1>5, <1>7, <2>7
<1>13. ASSUME NoneIsCut
       PROVE  Len(s) = i - (i - 1) /\ \A n \in DOMAIN s : s[n].ctx = (i - 1) + n /\ s[n].last
  <2>1. Len(s) = 1  BY <1>13 DEF NoneIsCut, s
  <2>2. i - (i - 1) = 1 /\ (i - 1) + 1 = i  BY <1>0
  <2>3. ASSUME NEW n \in DOMAIN s PROVE n = 1 /\ s[n].ctx = i /\ s[n].last
    <3>1. n \in 1..Len(keys) /\ n = 1 /\ n = Len(keys)  BY <1>7, <2>1
    <3>2. QED  BY <1>8, <3>1
  <2>4. QED  BY <2>1, <2>2, <2>3
<1>14. QED  BY <1>7, <1>9, <1>10, <1>11, <1>12, <1>13 DEF Itemized, s

\* The items of a context to be published: its messages.
LEMMA PublishItemsProperties ==
    ASSUME Types, NEW i \in Index
    PROVE  Itemized("publish", PublishItems(i), i - 1, i)
<1> DEFINE keys == contexts[i].published
           item(n) == [ctx |-> i, key |-> keys[n], last |-> n = Len(keys)]
           s == PublishItems(i)
<1>0. i \in 1..Contexts /\ Contexts \in Nat  BY TypesFacts
<1>1. keys \in Seq(Key)  BY TypesFacts DEF ContextsOf
<1>2. Len(keys) \in Nat /\ DOMAIN keys = 1..Len(keys) /\ \A n \in 1..Len(keys) : keys[n] \in Key
  BY <1>1
<1>3. s = [n \in 1..Len(keys) |-> item(n)]  BY SMTT(30), <1>2 DEF PublishItems
<1> HIDE DEF keys, s
<1>4. \A n \in 1..Len(keys) : item(n) \in ItemSet("publish")
  <2>1. ItemSet("publish") = [ctx : Index, key : Key, last : BOOLEAN]  BY DEF ItemSet
  <2>2. QED  BY Zenon, <1>2, <2>1
<1>5. /\ s \in Seq(ItemSet("publish")) /\ Len(s) = Len(keys) /\ DOMAIN s = 1..Len(keys)
      /\ \A n \in 1..Len(keys) : s[n] = item(n)
  <2> HIDE DEF item
  <2>1. QED  BY <1>2, <1>3, <1>4
<1>6. \A n \in 1..Len(keys) : s[n].ctx = i /\ (s[n].last <=> n = Len(keys))
  <2> SUFFICES ASSUME NEW n \in 1..Len(keys)
               PROVE  s[n].ctx = i /\ (s[n].last <=> n = Len(keys))
    BY SMTT(30)
  <2>1. s[n] = item(n)  BY Zenon, <1>5
  <2>2. item(n).ctx = i /\ (item(n).last <=> n = Len(keys))  OBVIOUS
  <2> HIDE DEF item
  <2>3. QED  BY <2>1, <2>2
<1> HIDE DEF item
<1>7. Ordered(s, i - 1, i)
  <2>1. \A n \in DOMAIN s : i - 1 < s[n].ctx /\ s[n].ctx <= i
    <3> SUFFICES ASSUME NEW n \in 1..Len(keys) PROVE i - 1 < s[n].ctx /\ s[n].ctx <= i  BY <1>5
    <3>1. s[n].ctx = i /\ i - 1 < i /\ i <= i  BY <1>0, <1>6
    <3>2. QED  BY <3>1
  <2>2. \A m, n \in DOMAIN s :
          m < n => s[m].ctx <= s[n].ctx /\ (s[m].last => s[m].ctx < s[n].ctx)
    <3> SUFFICES ASSUME NEW m \in 1..Len(keys), NEW n \in 1..Len(keys), m < n
                 PROVE  s[m].ctx <= s[n].ctx /\ ~s[m].last
      BY <1>5
    <3>1. ~s[m].last
      <4>1. s[m].last <=> m = Len(keys)  BY <1>6
      <4>2. m # Len(keys)
        <5>1. \A h \in Nat : \A x, y \in 1..h : x < y => x # h  OBVIOUS
        <5>2. Len(keys) \in Nat  BY <1>2
        <5>3. QED  BY <5>1, <5>2
      <4>3. QED  BY <4>1, <4>2
    <3>2. s[m].ctx <= s[n].ctx  BY <1>0, <1>6
    <3>3. QED  BY <3>1, <3>2
  <2>3. QED  BY <2>1, <2>2 DEF Ordered
<1>8. ASSUME NEW j \in Index, i - 1 < j, j <= i
      PROVE  Occurs(s, Sends(j)) = Len(contexts[j].published)
  <2>1. j = i  BY <1>0, <1>8, TypesFacts
  <2>2. \A n \in 1..Len(keys) : s[n] \in Sends(j)  BY Zenon, <1>4, <1>5, <1>6, <2>1 DEF Sends
  <2>3. {n \in DOMAIN s : s[n] \in Sends(j)} = 1..Len(keys)  BY <1>5, <2>2
  <2>4. Cardinality(1..Len(keys)) = Len(keys)
    <3>1. \A h \in Nat : Cardinality(1..h) = h  BY FS_Interval
    <3>2. QED  BY <1>2, <3>1
  <2>5. QED  BY <2>1, <2>3, <2>4 DEF Occurs, keys
<1>9. QED  BY <1>5, <1>7, <1>8 DEF Itemized, s

\* No contexts have no items.
LEMMA ItemizedEmpty ==
    ASSUME Types, NEW t \in Targets, NEW a \in Nat
    PROVE  Itemized(t, <<>>, a, a)
<1>1. <<>> \in Seq(ItemSet(t)) /\ DOMAIN <<>> = {}  OBVIOUS
<1>2. Ordered(<<>>, a, a)  BY <1>1 DEF Ordered
<1>3. \A i \in Index : ~(a < i /\ i <= a)  BY TypesFacts
<1>4. \A P : Occurs(<<>>, P) = 0
  <2>1. \A P : Occurs(<<>>, P) \in 0..Len(<<>>)  BY <1>1, OccursBounds
  <2>2. 0..Len(<<>>) = {0}  OBVIOUS
  <2>3. QED  BY <2>1, <2>2
<1>5. Len(<<>>) = a - a  OBVIOUS
<1>6. QED  BY <1>1, <1>2, <1>3, <1>4, <1>5 DEF Itemized

\* Items of one range of contexts followed by those of the next range.
LEMMA ItemizedConcat ==
    ASSUME Types, NEW t \in Targets, NEW a \in Nat, NEW b \in Nat, NEW c \in Nat,
           a <= b, b <= c, NEW s, NEW u, Itemized(t, s, a, b), Itemized(t, u, b, c)
    PROVE  Itemized(t, s \o u, a, c)
<1> DEFINE I == ItemSet(t)
           L == Len(s)
           w == s \o u
<1>1. s \in Seq(I) /\ u \in Seq(I) /\ Ordered(s, a, b) /\ Ordered(u, b, c)  BY DEF Itemized
<1>2. /\ L \in Nat /\ Len(u) \in Nat /\ DOMAIN s = 1..L /\ DOMAIN u = 1..Len(u)
      /\ w \in Seq(I) /\ DOMAIN w = 1..(L + Len(u))
      /\ \A n \in 1..L : w[n] = s[n]
      /\ \A n \in 1..Len(u) : w[L + n] = u[n]
  <2> HIDE DEF I
  <2>1. QED  BY <1>1
<1>4. \A x \in I : x.ctx \in Index  BY DEF ItemSet, Targets
<1>5. /\ \A n \in 1..L : s[n].ctx \in Nat /\ a < s[n].ctx /\ s[n].ctx <= b
      /\ \A n \in 1..Len(u) : u[n].ctx \in Nat /\ b < u[n].ctx /\ u[n].ctx <= c
  <2>1. \A n \in 1..L : s[n] \in I  BY <1>1
  <2>2. \A n \in 1..Len(u) : u[n] \in I  BY <1>1
  <2>3. \A x \in I : x.ctx \in Nat  BY <1>4, TypesFacts
  <2>4. \A n \in 1..L : a < s[n].ctx /\ s[n].ctx <= b  BY <1>1, <1>2 DEF Ordered
  <2>5. \A n \in 1..Len(u) : b < u[n].ctx /\ u[n].ctx <= c  BY <1>1, <1>2 DEF Ordered
  <2> HIDE DEF I, L
  <2>6. QED  BY <2>1, <2>2, <2>3, <2>4, <2>5
<1>6. \A n \in DOMAIN w : n \in 1..L \/ (n - L \in 1..Len(u) /\ w[n] = u[n - L])
  <2> SUFFICES ASSUME NEW n \in 1..(L + Len(u)), n \notin 1..L
               PROVE  n - L \in 1..Len(u) /\ w[n] = u[n - L]
    BY <1>2
  <2>1. n - L \in 1..Len(u) /\ L + (n - L) = n  BY <1>2
  <2>2. QED  BY <1>2, <2>1
<1> HIDE DEF I, L, w
<1>7. Ordered(w, a, c)
  <2>1. ASSUME NEW n \in DOMAIN w PROVE a < w[n].ctx /\ w[n].ctx <= c
    <3>1. CASE n \in 1..L  BY <1>2, <1>5, <3>1
    <3>2. CASE n - L \in 1..Len(u) /\ w[n] = u[n - L]  BY <1>5, <3>2
    <3>3. QED  BY <1>6, <3>1, <3>2
  <2>2. ASSUME NEW m \in DOMAIN w, NEW n \in DOMAIN w, m < n
        PROVE  w[m].ctx <= w[n].ctx /\ (w[m].last => w[m].ctx < w[n].ctx)
    <3>1. CASE m \in 1..L /\ n \in 1..L
      <4>1. w[m] = s[m] /\ w[n] = s[n]  BY <1>2, <3>1
      <4>2. QED  BY <1>1, <1>2, <2>2, <3>1, <4>1 DEF Ordered
    <3>2. CASE m \in 1..L /\ n - L \in 1..Len(u) /\ w[n] = u[n - L]
      <4>1. w[m].ctx < w[n].ctx  BY <1>2, <1>5, <3>2
      <4>2. w[m].ctx \in Nat /\ w[n].ctx \in Nat  BY <1>2, <1>5, <3>2
      <4>3. QED  BY <4>1, <4>2
    <3>3. CASE m - L \in 1..Len(u) /\ w[m] = u[m - L] /\ n - L \in 1..Len(u) /\ w[n] = u[n - L]
      <4>1. m - L < n - L  BY <1>2, <2>2
      <4>2. QED  BY <1>1, <1>2, <3>3, <4>1 DEF Ordered
    <3>4. ~(m \notin 1..L /\ n \in 1..L)  BY <1>2, <2>2
    <3>5. QED  BY <1>6, <3>1, <3>2, <3>3, <3>4
  <2>3. QED  BY <2>1, <2>2 DEF Ordered
<1>8. \A P : Occurs(w, P) = Occurs(s, P) + Occurs(u, P)  BY <1>1, OccursConcat DEF w
<1>9. \A P : Occurs(s, P) \in Nat /\ Occurs(u, P) \in Nat
  <2>1. \A P : Occurs(s, P) \in 0..Len(s)  BY <1>1, OccursBounds
  <2>2. \A P : Occurs(u, P) \in 0..Len(u)  BY <1>1, OccursBounds
  <2>3. QED  BY <2>1, <2>2
<1>10. \A i \in Index : i \in Nat  BY TypesFacts
<1>11. ASSUME t = "store"
       PROVE  /\ \A n \in DOMAIN w : w[n].sn = contexts[w[n].ctx].base[w[n].key]
              /\ \A i \in Index, k \in Key :
                   Occurs(w, Adds(i, k)) = IF a < i /\ i <= c THEN StoredTo(contexts[i], k) ELSE 0
              /\ \A i \in Index : a < i /\ i <= c =>
                   \A k \in OnlyLoaded(i) : Occurs(w, Verifies(i, k)) > 0
              /\ NoneIsCut =>
                   Len(w) = c - a /\ \A n \in DOMAIN w : w[n].ctx = a + n /\ w[n].last
  <2>1. ASSUME NEW n \in DOMAIN w PROVE w[n].sn = contexts[w[n].ctx].base[w[n].key]
    <3>1. CASE n \in 1..L
      <4>1. w[n] = s[n] /\ n \in DOMAIN s  BY <1>2, <3>1
      <4>2. QED  BY <1>11, <4>1 DEF Itemized
    <3>2. CASE n - L \in 1..Len(u) /\ w[n] = u[n - L]
      <4>1. n - L \in DOMAIN u  BY <1>2, <3>2
      <4>2. QED  BY <1>11, <3>2, <4>1 DEF Itemized
    <3>3. QED  BY <1>6, <3>1, <3>2
  <2>2. ASSUME NEW i \in Index, NEW k \in Key
        PROVE  Occurs(w, Adds(i, k)) = IF a < i /\ i <= c THEN StoredTo(contexts[i], k) ELSE 0
    <3>1. Occurs(w, Adds(i, k)) = Occurs(s, Adds(i, k)) + Occurs(u, Adds(i, k))  BY <1>8
    <3>2. /\ Occurs(s, Adds(i, k)) = IF a < i /\ i <= b THEN StoredTo(contexts[i], k) ELSE 0
          /\ Occurs(u, Adds(i, k)) = IF b < i /\ i <= c THEN StoredTo(contexts[i], k) ELSE 0
      BY <1>11 DEF Itemized
    <3>3. Occurs(s, Adds(i, k)) \in Nat /\ Occurs(u, Adds(i, k)) \in Nat  BY <1>9
    <3>4. i \in Nat  BY <1>10
    <3>5. QED  BY <3>1, <3>2, <3>3, <3>4
  <2>3. ASSUME NEW i \in Index, a < i, i <= c, NEW k \in OnlyLoaded(i)
        PROVE  Occurs(w, Verifies(i, k)) > 0
    <3>1. Occurs(w, Verifies(i, k)) = Occurs(s, Verifies(i, k)) + Occurs(u, Verifies(i, k))
      BY <1>8
    <3>2. Occurs(s, Verifies(i, k)) \in Nat /\ Occurs(u, Verifies(i, k)) \in Nat  BY <1>9
    <3>3. CASE i <= b
      <4>1. Occurs(s, Verifies(i, k)) > 0  BY <1>11, <2>3, <3>3 DEF Itemized
      <4>2. QED  BY <3>1, <3>2, <4>1
    <3>4. CASE b < i
      <4>1. Occurs(u, Verifies(i, k)) > 0  BY <1>11, <2>3, <3>4 DEF Itemized
      <4>2. QED  BY <3>1, <3>2, <4>1
    <3>5. QED  BY <1>10, <3>3, <3>4
  <2>4. ASSUME NoneIsCut
        PROVE  Len(w) = c - a /\ \A n \in DOMAIN w : w[n].ctx = a + n /\ w[n].last
    <3>1. L = b - a /\ \A n \in DOMAIN s : s[n].ctx = a + n /\ s[n].last
      BY <1>11, <2>4 DEF Itemized, L
    <3>2. Len(u) = c - b /\ \A n \in DOMAIN u : u[n].ctx = b + n /\ u[n].last
      BY <1>11, <2>4 DEF Itemized
    <3>3. Len(w) = L + Len(u)  BY <1>2
    <3>4. ASSUME NEW n \in DOMAIN w PROVE w[n].ctx = a + n /\ w[n].last
      <4>1. CASE n \in 1..L  BY <1>2, <3>1, <4>1
      <4>2. CASE n - L \in 1..Len(u) /\ w[n] = u[n - L]
        <5>1. n \in Nat /\ b + (n - L) = a + n  BY <1>2, <3>1
        <5>2. QED  BY <1>2, <3>2, <4>2, <5>1
      <4>3. QED  BY <1>6, <4>1, <4>2
    <3>5. L + Len(u) = c - a  BY <3>1, <3>2
    <3>6. QED  BY <3>3, <3>4, <3>5
  <2>5. QED  BY <2>1, <2>2, <2>3, <2>4
<1>12. ASSUME t = "publish", NEW i \in Index, a < i, i <= c
       PROVE  Occurs(w, Sends(i)) = Len(contexts[i].published)
  <2>1. Occurs(w, Sends(i)) = Occurs(s, Sends(i)) + Occurs(u, Sends(i))  BY <1>8
  <2>2. Occurs(s, Sends(i)) \in Nat /\ Occurs(u, Sends(i)) \in Nat  BY <1>9
  <2>3. CASE i <= b
    <3>1. Occurs(s, Sends(i)) = Len(contexts[i].published)  BY <1>12, <2>3 DEF Itemized
    <3>2. \A n \in DOMAIN u : u[n] \notin Sends(i)
      <4>1. \A n \in 1..Len(u) : u[n].ctx # i  BY <1>5, <1>10, <2>3
      <4>2. QED  BY <1>2, <4>1 DEF Sends
    <3>3. Occurs(u, Sends(i)) = 0  BY <1>1, <3>2, OccursBounds
    <3>4. QED  BY <2>1, <2>2, <3>1, <3>3
  <2>4. CASE b < i
    <3>1. Occurs(u, Sends(i)) = Len(contexts[i].published)  BY <1>12, <2>4 DEF Itemized
    <3>2. \A n \in DOMAIN s : s[n] \notin Sends(i)
      <4>1. \A n \in 1..L : s[n].ctx # i  BY <1>5, <1>10, <2>4
      <4>2. QED  BY <1>2, <4>1 DEF Sends
    <3>3. Occurs(s, Sends(i)) = 0  BY <1>1, <3>2, OccursBounds
    <3>4. QED  BY <2>1, <2>2, <3>1, <3>3
  <2>5. QED  BY <1>10, <2>3, <2>4
<1>13. w \in Seq(ItemSet(t))  BY <1>2 DEF I
<1>14. QED  BY <1>7, <1>11, <1>12, <1>13 DEF Itemized, w

\* What Total counts and a new frame cuts into chunks.
LEMMA FlatItems ==
    ASSUME Types, NEW t \in Targets, NEW a \in 0..Contexts, NEW b \in a..Contexts
    PROVE  /\ Containers(t, Span(a, b)) \in Seq(Seq(ItemSet(t)))
           /\ Itemized(t, FlattenSeq(Containers(t, Span(a, b))), a, b)
<1> DEFINE I == ItemSet(t)
           C(m) == Containers(t, Span(a, a + m))
           T == {m \in Nat : m \in 0..(b - a) =>
                    C(m) \in Seq(Seq(I)) /\ Itemized(t, FlattenSeq(C(m)), a, a + m)}
<1>1. Contexts \in Nat /\ Index = 1..Contexts /\ a \in Nat /\ b \in Nat /\ b - a \in Nat
  BY TypesFacts
<1>2. \A m \in 0..(b - a) : C(m) = [n \in 1..m |-> ItemsOf(t, a + n)]
  <2> SUFFICES ASSUME NEW m \in 0..(b - a) PROVE C(m) = [n \in 1..m |-> ItemsOf(t, a + n)]  OBVIOUS
  <2>1. (a + m) - a = m  BY <1>1
  <2>2. Span(a, a + m) = [n \in 1..m |-> a + n]  BY <2>1 DEF Span
  <2>3. QED  BY <2>2 DEF Containers
<1>3. 0 \in T
  <2>1. C(0) = <<>>
    <3>1. 0 \in 0..(b - a)  BY <1>1
    <3>2. C(0) = [n \in 1..0 |-> ItemsOf(t, a + n)]  BY <1>2, <3>1
    <3>3. 1..0 = {}  OBVIOUS
    <3> HIDE DEF C
    <3>4. QED  BY <3>2, <3>3
  <2>2. C(0) \in Seq(Seq(I)) /\ FlattenSeq(C(0)) = <<>>
    <3> HIDE DEF C, I
    <3>1. <<>> \in Seq(Seq(I))  OBVIOUS
    <3>2. FlattenSeq(<<>>) = <<>>  BY <3>1, FlattenType
    <3>3. QED  BY <2>1, <3>1, <3>2
  <2>3. Itemized(t, <<>>, a, a) /\ a + 0 = a  BY <1>1, ItemizedEmpty
  <2> HIDE DEF C, I
  <2>4. QED  BY <2>2, <2>3
<1>4. ASSUME NEW m \in 1..(b - a), m - 1 \in T PROVE m \in T
  <2>1. m - 1 \in 0..(b - a) /\ m \in 0..(b - a) /\ m \in Nat /\ a + m \in Index
        /\ (a + m) - 1 = a + (m - 1) /\ a + (m - 1) \in Nat
    BY <1>1
  <2>2. C(m - 1) \in Seq(Seq(I)) /\ Itemized(t, FlattenSeq(C(m - 1)), a, a + (m - 1))
    BY <1>4, <2>1
  <2>3. Itemized(t, ItemsOf(t, a + m), a + (m - 1), a + m)
    <3>1. CASE t = "store"  BY <2>1, <3>1, StoreItemsProperties DEF ItemsOf
    <3>2. CASE t = "publish"  BY <2>1, <3>2, PublishItemsProperties DEF ItemsOf
    <3>3. QED  BY <3>1, <3>2 DEF Targets
  <2>4. ItemsOf(t, a + m) \in Seq(I)  BY <2>3 DEF Itemized
  <2>5. C(m) = Append(C(m - 1), ItemsOf(t, a + m))
    <3>1. C(m) = [n \in 1..m |-> ItemsOf(t, a + n)]
          /\ C(m - 1) = [n \in 1..(m - 1) |-> ItemsOf(t, a + n)]
      BY <1>2, <2>1
    <3>2. Len(C(m - 1)) = m - 1 /\ (m - 1) + 1 = m  BY <2>1, <3>1
    <3>3. Append(C(m - 1), ItemsOf(t, a + m))
            = [n \in 1..m |-> IF n = m THEN ItemsOf(t, a + m) ELSE C(m - 1)[n]]
      <4> HIDE DEF C, I
      <4>1. QED  BY <2>2, <2>4, <3>2
    <3>4. \A n \in 1..m : n # m => n \in 1..(m - 1)  BY <2>1
    <3> HIDE DEF C
    <3>5. QED  BY <3>1, <3>3, <3>4
  <2> HIDE DEF C, I
  <2>6. FlattenSeq(C(m)) = FlattenSeq(C(m - 1)) \o ItemsOf(t, a + m)
    BY <2>2, <2>4, <2>5, FlattenAppend
  <2>7. C(m) \in Seq(Seq(I))  BY <2>2, <2>4, <2>5
  <2>8. Itemized(t, FlattenSeq(C(m)), a, a + m)
    <3>1. a <= a + (m - 1) /\ a + (m - 1) <= a + m /\ a + m \in Nat  BY <1>1, <2>1
    <3>2. QED  BY <1>1, <2>1, <2>2, <2>3, <2>6, <3>1, ItemizedConcat
  <2>9. QED  BY <2>1, <2>7, <2>8
<1>5. 0..(b - a) \subseteq T
  <2> HIDE DEF T
  <2>1. QED  BY <1>1, <1>3, <1>4, BoundedInduction
<1>6. b - a \in T  BY <1>1, <1>5
<1>7. b - a \in 0..(b - a) /\ a + (b - a) = b  BY <1>1
<1>8. C(b - a) \in Seq(Seq(I)) /\ Itemized(t, FlattenSeq(C(b - a)), a, a + (b - a))
  BY <1>6, <1>7
<1>9. QED  BY <1>7, <1>8

\* A frame that starts at context a + 1 has all items of contexts a + 1 to b to
\* pass to its sink.
LEMMA NewFrame ==
    ASSUME Types, NEW t \in Targets, NEW a \in 0..Contexts, NEW b \in a..Contexts,
           NEW items, items = (IF Total(t, Span(a, b)) = 0 THEN <<>> ELSE Span(a, b)),
           NEW size \in Nat, Total(t, Span(a, b)) > 0 => size > 0,
           Total(t, Span(a, b)) > 0 /\ Sink(t).maxBatch > 0 => size <= Sink(t).maxBatch,
           NEW f, f = Frame(t, Prefix(a), items, size)
    PROVE  /\ f \in FramesFor(t) /\ f.target = t
           /\ Shaped(f) /\ Itemized(t, Pending(f), a, b)
           /\ f.chunks # <<>> => End(f) = b
<1> DEFINE I == ItemSet(t)
           cs == Containers(t, Span(a, b))
           flat == FlattenSeq(cs)
<1>1. Contexts \in Nat /\ Index = 1..Contexts /\ a \in Nat /\ b \in Nat /\ b - a \in Nat
      /\ a <= b /\ b <= Contexts
  BY TypesFacts
<1>2. cs \in Seq(Seq(I)) /\ Itemized(t, flat, a, b)  BY FlatItems
<1>3. Total(t, Span(a, b)) = Len(flat)  BY DEF Total
<1>4. flat \in Seq(I)  BY <1>2 DEF Itemized
<1>5. Span(a, b) \in Seq(Index) /\ Len(Span(a, b)) = b - a
  <2>1. Span(a, b) = [n \in 1..(b - a) |-> a + n]  BY DEF Span
  <2>2. \A n \in 1..(b - a) : a + n \in Index  BY <1>1
  <2>3. QED  BY <1>1, <2>1, <2>2
<1>6. Prefix(a) \in Seq(Index) /\ Len(Prefix(a)) = a
  <2>1. Prefix(a) = [n \in 1..a |-> n]  BY DEF Prefix
  <2>2. \A n \in 1..a : n \in Index  BY <1>1
  <2>3. QED  BY <1>1, <2>1, <2>2
<1>7. f = [target |-> t, done |-> Prefix(a), items |-> items, size |-> size, completed |-> 0,
           chunks |-> IF items = <<>> THEN <<>> ELSE Chunks(Sink(t), size, Containers(t, items))]
  BY DEF Frame
<1>8. f.target = t /\ f.done = Prefix(a) /\ f.items = items /\ f.size = size /\ f.completed = 0
      /\ f.chunks = IF items = <<>> THEN <<>> ELSE Chunks(Sink(t), size, Containers(t, items))
  BY <1>7
<1> HIDE DEF I, cs, flat
<1>9. CASE Total(t, Span(a, b)) = 0
  <2>1. items = <<>> /\ f.chunks = <<>>  BY <1>8, <1>9
  <2>2. flat = <<>>
    <3>1. Len(flat) = 0  BY <1>3, <1>9
    <3>2. QED  BY <1>4, <3>1
  <2>3. Pending(f) = <<>>
    <3>1. <<>> \in Seq(Seq(I))  OBVIOUS
    <3>2. FlattenSeq(<<>>) = <<>>  BY <3>1, FlattenType
    <3>3. QED  BY <2>1, <3>2 DEF Pending
  <2>4. f \in FramesFor(t)
    <3>1. <<>> \in Seq(Seq(I)) /\ <<>> \in Seq(Index)  OBVIOUS
    <3>2. f.chunks \in Seq(Seq(I)) /\ items \in Seq(Index)  BY <2>1, <3>1
    <3>3. QED  BY <1>6, <1>7, <1>8, <3>2 DEF FramesFor, I
  <2>5. QED  BY <1>2, <1>8, <2>1, <2>2, <2>3, <2>4 DEF Shaped
<1>10. CASE Total(t, Span(a, b)) # 0
  <2>1. Total(t, Span(a, b)) > 0 /\ Len(flat) > 0
    <3>1. Len(flat) \in Nat  BY <1>4
    <3>2. QED  BY <1>3, <1>10, <3>1
  <2>2. size \in Nat \ {0}  BY <2>1
  <2>3. items = Span(a, b) /\ items # <<>>
    <3>1. items = Span(a, b)  BY <1>10
    <3>2. b # a
      <4>1. ASSUME b = a PROVE FALSE
        <5>1. 1 \in DOMAIN flat  BY <1>4, <2>1
        <5>2. a < flat[1].ctx /\ flat[1].ctx <= a  BY <1>2, <4>1, <5>1 DEF Itemized, Ordered
        <5>3. flat[1] \in I  BY <1>4, <5>1
        <5>4. flat[1].ctx \in Nat
          <6>1. flat[1].ctx \in Index  BY <5>3 DEF I, ItemSet, Targets
          <6>2. QED  BY <1>1, <6>1
        <5>5. QED  BY <1>1, <5>2, <5>4
      <4>2. QED  BY <4>1
    <3>3. QED  BY <1>1, <1>5, <3>1, <3>2
  <2> DEFINE ch == Chunks(Sink(t), size, cs)
  <2>4. f.chunks = ch  BY <1>8, <2>3 DEF cs
  <2>5. /\ ch \in Seq(Parts(Sink(t), size, I))
        /\ FlattenSeq(ch) = flat
        /\ ch = <<>> \/ Last(ch) # <<>>
    <3> DEFINE sk == Sink(t)
    <3>1. cs \in Seq(Seq(I))  BY <1>2
    <3> HIDE DEF sk
    <3>2. /\ Chunks(sk, size, cs) \in Seq(Parts(sk, size, I))
          /\ FlattenSeq(Chunks(sk, size, cs)) = FlattenSeq(cs)
          /\ Chunks(sk, size, cs) = <<>> \/ Last(Chunks(sk, size, cs)) # <<>>
      BY <2>2, <3>1, ChunksKeepAll
    <3>3. QED  BY <3>2 DEF sk, flat
  <2> HIDE DEF ch
  <2>6. Pending(f) = flat  BY <2>4, <2>5 DEF Pending
  <2>7. Start(f) = a /\ End(f) = b /\ Passed(f) = a
    <3>1. Start(f) = a  BY <1>6, <1>8 DEF Start
    <3>2. End(f) = a + (b - a)  BY <1>5, <1>6, <1>8, <2>3 DEF End
    <3>3. Passed(f) = a + 0  BY <1>6, <1>8 DEF Passed
    <3>4. QED  BY <1>1, <3>1, <3>2, <3>3
  <2>8. ch \in Seq(Seq(I))
    <3> DEFINE sk == Sink(t)
    <3>1. ch \in Seq(Parts(sk, size, I))  BY <2>5
    <3> HIDE DEF sk
    <3>2. QED  BY <3>1, PartsAreSequences
  <2>9. f \in FramesFor(t)
    <3>1. items \in Seq(Index)  BY <1>5, <2>3
    <3>2. QED  BY <1>6, <1>7, <1>8, <2>4, <2>8, <3>1 DEF FramesFor, I
  <2>10. Shaped(f)
    <3>1. f.size > 0  BY <1>8, <2>2
    <3>2. Sink(f.target).maxBatch > 0 => f.size <= Sink(f.target).maxBatch  BY <1>8, <2>1
    <3>3. f.chunks \in Seq(Parts(Sink(f.target), f.size, ItemSet(f.target)))
      BY <1>8, <2>4, <2>5 DEF I
    <3>4. f.chunks # <<>> => Last(f.chunks) # <<>>  BY <2>4, <2>5
    <3>5. f.done = Prefix(Start(f)) /\ f.items = Span(Start(f), End(f)) /\ End(f) <= Contexts
      BY <1>1, <1>8, <2>3, <2>7
    <3>6. Ordered(Pending(f), Passed(f), End(f))  BY <1>2, <2>6, <2>7 DEF Itemized
    <3>7. QED  BY <3>1, <3>2, <3>3, <3>4, <3>5, <3>6 DEF Shaped
  <2>11. QED  BY <1>2, <1>8, <2>6, <2>7, <2>9, <2>10
<1>11. QED  BY <1>9, <1>10

-----------------------------------------------------------------------------
(* What is in the store.                                                   *)

\* The contexts that pass the filters build on one another.
LEMMA GoodProperties ==
    ASSUME Types
    PROVE  /\ Good \in 0..Contexts
           /\ \A i \in 1..Good, k \in Key : Linear(contexts, i, k)
<1> DEFINE stale == FirstStale(contexts, epochs) - 1
           d == SubSeq(contexts, 1, stale)
<1>1. contexts \in Seq(ContextsOf(Key)) /\ Len(contexts) = Contexts /\ Contexts \in Nat
  BY TypesFacts DEF Types
<1>2. stale \in 0..Len(contexts)
  <2>1. FirstStale(contexts, epochs) \in 1..(Len(contexts) + 1)  BY <1>1, FirstStaleType
  <2>2. QED  BY <1>1, <2>1
<1>3. Good = FirstNonLinear(d) - 1  BY DEF Good
<1> HIDE DEF stale
<1>4. /\ FirstNonLinear(d) \in 1..(stale + 1)
      /\ \A i \in 1..stale : i < FirstNonLinear(d) => \A k : Linear(contexts, i, k)
  BY <1>1, <1>2, FilteredIsLinear
<1> HIDE DEF d
<1>5. Good \in 0..stale  BY <1>1, <1>2, <1>3, <1>4
<1>6. \A i \in 1..Good : i \in 1..stale /\ i < FirstNonLinear(d)  BY <1>1, <1>2, <1>3, <1>4
<1>7. QED  BY <1>1, <1>2, <1>4, <1>5, <1>6

\* How often a context is in a partition is how often it occurs there.
LEMMA TimesOccurs ==
    ASSUME NEW S, NEW s \in Seq(S), NEW i
    PROVE  Times(s, i) = Occurs(s, {i}) /\ Times(s, i) \in Nat
<1>1. Times(s, i) = Occurs(s, {i})  BY DEF Times, Occurs
<1>2. Occurs(s, {i}) \in 0..Len(s)  BY OccursBounds
<1>3. QED  BY <1>1, <1>2

\* Sequence numbers and lengths are numbers.
LEMMA StateNumbers ==
    ASSUME Types, NEW k \in Key, NEW i \in Index
    PROVE  /\ events[k] \in Seq(0..Contexts) /\ Times(events[k], i) \in Nat
           /\ StoredTo(contexts[i], k) \in Nat /\ contexts[i].base[k] \in Nat
<1>1. events[k] \in Seq(0..Contexts)  BY DEF Types
<1>2. Times(events[k], i) \in Nat  BY <1>1, TimesOccurs
<1>3. contexts[i] \in ContextsOf(Key)  BY TypesFacts
<1>4. contexts[i].stored \in Seq(Key) /\ contexts[i].base[k] \in Nat  BY <1>3 DEF ContextsOf
<1>5. StoredTo(contexts[i], k) \in Nat  BY <1>4, StoredToNat
<1>6. QED  BY <1>1, <1>2, <1>4, <1>5

\* The events of a context lie in as many places as it has.
LEMMA PlacesBound ==
    ASSUME NEW S, NEW s \in Seq(S), NEW b \in Nat, NEW m \in Nat, NEW i,
           \A p \in DOMAIN s : s[p] = i => b < p /\ p <= b + m
    PROVE  Times(s, i) <= m
<1> DEFINE at == {n \in DOMAIN s : s[n] = i}
<1>1. at \subseteq (b + 1)..(b + m)
  <2> SUFFICES ASSUME NEW p \in DOMAIN s, s[p] = i PROVE p \in (b + 1)..(b + m)  OBVIOUS
  <2>1. b < p /\ p <= b + m /\ p \in Nat  OBVIOUS
  <2>2. QED  BY <2>1
<1>2. Times(s, i) = Cardinality(at)  BY DEF Times
<1> HIDE DEF at
<1>3. IsFiniteSet((b + 1)..(b + m)) /\ Cardinality((b + 1)..(b + m)) = m
  <2>1. b + 1 \in Int /\ b + m \in Int /\ (b + m) - (b + 1) + 1 = m  OBVIOUS
  <2>2. /\ IsFiniteSet((b + 1)..(b + m))
        /\ Cardinality((b + 1)..(b + m)) = IF b + 1 > b + m THEN 0 ELSE (b + m) - (b + 1) + 1
    BY <2>1, FS_Interval
  <2>3. QED  BY <2>1, <2>2
<1>4. Cardinality(at) <= m  BY ZenonT(30), <1>1, <1>3, FS_Subset
<1>5. QED  BY <1>2, <1>4

\* A partition has no more events of a context than the context stored to it.
LEMMA PlacedBound ==
    ASSUME Types, NEW k \in Key, Placed(k), NEW i \in Index
    PROVE  Times(events[k], i) <= StoredTo(contexts[i], k)
<1> DEFINE s == events[k]
           b == contexts[i].base[k]
           m == StoredTo(contexts[i], k)
<1>1. b \in Nat /\ m \in Nat /\ i # 0 /\ s \in Seq(0..Contexts)
  BY StateNumbers, TypesFacts
<1>2. \A p \in DOMAIN s : s[p] = i => b < p /\ p <= b + m  BY <1>1 DEF Placed
<1> HIDE DEF s, b, m
<1>3. Times(s, i) <= m  BY <1>1, <1>2, PlacesBound
<1>4. QED  BY <1>3 DEF s, m

\* Nothing of a context is pending once it has completed.
LEMMA NothingPending ==
    ASSUME Types, NEW f \in FramesFor("store"), NEW i \in Nat,
           f.chunks = <<>> \/ (Shaped(f) /\ i <= Passed(f))
    PROVE  \A P \in SUBSET ItemSet("store") :
              (\A x \in P : x.ctx = i) => Occurs(Pending(f), P) = 0
<1> SUFFICES ASSUME NEW P \in SUBSET ItemSet("store"), \A x \in P : x.ctx = i
             PROVE  Occurs(Pending(f), P) = 0
  OBVIOUS
<1>1. f.chunks \in Seq(Seq(ItemSet("store")))  BY DEF FramesFor
<1>2. Pending(f) \in Seq(ItemSet("store"))  BY <1>1, FlattenType DEF Pending
<1>3. \A n \in DOMAIN Pending(f) : Pending(f)[n] \notin P
  <2>1. CASE f.chunks = <<>>
    <3>1. FlattenSeq(<<>>) = <<>>  BY <1>1, FlattenType
    <3>2. Pending(f) = <<>>  BY <2>1, <3>1 DEF Pending
    <3>3. QED  BY <3>2
  <2>2. CASE f.chunks # <<>>
    <3> SUFFICES ASSUME NEW n \in DOMAIN Pending(f), Pending(f)[n] \in P PROVE FALSE  OBVIOUS
    <3>1. Passed(f) < Pending(f)[n].ctx  BY <2>2 DEF Shaped, Ordered
    <3>2. Pending(f)[n].ctx = i  OBVIOUS
    <3>3. Passed(f) \in Nat
      <4>1. Len(f.done) \in Nat /\ f.completed \in Nat  BY DEF FramesFor
      <4>2. QED  BY <4>1 DEF Passed
    <3>4. i <= Passed(f)  BY <2>2
    <3>5. QED  BY <3>1, <3>2, <3>3, <3>4
  <2>3. QED  BY <2>1, <2>2
<1>4. QED  BY <1>2, <1>3, OccursBounds

\* The contexts a frame for the store has passed are settled.
LEMMA PassedIsSettled ==
    ASSUME Types, \A k \in Key : Placed(k), NEW f \in FramesFor("store"), Storing(f),
           NEW i \in 1..Good, f.chunks = <<>> \/ (Shaped(f) /\ i <= Passed(f))
    PROVE  Settled(i)
<1>1. i \in Index /\ i \in Nat  BY GoodProperties, TypesFacts
<1>2. \A P \in SUBSET ItemSet("store") :
         (\A x \in P : x.ctx = i) => Occurs(Pending(f), P) = 0
  BY <1>1, NothingPending
<1>3. \A k : Occurs(Pending(f), Adds(i, k)) = 0
  <2>1. \A k : Adds(i, k) \in SUBSET ItemSet("store") /\ \A x \in Adds(i, k) : x.ctx = i
    BY DEF Adds
  <2>2. QED  BY <1>2, <2>1
<1>4. \A k : Occurs(Pending(f), Verifies(i, k)) = 0
  <2>1. \A k : Verifies(i, k) \in SUBSET ItemSet("store") /\ \A x \in Verifies(i, k) : x.ctx = i
    BY DEF Verifies
  <2>2. QED  BY <1>2, <2>1
<1>5. Whole(i)
  <2> SUFFICES ASSUME NEW k \in Key PROVE Times(events[k], i) = StoredTo(contexts[i], k)
    BY DEF Whole
  <2>1. Times(events[k], i) <= StoredTo(contexts[i], k)  BY <1>1, PlacedBound
  <2>2. Times(events[k], i) + 0 >= StoredTo(contexts[i], k)  BY <1>3 DEF Storing
  <2>3. Times(events[k], i) \in Nat /\ StoredTo(contexts[i], k) \in Nat  BY <1>1, StateNumbers
  <2>4. QED  BY <2>1, <2>2, <2>3
<1>6. Serial => \A k \in OnlyLoaded(i) : Current(i, k)
  <2> SUFFICES ASSUME Serial, NEW k \in OnlyLoaded(i) PROVE Current(i, k)  OBVIOUS
  <2>1. Current(i, k) \/ Occurs(Pending(f), Verifies(i, k)) > 0  BY DEF Storing
  <2>2. ~(0 > 0)  OBVIOUS
  <2>3. QED  BY <1>4, <2>1, <2>2
<1>7. QED  BY <1>5, <1>6 DEF Settled

\* A frame for the contexts from a + 1 to those that pass, if all before are
\* settled.
LEMMA NewStoring ==
    ASSUME Types, NEW a \in 0..Good, NEW f \in FramesFor("store"),
           Itemized("store", Pending(f), a, Good), f.chunks # <<>> => End(f) = Good,
           \A i \in 1..a : Settled(i)
    PROVE  Storing(f)
<1>1. Good \in Nat /\ Good <= Contexts /\ a \in Nat /\ a <= Good /\ Index = 1..Contexts
      /\ Contexts \in Nat
  BY GoodProperties, TypesFacts
<1>2. f.target = "store"  BY DEF FramesFor
<1>3. \A n \in DOMAIN Pending(f) :
         Pending(f)[n].sn = contexts[Pending(f)[n].ctx].base[Pending(f)[n].key]
  BY DEF Itemized
<1>4. \A i \in Index, k \in Key :
         Occurs(Pending(f), Adds(i, k))
            = IF a < i /\ i <= Good THEN StoredTo(contexts[i], k) ELSE 0
  BY DEF Itemized
<1>5. ASSUME NEW i \in Index, NEW k \in Key
      PROVE  Occurs(Pending(f), Adds(i, k)) <= StoredTo(contexts[i], k)
  <2>1. StoredTo(contexts[i], k) \in Nat  BY StateNumbers
  <2>2. QED  BY <1>4, <2>1
<1>6. ASSUME NEW i \in 1..Good
      PROVE  /\ \A k \in Key : Times(events[k], i) + Occurs(Pending(f), Adds(i, k))
                                  >= StoredTo(contexts[i], k)
             /\ Serial => \A k \in OnlyLoaded(i) :
                              Current(i, k) \/ Occurs(Pending(f), Verifies(i, k)) > 0
  <2>1. i \in Index  BY <1>1
  <2>2. CASE i <= a
    <3>1. Settled(i)  BY <1>1, <2>2
    <3>2. ASSUME NEW k \in Key
          PROVE  Times(events[k], i) + Occurs(Pending(f), Adds(i, k)) >= StoredTo(contexts[i], k)
      <4>1. Times(events[k], i) = StoredTo(contexts[i], k)  BY <3>1 DEF Settled, Whole
      <4>2. Occurs(Pending(f), Adds(i, k)) = 0
        <5>1. ~(a < i)  BY <1>1, <2>2
        <5>2. QED  BY <1>4, <2>1, <5>1
      <4>3. StoredTo(contexts[i], k) \in Nat  BY <2>1, StateNumbers
      <4>4. QED  BY <4>1, <4>2, <4>3
    <3>3. QED  BY <3>1, <3>2 DEF Settled
  <2>3. CASE a < i
    <3>1. i <= Good  BY <1>1
    <3>2. ASSUME NEW k \in Key
          PROVE  Times(events[k], i) + Occurs(Pending(f), Adds(i, k)) >= StoredTo(contexts[i], k)
      <4>1. Occurs(Pending(f), Adds(i, k)) = StoredTo(contexts[i], k)  BY <1>4, <2>1, <2>3, <3>1
      <4>2. Times(events[k], i) \in Nat /\ StoredTo(contexts[i], k) \in Nat  BY <2>1, StateNumbers
      <4>3. QED  BY <4>1, <4>2
    <3>3. \A k \in OnlyLoaded(i) : Occurs(Pending(f), Verifies(i, k)) > 0
      BY <2>1, <2>3, <3>1 DEF Itemized
    <3>4. QED  BY <3>2, <3>3
  <2>4. QED  BY <1>1, <2>2, <2>3
<1>7. QED  BY <1>2, <1>3, <1>5, <1>6 DEF Storing

-----------------------------------------------------------------------------
(* A chunk that its sink has taken.                                        *)

\* The frame that is left: the contexts whose last items were in the chunk have
\* completed, and what is pending belongs to later ones.
LEMMA ChunkTaken ==
    ASSUME Types, NEW t \in Targets, NEW f \in FramesFor(t), Shaped(f), f.chunks # <<>>,
           NEW g, g = [f EXCEPT !.chunks = Tail(@), !.completed = @ + CompletedBy(Head(f.chunks))]
    PROVE  /\ g \in FramesFor(t) /\ Shaped(g) /\ End(g) = End(f)
           /\ Head(f.chunks) \in Seq(ItemSet(t)) /\ Pending(g) \in Seq(ItemSet(t))
           /\ Pending(f) = Head(f.chunks) \o Pending(g)
<1> DEFINE I == ItemSet(t)
           c == Head(f.chunks)
           rest == Pending(g)
           lasts == {n \in DOMAIN c : c[n].last}
           p == Passed(f)
<1>1. /\ f.chunks \in Seq(Seq(I)) /\ f.completed \in Nat /\ f.target = t
      /\ f.done \in Seq(Index) /\ f.items \in Seq(Index) /\ f.size \in Nat
      /\ f = [target |-> f.target, done |-> f.done, items |-> f.items, size |-> f.size,
              completed |-> f.completed, chunks |-> f.chunks]
  BY DEF FramesFor
<1>2. /\ g.target = f.target /\ g.done = f.done /\ g.items = f.items /\ g.size = f.size
      /\ g.completed = f.completed + CompletedBy(c) /\ g.chunks = Tail(f.chunks)
      /\ g = [target |-> f.target, done |-> f.done, items |-> f.items, size |-> f.size,
              completed |-> f.completed + CompletedBy(c), chunks |-> Tail(f.chunks)]
  BY <1>1
<1> HIDE DEF I, c
<1>3. /\ c \in Seq(I) /\ Tail(f.chunks) \in Seq(Seq(I))
      /\ Pending(f) = c \o rest
  <2> DEFINE s == f.chunks
  <2>1. s \in Seq(Seq(I)) /\ s # <<>>  BY <1>1
  <2> HIDE DEF s
  <2>2. Head(s) \in Seq(I) /\ Tail(s) \in Seq(Seq(I))
        /\ FlattenSeq(s) = Head(s) \o FlattenSeq(Tail(s))
    BY <2>1, FlattenTail
  <2>3. QED  BY <1>2, <2>2 DEF Pending, c, s
<1>4. rest \in Seq(I)  BY <1>2, <1>3, FlattenType DEF Pending
<1> HIDE DEF rest
<1>5. /\ Len(c) \in Nat /\ DOMAIN c = 1..Len(c) /\ DOMAIN rest = 1..Len(rest) /\ Len(rest) \in Nat
      /\ DOMAIN Pending(f) = 1..(Len(c) + Len(rest))
      /\ \A n \in 1..Len(c) : Pending(f)[n] = c[n]
      /\ \A n \in 1..Len(rest) : Pending(f)[Len(c) + n] = rest[n]
  BY <1>3, <1>4
<1>6. Ordered(Pending(f), p, End(f)) /\ p \in Nat
  <2>1. Len(f.done) \in Nat  BY <1>1
  <2>2. QED  BY <1>1, <2>1 DEF Shaped, Passed
<1> HIDE DEF p
<1>7. \A n \in 1..Len(c) : c[n].ctx \in Nat
  <2>1. \A x \in I : x.ctx \in Nat
    <3>1. \A x \in I : x.ctx \in Index  BY DEF I, ItemSet, Targets
    <3>2. QED  BY <3>1, TypesFacts
  <2>2. \A n \in 1..Len(c) : c[n] \in I  BY <1>3
  <2>3. QED  BY <2>1, <2>2
<1>8. CompletedBy(c) \in Nat /\ IsFiniteSet(lasts) /\ CompletedBy(c) = Cardinality(lasts)
  <2>1. lasts \in SUBSET (1..Len(c))  BY <1>5
  <2>2. IsFiniteSet(1..Len(c))
    <3>1. \A h \in Nat : IsFiniteSet(1..h)  BY FS_Interval
    <3>2. QED  BY <1>5, <3>1
  <2>3. CompletedBy(c) = Cardinality(lasts)  BY DEF CompletedBy
  <2> HIDE DEF lasts
  <2>4. IsFiniteSet(lasts)  BY <2>1, <2>2, FS_Subset
  <2>5. QED  BY <2>3, <2>4, FS_CardinalityType
<1>9. g \in FramesFor(t)
  <2>1. f.completed + CompletedBy(c) \in Nat  BY <1>1, <1>8
  <2>2. QED  BY <1>1, <1>2, <1>3, <2>1 DEF FramesFor, I
<1>10. End(g) = End(f)  BY <1>2 DEF End
<1>11. ASSUME NEW q \in 1..Len(rest)
       PROVE  Passed(g) < rest[q].ctx /\ rest[q].ctx <= End(g)
  <2> DEFINE e == rest[q].ctx
             h == [n \in lasts |-> c[n].ctx]
  <2>1. p < e /\ e <= End(f)
    <3>1. Len(c) + q \in DOMAIN Pending(f)  BY <1>5
    <3>2. Pending(f)[Len(c) + q] = rest[q]  BY <1>5
    <3>3. QED  BY <1>6, <3>1, <3>2 DEF Ordered
  <2>2. e \in Nat
    <3>1. rest[q] \in I  BY <1>4
    <3>2. rest[q].ctx \in Index  BY <3>1 DEF I, ItemSet, Targets
    <3>3. QED  BY <3>2, TypesFacts
  <2>3. \A n \in lasts : n \in 1..Len(c) /\ p < c[n].ctx /\ c[n].ctx < e
    <3> SUFFICES ASSUME NEW n \in 1..Len(c), c[n].last PROVE p < c[n].ctx /\ c[n].ctx < e
      BY <1>5
    <3>1. n \in DOMAIN Pending(f) /\ Len(c) + q \in DOMAIN Pending(f) /\ n < Len(c) + q  BY <1>5
    <3>2. Pending(f)[n] = c[n] /\ Pending(f)[Len(c) + q] = rest[q]  BY <1>5
    <3>3. p < c[n].ctx  BY <1>6, <3>1, <3>2 DEF Ordered
    <3>4. c[n].ctx < rest[q].ctx  BY <1>6, <3>1, <3>2 DEF Ordered
    <3>5. QED  BY <3>3, <3>4
  <2>4. \A m, n \in lasts : m < n => c[m].ctx < c[n].ctx
    <3> SUFFICES ASSUME NEW m \in 1..Len(c), NEW n \in 1..Len(c), c[m].last, m < n
                 PROVE  c[m].ctx < c[n].ctx
      BY <1>5
    <3>1. m \in DOMAIN Pending(f) /\ n \in DOMAIN Pending(f)  BY <1>5
    <3>2. Pending(f)[m] = c[m] /\ Pending(f)[n] = c[n]  BY <1>5
    <3>3. QED  BY <1>6, <3>1, <3>2 DEF Ordered
  <2> HIDE DEF e, lasts
  <2>5. \A n \in lasts : c[n].ctx \in (p + 1)..(e - 1)
    <3> SUFFICES ASSUME NEW n \in lasts PROVE c[n].ctx \in (p + 1)..(e - 1)  OBVIOUS
    <3>1. c[n].ctx \in Nat /\ p < c[n].ctx /\ c[n].ctx < e  BY <1>7, <2>3
    <3>2. QED  BY <1>6, <2>2, <3>1
  <2>6. \A m, n \in lasts : c[m].ctx = c[n].ctx => m = n
    <3> SUFFICES ASSUME NEW m \in lasts, NEW n \in lasts, c[m].ctx = c[n].ctx, m # n PROVE FALSE
      OBVIOUS
    <3>1. m \in Nat /\ n \in Nat /\ c[m].ctx \in Nat /\ c[n].ctx \in Nat  BY <1>5, <1>7, <2>3
    <3>2. m < n \/ n < m  BY <3>1
    <3>3. c[m].ctx < c[n].ctx \/ c[n].ctx < c[m].ctx  BY <2>4, <3>2
    <3>4. QED  BY <3>1, <3>3
  <2>7. h \in Injection(lasts, (p + 1)..(e - 1))
    <3>1. h \in [lasts -> (p + 1)..(e - 1)]  BY <2>5
    <3>2. IsInjective(h)  BY <2>6 DEF IsInjective
    <3>3. QED  BY <3>1, <3>2 DEF Injection
  <2>8. IsFiniteSet((p + 1)..(e - 1)) /\ Cardinality((p + 1)..(e - 1)) = (e - 1) - p
    <3>1. p + 1 \in Int /\ e - 1 \in Int /\ (e - 1) - (p + 1) + 1 = (e - 1) - p /\ p <= e - 1
      BY <1>6, <2>1, <2>2 DEF e
    <3>2. /\ IsFiniteSet((p + 1)..(e - 1))
          /\ Cardinality((p + 1)..(e - 1))
                = IF p + 1 > e - 1 THEN 0 ELSE (e - 1) - (p + 1) + 1
      BY <3>1, FS_Interval
    <3>3. p + 1 > e - 1 => (e - 1) - p = 0  BY <1>6, <2>2, <3>1
    <3>4. QED  BY <3>1, <3>2, <3>3
  <2> HIDE DEF h
  <2>9. Cardinality(lasts) <= (e - 1) - p  BY <2>7, <2>8, FS_Injection
  <2>10. Passed(g) = p + CompletedBy(c)
    <3>1. Len(f.done) \in Nat  BY <1>1
    <3>2. Passed(g) = Len(f.done) + (f.completed + CompletedBy(c))  BY <1>2 DEF Passed
    <3>3. p = Len(f.done) + f.completed  BY DEF p, Passed
    <3>4. QED  BY <1>1, <1>8, <3>1, <3>2, <3>3
  <2>11. Passed(g) < e  BY <1>6, <1>8, <2>2, <2>9, <2>10
  <2>12. QED  BY <1>10, <2>1, <2>11 DEF e
<1>12. Ordered(rest, Passed(g), End(g))
  <2>1. ASSUME NEW m \in 1..Len(rest), NEW n \in 1..Len(rest), m < n
        PROVE  rest[m].ctx <= rest[n].ctx /\ (rest[m].last => rest[m].ctx < rest[n].ctx)
    <3>1. Len(c) + m \in DOMAIN Pending(f) /\ Len(c) + n \in DOMAIN Pending(f)
          /\ Len(c) + m < Len(c) + n
      BY <1>5, <2>1
    <3>2. Pending(f)[Len(c) + m] = rest[m] /\ Pending(f)[Len(c) + n] = rest[n]  BY <1>5
    <3>3. QED  BY <1>6, <3>1, <3>2 DEF Ordered
  <2>2. QED  BY <1>5, <1>11, <2>1 DEF Ordered
<1>13. Shaped(g)
  <2> SUFFICES ASSUME g.chunks # <<>> PROVE Shaped(g)  BY DEF Shaped
  <2>1. g.size > 0 /\ (Sink(g.target).maxBatch > 0 => g.size <= Sink(g.target).maxBatch)
    BY <1>2 DEF Shaped
  <2>2. g.chunks \in Seq(Parts(Sink(g.target), g.size, ItemSet(g.target)))
        /\ Last(g.chunks) # <<>>
    <3> DEFINE s == f.chunks
               P == Parts(Sink(f.target), f.size, ItemSet(f.target))
    <3>1. s \in Seq(P) /\ s # <<>> /\ Last(s) # <<>> /\ Tail(s) # <<>>  BY <1>2 DEF Shaped
    <3> HIDE DEF s, P
    <3>2. Tail(s) \in Seq(P) /\ Last(Tail(s)) = Last(s)
      <4>1. Tail(s) \in Seq(P) /\ Len(Tail(s)) = Len(s) - 1  BY <3>1
      <4>2. Len(Tail(s)) \in Nat \ {0} /\ Len(s) \in Nat  BY <3>1, <4>1
      <4>3. Tail(s)[Len(s) - 1] = s[(Len(s) - 1) + 1]
        <5>1. \A i \in 1..Len(Tail(s)) : Tail(s)[i] = s[i + 1]  BY <3>1, HeadTailProperties
        <5>2. Len(s) - 1 \in 1..Len(Tail(s))  BY <4>1, <4>2
        <5>3. QED  BY <5>1, <5>2
      <4>4. (Len(s) - 1) + 1 = Len(s)  BY <4>2
      <4>5. QED  BY <4>1, <4>3, <4>4 DEF Last
    <3>3. QED  BY <1>2, <3>1, <3>2 DEF s, P
  <2>3. g.done = Prefix(Start(g)) /\ g.items = Span(Start(g), End(g)) /\ End(g) <= Contexts
    BY <1>2, <1>10 DEF Shaped, Start
  <2>4. QED  BY <1>12, <2>1, <2>2, <2>3 DEF Shaped, rest
<1>14. QED  BY <1>3, <1>4, <1>9, <1>10, <1>13 DEF I, c, rest

\* The items before the next one that add to a partition.
LEMMA AdditionsStep ==
    ASSUME NEW c, NEW k, NEW n \in Nat \ {0}
    PROVE  /\ Additions(c, n, k) \in Nat /\ Additions(c, 1, k) = 0
           /\ Additions(c, n + 1, k)
                = Additions(c, n, k) + (IF c[n].key = k /\ ~c[n].verify THEN 1 ELSE 0)
<1> DEFINE A == {j \in 1..(n - 1) : c[j].key = k /\ ~c[j].verify}
           B == {j \in 1..((n + 1) - 1) : c[j].key = k /\ ~c[j].verify}
<1>1. Additions(c, n, k) = Cardinality(A) /\ Additions(c, n + 1, k) = Cardinality(B)
  BY DEF Additions
<1>2. B = IF c[n].key = k /\ ~c[n].verify THEN A \cup {n} ELSE A
  <2>1. \A j : j \in 1..((n + 1) - 1) <=> j \in 1..(n - 1) \/ j = n  OBVIOUS
  <2>2. QED  BY <2>1
<1>3. IsFiniteSet(A) /\ n \notin A
  <2>1. A \in SUBSET (1..(n - 1)) /\ n \notin 1..(n - 1)  OBVIOUS
  <2>2. IsFiniteSet(1..(n - 1))  BY FS_Interval
  <2> HIDE DEF A
  <2>3. QED  BY <2>1, <2>2, FS_Subset
<1>4. Additions(c, 1, k) = 0
  <2>1. {j \in 1..(1 - 1) : c[j].key = k /\ ~c[j].verify} = {}  OBVIOUS
  <2>2. QED  BY <2>1, FS_EmptySet DEF Additions
<1> HIDE DEF A, B
<1>5. Cardinality(A) \in Nat /\ Cardinality(A \cup {n}) = Cardinality(A) + 1
  BY <1>3, FS_CardinalityType, FS_AddElement
<1>6. CASE c[n].key = k /\ ~c[n].verify  BY <1>1, <1>2, <1>4, <1>5, <1>6
<1>7. CASE ~(c[n].key = k /\ ~c[n].verify)  BY <1>1, <1>2, <1>4, <1>5, <1>7
<1>8. QED  BY <1>6, <1>7

\* What a chunk adds to a partition comes after what is there, in its order.
LEMMA ExtendedProperties ==
    ASSUME Types, NEW c \in Seq(ItemSet("store")), NEW k \in Key
    PROVE  LET old == events[k]
               new == Extended(c, k)
           IN  /\ new \in Seq(0..Contexts) /\ Len(old) <= Len(new)
               /\ \A p \in 1..Len(old) : new[p] = old[p]
               /\ \A p \in 1..Len(new) : p > Len(old) =>
                     \E m \in 1..Len(c) : /\ c[m].key = k /\ ~c[m].verify /\ new[p] = c[m].ctx
                                          /\ p = Len(old) + Additions(c, m, k) + 1
               /\ \A n \in 1..Len(c) : Len(old) + Additions(c, n, k) <= Len(new)
               /\ \A i \in Index : Times(new, i) = Times(old, i) + Occurs(c, Adds(i, k))
<1> DEFINE N == Len(c)
           S == Seq(0..Contexts)
           old == events[k]
           L == Len(old)
           add(n) == c[n].key = k /\ ~c[n].verify
           step == [n \in 1..N |-> [x \in S |-> IF add(n) THEN Append(x, c[n].ctx) ELSE x]]
           Is(g) == g = [n \in 0..N |->
                           IF n = 0 THEN old
                           ELSE IF add(n) THEN Append(g[n - 1], c[n].ctx) ELSE g[n - 1]]
           F == CHOOSE g : Is(g)
<1>0. Extended(c, k) = F[N]  BY DEF Extended
<1>1. N \in Nat /\ old \in S /\ L \in Nat /\ Contexts \in Nat
  BY TypesFacts DEF Types
<1>2. \A n \in 1..N : c[n] \in ItemSet("store") /\ c[n].ctx \in 0..Contexts
  <2>1. \A x \in ItemSet("store") : x.ctx \in Index  BY DEF ItemSet
  <2>2. Index \subseteq 0..Contexts  BY TypesFacts
  <2>3. \A n \in 1..N : c[n] \in ItemSet("store")  OBVIOUS
  <2>4. QED  BY <2>1, <2>2, <2>3
<1>3. step \in [1..N -> [S -> S]]
  <2>1. \A n \in 1..N, x \in S : Append(x, c[n].ctx) \in S  BY <1>2
  <2> HIDE DEF N, S, add
  <2>2. QED  BY <2>1
<1>4. \E f \in [0..N -> S] : Recurs(f, N, old, step)
  <2> HIDE DEF step, N, S, old
  <2>1. QED  BY <1>1, <1>3, Recursion
<1>5. PICK f \in [0..N -> S] : Recurs(f, N, old, step)  BY <1>4
<1>6. Is(f)
  <2> HIDE DEF N, S, old, add
  <2>1. \A n \in 1..N : f[n - 1] \in S  BY <1>1
  <2>2. \A n \in 1..N : f[n] = IF add(n) THEN Append(f[n - 1], c[n].ctx) ELSE f[n - 1]
    BY <1>5, <2>1 DEF Recurs
  <2>3. f[0] = old  BY <1>5 DEF Recurs
  <2>4. \A n \in 0..N : n # 0 => n \in 1..N  BY <1>1
  <2>5. f = [n \in 0..N |-> f[n]]  OBVIOUS
  <2>6. QED  BY <2>2, <2>3, <2>4, <2>5
<1>7. Is(F)
  <2> HIDE DEF Is
  <2>1. QED  BY <1>6
<1> HIDE DEF F
<1>8. /\ F[0] = old
      /\ \A n \in 1..N : F[n] = IF add(n) THEN Append(F[n - 1], c[n].ctx) ELSE F[n - 1]
  <2> HIDE DEF N, S, old, add
  <2>1. \A n \in 1..N : n \in 0..N /\ n # 0  BY <1>1
  <2>2. 0 \in 0..N  BY <1>1
  <2>3. QED  BY <1>7, <2>1, <2>2
<1> DEFINE u(n) == SubSeq(c, 1, n)
           A(n) == Additions(c, n, k)
           R(n) == /\ F[n] \in S /\ Len(F[n]) = L + A(n + 1)
                   /\ \A p \in 1..L : F[n][p] = old[p]
                   /\ \A p \in 1..Len(F[n]) : p > L =>
                         \E m \in 1..n : add(m) /\ F[n][p] = c[m].ctx /\ p = L + A(m) + 1
                   /\ \A i \in Index : Times(F[n], i) = Times(old, i) + Occurs(u(n), Adds(i, k))
                   /\ \A m \in 1..n : A(m) <= A(n + 1)
           T == {n \in Nat : n \in 0..N => R(n)}
<1>9. \A n \in Nat \ {0} : /\ A(n) \in Nat /\ A(1) = 0
                           /\ A(n + 1) = A(n) + (IF add(n) THEN 1 ELSE 0)
  BY AdditionsStep
<1>10. /\ \A s \in S : \A i : Times(s, i) \in Nat /\ Times(s, i) = Occurs(s, {i})
       /\ \A s \in S, e \in 0..Contexts : \A i :
             Times(Append(s, e), i) = Times(s, i) + (IF e = i THEN 1 ELSE 0)
  <2>1. \A s \in S : \A i : Times(s, i) \in Nat /\ Times(s, i) = Occurs(s, {i})  BY Zenon, TimesOccurs
  <2>2. \A s \in S, e \in 0..Contexts : \A i :
          Occurs(Append(s, e), {i}) = Occurs(s, {i}) + (IF e \in {i} THEN 1 ELSE 0)
    BY OccursAppend
  <2>3. \A s \in S, e \in 0..Contexts : Append(s, e) \in S  OBVIOUS
  <2> HIDE DEF S
  <2>4. QED  BY <2>1, <2>2, <2>3
<1>11. \A n \in 1..N, i \in Index :
          Occurs(u(n), Adds(i, k))
            = Occurs(u(n - 1), Adds(i, k)) + (IF add(n) /\ c[n].ctx = i THEN 1 ELSE 0)
  <2> SUFFICES ASSUME NEW n \in 1..N, NEW i \in Index
               PROVE  Occurs(u(n), Adds(i, k))
                        = Occurs(u(n - 1), Adds(i, k)) + (IF add(n) /\ c[n].ctx = i THEN 1 ELSE 0)
    OBVIOUS
  <2> DEFINE I == ItemSet("store")
             v == u(n - 1)
             x == c[n]
             P == Adds(i, k)
  <2>1. u(n) = Append(v, x)  BY SubSeqAppend
  <2>2. v \in Seq(I) /\ x \in I
    <3>1. \A m \in 1..(n - 1) : m \in 1..N  BY <1>1
    <3>2. n - 1 \in 0..N  BY <1>1
    <3>3. \A j \in 0..N : SubSeq(c, 1, j) \in Seq(I)  OBVIOUS
    <3>4. QED  BY <1>2, <3>2, <3>3
  <2> HIDE DEF v, I, u, P
  <2>3. Occurs(Append(v, x), P) = Occurs(v, P) + (IF x \in P THEN 1 ELSE 0)
    <3> HIDE DEF x
    <3>1. QED  BY <2>2, OccursAppend
  <2>4. x \in P <=> add(n) /\ c[n].ctx = i  BY <1>2 DEF P, Adds
  <2>5. QED  BY <2>1, <2>3, <2>4 DEF v, P
<1>12. 0 \in T
  <2>1. u(0) = <<>>  OBVIOUS
  <2>2. \A P : Occurs(<<>>, P) = 0
    <3>1. <<>> \in Seq(ItemSet("store"))  OBVIOUS
    <3>2. \A P : Occurs(<<>>, P) \in 0..Len(<<>>)  BY <3>1, OccursBounds
    <3>3. 0..Len(<<>>) = {0}  OBVIOUS
    <3>4. QED  BY <3>2, <3>3
  <2>3. A(0 + 1) = 0
    <3>1. 1 \in Nat \ {0} /\ 0 + 1 = 1  OBVIOUS
    <3> HIDE DEF A
    <3>2. QED  BY <1>9, <3>1
  <2> HIDE DEF A, u, add
  <2>4. F[0] \in S /\ Len(F[0]) = L + A(0 + 1)  BY <1>1, <1>8, <2>3
  <2>5. \A p \in 1..Len(F[0]) : ~(p > L)  BY <1>1, <1>8
  <2>6. \A i \in Index : Times(F[0], i) = Times(old, i) + Occurs(u(0), Adds(i, k))
    <3> HIDE DEF S, old
    <3>1. \A i : Times(F[0], i) = Times(old, i) /\ Times(old, i) \in Nat  BY <1>1, <1>8, <1>10
    <3>2. QED  BY <2>1, <2>2, <3>1
  <2>7. R(0)
    <3> HIDE DEF S
    <3>1. \A p \in 1..L : F[0][p] = old[p]  BY <1>8
    <3>2. \A m \in 1..0 : A(m) <= A(0 + 1)  OBVIOUS
    <3>3. QED  BY <2>4, <2>5, <2>6, <3>1, <3>2
  <2> HIDE DEF R
  <2>8. QED  BY <2>7
<1> HIDE DEF S, A, u, add, L, N, old
<1>13. ASSUME NEW n \in 1..N, n - 1 \in T PROVE n \in T
  <2>1. n \in Nat \ {0} /\ n - 1 \in 0..N /\ (n - 1) + 1 = n  BY <1>1
  <2>2. R(n - 1)  BY <1>13, <2>1
  <2> DEFINE g == F[n - 1]
             h == F[n]
  <2>3. /\ g \in S /\ Len(g) = L + A(n)
        /\ \A p \in 1..L : g[p] = old[p]
        /\ \A p \in 1..Len(g) : p > L =>
              \E m \in 1..(n - 1) : add(m) /\ g[p] = c[m].ctx /\ p = L + A(m) + 1
        /\ \A i \in Index : Times(g, i) = Times(old, i) + Occurs(u(n - 1), Adds(i, k))
        /\ \A m \in 1..(n - 1) : A(m) <= A(n)
    BY <2>1, <2>2
  <2>4. A(n) \in Nat /\ A(n + 1) = A(n) + (IF add(n) THEN 1 ELSE 0)  BY <1>9, <2>1
  <2>5. \A i \in Index :
          Occurs(u(n), Adds(i, k))
            = Occurs(u(n - 1), Adds(i, k)) + (IF add(n) /\ c[n].ctx = i THEN 1 ELSE 0)
    BY <1>11
  <2>6. h = IF add(n) THEN Append(g, c[n].ctx) ELSE g  BY <1>8
  <2>7. \A i \in Index : Times(g, i) \in Nat /\ Times(old, i) \in Nat  BY <1>1, <1>10, <2>3
  <2>8. \A m \in 1..n : A(m) <= A(n + 1)
    <3> SUFFICES ASSUME NEW m \in 1..n PROVE A(m) <= A(n + 1)  OBVIOUS
    <3>1. A(m) \in Nat
      <4>1. m \in Nat \ {0}  BY <2>1
      <4>2. QED  BY <1>9, <4>1
    <3>2. CASE m = n  BY <2>4, <3>1, <3>2
    <3>3. CASE m # n
      <4>1. A(m) <= A(n)  BY <2>1, <2>3, <3>3
      <4>2. QED  BY <2>4, <3>1, <4>1
    <3>4. QED  BY <3>2, <3>3
  <2>9. \A i \in Index : Occurs(u(n - 1), Adds(i, k)) = Times(g, i) - Times(old, i)
    <3> SUFFICES ASSUME NEW i \in Index
                 PROVE  Occurs(u(n - 1), Adds(i, k)) = Times(g, i) - Times(old, i)
      OBVIOUS
    <3> DEFINE o == Occurs(u(n - 1), Adds(i, k))
    <3>1. o \in Nat
      <4> DEFINE v == u(n - 1)
      <4>1. v \in Seq(ItemSet("store"))
        <5>1. \A j \in 0..Len(c) : SubSeq(c, 1, j) \in Seq(ItemSet("store"))  OBVIOUS
        <5>2. QED  BY <2>1, <5>1 DEF u, N
      <4> HIDE DEF v
      <4>2. Occurs(v, Adds(i, k)) \in 0..Len(v)  BY <4>1, OccursBounds
      <4>3. QED  BY <4>2 DEF v
    <3>2. Times(g, i) = Times(old, i) + o  BY <2>3
    <3> HIDE DEF o
    <3>3. Times(g, i) - Times(old, i) = o  BY <2>7, <3>1, <3>2
    <3>4. QED  BY <3>3 DEF o
  <2> HIDE DEF g, h
  <2>10. CASE ~add(n)
    <3>1. h = g /\ A(n + 1) = A(n)  BY <2>4, <2>6, <2>10
    <3>2. \A i \in Index : Occurs(u(n), Adds(i, k)) = Occurs(u(n - 1), Adds(i, k))
      BY <2>5, <2>7, <2>9, <2>10
    <3>3. \A m \in 1..(n - 1) : m \in 1..n  BY <2>1
    <3>4. R(n)
      <4>1. h \in S /\ Len(h) = L + A(n + 1) /\ \A p \in 1..L : h[p] = old[p]  BY <2>3, <3>1
      <4>2. \A p \in 1..Len(h) : p > L =>
               \E m \in 1..n : add(m) /\ h[p] = c[m].ctx /\ p = L + A(m) + 1
        BY <2>3, <3>1, <3>3
      <4>3. \A i \in Index : Times(h, i) = Times(old, i) + Occurs(u(n), Adds(i, k))
        BY <2>3, <3>1, <3>2
      <4>4. QED  BY <2>8, <4>1, <4>2, <4>3 DEF h
    <3> HIDE DEF R
    <3>5. QED  BY <2>1, <3>4
  <2>11. CASE add(n)
    <3>1. h = Append(g, c[n].ctx) /\ A(n + 1) = A(n) + 1 /\ c[n].ctx \in 0..Contexts
      BY <1>2, <2>4, <2>6, <2>11
    <3>2. /\ h \in S /\ Len(h) = Len(g) + 1 /\ Len(g) \in Nat /\ h[Len(g) + 1] = c[n].ctx
          /\ \A p \in 1..Len(g) : h[p] = g[p]
      <4>1. g \in Seq(0..Contexts)  BY <2>3 DEF S
      <4>2. QED  BY <3>1, <4>1, AppendProperties DEF S
    <3>3. Len(h) = L + A(n + 1)  BY <1>1, <2>3, <2>4, <3>1, <3>2
    <3>4. \A p \in 1..L : h[p] = old[p]
      <4>1. \A p \in 1..L : p \in 1..Len(g)  BY <1>1, <2>3, <2>4
      <4>2. QED  BY <2>3, <3>2, <4>1
    <3>5. ASSUME NEW p \in 1..Len(h), p > L
          PROVE  \E m \in 1..n : add(m) /\ h[p] = c[m].ctx /\ p = L + A(m) + 1
      <4>1. CASE p \in 1..Len(g)
        <5>1. PICK m \in 1..(n - 1) : add(m) /\ g[p] = c[m].ctx /\ p = L + A(m) + 1
          BY <2>3, <3>5, <4>1
        <5>2. m \in 1..n /\ h[p] = g[p]  BY <2>1, <3>2, <4>1
        <5>3. QED  BY <5>1, <5>2
      <4>2. CASE p = Len(g) + 1
        <5>1. n \in 1..n /\ p = L + A(n) + 1  BY <2>1, <2>3, <4>2
        <5>2. QED  BY <2>11, <3>2, <4>2, <5>1
      <4>3. QED  BY <3>2, <4>1, <4>2
    <3>6. ASSUME NEW i \in Index PROVE Times(h, i) = Times(old, i) + Occurs(u(n), Adds(i, k))
      <4>1. Times(h, i) = Times(g, i) + (IF c[n].ctx = i THEN 1 ELSE 0)
        BY <1>10, <2>3, <3>1
      <4>2. Occurs(u(n), Adds(i, k))
              = (Times(g, i) - Times(old, i)) + (IF c[n].ctx = i THEN 1 ELSE 0)
        BY <2>5, <2>9, <2>11
      <4>3. QED  BY <2>7, <4>1, <4>2
    <3>7. R(n)  BY <2>8, <3>2, <3>3, <3>4, <3>5, <3>6 DEF h
    <3> HIDE DEF R
    <3>8. QED  BY <2>1, <3>7
  <2>12. QED  BY <2>10, <2>11
<1>14. 0..N \subseteq T
  <2> HIDE DEF T
  <2>1. QED  BY <1>1, <1>12, <1>13, BoundedInduction
<1>15. R(N)
  <2>1. N \in 0..N  BY <1>1
  <2>2. N \in T  BY <1>14, <2>1
  <2> HIDE DEF R
  <2>3. QED  BY <2>1, <2>2
<1>16. u(N) = c  BY DEF u, N
<1>17. \A n \in 1..N : L + A(n) <= Len(F[N]) /\ L <= Len(F[N])
  <2> SUFFICES ASSUME NEW n \in 1..N PROVE L + A(n) <= Len(F[N]) /\ L <= Len(F[N])  OBVIOUS
  <2>1. A(n) \in Nat /\ A(N + 1) \in Nat
    <3>1. n \in Nat \ {0} /\ N + 1 \in Nat \ {0}  BY <1>1
    <3>2. QED  BY <1>9, <3>1
  <2>2. A(n) <= A(N + 1) /\ Len(F[N]) = L + A(N + 1)  BY <1>15
  <2>3. QED  BY <1>1, <2>1, <2>2
<1>18. L <= Len(F[N])
  <2>1. A(N + 1) \in Nat  BY <1>1, <1>9
  <2>2. Len(F[N]) = L + A(N + 1)  BY <1>15
  <2>3. QED  BY <1>1, <2>1, <2>2
<1>19. QED  BY <1>0, <1>15, <1>16, <1>17, <1>18 DEF S, A, add, L, N, old

\* A pending item that adds is of a context that stores to its partition and
\* passed the filter.
LEMMA PendingAdds ==
    ASSUME Types, NEW f \in FramesFor("store"), Shaped(f), Storing(f), f.chunks # <<>>,
           NEW s \in Seq(ItemSet("store")), NEW u \in Seq(ItemSet("store")), Pending(f) = s \o u,
           NEW n \in 1..Len(s)
    PROVE  LET i == s[n].ctx
               k == s[n].key
           IN  /\ i \in Index /\ i \in 1..Good /\ k \in Key /\ s[n] \in ItemSet("store")
               /\ s[n].sn = contexts[i].base[k] /\ s[n].sn \in Nat
               /\ ~s[n].verify => /\ StoredTo(contexts[i], k) > 0 /\ Linear(contexts, i, k)
                                  /\ Occurs(s, Adds(i, k)) <= StoredTo(contexts[i], k)
<1> DEFINE i == s[n].ctx
           k == s[n].key
           m == StoredTo(contexts[i], k)
<1>1. s[n] \in ItemSet("store")  OBVIOUS
<1>2. i \in Index /\ k \in Key /\ s[n].sn \in Nat  BY <1>1 DEF ItemSet
<1>3. n \in DOMAIN Pending(f) /\ Pending(f)[n] = s[n]
  <2>1. Len(u) \in Nat /\ Len(s) \in Nat /\ Len(s \o u) = Len(s) + Len(u)
        /\ s \o u \in Seq(ItemSet("store")) /\ (s \o u)[n] = s[n]
    OBVIOUS
  <2>2. n \in 1..(Len(s) + Len(u))  BY <2>1
  <2>3. QED  BY <2>1, <2>2
<1>4. i <= Good  BY <1>3 DEF Shaped, Ordered, Storing
<1>5. i \in 1..Good
  <2>1. Good \in Nat  BY GoodProperties, TypesFacts
  <2>2. QED  BY <1>2, <1>4, <2>1, TypesFacts
<1>6. s[n].sn = contexts[i].base[k]  BY <1>3 DEF Storing
<1> HIDE DEF i, k
<1>7. ASSUME ~s[n].verify
      PROVE  /\ m > 0 /\ Linear(contexts, i, k)
             /\ Occurs(s, Adds(i, k)) <= m
  <2> DEFINE P == Adds(i, k)
  <2>1. Linear(contexts, i, k)  BY <1>2, <1>5, GoodProperties
  <2>2. Occurs(Pending(f), P) <= m  BY <1>2 DEF Storing
  <2>3. s[n] \in P  BY <1>1, <1>7 DEF Adds, i, k
  <2> HIDE DEF P
  <2>4. Occurs(Pending(f), P) = Occurs(s, P) + Occurs(u, P)  BY OccursConcat
  <2>5. Occurs(s, P) \in Nat /\ Occurs(u, P) \in Nat /\ Occurs(s, P) # 0
    <3>1. Occurs(s, P) \in 0..Len(s)  BY OccursBounds
    <3>2. Occurs(u, P) \in 0..Len(u)  BY OccursBounds
    <3>3. Occurs(s, P) = 0 => \A j \in DOMAIN s : s[j] \notin P  BY OccursBounds
    <3>4. n \in DOMAIN s  OBVIOUS
    <3>5. QED  BY <2>3, <3>1, <3>2, <3>3, <3>4
  <2>6. m \in Nat  BY <1>2, StateNumbers
  <2>7. m > 0 /\ Occurs(s, P) <= m  BY <2>2, <2>4, <2>5, <2>6
  <2>8. QED  BY <2>1, <2>7 DEF P
<1>8. QED  BY <1>1, <1>2, <1>5, <1>6, <1>7 DEF i, k

\* The sequence number check puts each event of a chunk in a place of its
\* context.
LEMMA AcceptedPlaces ==
    ASSUME Types, NEW f \in FramesFor("store"), Shaped(f), Storing(f), f.chunks # <<>>,
           NEW s \in Seq(ItemSet("store")), NEW u \in Seq(ItemSet("store")), Pending(f) = s \o u,
           Accepted(s), NEW n \in 1..Len(s), ~s[n].verify
    PROVE  LET i == s[n].ctx
               k == s[n].key
               p == Len(events[k]) + Additions(s, n, k) + 1
           IN  /\ contexts[i].base[k] < p
               /\ p <= contexts[i].base[k] + StoredTo(contexts[i], k)
<1> DEFINE i == s[n].ctx
           k == s[n].key
           X == {j \in 1..(n - 1) : s[j].key = s[n].key /\ s[j].sn = s[n].sn /\ ~s[j].verify}
           D == {j \in DOMAIN s : s[j] \in Adds(i, k)}
           m == StoredTo(contexts[i], k)
           b == contexts[i].base[k]
           a == Additions(s, n, k)
<1>1. /\ i \in Index /\ k \in Key /\ s[n] \in ItemSet("store") /\ s[n].sn = b /\ m > 0
      /\ Linear(contexts, i, k) /\ Occurs(s, Adds(i, k)) <= m
  BY PendingAdds
<1>2. /\ \A j \in 1..Len(s) : s[j].ctx \in Index /\ s[j] \in ItemSet("store")
                              /\ s[j].sn = contexts[s[j].ctx].base[s[j].key]
      /\ \A j \in 1..Len(s) : ~s[j].verify =>
            StoredTo(contexts[s[j].ctx], s[j].key) > 0 /\ Linear(contexts, s[j].ctx, s[j].key)
  BY PendingAdds
<1>3. m \in Nat /\ b \in Nat /\ Len(events[k]) \in Nat /\ a \in Nat
  <2>1. m \in Nat /\ b \in Nat  BY <1>1, StateNumbers
  <2>2. Len(events[k]) \in Nat
    <3>1. events[k] \in Seq(0..Contexts)  BY <1>1, StateNumbers
    <3>2. QED  BY <3>1
  <2>3. n \in Nat \ {0}  OBVIOUS
  <2>4. QED  BY <2>1, <2>2, <2>3, AdditionsStep
<1> HIDE DEF i, k
<1>4. \A j \in X : j \in D /\ j # n
  <2> SUFFICES ASSUME NEW j \in X PROVE j \in D /\ j # n  OBVIOUS
  <2>1. j \in 1..Len(s) /\ j # n /\ s[j].key = k /\ s[j].sn = b /\ ~s[j].verify  BY <1>1 DEF k
  <2> DEFINE h == s[j].ctx
  <2>2. /\ h \in Index /\ s[j] \in ItemSet("store") /\ contexts[h].base[k] = b
        /\ StoredTo(contexts[h], k) > 0 /\ Linear(contexts, h, k)
    BY <1>2, <2>1
  <2>3. StoredTo(contexts[h], k) \in Nat  BY <1>1, <2>2, StateNumbers
  <2> DEFINE cs == contexts
             K == Key
  <2>4. cs \in Seq(ContextsOf(K)) /\ Len(cs) = Contexts /\ h \in 1..Len(cs) /\ i \in 1..Len(cs)
        /\ k \in K
    BY <1>1, <2>2, TypesFacts DEF Types
  <2> HIDE DEF h, m, b
  <2>5. h = i
    <3>1. h \in Nat /\ i \in Nat  BY <2>4, TypesFacts
    <3>2. ASSUME h < i PROVE FALSE
      <4>1. cs[h].base[k] + StoredTo(cs[h], k) <= cs[i].base[k]
        <5> HIDE DEF cs, K
        <5>1. cs \in Seq(ContextsOf(K)) /\ h \in 1..Len(cs) /\ i \in 1..Len(cs) /\ k \in K  BY <2>4
        <5>2. /\ StoredTo(cs[h], k) > 0 /\ StoredTo(cs[i], k) > 0
              /\ Linear(cs, h, k) /\ Linear(cs, i, k)
          BY <1>1, <2>2 DEF cs, m
        <5>3. QED  BY <3>2, <5>1, <5>2, LinearOrder
      <4>2. b + StoredTo(contexts[h], k) <= b  BY <2>2, <4>1 DEF b
      <4>3. QED  BY <1>3, <2>2, <2>3, <4>2
    <3>3. ASSUME i < h PROVE FALSE
      <4>1. cs[i].base[k] + StoredTo(cs[i], k) <= cs[h].base[k]
        <5> HIDE DEF cs, K
        <5>1. cs \in Seq(ContextsOf(K)) /\ h \in 1..Len(cs) /\ i \in 1..Len(cs) /\ k \in K  BY <2>4
        <5>2. /\ StoredTo(cs[h], k) > 0 /\ StoredTo(cs[i], k) > 0
              /\ Linear(cs, h, k) /\ Linear(cs, i, k)
          BY <1>1, <2>2 DEF cs, m
        <5>3. QED  BY <3>3, <5>1, <5>2, LinearOrder
      <4>2. b + m <= b  BY <2>2, <4>1 DEF b, m
      <4>3. QED  BY <1>1, <1>3, <4>2
    <3>4. QED  BY <3>1, <3>2, <3>3
  <2>6. s[j] \in Adds(i, k)  BY <2>1, <2>2, <2>5 DEF Adds, h
  <2>7. j \in DOMAIN s  BY <2>1
  <2>8. QED  BY <2>1, <2>6, <2>7
<1>5. n \in D
  <2>1. s[n] \in Adds(i, k)  BY <1>1 DEF Adds, i, k
  <2>2. QED  BY <2>1
<1>6. Occurs(s, Adds(i, k)) = Cardinality(D) /\ Increment(s, n) = Cardinality(X)
  BY DEF Occurs, Increment
<1>7. D \in SUBSET (1..Len(s)) /\ Len(s) \in Nat  OBVIOUS
<1> HIDE DEF D, X
<1>8. IsFiniteSet(D)
  <2>1. \A h \in Nat : IsFiniteSet(1..h)  BY FS_Interval
  <2>2. IsFiniteSet(1..Len(s))  BY <1>7, <2>1
  <2>3. QED  BY <1>7, <2>2, FS_Subset
<1>9. IsFiniteSet(X) /\ IsFiniteSet(X \cup {n})
  <2>1. X \in SUBSET D /\ X \cup {n} \in SUBSET D  BY <1>4, <1>5
  <2>2. QED  BY <1>8, <2>1, FS_Subset
<1>10. Cardinality(X \cup {n}) = Cardinality(X) + 1 /\ Cardinality(X) \in Nat
  <2>1. n \notin X  BY <1>4
  <2>2. QED  BY <1>9, <2>1, FS_AddElement, FS_CardinalityType
<1>11. Cardinality(X \cup {n}) <= Cardinality(D)
  <2>1. X \cup {n} \in SUBSET D  BY <1>4, <1>5
  <2>2. QED  BY <1>8, <2>1, FS_Subset
<1>12. Cardinality(D) \in Nat  BY <1>8, FS_CardinalityType
<1>13. Cardinality(X) + 1 <= m  BY <1>1, <1>3, <1>6, <1>10, <1>11, <1>12
<1>14. b + Increment(s, n) = Len(events[k]) + a
  <2>1. n \in DOMAIN s  OBVIOUS
  <2>2. QED  BY <1>1, <2>1 DEF Accepted, i, k
<1> HIDE DEF a, m, b
<1>15. b < Len(events[k]) + a + 1 /\ Len(events[k]) + a + 1 <= b + m
  BY <1>3, <1>6, <1>10, <1>13, <1>14
<1>16. QED  BY <1>15 DEF a, b, m, i, k

\* Serial contexts start no earlier than where the ones before them end.
LEMMA SerialGrows ==
    ASSUME Types, Serial, NEW k \in Key, NEW j \in Index, NEW i \in Index, j < i
    PROVE  contexts[j].base[k] + StoredTo(contexts[j], k) <= contexts[i].base[k]
<1> DEFINE b(n) == contexts[n].base[k]
           m(n) == StoredTo(contexts[n], k)
           T == {n \in Nat : n \in Index /\ j < n => b(j) + m(j) <= b(n)}
<1>1. Index = 1..Contexts /\ Contexts \in Nat  BY TypesFacts
<1>2. \A n \in Index : b(n) \in Nat /\ m(n) \in Nat  BY StateNumbers
<1>3. \A n \in Index : n > 1 => b(n) = b(n - 1) + m(n - 1)  BY DEF Serial
<1> HIDE DEF b, m
<1>4. 0 \in T  BY <1>1
<1>5. ASSUME NEW n \in 1..Contexts, n - 1 \in T PROVE n \in T
  <2> SUFFICES ASSUME j < n PROVE b(j) + m(j) <= b(n)  BY <1>1
  <2>1. n \in Index /\ n - 1 \in Index /\ n > 1 /\ j \in Nat  BY <1>1
  <2>2. b(n) = b(n - 1) + m(n - 1) /\ b(n - 1) \in Nat /\ m(n - 1) \in Nat
    BY <1>2, <1>3, <2>1
  <2>3. CASE j = n - 1  BY <1>2, <2>2, <2>3
  <2>4. CASE j # n - 1
    <3>1. j < n - 1  BY <1>1, <2>1, <2>4
    <3>2. b(j) + m(j) <= b(n - 1)  BY <1>5, <2>1, <3>1
    <3>3. b(j) \in Nat /\ m(j) \in Nat  BY <1>2
    <3>4. QED  BY <2>2, <3>2, <3>3
  <2>5. QED  BY <2>3, <2>4
<1>6. 0..Contexts \subseteq T
  <2> HIDE DEF T
  <2>1. QED  BY <1>1, <1>4, <1>5, BoundedInduction
<1>7. i \in T  BY <1>1, <1>6
<1>8. QED  BY <1>7 DEF b, m

\* A call the store accepts puts each event after those its state was computed from.
LEMMA StorePlaces ==
    ASSUME Types, NEW f \in FramesFor("store"), Shaped(f), Storing(f), f.chunks # <<>>,
           NEW s \in Seq(ItemSet("store")), NEW u \in Seq(ItemSet("store")), Pending(f) = s \o u,
           Accepted(s), NEW k \in Key
    PROVE  LET new == Extended(s, k)
           IN  \A p \in 1..Len(new) : p > Len(events[k]) =>
                  LET i == new[p]
                  IN  /\ i \in Index /\ StoredTo(contexts[i], k) > 0 /\ Linear(contexts, i, k)
                      /\ contexts[i].base[k] < p
                      /\ p <= contexts[i].base[k] + StoredTo(contexts[i], k)
<1> DEFINE new == Extended(s, k)
<1> SUFFICES ASSUME NEW p \in 1..Len(new), p > Len(events[k])
             PROVE  LET i == new[p]
                    IN  /\ i \in Index /\ StoredTo(contexts[i], k) > 0 /\ Linear(contexts, i, k)
                        /\ contexts[i].base[k] < p
                        /\ p <= contexts[i].base[k] + StoredTo(contexts[i], k)
  OBVIOUS
<1>1. PICK n \in 1..Len(s) : /\ s[n].key = k /\ ~s[n].verify /\ new[p] = s[n].ctx
                             /\ p = Len(events[k]) + Additions(s, n, k) + 1
  BY ExtendedProperties
<1>2. /\ s[n].ctx \in Index /\ StoredTo(contexts[s[n].ctx], k) > 0
      /\ Linear(contexts, s[n].ctx, k)
  BY <1>1, PendingAdds
<1>3. contexts[s[n].ctx].base[k] < p
  BY <1>1, AcceptedPlaces
<1>4. p <= contexts[s[n].ctx].base[k] + StoredTo(contexts[s[n].ctx], k)
  BY <1>1, AcceptedPlaces
<1>5. QED  BY <1>1, <1>2, <1>3, <1>4

\* An item that verifies a number: what its context loaded is current.
LEMMA VerifiedNow ==
    ASSUME Types, NEW f \in FramesFor("store"), Shaped(f), Storing(f), f.chunks # <<>>,
           NEW s \in Seq(ItemSet("store")), NEW u \in Seq(ItemSet("store")), Pending(f) = s \o u,
           Accepted(s), Serial, NEW k \in Key, NEW i \in 1..Good, k \in OnlyLoaded(i),
           Occurs(s, Verifies(i, k)) > 0
    PROVE  /\ Len(events[k]) <= contexts[i].base[k]
           /\ contexts[i].base[k] <= Len(Extended(s, k))
<1> DEFINE b == contexts[i].base[k]
           P == Verifies(i, k)
<1>1. PICK n \in 1..Len(s) : s[n] \in P
  <2>1. Occurs(s, P) # 0  OBVIOUS
  <2> HIDE DEF P
  <2>2. Occurs(s, P) = 0 <=> \A n \in DOMAIN s : s[n] \notin P  BY OccursBounds
  <2>3. DOMAIN s = 1..Len(s)  OBVIOUS
  <2>4. QED  BY <2>1, <2>2, <2>3
<1>2. s[n].ctx = i /\ s[n].key = k /\ s[n].verify  BY <1>1 DEF Verifies
<1>3. i \in Index /\ StoredTo(contexts[i], k) = 0 /\ i \in Nat
  BY GoodProperties, TypesFacts DEF OnlyLoaded
<1>4. s[n].sn = b /\ b \in Nat
  <2>1. s[n].sn = contexts[s[n].ctx].base[s[n].key]  BY PendingAdds
  <2>2. QED  BY <1>2, <1>3, <2>1, StateNumbers
<1> DEFINE X == {j \in 1..(n - 1) : s[j].key = s[n].key /\ s[j].sn = s[n].sn /\ ~s[j].verify}
<1>5. X = {}
  <2> SUFFICES ASSUME NEW j \in 1..(n - 1), s[j].key = k, s[j].sn = b, ~s[j].verify PROVE FALSE
    BY <1>2, <1>4
  <2> DEFINE h == s[j].ctx
  <2>1. j \in 1..Len(s) /\ j < n  OBVIOUS
  <2>2. h \in Index /\ StoredTo(contexts[h], k) > 0 /\ contexts[h].base[k] = b
    BY <2>1, PendingAdds
  <2>3. h <= i
    <3>1. j \in DOMAIN Pending(f) /\ n \in DOMAIN Pending(f)
          /\ Pending(f)[j] = s[j] /\ Pending(f)[n] = s[n]
      <4>1. /\ Len(s) \in Nat /\ Len(u) \in Nat /\ Len(s \o u) = Len(s) + Len(u)
            /\ s \o u \in Seq(ItemSet("store"))
            /\ \A q \in 1..Len(s) : (s \o u)[q] = s[q]
        OBVIOUS
      <4>2. \A q \in 1..Len(s) : q \in DOMAIN (s \o u)  BY <4>1
      <4>3. QED  BY <2>1, <4>1, <4>2
    <3>2. Pending(f)[j].ctx <= Pending(f)[n].ctx  BY <2>1, <3>1 DEF Shaped, Ordered
    <3>3. QED  BY <1>2, <3>1, <3>2
  <2>4. h # i  BY <1>3, <2>2
  <2> HIDE DEF h
  <2>5. h < i  BY <1>3, <2>2, <2>3, <2>4, TypesFacts
  <2>6. contexts[h].base[k] + StoredTo(contexts[h], k) <= contexts[i].base[k]
    BY <1>3, <2>2, <2>5, SerialGrows
  <2>7. StoredTo(contexts[h], k) \in Nat  BY <2>2, StateNumbers
  <2>8. QED  BY <1>4, <2>2, <2>6, <2>7
<1>6. Increment(s, n) = 0  BY <1>5, FS_EmptySet DEF Increment
<1>7. b + 0 = Len(events[k]) + Additions(s, n, k)
  <2>1. n \in DOMAIN s  OBVIOUS
  <2>2. s[n].sn + Increment(s, n) = Len(events[s[n].key]) + Additions(s, n, s[n].key)
    BY <2>1 DEF Accepted
  <2>3. QED  BY <1>2, <1>4, <1>6, <2>2
<1>8. Len(events[k]) + Additions(s, n, k) <= Len(Extended(s, k))  BY ExtendedProperties
<1>9. Additions(s, n, k) \in Nat /\ Len(events[k]) \in Nat
  <2>1. n \in Nat \ {0}  OBVIOUS
  <2>2. events[k] \in Seq(0..Contexts)  BY <1>3, StateNumbers
  <2>3. QED  BY <2>1, <2>2, AdditionsStep
<1>10. QED  BY SMTT(30), <1>4, <1>7, <1>8, <1>9

\* The store takes a chunk.
LEMMA StoreStep ==
    ASSUME Types, \A k \in Key : Placed(k), frame \in FramesFor("store"), Shaped(frame),
           Storing(frame), frame.chunks # <<>>, Accepted(Head(frame.chunks)),
           contexts' = contexts, epochs' = epochs, sinks' = sinks,
           events' = [k \in Key |-> Extended(Head(frame.chunks), k)],
           frame' = [frame EXCEPT !.chunks = Tail(@),
                                  !.completed = @ + CompletedBy(Head(frame.chunks))]
    PROVE  /\ events' \in [Key -> Seq(0..Contexts)]
           /\ \A k \in Key : Placed(k)'
           /\ \A i \in Index : Whole(i) => Whole(i)'
           /\ Storing(frame)'
<1> DEFINE s == Head(frame.chunks)
           u == Pending(frame')
           new(k) == Extended(s, k)
           base(i, k) == contexts[i].base[k]
           to(i, k) == StoredTo(contexts[i], k)
           I == ItemSet("store")
           f == frame
           g == frame'
<1>1. /\ g \in FramesFor("store") /\ Shaped(g) /\ End(g) = End(f)
      /\ s \in Seq(I) /\ u \in Seq(I) /\ Pending(f) = s \o u
  <2>1. "store" \in Targets  BY DEF Targets
  <2>2. QED  BY Zenon, <2>1, ChunkTaken
<1>2. \A k \in Key :
         /\ new(k) \in Seq(0..Contexts) /\ Len(events[k]) <= Len(new(k))
         /\ \A p \in 1..Len(events[k]) : new(k)[p] = events[k][p]
         /\ \A i \in Index : Times(new(k), i) = Times(events[k], i) + Occurs(s, Adds(i, k))
  BY <1>1, ExtendedProperties
<1>3. \A k \in Key : \A p \in 1..Len(new(k)) : p > Len(events[k]) =>
         LET i == new(k)[p]
         IN  /\ i \in Index /\ to(i, k) > 0 /\ Linear(contexts, i, k)
             /\ base(i, k) < p /\ p <= base(i, k) + to(i, k)
  BY <1>1, StorePlaces
<1>4. /\ events' = [k \in Key |-> new(k)]
      /\ \A k \in Key : events[k] \in Seq(0..Contexts) /\ DOMAIN events[k] = 1..Len(events[k])
                        /\ Len(events[k]) \in Nat
      /\ \A i \in Index, k \in Key : base(i, k) \in Nat /\ to(i, k) \in Nat
      /\ Index = 1..Contexts /\ Contexts \in Nat
  <2>1. \A k \in Key : events[k] \in Seq(0..Contexts)  BY DEF Types
  <2>2. \A i \in Index, k \in Key : base(i, k) \in Nat /\ to(i, k) \in Nat  BY StateNumbers
  <2>3. QED  BY <2>1, <2>2, TypesFacts
<1>5. \A k \in Key : /\ DOMAIN new(k) = 1..Len(new(k)) /\ Len(new(k)) \in Nat
                     /\ \A p \in DOMAIN new(k) : new(k)[p] \in 0..Contexts
  <2> HIDE DEF new
  <2>1. \A w \in Seq(0..Contexts) : /\ DOMAIN w = 1..Len(w) /\ Len(w) \in Nat
                                    /\ \A p \in DOMAIN w : w[p] \in 0..Contexts
    <3> DEFINE S == 0..Contexts
    <3> HIDE DEF S
    <3>1. \A w \in Seq(S) : /\ DOMAIN w = 1..Len(w) /\ Len(w) \in Nat
                            /\ \A p \in DOMAIN w : w[p] \in S
      OBVIOUS
    <3>2. QED  BY <3>1 DEF S
  <2>2. QED  BY <1>2, <2>1
<1>6. \A k \in Key : events'[k] = new(k)  BY <1>4
<1> HIDE DEF new, s, u
\* Where every event of the extended partition is.
<1>7. \A k \in Key : \A p \in DOMAIN new(k) :
         IF new(k)[p] = 0
         THEN p <= Len(events[k]) /\ \A q \in 1..p : new(k)[q] = 0
         ELSE LET i == new(k)[p]
              IN  /\ i \in Index /\ to(i, k) > 0 /\ Linear(contexts, i, k)
                  /\ base(i, k) < p /\ p <= base(i, k) + to(i, k)
  <2> SUFFICES ASSUME NEW k \in Key, NEW p \in DOMAIN new(k)
               PROVE  IF new(k)[p] = 0
                      THEN p <= Len(events[k]) /\ \A q \in 1..p : new(k)[q] = 0
                      ELSE LET i == new(k)[p]
                           IN  /\ i \in Index /\ to(i, k) > 0 /\ Linear(contexts, i, k)
                               /\ base(i, k) < p /\ p <= base(i, k) + to(i, k)
    OBVIOUS
  <2>1. p \in 1..Len(new(k)) /\ p \in Nat  BY <1>5
  <2>2. CASE p > Len(events[k])
    <3>1. new(k)[p] \in Index  BY <1>3, <2>1, <2>2
    <3>2. new(k)[p] # 0  BY <1>4, <3>1
    <3>3. QED  BY <1>3, <2>1, <2>2, <3>2
  <2>3. CASE p <= Len(events[k])
    <3>1. p \in 1..Len(events[k]) /\ new(k)[p] = events[k][p]  BY <1>2, <1>4, <2>1, <2>3
    <3>2. p \in DOMAIN events[k] /\ Placed(k)  BY <1>4, <3>1
    <3>3. CASE events[k][p] = 0
      <4>1. \A q \in 1..p : events[k][q] = 0  BY <3>2, <3>3 DEF Placed
      <4>2. \A q \in 1..p : q \in 1..Len(events[k])  BY <1>4, <2>1, <2>3
      <4>3. \A q \in 1..p : new(k)[q] = events[k][q]  BY <1>2, <4>2
      <4>4. QED  BY <2>3, <3>1, <3>3, <4>1, <4>3
    <3>4. CASE events[k][p] # 0
      <4>1. LET i == events[k][p]
            IN  /\ to(i, k) > 0 /\ Linear(contexts, i, k)
                /\ base(i, k) < p /\ p <= base(i, k) + to(i, k)
        BY <3>2, <3>4 DEF Placed
      <4>2. events[k][p] \in Index
        <5>1. new(k)[p] \in 0..Contexts  BY <1>5
        <5>2. QED  BY <1>4, <3>1, <3>4, <5>1
      <4> HIDE DEF to, base
      <4>3. QED  BY <3>1, <3>4, <4>1, <4>2
    <3>5. QED  BY <3>3, <3>4
  <2>4. QED  BY <1>4, <2>1, <2>2, <2>3
<1>8. events' \in [Key -> Seq(0..Contexts)]  BY <1>2, <1>4
<1>9. ASSUME NEW k \in Key PROVE Placed(k)'
  <2>1. events'[k] = new(k)  BY <1>6
  <2>2. QED  BY <1>7, <2>1 DEF Placed
<1>10. \A k \in Key, i \in Index : /\ Times(new(k), i) <= to(i, k)
                                   /\ Times(new(k), i) \in Nat /\ Times(events[k], i) \in Nat
                                   /\ Occurs(s, Adds(i, k)) \in Nat /\ Occurs(u, Adds(i, k)) \in Nat
  <2> SUFFICES ASSUME NEW k \in Key, NEW i \in Index
               PROVE  /\ Times(new(k), i) <= to(i, k)
                      /\ Times(new(k), i) \in Nat /\ Times(events[k], i) \in Nat
                      /\ Occurs(s, Adds(i, k)) \in Nat /\ Occurs(u, Adds(i, k)) \in Nat
    OBVIOUS
  <2> DEFINE w == new(k)
             b == base(i, k)
             m == to(i, k)
  <2>1. w \in Seq(0..Contexts) /\ b \in Nat /\ m \in Nat  BY <1>2, <1>4
  <2>2. \A p \in DOMAIN w : w[p] = i => b < p /\ p <= b + m
    <3>1. i # 0  BY <1>4
    <3>2. QED  BY <1>7, <3>1
  <2> HIDE DEF w, b, m
  <2>3. Times(w, i) <= m  BY <2>1, <2>2, PlacesBound
  <2>4. Times(w, i) \in Nat  BY <2>1, TimesOccurs
  <2>5. Times(events[k], i) \in Nat  BY StateNumbers
  <2> DEFINE P == Adds(i, k)
  <2> HIDE DEF P
  <2>6. Occurs(s, P) \in 0..Len(s) /\ Occurs(u, P) \in 0..Len(u)
    <3>1. Occurs(s, P) \in 0..Len(s)  BY <1>1, OccursBounds
    <3>2. Occurs(u, P) \in 0..Len(u)  BY <1>1, OccursBounds
    <3>3. QED  BY <3>1, <3>2
  <2>7. QED  BY <2>3, <2>4, <2>5, <2>6 DEF w, m, P
<1>11. ASSUME NEW i \in Index, Whole(i) PROVE Whole(i)'
  <2> SUFFICES ASSUME NEW k \in Key PROVE Times(new(k), i) = to(i, k)
    BY <1>6 DEF Whole
  <2>1. Times(events[k], i) = to(i, k)  BY <1>11 DEF Whole
  <2>2. Times(new(k), i) = Times(events[k], i) + Occurs(s, Adds(i, k))  BY <1>2
  <2>3. Times(new(k), i) <= to(i, k) /\ Times(events[k], i) \in Nat
        /\ Occurs(s, Adds(i, k)) \in Nat
    BY <1>10
  <2>4. to(i, k) \in Nat  BY <1>4
  <2> HIDE DEF to
  <2>5. QED  BY <2>1, <2>2, <2>3, <2>4
<1>12. /\ Len(s) \in Nat /\ Len(u) \in Nat
       /\ \A n \in DOMAIN u : Len(s) + n \in DOMAIN Pending(f) /\ Pending(f)[Len(s) + n] = u[n]
  <2>1. Len(s) \in Nat /\ Len(u) \in Nat /\ DOMAIN u = 1..Len(u)
        /\ DOMAIN (s \o u) = 1..(Len(s) + Len(u))
        /\ \A n \in 1..Len(u) : (s \o u)[Len(s) + n] = u[n]
    BY <1>1
  <2>2. \A n \in 1..Len(u) : Len(s) + n \in 1..(Len(s) + Len(u))  BY <2>1
  <2>3. QED  BY <1>1, <2>1, <2>2
<1>13. \A P : Occurs(Pending(f), P) = Occurs(s, P) + Occurs(u, P)  BY <1>1, OccursConcat
\* What was current stays so: an event that is added is not of an earlier context.
<1>14. ASSUME Serial, NEW i \in Index, NEW k \in Key, Len(events[k]) <= base(i, k),
              base(i, k) <= Len(new(k))
       PROVE  {n \in DOMAIN new(k) : new(k)[n] < i} = 1..base(i, k)
  <2>1. ASSUME NEW p \in DOMAIN new(k) PROVE new(k)[p] < i <=> p <= base(i, k)
    <3>1. p \in Nat /\ base(i, k) \in Nat /\ i \in Nat /\ i > 0  BY <1>4, <1>5
    <3>2. CASE new(k)[p] = 0
      <4>1. p <= Len(events[k])  BY <1>7, <3>2
      <4>2. Len(events[k]) \in Nat  BY <1>4
      <4>3. QED  BY <1>14, <3>1, <3>2, <4>1, <4>2
    <3>3. CASE new(k)[p] # 0
      <4> DEFINE j == new(k)[p]
      <4>1. j \in Index /\ base(j, k) < p /\ p <= base(j, k) + to(j, k)  BY <1>7, <3>3
      <4>2. base(j, k) \in Nat /\ to(j, k) \in Nat /\ j \in Nat  BY <1>4, <4>1
      <4> HIDE DEF j
      <4>3. CASE j < i
        <5>1. base(j, k) + to(j, k) <= base(i, k)  BY <1>14, <4>1, <4>3, SerialGrows
        <5> HIDE DEF base, to
        <5>2. QED  BY <3>1, <4>1, <4>2, <4>3, <5>1 DEF j
      <4>4. CASE j = i  BY <3>1, <4>1, <4>4 DEF j
      <4>5. CASE i < j
        <5>1. base(i, k) + to(i, k) <= base(j, k)  BY <1>14, <4>1, <4>5, SerialGrows
        <5>2. to(i, k) \in Nat  BY <1>4
        <5> HIDE DEF base, to
        <5>3. QED  BY <3>1, <4>1, <4>2, <4>5, <5>1, <5>2 DEF j
      <4>6. QED  BY <3>1, <4>2, <4>3, <4>4, <4>5
    <3>4. QED  BY <3>2, <3>3
  <2>2. DOMAIN new(k) = 1..Len(new(k)) /\ Len(new(k)) \in Nat /\ base(i, k) \in Nat  BY <1>4, <1>5
  <2> HIDE DEF base
  <2>3. \A p : p \in DOMAIN new(k) /\ p <= base(i, k) <=> p \in 1..base(i, k)  BY <1>14, <2>2
  <2>4. QED  BY <2>1, <2>3
<1>15. ASSUME Serial, NEW i \in Index, NEW k \in Key, Current(i, k)
       PROVE  {n \in DOMAIN new(k) : new(k)[n] < i} = 1..base(i, k)
  <2>1. {n \in DOMAIN events[k] : events[k][n] < i} = 1..base(i, k)  BY <1>15 DEF Current
  <2>2. /\ DOMAIN events[k] = 1..Len(events[k]) /\ Len(events[k]) \in Nat
        /\ DOMAIN new(k) = 1..Len(new(k)) /\ Len(new(k)) \in Nat
        /\ base(i, k) \in Nat /\ i \in Nat
    BY <1>4, <1>5
  <2>3. base(i, k) <= Len(events[k])
    <3>1. CASE base(i, k) = 0  BY <2>2, <3>1
    <3>2. CASE base(i, k) # 0
      <4>1. base(i, k) \in 1..base(i, k)  BY <2>2, <3>2
      <4>2. base(i, k) \in 1..Len(events[k])  BY <2>1, <2>2, <4>1
      <4>3. QED  BY <2>2, <4>2
    <3>3. QED  BY <3>1, <3>2
  <2>4. ASSUME NEW p \in DOMAIN new(k), p > Len(events[k]) PROVE ~(new(k)[p] < i)
    <3> DEFINE j == new(k)[p]
    <3>1. p \in Nat /\ j # 0  BY <1>7, <2>2, <2>4
    <3>2. j \in Index /\ p <= base(j, k) + to(j, k)  BY <1>7, <3>1
    <3>3. j \in Nat /\ base(j, k) \in Nat /\ to(j, k) \in Nat  BY <1>4, <3>2
    <3> HIDE DEF j
    <3>4. ASSUME j < i PROVE FALSE
      <4>1. base(j, k) + to(j, k) <= base(i, k)  BY <1>15, <3>2, <3>4, SerialGrows
      <4> HIDE DEF base, to
      <4>2. QED  BY <2>2, <2>3, <2>4, <3>1, <3>2, <3>3, <4>1
    <3>5. QED  BY <3>4 DEF j
  <2>5. \A p \in 1..Len(events[k]) : p \in DOMAIN new(k) /\ new(k)[p] = events[k][p]
    BY <1>2, <2>2
  <2>6. \A p \in DOMAIN new(k) : p > Len(events[k]) \/ p \in 1..Len(events[k])  BY <2>2
  <2>7. \A p : p \in DOMAIN new(k) /\ new(k)[p] < i
                 <=> p \in DOMAIN events[k] /\ events[k][p] < i
    BY <2>2, <2>4, <2>5, <2>6
  <2>8. QED  BY <2>1, <2>7
<1>16. Good' = Good  BY DEF Good
<1>17. Storing(frame)'
  <2>1. g.target = "store"  BY <1>1 DEF FramesFor
  <2>2. g.chunks # <<>> => End(g) = Good  BY <1>1 DEF Storing
  <2>3. \A n \in DOMAIN u : u[n].sn = contexts[u[n].ctx].base[u[n].key]
    BY <1>12 DEF Storing
  <2>4. ASSUME NEW i \in Index, NEW k \in Key PROVE Occurs(u, Adds(i, k)) <= to(i, k)
    <3>1. Occurs(Pending(f), Adds(i, k)) <= to(i, k)  BY DEF Storing
    <3>2. Occurs(s, Adds(i, k)) \in Nat /\ Occurs(u, Adds(i, k)) \in Nat /\ to(i, k) \in Nat
      BY <1>4, <1>10
    <3> HIDE DEF to
    <3>3. QED  BY <1>13, <3>1, <3>2
  <2>5. ASSUME NEW i \in 1..Good, NEW k \in Key
        PROVE  Times(new(k), i) + Occurs(u, Adds(i, k)) >= to(i, k)
    <3>1. i \in Index  BY GoodProperties, <1>4
    <3>2. Times(events[k], i) + Occurs(Pending(f), Adds(i, k)) >= to(i, k)  BY DEF Storing
    <3>3. Times(new(k), i) = Times(events[k], i) + Occurs(s, Adds(i, k))  BY <1>2, <3>1
    <3>4. /\ Occurs(s, Adds(i, k)) \in Nat /\ Occurs(u, Adds(i, k)) \in Nat
          /\ Times(events[k], i) \in Nat /\ to(i, k) \in Nat
      BY <1>4, <1>10, <3>1
    <3> HIDE DEF to
    <3>5. QED  BY <1>13, <3>2, <3>3, <3>4
  <2>6. ASSUME Serial, NEW i \in 1..Good, NEW k \in OnlyLoaded(i)
        PROVE  \/ {n \in DOMAIN new(k) : new(k)[n] < i} = 1..base(i, k)
               \/ Occurs(u, Verifies(i, k)) > 0
    <3>1. i \in Index /\ k \in Key
      <4>1. i \in Index  BY GoodProperties, <1>4
      <4>2. contexts[i].loaded \subseteq Key  BY <4>1, TypesFacts DEF ContextsOf
      <4>3. QED  BY <4>1, <4>2 DEF OnlyLoaded
    <3>2. CASE Current(i, k)  BY <1>15, <2>6, <3>1, <3>2
    <3>3. CASE Occurs(Pending(f), Verifies(i, k)) > 0
      <4> DEFINE P == Verifies(i, k)
      <4>1. Occurs(s, P) \in Nat /\ Occurs(u, P) \in Nat
        <5> HIDE DEF P
        <5>1. Occurs(s, P) \in 0..Len(s)  BY <1>1, OccursBounds
        <5>2. Occurs(u, P) \in 0..Len(u)  BY <1>1, OccursBounds
        <5>3. QED  BY <5>1, <5>2
      <4>2. Occurs(Pending(f), P) = Occurs(s, P) + Occurs(u, P)  BY <1>13
      <4>3. CASE Occurs(s, P) > 0
        <5>1. Accepted(s) /\ Pending(f) = s \o u  BY <1>1 DEF s
        <5>2. Len(events[k]) <= base(i, k) /\ base(i, k) <= Len(new(k))
          BY <1>1, <2>6, <3>1, <4>3, <5>1, VerifiedNow DEF new
        <5>3. QED  BY <1>14, <2>6, <3>1, <5>2
      <4>4. CASE ~(Occurs(s, P) > 0)
        <5> HIDE DEF P
        <5>1. Occurs(Pending(f), P) > 0  BY <3>3 DEF P
        <5>2. Occurs(u, P) > 0  BY <4>1, <4>2, <4>4, <5>1
        <5>3. QED  BY <5>2 DEF P
      <4>5. QED  BY <4>3, <4>4
    <3>4. QED  BY <2>6, <3>2, <3>3 DEF Storing
  <2>7. Serial' <=> Serial  BY DEF Serial
  <2>8. \A i : OnlyLoaded(i)' = OnlyLoaded(i)  BY DEF OnlyLoaded
  <2>9. ASSUME NEW i, NEW k \in Key
        PROVE  Current(i, k)' <=> {n \in DOMAIN new(k) : new(k)[n] < i} = 1..base(i, k)
    BY <1>6 DEF Current
  <2>10. \A i \in Index : \A k \in OnlyLoaded(i) : k \in Key
    <3>1. \A i \in Index : contexts[i].loaded \subseteq Key  BY TypesFacts DEF ContextsOf
    <3>2. QED  BY <3>1 DEF OnlyLoaded
  <2>11. 1..Good \subseteq Index  BY GoodProperties, <1>4
  <2>12. ASSUME NEW i \in 1..Good, Serial', NEW k \in OnlyLoaded(i)
         PROVE  Current(i, k)' \/ Occurs(u, Verifies(i, k)) > 0
    <3>1. k \in Key  BY <2>10, <2>11
    <3>2. Serial  BY <2>7, <2>12
    <3>3. QED  BY <2>6, <2>9, <3>1, <3>2
  <2>13. u = Pending(g)  BY DEF u
  <2>14. ASSUME NEW i \in 1..Good
         PROVE  /\ \A k \in Key : Times(events'[k], i) + Occurs(u, Adds(i, k)) >= to(i, k)
                /\ Serial' => \A k \in OnlyLoaded(i)' :
                                 Current(i, k)' \/ Occurs(u, Verifies(i, k)) > 0
    BY <1>6, <2>5, <2>8, <2>12
  <2>15. /\ (\A n \in DOMAIN Pending(g) :
               Pending(g)[n].sn = contexts'[Pending(g)[n].ctx].base[Pending(g)[n].key])
         /\ \A i \in Index, k \in Key :
               Occurs(Pending(g), Adds(i, k)) <= StoredTo(contexts'[i], k)
    BY <2>3, <2>4, <2>13
  <2>16. \A i \in 1..Good' :
           /\ \A k \in Key : Times(events'[k], i) + Occurs(Pending(g), Adds(i, k))
                                >= StoredTo(contexts'[i], k)
           /\ Serial' => \A k \in OnlyLoaded(i)' :
                            Current(i, k)' \/ Occurs(Pending(g), Verifies(i, k)) > 0
    BY <1>16, <2>13, <2>14
  <2>17. g.chunks # <<>> => End(g) = Good'  BY <1>16, <2>2
  <2>18. Pending(frame)' = Pending(g) /\ End(frame)' = End(g)  BY DEF Pending, End
  <2>19. QED  BY <2>1, <2>15, <2>16, <2>17, <2>18 DEF Storing
<1>18. QED  BY SMTT(30), <1>8, <1>9, <1>11, <1>17

-----------------------------------------------------------------------------
(* The frames and results that follow a call or a failure.                 *)

\* The frame of a call on a prefix of the batch.
LEMMA CallFrame ==
    ASSUME Types, NEW t \in Targets, NEW b \in 0..Contexts, NEW g, g = Call(t, Prefix(b))
    PROVE  /\ g \in FramesFor(t) /\ g.target = t
           /\ Shaped(g) /\ Itemized(t, Pending(g), 0, b)
           /\ g.chunks # <<>> => End(g) = b
<1> DEFINE total == Total(t, Span(0, b))
           max == Sink(t).maxBatch
           items == IF total = 0 THEN <<>> ELSE Span(0, b)
           size == IF max > 0 THEN max ELSE total
<1>1. Prefix(b) = Span(0, b) /\ Prefix(0) = <<>>
  <2>1. b - 0 = b /\ \A n \in 1..b : 0 + n = n  OBVIOUS
  <2>2. Span(0, b) = [n \in 1..b |-> n]  BY <2>1 DEF Span
  <2>3. QED  BY <2>2 DEF Prefix
<1>2. total \in Nat /\ max \in Nat
  <2>1. 0 \in 0..Contexts /\ b \in 0..Contexts  BY TypesFacts
  <2>2. Itemized(t, FlattenSeq(Containers(t, Span(0, b))), 0, b)  BY <2>1, FlatItems
  <2>3. FlattenSeq(Containers(t, Span(0, b))) \in Seq(ItemSet(t))  BY <2>2 DEF Itemized
  <2>4. Sink(t) \in Guarantees  BY TypesFacts
  <2>5. QED  BY <2>3, <2>4 DEF Total, Guarantees
<1>3. g = Frame(t, Prefix(0), items, size)  BY <1>1 DEF Call
<1>4. /\ size \in Nat /\ (total > 0 => size > 0)
      /\ total > 0 /\ max > 0 => size <= max
  <2> HIDE DEF total, max
  <2>1. QED  BY <1>2
<1>5. 0 \in 0..Contexts /\ b \in 0..Contexts  BY TypesFacts
<1> HIDE DEF size
<1>6. items = (IF Total(t, Span(0, b)) = 0 THEN <<>> ELSE Span(0, b))  OBVIOUS
<1> HIDE DEF items
<1>7. QED  BY <1>3, <1>4, <1>5, <1>6, NewFrame DEF total, max

\* What is left of a frame when its sink fails.
LEMMA Remaining ==
    ASSUME Types, NEW t \in Targets, NEW f \in FramesFor(t), Shaped(f), f.chunks # <<>>
    PROVE  /\ Passed(f) \in 0..Contexts /\ End(f) \in Passed(f)..Contexts /\ Passed(f) < End(f)
           /\ f.done \o SubSeq(f.items, 1, f.completed) = Prefix(Passed(f))
           /\ SubSeq(f.items, f.completed + 1, Len(f.items)) = Span(Passed(f), End(f))
<1> DEFINE a == Start(f)
           p == Passed(f)
           b == End(f)
           m == f.completed
           I == ItemSet(t)
<1>1. /\ f.chunks \in Seq(Seq(I)) /\ m \in Nat /\ f.done \in Seq(Index) /\ f.items \in Seq(Index)
      /\ f.target = t
  BY DEF FramesFor
<1>2. /\ a \in Nat /\ b = a + Len(f.items) /\ p = a + m /\ Len(f.items) \in Nat
      /\ m \in Nat /\ p \in Nat /\ b \in Nat
  <2>1. a \in Nat /\ Len(f.items) \in Nat
    <3>1. \A s \in Seq(Index) : Len(s) \in Nat  OBVIOUS
    <3>2. QED  BY <1>1, <3>1 DEF Start
  <2>2. b = a + Len(f.items) /\ p = a + m  BY DEF Start, End, Passed
  <2> DEFINE n == Len(f.items)
  <2> HIDE DEF a, b, p, m, n
  <2>3. p \in Nat /\ b \in Nat  BY <1>1, <2>1, <2>2 DEF n, m
  <2>4. QED  BY <1>1, <2>1, <2>2, <2>3 DEF n, m
<1>3. f.done = Prefix(a) /\ f.items = Span(a, b) /\ b <= Contexts /\ Ordered(Pending(f), p, b)
  BY DEF Shaped
<1>4. Contexts \in Nat  BY TypesFacts
<1>5. p < b
  <2> DEFINE s == f.chunks
             u == Front(s)
             l == Last(s)
  <2>1. s \in Seq(Seq(I)) /\ s # <<>> /\ l # <<>>  BY <1>1 DEF Shaped
  <2> HIDE DEF s, I
  <2>2. u \in Seq(Seq(I)) /\ l \in Seq(I) /\ Append(u, l) = s
    <3> DEFINE J == Seq(I)
    <3>1. s \in Seq(J) /\ s # <<>>  BY <2>1
    <3> HIDE DEF J, u, l
    <3>2. Front(s) \in Seq(J) /\ Last(s) \in J /\ Append(Front(s), Last(s)) = s  BY <3>1, FrontLast
    <3>3. QED  BY <3>2 DEF J, u, l
  <2> HIDE DEF u, l
  <2>3. FlattenSeq(s) = FlattenSeq(u) \o l
    <3>1. FlattenSeq(Append(u, l)) = FlattenSeq(u) \o l  BY <2>2, FlattenAppend
    <3>2. QED  BY <2>2, <3>1
  <2>4. FlattenSeq(u) \in Seq(I)  BY <2>2, FlattenType
  <2>5. Pending(f) = FlattenSeq(u) \o l /\ Pending(f) \in Seq(I) /\ Pending(f) # <<>>
    <3> DEFINE v == FlattenSeq(u)
    <3>1. v \in Seq(I) /\ l \in Seq(I) /\ l # <<>>  BY <2>1, <2>2, <2>4 DEF l
    <3> HIDE DEF v
    <3>2. v \o l \in Seq(I) /\ Len(v \o l) = Len(v) + Len(l) /\ Len(l) \in Nat \ {0} /\ Len(v) \in Nat
      BY <3>1
    <3>3. v \o l # <<>>  BY <3>2
    <3>4. QED  BY <2>3, <3>2, <3>3 DEF v, Pending, s
  <2>6. 1 \in DOMAIN Pending(f) /\ Pending(f)[1] \in I
    <3>1. \A w \in Seq(I) : w # <<>> => 1 \in DOMAIN w /\ w[1] \in I  OBVIOUS
    <3>2. QED  BY <2>5, <3>1
  <2>7. p < Pending(f)[1].ctx /\ Pending(f)[1].ctx <= b  BY <1>3, <2>6 DEF Ordered
  <2>8. Pending(f)[1].ctx \in Nat
    <3>1. Pending(f)[1].ctx \in Index  BY <2>6 DEF I, ItemSet, Targets
    <3>2. QED  BY <3>1, TypesFacts
  <2>9. p \in Nat /\ b \in Nat  BY <1>2
  <2> HIDE DEF p, b
  <2>10. QED  BY <2>7, <2>8, <2>9
<1> HIDE DEF a, p, b
<1>6. p \in 0..Contexts /\ b \in p..Contexts  BY <1>2, <1>3, <1>4, <1>5
<1>7. m <= Len(f.items)  BY <1>2, <1>5
<1>8. f.items = [n \in 1..(b - a) |-> a + n] /\ Len(f.items) = b - a
  BY <1>2, <1>3 DEF Span
<1> HIDE DEF m
<1>9. SubSeq(f.items, 1, m) = [n \in 1..m |-> a + n]
  <2>1. SubSeq(f.items, 1, m) = [n \in 1..m |-> f.items[n]]
    <3>1. SubSeq(f.items, 1, m) = [n \in 1..(1 + m - 1) |-> f.items[1 + n - 1]]
      BY <1>1, <1>7
    <3>2. 1 + m - 1 = m /\ \A n \in 1..m : 1 + n - 1 = n  BY <1>1
    <3>3. QED  BY <3>1, <3>2
  <2>2. \A n \in 1..m : f.items[n] = a + n
    <3>1. \A n \in 1..m : n \in 1..(b - a)  BY <1>1, <1>2, <1>7, <1>8
    <3>2. QED  BY <1>8, <3>1
  <2>3. QED  BY <2>1, <2>2
<1>10. f.done \o SubSeq(f.items, 1, m) = Prefix(p)
  <2> DEFINE u == Prefix(a)
             v == [n \in 1..m |-> a + n]
  <2>1. u \in Seq(Nat) /\ Len(u) = a /\ \A n \in 1..a : u[n] = n  BY <1>2 DEF Prefix
  <2>2. v \in Seq(Nat) /\ Len(v) = m /\ \A n \in 1..m : v[n] = a + n  BY <1>1, <1>2
  <2> HIDE DEF u, v
  <2>3. /\ u \o v \in Seq(Nat) /\ Len(u \o v) = a + m
        /\ \A n \in 1..a : (u \o v)[n] = u[n]
        /\ \A n \in 1..m : (u \o v)[a + n] = v[n]
    <3>1. /\ u \o v \in Seq(Nat) /\ Len(u \o v) = Len(u) + Len(v)
          /\ \A n \in 1..(Len(u) + Len(v)) : (u \o v)[n] = IF n <= Len(u) THEN u[n] ELSE v[n - Len(u)]
      <4>1. u \in Seq(Nat) /\ v \in Seq(Nat)  BY <2>1, <2>2
      <4>2. QED  BY <4>1, ConcatProperties
    <3>2. /\ u \o v \in Seq(Nat) /\ Len(u \o v) = a + m
          /\ \A n \in 1..(a + m) : (u \o v)[n] = IF n <= a THEN u[n] ELSE v[n - a]
      BY <2>1, <2>2, <3>1
    <3>3. \A n \in 1..a : n \in 1..(a + m) /\ n <= a  BY <1>2
    <3>4. \A n \in 1..m : a + n \in 1..(a + m) /\ ~(a + n <= a) /\ (a + n) - a = n  BY <1>2
    <3>5. \A n \in 1..a : (u \o v)[n] = u[n]  BY <3>2, <3>3
    <3>6. ASSUME NEW n \in 1..m PROVE (u \o v)[a + n] = v[n]
      <4>1. a + n \in 1..(a + m) /\ ~(a + n <= a) /\ (a + n) - a = n  BY <3>4
      <4>2. (u \o v)[a + n] = v[(a + n) - a]  BY <3>2, <4>1
      <4>3. QED  BY <4>1, <4>2
    <3>7. QED  BY <3>2, <3>5, <3>6
  <2>4. ASSUME NEW n \in 1..p PROVE (u \o v)[n] = n
    <3>1. CASE n <= a
      <4>1. n \in 1..a  BY <1>2, <3>1
      <4>2. QED  BY <2>1, <2>3, <4>1
    <3>2. CASE n > a
      <4>1. n - a \in 1..m /\ a + (n - a) = n  BY <1>1, <1>2, <3>2
      <4>2. (u \o v)[a + (n - a)] = v[n - a]  BY <2>3, <4>1
      <4>3. v[n - a] = a + (n - a)  BY <2>2, <4>1
      <4>4. QED  BY <4>1, <4>2, <4>3
    <3>3. n \in Nat  BY <1>2
    <3>4. n <= a \/ n > a  BY <1>2, <3>3
    <3>5. QED  BY <3>1, <3>2, <3>4
  <2>5. DOMAIN (u \o v) = 1..p /\ u \o v = [n \in DOMAIN (u \o v) |-> (u \o v)[n]]
    <3>1. \A w \in Seq(Nat) : DOMAIN w = 1..Len(w) /\ w = [n \in 1..Len(w) |-> w[n]]  OBVIOUS
    <3>2. Len(u \o v) = p  BY <1>2, <2>3
    <3>3. QED  BY <2>3, <3>1, <3>2
  <2>6. u \o v = [n \in 1..p |-> n]
    <3> DEFINE w == u \o v
    <3>1. w = [n \in 1..p |-> w[n]] /\ \A n \in 1..p : w[n] = n  BY <2>4, <2>5
    <3> HIDE DEF w
    <3>2. w = [n \in 1..p |-> n]  BY <3>1
    <3>3. QED  BY <3>2 DEF w
  <2>7. QED  BY <1>3, <1>9, <2>6 DEF Prefix, u, v
<1>11. SubSeq(f.items, m + 1, Len(f.items)) = Span(p, b)
  <2>1. SubSeq(f.items, m + 1, Len(f.items))
          = [n \in 1..(1 + Len(f.items) - (m + 1)) |-> f.items[(m + 1) + n - 1]]
    BY <1>1, <1>2, <1>7
  <2>2. 1 + Len(f.items) - (m + 1) = b - p  BY <1>1, <1>2, <1>8
  <2>3. \A n \in 1..(b - p) : f.items[(m + 1) + n - 1] = p + n
    <3> SUFFICES ASSUME NEW n \in 1..(b - p) PROVE f.items[(m + 1) + n - 1] = p + n  OBVIOUS
    <3>1. (m + 1) + n - 1 = m + n /\ m + n \in 1..(b - a) /\ a + (m + n) = p + n
      BY <1>1, <1>2
    <3>2. f.items[m + n] = a + (m + n)  BY <1>8, <3>1
    <3>3. QED  BY <3>1, <3>2
  <2>4. QED  BY <2>1, <2>2, <2>3 DEF Span
<1>12. QED  BY <1>5, <1>6, <1>10, <1>11 DEF m, p, b

\* The frame of the call on what remains, with half the size.
LEMMA HalvedFrame ==
    ASSUME Types, NEW t \in Targets, NEW f \in FramesFor(t), Shaped(f), f.chunks # <<>>,
           f.size > 1, NEW g, g = Halved(f)
    PROVE  /\ g \in FramesFor(t) /\ g.target = t
           /\ Shaped(g) /\ Itemized(t, Pending(g), Passed(f), End(f))
           /\ g.chunks # <<>> => End(g) = End(f)
<1> DEFINE a == Passed(f)
           b == End(f)
           size == f.size \div 2
           items == IF Total(t, Span(a, b)) = 0 THEN <<>> ELSE Span(a, b)
           max == Sink(t).maxBatch
<1>1. /\ a \in 0..Contexts /\ b \in a..Contexts
      /\ f.done \o SubSeq(f.items, 1, f.completed) = Prefix(a)
      /\ SubSeq(f.items, f.completed + 1, Len(f.items)) = Span(a, b)
  BY Remaining
<1>2. f.target = t /\ f.size \in Nat  BY DEF FramesFor
<1> HIDE DEF a, b
<1>3. g = Frame(t, Prefix(a), items, size)
  <2>1. g = Frame(f.target, f.done \o SubSeq(f.items, 1, f.completed),
                  IF Total(f.target, SubSeq(f.items, f.completed + 1, Len(f.items))) = 0
                  THEN <<>> ELSE SubSeq(f.items, f.completed + 1, Len(f.items)), f.size \div 2)
    BY DEF Halved
  <2>2. QED  BY <1>1, <1>2, <2>1
<1>4. f.size > 0 /\ (max > 0 => f.size <= max)  BY <1>2 DEF Shaped
<1>5. max \in Nat
  <2>1. Sink(t) \in Guarantees  BY TypesFacts
  <2>2. QED  BY <2>1 DEF Guarantees
<1>6. size \in Nat /\ size > 0 /\ (max > 0 => size <= max)
  <2> DEFINE n == f.size
  <2> HIDE DEF max, n
  <2>1. n \in Nat /\ n > 1 /\ (max > 0 => n <= max)  BY <1>2, <1>4 DEF n
  <2>2. n \div 2 \in Nat /\ n \div 2 > 0 /\ n \div 2 <= n  BY <2>1
  <2>3. (n \div 2) \in Nat /\ (n \div 2) > 0 /\ (max > 0 => n \div 2 <= max)
    BY <1>5, <2>1, <2>2
  <2>4. QED  BY <2>3 DEF n
<1>7. items = (IF Total(t, Span(a, b)) = 0 THEN <<>> ELSE Span(a, b))  OBVIOUS
<1> HIDE DEF items, size
<1>8. /\ a \in 0..Contexts /\ b \in a..Contexts /\ size \in Nat
      /\ Total(t, Span(a, b)) > 0 => size > 0
      /\ Total(t, Span(a, b)) > 0 /\ Sink(t).maxBatch > 0 => size <= Sink(t).maxBatch
  BY <1>1, <1>6 DEF max
<1> HIDE DEF max
<1>9. /\ g \in FramesFor(t) /\ g.target = t /\ Shaped(g) /\ Itemized(t, Pending(g), a, b)
      /\ g.chunks # <<>> => End(g) = b
  BY <1>3, <1>7, <1>8, NewFrame
<1>10. QED  BY <1>9 DEF a, b

\* What a failing call reports: the contexts completed, and those that remain.
LEMMA FailureResult ==
    ASSUME Types, NEW t \in Targets, NEW f \in FramesFor(t), Shaped(f), f.chunks # <<>>,
           NEW e \in {"conflict", "other"}, NEW r, r = Failure(f, e)
    PROVE  /\ r \in Results /\ r.error = e
           /\ r.successful = Prefix(Passed(f)) /\ r.failed = Span(Passed(f), End(f))
           /\ r.failed # <<>> /\ Head(r.failed) = Passed(f) + 1
<1> DEFINE a == Passed(f)
           b == End(f)
           s == Span(a, b)
<1>1. /\ a \in 0..Contexts /\ b \in a..Contexts /\ a < b
      /\ f.done \o SubSeq(f.items, 1, f.completed) = Prefix(a)
      /\ SubSeq(f.items, f.completed + 1, Len(f.items)) = s
  BY Remaining
<1> HIDE DEF a, b
<1>2. r = [successful |-> Prefix(a), failed |-> s, error |-> e,
           retryable |-> (e = "conflict" \/ MayRetry(f))]
  BY <1>1 DEF Failure
<1>3. Contexts \in Nat /\ Index = 1..Contexts  BY TypesFacts
<1>4. Prefix(a) \in Seq(Index)
  <2>1. \A n \in 1..a : n \in Index  BY <1>1, <1>3
  <2>2. a \in Nat  BY <1>1, <1>3
  <2>3. QED  BY <2>1, <2>2 DEF Prefix
<1>5. b - a \in Nat /\ b - a > 0 /\ \A n \in 1..(b - a) : a + n \in Index  BY <1>1, <1>3
<1>6. s \in Seq(Index) /\ Len(s) = b - a /\ s[1] = a + 1
  <2> DEFINE n == b - a
  <2>1. s = [j \in 1..n |-> a + j]  BY DEF Span
  <2>2. n \in Nat /\ \A j \in 1..n : a + j \in Index  BY <1>5
  <2>3. 1 \in 1..n  BY <1>5
  <2> HIDE DEF n, s
  <2>4. s \in Seq(Index) /\ Len(s) = n /\ s[1] = a + 1  BY <2>1, <2>2, <2>3
  <2>5. QED  BY <2>4 DEF n
<1> HIDE DEF s
<1>7. s # <<>> /\ Head(s) = a + 1  BY <1>5, <1>6
<1>8. r \in Results
  <2> DEFINE c == (e = "conflict" \/ MayRetry(f))
  <2>1. c \in BOOLEAN  BY DEF MayRetry
  <2> HIDE DEF c
  <2>2. r = [successful |-> Prefix(a), failed |-> s, error |-> e, retryable |-> c]  BY <1>2 DEF c
  <2>3. QED  BY <1>4, <1>6, <2>1, <2>2 DEF Results, Errors
<1>9. r.error = e /\ r.successful = Prefix(a) /\ r.failed = s  BY <1>2
<1>10. QED  BY <1>7, <1>8, <1>9 DEF a, b, s

-----------------------------------------------------------------------------
(* What a step leaves alone.                                               *)

\* What is known of the store depends on it and the contexts alone.
LEMMA Kept ==
    ASSUME contexts' = contexts, events' = events
    PROVE  /\ \A k \in Key : Placed(k) => Placed(k)'
           /\ \A i \in Index : Whole(i) => Whole(i)'
           /\ \A i \in Index : Settled(i) => Settled(i)'
           /\ epochs' = epochs => \A i \in Index : Gone(i) => Gone(i)'
<1>1. \A k \in Key : Placed(k) => Placed(k)'
  BY DEF Placed
<1>2. \A i \in Index : Whole(i) => Whole(i)'  BY DEF Whole
<1>3. \A i \in Index : Settled(i) => Settled(i)'
  <2>1. Serial' => Serial  BY DEF Serial
  <2>2. \A i \in Index : OnlyLoaded(i)' = OnlyLoaded(i)  BY DEF OnlyLoaded
  <2>3. \A i \in Index : \A k : Current(i, k) => Current(i, k)'  BY DEF Current
  <2>4. QED  BY <1>2, <2>1, <2>2, <2>3 DEF Settled
<1>4. epochs' = epochs => \A i \in Index : Gone(i) => Gone(i)'  BY DEF Gone
<1>5. QED  BY <1>1, <1>2, <1>3, <1>4

\* The shape of a frame, after a step that takes it on.
LEMMA NewShaped ==
    ASSUME NEW g, g = frame', Shaped(g), sinks' = sinks
    PROVE  Shaped(frame)'
BY DEF Shaped, Sink, Pending, Start, End, Passed

\* What a frame for the store knows, after a step that takes it on.
LEMMA SameStoring ==
    ASSUME NEW g, g = frame', Storing(g), contexts' = contexts, events' = events, epochs' = epochs
    PROVE  Storing(frame)'
<1>1. Good' = Good  BY DEF Good
<1>2. Pending(frame)' = Pending(g) /\ End(frame)' = End(g)  BY DEF Pending, End
<1>3. Serial' => Serial  BY DEF Serial
<1>4. \A i \in 1..Good : OnlyLoaded(i)' = OnlyLoaded(i)  BY DEF OnlyLoaded
<1>5. \A i \in 1..Good : \A k : Current(i, k) => Current(i, k)'  BY DEF Current
<1>6. frame'.target = "store"  BY DEF Storing
<1>7. frame'.chunks # <<>> => End(frame)' = Good'  BY <1>1, <1>2 DEF Storing
<1>8. \A n \in DOMAIN Pending(frame)' :
         Pending(frame)'[n].sn = contexts'[Pending(frame)'[n].ctx].base[Pending(frame)'[n].key]
  BY <1>2 DEF Storing
<1>9. \A i \in Index, k \in Key : Occurs(Pending(frame)', Adds(i, k)) <= StoredTo(contexts'[i], k)
  BY <1>2 DEF Storing
<1>10. \A i \in 1..Good' :
          /\ \A k \in Key : Times(events'[k], i) + Occurs(Pending(frame)', Adds(i, k))
                                >= StoredTo(contexts'[i], k)
          /\ Serial' => \A k \in OnlyLoaded(i)' :
                            Current(i, k)' \/ Occurs(Pending(frame)', Verifies(i, k)) > 0
  <2>1. \A i \in 1..Good :
          /\ \A k \in Key : Times(events[k], i) + Occurs(Pending(g), Adds(i, k))
                                >= StoredTo(contexts[i], k)
          /\ Serial => \A k \in OnlyLoaded(i) :
                            Current(i, k) \/ Occurs(Pending(g), Verifies(i, k)) > 0
    BY DEF Storing
  <2>2. \A i \in 1..Good' : \A k \in Key :
          Times(events'[k], i) + Occurs(Pending(frame)', Adds(i, k)) >= StoredTo(contexts'[i], k)
    BY <1>1, <1>2, <2>1
  <2>3. \A i \in 1..Good' :
          Serial' => \A k \in OnlyLoaded(i)' :
                        Current(i, k)' \/ Occurs(Pending(frame)', Verifies(i, k)) > 0
    BY <1>1, <1>2, <1>3, <1>4, <1>5, <2>1
  <2>4. QED  BY <2>2, <2>3
<1>11. QED  BY <1>6, <1>7, <1>8, <1>9, <1>10 DEF Storing

\* A frame without chunks has nothing pending.
LEMMA EmptyFrame ==
    /\ NoFrame \in FramesFor("store") /\ NoFrame \in Frames /\ NoFrame.chunks = <<>>
    /\ \A f : f.chunks = <<>> => Shaped(f)
<1>1. NoFrame = [target |-> "store", done |-> <<>>, items |-> <<>>, size |-> 1, completed |-> 0,
                 chunks |-> <<>>]
  BY DEF NoFrame, Frame
<1>2. <<>> \in Seq(Index) /\ \A S : <<>> \in Seq(S)  OBVIOUS
<1>3. NoFrame \in FramesFor("store")  BY <1>1, <1>2 DEF FramesFor
<1>4. \A f : f.chunks = <<>> => Shaped(f)  BY DEF Shaped
<1>5. QED  BY <1>1, <1>3, <1>4 DEF Frames

-----------------------------------------------------------------------------
(* The invariant is inductive.                                             *)

\* The invariant holds at first.
LEMMA SinkInit == Init => SinkInv
<1> SUFFICES ASSUME Init PROVE SinkInv  OBVIOUS
<1>1. PICK plan \in [Index -> Plan], ext \in [Key -> 0..External] :
        /\ sinks \in [store : StoreSinks, publish : PublishSinks]
        /\ contexts = [i \in Index |-> Context(plan, i)]
        /\ epochs = [k \in Key |-> 2]
        /\ events = [k \in Key |-> [n \in 1..ext[k] |-> 0]]
        /\ sent = <<>>
        /\ pc = "handle"
        /\ frame = NoFrame
        /\ storeOutcome = AllDone
        /\ outcome = [error |-> "none", at |-> Contexts + 1]
        /\ attempt = 1
        /\ faults = 0
  BY DEF Init
<1>2. /\ Contexts \in Nat /\ Index = 1..Contexts /\ MaxFaults \in Nat /\ External \in Nat
      /\ MaxAttempts \in Nat \ {0}
  BY SinkAssumption DEF Index
<1>3. ASSUME NEW i \in Index
      PROVE  /\ contexts[i] \in ContextsOf(Key) /\ \A k \in Key : contexts[i].epoch[k] <= 2
  <2> DEFINE p == plan[i]
             c == contexts[i]
             e == [k \in Key |-> IF p.stale THEN 1 ELSE 2]
  <2>1. p \in Plans  BY SinkAssumption
  <2>2. Base(plan)[i] \in [Key -> Nat]  BY BaseType
  <2>3. e \in [Key -> Nat] /\ \A k \in Key : e[k] <= 2  OBVIOUS
  <2> DEFINE b == Base(plan)[i]
  <2>4. c = [stored |-> p.stored, loaded |-> p.loaded, published |-> p.published,
             base |-> b, epoch |-> e]
    BY <1>1 DEF Context
  <2>5. p.stored \in Seq(Key) /\ p.loaded \in SUBSET Key /\ p.published \in Seq(Key)
    BY <2>1 DEF Plans
  <2> HIDE DEF c, b, e, p
  <2>6. c \in ContextsOf(Key) /\ c.epoch = e  BY <2>2, <2>3, <2>4, <2>5 DEF b, ContextsOf
  <2>7. QED  BY <2>3, <2>6 DEF c
<1>4. contexts \in Seq(ContextsOf(Key)) /\ Len(contexts) = Contexts
  <2>1. contexts = [i \in 1..Contexts |-> contexts[i]]  BY <1>1, <1>2
  <2> DEFINE S == ContextsOf(Key)
             cs == contexts
  <2>2. cs = [i \in 1..Contexts |-> cs[i]] /\ \A i \in 1..Contexts : cs[i] \in S
    BY <1>2, <1>3, <2>1
  <2> HIDE DEF S, cs
  <2>3. cs \in Seq(S) /\ Len(cs) = Contexts  BY <1>2, <2>2
  <2>4. QED  BY <2>3 DEF S, cs
<1>5. epochs \in [Key -> Nat] /\ \A k \in Key : epochs[k] >= 2  BY <1>1
<1>6. /\ events \in [Key -> Seq(0..Contexts)]
      /\ \A k \in Key : \A p \in DOMAIN events[k] : events[k][p] = 0
  <2>1. \A k \in Key : events[k] = [n \in 1..ext[k] |-> 0] /\ ext[k] \in Nat  BY <1>1, <1>2
  <2>2. \A k \in Key : events[k] \in Seq(0..Contexts)
    <3> SUFFICES ASSUME NEW k \in Key PROVE events[k] \in Seq(0..Contexts)  OBVIOUS
    <3> DEFINE n == ext[k]
               S == 0..Contexts
    <3>1. n \in Nat /\ 0 \in S  BY <1>2, <2>1
    <3> HIDE DEF n, S
    <3>2. [j \in 1..n |-> 0] \in Seq(S)  BY <3>1
    <3>3. QED  BY <2>1, <3>2 DEF n, S
  <2>3. \A k \in Key : \A p \in DOMAIN events[k] : events[k][p] = 0  BY <2>1
  <2>4. events = [k \in Key |-> events[k]]  BY <1>1
  <2>5. QED  BY <2>2, <2>3, <2>4
<1>7. sent \in Seq(Index) /\ ToSet(sent) = {}
  <2>1. sent = <<>>  BY <1>1
  <2>2. QED  BY <2>1 DEF ToSet
<1>8. storeOutcome \in Results
  <2>1. <<>> \in Seq(Index)  OBVIOUS
  <2>2. QED  BY <1>1, <2>1 DEF AllDone, Results, Errors
<1>9. outcome \in [error : Errors, at : 1..(Contexts + 1)]
  <2>1. Contexts + 1 \in 1..(Contexts + 1)  BY <1>2
  <2>2. QED  BY <1>1, <2>1 DEF Errors
<1>10. attempt \in 1..MaxAttempts /\ faults \in 0..MaxFaults  BY <1>1, <1>2
<1>11. frame \in Frames /\ frame.chunks = <<>> /\ Shaped(frame)  BY <1>1, EmptyFrame
<1>12. Types
  BY <1>1, <1>3, <1>4, <1>5, <1>6, <1>7, <1>8, <1>9, <1>10, <1>11 DEF Types
<1>13. \A k \in Key : Placed(k)
  <2> SUFFICES ASSUME NEW k \in Key, NEW p \in DOMAIN events[k]
               PROVE  events[k][p] = 0 /\ \A q \in 1..p : events[k][q] = 0
    BY DEF Placed
  <2>1. DOMAIN events[k] = 1..Len(events[k])  BY <1>6
  <2>2. \A q \in 1..p : q \in DOMAIN events[k]
    <3> DEFINE L == Len(events[k])
    <3>1. L \in Nat /\ p \in 1..L  BY <1>6, <2>1
    <3> HIDE DEF L
    <3>2. \A q \in 1..p : q \in 1..L  BY <3>1
    <3>3. QED  BY <2>1, <3>2 DEF L
  <2>3. QED  BY <1>6, <2>2
<1>14. QED  BY <1>1, <1>7, <1>11, <1>12, <1>13 DEF SinkInv

\* handle() starts to store the contexts that pass the filter.
LEMMA HandleStep == SinkInv /\ Handle => SinkInv'
<1> SUFFICES ASSUME SinkInv, Handle PROVE SinkInv'  OBVIOUS
<1>1. Types /\ \A k \in Key : Placed(k)  BY DEF SinkInv
<1>2. /\ pc' = "store" /\ frame' = Call("store", Prefix(Good))
      /\ contexts' = contexts /\ events' = events /\ epochs' = epochs /\ sinks' = sinks
      /\ sent' = sent /\ storeOutcome' = storeOutcome /\ outcome' = outcome
      /\ attempt' = attempt /\ faults' = faults
  BY DEF Handle
<1> DEFINE g == frame'
<1>3. Good \in 0..Contexts  BY <1>1, GoodProperties
<1>4. "store" \in Targets  BY DEF Targets
<1>5. /\ g \in FramesFor("store") /\ g.target = "store" /\ Shaped(g)
      /\ Itemized("store", Pending(g), 0, Good)
      /\ g.chunks # <<>> => End(g) = Good
  <2>1. g = Call("store", Prefix(Good))  BY <1>2
  <2> DEFINE b == Good
  <2> HIDE DEF g, b
  <2>2. g = Call("store", Prefix(b)) /\ b \in 0..Contexts  BY <1>3, <2>1 DEF b
  <2>3. /\ g \in FramesFor("store") /\ g.target = "store" /\ Shaped(g)
        /\ Itemized("store", Pending(g), 0, b)
        /\ g.chunks # <<>> => End(g) = b
    BY <1>1, <1>4, <2>2, CallFrame
  <2>4. QED  BY <2>3 DEF b
<1>6. Storing(g)
  <2> HIDE DEF g
  <2>1. 0 \in 0..Good /\ \A i \in 1..0 : Settled(i)  BY <1>3, TypesFacts, <1>1
  <2>2. QED  BY <1>1, <1>5, <2>1, NewStoring
<1>7. Storing(frame)'  BY <1>2, <1>6, SameStoring
<1>8. Shaped(frame)'  BY <1>2, <1>5, NewShaped
<1>9. Types'  BY <1>1, <1>2, <1>5 DEF Types, Frames
<1>10. /\ \A k \in Key : Placed(k)'
       /\ \A i \in Index : Whole(i) => Whole(i)'
  BY <1>1, <1>2, Kept
<1>11. \A i \in ToSet(sent)' : Whole(i)'
  <2>1. \A i \in ToSet(sent) : i \in Index /\ Whole(i)  BY <1>1 DEF SinkInv, Types, ToSet
  <2>2. QED  BY <1>2, <1>10, <2>1
<1>12. QED  BY <1>2, <1>7, <1>8, <1>9, <1>10, <1>11 DEF SinkInv

\* A call of a sink succeeds.
LEMMA SinkChunkStep == SinkInv /\ SinkChunk => SinkInv'
<1> SUFFICES ASSUME SinkInv, SinkChunk PROVE SinkInv'  OBVIOUS
<1> DEFINE c == Head(frame.chunks)
           g == [frame EXCEPT !.chunks = Tail(@), !.completed = @ + CompletedBy(c)]
<1>1. /\ Types /\ \A k \in Key : Placed(k)
      /\ Shaped(frame) /\ frame.chunks # <<>>
      /\ \A i \in ToSet(sent) : Whole(i)
  BY DEF SinkInv, SinkChunk
<1>2. /\ frame' = g
      /\ contexts' = contexts /\ epochs' = epochs /\ sinks' = sinks /\ pc' = pc
      /\ storeOutcome' = storeOutcome /\ outcome' = outcome
      /\ attempt' = attempt /\ faults' = faults
  BY DEF SinkChunk, Apply
<1>3. frame \in FramesFor(frame.target) /\ frame.target \in Targets
  <2>1. \A t \in Targets : \A f \in FramesFor(t) : f.target = t  BY DEF FramesFor
  <2>2. \E t \in Targets : frame \in FramesFor(t)  BY SMTT(30), <1>1 DEF Types, Frames, Targets
  <2>3. QED  BY <2>1, <2>2
<1>4. /\ g \in FramesFor(frame.target) /\ Shaped(g) /\ End(g) = End(frame)
      /\ c \in Seq(ItemSet(frame.target)) /\ Pending(g) \in Seq(ItemSet(frame.target))
      /\ Pending(frame) = c \o Pending(g)
  BY Zenon, <1>1, <1>3, ChunkTaken
<1>5. g.target = frame.target
  <2> DEFINE t == frame.target
  <2>1. t \in Targets /\ g \in FramesFor(t)  BY <1>3, <1>4
  <2> HIDE DEF t, g
  <2>2. g.target = t  BY <2>1 DEF FramesFor
  <2>3. QED  BY <2>2 DEF t
<1>6. pc \in {"store", "publish", "partial"} /\ (pc = "store" <=> frame.target = "store")
      /\ (pc = "store" => Storing(frame))
  BY <1>1 DEF SinkInv, Types, Storing
<1>7. Shaped(frame)'
  <2> HIDE DEF g
  <2>1. QED  BY <1>2, <1>4, NewShaped
<1>8. frame' \in Frames
  <2> HIDE DEF g
  <2>1. QED  BY <1>2, <1>3, <1>4 DEF Frames, Targets
<1>9. CASE frame.target = "store"
  <2>1. /\ Accepted(c) /\ events' = [k \in Key |-> Extended(c, k)] /\ sent' = sent
    BY <1>9 DEF SinkChunk, Apply
  <2>2. /\ events' \in [Key -> Seq(0..Contexts)]
        /\ \A k \in Key : Placed(k)'
        /\ \A i \in Index : Whole(i) => Whole(i)'
        /\ Storing(frame)'
    BY <1>1, <1>2, <1>3, <1>6, <1>9, <2>1, StoreStep
  <2>3. Types'  BY <1>1, <1>2, <1>8, <2>1, <2>2 DEF Types
  <2>4. \A i \in ToSet(sent)' : Whole(i)'
    <3>1. \A i \in ToSet(sent) : i \in Index  BY <1>1 DEF Types, ToSet
    <3>2. QED  BY <1>1, <2>1, <2>2, <3>1
  <2>5. pc' = "store"  BY <1>2, <1>6, <1>9
  <2>6. QED  BY <1>7, <2>2, <2>3, <2>4, <2>5 DEF SinkInv
<1>10. CASE frame.target = "publish"
  <2> DEFINE ctxs == [n \in DOMAIN c |-> c[n].ctx]
  <2>1. events' = events /\ sent' = sent \o ctxs  BY <1>10 DEF SinkChunk, Apply
  <2>2. pc \in {"publish", "partial"}  BY <1>6, <1>10
  <2>3. \A n \in DOMAIN c : c[n].ctx \in Index /\ c[n].ctx <= End(frame)
    <3> SUFFICES ASSUME NEW n \in DOMAIN c PROVE c[n].ctx \in Index /\ c[n].ctx <= End(frame)
      OBVIOUS
    <3> DEFINE I == ItemSet("publish")
               u == Pending(g)
    <3>1. c \in Seq(I) /\ u \in Seq(I) /\ Pending(frame) = c \o u  BY <1>4, <1>10
    <3> HIDE DEF c, u, I
    <3>2. n \in DOMAIN (c \o u) /\ (c \o u)[n] = c[n] /\ c[n] \in I  BY <3>1
    <3>3. c[n].ctx <= End(frame)  BY <1>1, <3>1, <3>2 DEF Shaped, Ordered
    <3>4. QED  BY <3>2, <3>3 DEF I, ItemSet
  <2>4. \A n \in DOMAIN c : Whole(c[n].ctx)
    <3> SUFFICES ASSUME NEW n \in DOMAIN c PROVE Settled(c[n].ctx)  BY DEF Settled
    <3>1. CASE pc = "publish"  BY <2>3, <3>1 DEF SinkInv
    <3>2. CASE pc = "partial"
      <4> DEFINE h == Head(storeOutcome.failed)
                 e == End(frame)
                 i == c[n].ctx
      <4>1. e < h /\ (i \in Index => (i < h => Settled(i)))
            /\ i \in Index /\ i <= e
        BY <1>1, <2>3, <3>2 DEF SinkInv, Partial
      <4>2. e \in Nat /\ h \in Nat /\ i \in Nat
        <5>1. frame.done \in Seq(Index) /\ frame.items \in Seq(Index)  BY <1>3 DEF FramesFor
        <5>2. \A s \in Seq(Index) : Len(s) \in Nat  OBVIOUS
        <5>3. Len(frame.done) \in Nat /\ Len(frame.items) \in Nat  BY <5>1, <5>2
        <5>4. e \in Nat
          <6>1. \A x, y \in Nat : x + y \in Nat  OBVIOUS
          <6>2. QED  BY <5>3, <6>1 DEF End
        <5>5. storeOutcome.failed \in Seq(Index) /\ storeOutcome.failed # <<>>
          BY <1>1, <3>2 DEF SinkInv, Partial, Types, Results
        <5>6. \A s \in Seq(Index) : s # <<>> => Head(s) \in Index  OBVIOUS
        <5>7. Index \subseteq Nat  BY <1>1, TypesFacts
        <5>8. QED  BY <4>1, <5>4, <5>5, <5>6, <5>7
      <4> HIDE DEF h, e, i
      <4>3. i < h  BY <4>1, <4>2
      <4>4. QED  BY <4>1, <4>3 DEF i
    <3>3. QED  BY <2>2, <3>1, <3>2
  <2>5. ctxs \in Seq(Index) /\ ToSet(ctxs) = {c[n].ctx : n \in DOMAIN c}
    <3>1. c \in Seq(ItemSet("publish"))  BY <1>4, <1>10
    <3> HIDE DEF c
    <3>2. DOMAIN c = 1..Len(c) /\ Len(c) \in Nat  BY <3>1
    <3> DEFINE N == Len(c)
    <3>3. N \in Nat /\ ctxs = [n \in 1..N |-> c[n].ctx] /\ \A n \in 1..N : c[n].ctx \in Index
      BY <2>3, <3>2
    <3>4. ToSet(ctxs) = {c[n].ctx : n \in DOMAIN c}  BY DEF ToSet
    <3> HIDE DEF N
    <3>5. ctxs \in Seq(Index)
      <4> HIDE DEF ctxs
      <4>1. QED  BY <3>3
    <3>6. QED  BY <3>4, <3>5
  <2> HIDE DEF ctxs
  <2>6. sent' \in Seq(Index) /\ ToSet(sent') = ToSet(sent) \cup ToSet(ctxs)
    <3>1. sent \in Seq(Index)  BY <1>1 DEF Types
    <3>2. ToSet(sent \o ctxs) = ToSet(sent) \cup ToSet(ctxs)  BY <2>5, <3>1, ToSetConcat
    <3>3. \A s, u \in Seq(Index) : s \o u \in Seq(Index)  OBVIOUS
    <3>4. QED  BY <2>1, <2>5, <3>1, <3>2, <3>3
  <2>7. /\ \A k \in Key : Placed(k)'
        /\ \A i \in Index : Whole(i) => Whole(i)'
        /\ \A i \in Index : Settled(i) => Settled(i)'
        /\ \A i \in Index : Gone(i) => Gone(i)'
    BY <1>1, <1>2, <2>1, Kept
  <2>8. \A i \in ToSet(sent') : Whole(i)'
    <3> SUFFICES ASSUME NEW i \in ToSet(sent') PROVE Whole(i)'  OBVIOUS
    <3>1. i \in Index /\ Whole(i)
      <4>1. CASE i \in ToSet(sent)  BY <1>1, <4>1 DEF Types, ToSet
      <4>2. CASE i \in ToSet(ctxs)  BY <2>3, <2>4, <2>5, <4>2
      <4>3. QED  BY <2>6, <4>1, <4>2
    <3>2. QED  BY <2>7, <3>1
  <2>9. Types'  BY <1>1, <1>2, <1>8, <2>1, <2>6 DEF Types
  <2>10. pc = "publish" => \A i \in Index : Settled(i)'  BY <2>7 DEF SinkInv
  <2>11. pc = "partial" => Partial'
    <3> SUFFICES ASSUME pc = "partial" PROVE Partial'  OBVIOUS
    <3>1. Partial  BY DEF SinkInv
    <3>2. End(frame)' = End(frame)
      <4>1. End(g) = End(frame')  BY <1>2 DEF End
      <4>2. QED  BY <1>4, <4>1 DEF End
    <3>3. \A i \in Index : i < Head(storeOutcome'.failed) => Settled(i)'
      BY <1>2, <2>7, <3>1 DEF Partial
    <3>4. frame'.chunks # <<>> => End(frame)' < Head(storeOutcome'.failed)
      BY <1>1, <1>2, <3>1, <3>2 DEF Partial
    <3>5. storeOutcome'.error = "conflict" =>
             \A i \in Index : i >= Head(storeOutcome'.failed) => Gone(i)'
      BY <1>2, <2>7, <3>1 DEF Partial
    <3>6. QED  BY <1>2, <3>1, <3>3, <3>4, <3>5 DEF Partial
  <2>12. frame'.target = "publish"  BY <1>2, <1>5, <1>10
  <2>13. QED  BY <1>2, <1>7, <2>2, <2>7, <2>8, <2>9, <2>10, <2>11, <2>12 DEF SinkInv
<1>11. QED  BY <1>3, <1>9, <1>10 DEF Targets

\* sink() has returned or thrown, or is called again.
LEMMA Thrown ==
    ASSUME SinkInv, contexts' = contexts, events' = events,
           epochs' \in [Key -> Nat], \A k \in Key : epochs'[k] >= 2, sinks' = sinks, sent' = sent, storeOutcome' = storeOutcome,
           frame' = NoFrame, faults' \in 0..MaxFaults,
           NEW e \in Errors, e # "none", NEW at \in Index, NEW retryable \in BOOLEAN,
           Throw(e, at, retryable),
           e = "conflict" => /\ \A i \in Index : i < at => Settled(i)
                             /\ \A i \in Index : i >= at => Gone(i)'
    PROVE  SinkInv'
<1>1. Types /\ (\A k \in Key : Placed(k)) /\ \A i \in ToSet(sent) : Whole(i)  BY DEF SinkInv
<1>2. Contexts \in Nat /\ Index = 1..Contexts  BY <1>1, TypesFacts
<1>3. frame' \in Frames /\ frame'.chunks = <<>> /\ Shaped(frame)'
  <2>1. NoFrame \in Frames /\ NoFrame.chunks = <<>> /\ \A f : f.chunks = <<>> => Shaped(f)
    BY EmptyFrame
  <2> DEFINE g == frame'
  <2>2. g \in Frames /\ g.chunks = <<>> /\ Shaped(g)  BY <2>1
  <2> HIDE DEF g
  <2>3. g = frame'  BY DEF g
  <2>4. Shaped(frame)'  BY <2>2, <2>3, NewShaped
  <2>5. QED  BY <2>2, <2>4 DEF g
<1>4. /\ \A k \in Key : Placed(k)'
      /\ \A i \in Index : Whole(i) => Whole(i)'
      /\ \A i \in Index : Settled(i) => Settled(i)'
  BY <1>1, Kept
<1>5. \A i \in ToSet(sent)' : Whole(i)'
  <2>1. \A i \in ToSet(sent) : i \in Index  BY <1>1 DEF Types, ToSet
  <2>2. QED  BY <1>1, <1>4, <2>1
<1>6. CASE e # "conflict" /\ retryable /\ ~IsFinalAttempt
  <2>1. pc' = "handle" /\ attempt' = attempt + 1 /\ outcome' = outcome  BY <1>6 DEF Throw
  <2>2. attempt' \in 1..MaxAttempts
    <3>1. attempt \in 1..MaxAttempts /\ ~(attempt >= MaxAttempts) /\ MaxAttempts \in Nat
      BY <1>1, <1>6, SinkAssumption DEF Types, IsFinalAttempt
    <3>2. QED  BY <2>1, <3>1
  <2>3. Types'  BY <1>1, <1>3, <2>1, <2>2 DEF Types
  <2>4. QED  BY <1>3, <1>4, <1>5, <2>1, <2>3 DEF SinkInv
<1>7. CASE ~(e # "conflict" /\ retryable /\ ~IsFinalAttempt)
  <2>1. pc' = "done" /\ outcome' = [error |-> e, at |-> at] /\ attempt' = attempt
    BY <1>7 DEF Throw
  <2>2. outcome' \in [error : Errors, at : 1..(Contexts + 1)]
    <3>1. at \in 1..(Contexts + 1)  BY <1>2
    <3>2. QED  BY <2>1, <3>1
  <2>3. Types'  BY <1>1, <1>3, <2>1, <2>2 DEF Types
  <2>4. \A i \in Acknowledged' : Settled(i)'
    <3> SUFFICES ASSUME NEW i \in Acknowledged' PROVE Settled(i)'  OBVIOUS
    <3>1. e = "conflict" /\ i \in 1..(at - 1)  BY <2>1 DEF Acknowledged, Errors
    <3>2. i \in Index /\ i < at  BY <1>2, <3>1
    <3>3. QED  BY <1>4, <3>1, <3>2
  <2>5. \A i \in HandledAnew' : Gone(i)'
    <3> SUFFICES ASSUME NEW i \in HandledAnew' PROVE Gone(i)'  OBVIOUS
    <3>1. e = "conflict" /\ i \in at..Contexts  BY <2>1 DEF HandledAnew
    <3>2. i \in Index /\ i >= at  BY <1>2, <3>1
    <3>3. QED  BY <3>1, <3>2
  <2>6. Concluded'  BY <2>4, <2>5 DEF Concluded
  <2>7. QED  BY <1>3, <1>4, <1>5, <2>1, <2>3, <2>6 DEF SinkInv
<1>8. QED  BY <1>6, <1>7

\* handle() after publishing.
LEMMA AfterPublishStep ==
    ASSUME SinkInv, pc \in {"publish", "partial"}, faults' \in 0..MaxFaults,
           NEW r \in Results, r.error # "conflict", r.error # "none" => r.failed # <<>>,
           AfterPublish(r)
    PROVE  SinkInv'
<1>1. Types /\ (\A k \in Key : Placed(k)) /\ \A i \in ToSet(sent) : Whole(i)  BY DEF SinkInv
<1>2. /\ contexts' = contexts /\ events' = events /\ epochs' = epochs
      /\ sinks' = sinks /\ sent' = sent /\ storeOutcome' = storeOutcome /\ frame' = NoFrame
  BY DEF AfterPublish
<1>3. Contexts \in Nat /\ Index = 1..Contexts  BY <1>1, TypesFacts
<1>4. \A s \in Seq(Index) : s # <<>> => Head(s) \in Index  OBVIOUS
<1>5. /\ \A i \in Index : Gone(i) => Gone(i)'
      /\ epochs' \in [Key -> Nat] /\ \A k \in Key : epochs'[k] >= 2
  BY <1>1, <1>2, Kept DEF Types
<1>6. CASE pc = "partial"
  <2> DEFINE e == storeOutcome.error
             at == Head(storeOutcome.failed)
             b == storeOutcome.retryable
  <2>1. Partial /\ storeOutcome \in Results  BY <1>1, <1>6 DEF SinkInv, Types
  <2>2. e \in Errors /\ e # "none" /\ at \in Index /\ b \in BOOLEAN
    BY <1>4, <2>1 DEF Partial, Results
  <2>3. e = "conflict" => /\ \A i \in Index : i < at => Settled(i)
                          /\ \A i \in Index : i >= at => Gone(i)'
    BY <1>5, <2>1 DEF Partial
  <2>4. Throw(e, at, b)  BY <1>6 DEF AfterPublish
  <2> HIDE DEF e, at, b
  <2>5. QED  BY <1>2, <1>5, <2>2, <2>3, <2>4, Thrown
<1>7. CASE pc = "publish" /\ r.error # "none"
  <2> DEFINE e == r.error
             at == Head(r.failed)
             b == Sink("store").idempotent /\ r.retryable
  <2>1. e \in Errors /\ e # "none" /\ e # "conflict" /\ at \in Index
    BY <1>4, <1>7 DEF Results
  <2>2. b \in BOOLEAN  OBVIOUS
  <2>3. Throw(e, at, b)  BY <1>7 DEF AfterPublish
  <2> HIDE DEF e, at, b
  <2>4. QED  BY <1>2, <1>5, <2>1, <2>2, <2>3, Thrown
<1>8. CASE pc = "publish" /\ r.error = "none"
  <2>1. pc' = "done" /\ outcome' = [error |-> "none", at |-> Contexts + 1] /\ attempt' = attempt
    BY <1>8 DEF AfterPublish, Return
  <2>2. /\ \A k \in Key : Placed(k)'
        /\ \A i \in Index : Whole(i) => Whole(i)'
        /\ \A i \in Index : Settled(i) => Settled(i)'
    BY <1>1, <1>2, Kept
  <2>3. \A i \in ToSet(sent)' : Whole(i)'
    <3>1. \A i \in ToSet(sent) : i \in Index  BY <1>1 DEF Types, ToSet
    <3>2. QED  BY <1>1, <1>2, <2>2, <3>1
  <2>4. frame' \in Frames /\ frame'.chunks = <<>> /\ Shaped(frame)'
    <3>1. NoFrame \in Frames /\ NoFrame.chunks = <<>> /\ \A f : f.chunks = <<>> => Shaped(f)
      BY EmptyFrame
    <3> DEFINE g == frame'
    <3>2. g \in Frames /\ g.chunks = <<>> /\ Shaped(g)  BY <1>2, <3>1
    <3> HIDE DEF g
    <3>3. g = frame'  BY DEF g
    <3>4. Shaped(frame)'  BY <1>2, <3>2, <3>3, NewShaped
    <3>5. QED  BY <3>2, <3>4 DEF g
  <2>5. outcome' \in [error : Errors, at : 1..(Contexts + 1)]
    <3>1. Contexts + 1 \in 1..(Contexts + 1)  BY <1>3
    <3>2. QED  BY <2>1, <3>1 DEF Errors
  <2>6. Types'  BY <1>1, <1>2, <2>1, <2>4, <2>5 DEF Types
  <2>7. Concluded'
    <3>1. Acknowledged' = Index /\ HandledAnew' = {}  BY <2>1 DEF Acknowledged, HandledAnew
    <3>2. \A i \in Index : Settled(i)'  BY <1>8, <2>2 DEF SinkInv
    <3>3. QED  BY <3>1, <3>2 DEF Concluded
  <2>8. QED  BY <2>1, <2>2, <2>3, <2>4, <2>6, <2>7 DEF SinkInv
<1>9. QED  BY <1>6, <1>7, <1>8

\* The contexts that are filtered out include all after the good ones.
LEMMA BadContextsProperties ==
    ASSUME Types
    PROVE  BadContexts \in Seq(Index) /\ \A i \in Index : i > Good => i \in ToSet(BadContexts)
<1>1. Good \in 0..Contexts /\ Contexts \in Nat /\ Index = 1..Contexts  BY GoodProperties, TypesFacts
<1> DEFINE G == Good
           n == Contexts - G
<1> HIDE DEF G
<1>2. BadContexts = [j \in 1..n |-> G + j]  BY DEF BadContexts, G
<1>3. n \in Nat /\ \A j \in 1..n : G + j \in Index  BY <1>1 DEF G
<1>4. \A i \in Index : i > G => i - G \in 1..n /\ G + (i - G) = i  BY <1>1 DEF G
<1> DEFINE B == BadContexts
<1> HIDE DEF n, B
<1>5. B = [j \in 1..n |-> G + j]  BY <1>2 DEF B
<1>6. B \in Seq(Index)  BY <1>3, <1>5
<1>7. \A i \in Index : i > G => \E j \in DOMAIN B : B[j] = i  BY <1>4, <1>5
<1>8. QED  BY <1>6, <1>7 DEF B, G, ToSet

\* The contexts that fail include those set aside by the filter.
LEMMA FailedOutcome ==
    ASSUME Types, NEW r \in Results, r.failed # <<>>, NEW o, o = [r EXCEPT !.failed = @ \o BadContexts]
    PROVE  /\ o \in Results /\ o.error = r.error
           /\ o.failed # <<>> /\ Head(o.failed) = Head(r.failed)
<1> DEFINE f == r.failed
           bad == BadContexts
           v == f \o bad
<1>1. f \in Seq(Index) /\ f # <<>> /\ bad \in Seq(Index)
  BY BadContextsProperties DEF Results
<1> HIDE DEF bad
<1>2. v \in Seq(Index) /\ v # <<>> /\ Head(v) = Head(f)
  <2> HIDE DEF f
  <2>1. /\ f \o bad \in Seq(Index) /\ Len(f \o bad) = Len(f) + Len(bad)
        /\ (f \o bad)[1] = f[1] /\ Len(f) > 0 /\ Len(f) \in Nat /\ Len(bad) \in Nat
    BY <1>1
  <2> HIDE DEF v
  <2>2. v \in Seq(Index) /\ Len(v) > 0 /\ v[1] = f[1]
    <3>1. Len(f) + Len(bad) > 0  BY <2>1
    <3>2. QED  BY <2>1, <3>1 DEF v
  <2>3. \A s \in Seq(Index) : Head(s) = s[1] /\ (Len(s) > 0 => s # <<>>)  OBVIOUS
  <2>4. QED  BY <1>1, <2>2, <2>3
<1>3. o = [r EXCEPT !.failed = v]  BY DEF bad
<1> HIDE DEF v
<1>4. o \in Results /\ o.error = r.error /\ o.failed = v  BY <1>2, <1>3 DEF Results
<1>5. QED  BY <1>2, <1>4

\* What the contexts that fail had loaded gets another epoch.
LEMMA Invalidated ==
    ASSUME Types, NEW bad \in Seq(Index), InvalidateEpochs(bad), contexts' = contexts
    PROVE  /\ epochs' \in [Key -> Nat] /\ \A k \in Key : epochs'[k] >= 2
           /\ \A i \in ToSet(bad) : Gone(i)'
<1>1. epochs \in [Key -> Nat] /\ \A k \in Key : epochs[k] >= 2  BY DEF Types
<1>2. /\ epochs' \in [Key -> Nat]
      /\ \A k \in Key : epochs'[k] = IF \E n \in DOMAIN bad : k \in contexts[bad[n]].loaded
                                     THEN epochs[k] + 1 ELSE epochs[k]
  BY <1>1 DEF InvalidateEpochs
<1>3. \A k \in Key : epochs'[k] >= 2  BY <1>1, <1>2
<1>4. ASSUME NEW i \in ToSet(bad) PROVE Gone(i)'
  <2>1. PICK n \in DOMAIN bad : bad[n] = i  BY DEF ToSet
  <2>2. i \in Index  BY <2>1
  <2>3. contexts[i] \in ContextsOf(Key)  BY <2>2, TypesFacts
  <2>4. ASSUME NEW k \in contexts[i].loaded PROVE epochs'[k] > contexts[i].epoch[k]
    <3>1. k \in Key /\ contexts[i].epoch[k] \in Nat  BY <2>3 DEF ContextsOf
    <3>2. epochs'[k] = epochs[k] + 1 /\ epochs[k] >= 2 /\ epochs[k] \in Nat
      BY <1>1, <1>2, <2>1, <3>1
    <3>3. contexts[i].epoch[k] <= 2  BY <2>2, <3>1 DEF Types
    <3>4. QED  BY <3>1, <3>2, <3>3
  <2>5. QED  BY <2>4 DEF Gone
<1>5. QED  BY <1>2, <1>3, <1>4

\* handle() goes on to publish contexts 1 to b.
LEMMA PublishCall ==
    ASSUME SinkInv, NEW b \in 0..Contexts, frame' = Call("publish", Prefix(b)), sinks' = sinks
    PROVE  /\ frame' \in Frames /\ frame'.target = "publish" /\ Shaped(frame)'
           /\ frame'.chunks # <<>> => End(frame') = b
<1>1. Types /\ "publish" \in Targets  BY DEF SinkInv, Targets
<1> DEFINE g == frame'
<1>2. g = Call("publish", Prefix(b))  OBVIOUS
<1> HIDE DEF g
<1>3. g \in FramesFor("publish") /\ g.target = "publish" /\ Shaped(g)
      /\ (g.chunks # <<>> => End(g) = b)
  BY <1>1, <1>2, CallFrame
<1>4. Shaped(frame)'
  <2>1. g = frame'  BY DEF g
  <2>2. QED  BY <1>3, <2>1, NewShaped
<1>5. QED  BY <1>3, <1>4 DEF g, Frames

\* handle() after all that passed the filter has been stored.
LEMMA AfterStoreDone ==
    ASSUME SinkInv, pc = "store", frame.chunks = <<>>, faults' \in 0..MaxFaults,
           AfterStore(AllDone)
    PROVE  SinkInv'
<1>1. /\ Types /\ (\A k \in Key : Placed(k)) /\ (\A i \in ToSet(sent) : Whole(i))
      /\ Storing(frame)
  BY DEF SinkInv
<1>2. /\ contexts' = contexts /\ events' = events /\ sinks' = sinks /\ sent' = sent
  BY DEF AfterStore
<1>3. Contexts \in Nat /\ Index = 1..Contexts /\ Good \in 0..Contexts
  BY <1>1, TypesFacts, GoodProperties
<1>4. frame \in FramesFor("store")
  BY <1>1 DEF Types, Frames, FramesFor, Storing
<1>5. \A i \in 1..Good : Settled(i)  BY <1>1, <1>4, PassedIsSettled
<1>6. /\ epochs' \in [Key -> Nat] /\ \A k \in Key : epochs'[k] >= 2
      /\ \A i \in Index : i > Good => Gone(i)'
  <2> DEFINE bad == BadContexts
  <2>1. InvalidateEpochs(bad \o <<>>)  BY DEF AfterStore, AllDone
  <2>2. bad \in Seq(Index) /\ \A i \in Index : i > Good => i \in ToSet(bad)
    BY <1>1, BadContextsProperties
  <2> HIDE DEF bad
  <2>3. bad \o <<>> = bad  BY <2>2
  <2>4. InvalidateEpochs(bad)  BY <2>1, <2>3
  <2>5. QED  BY <1>1, <1>2, <2>2, <2>4, Invalidated
<1>7. AllDone.error = "none"  BY DEF AllDone
<1>8. CASE FilterError
  <2>1. Throw("conflict", Good + 1, FALSE) /\ frame' = NoFrame /\ storeOutcome' = storeOutcome
    BY <1>7, <1>8 DEF AfterStore
  <2> DEFINE at == Good + 1
  <2>2. /\ at \in Index /\ \A i \in Index : i < at => i \in 1..Good
        /\ \A i \in Index : i >= at => i > Good
    BY <1>3, <1>8 DEF FilterError
  <2>3. (\A i \in Index : i < at => Settled(i)) /\ (\A i \in Index : i >= at => Gone(i)')
    BY <1>5, <1>6, <2>2
  <2> DEFINE e == "conflict"
  <2>4. e \in Errors /\ e # "none" /\ FALSE \in BOOLEAN  BY DEF Errors
  <2> HIDE DEF at
  <2>5. QED  BY <1>2, <1>6, <2>1, <2>2, <2>3, <2>4, Thrown DEF at
<1>9. CASE ~FilterError
  <2>1. /\ pc' = "publish" /\ frame' = Call("publish", Prefix(Contexts))
        /\ storeOutcome' = storeOutcome /\ outcome' = outcome /\ attempt' = attempt
    BY <1>7, <1>9 DEF AfterStore
  <2>2. Good = Contexts  BY <1>3, <1>9 DEF FilterError
  <2>3. frame' \in Frames /\ frame'.target = "publish" /\ Shaped(frame)'
    <3>1. Contexts \in 0..Contexts  BY <1>3
    <3>2. QED  BY <1>2, <2>1, <3>1, PublishCall
  <2>4. /\ \A k \in Key : Placed(k)'
        /\ \A i \in Index : Whole(i) => Whole(i)'
        /\ \A i \in Index : Settled(i) => Settled(i)'
    BY <1>1, <1>2, Kept
  <2>5. \A i \in Index : Settled(i)'  BY <1>3, <1>5, <2>2, <2>4
  <2>6. \A i \in ToSet(sent)' : Whole(i)'
    <3>1. \A i \in ToSet(sent) : i \in Index  BY <1>1 DEF Types, ToSet
    <3>2. QED  BY <1>1, <1>2, <2>4, <3>1
  <2>7. Types'  BY <1>1, <1>2, <1>6, <2>1, <2>3 DEF Types
  <2>8. QED  BY <2>1, <2>3, <2>4, <2>5, <2>6, <2>7 DEF SinkInv
<1>10. QED  BY <1>8, <1>9

\* handle() after storing failed.
LEMMA AfterStoreFailed ==
    ASSUME SinkInv, pc = "store", frame.chunks # <<>>, faults' \in 0..MaxFaults,
           NEW e \in {"conflict", "other"}, AfterStore(Failure(frame, e))
    PROVE  SinkInv'
<1> DEFINE r == Failure(frame, e)
           a == Passed(frame)
<1>1. /\ Types /\ (\A k \in Key : Placed(k)) /\ (\A i \in ToSet(sent) : Whole(i))
      /\ Storing(frame) /\ Shaped(frame)
  BY DEF SinkInv
<1>2. /\ contexts' = contexts /\ events' = events /\ sinks' = sinks /\ sent' = sent
  BY DEF AfterStore
<1>3. Contexts \in Nat /\ Index = 1..Contexts /\ Good \in 0..Contexts
  BY <1>1, TypesFacts, GoodProperties
<1>4. frame \in FramesFor("store") /\ "store" \in Targets
  BY <1>1 DEF Types, Frames, FramesFor, Storing, Targets
<1>5. End(frame) = Good  BY <1>1 DEF Storing
<1>6. a \in 0..Contexts /\ a < Good
  <2>1. a \in 0..Contexts /\ a < End(frame)  BY <1>1, <1>4, Remaining
  <2>2. QED  BY <1>5, <2>1
<1>7. /\ r \in Results /\ r.error = e
      /\ r.successful = Prefix(a) /\ r.failed = Span(a, Good)
      /\ r.failed # <<>> /\ Head(r.failed) = a + 1
  <2>1. /\ r \in Results /\ r.error = e
        /\ r.successful = Prefix(a) /\ r.failed = Span(a, End(frame))
        /\ r.failed # <<>> /\ Head(r.failed) = a + 1
    BY <1>1, <1>4, FailureResult
  <2>2. QED  BY <1>5, <2>1
<1>8. AfterStore(r)  OBVIOUS
<1>9. \A i \in 1..a : Settled(i)
  <2> SUFFICES ASSUME NEW i \in 1..a PROVE Settled(i)  OBVIOUS
  <2>1. i \in 1..Good /\ i <= a  BY <1>3, <1>6
  <2>2. i <= Passed(frame)  BY <2>1
  <2>3. QED  BY <1>1, <1>4, <2>1, <2>2, PassedIsSettled
<1> HIDE DEF r, a
<1> DEFINE bad == BadContexts
           g == frame'
           o == storeOutcome'
<1>10. /\ InvalidateEpochs(bad \o (IF r.error = "conflict" THEN r.failed ELSE <<>>))
       /\ pc' = "partial" /\ g = Call("publish", r.successful)
       /\ o = [r EXCEPT !.failed = @ \o bad]
       /\ outcome' = outcome /\ attempt' = attempt
  BY <1>7, <1>8 DEF AfterStore
<1>11. bad \in Seq(Index) /\ \A i \in Index : i > Good => i \in ToSet(bad)
  BY <1>1, BadContextsProperties
<1>12. r.failed \in Seq(Index)  BY <1>7 DEF Results
<1> HIDE DEF bad
<1>13. /\ epochs' \in [Key -> Nat] /\ \A k \in Key : epochs'[k] >= 2
       /\ e = "conflict" => \A i \in Index : i >= a + 1 => Gone(i)'
  <2> DEFINE u == IF r.error = "conflict" THEN r.failed ELSE <<>>
             all == bad \o u
  <2>1. u \in Seq(Index)
    <3>1. <<>> \in Seq(Index)  OBVIOUS
    <3>2. QED  BY <1>12, <3>1
  <2>2. InvalidateEpochs(all)  BY <1>10
  <2>3. u = r.failed \/ e # "conflict"  BY <1>7
  <2> HIDE DEF u
  <2>4. all \in Seq(Index) /\ ToSet(all) = ToSet(bad) \cup ToSet(u)
    <3>1. ToSet(bad \o u) = ToSet(bad) \cup ToSet(u)  BY <1>11, <2>1, ToSetConcat
    <3>2. \A s, v \in Seq(Index) : s \o v \in Seq(Index)  OBVIOUS
    <3>3. QED  BY <1>11, <2>1, <3>1, <3>2
  <2> HIDE DEF all
  <2>5. /\ epochs' \in [Key -> Nat] /\ \A k \in Key : epochs'[k] >= 2
        /\ \A i \in ToSet(all) : Gone(i)'
    BY <1>1, <1>2, <2>2, <2>4, Invalidated
  <2>6. ASSUME e = "conflict", NEW i \in Index, i >= a + 1 PROVE i \in ToSet(all)
    <3>1. CASE i > Good  BY <1>11, <2>4, <3>1
    <3>2. CASE ~(i > Good)
      <4>1. i - a \in 1..(Good - a) /\ a + (i - a) = i  BY <1>3, <1>6, <2>6, <3>2
      <4>2. i \in ToSet(r.failed)
        <5>1. r.failed = [n \in 1..(Good - a) |-> a + n]  BY <1>7 DEF Span
        <5> DEFINE f == r.failed
        <5> HIDE DEF f
        <5>2. DOMAIN f = 1..(Good - a) /\ f[i - a] = a + (i - a)  BY <4>1, <5>1 DEF f
        <5>3. i - a \in DOMAIN f /\ f[i - a] = i  BY <4>1, <5>2
        <5>4. i \in ToSet(f)  BY <5>3 DEF ToSet
        <5>5. QED  BY <5>4 DEF f
      <4>3. QED  BY <2>3, <2>4, <2>6, <4>2
    <3>3. QED  BY <3>1, <3>2
  <2>7. QED  BY <2>5, <2>6
<1>14. /\ g \in Frames /\ g.target = "publish" /\ Shaped(frame)'
       /\ g.chunks # <<>> => End(g) = a
  <2>1. frame' = Call("publish", Prefix(a))  BY <1>7, <1>10
  <2>2. QED  BY <1>2, <1>6, <2>1, PublishCall
<1>15. o \in Results /\ o.error = e /\ o.failed # <<>> /\ Head(o.failed) = a + 1
  <2>1. o = [r EXCEPT !.failed = @ \o BadContexts]  BY <1>10 DEF bad
  <2> HIDE DEF o
  <2>2. QED  BY <1>1, <1>7, <2>1, FailedOutcome
<1>16. /\ \A k \in Key : Placed(k)'
       /\ \A i \in Index : Whole(i) => Whole(i)'
       /\ \A i \in Index : Settled(i) => Settled(i)'
  BY <1>1, <1>2, Kept
<1>17. \A i \in ToSet(sent)' : Whole(i)'
  <2>1. \A i \in ToSet(sent) : i \in Index  BY <1>1 DEF Types, ToSet
  <2>2. QED  BY <1>1, <1>2, <1>16, <2>1
<1>18. Types'  BY <1>1, <1>2, <1>10, <1>13, <1>14, <1>15 DEF Types
<1>19. Partial'
  <2>1. \A i \in Index : i < a + 1 => Settled(i)'
    <3>1. \A i \in Index : i < a + 1 => i \in 1..a  BY <1>3, <1>6
    <3>2. QED  BY <1>9, <1>16, <3>1
  <2>2. g.chunks # <<>> => End(frame)' < a + 1
    <3>1. End(frame)' = End(g)  BY DEF End
    <3>2. a < a + 1  BY <1>6, <1>3
    <3>3. QED  BY <1>14, <3>1, <3>2
  <2>3. QED  BY <1>13, <1>15, <2>1, <2>2 DEF Partial
<1>20. QED  BY <1>10, <1>14, <1>16, <1>17, <1>18, <1>19 DEF SinkInv

\* handle() searches the rest of the contexts with half the batch size.
LEMMA HalvedStep ==
    ASSUME SinkInv, pc # "done", frame.chunks # <<>>, frame.size > 1, faults' \in 0..MaxFaults,
           frame' = Halved(frame),
           UNCHANGED <<sinks, contexts, epochs, events, sent, pc, storeOutcome, outcome, attempt>>
    PROVE  SinkInv'
<1> DEFINE t == frame.target
           g == frame'
           a == Passed(frame)
           b == End(frame)
<1>1. /\ Types /\ (\A k \in Key : Placed(k)) /\ (\A i \in ToSet(sent) : Whole(i))
      /\ Shaped(frame)
  BY DEF SinkInv
<1>2. frame \in FramesFor(t) /\ t \in Targets
  <2>1. \A u \in Targets : \A f \in FramesFor(u) : f.target = u  BY DEF FramesFor
  <2>2. \E u \in Targets : frame \in FramesFor(u)  BY <1>1 DEF Types, Frames, Targets
  <2>3. QED  BY <2>1, <2>2
<1>3. g = Halved(frame)  OBVIOUS
<1> HIDE DEF g, t
<1>4. /\ g \in FramesFor(t) /\ g.target = t /\ Shaped(g)
      /\ Itemized(t, Pending(g), a, b)
      /\ g.chunks # <<>> => End(g) = b
  BY <1>1, <1>2, <1>3, HalvedFrame
<1>5. Shaped(frame)'
  <2>1. g = frame'  BY DEF g
  <2>2. QED  BY <1>4, <2>1, NewShaped
<1>6. frame' \in Frames  BY <1>2, <1>4 DEF Frames, Targets, g
<1>7. pc \in {"store", "publish", "partial"} /\ (pc = "store" <=> t = "store")
      /\ (pc = "store" => Storing(frame))
  BY <1>1, <1>2 DEF SinkInv, Types, Storing, Targets, t
<1>8. Types'  BY <1>1, <1>6 DEF Types
<1>9. /\ \A k \in Key : Placed(k)'
      /\ \A i \in Index : Whole(i) => Whole(i)'
      /\ \A i \in Index : Settled(i) => Settled(i)'
      /\ \A i \in Index : Gone(i) => Gone(i)'
  BY <1>1, Kept
<1>10. \A i \in ToSet(sent)' : Whole(i)'
  <2>1. \A i \in ToSet(sent) : i \in Index  BY <1>1 DEF Types, ToSet
  <2>2. QED  BY <1>1, <1>9, <2>1
<1>11. CASE t = "store"
  <2>1. pc = "store" /\ Storing(frame)  BY <1>7, <1>11
  <2>2. b = Good  BY <2>1 DEF Storing
  <2>3. Contexts \in Nat /\ Good \in 0..Contexts  BY <1>1, TypesFacts, GoodProperties
  <2>4. a \in 0..Good
    <3>1. a \in 0..Contexts /\ a < b  BY <1>1, <1>2, Remaining
    <3> HIDE DEF a, b
    <3>2. QED  BY <2>2, <2>3, <3>1
  <2>5. \A i \in 1..a : Settled(i)
    <3> SUFFICES ASSUME NEW i \in 1..a PROVE Settled(i)  OBVIOUS
    <3>1. i \in 1..Good /\ i <= Passed(frame)
      <4>1. i <= a  BY <2>3, <2>4
      <4>2. i \in 1..Good
        <5> HIDE DEF a
        <5>1. QED  BY <2>3, <2>4
      <4>3. QED  BY <4>1, <4>2
    <3>2. frame \in FramesFor("store")  BY <1>2, <1>11
    <3>3. QED  BY <1>1, <2>1, <3>1, <3>2, PassedIsSettled
  <2> HIDE DEF a
  <2>6. /\ g \in FramesFor("store") /\ Itemized("store", Pending(g), a, Good)
        /\ g.chunks # <<>> => End(g) = Good
    BY <1>4, <1>11, <2>2
  <2>7. Storing(g)  BY <1>1, <2>4, <2>5, <2>6, NewStoring
  <2>8. Storing(frame)'
    <3>1. g = frame'  BY DEF g
    <3>2. QED  BY <2>7, <3>1, SameStoring
  <2>9. QED  BY <1>5, <1>8, <1>9, <1>10, <2>1, <2>8 DEF SinkInv
<1>12. CASE t = "publish"
  <2>1. pc \in {"publish", "partial"} /\ frame'.target = "publish"  BY <1>4, <1>7, <1>12 DEF g
  <2>2. pc = "publish" => \A i \in Index : Settled(i)'  BY <1>9 DEF SinkInv
  <2>3. pc = "partial" => Partial'
    <3> SUFFICES ASSUME pc = "partial" PROVE Partial'  OBVIOUS
    <3>1. Partial  BY DEF SinkInv
    <3>2. End(frame)' = End(g)  BY DEF End, g
    <3>3. frame'.chunks # <<>> => End(frame)' < Head(storeOutcome'.failed)
      BY <1>4, <3>1, <3>2 DEF Partial, g
    <3>4. \A i \in Index : i < Head(storeOutcome'.failed) => Settled(i)'
      BY <1>9, <3>1 DEF Partial
    <3>5. storeOutcome'.error = "conflict" =>
             \A i \in Index : i >= Head(storeOutcome'.failed) => Gone(i)'
      BY <1>9, <3>1 DEF Partial
    <3>6. QED  BY <3>1, <3>3, <3>4, <3>5 DEF Partial
  <2>4. QED  BY <1>5, <1>8, <1>9, <1>10, <2>1, <2>2, <2>3 DEF SinkInv
<1>13. QED  BY <1>2, <1>11, <1>12 DEF Targets

\* A call of a sink fails.
LEMMA CatchStep ==
    ASSUME SinkInv, pc # "done", frame.chunks # <<>>, faults' \in 0..MaxFaults,
           NEW e \in {"conflict", "other"}, e = "conflict" => pc = "store", Catch(e)
    PROVE  SinkInv'
<1>1. Types /\ Shaped(frame)  BY DEF SinkInv
<1>2. pc \in {"store", "publish", "partial"}  BY <1>1 DEF SinkInv, Types
<1>3. CASE MayRetry(frame) /\ frame.size > 1
  <2>1. frame' = Halved(frame)
        /\ UNCHANGED <<sinks, contexts, epochs, events, sent, pc, storeOutcome, outcome, attempt>>
    BY <1>3 DEF Catch
  <2>2. QED  BY <1>3, <2>1, HalvedStep
<1>4. CASE ~(MayRetry(frame) /\ frame.size > 1)
  <2> DEFINE r == Failure(frame, e)
  <2>1. IF pc = "store" THEN AfterStore(r) ELSE AfterPublish(r)  BY <1>4 DEF Catch, After
  <2>2. CASE pc = "store"
    <3>1. AfterStore(Failure(frame, e))  BY <2>1, <2>2
    <3>2. QED  BY <2>2, <3>1, AfterStoreFailed
  <2>3. CASE pc # "store"
    <3>1. \E t \in Targets : frame \in FramesFor(t)  BY <1>1 DEF Types, Frames, Targets
    <3>2. r \in Results /\ r.error = e /\ r.failed # <<>>
      <4>1. PICK t \in Targets : frame \in FramesFor(t)  BY <3>1
      <4>2. QED  BY <1>1, <4>1, FailureResult
    <3>3. r.error # "conflict"  BY <2>3, <3>2
    <3>4. AfterPublish(r) /\ pc \in {"publish", "partial"}  BY <1>2, <2>1, <2>3
    <3> HIDE DEF r
    <3>5. QED  BY <3>2, <3>3, <3>4, AfterPublishStep
  <2>4. QED  BY <2>2, <2>3
<1>5. QED  BY <1>3, <1>4

\* A handle of the batch handler returns.
LEMMA FinishStep == SinkInv /\ Finish => SinkInv'
<1> SUFFICES ASSUME SinkInv, Finish PROVE SinkInv'  OBVIOUS
<1>1. pc \in {"store", "publish", "partial"} /\ frame.chunks = <<>> /\ After(AllDone)
      /\ faults' = faults
  BY DEF Finish
<1>2. faults' \in 0..MaxFaults  BY <1>1 DEF SinkInv, Types
<1>3. CASE pc = "store"  BY <1>1, <1>2, <1>3, AfterStoreDone DEF After
<1>4. CASE pc # "store"
  <2> DEFINE r == AllDone
  <2>1. r \in Results /\ r.error = "none"
    <3>1. <<>> \in Seq(Index)  OBVIOUS
    <3>2. QED  BY <3>1 DEF AllDone, Results, Errors
  <2>2. AfterPublish(r) /\ pc \in {"publish", "partial"}  BY <1>1, <1>4 DEF After
  <2> HIDE DEF r
  <2>3. QED  BY <1>2, <2>1, <2>2, AfterPublishStep
<1>5. QED  BY <1>3, <1>4

\* Every step keeps the invariant.
LEMMA SinkStep == SinkInv /\ [Next]_vars => SinkInv'
<1> SUFFICES ASSUME SinkInv, [Next]_vars PROVE SinkInv'  OBVIOUS
<1>1. Types  BY DEF SinkInv
<1>2. CASE Handle  BY <1>2, HandleStep
<1>3. CASE SinkChunk  BY <1>3, SinkChunkStep
<1>4. CASE Finish  BY <1>4, FinishStep
<1>5. CASE Conflict
  <2>1. /\ pc = "store" /\ frame.chunks # <<>> /\ Catch("conflict") /\ faults' = faults
    BY <1>5 DEF Conflict
  <2> DEFINE e == "conflict"
  <2>2. e \in {"conflict", "other"} /\ faults' \in 0..MaxFaults  BY <1>1, <2>1 DEF Types
  <2>3. Catch(e)  BY <2>1
  <2> HIDE DEF e
  <2>4. QED  BY <2>1, <2>2, <2>3, CatchStep
<1>6. CASE Fault
  <2>1. pc # "done" /\ frame.chunks # <<>> /\ Catch("other")  BY <1>6 DEF Fault
  <2>2. faults' \in 0..MaxFaults
    <3>1. faults \in 0..MaxFaults /\ MaxFaults \in Nat /\ faults < MaxFaults /\ faults' = faults + 1
      BY <1>1, <1>6, SinkAssumption DEF Types, Fault
    <3>2. QED  BY <3>1
  <2> DEFINE e == "other"
  <2>3. e \in {"conflict", "other"} /\ e # "conflict" /\ Catch(e)  BY <2>1
  <2> HIDE DEF e
  <2>4. QED  BY <2>1, <2>2, <2>3, CatchStep
<1>7. CASE Over \/ UNCHANGED vars
  <2>1. UNCHANGED vars  BY <1>7 DEF Over
  <2>2. /\ contexts' = contexts /\ events' = events /\ epochs' = epochs /\ sinks' = sinks
        /\ frame' = frame /\ pc' = pc /\ sent' = sent /\ storeOutcome' = storeOutcome
        /\ outcome' = outcome /\ attempt' = attempt /\ faults' = faults
    BY <2>1 DEF vars
  <2>3. Types'  BY <1>1, <2>2 DEF Types
  <2>4. /\ \A k \in Key : Placed(k)'
        /\ \A i \in Index : Whole(i) => Whole(i)'
        /\ \A i \in Index : Settled(i) => Settled(i)'
        /\ \A i \in Index : Gone(i) => Gone(i)'
    BY <2>2, Kept DEF SinkInv
  <2>5. \A i \in ToSet(sent)' : Whole(i)'
    <3>1. \A i \in ToSet(sent) : i \in Index  BY <1>1 DEF Types, ToSet
    <3>2. QED  BY <2>2, <2>4, <3>1 DEF SinkInv
  <2> DEFINE g == frame'
  <2>6. Shaped(g) /\ (pc = "store" => Storing(g))  BY <2>2 DEF SinkInv
  <2> HIDE DEF g
  <2>7. g = frame'  BY DEF g
  <2>8. Shaped(frame)'  BY <2>2, <2>6, <2>7, NewShaped
  <2>9. pc = "store" => Storing(frame)'  BY <2>2, <2>6, <2>7, SameStoring
  <2>10. pc = "partial" => Partial'
    <3> SUFFICES ASSUME pc = "partial" PROVE Partial'  OBVIOUS
    <3>1. Partial  BY DEF SinkInv
    <3>2. End(frame)' = End(frame)  BY <2>2 DEF End
    <3>3. QED  BY <2>2, <2>4, <3>1, <3>2 DEF Partial
  <2>11. pc = "done" => Concluded'
    <3> SUFFICES ASSUME pc = "done" PROVE Concluded'  OBVIOUS
    <3>1. Concluded  BY DEF SinkInv
    <3>2. Acknowledged' = Acknowledged /\ HandledAnew' = HandledAnew
      BY <2>2 DEF Acknowledged, HandledAnew
    <3>3. Acknowledged \subseteq Index /\ HandledAnew \subseteq Index
      <4>1. Contexts \in Nat /\ Index = 1..Contexts /\ outcome.at \in 1..(Contexts + 1)
        BY <1>1, TypesFacts DEF Types
      <4>2. QED  BY <4>1 DEF Acknowledged, HandledAnew
    <3>4. QED  BY <2>4, <3>1, <3>2, <3>3 DEF Concluded
  <2>12. (pc \in {"handle", "done"} => frame'.chunks = <<>>)
         /\ (pc \in {"publish", "partial"} => frame'.target = "publish")
         /\ (pc = "publish" => \A i \in Index : Settled(i)')
    BY <2>2, <2>4 DEF SinkInv
  <2>13. QED  BY <2>2, <2>3, <2>4, <2>5, <2>8, <2>9, <2>10, <2>11, <2>12 DEF SinkInv
<1>8. QED  BY <1>2, <1>3, <1>4, <1>5, <1>6, <1>7 DEF Next

\* It holds in every behaviour.
LEMMA SinkInvariant == Spec => []SinkInv
BY SinkInit, SinkStep, PTL DEF Spec

-----------------------------------------------------------------------------
(* The theorems.                                                           *)

\* Every variable keeps its type, whatever the sinks refuse or fail.
THEOREM TypeCorrect == Spec => []TypeOK
<1>1. SinkInv => TypeOK
  <2> SUFFICES ASSUME SinkInv PROVE TypeOK  OBVIOUS
  <2>1. Types  BY DEF SinkInv
  <2>2. outcome.error \in {"none", "conflict", "other"} /\ outcome.at \in 1..(Contexts + 1)
    BY <2>1 DEF Types, Errors
  <2>3. QED  BY <2>1, <2>2 DEF Types, TypeOK
<1>2. QED  BY <1>1, SinkInvariant, PTL

\* Events placed after those their states were computed from are in order.
LEMMA InOrder ==
    ASSUME Types, NEW k \in Key, Placed(k),
           NEW p \in DOMAIN events[k], NEW q \in DOMAIN events[k], p < q
    PROVE  events[k][p] <= events[k][q]
<1> DEFINE i == events[k][p]
           j == events[k][q]
<1>1. /\ Contexts \in Nat /\ Index = 1..Contexts
      /\ contexts \in Seq(ContextsOf(Key)) /\ Len(contexts) = Contexts
  BY TypesFacts DEF Types
<1>2. /\ i \in 0..Contexts /\ j \in 0..Contexts /\ p \in Nat /\ q \in Nat
      /\ p \in 1..q
  <2>1. events[k] \in Seq(0..Contexts)  BY DEF Types
  <2> DEFINE s == events[k]
             S == 0..Contexts
  <2> HIDE DEF s, S
  <2>2. \A n \in DOMAIN s : s[n] \in 0..Contexts /\ n \in Nat /\ n >= 1
    <3>1. s \in Seq(S)  BY <2>1 DEF s, S
    <3>2. DOMAIN s = 1..Len(s) /\ \A n \in 1..Len(s) : s[n] \in S  BY <3>1
    <3>3. QED  BY <3>2 DEF S
  <2>3. p \in Nat /\ q \in Nat /\ p >= 1 /\ s[p] \in 0..Contexts /\ s[q] \in 0..Contexts
    BY <2>2 DEF s
  <2>4. QED  BY <2>3 DEF s
<1>3. CASE i = 0 \/ j = 0
  <2>1. i = 0  BY <1>2, <1>3 DEF Placed
  <2> HIDE DEF i, j
  <2>2. QED  BY <1>2, <2>1 DEF i, j
<1>4. CASE i # 0 /\ j # 0
  <2>1. /\ StoredTo(contexts[i], k) > 0 /\ Linear(contexts, i, k) /\ contexts[i].base[k] < p
        /\ p <= contexts[i].base[k] + StoredTo(contexts[i], k)
    BY <1>4 DEF Placed
  <2>2. /\ StoredTo(contexts[j], k) > 0 /\ Linear(contexts, j, k) /\ contexts[j].base[k] < q
        /\ q <= contexts[j].base[k] + StoredTo(contexts[j], k)
    BY <1>4 DEF Placed
  <2> HIDE DEF i, j
  <2>3. i \in Index /\ j \in Index /\ i \in 1..Len(contexts) /\ j \in 1..Len(contexts)
    BY <1>1, <1>2, <1>4
  <2>4. /\ contexts[i].base[k] \in Nat /\ contexts[j].base[k] \in Nat
        /\ StoredTo(contexts[j], k) \in Nat
    BY <2>3, StateNumbers
  <2>5. ASSUME j < i PROVE FALSE
    <3>1. contexts[j].base[k] + StoredTo(contexts[j], k) <= contexts[i].base[k]
      BY <1>1, <2>1, <2>2, <2>3, <2>5, LinearOrder
    <3>2. QED  BY <1>2, <2>1, <2>2, <2>4, <3>1
  <2>6. i <= j  BY <1>2, <2>5
  <2>7. QED  BY <2>6 DEF i, j
<1>5. QED  BY <1>3, <1>4

\* However a batch is cut, searched and retried, no message is stored twice, and
\* each partition receives the messages in the order of the contexts.
THEOREM OnceInOrder == Spec => []StoredOnceInOrder
<1>1. SinkInv => StoredOnceInOrder
  <2> SUFFICES ASSUME SinkInv, NEW k \in Key
               PROVE  /\ \A i \in Index : Times(events[k], i) <= StoredTo(contexts[i], k)
                      /\ \A m, n \in DOMAIN events[k] : m < n => events[k][m] <= events[k][n]
    BY DEF StoredOnceInOrder
  <2>1. Types /\ Placed(k)  BY DEF SinkInv
  <2>2. QED  BY <2>1, PlacedBound, InOrder
<1>2. QED  BY <1>1, SinkInvariant, PTL

\* A context that the dispatch reports as processed has each of its messages in
\* the store.
THEOREM AllAcknowledgedIsStored == Spec => []AcknowledgedIsStored
<1>1. SinkInv => AcknowledgedIsStored
  <2> SUFFICES ASSUME SinkInv, NEW i \in Acknowledged PROVE Whole(i)
    BY DEF AcknowledgedIsStored, Whole
  <2>1. pc = "done"  BY DEF Acknowledged
  <2>2. QED  BY <2>1 DEF SinkInv, Concluded, Settled
<1>2. QED  BY <1>1, SinkInvariant, PTL

\* No message is published of a context that is not wholly in the store.
THEOREM AllPublishedIsStored == Spec => []PublishedIsStored
<1>1. SinkInv => PublishedIsStored  BY DEF SinkInv, PublishedIsStored, Whole
<1>2. QED  BY <1>1, SinkInvariant, PTL

\* A sink is never called with more items than it takes, or with items of two
\* partitions if it does not take them.
THEOREM GuaranteesHonoured == Spec => []BatchesHonourGuarantees
<1>1. SinkInv => BatchesHonourGuarantees
  <2> SUFFICES ASSUME SinkInv, frame.chunks # <<>>
               PROVE  LET b == Head(frame.chunks)
                          sink == Sink(frame.target)
                      IN  /\ sink.maxBatch > 0 => Len(b) <= sink.maxBatch
                          /\ sink.consistency = "AtomicPerPartition" =>
                                 \A m, n \in DOMAIN b : b[m].key = b[n].key
    BY DEF BatchesHonourGuarantees
  <2> DEFINE b == Head(frame.chunks)
             sink == Sink(frame.target)
             I == ItemSet(frame.target)
             size == frame.size
  <2>1. Types /\ Shaped(frame)  BY DEF SinkInv
  <2>2. frame.chunks \in Seq(Parts(sink, size, I)) /\ (sink.maxBatch > 0 => size <= sink.maxBatch)
    BY <2>1 DEF Shaped
  <2>3. b \in Parts(sink, size, I)
    <3> DEFINE P == Parts(sink, size, I)
               s == frame.chunks
    <3>1. s \in Seq(P) /\ s # <<>>  BY <2>2
    <3> HIDE DEF P, s
    <3>2. Head(s) \in P  BY <3>1
    <3>3. QED  BY <3>2 DEF P, s
  <2>4. size \in Nat /\ sink.maxBatch \in Nat
    <3>1. frame.target \in Targets /\ size \in Nat
      BY <2>1 DEF Types, Frames, FramesFor, Targets
    <3>2. Sink(frame.target) \in Guarantees  BY <2>1, <3>1, TypesFacts
    <3>3. QED  BY <3>1, <3>2 DEF Guarantees
  <2> HIDE DEF b, sink, I, size
  <2>5. b \in Seq(I) /\ Len(b) <= size /\ Uniform(sink, b)  BY <2>3 DEF Parts
  <2>6. sink.maxBatch > 0 => Len(b) <= sink.maxBatch
    <3>1. Len(b) \in Nat  BY <2>5
    <3>2. QED  BY <2>2, <2>4, <2>5, <3>1 DEF sink, size
  <2>7. QED  BY <2>5, <2>6 DEF Uniform, b, sink
<1>2. QED  BY <1>1, SinkInvariant, PTL

\* Whatever a context that will be handled anew had loaded is of an epoch that
\* has passed: the state cache drops it, and what is computed from it fails.
THEOREM AllHandledAnewIsInvalidated == Spec => []HandledAnewIsInvalidated
<1>1. SinkInv => HandledAnewIsInvalidated
  <2> SUFFICES ASSUME SinkInv, NEW i \in HandledAnew PROVE Gone(i)
    BY DEF HandledAnewIsInvalidated, Gone
  <2>1. pc = "done"  BY DEF HandledAnew
  <2>2. QED  BY <2>1 DEF SinkInv, Concluded
<1>2. QED  BY <1>1, SinkInvariant, PTL

\* All events of a context that is wholly stored, if there are any, come right
\* after those that its state was computed from.
LEMMA WholeIsCurrent ==
    ASSUME Types, NEW k \in Key, Placed(k), NEW i \in Index, StoredTo(contexts[i], k) > 0,
           Times(events[k], i) = StoredTo(contexts[i], k)
    PROVE  Current(i, k)
<1> DEFINE s == events[k]
           b == contexts[i].base[k]
           m == StoredTo(contexts[i], k)
           L == Len(s)
           P == {n \in DOMAIN s : s[n] = i}
           Q == (b + 1)..(b + m)
<1>1. Contexts \in Nat /\ i \in 1..Contexts  BY TypesFacts
<1>2. s \in Seq(0..Contexts) /\ b \in Nat /\ m \in Nat /\ m > 0  BY StateNumbers
<1>3. L \in Nat /\ DOMAIN s = 1..L /\ \A n \in 1..L : s[n] \in 0..Contexts
  <2> DEFINE S == 0..Contexts
  <2> HIDE DEF s, S
  <2>1. Len(s) \in Nat /\ DOMAIN s = 1..Len(s) /\ \A n \in 1..Len(s) : s[n] \in S
    <3>1. s \in Seq(S)  BY <1>2 DEF S
    <3>2. QED  BY <3>1
  <2>2. QED  BY <2>1 DEF S
<1>4. P \subseteq Q
  <2> SUFFICES ASSUME NEW n \in P PROVE n \in Q  OBVIOUS
  <2>1. s[n] = i /\ i # 0 /\ n \in 1..L  BY <1>1, <1>3
  <2>2. b < n /\ n <= b + m  BY <2>1 DEF Placed
  <2> HIDE DEF b, m
  <2>3. QED  BY <1>2, <1>3, <2>1, <2>2
<1>5. Cardinality(P) = m  BY DEF Times
<1>6. P = Q
  <2> HIDE DEF P, b, m
  <2>1. b + 1 \in Int /\ b + m \in Int /\ ~(b + 1 > b + m) /\ (b + m) - (b + 1) + 1 = m  BY <1>2
  <2>2. IsFiniteSet(Q) /\ Cardinality(Q) = m
    <3> DEFINE x == b + 1
               y == b + m
    <3>1. x \in Int /\ y \in Int /\ ~(x > y) /\ y - x + 1 = m  BY <2>1
    <3> HIDE DEF x, y
    <3>2. IsFiniteSet(x..y) /\ Cardinality(x..y) = IF x > y THEN 0 ELSE y - x + 1
      BY <3>1, FS_Interval
    <3>3. QED  BY <3>1, <3>2 DEF x, y
  <2> HIDE DEF Q
  <2>3. QED  BY <1>4, <1>5, <2>2, FS_Subset
<1>7. \A n \in Q : n \in 1..L /\ s[n] = i  BY <1>3, <1>6
<1>8. \A n, q \in 1..L : n < q => s[n] <= s[q]  BY <1>3, InOrder
<1> HIDE DEF s, b, m, L, P
<1>9. b + 1 \in Q /\ b + 1 \in 1..L /\ s[b + 1] = i
  <2>1. b + 1 \in Q  BY <1>2
  <2>2. QED  BY <1>7, <2>1
<1>10. ASSUME NEW n \in 1..L, s[n] < i PROVE n \in 1..b
  <2>1. n \notin Q  BY <1>1, <1>7, <1>10
  <2>2. CASE n <= b  BY <1>2, <1>3, <2>2
  <2>3. CASE n > b
    <3>1. b + 1 < n  BY <1>2, <1>3, <1>9, <2>1, <2>3
    <3>2. s[b + 1] <= s[n]  BY <1>8, <1>9, <3>1
    <3>3. s[n] \in 0..Contexts  BY <1>3
    <3>4. QED  BY <1>1, <1>9, <1>10, <3>2, <3>3
  <2>4. QED  BY <1>2, <1>3, <2>2, <2>3
<1>11. ASSUME NEW n \in 1..b PROVE n \in 1..L /\ s[n] < i
  <2>1. n \in 1..L /\ n < b + 1 /\ n \notin Q  BY <1>2, <1>3, <1>9
  <2>2. s[n] <= s[b + 1]  BY <1>8, <1>9, <2>1
  <2>3. s[n] # i  BY <1>3, <1>6, <2>1 DEF P
  <2>4. s[n] \in 0..Contexts  BY <1>3, <2>1
  <2>5. QED  BY <1>1, <1>9, <2>1, <2>2, <2>3, <2>4
<1>12. {n \in DOMAIN s : s[n] < i} = 1..b  BY <1>3, <1>10, <1>11
<1>13. QED  BY <1>12 DEF Current, s, b

\* The events before those of an acknowledged context are just the ones that
\* the states it loaded were computed from, if handlers ran one after the other:
\* also when it stored nothing to a partition it had loaded.
THEOREM AllVerifiedIsCurrent == Spec => []VerifiedIsCurrent
<1>1. SinkInv => VerifiedIsCurrent
  <2> SUFFICES ASSUME SinkInv, Serial, NEW i \in Acknowledged, NEW k \in contexts[i].loaded
               PROVE  Cardinality({n \in DOMAIN events[k] : events[k][n] < i})
                        = contexts[i].base[k]
    BY DEF VerifiedIsCurrent, LoadedIsCurrent
  <2>1. Types /\ pc = "done" /\ Settled(i)
    BY DEF SinkInv, Concluded, Acknowledged
  <2>2. i \in Index
    <3>1. Contexts \in Nat /\ Index = 1..Contexts /\ outcome.at \in 1..(Contexts + 1)
      BY <2>1, TypesFacts DEF Types
    <3>2. QED  BY <3>1 DEF Acknowledged
  <2>3. k \in Key
    <3>1. contexts[i] \in ContextsOf(Key)  BY <2>1, <2>2, TypesFacts
    <3>2. QED  BY <3>1 DEF ContextsOf
  <2>4. StoredTo(contexts[i], k) \in Nat /\ contexts[i].base[k] \in Nat
    BY <2>1, <2>2, <2>3, StateNumbers
  <2>5. Current(i, k)
    <3>1. CASE StoredTo(contexts[i], k) = 0
      <4>1. k \in OnlyLoaded(i)  BY <3>1 DEF OnlyLoaded
      <4>2. QED  BY <2>1, <4>1 DEF Settled
    <3>2. CASE StoredTo(contexts[i], k) # 0
      <4>1. StoredTo(contexts[i], k) > 0  BY <2>4, <3>2
      <4>2. Times(events[k], i) = StoredTo(contexts[i], k)  BY <2>1, <2>3 DEF Settled, Whole
      <4>3. Placed(k)  BY <2>3 DEF SinkInv
      <4>4. QED  BY <2>1, <2>2, <2>3, <4>1, <4>2, <4>3, WholeIsCurrent
    <3>3. QED  BY <3>1, <3>2
  <2>6. Cardinality(1..contexts[i].base[k]) = contexts[i].base[k]
    <3> DEFINE b == contexts[i].base[k]
    <3>1. b \in Nat  BY <2>4
    <3> HIDE DEF b
    <3>2. Cardinality(1..b) = IF 1 > b THEN 0 ELSE b - 1 + 1
      <4>1. 1 \in Int /\ b \in Int  BY <3>1
      <4>2. QED  BY <4>1, FS_Interval
    <3>3. Cardinality(1..b) = b  BY <3>1, <3>2
    <3>4. QED  BY <3>3 DEF b
  <2>7. QED  BY <2>5, <2>6 DEF Current
<1>2. QED  BY <1>1, SinkInvariant, PTL

-----------------------------------------------------------------------------
(* What is published while no sink fails of itself and handlers run one    *)
(* after the other.                                                        *)

\* A serial context has loaded what those before it have stored.
LEMMA SerialBase ==
    ASSUME Types, Serial, NEW k \in Key, NEW i \in Index
    PROVE  contexts[i].base[k] = contexts[1].base[k] + StoredBy(contexts, k)[i - 1]
<1> DEFINE N == Contexts - 1
           b == StoredBy(contexts, k)
           T == {n \in Nat : n \in 0..N => contexts[n + 1].base[k] = contexts[1].base[k] + b[n]}
<1>1. /\ Contexts \in Nat /\ Index = 1..Contexts /\ N \in Nat
      /\ contexts \in Seq(ContextsOf(Key)) /\ Len(contexts) = Contexts
  BY TypesFacts DEF Types
<1>2. /\ b[0] = 0 /\ \A n \in 1..Contexts : b[n] = b[n - 1] + StoredTo(contexts[n], k)
      /\ \A n \in 0..Contexts : b[n] \in Nat
  BY <1>1, StoredByRecursion
<1>3. \A n \in Index : contexts[n].base[k] \in Nat /\ StoredTo(contexts[n], k) \in Nat
  BY StateNumbers
<1> HIDE DEF b
<1>4. 0 \in T
  <2>1. 1 \in Index  BY <1>1
  <2>2. contexts[1].base[k] \in Nat  BY <1>3, <2>1
  <2>3. QED  BY <1>2, <2>2
<1>5. ASSUME NEW n \in 1..N, n - 1 \in T PROVE n \in T
  <2>1. n \in Index /\ n + 1 \in Index /\ n + 1 > 1 /\ (n + 1) - 1 = n /\ n - 1 \in 0..N
        /\ (n - 1) + 1 = n /\ n \in Nat /\ 1 \in Index
    BY <1>1
  <2>2. contexts[n].base[k] = contexts[1].base[k] + b[n - 1]  BY <1>5, <2>1
  <2>3. contexts[n + 1].base[k] = contexts[n].base[k] + StoredTo(contexts[n], k)
    BY <2>1 DEF Serial
  <2>4. b[n] = b[n - 1] + StoredTo(contexts[n], k) /\ b[n - 1] \in Nat  BY <1>1, <1>2, <2>1
  <2>5. contexts[1].base[k] \in Nat /\ StoredTo(contexts[n], k) \in Nat  BY <1>3, <2>1
  <2>6. contexts[n + 1].base[k] = contexts[1].base[k] + b[n]  BY <2>2, <2>3, <2>4, <2>5
  <2>7. QED  BY <2>1, <2>6
<1>6. 0..N \subseteq T
  <2> HIDE DEF N, T
  <2>1. QED  BY <1>1, <1>4, <1>5, BoundedInduction
<1>7. i - 1 \in 0..N /\ (i - 1) + 1 = i  BY <1>1
<1>8. QED  BY <1>6, <1>7 DEF b

\* Serial contexts pass the filter as long as no epoch has changed.
LEMMA SerialPasses ==
    ASSUME Types, Serial, \A k \in Key : epochs[k] = 2
    PROVE  Good = Contexts
<1>1. /\ Contexts \in Nat /\ Index = 1..Contexts /\ DOMAIN contexts = Index
      /\ contexts \in Seq(ContextsOf(Key)) /\ Len(contexts) = Contexts
  BY TypesFacts DEF Types
<1>2. \A i \in Index : contexts[i] \in ContextsOf(Key)  BY TypesFacts
<1>3. FirstStale(contexts, epochs) = Contexts + 1
  <2>1. ASSUME NEW i \in Index, NEW k \in contexts[i].loaded PROVE ~(contexts[i].epoch[k] < epochs[k])
    <3>1. k \in Key  BY <1>2 DEF ContextsOf
    <3>2. contexts[i].epoch[k] = 2 /\ epochs[k] = 2  BY <3>1 DEF Serial
    <3>3. QED  BY <3>2
  <2>2. {i \in DOMAIN contexts : \E k \in contexts[i].loaded : contexts[i].epoch[k] < epochs[k]} = {}
    BY <1>1, <2>1
  <2>3. QED  BY <1>1, <2>2 DEF FirstStale
<1>4. SubSeq(contexts, 1, (Contexts + 1) - 1) = contexts
  <2>1. (Contexts + 1) - 1 = Contexts  BY <1>1
  <2> DEFINE S == ContextsOf(Key)
             s == contexts
  <2>2. s \in Seq(S) /\ Len(s) = Contexts  BY <1>1
  <2> HIDE DEF S, s
  <2>3. SubSeq(s, 1, Contexts) = s  BY <2>2
  <2>4. QED  BY <2>1, <2>3 DEF s
<1>5. FirstNonLinear(contexts) = Contexts + 1
  <2> DEFINE before(i, k) == {j \in 1..(i - 1) : StoredTo(contexts[j], k) > 0}
             first(i, k) == CHOOSE j \in before(i, k) : \A h \in before(i, k) : j <= h
             reached(i, k) == contexts[first(i, k)].base[k] + StoredBy(contexts, k)[i - 1]
             breaks == {i \in DOMAIN contexts : \E k \in ToSet(contexts[i].stored) :
                          before(i, k) # {} /\ contexts[i].base[k] # reached(i, k)}
  <2>1. ASSUME NEW i \in Index, NEW k \in ToSet(contexts[i].stored), before(i, k) # {}
        PROVE  contexts[i].base[k] = reached(i, k)
    <3>1. k \in Key
      <4>1. contexts[i].stored \in Seq(Key)  BY <1>2 DEF ContextsOf
      <4>2. \A s \in Seq(Key) : ToSet(s) \subseteq Key  BY DEF ToSet
      <4>3. QED  BY <4>1, <4>2
    <3> DEFINE B == before(i, k)
               f == first(i, k)
    <3>2. B \in SUBSET Nat /\ B # {} /\ B \subseteq Index  BY <1>1, <2>1
    <3>3. \E n \in B : \A m \in B : n <= m
      <4> HIDE DEF B
      <4>1. QED  BY <3>2, LeastElement
    <3>4. f \in B /\ \A h \in B : f <= h
      <4>1. f = CHOOSE j \in B : \A h \in B : j <= h  OBVIOUS
      <4> HIDE DEF f, B
      <4>2. QED  BY <3>3, <4>1
    <3> HIDE DEF f
    <3>5. f \in Index /\ f \in 1..(i - 1)  BY <3>2, <3>4
    <3>6. ASSUME NEW j \in 1..(f - 1) PROVE StoredTo(contexts[j], k) = 0
      <4>1. j \in 1..(i - 1) /\ j \in Index /\ ~(f <= j)  BY <1>1, <3>5
      <4>2. j \notin B  BY <3>4, <4>1
      <4>3. ~(StoredTo(contexts[j], k) > 0)  BY <4>1, <4>2
      <4>4. StoredTo(contexts[j], k) \in Nat  BY <3>1, <4>1, StateNumbers
      <4>5. QED  BY <4>3, <4>4
    <3> DEFINE m == f - 1
    <3>7. m \in 0..Len(contexts) /\ \A j \in 1..m : StoredTo(contexts[j], k) = 0
      <4>1. m \in 0..Len(contexts)  BY <1>1, <3>5
      <4>2. QED  BY <3>6, <4>1
    <3> HIDE DEF m
    <3>8. StoredBy(contexts, k)[m] = 0  BY <1>1, <3>7, StoredByNone
    <3>9. contexts[f].base[k] = contexts[1].base[k] + StoredBy(contexts, k)[m]
      BY <3>1, <3>5, SerialBase DEF m
    <3>10. contexts[i].base[k] = contexts[1].base[k] + StoredBy(contexts, k)[i - 1]
      BY <3>1, SerialBase
    <3>11. contexts[1].base[k] \in Nat
      <4>1. 1 \in Index  BY <1>1
      <4>2. QED  BY <3>1, <4>1, StateNumbers
    <3>12. contexts[f].base[k] = contexts[1].base[k]  BY <3>8, <3>9, <3>11
    <3>13. reached(i, k) = contexts[f].base[k] + StoredBy(contexts, k)[i - 1]  BY DEF f
    <3>14. QED  BY <3>10, <3>12, <3>13
  <2>2. breaks = {}  BY <1>1, <2>1
  <2>3. FirstNonLinear(contexts)
          = IF breaks = {} THEN Len(contexts) + 1 ELSE CHOOSE i \in breaks : \A j \in breaks : i <= j
    BY DEF FirstNonLinear
  <2> HIDE DEF breaks
  <2>4. QED  BY <1>1, <2>2, <2>3
<1>6. Good = (Contexts + 1) - 1  BY <1>3, <1>4, <1>5 DEF Good
<1>7. QED  BY <1>1, <1>6

\* What a call for the publish sink has to send.
LEMMA PublishCallSends ==
    ASSUME SinkInv, NEW b \in 0..Contexts, frame' = Call("publish", Prefix(b)),
           contexts' = contexts, sent' = sent, NEW i \in 1..b
    PROVE  Publishing(i)'
<1>1. Types /\ "publish" \in Targets  BY DEF SinkInv, Targets
<1> DEFINE g == frame'
<1>2. g = Call("publish", Prefix(b))  OBVIOUS
<1> HIDE DEF g
<1>3. Itemized("publish", Pending(g), 0, b)  BY <1>1, <1>2, CallFrame
<1>4. i \in Index /\ 0 < i /\ i <= b  BY <1>1, TypesFacts
<1>5. Occurs(Pending(g), Sends(i)) = Len(contexts[i].published)  BY <1>3, <1>4 DEF Itemized
<1>6. Pending(frame)' = Pending(g)  BY DEF Pending, g
<1>7. Times(sent, i) \in Nat
  <2>1. sent \in Seq(Index)  BY <1>1 DEF Types
  <2>2. QED  BY <2>1, TimesOccurs
<1>8. Len(contexts[i].published) \in Nat
  <2>1. contexts[i] \in ContextsOf(Key)  BY <1>1, <1>4, TypesFacts
  <2>2. contexts[i].published \in Seq(Key)  BY <2>1 DEF ContextsOf
  <2>3. \A s \in Seq(Key) : Len(s) \in Nat  OBVIOUS
  <2>4. QED  BY <2>2, <2>3
<1> DEFINE x == Times(sent, i)
           y == Len(contexts[i].published)
<1>9. x + y >= y
  <2> HIDE DEF x, y
  <2>1. x \in Nat /\ y \in Nat  BY <1>7, <1>8 DEF x, y
  <2>2. QED  BY <2>1
<1>10. QED  BY <1>5, <1>6, <1>9 DEF Publishing

\* What is sent is no longer pending.
LEMMA ChunkPublished ==
    ASSUME SinkInv, SinkChunk, frame.target = "publish", NEW i \in Index, Publishing(i)
    PROVE  Publishing(i)'
<1> DEFINE c == Head(frame.chunks)
           g == [frame EXCEPT !.chunks = Tail(@), !.completed = @ + CompletedBy(c)]
           I == ItemSet("publish")
           ctxs == [n \in DOMAIN c |-> c[n].ctx]
           P == Sends(i)
<1>1. /\ Types /\ Shaped(frame) /\ frame.chunks # <<>> /\ sent \in Seq(Index)
  BY DEF SinkInv, SinkChunk, Types
<1>2. frame' = g /\ contexts' = contexts /\ sent' = sent \o ctxs  BY DEF SinkChunk, Apply
<1>3. frame \in FramesFor("publish") /\ "publish" \in Targets
  BY SMTT(30), <1>1 DEF Types, Frames, FramesFor, Targets
<1>4. c \in Seq(I) /\ Pending(g) \in Seq(I) /\ Pending(frame) = c \o Pending(g)
  BY Zenon, <1>1, <1>3, ChunkTaken
<1>5. Pending(frame)' = Pending(g)  BY <1>2 DEF Pending
<1> DEFINE u == Pending(g)
<1> HIDE DEF c, u, I
<1>6. \A n \in DOMAIN c : c[n] \in I /\ c[n].ctx \in Index
  <2>1. \A n \in DOMAIN c : c[n] \in I  BY <1>4
  <2>2. \A x \in I : x.ctx \in Index  BY DEF I, ItemSet
  <2>3. QED  BY <2>1, <2>2
<1>7. ctxs \in Seq(Index) /\ Times(ctxs, i) = Occurs(c, P)
  <2> DEFINE N == Len(c)
  <2>1. N \in Nat /\ DOMAIN c = 1..N  BY <1>4
  <2>2. ctxs = [n \in 1..N |-> c[n].ctx] /\ \A n \in 1..N : c[n].ctx \in Index  BY <1>6, <2>1
  <2>3. {n \in DOMAIN ctxs : ctxs[n] = i} = {n \in DOMAIN c : c[n] \in P}
    BY <1>6 DEF Sends, I
  <2>4. Times(ctxs, i) = Occurs(c, P)  BY <2>3 DEF Times, Occurs
  <2> HIDE DEF N, ctxs
  <2>5. ctxs \in Seq(Index)  BY <2>1, <2>2
  <2>6. QED  BY <2>4, <2>5
<1> HIDE DEF ctxs, P
<1>8. Occurs(c \o u, P) = Occurs(c, P) + Occurs(u, P)  BY <1>4, OccursConcat DEF u
<1>9. Times(sent \o ctxs, i) = Times(sent, i) + Times(ctxs, i)
  <2>1. Occurs(sent \o ctxs, {i}) = Occurs(sent, {i}) + Occurs(ctxs, {i})
    BY <1>1, <1>7, OccursConcat
  <2>2. Times(sent, i) = Occurs(sent, {i}) /\ Times(ctxs, i) = Occurs(ctxs, {i})
    BY <1>1, <1>7, TimesOccurs
  <2>3. \A s, v \in Seq(Index) : s \o v \in Seq(Index)  OBVIOUS
  <2>4. Times(sent \o ctxs, i) = Occurs(sent \o ctxs, {i})  BY <1>1, <1>7, <2>3, TimesOccurs
  <2>5. QED  BY <2>1, <2>2, <2>4
<1>10. Times(sent, i) \in Nat /\ Occurs(c, P) \in Nat /\ Occurs(u, P) \in Nat
  <2>1. Times(sent, i) \in Nat  BY <1>1, TimesOccurs
  <2>2. Occurs(c, P) \in 0..Len(c)  BY <1>4, OccursBounds
  <2>3. u \in Seq(I)  BY <1>4 DEF u
  <2>4. Occurs(u, P) \in 0..Len(u)  BY <2>3, OccursBounds
  <2>5. QED  BY <2>1, <2>2, <2>4
<1>11. Times(sent \o ctxs, i) + Occurs(u, P) = Times(sent, i) + Occurs(c \o u, P)
  BY <1>7, <1>8, <1>9, <1>10
<1>12. Times(sent, i) + Occurs(c \o u, P) >= Len(contexts[i].published)
  BY <1>4 DEF Publishing, P, u
<1>13. Times(sent \o ctxs, i) + Occurs(u, P) >= Len(contexts[i].published)  BY <1>11, <1>12
<1>14. QED  BY <1>2, <1>5, <1>13 DEF Publishing, P, u

\* Once nothing is pending, all has been sent.
LEMMA AllSent ==
    ASSUME SinkInv, frame.chunks = <<>>, NEW i \in Index, Publishing(i)
    PROVE  Times(sent, i) >= Len(contexts[i].published)
<1>1. sent \in Seq(Index)  BY DEF SinkInv, Types
<1>2. Times(sent, i) \in Nat  BY <1>1, TimesOccurs
<1>3. Occurs(Pending(frame), Sends(i)) = 0
  <2>1. Pending(frame) = <<>>
    <3>1. <<>> \in Seq(Seq(Index))  OBVIOUS
    <3>2. QED  BY <3>1, FlattenType DEF Pending
  <2>2. <<>> \in Seq(Index)  OBVIOUS
  <2>3. Occurs(<<>>, Sends(i)) \in 0..Len(<<>>)  BY <2>2, OccursBounds
  <2>4. QED  BY <2>1, <2>3
<1>4. QED  BY <1>2, <1>3 DEF Publishing

\* What is known of publishing holds at first,
LEMMA PublishInit == Init => PublishInv
<1> SUFFICES ASSUME Init PROVE PublishInv  OBVIOUS
<1>1. pc = "handle" /\ epochs = [k \in Key |-> 2]  BY DEF Init
<1>2. AcknowledgedIsPublished  BY <1>1 DEF AcknowledgedIsPublished, Acknowledged
<1>3. QED  BY <1>1, <1>2 DEF PublishInv

\* and every step keeps it.
LEMMA PublishStep == SinkInv /\ PublishInv /\ [Next]_vars => PublishInv'
<1> SUFFICES ASSUME SinkInv, PublishInv, [Next]_vars, Serial', faults' = 0
             PROVE  /\ pc' = "handle" => \A k \in Key : epochs'[k] = 2
                    /\ pc' = "store" => Good' = Contexts
                    /\ pc' = "publish" => \A i \in Index : Publishing(i)'
                    /\ pc' = "partial" =>
                          /\ storeOutcome'.error = "conflict"
                          /\ \A i \in 1..(Head(storeOutcome'.failed) - 1) : Publishing(i)'
                    /\ AcknowledgedIsPublished'
  BY DEF PublishInv
<1>1. /\ Types /\ Shaped(frame)
      /\ Contexts \in Nat /\ Index = 1..Contexts
  BY TypesFacts DEF SinkInv
<1>2. pc' # "done" => AcknowledgedIsPublished'  BY DEF AcknowledgedIsPublished, Acknowledged
<1>3. contexts' = contexts
  BY DEF Next, Handle, SinkChunk, Finish, Conflict, Fault, Over, vars, Catch, After, AfterStore,
         AfterPublish
<1>4. Serial  BY <1>3 DEF Serial
<1>5. faults \in Nat  BY <1>1, SinkAssumption DEF Types
<1>7. CASE Handle
  <2>1. pc = "handle" /\ pc' = "store" /\ epochs' = epochs /\ faults = 0  BY <1>7 DEF Handle
  <2>2. \A k \in Key : epochs[k] = 2  BY <1>4, <2>1 DEF PublishInv
  <2>3. Good = Contexts  BY <1>1, <1>4, <2>2, SerialPasses
  <2>4. Good' = Contexts  BY <1>3, <2>1, <2>3 DEF Good
  <2>5. QED  BY <1>2, <2>1, <2>4
<1>8. CASE SinkChunk
  <2>1. /\ pc' = pc /\ epochs' = epochs /\ faults = 0 /\ storeOutcome' = storeOutcome
        /\ frame.chunks # <<>>
    BY <1>8 DEF SinkChunk
  <2>2. pc \in {"store", "publish", "partial"}  BY <1>1, <2>1 DEF SinkInv, Types
  <2>3. pc = "store" => Good' = Contexts  BY <1>3, <1>4, <2>1 DEF PublishInv, Good
  <2>4. ASSUME pc \in {"publish", "partial"}, NEW i \in Index, Publishing(i) PROVE Publishing(i)'
    <3>1. frame.target = "publish"  BY <2>4 DEF SinkInv
    <3>2. QED  BY <1>8, <2>4, <3>1, ChunkPublished
  <2>5. pc = "publish" => \A i \in Index : Publishing(i)'
    BY <1>4, <2>1, <2>4 DEF PublishInv
  <2>6. pc = "partial" => /\ storeOutcome'.error = "conflict"
                          /\ \A i \in 1..(Head(storeOutcome'.failed) - 1) : Publishing(i)'
    <3> SUFFICES ASSUME pc = "partial"
                 PROVE  /\ storeOutcome'.error = "conflict"
                        /\ \A i \in 1..(Head(storeOutcome'.failed) - 1) : Publishing(i)'
      OBVIOUS
    <3>1. /\ storeOutcome.error = "conflict"
          /\ \A i \in 1..(Head(storeOutcome.failed) - 1) : Publishing(i)
      BY <1>4, <2>1 DEF PublishInv
    <3>2. \A i \in 1..(Head(storeOutcome.failed) - 1) : i \in Index
      <4>1. storeOutcome.failed \in Seq(Index) /\ storeOutcome.failed # <<>>
        BY <1>1 DEF SinkInv, Partial, Types, Results
      <4>2. \A s \in Seq(Index) : s # <<>> => Head(s) \in Index  OBVIOUS
      <4>3. Head(storeOutcome.failed) \in Index  BY <4>1, <4>2
      <4>4. QED  BY <1>1, <4>3
    <3>3. QED  BY <2>1, <2>4, <3>1, <3>2
  <2>7. QED  BY <1>2, <2>1, <2>2, <2>3, <2>5, <2>6
<1>9. CASE Finish
  <2>1. /\ pc \in {"store", "publish", "partial"} /\ frame.chunks = <<>> /\ After(AllDone)
        /\ faults = 0
    BY <1>9 DEF Finish
  <2>2. AllDone.error = "none"  BY DEF AllDone
  <2>3. CASE pc = "store"
    <3>1. Good = Contexts  BY <1>4, <2>1, <2>3 DEF PublishInv
    <3>2. ~FilterError  BY <1>1, <3>1 DEF FilterError
    <3>3. pc' = "publish" /\ frame' = Call("publish", Prefix(Contexts)) /\ sent' = sent
      BY <2>1, <2>2, <2>3, <3>2 DEF After, AfterStore
    <3>4. Contexts \in 0..Contexts  BY <1>1
    <3> DEFINE b == Contexts
    <3>5. \A i \in 1..b : Publishing(i)'
      <4>1. b \in 0..Contexts /\ frame' = Call("publish", Prefix(b))  BY <3>3, <3>4
      <4> HIDE DEF b
      <4>2. QED  BY <1>3, <3>3, <4>1, PublishCallSends
    <3>6. QED  BY <1>1, <1>2, <3>3, <3>5
  <2>4. CASE pc = "publish"
    <3>1. pc' = "done" /\ sent' = sent  BY <2>1, <2>2, <2>4 DEF After, AfterPublish, Return
    <3>2. \A i \in Index : Times(sent, i) >= Len(contexts[i].published)
      BY <1>4, <2>1, <2>4, AllSent DEF PublishInv
    <3>3. Acknowledged' \subseteq Index
      <4>1. outcome' = [error |-> "none", at |-> Contexts + 1]
        BY <2>1, <2>2, <2>4 DEF After, AfterPublish, Return
      <4>2. QED  BY <4>1 DEF Acknowledged
    <3>4. AcknowledgedIsPublished'  BY <1>3, <3>1, <3>2, <3>3 DEF AcknowledgedIsPublished
    <3>5. QED  BY <3>1, <3>4
  <2>5. CASE pc = "partial"
    <3> DEFINE at == Head(storeOutcome.failed)
    <3>1. /\ storeOutcome.error = "conflict" /\ \A i \in 1..(at - 1) : Publishing(i)
      BY <1>4, <2>1, <2>5 DEF PublishInv
    <3>2. at \in Index
      <4>1. storeOutcome.failed \in Seq(Index) /\ storeOutcome.failed # <<>>
        BY <1>1, <2>5 DEF SinkInv, Partial, Types, Results
      <4>2. \A s \in Seq(Index) : s # <<>> => Head(s) \in Index  OBVIOUS
      <4>3. QED  BY <4>1, <4>2
    <3>3. /\ Throw("conflict", at, storeOutcome.retryable) /\ sent' = sent
      BY <2>1, <2>5, <3>1 DEF After, AfterPublish
    <3> HIDE DEF at
    <3>4. pc' = "done" /\ outcome' = [error |-> "conflict", at |-> at]  BY <3>3 DEF Throw
    <3>5. Acknowledged' = 1..(at - 1)  BY <3>4 DEF Acknowledged
    <3>6. \A i \in 1..(at - 1) : i \in Index  BY <1>1, <3>2
    <3>7. \A i \in 1..(at - 1) : Times(sent, i) >= Len(contexts[i].published)
      BY <2>1, <3>1, <3>6, AllSent
    <3>8. AcknowledgedIsPublished'  BY <1>3, <3>3, <3>5, <3>7 DEF AcknowledgedIsPublished
    <3>9. QED  BY <3>4, <3>8
  <2>6. QED  BY <2>1, <2>3, <2>4, <2>5
<1>10. CASE Conflict
  <2>1. /\ pc = "store" /\ frame.chunks # <<>> /\ Catch("conflict") /\ faults = 0
    BY <1>10 DEF Conflict
  <2>2. Good = Contexts  BY <1>4, <2>1 DEF PublishInv
  <2>3. CASE MayRetry(frame) /\ frame.size > 1
    <3>1. pc' = "store" /\ epochs' = epochs  BY <2>1, <2>3 DEF Catch
    <3>2. Good' = Contexts  BY <1>3, <2>2, <3>1 DEF Good
    <3>3. QED  BY <1>2, <3>1, <3>2
  <2>4. CASE ~(MayRetry(frame) /\ frame.size > 1)
    <3> DEFINE e == "conflict"
               r == Failure(frame, e)
               a == Passed(frame)
               o == storeOutcome'
    <3>1. AfterStore(r)  BY <2>1, <2>4 DEF Catch, After
    <3>2. frame \in FramesFor("store") /\ "store" \in Targets
      BY <1>1, <2>1 DEF SinkInv, Storing, Types, Frames, FramesFor, Targets
    <3>3. e \in {"conflict", "other"}  OBVIOUS
    <3>4. /\ r \in Results /\ r.error = "conflict" /\ r.successful = Prefix(a)
          /\ r.failed # <<>> /\ Head(r.failed) = a + 1 /\ a \in 0..Contexts
      <4> HIDE DEF e
      <4>1. /\ r \in Results /\ r.error = e /\ r.successful = Prefix(a)
            /\ r.failed # <<>> /\ Head(r.failed) = a + 1
        BY <1>1, <2>1, <3>2, <3>3, FailureResult
      <4>2. a \in 0..Contexts  BY <1>1, <2>1, <3>2, Remaining
      <4>3. QED  BY <4>1, <4>2 DEF e
    <3> HIDE DEF r, a
    <3>5. /\ pc' = "partial" /\ frame' = Call("publish", Prefix(a)) /\ sent' = sent
          /\ o = [r EXCEPT !.failed = @ \o BadContexts]
      BY <3>1, <3>4 DEF AfterStore
    <3> HIDE DEF o
    <3>6. o.error = "conflict" /\ Head(o.failed) = a + 1
      BY <1>1, <3>4, <3>5, FailedOutcome
    <3>7. \A i \in 1..a : Publishing(i)'  BY <1>3, <3>4, <3>5, PublishCallSends
    <3>8. (a + 1) - 1 = a  BY <1>1, <3>4
    <3>9. QED  BY <1>2, <3>5, <3>6, <3>7, <3>8 DEF o
  <2>5. QED  BY <2>3, <2>4
<1>11. CASE Fault
  <2>1. faults' = faults + 1  BY <1>11 DEF Fault
  <2>2. QED  BY <1>5, <2>1
<1>12. CASE Over \/ UNCHANGED vars
  <2>1. /\ pc' = pc /\ epochs' = epochs /\ faults' = faults /\ storeOutcome' = storeOutcome
        /\ sent' = sent /\ frame' = frame /\ outcome' = outcome
    BY <1>12 DEF Over, vars
  <2>2. \A i : Publishing(i)' <=> Publishing(i)  BY <1>3, <2>1 DEF Publishing, Pending
  <2>3. AcknowledgedIsPublished' <=> AcknowledgedIsPublished
    BY <1>3, <2>1 DEF AcknowledgedIsPublished, Acknowledged
  <2>4. Good' = Good  BY <1>3, <2>1 DEF Good
  <2>5. QED  BY <1>4, <2>1, <2>2, <2>3, <2>4 DEF PublishInv
<1>13. QED  BY <1>7, <1>8, <1>9, <1>10, <1>11, <1>12 DEF Next

\* Unless a sink fails of itself, a serial context reported as processed has had
\* all its messages published, also if a later one met a conflict.
THEOREM AllSerialIsPublished == Spec => []SerialIsPublished
<1>1. PublishInv => SerialIsPublished
  BY DEF PublishInv, SerialIsPublished, AcknowledgedIsPublished
<1>2. SinkInv /\ [Next]_vars /\ PublishInv => PublishInv'  BY PublishStep
<1>3. QED  BY <1>1, <1>2, PublishInit, SinkInvariant, PTL DEF Spec

\* A call of the store leaves a context untouched that has no item in it.
LEMMA UntouchedByChunk ==
    ASSUME Types, NEW c \in Seq(ItemSet("store")), events' = [k \in Key |-> Extended(c, k)],
           NEW i \in Index, Untouched(i), \A n \in DOMAIN c : c[n].ctx # i
    PROVE  Untouched(i)'
<1> SUFFICES ASSUME NEW k \in Key PROVE Times(events'[k], i) = 0  BY DEF Untouched
<1>1. Times(Extended(c, k), i) = Times(events[k], i) + Occurs(c, Adds(i, k))
  BY ExtendedProperties
<1>2. Occurs(c, Adds(i, k)) = 0
  <2> DEFINE P == Adds(i, k)
  <2>1. \A n \in DOMAIN c : c[n] \notin P  BY DEF Adds
  <2> HIDE DEF P
  <2>2. Occurs(c, P) = 0  BY <2>1, OccursBounds
  <2>3. QED  BY <2>2 DEF P
<1>3. Times(events[k], i) = 0  BY DEF Untouched
<1>4. events'[k] = Extended(c, k)  OBVIOUS
<1>5. QED  BY <1>1, <1>2, <1>3, <1>4

\* The rest of a frame whose contexts have one item each.
LEMMA OneEachTaken ==
    ASSUME Types, frame \in FramesFor("store"), Shaped(frame), frame.chunks # <<>>,
           OneEach(frame),
           NEW g, g = [frame EXCEPT !.chunks = Tail(@),
                                    !.completed = @ + CompletedBy(Head(frame.chunks))]
    PROVE  /\ Passed(g) = Passed(frame) + Len(Head(frame.chunks))
           /\ \A n \in DOMAIN Head(frame.chunks) :
                 Head(frame.chunks)[n].ctx <= Passed(g) /\ Head(frame.chunks)[n].ctx <= End(frame)
           /\ \A n \in DOMAIN Pending(g) : Pending(g)[n].ctx = Passed(g) + n /\ Pending(g)[n].last
<1> DEFINE I == ItemSet("store")
           c == Head(frame.chunks)
           u == Pending(g)
           p == Passed(frame)
<1>1. "store" \in Targets  BY DEF Targets
<1>2. c \in Seq(I) /\ u \in Seq(I) /\ Pending(frame) = c \o u  BY Zenon, <1>1, ChunkTaken
<1>3. frame.completed \in Nat /\ Len(frame.done) \in Nat  BY DEF FramesFor
<1> HIDE DEF u, c, I
<1>4. /\ Len(c) \in Nat /\ DOMAIN c = 1..Len(c) /\ Len(u) \in Nat /\ DOMAIN u = 1..Len(u)
      /\ DOMAIN (c \o u) = 1..(Len(c) + Len(u))
      /\ \A n \in 1..Len(c) : (c \o u)[n] = c[n]
      /\ \A n \in 1..Len(u) : (c \o u)[Len(c) + n] = u[n]
  BY <1>2
<1>5. \A n \in DOMAIN (c \o u) : (c \o u)[n].ctx = p + n /\ (c \o u)[n].last
  BY <1>2 DEF OneEach
<1>6. p \in Nat  BY <1>3 DEF Passed
<1> HIDE DEF p
<1>7. \A n \in 1..Len(c) : c[n].ctx = p + n /\ c[n].last
  <2> SUFFICES ASSUME NEW n \in 1..Len(c) PROVE c[n].ctx = p + n /\ c[n].last  OBVIOUS
  <2>1. n \in 1..(Len(c) + Len(u))  BY <1>4
  <2>2. QED  BY <1>4, <1>5, <2>1
<1>8. CompletedBy(c) = Len(c)
  <2>1. {n \in DOMAIN c : c[n].last} = 1..Len(c)  BY <1>4, <1>7
  <2>2. \A h \in Nat : Cardinality(1..h) = h  BY FS_Interval
  <2>3. QED  BY <1>4, <2>1, <2>2 DEF CompletedBy
<1>9. Passed(g) = p + Len(c)
  <2>1. g.done = frame.done /\ g.completed = frame.completed + CompletedBy(c)
    BY DEF FramesFor, c
  <2>2. QED  BY <1>3, <1>4, <1>8, <2>1 DEF Passed, p
<1>10. \A n \in 1..Len(c) : c[n].ctx <= Passed(g)  BY <1>4, <1>6, <1>7, <1>9
<1>11. \A n \in 1..Len(c) : c[n].ctx <= End(frame)
  <2> SUFFICES ASSUME NEW n \in 1..Len(c) PROVE c[n].ctx <= End(frame)  OBVIOUS
  <2>1. n \in DOMAIN Pending(frame) /\ Pending(frame)[n] = c[n]
    <3>1. n \in 1..(Len(c) + Len(u))  BY <1>4
    <3>2. QED  BY <1>2, <1>4, <3>1
  <2>2. QED  BY <2>1 DEF Shaped, Ordered
<1>12. \A n \in 1..Len(u) : u[n].ctx = Passed(g) + n /\ u[n].last
  <2> SUFFICES ASSUME NEW n \in 1..Len(u) PROVE u[n].ctx = Passed(g) + n /\ u[n].last  OBVIOUS
  <2>1. Len(c) + n \in 1..(Len(c) + Len(u)) /\ p + (Len(c) + n) = (p + Len(c)) + n  BY <1>4, <1>6
  <2>2. QED  BY <1>4, <1>5, <1>9, <2>1
<1>13. QED  BY SMTT(30), <1>4, <1>9, <1>10, <1>11, <1>12 DEF c, u, p

\* A frame that starts after the contexts that passed.
LEMMA OneEachFrame ==
    ASSUME NoneIsCut, NEW a, NEW b, NEW g \in FramesFor("store"),
           Itemized("store", Pending(g), a, b), Passed(g) = a,
           \A i \in Index : i > a => Untouched(i)
    PROVE  OneEach(g)
BY DEF Itemized, OneEach

\* That nothing is left behind holds at first,
LEMMA AbsentInit == Init => AbsentInv
<1> SUFFICES ASSUME Init PROVE AbsentInv  OBVIOUS
<1>1. pc = "handle"  BY DEF Init
<1>2. ASSUME NEW i \in Index, NEW k \in Key PROVE Times(events[k], i) = 0
  <2>1. PICK ext \in [Key -> 0..External] : events = [j \in Key |-> [n \in 1..ext[j] |-> 0]]
    BY DEF Init
  <2>2. i # 0
    <3>1. Contexts \in Nat  BY SinkAssumption
    <3>2. QED  BY <3>1 DEF Index
  <2>3. {n \in DOMAIN events[k] : events[k][n] = i} = {}  BY <2>1, <2>2
  <2>4. QED  BY <2>3, FS_EmptySet DEF Times
<1>3. HandledAnewIsAbsent  BY <1>1 DEF HandledAnewIsAbsent, HandledAnew
<1>4. QED  BY <1>1, <1>2, <1>3 DEF AbsentInv, Untouched

\* and every step keeps it.
LEMMA AbsentStep == SinkInv /\ AbsentInv /\ [Next]_vars => AbsentInv'
<1> SUFFICES ASSUME SinkInv, AbsentInv, [Next]_vars, NoneIsCut', faults' = 0
             PROVE  /\ pc' = "handle" => \A i \in Index : Untouched(i)'
                    /\ pc' = "store" => \A i \in Index : i > Good' => Untouched(i)'
                    /\ pc' = "store" /\ frame'.chunks # <<>> => OneEach(frame)'
                    /\ pc' = "partial" =>
                          /\ storeOutcome'.error = "conflict"
                          /\ \A i \in Index : i >= Head(storeOutcome'.failed) => Untouched(i)'
                    /\ HandledAnewIsAbsent'
  BY DEF AbsentInv
<1>1. /\ Types /\ Shaped(frame) /\ "store" \in Targets
      /\ Contexts \in Nat /\ Index = 1..Contexts
  BY TypesFacts DEF SinkInv, Targets
<1>2. contexts' = contexts
  BY DEF Next, Handle, SinkChunk, Finish, Conflict, Fault, Over, vars, Catch, After, AfterStore,
         AfterPublish
<1>3. NoneIsCut  BY <1>2 DEF NoneIsCut, StoreItems
<1>4. faults \in Nat  BY <1>1, SinkAssumption DEF Types
<1>5. pc' # "done" => HandledAnewIsAbsent'  BY DEF HandledAnewIsAbsent, HandledAnew
<1>6. events' = events => \A i : Untouched(i) => Untouched(i)'  BY DEF Untouched
\* A frame for the contexts after a, of which nothing is stored.
<1>7. ASSUME NEW a, NEW b, frame' \in FramesFor("store"), events' = events,
             Itemized("store", Pending(frame'), a, b), Passed(frame') = a,
             \A i \in Index : i > a => Untouched(i)
      PROVE  OneEach(frame)'
  <2> DEFINE g == frame'
  <2>1. g \in FramesFor("store") /\ Itemized("store", Pending(g), a, b) /\ Passed(g) = a
    BY <1>7
  <2>2. g = frame'  OBVIOUS
  <2> HIDE DEF g
  <2>3. OneEach(g)  BY <1>3, <1>7, <2>1, OneEachFrame
  <2>4. QED  BY <1>6, <1>7, <2>2, <2>3 DEF OneEach, Passed, Pending
<1>8. CASE Handle
  <2>1. /\ pc = "handle" /\ pc' = "store" /\ epochs' = epochs /\ events' = events /\ faults = 0
        /\ frame' = Call("store", Prefix(Good))
    BY <1>8 DEF Handle
  <2>2. \A i \in Index : Untouched(i)  BY <1>3, <2>1 DEF AbsentInv
  <2>3. Good \in 0..Contexts  BY <1>1, GoodProperties
  <2>4. frame' \in FramesFor("store") /\ Itemized("store", Pending(frame'), 0, Good)
    <3> DEFINE g == frame'
               b == Good
    <3>1. g = Call("store", Prefix(b)) /\ b \in 0..Contexts  BY <2>1, <2>3
    <3> HIDE DEF g, b
    <3>2. g \in FramesFor("store") /\ Itemized("store", Pending(g), 0, b)
      BY <1>1, <3>1, CallFrame
    <3>3. QED  BY <3>2 DEF g, b
  <2>5. Passed(frame') = 0
    <3>1. frame'.done = <<>> /\ frame'.completed = 0  BY <2>1 DEF Call, Frame
    <3>2. QED  BY <3>1 DEF Passed
  <2>6. OneEach(frame)'
    <3> DEFINE b == Good
    <3> HIDE DEF b
    <3>1. Itemized("store", Pending(frame'), 0, b)  BY <2>4 DEF b
    <3>2. QED  BY <1>7, <2>1, <2>2, <2>4, <2>5, <3>1
  <2>7. QED  BY <1>5, <1>6, <2>1, <2>2, <2>6
<1>9. CASE SinkChunk
  <2> DEFINE c == Head(frame.chunks)
             g == [frame EXCEPT !.chunks = Tail(@), !.completed = @ + CompletedBy(c)]
  <2>1. /\ pc' = pc /\ epochs' = epochs /\ faults = 0 /\ storeOutcome' = storeOutcome
        /\ frame.chunks # <<>> /\ frame' = g /\ outcome' = outcome
        /\ IF frame.target = "store" THEN events' = [k \in Key |-> Extended(c, k)]
                                     ELSE events' = events
    BY <1>9 DEF SinkChunk, Apply
  <2>2. pc \in {"store", "publish", "partial"}  BY <1>1, <2>1 DEF SinkInv, Types
  <2>3. CASE pc # "store"
    <3>1. frame.target = "publish"  BY <2>2, <2>3 DEF SinkInv
    <3>2. events' = events  BY <2>1, <3>1
    <3>3. QED  BY <1>3, <1>5, <1>6, <2>1, <2>2, <2>3, <3>2 DEF AbsentInv
  <2>4. CASE pc = "store"
    <3>1. /\ Storing(frame) /\ frame.target = "store" /\ OneEach(frame) /\ End(frame) = Good
          /\ \A i \in Index : i > Good => Untouched(i)
      BY <1>3, <2>1, <2>4 DEF SinkInv, Storing, AbsentInv
    <3>2. frame \in FramesFor("store") /\ events' = [k \in Key |-> Extended(c, k)]
      BY <1>1, <2>1, <3>1 DEF Types, Frames, FramesFor
    <3>3. /\ Passed(g) = Passed(frame) + Len(c)
          /\ \A n \in DOMAIN c : c[n].ctx <= Passed(g) /\ c[n].ctx <= End(frame)
          /\ \A n \in DOMAIN Pending(g) : Pending(g)[n].ctx = Passed(g) + n /\ Pending(g)[n].last
      <4> DEFINE h == g
      <4> HIDE DEF h
      <4>1. h = [frame EXCEPT !.chunks = Tail(@), !.completed = @ + CompletedBy(Head(frame.chunks))]
        BY DEF h
      <4>2. /\ Passed(h) = Passed(frame) + Len(Head(frame.chunks))
            /\ \A n \in DOMAIN Head(frame.chunks) :
                  /\ Head(frame.chunks)[n].ctx <= Passed(h)
                  /\ Head(frame.chunks)[n].ctx <= End(frame)
            /\ \A n \in DOMAIN Pending(h) :
                  Pending(h)[n].ctx = Passed(h) + n /\ Pending(h)[n].last
        BY SMTT(30), <1>1, <2>1, <3>1, <3>2, <4>1, OneEachTaken
      <4>3. QED  BY <4>2 DEF h
    <3>4. c \in Seq(ItemSet("store"))
      <4> DEFINE h == g
      <4> HIDE DEF h
      <4>1. h = [frame EXCEPT !.chunks = Tail(@), !.completed = @ + CompletedBy(Head(frame.chunks))]
        BY DEF h
      <4>2. QED  BY Zenon, <1>1, <2>1, <3>2, <4>1, ChunkTaken
    <3>5. /\ Passed(frame) \in Nat /\ Len(c) \in Nat /\ Good \in Nat
          /\ \A n \in DOMAIN c : c[n].ctx \in Index
      <4>1. Len(frame.done) \in Nat /\ frame.completed \in Nat  BY <3>2 DEF FramesFor
      <4>2. \A x \in ItemSet("store") : x.ctx \in Index  BY DEF ItemSet
      <4>3. Good \in Nat  BY <1>1, GoodProperties
      <4> HIDE DEF c
      <4>4. \A n \in DOMAIN c : c[n] \in ItemSet("store")  BY <3>4
      <4>5. QED  BY <3>4, <4>1, <4>2, <4>3, <4>4 DEF Passed
    <3> HIDE DEF c, g
    <3>6. ASSUME NEW i \in Index, Untouched(i), i > Passed(g) \/ i > Good PROVE Untouched(i)'
      <4>1. \A n \in DOMAIN c : c[n].ctx # i  BY <1>1, <3>1, <3>3, <3>5, <3>6
      <4>2. QED  BY <1>1, <3>2, <3>4, <3>6, <4>1, UntouchedByChunk
    <3>7. \A i \in Index : i > Good => Untouched(i)'  BY <3>1, <3>6
    <3>8. \A i \in Index : i > Passed(g) => Untouched(i)'
      <4> SUFFICES ASSUME NEW i \in Index, i > Passed(g) PROVE Untouched(i)'  OBVIOUS
      <4>1. i > Passed(frame)  BY <1>1, <3>3, <3>5
      <4>2. QED  BY <3>1, <3>6, <4>1 DEF OneEach
    <3>9. OneEach(frame)'
      <4>1. Passed(frame)' = Passed(g) /\ Pending(frame)' = Pending(g)  BY <2>1 DEF Passed, Pending
      <4>2. QED  BY <3>3, <3>8, <4>1 DEF OneEach
    <3>10. Good' = Good  BY <1>2, <2>1 DEF Good
    <3>11. QED  BY <1>5, <2>1, <2>4, <3>7, <3>9, <3>10
  <2>5. QED  BY <2>3, <2>4
<1>10. CASE Finish
  <2>1. /\ pc \in {"store", "publish", "partial"} /\ After(AllDone) /\ faults = 0
        /\ AllDone.error = "none"
    BY <1>10 DEF Finish, AllDone
  <2>2. events' = events  BY <2>1 DEF After, AfterStore, AfterPublish
  <2>3. CASE pc = "store" /\ FilterError
    <3>1. /\ pc' = "done" /\ outcome' = [error |-> "conflict", at |-> Good + 1]
      BY <2>1, <2>3 DEF After, AfterStore, Throw
    <3>2. \A i \in Index : i > Good => Untouched(i)  BY <1>3, <2>1, <2>3 DEF AbsentInv
    <3>3. HandledAnew' = (Good + 1)..Contexts  BY <3>1 DEF HandledAnew
    <3>4. Good \in 0..Contexts  BY <1>1, GoodProperties
    <3>5. \A i \in (Good + 1)..Contexts : i \in Index /\ i > Good  BY <1>1, <3>4
    <3>6. \A i \in HandledAnew' : Untouched(i)'  BY <1>6, <2>2, <3>2, <3>3, <3>5
    <3>7. QED  BY <3>1, <3>6 DEF HandledAnewIsAbsent, Untouched
  <2>4. CASE pc = "store" /\ ~FilterError
    <3>1. pc' = "publish"  BY <2>1, <2>4 DEF After, AfterStore
    <3>2. QED  BY <1>5, <3>1
  <2>5. CASE pc = "publish"
    <3>1. pc' = "done" /\ outcome' = [error |-> "none", at |-> Contexts + 1]
      BY <2>1, <2>5 DEF After, AfterPublish, Return
    <3>2. HandledAnew' = {}  BY <3>1 DEF HandledAnew
    <3>3. QED  BY <3>1, <3>2 DEF HandledAnewIsAbsent
  <2>6. CASE pc = "partial"
    <3> DEFINE at == Head(storeOutcome.failed)
    <3>1. storeOutcome.error = "conflict" /\ \A i \in Index : i >= at => Untouched(i)
      BY <1>3, <2>1, <2>6 DEF AbsentInv
    <3>2. at \in Index
      <4>1. storeOutcome.failed \in Seq(Index) /\ storeOutcome.failed # <<>>
        BY <1>1, <2>6 DEF SinkInv, Partial, Types, Results
      <4>2. \A s \in Seq(Index) : s # <<>> => Head(s) \in Index  OBVIOUS
      <4>3. QED  BY <4>1, <4>2
    <3>3. Throw("conflict", at, storeOutcome.retryable)
      BY <2>1, <2>6, <3>1 DEF After, AfterPublish
    <3> HIDE DEF at
    <3>4. pc' = "done" /\ outcome' = [error |-> "conflict", at |-> at]  BY <3>3 DEF Throw
    <3>5. HandledAnew' = at..Contexts  BY <3>4 DEF HandledAnew
    <3>6. \A i \in at..Contexts : i \in Index /\ i >= at  BY <1>1, <3>2
    <3>7. \A i \in HandledAnew' : Untouched(i)'  BY <1>6, <2>2, <3>1, <3>5, <3>6
    <3>8. QED  BY <3>4, <3>7 DEF HandledAnewIsAbsent, Untouched
  <2>7. QED  BY <2>1, <2>3, <2>4, <2>5, <2>6
<1>11. CASE Conflict
  <2>1. /\ pc = "store" /\ frame.chunks # <<>> /\ Catch("conflict") /\ faults = 0
    BY <1>11 DEF Conflict
  <2>2. /\ OneEach(frame) /\ End(frame) = Good
        /\ \A i \in Index : i > Good => Untouched(i)
    BY <1>3, <2>1 DEF SinkInv, Storing, AbsentInv
  <2>3. frame \in FramesFor("store")
    BY <1>1, <2>1 DEF SinkInv, Storing, Types, Frames, FramesFor
  <2> DEFINE a == Passed(frame)
  <2>4. a \in 0..Contexts  BY <1>1, <2>1, <2>3, Remaining
  <2>5. CASE MayRetry(frame) /\ frame.size > 1
    <3>1. pc' = "store" /\ epochs' = epochs /\ events' = events /\ frame' = Halved(frame)
      BY <2>1, <2>5 DEF Catch
    <3>2. Good' = Good  BY <1>2, <3>1 DEF Good
    <3>3. frame' \in FramesFor("store") /\ Itemized("store", Pending(frame'), a, Good)
      <4> DEFINE g == frame'
      <4>1. g = Halved(frame)  BY <3>1
      <4> HIDE DEF g
      <4>2. g \in FramesFor("store") /\ Itemized("store", Pending(g), a, End(frame))
        BY <1>1, <2>1, <2>3, <2>5, <4>1, HalvedFrame
      <4>3. QED  BY <2>2, <4>2 DEF g
    <3>4. Passed(frame') = a
      <4>1. frame.done \o SubSeq(frame.items, 1, frame.completed) = Prefix(a)
        BY <1>1, <2>1, <2>3, Remaining
      <4>2. frame'.done = Prefix(a) /\ frame'.completed = 0  BY <3>1, <4>1 DEF Halved, Frame
      <4>3. Len(Prefix(a)) = a /\ a + 0 = a
        <5> HIDE DEF a
        <5>1. a \in Nat  BY <1>1, <2>4
        <5>2. QED  BY <5>1 DEF Prefix
      <4>4. QED  BY <4>2, <4>3 DEF Passed
    <3>5. \A i \in Index : i > a => Untouched(i)  BY <2>2 DEF OneEach
    <3>6. OneEach(frame)'
      <4> DEFINE b == Good
      <4> HIDE DEF a, b
      <4>1. Itemized("store", Pending(frame'), a, b)  BY <3>3 DEF b
      <4>2. QED  BY <1>7, <3>1, <3>3, <3>4, <3>5, <4>1
    <3>7. QED  BY <1>5, <1>6, <2>2, <3>1, <3>2, <3>6
  <2>6. CASE ~(MayRetry(frame) /\ frame.size > 1)
    <3> DEFINE e == "conflict"
               r == Failure(frame, e)
               o == storeOutcome'
    <3>1. AfterStore(r)  BY <2>1, <2>6 DEF Catch, After
    <3>2. r \in Results /\ r.error = "conflict" /\ r.failed # <<>> /\ Head(r.failed) = a + 1
      <4>1. e \in {"conflict", "other"}  OBVIOUS
      <4> HIDE DEF e
      <4>2. r \in Results /\ r.error = e /\ r.failed # <<>> /\ Head(r.failed) = a + 1
        BY <1>1, <2>1, <2>3, <4>1, FailureResult
      <4>3. QED  BY <4>2 DEF e
    <3> HIDE DEF r, a
    <3>3. pc' = "partial" /\ events' = events /\ o = [r EXCEPT !.failed = @ \o BadContexts]
      BY <3>1, <3>2 DEF AfterStore
    <3> HIDE DEF o
    <3>4. o.error = "conflict" /\ Head(o.failed) = a + 1
      BY <1>1, <3>2, <3>3, FailedOutcome
    <3>5. \A i \in Index : i >= a + 1 => i > a  BY <1>1, <2>4
    <3>6. \A i \in Index : i >= a + 1 => Untouched(i)'
      BY <1>6, <2>2, <3>3, <3>5 DEF OneEach, a
    <3>7. QED  BY <1>5, <3>3, <3>4, <3>6 DEF o
  <2>7. QED  BY <2>5, <2>6
<1>12. CASE Fault
  <2>1. faults' = faults + 1  BY <1>12 DEF Fault
  <2>2. QED  BY <1>4, <2>1
<1>13. CASE Over \/ UNCHANGED vars
  <2>1. /\ pc' = pc /\ epochs' = epochs /\ faults' = faults /\ storeOutcome' = storeOutcome
        /\ events' = events /\ frame' = frame /\ outcome' = outcome
    BY <1>13 DEF Over, vars
  <2>2. OneEach(frame) => OneEach(frame)'  BY <1>6, <2>1 DEF OneEach, Pending, Passed
  <2>3. HandledAnewIsAbsent => HandledAnewIsAbsent'
    BY <2>1 DEF HandledAnewIsAbsent, HandledAnew
  <2>4. Good' = Good  BY <1>2, <2>1 DEF Good
  <2>5. QED  BY <1>3, <1>6, <2>1, <2>2, <2>3, <2>4 DEF AbsentInv
<1>14. QED  BY <1>8, <1>9, <1>10, <1>11, <1>12, <1>13 DEF Next

\* Unless a sink fails of itself, a context that is handled anew after a conflict
\* has left nothing in the store, if each context has one item for it.
THEOREM AllHandledAnewLeftNothing == Spec => []HandledAnewLeftNothing
<1>1. AbsentInv => HandledAnewLeftNothing
  BY DEF AbsentInv, HandledAnewLeftNothing
<1>2. SinkInv /\ [Next]_vars /\ AbsentInv => AbsentInv'  BY AbsentStep
<1>3. QED  BY <1>1, <1>2, AbsentInit, SinkInvariant, PTL DEF Spec
=============================================================================
