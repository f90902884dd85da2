--------------------------- MODULE SequenceLemmas ---------------------------
(***************************************************************************)
(* Facts about numbers, finite sets and the sequence operators the models  *)
(* use.  Induction is stated with sets: a set of numbers that holds 0 and  *)
(* with every number the next one holds them all.                          *)
(***************************************************************************)
EXTENDS Integers, Sequences, FiniteSets, SequencesExt, FiniteSetTheorems, SequenceTheorems, TLAPS

\* A set of natural numbers has a least element.
LEMMA LeastElement ==
    ASSUME NEW T \in SUBSET Nat, T # {}
    PROVE  \E n \in T : \A m \in T : n <= m
<1> DEFINE R == StrictSubsetOrdering(Nat)
           D == FiniteSubsetsOf(Nat)
           U == {1..n : n \in T}
<1>1. IsWellFoundedOn(R, D)  BY FS_StrictSubsetOrderingWellFounded
<1>2. U \subseteq D
  <2>1. \A n \in Nat : IsFiniteSet(1..n)  BY FS_Interval
  <2>2. \A n \in T : 1..n \in SUBSET Nat  OBVIOUS
  <2>3. QED  BY <2>1, <2>2 DEF FiniteSubsetsOf
<1>3. \E x \in U : \A y \in U : <<y, x>> \notin R
  <2>1. U # {}  OBVIOUS
  <2> HIDE DEF R, D, U
  <2>2. QED  BY <1>1, <1>2, <2>1, WFMin
<1>4. PICK n \in T : \A y \in U : <<y, 1..n>> \notin R  BY <1>3
<1>5. ASSUME NEW m \in T, m < n PROVE FALSE
  <2>1. n \in 1..n /\ n \notin 1..m  BY <1>5
  <2>2. 1..m \in SUBSET Nat /\ 1..n \in SUBSET Nat /\ 1..m \subseteq 1..n /\ 1..m # 1..n
    BY <1>5, <2>1
  <2>3. <<1..m, 1..n>> \in R  BY <2>2 DEF StrictSubsetOrdering
  <2>4. QED  BY <1>4, <2>3
<1>6. QED  BY <1>5

\* Induction over the natural numbers.
LEMMA Induction ==
    ASSUME NEW T, 0 \in T, \A n \in Nat : n \in T => n + 1 \in T
    PROVE  Nat \subseteq T
<1> SUFFICES ASSUME Nat \ T # {} PROVE FALSE  OBVIOUS
<1>1. PICK n \in Nat \ T : \A m \in Nat \ T : n <= m  BY LeastElement
<1>2. n - 1 \in Nat /\ n - 1 \notin Nat \ T  BY <1>1
<1>3. n - 1 + 1 \in T  BY <1>2
<1>4. QED  BY <1>1, <1>3

\* A bounded set of natural numbers has a greatest element, and Max is it.
LEMMA MaxProperties ==
    ASSUME NEW T \in SUBSET Nat, T # {}, NEW b \in Nat, \A n \in T : n <= b
    PROVE  Max(T) \in T /\ \A n \in T : n <= Max(T)
<1> DEFINE R == {b - n : n \in T}
<1>1. R \in SUBSET Nat /\ R # {}
  <2>1. \A n \in T : n \in Nat /\ b - n \in Nat  OBVIOUS
  <2>2. QED  BY <2>1
<1>2. PICK r \in R : \A m \in R : r <= m
  <2> HIDE DEF R
  <2>1. QED  BY <1>1, LeastElement
<1>3. PICK n \in T : r = b - n  OBVIOUS
<1>4. ASSUME NEW m \in T PROVE n >= m
  <2>1. b - m \in R  OBVIOUS
  <2>2. b - n <= b - m /\ m \in Nat /\ n \in Nat  BY <1>2, <1>3, <2>1
  <2>3. QED  BY <2>2
<1>5. \E x \in T : \A y \in T : x >= y  BY <1>4
<1>6. Max(T) \in T /\ \A y \in T : Max(T) >= y  BY <1>5 DEF Max
<1>7. QED  BY <1>6

\* The lesser of two numbers.
LEMMA MinOfTwo ==
    ASSUME NEW a \in Int, NEW b \in Int
    PROVE  Min({a, b}) = IF a <= b THEN a ELSE b
<1> DEFINE m == IF a <= b THEN a ELSE b
<1>1. m \in {a, b} /\ \A y \in {a, b} : m <= y  OBVIOUS
<1>2. \A x \in {a, b} : (\A y \in {a, b} : x <= y) => x = m  OBVIOUS
<1> HIDE DEF m
<1>3. Min({a, b}) = m  BY <1>1, <1>2 DEF Min
<1>4. QED  BY <1>3 DEF m

\* RemoveAt takes one element out and moves those after it up.
LEMMA RemoveAtProperties ==
    ASSUME NEW S, NEW s \in Seq(S), NEW i \in 1..Len(s)
    PROVE  /\ RemoveAt(s, i) \in Seq(S)
           /\ Len(RemoveAt(s, i)) = Len(s) - 1
           /\ \A j \in 1..(Len(s) - 1) : RemoveAt(s, i)[j] = s[IF j < i THEN j ELSE j + 1]
<1> DEFINE a == SubSeq(s, 1, i - 1)
           b == SubSeq(s, i + 1, Len(s))
<1>1. /\ a \in Seq(S) /\ Len(a) = i - 1
      /\ \A j \in 1..(i - 1) : a[j] = s[j]
  OBVIOUS
<1>2. /\ b \in Seq(S) /\ Len(b) = Len(s) - i
      /\ \A j \in 1..(Len(s) - i) : b[j] = s[i + j]
  OBVIOUS
<1>3. RemoveAt(s, i) = a \o b  BY DEF RemoveAt
<1> HIDE DEF a, b
<1>4. /\ a \o b \in Seq(S)
      /\ Len(a \o b) = Len(s) - 1
      /\ \A j \in 1..(Len(s) - 1) : (a \o b)[j] = IF j <= i - 1 THEN a[j] ELSE b[j - (i - 1)]
  <2>1. /\ a \o b \in Seq(S) /\ Len(a \o b) = Len(a) + Len(b)
        /\ \A j \in 1..(Len(a) + Len(b)) :
              (a \o b)[j] = IF j <= Len(a) THEN a[j] ELSE b[j - Len(a)]
    BY <1>1, <1>2, ConcatProperties
  <2>2. Len(a) = i - 1 /\ Len(a) + Len(b) = Len(s) - 1  BY <1>1, <1>2
  <2>3. QED  BY <2>1, <2>2
<1>5. ASSUME NEW j \in 1..(Len(s) - 1) PROVE (a \o b)[j] = s[IF j < i THEN j ELSE j + 1]
  <2>1. CASE j < i
    <3>1. j \in 1..(i - 1)  BY <2>1
    <3>2. QED  BY <1>1, <1>4, <2>1, <3>1
  <2>2. CASE ~(j < i)
    <3>1. j - (i - 1) \in 1..(Len(s) - i) /\ i + (j - (i - 1)) = j + 1  BY <2>2
    <3>2. QED  BY <1>2, <1>4, <2>2, <3>1
  <2>3. QED  BY <2>1, <2>2
<1>6. QED  BY <1>3, <1>4, <1>5

\* The members of a finite set of numbers can be put in ascending order.
LEMMA AscendingExists ==
    ASSUME NEW S \in SUBSET Nat, IsFiniteSet(S)
    PROVE  \E s \in [1..Cardinality(S) -> S] : \A i, j \in DOMAIN s : i < j => s[i] < s[j]
<1> DEFINE Ascending(s) == \A i, j \in DOMAIN s : i < j => s[i] < s[j]
           T == {n \in Nat : \A X \in SUBSET Nat :
                    IsFiniteSet(X) /\ Cardinality(X) = n => \E s \in [1..n -> X] : Ascending(s)}
<1>1. 0 \in T
  <2> SUFFICES ASSUME NEW X \in SUBSET Nat PROVE \E s \in [1..0 -> X] : Ascending(s)  OBVIOUS
  <2>1. [i \in 1..0 |-> 0] \in [1..0 -> X] /\ Ascending([i \in 1..0 |-> 0])  OBVIOUS
  <2>2. QED  BY <2>1
<1>2. ASSUME NEW n \in Nat, n \in T PROVE n + 1 \in T
  <2> SUFFICES ASSUME NEW X \in SUBSET Nat, IsFiniteSet(X), Cardinality(X) = n + 1
               PROVE  \E s \in [1..(n + 1) -> X] : Ascending(s)
    OBVIOUS
  <2>1. X # {}  BY FS_EmptySet
  <2>2. PICK x \in X : \A y \in X : x <= y  BY <2>1, LeastElement
  <2>3. IsFiniteSet(X \ {x}) /\ Cardinality(X \ {x}) = n
    <3>1. IsFiniteSet(X \ {x}) /\ Cardinality(X \ {x}) = Cardinality(X) - 1
      BY FS_RemoveElement
    <3>2. QED  BY <3>1
  <2>4. PICK r \in [1..n -> X \ {x}] : Ascending(r)  BY <1>2, <2>3
  <2> DEFINE s == [i \in 1..(n + 1) |-> IF i = 1 THEN x ELSE r[i - 1]]
  <2>5. \A i \in 2..(n + 1) : r[i - 1] \in X /\ x < r[i - 1]
    <3> SUFFICES ASSUME NEW i \in 2..(n + 1) PROVE r[i - 1] \in X /\ x < r[i - 1]  OBVIOUS
    <3>1. i - 1 \in 1..n  OBVIOUS
    <3>2. r[i - 1] \in X \ {x}  BY <3>1
    <3>3. x <= r[i - 1] /\ x # r[i - 1]  BY <2>2, <3>2
    <3>4. x \in Nat /\ r[i - 1] \in Nat  BY <3>2
    <3>5. QED  BY <3>2, <3>3, <3>4
  <2>6. s \in [1..(n + 1) -> X]  BY <2>5
  <2>7. Ascending(s)
    <3> SUFFICES ASSUME NEW i \in 1..(n + 1), NEW j \in 1..(n + 1), i < j PROVE s[i] < s[j]
      OBVIOUS
    <3>1. CASE i = 1  BY <2>5, <3>1
    <3>2. CASE i # 1
      <4>1. i - 1 \in 1..n /\ j - 1 \in 1..n /\ i - 1 < j - 1  BY <3>2
      <4>2. r[i - 1] < r[j - 1]  BY <2>4, <4>1
      <4>3. QED  BY <3>2, <4>2
    <3>3. QED  BY <3>1, <3>2
  <2>8. QED  BY <2>6, <2>7
<1>3. Nat \subseteq T
  <2> HIDE DEF T
  <2>1. QED  BY <1>1, <1>2, Induction
<1>4. Cardinality(S) \in Nat  BY FS_CardinalityType
<1>5. QED  BY <1>3, <1>4

\* What it means for s to be the members of S in ascending order.
IsAscending(s, S) ==
    /\ s \in [1..Cardinality(S) -> S]
    /\ \A i, j \in DOMAIN s : i < j => s[i] < s[j]

\* Such a sequence holds each member of S once.
LEMMA AscendingProperties ==
    ASSUME NEW S \in SUBSET Nat, IsFiniteSet(S), NEW s, IsAscending(s, S)
    PROVE  s \in Seq(S) /\ Len(s) = Cardinality(S) /\ ToSet(s) = S
<1>1. Cardinality(S) \in Nat  BY FS_CardinalityType
<1>2. s \in Seq(S) /\ Len(s) = Cardinality(S)  BY <1>1 DEF IsAscending
<1>3. s \in Injection(1..Cardinality(S), S)
  <2>1. s \in [1..Cardinality(S) -> S]  BY DEF IsAscending
  <2>2. ASSUME NEW i \in 1..Cardinality(S), NEW j \in 1..Cardinality(S), s[i] = s[j]
        PROVE  i = j
    <3>0. s[i] \in Nat
      <4>1. s[i] \in S  BY <2>1
      <4>2. QED  BY <4>1
    <3>1. ~(s[i] < s[j]) /\ ~(s[j] < s[i])  BY <2>2, <3>0
    <3>2. ~(i < j) /\ ~(j < i)  BY <2>1, <3>1 DEF IsAscending
    <3>3. QED  BY <1>1, <3>2
  <2>3. QED  BY <2>1, <2>2 DEF Injection, IsInjective
<1>4. IsFiniteSet(1..Cardinality(S)) /\ Cardinality(1..Cardinality(S)) = Cardinality(S)
  BY <1>1, FS_Interval
<1>5. s \in Surjection(1..Cardinality(S), S)
  BY <1>3, <1>4, FS_Injection
<1>6. ToSet(s) = S
  BY <1>5, <1>2 DEF Surjection, ToSet
<1>7. QED  BY <1>2, <1>6

\* A concatenation holds what its parts hold.
LEMMA ToSetConcat ==
    ASSUME NEW S, NEW s \in Seq(S), NEW t \in Seq(S)
    PROVE  ToSet(s \o t) = ToSet(s) \cup ToSet(t)
<1>1. /\ s \o t \in Seq(S) /\ Len(s \o t) = Len(s) + Len(t)
      /\ \A i \in 1..(Len(s) + Len(t)) : (s \o t)[i] = IF i <= Len(s) THEN s[i] ELSE t[i - Len(s)]
  BY ConcatProperties
<1>2. \A i \in 1..Len(s) : i \in DOMAIN (s \o t) /\ (s \o t)[i] = s[i]  BY <1>1
<1>3. \A i \in 1..Len(t) : i + Len(s) \in DOMAIN (s \o t) /\ (s \o t)[i + Len(s)] = t[i]
  BY <1>1
<1>4. ToSet(s) \cup ToSet(t) \subseteq ToSet(s \o t)
  <2>1. \A i \in DOMAIN s : s[i] \in ToSet(s \o t)
    <3>1. \A i \in DOMAIN s : i \in 1..Len(s)  OBVIOUS
    <3>2. QED  BY <1>2, <3>1 DEF ToSet
  <2>2. \A i \in DOMAIN t : t[i] \in ToSet(s \o t)
    <3>1. \A i \in DOMAIN t : i \in 1..Len(t)  OBVIOUS
    <3>2. QED  BY <1>3, <3>1 DEF ToSet
  <2>3. QED  BY <2>1, <2>2 DEF ToSet
<1>5. ASSUME NEW i \in DOMAIN (s \o t) PROVE (s \o t)[i] \in ToSet(s) \cup ToSet(t)
  <2>1. i \in 1..(Len(s) + Len(t))  BY <1>1
  <2>2. CASE i <= Len(s)  BY <1>1, <2>1, <2>2 DEF ToSet
  <2>3. CASE ~(i <= Len(s))
    <3>1. i - Len(s) \in DOMAIN t  BY <2>1, <2>3
    <3>2. QED  BY <1>1, <2>1, <2>3, <3>1 DEF ToSet
  <2>4. QED  BY <2>2, <2>3
<1>6. QED  BY <1>4, <1>5 DEF ToSet

\* What is appended is one more element.
LEMMA ToSetAppend ==
    ASSUME NEW S, NEW s \in Seq(S), NEW e \in S
    PROVE  ToSet(Append(s, e)) = ToSet(s) \cup {e}
<1>1. Append(s, e) = s \o <<e>> /\ <<e>> \in Seq(S)  BY AppendIsConcat
<1>2. ToSet(<<e>>) = {e}  BY DEF ToSet
<1>3. ToSet(s \o <<e>>) = ToSet(s) \cup ToSet(<<e>>)  BY ZenonT(30), <1>1, ToSetConcat
<1>4. QED  BY <1>1, <1>2, <1>3

\* What is removed is the only element that may be missing afterwards.
LEMMA ToSetRemoveAt ==
    ASSUME NEW S, NEW s \in Seq(S), NEW i \in 1..Len(s)
    PROVE  ToSet(RemoveAt(s, i)) \subseteq ToSet(s) /\ ToSet(s) \subseteq ToSet(RemoveAt(s, i)) \cup {s[i]}
<1>1. /\ RemoveAt(s, i) \in Seq(S) /\ Len(RemoveAt(s, i)) = Len(s) - 1
      /\ \A j \in 1..(Len(s) - 1) : RemoveAt(s, i)[j] = s[IF j < i THEN j ELSE j + 1]
  BY RemoveAtProperties
<1>2. ASSUME NEW j \in DOMAIN RemoveAt(s, i) PROVE RemoveAt(s, i)[j] \in ToSet(s)
  <2>1. j \in 1..(Len(s) - 1)  BY <1>1
  <2>2. (IF j < i THEN j ELSE j + 1) \in DOMAIN s  BY <2>1
  <2>3. QED  BY <1>1, <2>1, <2>2 DEF ToSet
<1>3. ASSUME NEW h \in DOMAIN s, h # i PROVE s[h] \in ToSet(RemoveAt(s, i))
  <2> DEFINE j == IF h < i THEN h ELSE h - 1
  <2>1. j \in 1..(Len(s) - 1) /\ (IF j < i THEN j ELSE j + 1) = h  BY <1>3
  <2> HIDE DEF j
  <2>2. RemoveAt(s, i)[j] = s[h] /\ j \in DOMAIN RemoveAt(s, i)  BY SMTT(30), <1>1, <2>1
  <2>3. QED  BY <2>2 DEF ToSet
<1>4. QED  BY <1>2, <1>3 DEF ToSet

\* An element of the first of two sequences is removed from it.
LEMMA RemoveAtConcat ==
    ASSUME NEW S, NEW s \in Seq(S), NEW t \in Seq(S), NEW i \in 1..Len(s)
    PROVE  RemoveAt(s \o t, i) = RemoveAt(s, i) \o t
<1>1. /\ s \o t \in Seq(S) /\ Len(s \o t) = Len(s) + Len(t)
      /\ \A j \in 1..(Len(s) + Len(t)) : (s \o t)[j] = IF j <= Len(s) THEN s[j] ELSE t[j - Len(s)]
  BY ConcatProperties
<1>2. /\ RemoveAt(s, i) \in Seq(S) /\ Len(RemoveAt(s, i)) = Len(s) - 1
      /\ \A j \in 1..(Len(s) - 1) : RemoveAt(s, i)[j] = s[IF j < i THEN j ELSE j + 1]
  BY RemoveAtProperties
<1>3. /\ RemoveAt(s \o t, i) \in Seq(S) /\ Len(RemoveAt(s \o t, i)) = Len(s \o t) - 1
      /\ \A j \in 1..(Len(s \o t) - 1) :
            RemoveAt(s \o t, i)[j] = (s \o t)[IF j < i THEN j ELSE j + 1]
  <2>1. i \in 1..Len(s \o t)  BY <1>1
  <2>2. QED  BY <1>1, <2>1, RemoveAtProperties
<1> DEFINE r == RemoveAt(s, i)
<1>4. /\ r \o t \in Seq(S) /\ Len(r \o t) = Len(r) + Len(t)
      /\ \A j \in 1..(Len(r) + Len(t)) : (r \o t)[j] = IF j <= Len(r) THEN r[j] ELSE t[j - Len(r)]
  BY <1>2, ConcatProperties
<1>5. Len(RemoveAt(s \o t, i)) = Len(r \o t)  BY <1>1, <1>2, <1>3, <1>4
<1>6. ASSUME NEW j \in 1..Len(r \o t) PROVE RemoveAt(s \o t, i)[j] = (r \o t)[j]
  <2>1. j \in 1..(Len(s) + Len(t) - 1)  BY <1>2, <1>4
  <2>2. CASE j < i
    <3>1. RemoveAt(s \o t, i)[j] = s[j]  BY SMTT(30), <1>1, <1>3, <2>1, <2>2
    <3>2. (r \o t)[j] = r[j]  BY <1>2, <1>4, <2>1, <2>2
    <3>3. r[j] = s[j]  BY <1>2, <2>1, <2>2
    <3>4. QED  BY <3>1, <3>2, <3>3
  <2>3. CASE ~(j < i) /\ j <= Len(s) - 1
    <3>1. RemoveAt(s \o t, i)[j] = s[j + 1]  BY <1>1, <1>3, <2>1, <2>3
    <3>2. (r \o t)[j] = r[j]  BY <1>2, <1>4, <2>1, <2>3
    <3>3. r[j] = s[j + 1]  BY <1>2, <2>1, <2>3
    <3>4. QED  BY <3>1, <3>2, <3>3
  <2>4. CASE ~(j < i) /\ ~(j <= Len(s) - 1)
    <3>1. RemoveAt(s \o t, i)[j] = t[j + 1 - Len(s)]  BY <1>1, <1>3, <2>1, <2>4
    <3>2. (r \o t)[j] = t[j - Len(r)] /\ j - Len(r) = j + 1 - Len(s)
      BY <1>2, <1>4, <2>1, <2>4
    <3>3. QED  BY <3>1, <3>2
  <2>5. QED  BY <2>2, <2>3, <2>4
<1> HIDE DEF r
<1>7. RemoveAt(s \o t, i) = r \o t  BY <1>3, <1>4, <1>5, <1>6, SeqEqual
<1>8. QED  BY <1>7 DEF r

\* Sequences of numbers that grow from each element to the next.
Increasing(s) == \A i, j \in DOMAIN s : i < j => s[i] < s[j]

\* What is left when an element is removed is increasing still.
LEMMA IncreasingRemoveAt ==
    ASSUME NEW s \in Seq(Nat), Increasing(s), NEW i \in 1..Len(s)
    PROVE  Increasing(RemoveAt(s, i))
<1>1. /\ RemoveAt(s, i) \in Seq(Nat) /\ Len(RemoveAt(s, i)) = Len(s) - 1
      /\ \A j \in 1..(Len(s) - 1) : RemoveAt(s, i)[j] = s[IF j < i THEN j ELSE j + 1]
  BY RemoveAtProperties
<1> SUFFICES ASSUME NEW j \in DOMAIN RemoveAt(s, i), NEW h \in DOMAIN RemoveAt(s, i), j < h
             PROVE  RemoveAt(s, i)[j] < RemoveAt(s, i)[h]
  BY DEF Increasing
<1> DEFINE a == IF j < i THEN j ELSE j + 1
           b == IF h < i THEN h ELSE h + 1
<1>2. j \in 1..(Len(s) - 1) /\ h \in 1..(Len(s) - 1)  BY SMTT(30), <1>1
<1>3. a \in DOMAIN s /\ b \in DOMAIN s /\ a < b  BY SMTT(30), <1>2
<1>4. RemoveAt(s, i)[j] = s[a] /\ RemoveAt(s, i)[h] = s[b]  BY <1>1, <1>2
<1> HIDE DEF a, b
<1>5. QED  BY <1>3, <1>4 DEF Increasing

\* So is what a greater element is appended to.
LEMMA IncreasingAppend ==
    ASSUME NEW s \in Seq(Nat), Increasing(s), NEW e \in Nat, \A n \in ToSet(s) : n < e
    PROVE  Increasing(Append(s, e))
<1>1. /\ Append(s, e) \in Seq(Nat) /\ Len(Append(s, e)) = Len(s) + 1
      /\ \A i \in 1..Len(s) : Append(s, e)[i] = s[i]
      /\ Append(s, e)[Len(s) + 1] = e
  BY AppendProperties
<1>2. \A i \in 1..Len(s) : s[i] < e  BY DEF ToSet
<1> SUFFICES ASSUME NEW i \in 1..(Len(s) + 1), NEW j \in 1..(Len(s) + 1), i < j
             PROVE  Append(s, e)[i] < Append(s, e)[j]
  BY <1>1 DEF Increasing
<1>3. i \in 1..Len(s)  OBVIOUS
<1>4. CASE j = Len(s) + 1  BY <1>1, <1>2, <1>3, <1>4
<1>5. CASE j # Len(s) + 1
  <2>1. j \in 1..Len(s)  BY <1>5
  <2>2. s[i] < s[j]  BY <1>3, <2>1 DEF Increasing
  <2>3. QED  BY <1>1, <1>3, <2>1, <2>2
<1>6. QED  BY <1>4, <1>5

\* What is first in a concatenation, and what follows the first element.
LEMMA IncreasingPart ==
    ASSUME NEW s \in Seq(Nat), NEW t \in Seq(Nat), Increasing(s \o t)
    PROVE  Increasing(s) /\ Increasing(t)
<1>1. /\ s \o t \in Seq(Nat) /\ Len(s \o t) = Len(s) + Len(t)
      /\ \A j \in 1..(Len(s) + Len(t)) : (s \o t)[j] = IF j <= Len(s) THEN s[j] ELSE t[j - Len(s)]
  BY ConcatProperties
<1>2. ASSUME NEW i \in DOMAIN s, NEW j \in DOMAIN s, i < j PROVE s[i] < s[j]
  <2>1. i \in DOMAIN (s \o t) /\ j \in DOMAIN (s \o t)  BY <1>1
  <2>2. (s \o t)[i] < (s \o t)[j]  BY <1>2, <2>1 DEF Increasing
  <2>3. QED  BY <1>1, <2>1, <2>2
<1>3. ASSUME NEW i \in DOMAIN t, NEW j \in DOMAIN t, i < j PROVE t[i] < t[j]
  <2>1. /\ i + Len(s) \in DOMAIN (s \o t) /\ j + Len(s) \in DOMAIN (s \o t)
        /\ i + Len(s) < j + Len(s)
    BY <1>1, <1>3
  <2>2. (s \o t)[i + Len(s)] < (s \o t)[j + Len(s)]  BY <2>1 DEF Increasing
  <2>3. (s \o t)[i + Len(s)] = t[i] /\ (s \o t)[j + Len(s)] = t[j]  BY <1>1
  <2>4. QED  BY <2>2, <2>3
<1>4. QED  BY <1>2, <1>3 DEF Increasing

\* An element can be appended after or before concatenating, and the first
\* element of a sequence be moved to the end of the one before it.
LEMMA AppendConcat ==
    ASSUME NEW S, NEW s \in Seq(S), NEW t \in Seq(S), NEW e \in S
    PROVE  s \o Append(t, e) = Append(s \o t, e)
<1>1. <<e>> \in Seq(S) /\ s \o t \in Seq(S)  BY ConcatProperties
<1>2. Append(t, e) = t \o <<e>> /\ Append(s \o t, e) = (s \o t) \o <<e>>
  BY <1>1, AppendIsConcat
<1>3. QED  BY <1>1, <1>2, ConcatAssociative

\* The head of the second of two sequences is moved to the end of the first.
LEMMA MoveHead ==
    ASSUME NEW S, NEW s \in Seq(S), NEW t \in Seq(S), t # <<>>
    PROVE  Append(s, Head(t)) \o Tail(t) = s \o t
<1>1. Head(t) \in S /\ Tail(t) \in Seq(S)  BY HeadTailProperties
<1>2. <<Head(t)>> \in Seq(S) /\ Append(s, Head(t)) = s \o <<Head(t)>>  BY <1>1, AppendIsConcat
<1>3. (s \o <<Head(t)>>) \o Tail(t) = s \o (<<Head(t)>> \o Tail(t))
  BY <1>1, <1>2, ConcatAssociative
<1>4. <<Head(t)>> \o Tail(t) = t
  <2>1. /\ <<Head(t)>> \o Tail(t) \in Seq(S) /\ Len(<<Head(t)>> \o Tail(t)) = Len(t)
        /\ \A i \in 1..Len(t) : (<<Head(t)>> \o Tail(t))[i] = t[i]
    BY <1>1, <1>2, ConcatProperties, HeadTailProperties
  <2>2. QED  BY <2>1, SeqEqual
<1>5. QED  BY <1>2, <1>3, <1>4

\* The first element taken off.
LEMMA RemoveAtHead ==
    ASSUME NEW S, NEW s \in Seq(S), s # <<>>
    PROVE  RemoveAt(s, 1) = Tail(s)
<1>1. Len(s) \in Nat \ {0} /\ 1 \in 1..Len(s)  BY EmptySeq
<1>2. /\ RemoveAt(s, 1) \in Seq(S) /\ Len(RemoveAt(s, 1)) = Len(s) - 1
      /\ \A j \in 1..(Len(s) - 1) : RemoveAt(s, 1)[j] = s[IF j < 1 THEN j ELSE j + 1]
  BY <1>1, RemoveAtProperties
<1>3. \A j \in 1..(Len(s) - 1) : RemoveAt(s, 1)[j] = s[j + 1]  BY <1>2
<1>4. Tail(s) \in Seq(S) /\ Len(Tail(s)) = Len(s) - 1 /\ \A j \in 1..(Len(s) - 1) : Tail(s)[j] = s[j + 1]
  BY HeadTailProperties
<1>5. \A j \in 1..Len(RemoveAt(s, 1)) : RemoveAt(s, 1)[j] = Tail(s)[j]
  <2> SUFFICES ASSUME NEW j \in 1..Len(RemoveAt(s, 1)) PROVE RemoveAt(s, 1)[j] = Tail(s)[j]
    OBVIOUS
  <2>1. j \in 1..(Len(s) - 1)  BY <1>2
  <2>2. RemoveAt(s, 1)[j] = s[j + 1]  BY <1>3, <2>1
  <2>3. Tail(s)[j] = s[j + 1]  BY <1>4, <2>1
  <2>4. QED  BY <2>2, <2>3
<1>6. \A x, y \in Seq(S) : Len(x) = Len(y) /\ (\A i \in 1..Len(x) : x[i] = y[i]) => x = y
  BY SeqEqual
<1>7. QED  BY <1>2, <1>4, <1>5, <1>6

-----------------------------------------------------------------------------
(* Recursive definitions.  What a function defined by recursion on 0..N    *)
(* returns follows from what its first value is and what a step preserves. *)

\* Induction over an initial segment of the natural numbers.
LEMMA BoundedInduction ==
    ASSUME NEW N \in Nat, NEW T, 0 \in T, \A n \in 1..N : n - 1 \in T => n \in T
    PROVE  0..N \subseteq T
<1> DEFINE U == {n \in Nat : n > N \/ n \in T}
<1>1. 0 \in U  OBVIOUS
<1>2. ASSUME NEW n \in Nat, n \in U PROVE n + 1 \in U
  <2>1. CASE n + 1 > N  BY <2>1
  <2>2. CASE ~(n + 1 > N)
    <3>1. n + 1 \in 1..N /\ (n + 1) - 1 \in T  BY <1>2, <2>2
    <3>2. QED  BY <3>1
  <2>3. QED  BY <2>1, <2>2
<1>3. Nat \subseteq U
  <2> HIDE DEF U
  <2>1. QED  BY <1>1, <1>2, Induction
<1>4. QED  BY <1>3

\* f starts at b and goes from each value to the next by a step.
Recurs(f, N, b, step) == f[0] = b /\ \A n \in 1..N : f[n] = step[n][f[n - 1]]

\* A recursive definition has a value if its first value and its step have.
LEMMA Recursion ==
    ASSUME NEW N \in Nat, NEW S, NEW b \in S, NEW step \in [1..N -> [S -> S]]
    PROVE  \E f \in [0..N -> S] : Recurs(f, N, b, step)
<1> DEFINE Steps(f, m) == /\ f \in [0..m -> S] /\ f[0] = b
                          /\ \A n \in 1..m : f[n] = step[n][f[n - 1]]
           T == {m \in Nat : \E f : Steps(f, m)}
<1>1. 0 \in T
  <2>1. Steps([n \in 0..0 |-> b], 0)  OBVIOUS
  <2>2. QED  BY <2>1
<1>2. ASSUME NEW m \in 1..N, m - 1 \in T PROVE m \in T
  <2>1. PICK f : Steps(f, m - 1)  BY <1>2
  <2> DEFINE g == [n \in 0..m |-> IF n = m THEN step[m][f[m - 1]] ELSE f[n]]
  <2>2. f[m - 1] \in S /\ step[m] \in [S -> S]  BY <2>1
  <2>3. step[m][f[m - 1]] \in S  BY <2>2
  <2>4. g \in [0..m -> S]  BY <2>1, <2>3
  <2>5. g[0] = b  BY <2>1
  <2>6. ASSUME NEW n \in 1..m PROVE g[n] = step[n][g[n - 1]]
    <3>1. g[n - 1] = f[n - 1]  OBVIOUS
    <3>2. CASE n = m  BY <3>1, <3>2
    <3>3. CASE n # m
      <4>1. n \in 1..(m - 1)  BY <3>3
      <4>2. f[n] = step[n][f[n - 1]]  BY <2>1, <4>1
      <4>3. QED  BY <3>1, <3>3, <4>2
    <3>4. QED  BY <3>2, <3>3
  <2>7. Steps(g, m)  BY <2>4, <2>5, <2>6
  <2> HIDE DEF g, Steps
  <2>8. QED  BY <2>7
<1>3. 0..N \subseteq T
  <2> HIDE DEF T
  <2>1. QED  BY <1>1, <1>2, BoundedInduction
<1>4. PICK f : Steps(f, N)  BY <1>3
<1>5. QED  BY <1>4 DEF Recurs

\* Induction over sequences.
LEMMA SequenceInduction ==
    ASSUME NEW S, NEW T, <<>> \in T,
           \A s \in Seq(S), e \in S : s \in T => Append(s, e) \in T
    PROVE  Seq(S) \subseteq T
<1> DEFINE U == {n \in Nat : \A s \in Seq(S) : Len(s) = n => s \in T}
<1>1. 0 \in U
  <2>1. \A s \in Seq(S) : Len(s) = 0 => s = <<>>  BY EmptySeq
  <2>2. QED  BY <2>1
<1>2. ASSUME NEW n \in Nat, n \in U PROVE n + 1 \in U
  <2> SUFFICES ASSUME NEW s \in Seq(S), Len(s) = n + 1 PROVE s \in T  OBVIOUS
  <2>1. s # <<>>  OBVIOUS
  <2> DEFINE r == SubSeq(s, 1, n)
  <2>2. r \in Seq(S) /\ Len(r) = n /\ \A i \in 1..n : r[i] = s[i]  OBVIOUS
  <2>3. s[n + 1] \in S  OBVIOUS
  <2>4. Append(r, s[n + 1]) = s
    <3>1. /\ Append(r, s[n + 1]) \in Seq(S) /\ Len(Append(r, s[n + 1])) = n + 1
          /\ \A i \in 1..n : Append(r, s[n + 1])[i] = s[i]
          /\ Append(r, s[n + 1])[n + 1] = s[n + 1]
      <4> HIDE DEF r
      <4>1. QED  BY <2>2, <2>3, AppendProperties
    <3>2. \A i \in 1..(n + 1) : Append(r, s[n + 1])[i] = s[i]  BY <3>1
    <3> HIDE DEF r
    <3>3. QED  BY <3>1, <3>2, SeqEqual
  <2>5. r \in T  BY <1>2, <2>2
  <2> HIDE DEF r
  <2>6. Append(r, s[n + 1]) \in T  BY <2>2, <2>3, <2>5
  <2>7. QED  BY <2>4, <2>6
<1>3. Nat \subseteq U
  <2> HIDE DEF U
  <2>1. QED  BY <1>1, <1>2, Induction
<1>4. QED  BY <1>3

-----------------------------------------------------------------------------
(* How often members of a set occur in a sequence.                         *)

Occurs(s, P) == Cardinality({n \in DOMAIN s : s[n] \in P})

\* They occur as often as there are elements at most, and never if none is one.
LEMMA OccursBounds ==
    ASSUME NEW S, NEW s \in Seq(S), NEW P
    PROVE  /\ Occurs(s, P) \in 0..Len(s)
           /\ Occurs(s, P) = 0 <=> \A n \in DOMAIN s : s[n] \notin P
<1> DEFINE D == {n \in DOMAIN s : s[n] \in P}
<1>1. Len(s) \in Nat /\ DOMAIN s = 1..Len(s) /\ D \subseteq 1..Len(s)  OBVIOUS
<1>2. IsFiniteSet(1..Len(s)) /\ Cardinality(1..Len(s)) = Len(s)
  <2>1. \A h \in Nat : IsFiniteSet(1..h) /\ Cardinality(1..h) = h  BY FS_Interval
  <2>2. QED  BY <1>1, <2>1
<1> HIDE DEF D
<1>3. IsFiniteSet(D) /\ Cardinality(D) <= Len(s)
  <2>1. D \in SUBSET (1..Len(s))  BY <1>1
  <2>2. IsFiniteSet(D) /\ Cardinality(D) <= Cardinality(1..Len(s))  BY <1>2, <2>1, FS_Subset
  <2>3. QED  BY <1>2, <2>2
<1>4. Cardinality(D) \in Nat /\ (Cardinality(D) = 0 <=> D = {})
  BY <1>3, FS_CardinalityType, FS_EmptySet
<1>5. QED  BY <1>3, <1>4 DEF Occurs, D

\* One more element occurs once more, if it is one.
LEMMA OccursAppend ==
    ASSUME NEW S, NEW s \in Seq(S), NEW e \in S, NEW P
    PROVE  Occurs(Append(s, e), P) = Occurs(s, P) + (IF e \in P THEN 1 ELSE 0)
<1> DEFINE D == {n \in DOMAIN s : s[n] \in P}
           E == {n \in DOMAIN Append(s, e) : Append(s, e)[n] \in P}
<1>1. /\ Append(s, e) \in Seq(S) /\ Len(Append(s, e)) = Len(s) + 1
      /\ \A i \in 1..Len(s) : Append(s, e)[i] = s[i]
      /\ Append(s, e)[Len(s) + 1] = e
  BY AppendProperties
<1>2. E = IF e \in P THEN D \cup {Len(s) + 1} ELSE D
  <2>1. DOMAIN Append(s, e) = 1..(Len(s) + 1) /\ DOMAIN s = 1..Len(s)  BY <1>1
  <2>2. \A n \in 1..(Len(s) + 1) : n \in E <=> (n \in D \/ (n = Len(s) + 1 /\ e \in P))
    BY <1>1, <2>1
  <2>3. QED  BY <2>1, <2>2
<1>3. IsFiniteSet(D) /\ Len(s) + 1 \notin D
  <2>1. D \subseteq 1..Len(s)  OBVIOUS
  <2>2. QED  BY <2>1, FS_Interval, FS_Subset
<1> HIDE DEF D, E
<1>4. Cardinality(D \cup {Len(s) + 1}) = Cardinality(D) + 1  BY <1>3, FS_AddElement
<1>5. Cardinality(D) \in Nat  BY <1>3, FS_CardinalityType
<1>6. Occurs(Append(s, e), P) = Cardinality(E) /\ Occurs(s, P) = Cardinality(D)
  BY DEF Occurs, D, E
<1>7. CASE e \in P  BY <1>2, <1>4, <1>5, <1>6, <1>7
<1>8. CASE e \notin P  BY <1>2, <1>4, <1>5, <1>6, <1>8
<1>9. QED  BY <1>7, <1>8

\* The occurrences in two sequences are added up.
LEMMA OccursConcat ==
    ASSUME NEW S, NEW s \in Seq(S), NEW t \in Seq(S), NEW P
    PROVE  Occurs(s \o t, P) = Occurs(s, P) + Occurs(t, P)
<1> DEFINE T == {u \in Seq(S) : Occurs(s \o u, P) = Occurs(s, P) + Occurs(u, P)}
<1>1. <<>> \in T
  <2>1. s \o <<>> = s /\ <<>> \in Seq(S)  BY ConcatEmptySeq
  <2>2. \A u \in Seq(S) : Occurs(u, P) \in 0..Len(u)  BY OccursBounds
  <2>3. Len(<<>>) = 0 /\ Len(s) \in Nat  OBVIOUS
  <2>4. Occurs(<<>>, P) = 0
    <3>1. Occurs(<<>>, P) \in 0..Len(<<>>)  BY <2>1, <2>2
    <3>2. QED  BY <2>3, <3>1
  <2>6. Occurs(s, P) \in Nat
    <3>1. Occurs(s, P) \in 0..Len(s)  BY <2>2
    <3>2. QED  BY <2>3, <3>1
  <2>7. Occurs(s \o <<>>, P) = Occurs(s, P) + Occurs(<<>>, P)  BY <2>1, <2>4, <2>6
  <2>5. QED  BY <2>1, <2>7
<1>2. ASSUME NEW u \in Seq(S), NEW e \in S, u \in T PROVE Append(u, e) \in T
  <2>1. s \o Append(u, e) = Append(s \o u, e)  BY AppendConcat
  <2>2. s \o u \in Seq(S) /\ Append(u, e) \in Seq(S)  BY ConcatProperties, AppendProperties
  <2>3. Occurs(Append(s \o u, e), P) = Occurs(s \o u, P) + (IF e \in P THEN 1 ELSE 0)
    BY <2>2, OccursAppend
  <2>4. Occurs(Append(u, e), P) = Occurs(u, P) + (IF e \in P THEN 1 ELSE 0)
    BY OccursAppend
  <2>5. \A r \in Seq(S) : Len(r) \in Nat /\ Occurs(r, P) \in 0..Len(r)  BY OccursBounds
  <2>6. Occurs(s, P) \in Nat /\ Occurs(u, P) \in Nat  BY <2>5
  <2>7. Occurs(s \o u, P) = Occurs(s, P) + Occurs(u, P)  BY <1>2
  <2> DEFINE one == IF e \in P THEN 1 ELSE 0
  <2>8. one \in Nat  OBVIOUS
  <2> HIDE DEF one
  <2>9. Occurs(Append(s \o u, e), P) = Occurs(s, P) + (Occurs(u, P) + one)
    BY <2>3, <2>6, <2>7, <2>8 DEF one
  <2>10. Occurs(s \o Append(u, e), P) = Occurs(s, P) + Occurs(Append(u, e), P)
    BY <2>1, <2>4, <2>9 DEF one
  <2>11. QED  BY <2>2, <2>10
<1>3. Seq(S) \subseteq T
  <2> HIDE DEF T
  <2>1. QED  BY <1>1, <1>2, SequenceInduction
<1>4. QED  BY <1>3

-----------------------------------------------------------------------------
(* FlattenSeq: the elements of a sequence of sequences, in order.          *)

\* The recursion it is defined by, up to the n-th sequence.
LEMMA FlattenRecursion ==
    ASSUME NEW S, NEW s \in Seq(Seq(S))
    PROVE  \E f \in [0..Len(s) -> Seq(S)] :
              /\ f[0] = <<>> /\ \A n \in 1..Len(s) : f[n] = f[n - 1] \o s[n]
              /\ FlattenSeq(s) = f[Len(s)]
<1> DEFINE step == [n \in 1..Len(s) |-> [x \in Seq(S) |-> x \o s[n]]]
<1>1. \A n \in 1..Len(s) : s[n] \in Seq(S)  OBVIOUS
<1>2. step \in [1..Len(s) -> [Seq(S) -> Seq(S)]]
  <2>1. \A x, y \in Seq(S) : x \o y \in Seq(S)  BY ConcatProperties
  <2>2. QED  BY <1>1, <2>1
<1>3. <<>> \in Seq(S) /\ Len(s) \in Nat  OBVIOUS
<1>4. \E f \in [0..Len(s) -> Seq(S)] : Recurs(f, Len(s), <<>>, step)
  <2> HIDE DEF step
  <2>1. QED  BY <1>2, <1>3, Recursion
<1>5. PICK f \in [0..Len(s) -> Seq(S)] : Recurs(f, Len(s), <<>>, step)
  BY <1>4
<1>6. f[0] = <<>> /\ \A n \in 1..Len(s) : f[n] = f[n - 1] \o s[n]
  <2>1. \A n \in 1..Len(s) : f[n - 1] \in Seq(S)  OBVIOUS
  <2>2. QED  BY <1>5, <2>1 DEF Recurs
<1>7. FlattenSeq(s) = f[Len(s)]
  <2>1. CASE Len(s) = 0  BY <1>6, <2>1, EmptySeq DEF FlattenSeq
  <2>2. CASE Len(s) # 0
    <3> DEFINE IsFlatten(g) == g = [i \in 1..Len(s) |-> IF i = 1 THEN s[i] ELSE g[i - 1] \o s[i]]
               h == [i \in 1..Len(s) |-> f[i]]
               F == CHOOSE g : IsFlatten(g)
    <3>1. IsFlatten(h)
      <4>1. ASSUME NEW i \in 1..Len(s) PROVE f[i] = IF i = 1 THEN s[i] ELSE h[i - 1] \o s[i]
        <5>1. CASE i = 1
          <6>1. s[1] \in Seq(S)  BY <1>1, <5>1
          <6>2. <<>> \o s[1] = s[1]  BY <6>1, ConcatEmptySeq
          <6>3. f[i] = f[i - 1] \o s[i]  BY <1>6
          <6>4. i - 1 = 0  BY <5>1
          <6>5. f[i - 1] = <<>>  BY <1>6, <6>4
          <6>6. QED  BY <5>1, <6>2, <6>3, <6>5
        <5>2. CASE i # 1
          <6>1. i - 1 \in 1..Len(s)  BY <5>2
          <6>2. QED  BY <1>6, <5>2, <6>1
        <5>3. QED  BY <5>1, <5>2
      <4>2. QED  BY <4>1
    <3>2. IsFlatten(F)
      <4> HIDE DEF h, IsFlatten
      <4>1. QED  BY <3>1
    <3>3. FlattenSeq(s) = F[Len(s)]  BY <2>2 DEF FlattenSeq
    <3> HIDE DEF F
    <3> DEFINE T == {n \in Nat : n \in 1..Len(s) => F[n] = f[n]}
    <3>4. 0 \in T  OBVIOUS
    <3>5. ASSUME NEW n \in 1..Len(s), n - 1 \in T PROVE n \in T
      <4>0. F[n] = IF n = 1 THEN s[n] ELSE F[n - 1] \o s[n]  BY <3>2
      <4>1. CASE n = 1
        <5>1. s[1] \in Seq(S)  BY <1>1, <4>1
        <5>2. <<>> \o s[1] = s[1]  BY <5>1, ConcatEmptySeq
        <5>3. f[n] = f[n - 1] \o s[n]  BY <1>6
        <5>6. n - 1 = 0  BY <4>1
        <5>7. f[n - 1] = <<>>  BY <1>6, <5>6
        <5>4. F[n] = f[n]  BY <4>0, <4>1, <5>2, <5>3, <5>7
        <5>5. QED  BY <5>4
      <4>2. CASE n # 1
        <5>1. n - 1 \in 1..Len(s)  BY <4>2
        <5>2. F[n - 1] = f[n - 1]  BY <3>5, <5>1
        <5>3. F[n] = f[n]  BY <1>6, <4>0, <4>2, <5>2
        <5>4. QED  BY <5>3
      <4>3. QED  BY <4>1, <4>2
    <3>6. 0..Len(s) \subseteq T
      <4> HIDE DEF T
      <4>1. QED  BY <3>4, <3>5, <1>3, BoundedInduction
    <3>7. QED  BY SMTT(30), <2>2, <3>3, <3>6
  <2>3. QED  BY <2>1, <2>2
<1>8. QED  BY <1>6, <1>7

\* What is flattened is a sequence of the elements.
LEMMA FlattenType ==
    ASSUME NEW S, NEW s \in Seq(Seq(S))
    PROVE  FlattenSeq(s) \in Seq(S) /\ FlattenSeq(<<>>) = <<>>
<1>1. FlattenSeq(s) \in Seq(S)
  <2>1. PICK f \in [0..Len(s) -> Seq(S)] : FlattenSeq(s) = f[Len(s)]  BY FlattenRecursion
  <2>2. Len(s) \in 0..Len(s)  OBVIOUS
  <2>3. QED  BY <2>1, <2>2
<1>2. FlattenSeq(<<>>) = <<>>  BY EmptySeq DEF FlattenSeq
<1>3. QED  BY <1>1, <1>2

\* The elements of a sequence appended come last.
LEMMA FlattenAppend ==
    ASSUME NEW S, NEW s \in Seq(Seq(S)), NEW t \in Seq(S)
    PROVE  FlattenSeq(Append(s, t)) = FlattenSeq(s) \o t
<1> DEFINE r == Append(s, t)
           N == Len(s)
<1>0. N \in Nat  OBVIOUS
<1>1. /\ r \in Seq(Seq(S)) /\ Len(r) = N + 1 /\ r[N + 1] = t
      /\ \A i \in 1..N : r[i] = s[i]
  BY AppendProperties
<1> HIDE DEF r
<1>2. PICK f \in [0..N -> Seq(S)] :
         /\ f[0] = <<>> /\ \A n \in 1..N : f[n] = f[n - 1] \o s[n]
         /\ FlattenSeq(s) = f[N]
  BY FlattenRecursion
<1>3. \E g \in [0..Len(r) -> Seq(S)] :
         /\ g[0] = <<>> /\ \A n \in 1..Len(r) : g[n] = g[n - 1] \o r[n]
         /\ FlattenSeq(r) = g[Len(r)]
  BY <1>1, FlattenRecursion
<1>4. PICK g : /\ g[0] = <<>> /\ \A n \in 1..(N + 1) : g[n] = g[n - 1] \o r[n]
               /\ FlattenSeq(r) = g[N + 1]
  BY <1>1, <1>3
<1> HIDE DEF N
<1> DEFINE T == {n \in Nat : n \in 0..N => g[n] = f[n]}
<1>5. 0 \in T
  <2>1. g[0] = f[0]  BY <1>2, <1>4
  <2>2. QED  BY <2>1
<1>6. ASSUME NEW n \in 1..N, n - 1 \in T PROVE n \in T
  <2>1. g[n - 1] = f[n - 1]  BY <1>6, <1>0
  <2>2. g[n] = g[n - 1] \o r[n]
    <3>1. n \in 1..(N + 1)  BY <1>0
    <3>2. QED  BY <1>4, <3>1
  <2>3. f[n] = f[n - 1] \o s[n]  BY <1>2
  <2>4. r[n] = s[n]  BY <1>1
  <2>5. g[n] = f[n]  BY <2>1, <2>2, <2>3, <2>4
  <2>6. QED  BY <2>5
<1>7. 0..N \subseteq T
  <2> HIDE DEF T
  <2>1. QED  BY <1>0, <1>5, <1>6, BoundedInduction
<1>8. g[N] = f[N]  BY <1>0, <1>7
<1>9. g[N + 1] = g[N] \o t
  <2>1. N + 1 \in 1..(N + 1) /\ (N + 1) - 1 = N  BY <1>0
  <2>2. g[N + 1] = g[(N + 1) - 1] \o r[N + 1]  BY <1>4, <2>1
  <2>3. QED  BY <1>1, <2>1, <2>2
<1>10. QED  BY <1>2, <1>4, <1>8, <1>9 DEF r

\* Two sequences of sequences can be flattened one by one.
LEMMA FlattenConcat ==
    ASSUME NEW S, NEW s \in Seq(Seq(S)), NEW t \in Seq(Seq(S))
    PROVE  FlattenSeq(s \o t) = FlattenSeq(s) \o FlattenSeq(t)
<1> DEFINE Q == Seq(S)
           T == {u \in Seq(Q) : FlattenSeq(s \o u) = FlattenSeq(s) \o FlattenSeq(u)}
<1>1. <<>> \in T
  <2>1. s \o <<>> = s /\ <<>> \in Seq(Q)  BY ConcatEmptySeq
  <2>2. FlattenSeq(<<>>) = <<>> /\ FlattenSeq(s) \in Seq(S)  BY FlattenType
  <2>3. FlattenSeq(s) \o <<>> = FlattenSeq(s)  BY <2>2, ConcatEmptySeq
  <2>4. QED  BY <2>1, <2>2, <2>3
<1>2. ASSUME NEW u \in Seq(Q), NEW e \in Q, u \in T PROVE Append(u, e) \in T
  <2>1. s \o Append(u, e) = Append(s \o u, e)  BY AppendConcat
  <2>2. s \o u \in Seq(Q) /\ Append(u, e) \in Seq(Q)  BY ConcatProperties, AppendProperties
  <2>3. FlattenSeq(Append(s \o u, e)) = FlattenSeq(s \o u) \o e  BY <2>2, FlattenAppend
  <2>4. FlattenSeq(Append(u, e)) = FlattenSeq(u) \o e  BY FlattenAppend
  <2>5. FlattenSeq(s) \in Seq(S) /\ FlattenSeq(u) \in Seq(S)  BY FlattenType
  <2>6. (FlattenSeq(s) \o FlattenSeq(u)) \o e = FlattenSeq(s) \o (FlattenSeq(u) \o e)
    BY SMTT(30), <2>5, ConcatAssociative
  <2>7. FlattenSeq(s \o u) = FlattenSeq(s) \o FlattenSeq(u)  BY <1>2
  <2>8. QED  BY <2>1, <2>2, <2>3, <2>4, <2>6, <2>7
<1>3. Seq(Q) \subseteq T
  <2> HIDE DEF T, Q
  <2>1. QED  BY <1>1, <1>2, SequenceInduction
<1>4. QED  BY <1>3

\* The elements of the first sequence come first.
LEMMA FlattenTail ==
    ASSUME NEW S, NEW s \in Seq(Seq(S)), s # <<>>
    PROVE  /\ Head(s) \in Seq(S) /\ Tail(s) \in Seq(Seq(S))
           /\ FlattenSeq(s) = Head(s) \o FlattenSeq(Tail(s))
<1> DEFINE Q == Seq(S)
<1>1. Head(s) \in Q /\ Tail(s) \in Seq(Q)  BY HeadTailProperties
<1>2. <<>> \in Seq(Q) /\ Append(<<>>, Head(s)) \o Tail(s) = <<>> \o s  BY MoveHead
<1>3. <<>> \o s = s  BY ConcatEmptySeq
<1>4. Append(<<>>, Head(s)) \in Seq(Q)  BY <1>1, <1>2, AppendProperties
<1>5. FlattenSeq(Append(<<>>, Head(s)) \o Tail(s))
        = FlattenSeq(Append(<<>>, Head(s))) \o FlattenSeq(Tail(s))
  BY <1>1, <1>4, FlattenConcat
<1>6. FlattenSeq(Append(<<>>, Head(s))) = FlattenSeq(<<>>) \o Head(s)
  BY <1>1, <1>2, FlattenAppend
<1>7. FlattenSeq(<<>>) = <<>> /\ <<>> \o Head(s) = Head(s)
  BY <1>1, FlattenType, ConcatEmptySeq
<1>8. QED  BY <1>1, <1>2, <1>3, <1>5, <1>6, <1>7

-----------------------------------------------------------------------------
(* Parts of sequences.                                                     *)

\* A sequence is its front and its last element.
LEMMA FrontLast ==
    ASSUME NEW S, NEW s \in Seq(S), s # <<>>
    PROVE  Front(s) \in Seq(S) /\ Last(s) \in S /\ Append(Front(s), Last(s)) = s
<1>1. Len(s) \in Nat \ {0}  BY EmptySeq
<1>2. /\ Front(s) \in Seq(S) /\ Len(Front(s)) = Len(s) - 1
      /\ \A i \in 1..(Len(s) - 1) : Front(s)[i] = s[i]
  <2>1. Len(s) - 1 \in 0..Len(s)  BY <1>1
  <2>2. \A n \in 0..Len(s) : /\ SubSeq(s, 1, n) \in Seq(S) /\ Len(SubSeq(s, 1, n)) = n
                             /\ \A i \in 1..n : SubSeq(s, 1, n)[i] = s[i]
    OBVIOUS
  <2>3. QED  BY <2>1, <2>2 DEF Front
<1>3. Last(s) \in S /\ Last(s) = s[Len(s)]  BY <1>1 DEF Last
<1>4. /\ Append(Front(s), Last(s)) \in Seq(S) /\ Len(Append(Front(s), Last(s))) = Len(s)
      /\ \A i \in 1..Len(s) : Append(Front(s), Last(s))[i] = s[i]
  <2> DEFINE r == Front(s)
             e == Last(s)
  <2> HIDE DEF r, e
  <2>1. /\ Append(r, e) \in Seq(S) /\ Len(Append(r, e)) = Len(r) + 1
        /\ \A i \in 1..Len(r) : Append(r, e)[i] = r[i]
        /\ Append(r, e)[Len(r) + 1] = e
    BY <1>2, <1>3, AppendProperties DEF r, e
  <2>2. Len(r) = Len(s) - 1 /\ (\A i \in 1..(Len(s) - 1) : r[i] = s[i]) /\ e = s[Len(s)]
    BY <1>2, <1>3 DEF r, e
  <2>3. \A i \in 1..Len(s) : Append(r, e)[i] = s[i]  BY <1>1, <2>1, <2>2
  <2>4. Len(Append(r, e)) = Len(s)  BY <1>1, <2>1, <2>2
  <2>5. QED  BY <2>1, <2>3, <2>4 DEF r, e
<1>5. QED  BY <1>2, <1>3, <1>4, SeqEqual

\* Two adjoining parts are one.
LEMMA SubSeqConcat ==
    ASSUME NEW S, NEW s \in Seq(S), NEW a \in 0..Len(s), NEW b \in a..Len(s)
    PROVE  SubSeq(s, 1, a) \o SubSeq(s, a + 1, b) = SubSeq(s, 1, b)
<1> DEFINE x == SubSeq(s, 1, a)
           y == SubSeq(s, a + 1, b)
           z == SubSeq(s, 1, b)
<1>1. x \in Seq(S) /\ Len(x) = a /\ \A i \in 1..a : x[i] = s[i]  OBVIOUS
<1>2. y \in Seq(S) /\ Len(y) = b - a /\ \A i \in 1..(b - a) : y[i] = s[a + i]  OBVIOUS
<1>3. z \in Seq(S) /\ Len(z) = b /\ \A i \in 1..b : z[i] = s[i]  OBVIOUS
<1> HIDE DEF x, y, z
<1>4. /\ x \o y \in Seq(S) /\ Len(x \o y) = Len(x) + Len(y)
      /\ \A i \in 1..(Len(x) + Len(y)) : (x \o y)[i] = IF i <= Len(x) THEN x[i] ELSE y[i - Len(x)]
  BY <1>1, <1>2, ConcatProperties
<1>5. Len(x \o y) = b  BY <1>1, <1>2, <1>4
<1>6. ASSUME NEW i \in 1..b PROVE (x \o y)[i] = s[i]
  <2>1. CASE i <= a  BY <1>1, <1>2, <1>4, <2>1
  <2>2. CASE ~(i <= a)
    <3>1. i - a \in 1..(b - a) /\ a + (i - a) = i  BY <2>2
    <3>2. (x \o y)[i] = y[i - a]  BY <1>1, <1>2, <1>4, <2>2
    <3>3. y[i - a] = s[a + (i - a)]  BY <1>2, <3>1
    <3>4. QED  BY <3>1, <3>2, <3>3
  <2>3. QED  BY <2>1, <2>2
<1>7. x \o y = z  BY <1>3, <1>4, <1>5, <1>6, SeqEqual
<1>8. QED  BY <1>7 DEF x, y, z

\* The elements of a concatenation.
LEMMA ConcatElements ==
    ASSUME NEW S, NEW s \in Seq(S), NEW t \in Seq(S)
    PROVE  /\ s \o t \in Seq(S) /\ Len(s) \in Nat /\ Len(t) \in Nat
           /\ DOMAIN s = 1..Len(s) /\ DOMAIN t = 1..Len(t)
           /\ Len(s \o t) = Len(s) + Len(t) /\ DOMAIN (s \o t) = 1..(Len(s) + Len(t))
           /\ \A j \in 1..(Len(s) + Len(t)) : (s \o t)[j] = IF j <= Len(s) THEN s[j] ELSE t[j - Len(s)]
<1>1. s \o t \in Seq(S) /\ Len(s) \in Nat /\ Len(t) \in Nat /\ Len(s \o t) = Len(s) + Len(t)
  OBVIOUS
<1>2. DOMAIN s = 1..Len(s) /\ DOMAIN t = 1..Len(t) /\ DOMAIN (s \o t) = 1..Len(s \o t)  BY <1>1
<1>3. \A j \in 1..(Len(s) + Len(t)) : (s \o t)[j] = IF j <= Len(s) THEN s[j] ELSE t[j - Len(s)]
  OBVIOUS
<1>4. QED  BY <1>1, <1>2, <1>3

\* A concatenation begins with its first part.
LEMMA PrefixOfConcat ==
    ASSUME NEW S, NEW s \in Seq(S), NEW t \in Seq(S), NEW n \in 0..Len(s)
    PROVE  SubSeq(s \o t, 1, n) = SubSeq(s, 1, n)
<1>1. s \o t \in Seq(S) /\ Len(s \o t) = Len(s) + Len(t) /\ Len(s) \in Nat /\ Len(t) \in Nat  OBVIOUS
<1> DEFINE u == s \o t
<1>2. \A i \in 1..n : u[i] = s[i]  OBVIOUS
<1>3. u \in Seq(S) /\ n <= Len(u)  BY <1>1
<1> HIDE DEF u
<1>4. SubSeq(u, 1, n) = [i \in 1..n |-> u[i]]  BY <1>3
<1>5. SubSeq(s, 1, n) = [i \in 1..n |-> s[i]]  OBVIOUS
<1>6. SubSeq(u, 1, n) = SubSeq(s, 1, n)  BY <1>2, <1>4, <1>5
<1>7. QED  BY <1>6 DEF u

\* A part is the part that is one shorter, and its last element.
LEMMA SubSeqAppend ==
    ASSUME NEW S, NEW s \in Seq(S), NEW n \in 1..Len(s)
    PROVE  SubSeq(s, 1, n) = Append(SubSeq(s, 1, n - 1), s[n])
<1>1. SubSeq(s, 1, n - 1) \o SubSeq(s, n, n) = SubSeq(s, 1, n)
  <2>1. n - 1 \in 0..Len(s) /\ n \in (n - 1)..Len(s) /\ (n - 1) + 1 = n  OBVIOUS
  <2>2. SubSeq(s, 1, n - 1) \o SubSeq(s, (n - 1) + 1, n) = SubSeq(s, 1, n)
    BY <2>1, SubSeqConcat
  <2>3. QED  BY <2>1, <2>2
<1>2. SubSeq(s, n, n) = <<s[n]>>
  <2>1. SubSeq(s, n, n) \in Seq(S) /\ Len(SubSeq(s, n, n)) = 1 /\ SubSeq(s, n, n)[1] = s[n]
    OBVIOUS
  <2>2. <<s[n]>> \in Seq(S) /\ Len(<<s[n]>>) = 1 /\ <<s[n]>>[1] = s[n]  OBVIOUS
  <2> DEFINE x == SubSeq(s, n, n)
             y == <<s[n]>>
  <2>3. \A i \in 1..1 : x[i] = y[i]  BY <2>1, <2>2
  <2> HIDE DEF x, y
  <2>4. x = y  BY <2>1, <2>2, <2>3, SeqEqual DEF x, y
  <2>5. QED  BY <2>4 DEF x, y
<1>3. SubSeq(s, 1, n - 1) \in Seq(S) /\ s[n] \in S  OBVIOUS
<1>4. Append(SubSeq(s, 1, n - 1), s[n]) = SubSeq(s, 1, n - 1) \o <<s[n]>>
  BY <1>3, AppendIsConcat
<1>5. QED  BY <1>1, <1>2, <1>4

-----------------------------------------------------------------------------
(* The elements of a finite set in a sequence.                             *)

\* The elements of a finite set in a sequence are those of the set.
LEMMA SetToSeqProperties ==
    ASSUME NEW S, IsFiniteSet(S)
    PROVE  SetToSeq(S) \in Seq(S) /\ ToSet(SetToSeq(S)) = S
<1> DEFINE N == Cardinality(S)
           s == SetToSeq(S)
<1>1. N \in Nat /\ ExistsBijection(1..N, S)  BY FS_CardinalityType
<1>2. \E f \in [1..N -> S] : IsInjective(f)
  <2>1. PICK f \in Bijection(1..N, S) : TRUE  BY <1>1 DEF ExistsBijection
  <2>2. f \in [1..N -> S] /\ IsInjective(f)  BY <2>1 DEF Bijection, Injection
  <2>3. QED  BY <2>2
<1>3. s \in [1..N -> S] /\ IsInjective(s)  BY <1>2 DEF SetToSeq
<1>4. s \in Injection(1..N, S)  BY <1>3 DEF Injection
<1>5. IsFiniteSet(1..N) /\ Cardinality(1..N) = N
  <2>1. \A h \in Nat : IsFiniteSet(1..h) /\ Cardinality(1..h) = h  BY FS_Interval
  <2>2. QED  BY <1>1, <2>1
<1>6. s \in Surjection(1..N, S)
  <2> HIDE DEF s
  <2>1. QED  BY <1>4, <1>5, FS_Injection DEF N
<1>7. \A x \in S : \E n \in 1..N : s[n] = x  BY <1>6 DEF Surjection
<1>8. s \in Seq(S) /\ DOMAIN s = 1..N  BY <1>1, <1>3
<1>9. ToSet(s) = S
  <2> HIDE DEF s, N
  <2>1. QED  BY <1>3, <1>7, <1>8 DEF ToSet
<1>10. QED  BY <1>8, <1>9

-----------------------------------------------------------------------------
(* Sequences whose elements are in the order that a set of pairs gives.    *)

SortedBy(s, R) == \A i, j \in DOMAIN s : i < j => <<s[i], s[j]>> \in R

\* What two sorted sequences have together is sorted, if what is in the first
\* may precede what is in the second.
LEMMA SortedConcat ==
    ASSUME NEW S, NEW s \in Seq(S), NEW t \in Seq(S), NEW R
    PROVE  SortedBy(s \o t, R) <=>
             SortedBy(s, R) /\ SortedBy(t, R) /\ \A a \in ToSet(s), b \in ToSet(t) : <<a, b>> \in R
<1> DEFINE u == s \o t
           m == Len(s)
           n == Len(t)
<1>1. /\ u \in Seq(S) /\ m \in Nat /\ n \in Nat /\ DOMAIN s = 1..m /\ DOMAIN t = 1..n
      /\ DOMAIN u = 1..(m + n) /\ \A j \in 1..(m + n) : u[j] = IF j <= m THEN s[j] ELSE t[j - m]
  BY ConcatElements
<1> HIDE DEF u, m, n
<1>2. \A i \in 1..m : i \in 1..(m + n) /\ u[i] = s[i]  BY <1>1
<1>3. ASSUME NEW i \in 1..n PROVE i + m \in 1..(m + n) /\ u[i + m] = t[i] /\ \A j \in 1..m : j < i + m
  <2>1. i + m \in 1..(m + n) /\ ~(i + m <= m) /\ (i + m) - m = i /\ \A j \in 1..m : j < i + m
    BY <1>1
  <2>2. QED  BY <1>1, <2>1
<1>4. ASSUME SortedBy(u, R)
      PROVE  SortedBy(s, R) /\ SortedBy(t, R) /\ \A a \in ToSet(s), b \in ToSet(t) : <<a, b>> \in R
  <2>1. SortedBy(s, R)  BY <1>1, <1>2, <1>4 DEF SortedBy
  <2>2. SortedBy(t, R)
    <3>1. \A i, j \in 1..n : i < j => i + m < j + m  BY <1>1
    <3>2. QED  BY <1>1, <1>3, <1>4, <3>1 DEF SortedBy
  <2>3. ASSUME NEW i \in 1..m, NEW j \in 1..n PROVE <<s[i], t[j]>> \in R
    BY <1>1, <1>2, <1>3, <1>4 DEF SortedBy
  <2>4. QED  BY <1>1, <2>1, <2>2, <2>3 DEF ToSet
<1>5. ASSUME SortedBy(s, R), SortedBy(t, R), \A a \in ToSet(s), b \in ToSet(t) : <<a, b>> \in R,
             NEW i \in 1..(m + n), NEW j \in 1..(m + n), i < j
      PROVE  <<u[i], u[j]>> \in R
  <2>1. CASE j <= m
    <3>1. i \in 1..m /\ j \in 1..m  BY <1>1, <1>5, <2>1
    <3>2. QED  BY <1>1, <1>2, <1>5, <3>1 DEF SortedBy
  <2>2. CASE ~(i <= m)
    <3>1. i - m \in 1..n /\ j - m \in 1..n /\ i - m < j - m /\ ~(j <= m)  BY <1>1, <1>5, <2>2
    <3>2. u[i] = t[i - m] /\ u[j] = t[j - m]  BY <1>1, <2>2, <3>1
    <3>3. QED  BY <1>1, <1>5, <3>1, <3>2 DEF SortedBy
  <2>3. CASE i <= m /\ ~(j <= m)
    <3>1. i \in 1..m /\ j - m \in 1..n  BY <1>1, <2>3
    <3>2. u[i] = s[i] /\ u[j] = t[j - m]  BY <1>1, <2>3
    <3>3. s[i] \in ToSet(s) /\ t[j - m] \in ToSet(t)  BY <1>1, <3>1 DEF ToSet
    <3>4. QED  BY <1>5, <3>2, <3>3
  <2>4. QED  BY <2>1, <2>2, <2>3
<1>6. QED  BY <1>1, <1>4, <1>5 DEF SortedBy, u

\* What is flattened holds what its parts hold,
LEMMA FlattenElements ==
    ASSUME NEW S, NEW s \in Seq(Seq(S))
    PROVE  ToSet(FlattenSeq(s)) = UNION {ToSet(s[i]) : i \in DOMAIN s}
<1> DEFINE N == Len(s)
           Held(n) == UNION {ToSet(s[i]) : i \in 1..n}
<1>1. PICK f \in [0..N -> Seq(S)] :
        /\ f[0] = <<>> /\ \A n \in 1..N : f[n] = f[n - 1] \o s[n]
        /\ FlattenSeq(s) = f[N]
  BY FlattenRecursion
<1>2. N \in Nat /\ DOMAIN s = 1..N /\ \A n \in 1..N : s[n] \in Seq(S)  OBVIOUS
<1> DEFINE T == {n \in Nat : n \in 0..N /\ ToSet(f[n]) = Held(n)}
<1>3. 0 \in T
  <2>1. ToSet(f[0]) = {}  BY <1>1 DEF ToSet
  <2>2. QED  BY <1>2, <2>1
<1>4. ASSUME NEW n \in 1..N, n - 1 \in T PROVE n \in T
  <2>0. n - 1 \in 0..N  BY <1>2
  <2>1. f[n - 1] \in Seq(S) /\ s[n] \in Seq(S) /\ f[n] = f[n - 1] \o s[n]
    <3>1. f[n - 1] \in Seq(S)  BY <2>0
    <3>2. QED  BY <1>1, <1>2, <3>1
  <2>2. ToSet(f[n]) = ToSet(f[n - 1]) \cup ToSet(s[n])
    <3> DEFINE a == f[n - 1]
               b == s[n]
    <3> HIDE DEF a, b
    <3>1. ToSet(a \o b) = ToSet(a) \cup ToSet(b)  BY <2>1, ToSetConcat DEF a, b
    <3>2. QED  BY <2>1, <3>1 DEF a, b
  <2>3. Held(n) = Held(n - 1) \cup ToSet(s[n])
    <3>1. \A i \in 1..n : i \in 1..(n - 1) \/ i = n  OBVIOUS
    <3>2. \A i \in 1..(n - 1) : i \in 1..n  OBVIOUS
    <3>3. QED  BY <3>1, <3>2
  <2>4. n \in 0..N /\ n \in Nat  OBVIOUS
  <2>5. QED  BY <1>4, <2>2, <2>3, <2>4
<1>5. 0..N \subseteq T
  <2> HIDE DEF T
  <2>1. QED  BY <1>2, <1>3, <1>4, BoundedInduction
<1>6. N \in T  BY <1>2, <1>5
<1>7. QED  BY <1>1, <1>2, <1>6

\* and is sorted if they are, among each other too.
LEMMA FlattenSorted ==
    ASSUME NEW S, NEW s \in Seq(Seq(S)), NEW R, \A i \in DOMAIN s : SortedBy(s[i], R),
           \A i, j \in DOMAIN s : i < j => \A a \in ToSet(s[i]), b \in ToSet(s[j]) : <<a, b>> \in R
    PROVE  SortedBy(FlattenSeq(s), R)
<1> DEFINE N == Len(s)
<1>1. PICK f \in [0..N -> Seq(S)] :
        /\ f[0] = <<>> /\ \A n \in 1..N : f[n] = f[n - 1] \o s[n]
        /\ FlattenSeq(s) = f[N]
  BY FlattenRecursion
<1>2. N \in Nat /\ DOMAIN s = 1..N /\ \A n \in 1..N : s[n] \in Seq(S)  OBVIOUS
<1> DEFINE T == {n \in Nat : n \in 0..N /\ SortedBy(f[n], R) /\ \A a \in ToSet(f[n]) : \E i \in 1..n : a \in ToSet(s[i])}
<1>3. 0 \in T
  <2>1. ToSet(f[0]) = {} /\ SortedBy(f[0], R)  BY <1>1 DEF ToSet, SortedBy
  <2>2. QED  BY <1>2, <2>1
<1>4. ASSUME NEW n \in 1..N, n - 1 \in T PROVE n \in T
  <2> DEFINE a == f[n - 1]
             b == s[n]
  <2>0. n - 1 \in 0..N  BY <1>2
  <2>1. a \in Seq(S) /\ b \in Seq(S) /\ f[n] = a \o b
    <3>1. a \in Seq(S)  BY <2>0
    <3>2. QED  BY <1>1, <1>2, <3>1
  <2>2. SortedBy(a, R) /\ \A x \in ToSet(a) : \E i \in 1..(n - 1) : x \in ToSet(s[i])  BY <1>4
  <2>3. SortedBy(b, R)  BY <1>2
  <2>4. \A x \in ToSet(a), y \in ToSet(b) : <<x, y>> \in R
    <3>1. ASSUME NEW x \in ToSet(a), NEW y \in ToSet(b) PROVE <<x, y>> \in R
      <4>1. PICK i \in 1..(n - 1) : x \in ToSet(s[i])  BY <2>2
      <4>2. i \in DOMAIN s /\ n \in DOMAIN s /\ i < n  BY <1>2, <4>1
      <4>3. QED  BY <4>1, <4>2
    <3>2. QED  BY Zenon, <3>1
  <2> HIDE DEF a, b
  <2>5. SortedBy(a \o b, R) /\ ToSet(a \o b) = ToSet(a) \cup ToSet(b)
    BY <2>1, <2>2, <2>3, <2>4, SortedConcat, ToSetConcat
  <2>6. \A x \in ToSet(a \o b) : \E i \in 1..n : x \in ToSet(s[i])
    <3>1. \A i \in 1..(n - 1) : i \in 1..n  OBVIOUS
    <3>2. n \in 1..n  OBVIOUS
    <3>3. QED  BY <2>2, <2>5, <3>1, <3>2 DEF b
  <2>7. n \in 0..N /\ n \in Nat  OBVIOUS
  <2>8. QED  BY <2>1, <2>5, <2>6, <2>7
<1>5. 0..N \subseteq T
  <2> HIDE DEF T
  <2>1. QED  BY <1>2, <1>3, <1>4, BoundedInduction
<1>6. N \in T  BY <1>2, <1>5
<1>7. QED  BY <1>1, <1>6

\* An element of a sequence without repetitions occurs once in it.
LEMMA OccursOnce ==
    ASSUME NEW S, NEW s \in Seq(S), NEW R, SortedBy(s, R), \A x \in S : <<x, x>> \notin R, NEW m
    PROVE  Occurs(s, {m}) = IF m \in ToSet(s) THEN 1 ELSE 0
<1> DEFINE D == {n \in DOMAIN s : s[n] \in {m}}
<1>1. DOMAIN s = 1..Len(s) /\ \A i \in DOMAIN s : s[i] \in S /\ i \in Int  OBVIOUS
<1>2. \A i, j \in D : i = j
  <2>1. ASSUME NEW i \in D, NEW j \in D, i # j PROVE FALSE
    <3>1. i < j \/ j < i  BY <1>1, <2>1
    <3>2. s[i] = m /\ s[j] = m /\ m \in S  BY <1>1
    <3>3. <<m, m>> \in R  BY <3>1, <3>2 DEF SortedBy
    <3>4. QED  BY <3>2, <3>3
  <2>2. QED  BY <2>1
<1>3. CASE m \in ToSet(s)
  <2>1. PICK i \in DOMAIN s : s[i] = m  BY <1>3 DEF ToSet
  <2>2. D = {i}  BY <1>2, <2>1
  <2>3. Cardinality({i}) = 1  BY FS_Singleton
  <2>4. QED  BY <1>3, <2>2, <2>3 DEF Occurs
<1>4. CASE m \notin ToSet(s)
  <2>1. D = {}  BY <1>4 DEF ToSet
  <2>2. QED  BY <1>4, <2>1, FS_EmptySet DEF Occurs
<1>5. QED  BY <1>3, <1>4

\* The elements of a sequence that are in a set, in their order.
Those(s, P) == FlattenSeq([i \in DOMAIN s |-> IF s[i] \in P THEN <<s[i]>> ELSE <<>>])
LEMMA ThoseProperties ==
    ASSUME NEW S, NEW s \in Seq(S), NEW P, NEW R
    PROVE  /\ Those(s, P) \in Seq(S) /\ ToSet(Those(s, P)) = ToSet(s) \cap P
           /\ SortedBy(s, R) => SortedBy(Those(s, P), R)
<1> DEFINE t == [i \in DOMAIN s |-> IF s[i] \in P THEN <<s[i]>> ELSE <<>>]
<1>1. Len(s) \in Nat /\ DOMAIN s = 1..Len(s) /\ \A i \in DOMAIN s : s[i] \in S  OBVIOUS
<1>2. t \in Seq(Seq(S)) /\ DOMAIN t = DOMAIN s
  <2>1. \A i \in DOMAIN s : (IF s[i] \in P THEN <<s[i]>> ELSE <<>>) \in Seq(S)  BY <1>1
  <2>2. t \in [1..Len(s) -> Seq(S)]  BY <1>1, <2>1
  <2>3. QED  BY <1>1, <2>2
<1>3. \A i \in DOMAIN s : ToSet(t[i]) = {s[i]} \cap P
  <2>1. ASSUME NEW i \in DOMAIN s, s[i] \in P PROVE ToSet(t[i]) = {s[i]}
    <3>1. t[i] = <<s[i]>>  BY <2>1
    <3>2. QED  BY <3>1 DEF ToSet
  <2>2. ASSUME NEW i \in DOMAIN s, s[i] \notin P PROVE ToSet(t[i]) = {}
    <3>1. t[i] = <<>>  BY <2>2
    <3>2. QED  BY <3>1 DEF ToSet
  <2>3. QED  BY <2>1, <2>2
<1>4. \A i \in DOMAIN s : SortedBy(t[i], R)
  <2>1. \A i \in DOMAIN s : t[i] = <<s[i]>> \/ t[i] = <<>>  OBVIOUS
  <2>2. \A x : SortedBy(<<x>>, R) /\ SortedBy(<<>>, R)  BY DEF SortedBy
  <2>3. QED  BY <2>1, <2>2
<1> HIDE DEF t
<1>5. FlattenSeq(t) \in Seq(S) /\ ToSet(FlattenSeq(t)) = UNION {ToSet(t[i]) : i \in DOMAIN t}
  BY <1>2, FlattenType, FlattenElements
<1>6. ToSet(FlattenSeq(t)) = ToSet(s) \cap P
  <2>1. ToSet(s) = {s[i] : i \in DOMAIN s}  BY DEF ToSet
  <2>2. QED  BY <1>2, <1>3, <1>5, <2>1
<1>7. ASSUME SortedBy(s, R) PROVE SortedBy(FlattenSeq(t), R)
  <2>1. \A i, j \in DOMAIN t : i < j => \A a \in ToSet(t[i]), b \in ToSet(t[j]) : <<a, b>> \in R
    BY <1>2, <1>3, <1>7 DEF SortedBy
  <2>2. QED  BY <1>2, <1>4, <2>1, FlattenSorted
<1>8. QED  BY <1>5, <1>6, <1>7 DEF Those, t

\* How many of the first i elements of a sequence are in a set.
Counted(s, P, i) == Cardinality({j \in 1 .. i : s[j] \in P})

LEMMA CountedProperties ==
    ASSUME NEW s, NEW P
    PROVE  /\ \A i \in Nat : /\ IsFiniteSet({j \in 1 .. i : s[j] \in P}) /\ Counted(s, P, i) \in 0 .. i
                             /\ \A p \in 1 .. i : s[p] \notin P => Counted(s, P, i) < i
           /\ Counted(s, P, 0) = 0
           /\ \A i \in Nat : Counted(s, P, i + 1) = IF s[i + 1] \in P THEN Counted(s, P, i) + 1 ELSE Counted(s, P, i)
<1> DEFINE C(i) == {j \in 1 .. i : s[j] \in P}
<1>1. ASSUME NEW i \in Nat
      PROVE  /\ IsFiniteSet(C(i)) /\ Cardinality(C(i)) \in 0 .. i
             /\ \A p \in 1 .. i : s[p] \notin P => Cardinality(C(i)) < i
  <2>1. IsFiniteSet(1 .. i) /\ Cardinality(1 .. i) = i
    BY FS_Interval
  <2>2. C(i) \in SUBSET (1 .. i)
    OBVIOUS
  <2>3. /\ IsFiniteSet(C(i)) /\ Cardinality(C(i)) <= Cardinality(1 .. i)
        /\ Cardinality(1 .. i) = Cardinality(C(i)) => 1 .. i = C(i)
    BY <2>1, <2>2, FS_Subset
  <2>4. Cardinality(C(i)) \in Nat
    BY <2>3, FS_CardinalityType
  <2>5. \A p \in 1 .. i : s[p] \notin P => p \notin C(i)
    OBVIOUS
  <2> HIDE DEF C
  <2> QED BY <2>1, <2>3, <2>4, <2>5
<1>2. C(0) = {}
  OBVIOUS
<1>3. ASSUME NEW i \in Nat
      PROVE  Cardinality(C(i + 1)) = IF s[i + 1] \in P THEN Cardinality(C(i)) + 1 ELSE Cardinality(C(i))
  <2>1. CASE s[i + 1] \in P
    <3>1. C(i + 1) = C(i) \cup {i + 1} /\ i + 1 \notin C(i)
      BY <2>1
    <3>2. IsFiniteSet(C(i))
      BY <1>1
    <3> HIDE DEF C
    <3> QED BY <2>1, <3>1, <3>2, FS_AddElement
  <2>2. CASE s[i + 1] \notin P
    <3>1. C(i + 1) = C(i)
      BY <2>2
    <3> QED BY <2>2, <3>1
  <2> QED BY <2>1, <2>2
<1> HIDE DEF C
<1>4. \A i : Counted(s, P, i) = Cardinality(C(i))
  BY DEF Counted, C
<1> QED BY ZenonT(30), <1>1, <1>2, <1>3, <1>4, FS_EmptySet DEF C

\* Each of those elements comes after those of the elements before it.
LEMMA ThosePlaces ==
    ASSUME NEW S, NEW s \in Seq(S), NEW P
    PROVE  /\ Those(s, P) \in Seq(S) /\ Len(Those(s, P)) = Counted(s, P, Len(s))
           /\ \A p \in 1 .. Len(s) : s[p] \in P => /\ Counted(s, P, p - 1) + 1 \in DOMAIN Those(s, P)
                                                   /\ Those(s, P)[Counted(s, P, p - 1) + 1] = s[p]
           /\ \A i \in DOMAIN Those(s, P) : \E p \in 1 .. Len(s) : s[p] \in P /\ i = Counted(s, P, p - 1) + 1
<1> DEFINE t == [i \in DOMAIN s |-> IF s[i] \in P THEN <<s[i]>> ELSE <<>>]
<1>1. PICK N \in Nat : N = Len(s) /\ DOMAIN s = 1 .. N /\ \A i \in 1 .. N : s[i] \in S
  OBVIOUS
<1>2. t \in Seq(Seq(S)) /\ Len(t) = N /\ \A i \in 1 .. N : t[i] = IF s[i] \in P THEN <<s[i]>> ELSE <<>>
  <2>1. \A i \in 1 .. N : (IF s[i] \in P THEN <<s[i]>> ELSE <<>>) \in Seq(S)
    BY <1>1
  <2>2. t \in [1 .. N -> Seq(S)]
    BY <1>1, <2>1
  <2> QED BY <1>1, <2>2
<1>3. Those(s, P) = FlattenSeq(t)
  BY DEF Those
<1> HIDE DEF t
<1>4. PICK f \in [0 .. N -> Seq(S)] : f[0] = <<>> /\ (\A n \in 1 .. N : f[n] = f[n - 1] \o t[n]) /\ FlattenSeq(t) = f[N]
  BY <1>2, FlattenRecursion
<1>5. PICK c \in [Nat -> Nat] : /\ \A i \in Nat : c[i] = Counted(s, P, i)
                               /\ c[0] = 0 /\ \A i \in Nat : c[i + 1] = IF s[i + 1] \in P THEN c[i] + 1 ELSE c[i]
  <2> DEFINE c == [i \in Nat |-> Counted(s, P, i)]
  <2>1. \A i \in Nat : Counted(s, P, i) \in Nat
    <3>1. \A i \in Nat : Counted(s, P, i) \in 0 .. i
      BY CountedProperties
    <3>2. \A i \in Nat : 0 .. i \subseteq Nat
      OBVIOUS
    <3> QED BY <3>1, <3>2, Zenon
  <2>2. \A i \in Nat : Counted(s, P, i + 1) = IF s[i + 1] \in P THEN Counted(s, P, i) + 1 ELSE Counted(s, P, i)
    BY CountedProperties
  <2>3. Counted(s, P, 0) = 0
    BY CountedProperties
  <2>4. c \in [Nat -> Nat] /\ c[0] = 0 /\ \A i \in Nat : c[i + 1] = IF s[i + 1] \in P THEN c[i] + 1 ELSE c[i]
    <3>1. c \in [Nat -> Nat] /\ \A i \in Nat : c[i] = Counted(s, P, i)
      BY <2>1
    <3>2. 0 \in Nat /\ \A i \in Nat : i + 1 \in Nat
      OBVIOUS
    <3> HIDE DEF c
    <3> QED BY <2>2, <2>3, <3>1, <3>2, Zenon
  <2>5. \A i \in Nat : c[i] = Counted(s, P, i)
    OBVIOUS
  <2> HIDE DEF c
  <2> QED BY <2>4, <2>5
<1> DEFINE Holds(n) == /\ Len(f[n]) = c[n]
                       /\ \A p \in 1 .. n : s[p] \in P => c[p - 1] + 1 \in 1 .. c[n] /\ f[n][c[p - 1] + 1] = s[p]
                       /\ \A i \in 1 .. c[n] : \E p \in 1 .. n : s[p] \in P /\ i = c[p - 1] + 1
           T == {n \in Nat : n \in 0 .. N => Holds(n)}
<1>6. 0 \in T
  <2>1. Len(f[0]) = c[0] /\ 1 .. c[0] = {} /\ 1 .. 0 = {}
    BY <1>4, <1>5, EmptySeq
  <2> QED BY <2>1
<1>7. ASSUME NEW n \in 1 .. N, n - 1 \in T
      PROVE  n \in T
  <2>1. PICK k \in Nat : k = n - 1 /\ k + 1 = n /\ k \in 0 .. N
    OBVIOUS
  <2>2. /\ Len(f[k]) = c[k] /\ f[k] \in Seq(S) /\ c[k] \in Nat
        /\ \A p \in 1 .. k : s[p] \in P => c[p - 1] + 1 \in 1 .. c[k] /\ f[k][c[p - 1] + 1] = s[p]
        /\ \A i \in 1 .. c[k] : \E p \in 1 .. k : s[p] \in P /\ i = c[p - 1] + 1
    BY <1>4, <1>5, <1>7, <2>1
  <2>t. Len(f[k]) = c[k] /\ f[k] \in Seq(S) /\ c[k] \in Nat /\ n \in Nat
    BY <2>2
  <2>3. f[n] = f[k] \o t[n] /\ t[n] = (IF s[n] \in P THEN <<s[n]>> ELSE <<>>) /\ c[n] = IF s[n] \in P THEN c[k] + 1 ELSE c[k]
    BY <1>2, <1>4, <1>5, <2>1
  <2>4. \A p \in 1 .. n : p \in 1 .. k \/ (p = n /\ p - 1 = k)
    BY <2>1
  <2>5. \A p \in 1 .. k : p \in 1 .. n
    BY <2>1
  <2>6. CASE s[n] \notin P
    <3>1. f[n] = f[k] /\ c[n] = c[k]
      BY <2>2, <2>3, <2>6, ConcatEmptySeq
    <3>2. \A p \in 1 .. n : s[p] \in P => p \in 1 .. k
      BY <2>4, <2>6
    <3>3. \A i \in 1 .. c[n] : \E p \in 1 .. n : s[p] \in P /\ i = c[p - 1] + 1
      BY <2>2, <2>5, <3>1
    <3>4. Holds(n)
      BY <2>2, <3>1, <3>2, <3>3
    <3> HIDE DEF Holds
    <3> QED BY <2>t, <3>4
  <2>7. CASE s[n] \in P
    <3>1. /\ Len(f[n]) = c[k] + 1 /\ f[n][c[k] + 1] = s[n] /\ \A i \in 1 .. c[k] : f[n][i] = f[k][i]
      <4>1. s[n] \in S
        BY <1>1
      <4>2. f[n] = f[k] \o <<s[n]>>
        BY <2>3, <2>7
      <4>3. f[n] = Append(f[k], s[n])
        BY <2>t, <4>1, <4>2, AppendIsConcat
      <4>4. /\ Len(f[n]) = Len(f[k]) + 1 /\ f[n][Len(f[k]) + 1] = s[n]
            /\ \A i \in 1 .. Len(f[k]) : f[n][i] = f[k][i]
        <5>1. /\ Len(Append(f[k], s[n])) = Len(f[k]) + 1 /\ Append(f[k], s[n])[Len(f[k]) + 1] = s[n]
              /\ \A i \in 1 .. Len(f[k]) : Append(f[k], s[n])[i] = f[k][i]
          <6>1. PICK u \in Seq(S), x \in S : u = f[k] /\ x = s[n]
            BY <2>t, <4>1
          <6>2. /\ Len(Append(u, x)) = Len(u) + 1 /\ Append(u, x)[Len(u) + 1] = x
                /\ \A i \in 1 .. Len(u) : Append(u, x)[i] = u[i]
            BY ONLY AppendProperties
          <6> QED BY <6>1, <6>2
        <5> QED BY <4>3, <5>1
      <4> QED BY <2>t, <4>4
    <3>2. c[n] = c[k] + 1
      BY <2>3, <2>7
    <3>3. \A i \in 1 .. c[k] : i \in 1 .. c[k] + 1
      BY <2>t
    <3>4. \A p \in 1 .. n : s[p] \in P => c[p - 1] + 1 \in 1 .. c[n] /\ f[n][c[p - 1] + 1] = s[p]
      <4>1. TAKE p \in 1 .. n
      <4>2. HAVE s[p] \in P
      <4>3. CASE p \in 1 .. k
        BY <2>2, <3>1, <3>2, <3>3, <4>2, <4>3
      <4>4. CASE p = n /\ p - 1 = k
        <5>1. c[k] + 1 \in 1 .. c[k] + 1
          <6>1. \A i \in Nat : i + 1 \in 1 .. i + 1
            OBVIOUS
          <6>2. c[k] \in Nat
            OBVIOUS
          <6> QED BY <6>1, <6>2
        <5> QED BY <3>1, <3>2, <4>4, <5>1
      <4> QED BY <2>4, <4>3, <4>4
    <3>5. \A i \in 1 .. c[n] : \E p \in 1 .. n : s[p] \in P /\ i = c[p - 1] + 1
      <4>1. TAKE i \in 1 .. c[n]
      <4>2. CASE i \in 1 .. c[k]
        BY <2>2, <2>5, <4>2
      <4>3. CASE i = c[k] + 1
        <5>1. n \in 1 .. n
          OBVIOUS
        <5> QED BY <2>1, <2>7, <4>3, <5>1
      <4>4. i \in 1 .. c[k] \/ i = c[k] + 1
        BY <2>t, <3>2
      <4> QED BY <4>2, <4>3, <4>4
    <3>6. Holds(n)
      BY <3>1, <3>2, <3>4, <3>5
    <3> HIDE DEF Holds
    <3> QED BY <2>t, <3>6
  <2> QED BY <2>6, <2>7
<1>8. 0 .. N \subseteq T
  <2> HIDE DEF T
  <2> QED BY <1>1, <1>6, <1>7, BoundedInduction
<1>9. N \in T
  BY <1>8
<1>10. /\ Len(f[N]) = c[N] /\ f[N] \in Seq(S)
       /\ \A p \in 1 .. N : s[p] \in P => c[p - 1] + 1 \in 1 .. c[N] /\ f[N][c[p - 1] + 1] = s[p]
       /\ \A i \in 1 .. c[N] : \E p \in 1 .. N : s[p] \in P /\ i = c[p - 1] + 1
  BY <1>9
<1>11. DOMAIN f[N] = 1 .. c[N]
  BY <1>10
<1> HIDE DEF T, Holds
<1>12. \A p \in 1 .. N : c[p - 1] = Counted(s, P, p - 1)
  <2>1. \A p \in 1 .. N : p - 1 \in Nat
    OBVIOUS
  <2> QED BY <1>5, <2>1
<1>13. c[N] = Counted(s, P, Len(s))
  BY <1>1, <1>5
<1>14. Those(s, P) = f[N]
  BY <1>3, <1>4
<1>15. Those(s, P) \in Seq(S) /\ Len(Those(s, P)) = Counted(s, P, Len(s)) /\ DOMAIN Those(s, P) = 1 .. c[N]
  BY <1>10, <1>11, <1>13, <1>14
<1>16. \A p \in 1 .. N : s[p] \in P => /\ Counted(s, P, p - 1) + 1 \in DOMAIN Those(s, P)
                                       /\ Those(s, P)[Counted(s, P, p - 1) + 1] = s[p]
  BY <1>10, <1>12, <1>14, <1>15
<1>17. \A i \in DOMAIN Those(s, P) : \E p \in 1 .. N : s[p] \in P /\ i = Counted(s, P, p - 1) + 1
  <2>1. TAKE i \in DOMAIN Those(s, P)
  <2>2. PICK p \in 1 .. N : s[p] \in P /\ i = c[p - 1] + 1
    BY <1>10, <1>15
  <2>3. i = Counted(s, P, p - 1) + 1
    BY <1>12, <2>2
  <2> QED BY <2>2, <2>3
<1> QED BY <1>1, <1>15, <1>16, <1>17

\* The rest of two sequences when the first element goes.
LEMMA TailConcat ==
    ASSUME NEW S1, NEW s \in Seq(S1), NEW t \in Seq(S1), s # <<>>
    PROVE  s \o t \in Seq(S1) /\ s \o t # <<>> /\ Head(s \o t) = Head(s) /\ Tail(s \o t) = Tail(s) \o t
<1>1. /\ Tail(s) \in Seq(S1) /\ Len(Tail(s)) = Len(s) - 1 /\ \A p \in 1 .. Len(s) - 1 : Tail(s)[p] = s[p + 1]
  BY HeadTailProperties
<1>2. PICK a \in Nat, b \in Nat : a = Len(s) /\ b = Len(t)
  OBVIOUS
<1>3. a # 0
  BY <1>2, EmptySeq
<1>4. s \o t \in Seq(S1) /\ Len(s \o t) = a + b /\ \A p \in 1 .. a + b : (s \o t)[p] = IF p <= a THEN s[p] ELSE t[p - a]
  BY <1>2, ConcatElements
<1>5. s \o t # <<>>
  BY <1>3, <1>4, EmptySeq
<1>6. /\ Tail(s \o t) \in Seq(S1) /\ Len(Tail(s \o t)) = (a + b) - 1
      /\ \A p \in 1 .. (a + b) - 1 : Tail(s \o t)[p] = (s \o t)[p + 1]
  BY <1>4, <1>5, HeadTailProperties
<1>7. /\ Tail(s) \o t \in Seq(S1) /\ Len(Tail(s) \o t) = (a - 1) + b
      /\ \A p \in 1 .. (a - 1) + b : (Tail(s) \o t)[p] = IF p <= a - 1 THEN Tail(s)[p] ELSE t[p - (a - 1)]
  BY <1>1, <1>2, ConcatElements
<1>8. /\ (a - 1) + b = (a + b) - 1 /\ (a + b) - 1 \in Nat /\ 1 \in 1 .. a + b /\ 1 <= a
      /\ \A p \in 1 .. (a + b) - 1 : /\ p + 1 \in 1 .. a + b /\ (p <= a - 1 <=> p + 1 <= a) /\ (p + 1) - a = p - (a - 1)
                                     /\ p <= a - 1 => p \in 1 .. a - 1
  BY <1>3
<1>9. \A p \in 1 .. (a + b) - 1 : Tail(s \o t)[p] = (Tail(s) \o t)[p]
  <2>1. TAKE p \in 1 .. (a + b) - 1
  <2>2. CASE p <= a - 1
    BY <1>1, <1>2, <1>4, <1>6, <1>7, <1>8, <2>2
  <2>3. CASE ~(p <= a - 1)
    BY <1>4, <1>6, <1>7, <1>8, <2>3
  <2> QED BY <2>2, <2>3
<1>10. Tail(s \o t) = Tail(s) \o t
  BY <1>6, <1>7, <1>8, <1>9, SeqEqual
<1>11. Head(s \o t) = Head(s)
  BY <1>4, <1>5, <1>8
<1> QED BY <1>4, <1>5, <1>10, <1>11

\* What is left of two sequences when n elements of the first are dropped.
LEMMA DropConcat ==
    ASSUME NEW S1, NEW s \in Seq(S1), NEW t \in Seq(S1), NEW n \in 0 .. Len(s)
    PROVE  LET r == SubSeq(s, n + 1, Len(s))
           IN /\ r \in Seq(S1) /\ Len(r) = Len(s) - n /\ (r = <<>> <=> n = Len(s))
              /\ r \o t \in Seq(S1) /\ Len(r \o t) = Len(s \o t) - n /\ DOMAIN (r \o t) = 1 .. Len(s \o t) - n
              /\ Len(s \o t) - n \in Nat /\ n \in 0 .. Len(s \o t) /\ Len(s \o t) \in Nat /\ n \in Nat
              /\ \A p \in 1 .. Len(s \o t) - n : (r \o t)[p] = (s \o t)[p + n] /\ p + n \in DOMAIN (s \o t) /\ p + n \notin 1 .. n
<1> DEFINE r == SubSeq(s, n + 1, Len(s))
<1>1. PICK a \in Nat, b \in Nat : a = Len(s) /\ b = Len(t)
  OBVIOUS
<1>2. n \in 0 .. a
  BY <1>1
<1>3. r \in Seq(S1) /\ Len(r) = a - n /\ \A p \in 1 .. a - n : r[p] = s[p + n]
  <2>1. /\ SubSeq(s, n + 1, a) \in Seq(S1) /\ Len(SubSeq(s, n + 1, a)) = a - (n + 1) + 1
        /\ \A p \in 1 .. a - (n + 1) + 1 : SubSeq(s, n + 1, a)[p] = s[(n + 1) + p - 1]
    <3>1. \A i \in 1 .. a + 1 : /\ SubSeq(s, i, a) \in Seq(S1) /\ Len(SubSeq(s, i, a)) = a - i + 1
                                /\ \A p \in 1 .. a - i + 1 : SubSeq(s, i, a)[p] = s[i + p - 1]
      BY <1>1
    <3>2. n + 1 \in 1 .. a + 1
      BY <1>2
    <3> QED BY <3>1, <3>2
  <2>2. a - (n + 1) + 1 = a - n /\ \A p \in 1 .. a - n : (n + 1) + p - 1 = p + n
    BY <1>2
  <2> QED BY <1>1, <2>1, <2>2
<1> HIDE DEF r
<1>4. r = <<>> <=> n = a
  <2>1. r = <<>> <=> Len(r) = 0
    BY <1>3, EmptySeq
  <2> QED BY <1>2, <1>3, <2>1
<1>5. /\ r \o t \in Seq(S1) /\ Len(r \o t) = (a - n) + b /\ DOMAIN (r \o t) = 1 .. (a - n) + b
      /\ \A p \in 1 .. (a - n) + b : (r \o t)[p] = IF p <= a - n THEN r[p] ELSE t[p - (a - n)]
  <2>1. r \in Seq(S1) /\ t \in Seq(S1)
    BY <1>3
  <2>2. /\ r \o t \in Seq(S1) /\ Len(r \o t) = Len(r) + Len(t) /\ DOMAIN (r \o t) = 1 .. Len(r) + Len(t)
        /\ \A p \in 1 .. Len(r) + Len(t) : (r \o t)[p] = IF p <= Len(r) THEN r[p] ELSE t[p - Len(r)]
    <3>1. r \o t \in Seq(S1)
      BY <2>1, ConcatProperties
    <3> QED BY <2>1, <3>1, ConcatElements
  <2>3. Len(r) = a - n /\ Len(t) = b
    BY <1>1, <1>3
  <2> QED BY <2>2, <2>3
<1>6. /\ Len(s \o t) = a + b /\ DOMAIN (s \o t) = 1 .. a + b
      /\ \A p \in 1 .. a + b : (s \o t)[p] = IF p <= a THEN s[p] ELSE t[p - a]
  BY <1>1, ConcatElements
<1>7. /\ (a - n) + b = (a + b) - n /\ (a + b) - n \in Nat /\ n \in 0 .. a + b /\ n \in Nat
      /\ \A p \in 1 .. (a + b) - n : /\ p + n \in 1 .. a + b /\ (p <= a - n <=> p + n <= a) /\ (p + n) - a = p - (a - n)
                                     /\ (p <= a - n => p \in 1 .. a - n) /\ p + n \notin 1 .. n
  BY <1>2
<1>8. \A p \in 1 .. (a + b) - n : (r \o t)[p] = (s \o t)[p + n]
  <2>1. TAKE p \in 1 .. (a + b) - n
  <2>2. p + n \in 1 .. a + b /\ (p <= a - n <=> p + n <= a) /\ (p + n) - a = p - (a - n) /\ (p <= a - n => p \in 1 .. a - n)
    BY <1>7
  <2>3. (r \o t)[p] = IF p <= a - n THEN r[p] ELSE t[p - (a - n)]
    BY <1>5, <1>7
  <2>4. (s \o t)[p + n] = IF p + n <= a THEN s[p + n] ELSE t[(p + n) - a]
    BY <1>6, <2>2
  <2>5. CASE p <= a - n
    BY <1>3, <2>2, <2>3, <2>4, <2>5
  <2>6. CASE ~(p <= a - n)
    <3>1. (r \o t)[p] = t[p - (a - n)] /\ (s \o t)[p + n] = t[(p + n) - a]
      BY <2>2, <2>3, <2>4, <2>6, Zenon
    <3> QED BY <2>2, <3>1, Zenon
  <2> QED BY <2>5, <2>6
<1>9. r \in Seq(S1) /\ Len(r) = Len(s) - n /\ (r = <<>> <=> n = Len(s))
  BY <1>1, <1>3, <1>4
<1>10. Len(r \o t) = Len(s \o t) - n /\ DOMAIN (r \o t) = 1 .. Len(s \o t) - n
  BY <1>5, <1>6, <1>7
<1>11. Len(s \o t) - n \in Nat /\ n \in 0 .. Len(s \o t) /\ Len(s \o t) \in Nat /\ n \in Nat
  BY <1>6, <1>7, <1>1
<1>12. \A p \in 1 .. Len(s \o t) - n : (r \o t)[p] = (s \o t)[p + n] /\ p + n \in DOMAIN (s \o t) /\ p + n \notin 1 .. n
  BY <1>6, <1>7, <1>8
<1> QED BY <1>5, <1>9, <1>10, <1>11, <1>12 DEF r

\* Where the elements of the second are.
LEMMA LandsAt ==
    ASSUME NEW S1, NEW s \in Seq(S1), NEW t \in Seq(S1)
    PROVE  \A i \in 1 .. Len(t) : /\ Len(s) + i \in DOMAIN (s \o t) /\ (s \o t)[Len(s) + i] = t[i]
                                  /\ Len(s) + i - 1 + 1 = Len(s) + i
<1>1. PICK a \in Nat, b \in Nat : a = Len(s) /\ b = Len(t)
  OBVIOUS
<1>2. /\ DOMAIN (s \o t) = 1 .. a + b
      /\ \A p \in 1 .. a + b : (s \o t)[p] = IF p <= a THEN s[p] ELSE t[p - a]
  BY <1>1, ConcatElements
<1>3. \A i \in 1 .. b : a + i \in 1 .. a + b /\ ~(a + i <= a) /\ (a + i) - a = i /\ a + i - 1 + 1 = a + i
  OBVIOUS
<1> QED BY <1>1, <1>2, <1>3
=============================================================================
