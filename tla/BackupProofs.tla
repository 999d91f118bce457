----------------------------- MODULE BackupProofs ------------------------------
(***************************************************************************)
(* Theorems about Backup, for every value of its constants.                *)
(***************************************************************************)
EXTENDS Backup, FiniteSetTheorems, SequenceTheorems, TLAPS

-----------------------------------------------------------------------------
(* Sequences without repetition *)

\* a comes before b in s.
Precedes(s, a, b) == \E i, j \in DOMAIN s : i < j /\ s[i] = a /\ s[j] = b

\* Induction over the naturals, for a predicate given by the set of those it holds of: the
\* counterexamples up to n would be mapped into themselves, but for n, by subtracting one.
LEMMA SetInduction ==
    ASSUME NEW S, 0 \in S, \A n \in Nat : n \in S => n + 1 \in S
    PROVE  Nat \subseteq S
  <1>1. SUFFICES ASSUME NEW n \in Nat, n \notin S PROVE FALSE
    OBVIOUS
  <1> DEFINE T == {m \in 1 .. n : m \notin S}
             f == [m \in T |-> m - 1]
  <1>2. n \in T
    BY <1>1
  <1>3. \A m \in T : m - 1 \in T
    <2>1. TAKE m \in T
    <2>2. m - 1 \in Nat /\ m - 1 \notin S
      OBVIOUS
    <2>3. m - 1 # 0
      BY <2>2
    <2>4. QED
      BY <2>2, <2>3
  <1>4. IsFiniteSet(T)
    <2>1. IsFiniteSet(1 .. n)
      BY FS_Interval
    <2>2. QED
      BY <2>1, FS_Subset
  <1>5. f \in [T -> T \ {n}]
    BY <1>3
  <1>6. Cardinality(T \ {n}) < Cardinality(T) /\ IsFiniteSet(T \ {n})
    <2>1. Cardinality(T \ {n}) = Cardinality(T) - 1 /\ IsFiniteSet(T \ {n})
      BY <1>2, <1>4, FS_RemoveElement
    <2>2. Cardinality(T) \in Nat
      BY <1>4, FS_CardinalityType
    <2>3. QED
      BY <2>1, <2>2
  <1>7. \E a, b \in T : a # b /\ f[a] = f[b]
    <2> HIDE DEF T, f
    <2> QED
      BY <1>4, <1>5, <1>6, FS_PigeonHole
  <1>8. QED
    BY <1>7

LEMMA RemoveAtFacts ==
    ASSUME NEW S, NEW s \in Seq(S), NEW k \in DOMAIN s
    PROVE  /\ RemoveAt(s, k) \in Seq(S)
           /\ Len(RemoveAt(s, k)) = Len(s) - 1
           /\ \A i \in 1 .. Len(s) - 1 : RemoveAt(s, k)[i] = IF i < k THEN s[i] ELSE s[i + 1]
  <1> DEFINE a == SubSeq(s, 1, k - 1)
             b == SubSeq(s, k + 1, Len(s))
  <1>1. Len(s) \in Nat /\ k \in 1 .. Len(s) /\ \A i \in 1 .. Len(s) : s[i] \in S
    BY LenProperties, ElementOfSeq
  <1>2. a \in Seq(S) /\ Len(a) = k - 1 /\ \A i \in 1 .. k - 1 : a[i] = s[i]
    <2>1. \A i \in 1 .. k - 1 : s[i] \in S
      BY <1>1
    <2>2. QED
      BY <1>1, <2>1, SubSeqProperties
  <1>3. b \in Seq(S) /\ Len(b) = Len(s) - k /\ \A i \in 1 .. Len(s) - k : b[i] = s[k + i]
    <2>1. \A i \in k + 1 .. Len(s) : s[i] \in S
      BY <1>1
    <2>2. /\ b \in Seq(S)
          /\ Len(b) = IF k + 1 <= Len(s) THEN Len(s) - (k + 1) + 1 ELSE 0
          /\ \A i \in 1 .. Len(s) - (k + 1) + 1 : b[i] = s[k + 1 + i - 1]
      BY <1>1, <2>1, SubSeqProperties
    <2>3. QED
      BY <1>1, <2>2
  <1> HIDE DEF a, b
  <1> DEFINE c == a \o b
  <1>4. /\ c \in Seq(S)
        /\ Len(c) = Len(a) + Len(b)
        /\ \A i \in 1 .. Len(a) + Len(b) : c[i] = IF i <= Len(a) THEN a[i] ELSE b[i - Len(a)]
    BY <1>2, <1>3, ConcatProperties
  <1>5. RemoveAt(s, k) = c
    BY DEF RemoveAt, a, b
  <1> HIDE DEF c
  <1>6. Len(a) + Len(b) = Len(s) - 1
    BY <1>1, <1>2, <1>3
  <1>7. \A i \in 1 .. Len(s) - 1 : c[i] = IF i < k THEN s[i] ELSE s[i + 1]
    <2> TAKE i \in 1 .. Len(s) - 1
    <2>1. c[i] = IF i <= k - 1 THEN a[i] ELSE b[i - (k - 1)]
      BY <1>2, <1>4, <1>6
    <2>2. CASE i < k
      BY <1>1, <1>2, <2>1, <2>2
    <2>3. CASE ~(i < k)
      <3>1. c[i] = b[i - (k - 1)] /\ i - (k - 1) \in 1 .. Len(s) - k
        BY <1>1, <2>1, <2>3
      <3>2. b[i - (k - 1)] = s[k + (i - (k - 1))] /\ k + (i - (k - 1)) = i + 1
        BY <1>1, <1>3, <3>1, SMTT(30)
      <3>3. QED
        BY <2>3, <3>1, <3>2
    <2>4. QED
      BY <2>2, <2>3
  <1>8. QED
    BY <1>4, <1>5, <1>6, <1>7

\* Removing the only occurrence of n leaves the others in their order.
LEMMA RemoveFacts ==
    ASSUME NEW S, NEW s \in Seq(S), IsInjective(s), NEW n
    PROVE  /\ RemoveFirst(s, n) \in Seq(S)
           /\ IsInjective(RemoveFirst(s, n))
           /\ Range(RemoveFirst(s, n)) = Range(s) \ {n}
           /\ Len(RemoveFirst(s, n)) <= Len(s)
           /\ \A a, b : a # n /\ b # n /\ Precedes(s, a, b) => Precedes(RemoveFirst(s, n), a, b)
  <1>1. Len(s) \in Nat /\ DOMAIN s = 1 .. Len(s)
    BY LenProperties
  <1>2. CASE n \notin Range(s)
    <2>1. RemoveFirst(s, n) = s
      BY <1>1, <1>2 DEF RemoveFirst, Range
    <2>2. QED
      BY <1>1, <1>2, <2>1
  <1>3. CASE n \in Range(s)
    <2>1. PICK k \in DOMAIN s : s[k] = n
      BY <1>3 DEF Range
    <2>2. {i \in 1 .. Len(s) : s[i] = n} = {k}
      BY <1>1, <2>1 DEF IsInjective
    <2>3. Min({k}) = k
      BY <1>1, <2>1 DEF Min
    <2>4. RemoveFirst(s, n) = RemoveAt(s, k)
      <3>1. SelectInSeq(s, LAMBDA v : v = n) = k
        BY <2>2, <2>3 DEF SelectInSeq
      <3>2. QED
        BY <1>1, <2>1, <3>1 DEF RemoveFirst
    <2> DEFINE r == RemoveAt(s, k)
    <2>5. /\ r \in Seq(S) /\ Len(r) = Len(s) - 1 /\ DOMAIN r = 1 .. Len(s) - 1
          /\ \A i \in 1 .. Len(s) - 1 : r[i] = IF i < k THEN s[i] ELSE s[i + 1]
      BY <2>1, RemoveAtFacts, LenProperties
    <2> HIDE DEF r
    <2> DEFINE from(i) == IF i < k THEN i ELSE i + 1
               to(i) == IF i < k THEN i ELSE i - 1
    <2>6. \A i \in DOMAIN r : from(i) \in DOMAIN s /\ from(i) # k /\ r[i] = s[from(i)]
      BY <1>1, <2>1, <2>5
    <2>7. \A i \in DOMAIN s : i # k => to(i) \in DOMAIN r /\ r[to(i)] = s[i]
      <3> TAKE i \in DOMAIN s
      <3>1. CASE i < k
        BY <1>1, <2>1, <2>5, <3>1
      <3>2. CASE i > k
        BY <1>1, <2>1, <2>5, <3>2
      <3>3. QED
        BY <1>1, <2>1, <3>1, <3>2
    <2>8. IsInjective(r)
      <3>1. SUFFICES ASSUME NEW i \in DOMAIN r, NEW j \in DOMAIN r, r[i] = r[j] PROVE i = j
        BY DEF IsInjective
      <3>2. from(i) = from(j)
        BY <2>6, <3>1 DEF IsInjective
      <3>3. QED
        BY <1>1, <2>1, <2>5, <3>2
    <2>9. Range(r) = Range(s) \ {n}
      <3>1. \A i \in DOMAIN r : r[i] # n
        BY <2>1, <2>6 DEF IsInjective
      <3>2. Range(r) \subseteq Range(s) \ {n}
        BY <2>6, <3>1 DEF Range
      <3>3. Range(s) \ {n} \subseteq Range(r)
        BY <2>1, <2>7 DEF Range
      <3>4. QED
        BY <3>2, <3>3
    <2>10. ASSUME NEW a, NEW b, a # n, b # n, Precedes(s, a, b) PROVE Precedes(r, a, b)
      <3>1. PICK i, j \in DOMAIN s : i < j /\ s[i] = a /\ s[j] = b
        BY <2>10 DEF Precedes
      <3>2. i # k /\ j # k
        BY <2>1, <2>10, <3>1
      <3>3. to(i) < to(j)
        BY <1>1, <2>1, <3>1, <3>2
      <3>4. QED
        BY <2>7, <3>1, <3>2, <3>3 DEF Precedes
    <2>11. QED
      BY <1>1, <2>4, <2>5, <2>8, <2>9, <2>10 DEF r
  <1>4. QED
    BY <1>2, <1>3

LEMMA TouchFacts ==
    ASSUME NEW S, NEW s \in Seq(S), IsInjective(s), NEW n \in S
    PROVE  LET t == Append(RemoveFirst(s, n), n)
           IN  /\ t \in Seq(S)
               /\ IsInjective(t)
               /\ Range(t) = Range(s) \cup {n}
               /\ \A a, b : a # n /\ b # n /\ Precedes(s, a, b) => Precedes(t, a, b)
               /\ \A a \in Range(s) \ {n} : Precedes(t, a, n)
  <1> DEFINE r == RemoveFirst(s, n)
             t == Append(r, n)
  <1>1. /\ r \in Seq(S) /\ IsInjective(r) /\ Range(r) = Range(s) \ {n}
        /\ \A a, b : a # n /\ b # n /\ Precedes(s, a, b) => Precedes(r, a, b)
    BY RemoveFacts
  <1> HIDE DEF r
  <1>2. /\ t \in Seq(S) /\ Len(t) = Len(r) + 1 /\ t[Len(r) + 1] = n
        /\ \A i \in 1 .. Len(r) : t[i] = r[i]
        /\ Len(r) \in Nat /\ DOMAIN r = 1 .. Len(r) /\ DOMAIN t = 1 .. Len(r) + 1
    BY <1>1, AppendProperties, LenProperties
  <1> HIDE DEF t
  <1>3. \A i \in DOMAIN r : r[i] # n
    BY <1>1 DEF Range
  <1>4. IsInjective(t)
    <2>1. SUFFICES ASSUME NEW i \in DOMAIN t, NEW j \in DOMAIN t, t[i] = t[j] PROVE i = j
      BY DEF IsInjective
    <2>2. CASE i \in DOMAIN r /\ j \in DOMAIN r
      BY <1>1, <1>2, <2>1, <2>2 DEF IsInjective
    <2>3. CASE i = Len(r) + 1 \/ j = Len(r) + 1
      BY <1>2, <1>3, <2>1, <2>3
    <2>4. QED
      BY <1>2, <2>2, <2>3
  <1>5. Range(t) = Range(r) \cup {n}
    <2>1. Range(t) \subseteq Range(r) \cup {n}
      BY <1>2 DEF Range
    <2>2. Range(r) \cup {n} \subseteq Range(t)
      <3>1. \A i \in DOMAIN r : i \in DOMAIN t /\ t[i] = r[i]
        BY <1>2
      <3>2. Len(r) + 1 \in DOMAIN t
        BY <1>2
      <3>3. QED
        BY <1>2, <3>1, <3>2 DEF Range
    <2>3. QED
      BY <2>1, <2>2
  <1>6. ASSUME NEW a, NEW b, a # n, b # n, Precedes(s, a, b) PROVE Precedes(t, a, b)
    <2>1. PICK i, j \in DOMAIN r : i < j /\ r[i] = a /\ r[j] = b
      BY <1>1, <1>6 DEF Precedes
    <2>2. i \in DOMAIN t /\ j \in DOMAIN t /\ t[i] = a /\ t[j] = b
      BY <1>2, <2>1
    <2>3. QED
      BY <2>1, <2>2 DEF Precedes
  <1>7. ASSUME NEW a \in Range(s) \ {n} PROVE Precedes(t, a, n)
    <2>1. PICK i \in DOMAIN r : r[i] = a
      BY <1>1 DEF Range
    <2>2. i \in DOMAIN t /\ t[i] = a /\ Len(r) + 1 \in DOMAIN t /\ i < Len(r) + 1
      BY <1>2, <2>1
    <2>3. QED
      BY <1>2, <2>2 DEF Precedes
  <1>8. Range(t) = Range(s) \cup {n}
    BY <1>1, <1>5
  <1>9. QED
    BY <1>2, <1>4, <1>6, <1>7, <1>8 DEF t, r

LEMMA FirstNaturals ==
    ASSUME NEW n \in Nat PROVE IsFiniteSet(1 .. n) /\ Cardinality(1 .. n) = n
  <1>1. IsFiniteSet(1 .. n) /\ Cardinality(1 .. n) = IF 1 > n THEN 0 ELSE n - 1 + 1
    BY FS_Interval
  <1>2. QED
    BY <1>1

\* A sequence without repetition is no longer than one that holds all its elements.
LEMMA NoLonger ==
    ASSUME NEW S, NEW s \in Seq(S), IsInjective(s), NEW t \in Seq(S), Range(s) \subseteq Range(t)
    PROVE  Len(s) <= Len(t)
  <1>1. /\ Len(s) \in Nat /\ DOMAIN s = 1 .. Len(s)
        /\ Len(t) \in Nat /\ DOMAIN t = 1 .. Len(t)
    BY LenProperties
  <1> DEFINE f == [i \in 1 .. Len(s) |-> CHOOSE j \in 1 .. Len(t) : t[j] = s[i]]
  <1>2. \A i \in 1 .. Len(s) : f[i] \in 1 .. Len(t) /\ t[f[i]] = s[i]
    <2> TAKE i \in 1 .. Len(s)
    <2>1. \E j \in 1 .. Len(t) : t[j] = s[i]
      BY <1>1 DEF Range
    <2>2. QED
      BY <2>1
  <1>3. f \in [1 .. Len(s) -> 1 .. Len(t)]
    BY <1>2
  <1> HIDE DEF f
  <1>4. /\ IsFiniteSet(1 .. Len(s)) /\ Cardinality(1 .. Len(s)) = Len(s)
        /\ IsFiniteSet(1 .. Len(t)) /\ Cardinality(1 .. Len(t)) = Len(t)
    BY <1>1, FirstNaturals
  <1>5. ASSUME Len(t) < Len(s) PROVE FALSE
    <2>1. \E i, j \in 1 .. Len(s) : i # j /\ f[i] = f[j]
      BY <1>3, <1>4, <1>5, FS_PigeonHole
    <2>2. QED
      BY <1>1, <1>2, <2>1 DEF IsInjective
  <1>6. QED
    BY <1>1, <1>5

\* An enumeration of a set without repetition holds every element of it.
LEMMA SeqsOfSet ==
    ASSUME NEW T, IsFiniteSet(T), NEW s \in SetToSeqs(T)
    PROVE  s \in Seq(T) /\ IsInjective(s) /\ Range(s) = T
  <1> DEFINE c == Cardinality(T)
  <1>1. c \in Nat
    BY FS_CardinalityType
  <1>2. s \in [1 .. c -> T] /\ \A i, j \in 1 .. c : i # j => s[i] # s[j]
    BY DEF SetToSeqs
  <1>3. IsFiniteSet(1 .. c) /\ Cardinality(1 .. c) = c
    BY <1>1, FirstNaturals
  <1>4. s \in Injection(1 .. c, T)
    BY <1>2 DEF Injection, IsInjective
  <1>5. s \in Surjection(1 .. c, T)
    <2> HIDE DEF c
    <2>1. Cardinality(1 .. c) = Cardinality(T) <=> s \in Surjection(1 .. c, T)
      BY <1>4, FS_Injection
    <2>2. QED
      BY <1>3, <2>1 DEF c
  <1>6. Range(s) = T
    BY <1>2, <1>5 DEF Surjection, Range
  <1>7. s \in Seq(T)
    BY <1>1, <1>2, SeqDef
  <1>8. QED
    BY <1>4, <1>6, <1>7 DEF Injection

\* The files on a list can be put in the order of the directory: by induction over how much
\* of the directory has been gone through.
LEMMA CanBeSorted ==
    ASSUME NEW d \in Seq(Names), IsInjective(d), NEW names \in SUBSET Range(d)
    PROVE  /\ IsFiniteSet(names)
           /\ \E s \in SetToSeqs(names) : \A i, j \in DOMAIN s : i < j => Precedes(d, s[i], s[j])
  <1>1. Len(d) \in Nat /\ DOMAIN d = 1 .. Len(d)
    BY LenProperties
  <1> DEFINE upTo(k) == {n \in names : \E i \in 1 .. k : d[i] = n}
             Sorts(s, k) == /\ s \in SetToSeqs(upTo(k))
                            /\ \A i, j \in DOMAIN s : i < j => Precedes(d, s[i], s[j])
             P(k) == k <= Len(d) => IsFiniteSet(upTo(k)) /\ \E s : Sorts(s, k)
             N == {k \in Nat : P(k)}
  <1>2. 0 \in N
    <2>1. upTo(0) = {}
      OBVIOUS
    <2>2. Cardinality({}) = 0 /\ IsFiniteSet({})
      BY FS_EmptySet
    <2>3. <<>> \in SetToSeqs({})
      BY <2>2 DEF SetToSeqs
    <2>4. DOMAIN <<>> = {}
      OBVIOUS
    <2>5. Sorts(<<>>, 0)
      BY <2>1, <2>3, <2>4
    <2>6. QED
      BY <2>1, <2>2, <2>5
  <1>3. ASSUME NEW k \in Nat, k \in N PROVE k + 1 \in N
    <2> SUFFICES ASSUME k + 1 <= Len(d)
                 PROVE  IsFiniteSet(upTo(k + 1)) /\ \E s : Sorts(s, k + 1)
      <3> HIDE DEF upTo, Sorts
      <3>1. QED
        OBVIOUS
    <2>1. k <= Len(d) /\ k + 1 \in DOMAIN d
      BY <1>1
    <2>2. PICK s : Sorts(s, k)
      BY <1>3, <2>1
    <2>3. IsFiniteSet(upTo(k))
      BY <1>3, <2>1
    <2> DEFINE n == d[k + 1]
               c == Cardinality(upTo(k))
    <2>4. c \in Nat
      BY <2>3, FS_CardinalityType
    <2>5. /\ s \in [1 .. c -> upTo(k)] /\ DOMAIN s = 1 .. c
          /\ \A i, j \in 1 .. c : i # j => s[i] # s[j]
      BY <2>2 DEF SetToSeqs
    <2>6. n \notin upTo(k)
      BY <1>1, <2>1 DEF IsInjective
    <2>7. CASE n \notin names
      <3>1. upTo(k + 1) = upTo(k)
        BY <2>7
      <3>2. QED
        BY <2>2, <2>3, <3>1
    <2>8. CASE n \in names
      <3>1. upTo(k + 1) = upTo(k) \cup {n}
        BY <2>8
      <3>2. IsFiniteSet(upTo(k + 1)) /\ Cardinality(upTo(k + 1)) = c + 1
        <4> DEFINE U == upTo(k)
        <4> HIDE DEF U
        <4>1. IsFiniteSet(U \cup {n}) /\ Cardinality(U \cup {n}) = Cardinality(U) + 1
          BY <2>3, <2>6, FS_AddElement DEF U
        <4>2. QED
          BY <3>1, <4>1 DEF U
      <3> DEFINE t == [i \in 1 .. c + 1 |-> IF i <= c THEN s[i] ELSE n]
      <3>3. \A i \in 1 .. c : s[i] \in upTo(k) /\ s[i] # n
        BY <2>5, <2>6
      <3>4. t \in [1 .. c + 1 -> upTo(k + 1)]
        <4> SUFFICES ASSUME NEW i \in 1 .. c + 1 PROVE t[i] \in upTo(k + 1)
          OBVIOUS
        <4> HIDE DEF upTo
        <4>1. CASE i <= c
          BY <2>4, <3>1, <3>3, <4>1
        <4>2. CASE i = c + 1
          BY <2>4, <3>1, <4>2
        <4>3. QED
          BY <2>4, <4>1, <4>2
      <3>5. \A i, j \in 1 .. c + 1 : i # j => t[i] # t[j]
        <4> HIDE DEF upTo, c
        <4> SUFFICES ASSUME NEW i \in 1 .. c + 1, NEW j \in 1 .. c + 1, i # j PROVE t[i] # t[j]
          OBVIOUS
        <4>1. t[c + 1] = n
          BY <2>4
        <4>2. \A l \in 1 .. c + 1 : l # c + 1 => l \in 1 .. c /\ t[l] = s[l]
          BY <2>4
        <4>3. QED
          BY <2>5, <3>3, <4>1, <4>2
      <3>6. t \in SetToSeqs(upTo(k + 1))
        <4> HIDE DEF upTo, t, c
        <4>1. QED
          BY <3>2, <3>4, <3>5 DEF SetToSeqs
      <3>7. ASSUME NEW i \in 1 .. c + 1, NEW j \in 1 .. c + 1, i < j
            PROVE  Precedes(d, t[i], t[j])
        <4>1. i \in 1 .. c /\ t[i] = s[i]
          BY <2>4, <3>7
        <4>2. CASE j <= c
          BY <2>2, <2>4, <2>5, <3>7, <4>1, <4>2
        <4>3. CASE j = c + 1
          <5>1. PICK l \in 1 .. k : d[l] = s[i]
            BY <3>3, <4>1
          <5>2. l \in DOMAIN d /\ l < k + 1
            BY <1>1, <2>1
          <5>3. t[j] = d[k + 1]
            BY <2>4, <4>3
          <5>4. QED
            BY <2>1, <4>1, <5>1, <5>2, <5>3 DEF Precedes
        <4>4. j <= c \/ j = c + 1
          <5> HIDE DEF c
          <5>1. QED
            BY <2>4
        <4>5. QED
          BY <4>2, <4>3, <4>4
      <3>8. Sorts(t, k + 1)
        BY <3>4, <3>6, <3>7
      <3>9. QED
        BY <3>2, <3>8
    <2>9. QED
      BY <2>7, <2>8
  <1>4. Len(d) \in N
    <2> HIDE DEF N
    <2>1. Nat \subseteq N
      BY <1>2, <1>3, SetInduction
    <2>2. QED
      BY <1>1, <2>1
  <1>5. upTo(Len(d)) = names
    BY <1>1 DEF Range
  <1>6. IsFiniteSet(upTo(Len(d))) /\ \E s : Sorts(s, Len(d))
    <2> HIDE DEF upTo, Sorts
    <2>1. QED
      BY <1>1, <1>4
  <1>7. QED
    BY <1>5, <1>6

LEMMA SortedFacts ==
    ASSUME dir \in Seq(Names), IsInjective(dir), NEW names \in SUBSET Range(dir)
    PROVE  /\ Sorted(names) \in Seq(Names)
           /\ IsInjective(Sorted(names))
           /\ Range(Sorted(names)) = names
           /\ \A i, j \in DOMAIN Sorted(names) :
                  i < j => Precedes(dir, Sorted(names)[i], Sorted(names)[j])
  <1>1. Len(dir) \in Nat /\ DOMAIN dir = 1 .. Len(dir)
    BY LenProperties
  <1>2. \A a, b : b \in Newer(a) <=> Precedes(dir, a, b)
    BY <1>1 DEF Newer, Precedes
  <1>3. /\ IsFiniteSet(names)
        /\ \E s \in SetToSeqs(names) : \A i, j \in DOMAIN s : i < j => Precedes(dir, s[i], s[j])
    BY CanBeSorted
  <1>4. /\ Sorted(names) \in SetToSeqs(names)
        /\ \A i, j \in DOMAIN Sorted(names) : i < j => Sorted(names)[j] \in Newer(Sorted(names)[i])
    BY <1>2, <1>3 DEF Sorted
  <1>5. /\ Sorted(names) \in Seq(names) /\ IsInjective(Sorted(names))
        /\ Range(Sorted(names)) = names
    BY <1>3, <1>4, SeqsOfSet
  <1>6. names \subseteq Names
    BY <1>1, ElementOfSeq DEF Range
  <1>7. Sorted(names) \in Seq(Names)
    BY <1>5, <1>6, SeqMonotonic
  <1>8. QED
    BY <1>2, <1>4, <1>5, <1>7

-----------------------------------------------------------------------------
(* Types *)

Env == [pw : Nat, key : Nat]
Archive == [state : {"none", "open", "shared", "whole", "mixed"}, file : Env, store : Nat,
            owed : BOOLEAN]
Writer == [at : {"idle", "state", "write", "glob", "sort", "trim"}, name : Nat, arc : Archive,
           seen : Seq(Names), raced : BOOLEAN]

\* The directory lists each file once.
TypeOK ==
    /\ clock \in Names
    /\ dir \in Seq(Names) /\ IsInjective(dir)
    /\ data \in [Names -> Archive]
    /\ writer \in [Processes -> Writer]
    /\ restore \in [at : {"idle", "env", "state"}, arc : Archive]
    /\ file \in Env /\ password \in Nat /\ key \in [Processes -> Nat]
    /\ store \in Nat /\ version \in Nat /\ highest \in Nat /\ made \in Nat
    /\ session \in [pw : Nat, sv : Nat]
    /\ cut \in BOOLEAN /\ rewound \in BOOLEAN /\ behind \in SUBSET Processes

LEMMA NothingType == Nothing \in Archive /\ Idle \in Writer /\ FirstEnv \in Env
  <1>1. <<>> \in Seq(Names)
    BY EmptySeq
  <1>2. FirstEnv \in Env
    BY DEF FirstEnv, Env
  <1>3. Nothing \in Archive
    BY <1>2 DEF Nothing, Archive
  <1>4. QED
    BY <1>1, <1>2, <1>3 DEF Idle, Writer

LEMMA Others ==
    ASSUME NEW p \in Processes
    PROVE  /\ Other(p) \in Processes /\ Other(p) # p
           /\ \A q \in Processes : q = p \/ q = Other(p)
           /\ Processes = {p, Other(p)}
  BY DEF Processes, Other

LEMMA RangeNames ==
    ASSUME NEW s \in Seq(Names)
    PROVE  /\ Range(s) \subseteq Names
           /\ \A n : Contains(s, n) <=> n \in Range(s)
  <1>1. Len(s) \in Nat /\ DOMAIN s = 1 .. Len(s)
    BY LenProperties
  <1>2. QED
    BY <1>1, ElementOfSeq DEF Range, Contains

\* The directory after a removal and after a write.
LEMMA DirMoves ==
    ASSUME TypeOK, NEW n
    PROVE  /\ Removed(n) \in Seq(Names) /\ IsInjective(Removed(n))
           /\ Range(Removed(n)) = Range(dir) \ {n}
           /\ Len(Removed(n)) <= Len(dir)
           /\ \A a, b : a # n /\ b # n /\ Precedes(dir, a, b) => Precedes(Removed(n), a, b)
           /\ n \in Names =>
                /\ Touched(n) \in Seq(Names) /\ IsInjective(Touched(n))
                /\ Range(Touched(n)) = Range(dir) \cup {n}
                /\ \A a, b : a # n /\ b # n /\ Precedes(dir, a, b) => Precedes(Touched(n), a, b)
                /\ \A a \in Range(dir) \ {n} : Precedes(Touched(n), a, n)
           /\ Present(n) <=> n \in Range(dir)
  <1>1. dir \in Seq(Names) /\ IsInjective(dir)
    BY DEF TypeOK
  <1>2. Present(n) <=> n \in Range(dir)
    BY <1>1, RangeNames DEF Present
  <1>3. /\ Removed(n) \in Seq(Names) /\ IsInjective(Removed(n))
        /\ Range(Removed(n)) = Range(dir) \ {n}
        /\ Len(Removed(n)) <= Len(dir)
        /\ \A a, b : a # n /\ b # n /\ Precedes(dir, a, b) => Precedes(Removed(n), a, b)
    BY <1>1, RemoveFacts DEF Removed
  <1>4. ASSUME n \in Names
        PROVE  /\ Touched(n) \in Seq(Names) /\ IsInjective(Touched(n))
               /\ Range(Touched(n)) = Range(dir) \cup {n}
               /\ \A a, b : a # n /\ b # n /\ Precedes(dir, a, b) => Precedes(Touched(n), a, b)
               /\ \A a \in Range(dir) \ {n} : Precedes(Touched(n), a, n)
    BY <1>1, <1>4, TouchFacts DEF Touched, Removed
  <1>5. QED
    BY <1>2, <1>3, <1>4

LEMMA TypeInit == Init => TypeOK
  <1> SUFFICES ASSUME Init PROVE TypeOK
    OBVIOUS
  <1>1. 1 \in Names
    BY BackupAssumption DEF Names
  <1>2. <<>> \in Seq(Names) /\ IsInjective(<<>>)
    BY EmptySeq DEF IsInjective
  <1>3. data \in [Names -> Archive] /\ writer \in [Processes -> Writer]
    BY NothingType DEF Init
  <1>4. restore \in [at : {"idle", "env", "state"}, arc : Archive]
    BY NothingType DEF Init, NoRestore
  <1>5. QED
    BY <1>1, <1>2, <1>3, <1>4, NothingType DEF Init, TypeOK

LEMMA TypeStep == TypeOK /\ [Next]_vars => TypeOK'
  <1> SUFFICES ASSUME TypeOK, [Next]_vars PROVE TypeOK'
    OBVIOUS
  <1>0. /\ Idle \in Writer /\ Nothing \in Archive /\ FirstEnv \in Env
        /\ \A p \in Processes : /\ writer[p] \in Writer /\ writer[p].arc \in Archive
                                /\ writer[p].seen \in Seq(Names)
        /\ NoRestore \in [at : {"idle", "env", "state"}, arc : Archive]
    BY NothingType DEF TypeOK, Writer, NoRestore
  \* Where only the writers and the directory move.
  <1>a. ASSUME UNCHANGED <<clock, restore, account>>,
               writer' \in [Processes -> Writer], data' \in [Names -> Archive],
               dir' \in Seq(Names), IsInjective(dir'), cut' \in BOOLEAN
        PROVE  TypeOK'
    BY <1>a DEF TypeOK, account
  <1>1. ASSUME NEW p \in Processes, ReadFiles(p) PROVE TypeOK'
    <2> DEFINE owed == key[p] = file.key \/ p \in behind
               arc == [writer[p].arc EXCEPT !.file = file, !.owed = owed]
    <2>1. owed \in BOOLEAN
      OBVIOUS
    <2>2. arc \in Archive
      <3> HIDE DEF owed
      <3>1. QED
        BY <1>0, <2>1 DEF TypeOK, Archive
    <2>3. writer' = [writer EXCEPT ![p] = [writer[p] EXCEPT !.at = "state", !.arc = arc]]
      BY <1>1 DEF ReadFiles
    <2>4. writer' \in [Processes -> Writer]
      <3> HIDE DEF arc
      <3>1. [writer[p] EXCEPT !.at = "state", !.arc = arc] \in Writer
        BY <1>0, <2>2 DEF Writer
      <3>2. QED
        BY <2>3, <3>1 DEF TypeOK
    <2>5. QED
      BY <1>1, <1>a, <2>4 DEF ReadFiles, TypeOK
  <1>2. ASSUME NEW p \in Processes, OpenFile(p) PROVE TypeOK'
    <2> DEFINE arc == [writer[p].arc EXCEPT !.store = store]
    <2>1. arc \in Archive
      BY <1>0 DEF TypeOK, Archive
    <2>2. writer' = [writer EXCEPT ![p] = [writer[p] EXCEPT !.at = "write", !.name = clock, !.arc = arc]]
      BY <1>2 DEF OpenFile
    <2>3. clock \in Nat /\ clock \in Names
      BY BackupAssumption DEF TypeOK, Names
    <2>4. writer' \in [Processes -> Writer]
      <3> HIDE DEF arc
      <3>1. [writer[p] EXCEPT !.at = "write", !.name = clock, !.arc = arc] \in Writer
        BY <1>0, <2>1, <2>3 DEF Writer
      <3>2. QED
        BY <2>2, <3>1 DEF TypeOK
    <2>5. data' \in [Names -> Archive]
      <3>1. [Nothing EXCEPT !.state = IF Shares(p, clock) THEN "shared" ELSE "open"] \in Archive
        BY NothingType DEF Archive
      <3>2. QED
        BY <1>2, <3>1 DEF OpenFile, TypeOK
    <2>6. QED
      BY <1>2, <1>a, <2>3, <2>4, <2>5, DirMoves DEF OpenFile, TypeOK
  <1>3. ASSUME NEW p \in Processes, WriteFile(p) PROVE TypeOK'
    <2> DEFINE n == writer[p].name
               q == Other(p)
               raced == writer[q].raced \/ Lists(q, n)
    <2>1. q \in Processes /\ q # p /\ writer[q] \in Writer
      BY <1>0, Others
    <2>2. raced \in BOOLEAN
      BY <2>1 DEF Writer
    <2>3. writer' = [writer EXCEPT ![p] = [Idle EXCEPT !.at = "glob"],
                                   ![q] = [writer[q] EXCEPT !.raced = raced]]
      BY <1>3, <2>1 DEF WriteFile, TypeOK
    <2> HIDE DEF raced
    <2>4. [Idle EXCEPT !.at = "glob"] \in Writer /\ [writer[q] EXCEPT !.raced = raced] \in Writer
      BY <1>0, <2>1, <2>2 DEF Writer
    <2>5. writer' \in [Processes -> Writer]
      BY <2>1, <2>3, <2>4 DEF TypeOK
    <2>6. CASE ~Present(n)
      BY <1>3, <1>a, <2>5, <2>6 DEF WriteFile, TypeOK
    <2>7. CASE Present(n)
      <3>1. n \in Names
        BY <2>7, DirMoves, RangeNames DEF TypeOK
      <3>2. dir' = Touched(n)
        BY <1>3, <2>7 DEF WriteFile
      <3>3. PICK s \in {"shared", "whole", "mixed"} :
                data' = [data EXCEPT ![n] = IF s = "whole" THEN [writer[p].arc EXCEPT !.state = s]
                                            ELSE [Nothing EXCEPT !.state = s]]
        BY <1>3, <2>7 DEF WriteFile
      <3>4. /\ [writer[p].arc EXCEPT !.state = s] \in Archive
            /\ [Nothing EXCEPT !.state = s] \in Archive
        BY <1>0 DEF Archive
      <3>5. data' \in [Names -> Archive]
        BY <3>3, <3>4 DEF TypeOK
      <3>6. QED
        BY <1>3, <1>a, <2>5, <3>1, <3>2, <3>5, DirMoves DEF WriteFile, TypeOK
    <2>8. QED
      BY <2>6, <2>7
  <1>4. ASSUME NEW p \in Processes, WriteRaises(p) PROVE TypeOK'
    BY <1>0, <1>4, <1>a DEF WriteRaises, End, TypeOK
  <1>5. ASSUME NEW p \in Processes, Glob(p) PROVE TypeOK'
    <2>1. writer' = [writer EXCEPT ![p] = [writer[p] EXCEPT !.at = "sort", !.seen = dir]]
      BY <1>0, <1>5 DEF Glob, TypeOK, Writer
    <2>2. writer' \in [Processes -> Writer]
      <3>1. [writer[p] EXCEPT !.at = "sort", !.seen = dir] \in Writer
        BY <1>0 DEF TypeOK, Writer
      <3>2. QED
        BY <2>1, <3>1 DEF TypeOK
    <2>3. QED
      BY <1>5, <1>a, <2>2 DEF Glob, TypeOK
  <1>6. ASSUME NEW p \in Processes, SortFiles(p) PROVE TypeOK'
    <2>1. CASE \A n \in Range(writer[p].seen) : Present(n)
      <3>1. Range(writer[p].seen) \in SUBSET Range(dir)
        BY <2>1, DirMoves
      <3>2. Sorted(Range(writer[p].seen)) \in Seq(Names)
        BY <3>1, SortedFacts DEF TypeOK
      <3>3. writer' = [writer EXCEPT ![p] = [writer[p] EXCEPT !.at = "trim",
                                                 !.seen = Sorted(Range(writer[p].seen))]]
        BY <1>0, <1>6, <2>1 DEF SortFiles, TypeOK, Writer
      <3>4. writer' \in [Processes -> Writer]
        <4> DEFINE seen == Sorted(Range(writer[p].seen))
        <4> HIDE DEF seen
        <4>1. [writer[p] EXCEPT !.at = "trim", !.seen = seen] \in Writer
          BY <1>0, <3>2 DEF Writer, seen
        <4>2. QED
          BY <3>3, <4>1 DEF TypeOK, seen
      <3>5. QED
        BY <1>6, <1>a, <2>1, <3>4 DEF SortFiles, TypeOK
    <2>2. CASE ~(\A n \in Range(writer[p].seen) : Present(n))
      BY <1>0, <1>6, <1>a, <2>2 DEF SortFiles, End, TypeOK
    <2>3. QED
      BY <2>1, <2>2
  <1>7. ASSUME NEW p \in Processes, Trim(p) PROVE TypeOK'
    <2> DEFINE n == Head(writer[p].seen)
               q == Other(p)
               raced == writer[q].raced \/ MeansToKeep(q, n)
    <2>1. CASE TooMany(writer[p].seen)
      <3>1. Len(writer[p].seen) > MaxBackups /\ Len(writer[p].seen) \in Nat
        BY <1>0, <2>1, LenProperties DEF TooMany
      <3>2. writer[p].seen # <<>>
        BY <3>1, EmptySeq, BackupAssumption
      <3>3. Tail(writer[p].seen) \in Seq(Names) /\ n \in Names
        BY <1>0, <3>2, HeadTailProperties
      <3>4. q \in Processes /\ q # p /\ writer[q] \in Writer /\ raced \in BOOLEAN
        BY <1>0, Others DEF Writer
      <3>5. writer' = [writer EXCEPT ![p] = [writer[p] EXCEPT !.seen = Tail(writer[p].seen)],
                                     ![q] = [writer[q] EXCEPT !.raced = raced]]
        BY <1>0, <1>7, <2>1, <3>4 DEF Trim, TypeOK, Writer
      <3>6. writer' \in [Processes -> Writer]
        <4> HIDE DEF raced
        <4>1. /\ [writer[p] EXCEPT !.seen = Tail(writer[p].seen)] \in Writer
              /\ [writer[q] EXCEPT !.raced = raced] \in Writer
          BY <1>0, <3>3, <3>4 DEF Writer
        <4>2. QED
          BY <3>4, <3>5, <4>1 DEF TypeOK
      <3>7. dir' = Removed(n) /\ data' \in [Names -> Archive]
        BY <1>0, <1>7, <2>1 DEF Trim, TypeOK
      <3>8. QED
        BY <1>7, <1>a, <3>6, <3>7, DirMoves DEF Trim, TypeOK
    <2>2. CASE ~TooMany(writer[p].seen)
      BY <1>0, <1>7, <1>a, <2>2 DEF Trim, End, TypeOK
    <2>3. QED
      BY <2>1, <2>2
  <1>8. ASSUME NEW n \in Names, Delete(n) PROVE TypeOK'
    <2> DEFINE raced == writer["sched"].raced \/ MeansToKeep("sched", n)
    <2>1. "sched" \in Processes
      BY DEF Processes
    <2>2. raced \in BOOLEAN
      BY <1>0, <2>1 DEF Writer
    <2>3. writer' = [writer EXCEPT !["sched"] = [writer["sched"] EXCEPT !.raced = raced]]
      BY <1>8, <2>1 DEF Delete, TypeOK
    <2>4. writer' \in [Processes -> Writer]
      <3> HIDE DEF raced
      <3>1. [writer["sched"] EXCEPT !.raced = raced] \in Writer
        BY <1>0, <2>1, <2>2 DEF Writer
      <3>2. QED
        BY <2>3, <3>1 DEF TypeOK
    <2>5. dir' = Removed(n) /\ data' \in [Names -> Archive]
      BY <1>0, <1>8 DEF Delete, TypeOK
    <2>6. dir' \in Seq(Names) /\ IsInjective(dir')
      BY <2>5, DirMoves
    <2>7. UNCHANGED <<clock, restore, account>> /\ cut' \in BOOLEAN
      BY <1>8 DEF Delete, TypeOK
    <2>8. QED
      BY <1>a, <2>4, <2>5, <2>6, <2>7
  <1>9. ASSUME NEW p \in Processes, Restart(p) PROVE TypeOK'
    <2>1. writer' \in [Processes -> Writer] /\ cut' \in BOOLEAN
      BY <1>0, <1>9 DEF Restart, End, TypeOK
    <2>2. key' \in [Processes -> Nat] /\ file.pw \in Nat /\ behind' \in SUBSET Processes
      BY <1>9 DEF Restart, TypeOK, Env
    <2>3. password' \in Nat /\ version' \in Nat
          /\ restore' \in [at : {"idle", "env", "state"}, arc : Archive]
      BY <1>0, <1>9, <2>2 DEF Restart, TypeOK
    <2>4. QED
      BY <1>9, <2>1, <2>2, <2>3 DEF Restart, TypeOK
  <1>10. CASE RestoreConfig
    <2>1. PICK n \in Range(dir) : restore' = [at |-> "env", arc |-> data[n]]
      BY <1>10 DEF RestoreConfig
    <2>2. data[n] \in Archive
      BY <2>1, RangeNames DEF TypeOK
    <2>3. restore' \in [at : {"idle", "env", "state"}, arc : Archive]
      BY <2>1, <2>2
    <2>4. QED
      BY <1>10, <2>3 DEF RestoreConfig, TypeOK, account
  <1>11. CASE RestoreRaises
    BY <1>0, <1>11 DEF RestoreRaises, TypeOK, account
  <1>12. CASE RestoreEnv
    <2>1. restore.arc \in Archive /\ restore.arc.file \in Env
      BY DEF TypeOK, Archive
    <2>2. restore' \in [at : {"idle", "env", "state"}, arc : Archive]
      BY <1>12 DEF RestoreEnv, TypeOK
    <2>3. rewound' \in BOOLEAN
      BY <1>12 DEF RestoreEnv, TypeOK
    <2>4. behind' \in SUBSET Processes
      BY <1>12 DEF RestoreEnv
    <2>5. QED
      BY <1>12, <2>1, <2>2, <2>3, <2>4 DEF RestoreEnv, TypeOK
  <1>13. CASE RestoreState
    <2>1. restore.arc.store \in Nat
      BY DEF TypeOK, Archive
    <2>2. rewound' \in BOOLEAN
      BY <1>13 DEF RestoreState, TypeOK
    <2>3. QED
      BY <1>0, <1>13, <2>1, <2>2 DEF RestoreState, TypeOK
  <1>14. CASE SetPassword
    <2>1. made' \in Nat /\ store' \in Nat
      BY <1>14 DEF SetPassword, TypeOK, Bumped
    <2>2. rewound' \in BOOLEAN
      BY <1>14 DEF SetPassword, TypeOK
    <2>3. file' \in Env
      BY <1>14, <2>1 DEF SetPassword, TypeOK, Env
    <2>4. QED
      BY <1>14, <2>1, <2>2, <2>3 DEF SetPassword, TypeOK
  <1>15. CASE SetBackupPassword
    <2>1. made' \in Nat /\ "dash" \in Processes /\ "sched" \in Processes
      BY <1>15 DEF SetBackupPassword, TypeOK, Processes
    <2>2. file' \in Env /\ key' \in [Processes -> Nat]
      BY <1>15, <2>1 DEF SetBackupPassword, TypeOK, Env, AppliedEnv
    <2>3. behind' \in SUBSET Processes
      BY <1>15, <2>1 DEF SetBackupPassword, TypeOK
    <2>4. QED
      BY <1>15, <2>1, <2>2, <2>3 DEF SetBackupPassword, TypeOK
  <1>16. CASE SignIn
    BY <1>16 DEF SignIn, TypeOK
  <1>17. CASE Tick
    BY <1>17, BackupAssumption DEF Tick, TypeOK, account, Names
  <1>18. CASE UNCHANGED vars
    BY <1>18 DEF vars, TypeOK
  <1>19. QED
    BY <1>1, <1>2, <1>3, <1>4, <1>5, <1>6, <1>7, <1>8, <1>9, <1>10, <1>11, <1>12, <1>13,
       <1>14, <1>15, <1>16, <1>17, <1>18 DEF Next, Write, Restoring

\* Every reachable state has the types of the model, and no file is in the directory twice.
THEOREM TypeCorrect == Spec => []TypeOK
  BY TypeInit, TypeStep, PTL DEF Spec

-----------------------------------------------------------------------------
(* How the writers move *)

\* What each step of one process makes of it and of the other: the other one only learns that
\* its list is out of date.
LEMMA WriterMoves ==
    ASSUME TypeOK, NEW p \in Processes
    PROVE  LET q == Other(p)
           IN  /\ ReadFiles(p) =>
                    /\ writer'[p].at = "state"
                    /\ writer'[p].arc.store = writer[p].arc.store
                    /\ writer'[p].arc.owed = (key[p] = file.key \/ p \in behind)
                    /\ writer'[q] = writer[q]
               /\ OpenFile(p) =>
                    /\ writer'[p].at = "write" /\ writer'[p].name = clock
                    /\ writer'[p].arc = [writer[p].arc EXCEPT !.store = store]
                    /\ writer'[q] = writer[q]
               /\ WriteFile(p) =>
                    /\ writer'[p].at = "glob" /\ writer'[p].arc = Nothing
                    /\ writer'[q] = [writer[q] EXCEPT
                                        !.raced = writer[q].raced \/ Lists(q, writer[p].name)]
               /\ Glob(p) =>
                    /\ writer'[p].at = "sort" /\ writer'[p].seen = dir
                    /\ writer'[p].arc = writer[p].arc
                    /\ writer'[q] = writer[q]
               /\ SortFiles(p) /\ (\A n \in Range(writer[p].seen) : Present(n)) =>
                    /\ writer'[p].at = "trim"
                    /\ writer'[p].seen = Sorted(Range(writer[p].seen))
                    /\ writer'[p].arc = writer[p].arc
                    /\ writer'[q] = writer[q]
               /\ Trim(p) /\ TooMany(writer[p].seen) =>
                    /\ writer'[p].at = "trim" /\ writer'[p].seen = Tail(writer[p].seen)
                    /\ writer'[p].raced = writer[p].raced /\ writer'[p].arc = writer[p].arc
                    /\ writer'[q] = [writer[q] EXCEPT
                                        !.raced = writer[q].raced
                                                    \/ MeansToKeep(q, Head(writer[p].seen))]
               /\ End(p) => writer'[p] = Idle /\ writer'[q] = writer[q]
  <1> DEFINE q == Other(p)
  <1>0. /\ q \in Processes /\ q # p /\ writer \in [Processes -> Writer]
        /\ writer[p] \in Writer /\ writer[q] \in Writer /\ writer[p].arc \in Archive
    BY Others DEF TypeOK, Writer
  <1> HIDE DEF q
  <1>1. ASSUME ReadFiles(p)
        PROVE  /\ writer'[p].at = "state"
               /\ writer'[p].arc.store = writer[p].arc.store
               /\ writer'[p].arc.owed = (key[p] = file.key \/ p \in behind)
               /\ writer'[q] = writer[q]
    <2> DEFINE owed == key[p] = file.key \/ p \in behind
               arc == [writer[p].arc EXCEPT !.file = file, !.owed = owed]
    <2>1. writer' = [writer EXCEPT ![p] = [writer[p] EXCEPT !.at = "state", !.arc = arc]]
      BY <1>1 DEF ReadFiles
    <2>2. arc.store = writer[p].arc.store /\ arc.owed = owed
      <3> HIDE DEF owed
      <3>1. QED
        BY <1>0 DEF Archive
    <2>3. writer'[p].at = "state" /\ writer'[p].arc = arc /\ writer'[q] = writer[q]
      <3> HIDE DEF arc
      <3>1. QED
        BY <1>0, <2>1 DEF Writer
    <2>4. QED
      BY <2>2, <2>3
  <1>2. ASSUME OpenFile(p)
        PROVE  /\ writer'[p].at = "write" /\ writer'[p].name = clock
               /\ writer'[p].arc = [writer[p].arc EXCEPT !.store = store]
               /\ writer'[q] = writer[q]
    BY <1>0, <1>2 DEF OpenFile, Writer, Archive
  <1>3. ASSUME WriteFile(p)
        PROVE  /\ writer'[p].at = "glob" /\ writer'[p].arc = Nothing
               /\ writer'[q] = [writer[q] EXCEPT
                                   !.raced = writer[q].raced \/ Lists(q, writer[p].name)]
    <2> DEFINE raced == writer[q].raced \/ Lists(q, writer[p].name)
    <2>1. writer' = [writer EXCEPT ![p] = [Idle EXCEPT !.at = "glob"],
                                   ![q] = [writer[q] EXCEPT !.raced = raced]]
      BY <1>0, <1>3 DEF WriteFile, q
    <2> HIDE DEF raced
    <2>2. /\ writer'[p] = [Idle EXCEPT !.at = "glob"]
          /\ writer'[q] = [writer[q] EXCEPT !.raced = raced]
      BY <1>0, <2>1
    <2>3. QED
      BY <2>2 DEF Idle, raced
  <1>4. ASSUME Glob(p)
        PROVE  /\ writer'[p].at = "sort" /\ writer'[p].seen = dir
               /\ writer'[p].arc = writer[p].arc
               /\ writer'[q] = writer[q]
    BY <1>0, <1>4 DEF Glob, Writer
  <1>5. ASSUME SortFiles(p), \A n \in Range(writer[p].seen) : Present(n)
        PROVE  /\ writer'[p].at = "trim"
               /\ writer'[p].seen = Sorted(Range(writer[p].seen))
               /\ writer'[p].arc = writer[p].arc
               /\ writer'[q] = writer[q]
    BY <1>0, <1>5 DEF SortFiles, Writer
  <1>6. ASSUME Trim(p), TooMany(writer[p].seen)
        PROVE  /\ writer'[p].at = "trim" /\ writer'[p].seen = Tail(writer[p].seen)
               /\ writer'[p].raced = writer[p].raced /\ writer'[p].arc = writer[p].arc
               /\ writer'[q] = [writer[q] EXCEPT
                                   !.raced = writer[q].raced \/ MeansToKeep(q, Head(writer[p].seen))]
    <2> DEFINE raced == writer[q].raced \/ MeansToKeep(q, Head(writer[p].seen))
               seen == Tail(writer[p].seen)
    <2>1. writer' = [writer EXCEPT ![p] = [writer[p] EXCEPT !.seen = seen],
                                   ![q] = [writer[q] EXCEPT !.raced = raced]]
      BY <1>0, <1>6 DEF Trim, q
    <2> HIDE DEF raced, seen
    <2>2. /\ writer'[p] = [writer[p] EXCEPT !.seen = seen]
          /\ writer'[q] = [writer[q] EXCEPT !.raced = raced]
      BY <1>0, <2>1
    <2>3. writer[p].at = "trim"
      BY <1>6 DEF Trim
    <2>4. QED
      BY <1>0, <2>2, <2>3 DEF Writer, raced, seen
  <1>7. ASSUME End(p) PROVE writer'[p] = Idle /\ writer'[q] = writer[q]
    BY <1>0, <1>7 DEF End
  <1>8. QED
    BY <1>1, <1>2, <1>3, <1>4, <1>5, <1>6, <1>7 DEF q

LEMMA DeleteMoves ==
    ASSUME TypeOK, NEW n \in Names, Delete(n)
    PROVE  /\ writer["dash"].at = "idle" /\ writer'["dash"] = writer["dash"]
           /\ writer'["sched"] = [writer["sched"] EXCEPT
                                     !.raced = writer["sched"].raced \/ MeansToKeep("sched", n)]
  <1> DEFINE raced == writer["sched"].raced \/ MeansToKeep("sched", n)
  <1>1. writer' = [writer EXCEPT !["sched"] = [writer["sched"] EXCEPT !.raced = raced]]
    BY DEF Delete, Processes, TypeOK
  <1>2. writer \in [Processes -> Writer] /\ "dash" \in Processes /\ "sched" \in Processes
    BY DEF TypeOK, Processes
  <1>3. writer["dash"].at = "idle"
    BY DEF Delete, LoopFree
  <1> HIDE DEF raced
  <1>4. writer'["dash"] = writer["dash"] /\ writer'["sched"] = [writer["sched"] EXCEPT !.raced = raced]
    BY <1>1, <1>2
  <1>5. QED
    BY <1>3, <1>4 DEF raced

\* The steps of one process, and those in which no archive is being made.
LEMMA Steps ==
    ASSUME [Next]_vars
    PROVE  \/ \E p \in Processes : Write(p)
           \/ \E n \in Names : Delete(n)
           \/ (Restoring \/ SetPassword \/ SetBackupPassword \/ SignIn \/ Tick \/ UNCHANGED vars)
  BY DEF Next

LEMMA WritersRest ==
    ASSUME Restoring \/ SetPassword \/ SetBackupPassword \/ SignIn \/ Tick \/ UNCHANGED vars
    PROVE  UNCHANGED <<writer, dir, data, cut>>
  BY DEF Restoring, RestoreConfig, RestoreRaises, RestoreEnv, RestoreState, SetPassword,
         SetBackupPassword, SignIn, Tick, vars

\* What an archive in the making holds: it was read in one state and its database in another.
LEMMA ArcMoves ==
    ASSUME TypeOK, [Next]_vars, NEW q \in Processes
    PROVE  /\ writer'[q].arc.store \in {writer[q].arc.store, 1, store}
           /\ writer[q].arc.owed /\ (key[q] = file.key \/ q \in behind) => writer'[q].arc.owed
  <1>0. writer[q] \in Writer /\ writer[q].arc \in Archive
    BY DEF TypeOK, Writer
  <1> DEFINE Kept == writer'[q].arc = writer[q].arc
             Fresh == writer'[q].arc = Nothing
  <1>1. CASE \E p \in Processes : Write(p)
    <2>1. PICK p \in Processes : Write(p)
      BY <1>1
    <2>2. CASE p = q
      <3>1. CASE ReadFiles(q)
        BY <1>0, <3>1, WriterMoves
      <3>2. CASE OpenFile(q)
        BY <1>0, <3>2, WriterMoves DEF Archive
      <3>3. ASSUME End(q) PROVE Fresh
        <4>1. writer'[q] = Idle
          BY <3>3, WriterMoves
        <4>2. QED
          BY <4>1 DEF Idle
      <3>4. ASSUME WriteFile(q) \/ Glob(q) \/ SortFiles(q) \/ Trim(q) PROVE Kept \/ Fresh
        <4>1. CASE WriteFile(q) \/ Glob(q)
          BY <4>1, WriterMoves
        <4>2. CASE SortFiles(q)
          BY <3>3, <4>2, WriterMoves DEF SortFiles
        <4>3. CASE Trim(q)
          BY <3>3, <4>3, WriterMoves DEF Trim
        <4>4. QED
          BY <3>4, <4>1, <4>2, <4>3
      <3>5. ASSUME WriteRaises(q) \/ Restart(q) PROVE Fresh
        BY <3>3, <3>5 DEF WriteRaises, Restart
      <3>6. QED
        BY <2>1, <2>2, <3>1, <3>2, <3>4, <3>5 DEF Write, Nothing
    <2>3. CASE p # q
      <3>1. q = Other(p)
        BY <2>3, Others
      <3>2. ASSUME NEW b, writer'[q] = [writer[q] EXCEPT !.raced = b] PROVE Kept
        BY <1>0, <3>2 DEF Writer
      <3>3. ASSUME writer'[q] = writer[q] PROVE Kept
        BY <3>3
      <3>4. ASSUME ReadFiles(p) \/ OpenFile(p) \/ Glob(p) PROVE Kept
        BY <3>1, <3>3, <3>4, WriterMoves
      <3>5. ASSUME End(p) PROVE Kept
        BY <3>1, <3>3, <3>5, WriterMoves
      <3>6. ASSUME WriteFile(p) PROVE Kept
        BY <3>1, <3>2, <3>6, WriterMoves
      <3>7. ASSUME SortFiles(p) PROVE Kept
        BY <3>1, <3>3, <3>5, <3>7, WriterMoves DEF SortFiles
      <3>8. ASSUME Trim(p) PROVE Kept
        BY <3>1, <3>2, <3>5, <3>8, WriterMoves DEF Trim
      <3>9. ASSUME WriteRaises(p) \/ Restart(p) PROVE Kept
        BY <3>5, <3>9 DEF WriteRaises, Restart
      <3>10. QED
        BY <2>1, <3>4, <3>6, <3>7, <3>8, <3>9 DEF Write
    <2>4. QED
      BY <2>2, <2>3
  <1>2. ASSUME NEW n \in Names, Delete(n) PROVE Kept
    <2>1. CASE q = "dash"
      BY <1>2, <2>1, DeleteMoves
    <2>2. CASE q = "sched"
      BY <1>0, <1>2, <2>2, DeleteMoves DEF Writer
    <2>3. QED
      BY <2>1, <2>2 DEF Processes
  <1>3. ASSUME UNCHANGED writer PROVE Kept
    BY <1>3
  <1>4. QED
    BY <1>1, <1>2, <1>3, Steps, WritersRest

\* What a file holds: what it held, nothing whole, or the whole archive of a process.
LEMMA DataMoves ==
    ASSUME TypeOK, [Next]_vars, NEW n \in Names
    PROVE  \/ data'[n] = data[n]
           \/ data'[n].state # "whole" /\ data'[n].store = 1 /\ data'[n].owed
           \/ \E p \in Processes : /\ data'[n].store = writer[p].arc.store
                                   /\ data'[n].owed = writer[p].arc.owed
  <1>0. data \in [Names -> Archive] /\ Nothing \in Archive
    BY NothingType DEF TypeOK
  <1>1. ASSUME NEW m, data' = [data EXCEPT ![m] = Nothing]
        PROVE  data'[n] = data[n] \/ data'[n] = Nothing
    BY <1>0, <1>1
  <1>2. Nothing.state # "whole" /\ Nothing.store = 1 /\ Nothing.owed
    BY DEF Nothing
  <1>3. ASSUME NEW p \in Processes, Write(p)
        PROVE  \/ data'[n] = data[n]
               \/ data'[n].state # "whole" /\ data'[n].store = 1 /\ data'[n].owed
               \/ data'[n].store = writer[p].arc.store /\ data'[n].owed = writer[p].arc.owed
    <2>1. CASE OpenFile(p)
      <3> DEFINE s == IF Shares(p, clock) THEN "shared" ELSE "open"
      <3>1. data' = [data EXCEPT ![clock] = [Nothing EXCEPT !.state = s]] /\ s # "whole"
        BY <2>1 DEF OpenFile
      <3> HIDE DEF s
      <3>2. data'[n] = data[n] \/ data'[n] = [Nothing EXCEPT !.state = s]
        BY <1>0, <3>1
      <3>3. ASSUME data'[n] = [Nothing EXCEPT !.state = s]
            PROVE  data'[n].state # "whole" /\ data'[n].store = 1 /\ data'[n].owed
        <4>1. data'[n].state = s /\ data'[n].store = 1 /\ data'[n].owed = TRUE
          BY <3>3 DEF Nothing
        <4>2. QED
          BY <3>1, <4>1
      <3>4. QED
        BY <3>2, <3>3
    <2>2. CASE WriteFile(p)
      <3> DEFINE m == writer[p].name
      <3>1. CASE ~Present(m)
        BY <2>2, <3>1 DEF WriteFile
      <3>2. CASE Present(m)
        <4>1. PICK s \in {"shared", "whole", "mixed"} :
                  data' = [data EXCEPT ![m] = IF s = "whole" THEN [writer[p].arc EXCEPT !.state = s]
                                              ELSE [Nothing EXCEPT !.state = s]]
          BY <2>2, <3>2 DEF WriteFile
        <4>2. \/ data'[n] = data[n]
              \/ data'[n] = [writer[p].arc EXCEPT !.state = s]
              \/ s # "whole" /\ data'[n] = [Nothing EXCEPT !.state = s]
          BY <1>0, <4>1
        <4>3. writer[p].arc \in Archive
          BY DEF TypeOK, Writer
        <4>4. QED
          BY <4>2, <4>3 DEF Nothing, Archive
      <3>3. QED
        BY <3>1, <3>2
    <2>3. CASE Trim(p)
      BY <1>1, <1>2, <2>3 DEF Trim
    <2>4. ASSUME ReadFiles(p) \/ WriteRaises(p) \/ Glob(p) \/ SortFiles(p) \/ Restart(p)
          PROVE  data'[n] = data[n]
      BY <2>4 DEF ReadFiles, WriteRaises, Glob, SortFiles, Restart
    <2>5. QED
      BY <1>3, <2>1, <2>2, <2>3, <2>4 DEF Write
  <1>4. ASSUME NEW m \in Names, Delete(m) PROVE data'[n] = data[n] \/ data'[n] = Nothing
    BY <1>1, <1>4 DEF Delete
  <1>5. QED
    BY <1>2, <1>3, <1>4, Steps, WritersRest

-----------------------------------------------------------------------------
(* The password of the backups *)

\* A process runs with the password of .env, or is known to be behind it; what is made, and
\* what was made, has the password that was in .env, or is excused.
KeysKnown ==
    /\ \A p \in Processes : key[p] = file.key \/ p \in behind
    /\ \A p \in Processes : writer[p].arc.owed
    /\ \A n \in Names : data[n].owed

LEMMA KeysStep ==
    ASSUME TypeOK, KeysKnown, [Next]_vars
    PROVE  KeysKnown'
  <1>1. \A p \in Processes : writer'[p].arc.owed
    BY ArcMoves DEF KeysKnown
  <1>2. ASSUME NEW n \in Names PROVE data'[n].owed
    <2>1. CASE data'[n] = data[n]
      BY <2>1 DEF KeysKnown
    <2>2. ASSUME NEW p \in Processes, data'[n].owed = writer[p].arc.owed PROVE data'[n].owed
      BY <2>2 DEF KeysKnown
    <2>3. QED
      BY <2>1, <2>2, DataMoves
  <1>3. \A p \in Processes : key'[p] = file'.key \/ p \in behind'
    <2>0. /\ key \in [Processes -> Nat] /\ file \in Env /\ behind \in SUBSET Processes
          /\ "dash" \in Processes /\ \A p \in Processes : p = "dash" \/ p = "sched"
      BY DEF TypeOK, Processes
    <2>1. CASE UNCHANGED <<key, file, behind>>
      BY <2>1 DEF KeysKnown
    <2>2. CASE RestoreEnv
      BY <2>2 DEF RestoreEnv
    <2>3. CASE SetPassword
      BY <2>0, <2>3 DEF SetPassword, KeysKnown, Env
    <2>4. CASE SetBackupPassword
      BY <2>0, <2>4 DEF SetBackupPassword, AppliedEnv, Env
    <2>5. ASSUME NEW p \in Processes, Restart(p)
          PROVE  \A q \in Processes : key'[q] = file'.key \/ q \in behind'
      BY <2>0, <2>5 DEF Restart, KeysKnown
    <2>6. QED
      BY <2>1, <2>2, <2>3, <2>4, <2>5 DEF Next, Write, Restoring, ReadFiles, OpenFile, WriteFile,
         WriteRaises, Glob, SortFiles, Trim, Delete, RestoreConfig, RestoreRaises, RestoreState,
         SignIn, Tick, account, vars
  <1>4. QED
    BY <1>1, <1>2, <1>3 DEF KeysKnown

\* An archive opens with the password of the backups that .env held when it was made, unless
\* .env was changed or restored under a process that still runs with the earlier.
THEOREM KeyIsSavedHolds == Spec => []KeyIsSaved
  <1>1. Init => KeysKnown
    BY DEF Init, KeysKnown, FirstEnv, Idle, Nothing
  <1>2. TypeOK /\ KeysKnown => KeyIsSaved
    BY RangeNames DEF TypeOK, KeysKnown, KeyIsSaved
  <1>3. TypeOK /\ TypeOK' /\ KeysKnown /\ [Next]_vars => KeysKnown'
    BY KeysStep
  <1>4. QED
    BY <1>1, <1>2, <1>3, TypeCorrect, PTL DEF Spec

-----------------------------------------------------------------------------
(* Sessions *)

\* No number that is given out, stored or in an archive is above the highest; and while no
\* restore counts, the version and the password in force are those of the files, and a session
\* of this version was opened with this password.
VersionsAgree ==
    /\ version <= highest /\ store <= highest /\ session.sv <= highest /\ 1 <= highest
    /\ \A p \in Processes : writer[p].arc.store <= highest
    /\ \A n \in Names : data[n].store <= highest
    /\ restore.arc.store <= highest
    /\ ~rewound => /\ version = highest /\ store = highest /\ file.pw = password
                   /\ session.sv = version => session.pw = password

\* The highest version is only ever exceeded by a new one.
LEMMA HighestGrows ==
    ASSUME TypeOK, VersionsAgree, [Next]_vars
    PROVE  /\ highest' >= highest /\ highest' \in Nat
           /\ \A p \in Processes : writer'[p].arc.store <= highest'
           /\ \A n \in Names : data'[n].store <= highest'
  <1>1. highest' >= highest /\ highest' \in Nat
    <2>1. highest' = highest \/ SetPassword
      BY DEF Next, Write, Restoring, ReadFiles, OpenFile, WriteFile, WriteRaises, Glob, SortFiles,
         Trim, Delete, RestoreConfig, RestoreRaises, RestoreEnv, RestoreState, SetBackupPassword,
         SignIn, Tick, Restart, account, vars
    <2>2. SetPassword => highest' >= highest /\ highest' \in Nat
      BY DEF SetPassword, Bumped, TypeOK
    <2>3. QED
      BY <2>1, <2>2 DEF TypeOK
  <1>2. /\ \A p \in Processes : writer[p].arc.store \in Nat
        /\ \A n \in Names : data[n].store \in Nat
        /\ highest \in Nat /\ store \in Nat
    BY DEF TypeOK, Writer, Archive
  <1>3. \A p \in Processes : writer'[p].arc.store <= highest'
    <2> TAKE p \in Processes
    <2>1. writer'[p].arc.store \in {writer[p].arc.store, 1, store}
      BY ArcMoves
    <2>2. QED
      BY <1>1, <1>2, <2>1 DEF VersionsAgree
  <1>4. \A n \in Names : data'[n].store <= highest'
    <2> TAKE n \in Names
    <2>1. \/ data'[n].store = data[n].store
          \/ data'[n].store = 1
          \/ \E p \in Processes : data'[n].store = writer[p].arc.store
      BY DataMoves
    <2>2. QED
      BY <1>1, <1>2, <2>1 DEF VersionsAgree
  <1>5. QED
    BY <1>1, <1>3, <1>4

LEMMA VersionsStep ==
    ASSUME TypeOK, VersionsAgree, [Next]_vars
    PROVE  VersionsAgree'
  <1>0. /\ version \in Nat /\ store \in Nat /\ highest \in Nat /\ highest' \in Nat /\ made \in Nat
        /\ session \in [pw : Nat, sv : Nat] /\ file \in Env /\ password \in Nat
        /\ restore.arc \in Archive /\ restore.arc.store \in Nat /\ rewound \in BOOLEAN
        /\ highest' >= highest
    BY HighestGrows DEF TypeOK, Archive
  <1>a. ASSUME UNCHANGED <<version, store, highest, session, file, password, rewound>>,
               restore'.arc.store <= highest
        PROVE  VersionsAgree'
    BY <1>a, HighestGrows DEF VersionsAgree
  <1>1. CASE UNCHANGED <<version, store, highest, session, file, password, rewound, restore>>
    BY <1>1, <1>a DEF VersionsAgree
  <1>2. CASE RestoreConfig
    <2>1. PICK n \in Range(dir) : restore' = [at |-> "env", arc |-> data[n]]
      BY <1>2 DEF RestoreConfig
    <2>2. restore'.arc.store <= highest
      BY <2>1, RangeNames DEF TypeOK, VersionsAgree
    <2>3. QED
      BY <1>2, <1>a, <2>2 DEF RestoreConfig, account
  <1>3. CASE RestoreRaises
    <2>1. restore'.arc.store <= highest
      BY <1>3 DEF RestoreRaises, NoRestore, Nothing, VersionsAgree
    <2>2. QED
      BY <1>3, <1>a, <2>1 DEF RestoreRaises, account
  <1>4. CASE RestoreEnv
    <2>1. restore'.arc = restore.arc /\ UNCHANGED <<version, store, highest, session, password>>
      BY <1>4 DEF RestoreEnv, TypeOK
    <2>2. ~rewound' => ~rewound /\ file'.pw = file.pw
      BY <1>4 DEF RestoreEnv
    <2>3. QED
      BY <2>1, <2>2, HighestGrows DEF VersionsAgree
  <1>5. CASE RestoreState
    <2>1. restore'.arc.store <= highest /\ store' = restore.arc.store
      BY <1>5 DEF RestoreState, NoRestore, Nothing, VersionsAgree
    <2>2. UNCHANGED <<version, highest, session, file, password>>
      BY <1>5 DEF RestoreState
    <2>3. ~rewound' => ~rewound /\ ~(store' < highest)
      BY <1>5 DEF RestoreState
    <2>4. store' <= highest /\ (~rewound' => store' = highest)
      BY <1>0, <2>1, <2>3 DEF VersionsAgree
    <2>5. QED
      BY <2>1, <2>2, <2>3, <2>4, HighestGrows DEF VersionsAgree
  <1>6. CASE SetPassword
    <2>1. /\ store' = store + 1 /\ version' = store + 1 /\ file'.pw = password'
          /\ highest' = IF store + 1 > highest THEN store + 1 ELSE highest
          /\ UNCHANGED <<restore, session>>
      BY <1>0, <1>6 DEF SetPassword, Bumped, Env
    <2>2. ~rewound' => ~rewound \/ store' > highest
      BY <1>0, <1>6, <2>1 DEF SetPassword
    <2>3. ~rewound' => store + 1 > highest
      BY <1>0, <2>1, <2>2 DEF VersionsAgree
    <2>4. ~rewound' => version' = highest' /\ store' = highest' /\ session'.sv # version'
      BY <1>0, <2>1, <2>3 DEF VersionsAgree
    <2>5. /\ version' <= highest' /\ store' <= highest' /\ session'.sv <= highest' /\ 1 <= highest'
          /\ restore'.arc.store <= highest'
      BY <1>0, <2>1 DEF VersionsAgree
    <2>6. QED
      BY <2>1, <2>4, <2>5, HighestGrows DEF VersionsAgree
  <1>7. CASE SetBackupPassword
    <2>1. file'.pw = file.pw
      BY <1>0, <1>7 DEF SetBackupPassword, Env
    <2>2. QED
      BY <1>7, <2>1, HighestGrows DEF SetBackupPassword, VersionsAgree
  <1>8. CASE SignIn
    BY <1>8, HighestGrows DEF SignIn, VersionsAgree
  <1>9. ASSUME NEW p \in Processes, Restart(p) PROVE VersionsAgree'
    <2>1. UNCHANGED <<file, store, session, highest, rewound>>
      BY <1>9 DEF Restart
    <2>2. CASE p = "dash"
      <3>1. password' = file.pw /\ version' = store /\ restore' = NoRestore
        BY <1>9, <2>2 DEF Restart
      <3>2. restore'.arc.store <= highest
        BY <3>1 DEF NoRestore, Nothing, VersionsAgree
      <3>3. QED
        BY <2>1, <3>1, <3>2, HighestGrows DEF VersionsAgree
    <2>3. CASE p # "dash"
      BY <1>9, <1>1, <2>1, <2>3 DEF Restart
    <2>4. QED
      BY <2>2, <2>3
  <1>10. QED
    BY <1>1, <1>2, <1>3, <1>4, <1>5, <1>6, <1>7, <1>8, <1>9 DEF Next, Write, Restoring, ReadFiles,
       OpenFile, WriteFile, WriteRaises, Glob, SortFiles, Trim, Delete, Tick, account, vars

\* A change of the password ends the sessions before it, but for a restore that puts back a
\* password or takes the version back, until the version has passed the highest again.
THEOREM SessionsEndHolds == Spec => []SessionsEnd
  <1>1. Init => VersionsAgree
    BY DEF Init, VersionsAgree, FirstEnv, Idle, Nothing, NoRestore
  <1>2. TypeOK /\ VersionsAgree => SessionsEnd
    BY DEF TypeOK, VersionsAgree, SessionsEnd
  <1>3. TypeOK /\ TypeOK' /\ VersionsAgree /\ [Next]_vars => VersionsAgree'
    BY VersionsStep
  <1>4. QED
    BY <1>1, <1>2, <1>3, TypeCorrect, PTL DEF Spec

-----------------------------------------------------------------------------
(* The number of files *)

\* A process is about to count the files, or has all of them on its list.
WillCount(p) == writer[p].at \in {"write", "glob"}
HasListed(p) ==
    writer[p].at \in {"sort", "trim"} /\ Range(dir) \subseteq Range(writer[p].seen)

\* When there are too many files someone is at them, or a save failed.
InHand ==
    \/ cut
    \/ \E p \in Processes : WillCount(p) \/ HasListed(p)
    \/ Len(dir) <= MaxBackups

LEMMA InHandStep ==
    ASSUME TypeOK, InHand, [Next]_vars
    PROVE  InHand'
  <1>0. /\ dir \in Seq(Names) /\ IsInjective(dir) /\ Len(dir) \in Nat
        /\ \A p \in Processes : writer[p] \in Writer /\ writer[p].seen \in Seq(Names)
        /\ MaxBackups \in Nat \ {0}
    BY LenProperties, BackupAssumption DEF TypeOK, Writer
  \* A process that stays where it is, while the directory does not grow, is at it as before.
  <1>a. ASSUME NEW q \in Processes, Range(dir') \subseteq Range(dir),
               writer'[q].at = writer[q].at, writer'[q].seen = writer[q].seen,
               WillCount(q) \/ HasListed(q)
        PROVE  InHand'
    <2>1. WillCount(q)' \/ HasListed(q)'
      BY <1>a DEF WillCount, HasListed
    <2>2. QED
      BY <2>1 DEF InHand
  <1>b. ASSUME NEW q \in Processes, NEW b, writer'[q] = [writer[q] EXCEPT !.raced = b]
        PROVE  writer'[q].at = writer[q].at /\ writer'[q].seen = writer[q].seen
    BY <1>0, <1>b DEF Writer
  <1>c. ASSUME cut' PROVE InHand'
    BY <1>c DEF InHand
  <1>d. ASSUME NEW n, dir' = Removed(n)
        PROVE  Range(dir') \subseteq Range(dir) /\ Len(dir') <= Len(dir) /\ Len(dir') \in Nat
    <2>1. dir' \in Seq(Names) /\ Range(dir') = Range(dir) \ {n} /\ Len(dir') <= Len(dir)
      BY <1>d, DirMoves
    <2>2. QED
      BY <2>1, LenProperties
  <1>1. ASSUME NEW p \in Processes, Write(p) PROVE InHand'
    <2> DEFINE q == Other(p)
    <2>0. /\ q \in Processes /\ q # p /\ writer[p] \in Writer
          /\ \A r \in Processes : r = p \/ r = q
      BY <1>0, Others
    <2> HIDE DEF q
    <2>a. ASSUME NEW r \in Processes, WillCount(r)' \/ HasListed(r)' PROVE InHand'
      BY <2>a DEF InHand
    \* Where p was not at it, the other one or the number of files tells.
    <2>b. ASSUME ~WillCount(p), ~HasListed(p), cut' = cut, Range(dir') \subseteq Range(dir),
                 Len(dir') <= Len(dir), Len(dir') \in Nat,
                 writer'[q].at = writer[q].at, writer'[q].seen = writer[q].seen
          PROVE  InHand'
      <3>1. CASE cut
        BY <1>c, <2>b, <3>1
      <3>2. CASE WillCount(q) \/ HasListed(q)
        BY <1>a, <2>0, <2>b, <3>2
      <3>3. CASE Len(dir) <= MaxBackups
        BY <1>0, <2>b, <3>3 DEF InHand
      <3>4. QED
        BY <2>0, <2>b, <3>1, <3>2, <3>3 DEF InHand
    <2>c. ASSUME UNCHANGED dir
          PROVE  Range(dir') \subseteq Range(dir) /\ Len(dir') <= Len(dir) /\ Len(dir') \in Nat
      BY <1>0, <2>c
    <2>1. CASE ReadFiles(p)
      <3>1. writer'[q] = writer[q] /\ writer[p].at = "idle" /\ UNCHANGED <<dir, cut>>
        BY <2>1, WriterMoves DEF ReadFiles, q
      <3>2. QED
        BY <2>b, <2>c, <3>1 DEF WillCount, HasListed
    <2>2. CASE OpenFile(p)
      <3>1. writer'[p].at = "write"
        BY <2>2, WriterMoves
      <3>2. QED
        BY <2>a, <3>1 DEF WillCount
    <2>3. CASE WriteFile(p)
      <3>1. writer'[p].at = "glob"
        BY <2>3, WriterMoves
      <3>2. QED
        BY <2>a, <3>1 DEF WillCount
    <2>4. CASE WriteRaises(p)
      BY <1>c, <2>4 DEF WriteRaises
    <2>5. CASE Glob(p)
      <3>1. writer'[p].at = "sort" /\ writer'[p].seen = dir /\ dir' = dir
        BY <2>5, WriterMoves DEF Glob
      <3>2. QED
        BY <2>a, <3>1 DEF HasListed
    <2>6. CASE SortFiles(p)
      <3>1. CASE \A n \in Range(writer[p].seen) : Present(n)
        <4> DEFINE S == Sorted(Range(writer[p].seen))
        <4>1. writer'[p].at = "trim" /\ writer'[p].seen = S /\ writer'[q] = writer[q]
          BY <2>6, <3>1, WriterMoves DEF q
        <4>2. UNCHANGED <<dir, cut>> /\ writer[p].at = "sort"
          BY <2>6, <3>1 DEF SortFiles
        <4>3. Range(writer[p].seen) \in SUBSET Range(dir)
          BY <3>1, DirMoves
        <4>4. Range(S) = Range(writer[p].seen)
          BY <1>0, <4>3, SortedFacts
        <4> HIDE DEF S
        <4>5. CASE HasListed(p)
          <5>1. HasListed(p)'
            BY <4>1, <4>2, <4>4, <4>5 DEF HasListed
          <5>2. QED
            BY <2>a, <5>1
        <4>6. CASE ~HasListed(p)
          BY <2>b, <2>c, <4>1, <4>2, <4>6 DEF WillCount
        <4>7. QED
          BY <4>5, <4>6
      <3>2. CASE ~(\A n \in Range(writer[p].seen) : Present(n))
        BY <1>c, <2>6, <3>2 DEF SortFiles
      <3>3. QED
        BY <3>1, <3>2
    <2>7. CASE Trim(p)
      <3> DEFINE seen == writer[p].seen
                 n == Head(seen)
      <3>0. writer[p].at = "trim" /\ UNCHANGED cut /\ seen \in Seq(Names) /\ Len(seen) \in Nat
        BY <1>0, <2>7, LenProperties DEF Trim
      <3>1. CASE TooMany(seen)
        <4>1. writer'[p].at = "trim" /\ writer'[p].seen = Tail(seen)
              /\ writer'[q] = [writer[q] EXCEPT !.raced = writer[q].raced \/ MeansToKeep(q, n)]
          BY <2>7, <3>1, WriterMoves DEF q
        <4>2. writer'[q].at = writer[q].at /\ writer'[q].seen = writer[q].seen
          BY <1>b, <2>0, <4>1
        <4>3. dir' = Removed(n)
          BY <2>7, <3>1 DEF Trim
        <4>4. CASE HasListed(p)
          <5>1. seen # <<>>
            BY <1>0, <3>0, <3>1, EmptySeq DEF TooMany
          <5>2. Range(seen) \subseteq {n} \cup Range(Tail(seen))
            <6>1. /\ Len(Tail(seen)) = Len(seen) - 1 /\ n = seen[1]
                  /\ Tail(seen) \in Seq(Names)
                  /\ \A i \in 1 .. Len(Tail(seen)) : Tail(seen)[i] = seen[i + 1]
              BY <3>0, <5>1, HeadTailProperties
            <6>2. DOMAIN seen = 1 .. Len(seen) /\ DOMAIN Tail(seen) = 1 .. Len(seen) - 1
              BY <3>0, <6>1, LenProperties
            <6> DEFINE tail == Tail(seen)
            <6> HIDE DEF tail
            <6>3. ASSUME NEW i \in DOMAIN seen, i # 1 PROVE seen[i] \in Range(tail)
              <7>1. i - 1 \in 1 .. Len(seen) - 1 /\ i - 1 + 1 = i
                BY <3>0, <6>2, <6>3
              <7>2. i - 1 \in DOMAIN tail /\ tail[i - 1] = seen[i]
                BY <6>1, <6>2, <7>1 DEF tail
              <7>3. QED
                BY <7>2 DEF Range
            <6>4. \A i \in DOMAIN seen : seen[i] \in {n} \cup Range(tail)
              BY <6>1, <6>3
            <6>5. QED
              BY <6>4 DEF Range, tail
          <5>3. Range(dir') = Range(dir) \ {n}
            BY <4>3, DirMoves
          <5>4. HasListed(p)'
            BY <4>1, <4>4, <5>2, <5>3 DEF HasListed
          <5>5. QED
            BY <2>a, <5>4
        <4>5. CASE ~HasListed(p)
          BY <1>d, <2>b, <3>0, <4>2, <4>3, <4>5 DEF WillCount
        <4>6. QED
          BY <4>4, <4>5
      <3>2. CASE ~TooMany(seen)
        <4>1. UNCHANGED dir /\ writer'[q] = writer[q]
          BY <2>7, <3>2, WriterMoves DEF Trim, q
        <4>2. CASE HasListed(p)
          <5>1. Len(dir) <= Len(seen)
            BY <1>0, <3>0, <4>2, NoLonger DEF HasListed
          <5>2. Len(dir) <= MaxBackups
            BY <1>0, <3>0, <3>2, <5>1 DEF TooMany
          <5>3. QED
            BY <4>1, <5>2 DEF InHand
        <4>3. CASE ~HasListed(p)
          BY <2>b, <2>c, <3>0, <4>1, <4>3 DEF WillCount
        <4>4. QED
          BY <4>2, <4>3
      <3>3. QED
        BY <3>1, <3>2
    <2>8. CASE Restart(p)
      <3>1. CASE writer[p].at \in {"idle", "state"}
        <4>1. UNCHANGED dir /\ writer'[q] = writer[q] /\ cut' = cut
          <5>1. End(p) /\ UNCHANGED dir
            BY <2>8 DEF Restart
          <5>2. cut' = (cut \/ FALSE) /\ cut \in BOOLEAN
            BY <2>8, <3>1 DEF Restart, TypeOK
          <5>3. QED
            BY <5>1, <5>2, WriterMoves DEF q
        <4>2. QED
          BY <2>b, <2>c, <3>1, <4>1 DEF WillCount, HasListed
      <3>2. CASE writer[p].at \notin {"idle", "state"}
        BY <1>c, <2>8, <3>2 DEF Restart
      <3>3. QED
        BY <3>1, <3>2
    <2>9. QED
      BY <1>1, <2>1, <2>2, <2>3, <2>4, <2>5, <2>6, <2>7, <2>8 DEF Write
  <1>2. ASSUME NEW n \in Names, Delete(n) PROVE InHand'
    <2>1. dir' = Removed(n) /\ cut' = cut
      BY <1>2 DEF Delete
    <2>2. \A q \in Processes : writer'[q].at = writer[q].at /\ writer'[q].seen = writer[q].seen
      BY <1>2, <1>b, DeleteMoves DEF Processes
    <2>3. QED
      BY <1>0, <1>a, <1>d, <2>1, <2>2 DEF InHand
  <1>3. ASSUME UNCHANGED <<writer, dir, data, cut>> PROVE InHand'
    BY <1>3 DEF InHand, WillCount, HasListed
  <1>4. QED
    BY <1>1, <1>2, <1>3, Steps, WritersRest

\* When nobody writes there are no more files than max_backups, unless a save failed or stopped
\* after it had created its file and none has listed the directory since.
THEOREM WithinMaxHolds == Spec => []WithinMax
  <1>1. Init => InHand
    BY EmptySeq, BackupAssumption DEF Init, InHand
  <1>2. InHand => WithinMax
    BY DEF InHand, WithinMax, WillCount, HasListed
  <1>3. TypeOK /\ TypeOK' /\ InHand /\ [Next]_vars => InHand'
    BY InHandStep
  <1>4. QED
    BY <1>1, <1>2, <1>3, TypeCorrect, PTL DEF Spec

-----------------------------------------------------------------------------
(* The newest archive *)

\* Of a list of files the last MaxBackups are kept: in directory d they are there, and a whole
\* file that the list has before one of them is the older one.
InOrder(seen, d, content) ==
    \A j \in DOMAIN seen : j + MaxBackups > Len(seen) =>
        /\ seen[j] \in Range(d)
        /\ \A i \in 1 .. j - 1 : content[seen[i]].state = "whole" => Precedes(d, seen[i], seen[j])

\* The list process p works through is still in the order of the directory, if nobody wrote to
\* or removed a file of it.
ListIsGood(p) ==
    writer[p].at = "trim" =>
        /\ IsInjective(writer[p].seen)
        /\ ~writer[p].raced => InOrder(writer[p].seen, dir, data)

WholeIsThere == \A n \in Names : data[n].state = "whole" => n \in Range(dir)

ListsAreGood == WholeIsThere /\ \A p \in Processes : ListIsGood(p)

\* The removal of a file that is not to be kept leaves the order.
LEMMA OrderAfterRemoval ==
    ASSUME TypeOK, NEW seen \in Seq(Names), InOrder(seen, dir, data), NEW n, NEW content,
           content[n].state # "whole", \A m \in Names \ {n} : content[m] = data[m],
           \A j \in DOMAIN seen : j + MaxBackups > Len(seen) => seen[j] # n
    PROVE  InOrder(seen, Removed(n), content)
  <1>1. SUFFICES ASSUME NEW j \in DOMAIN seen, j + MaxBackups > Len(seen)
                 PROVE  /\ seen[j] \in Range(Removed(n))
                        /\ \A i \in 1 .. j - 1 : content[seen[i]].state = "whole"
                              => Precedes(Removed(n), seen[i], seen[j])
    BY DEF InOrder
  <1>2. seen[j] \in Range(dir) /\ seen[j] # n
    BY <1>1 DEF InOrder
  <1>3. seen[j] \in Range(Removed(n))
    BY <1>2, DirMoves
  <1>4. ASSUME NEW i \in 1 .. j - 1, content[seen[i]].state = "whole"
        PROVE  Precedes(Removed(n), seen[i], seen[j])
    <2>1. seen[i] \in Names /\ seen[i] # n
      BY <1>4, LenProperties, ElementOfSeq
    <2>2. data[seen[i]].state = "whole"
      BY <1>4, <2>1
    <2>3. Precedes(dir, seen[i], seen[j])
      BY <1>1, <2>2 DEF InOrder
    <2>4. QED
      BY <1>2, <2>1, <2>3, DirMoves
  <1>5. QED
    BY <1>3, <1>4

\* So does a write to a file that is not whole by it, or is not on the list.
LEMMA OrderAfterWrite ==
    ASSUME TypeOK, NEW seen \in Seq(Names), InOrder(seen, dir, data), NEW n \in Names, NEW content,
           \A m \in Names \ {n} : content[m] = data[m],
           content[n].state # "whole" \/ n \notin Range(seen)
    PROVE  InOrder(seen, Touched(n), content)
  <1>1. SUFFICES ASSUME NEW j \in DOMAIN seen, j + MaxBackups > Len(seen)
                 PROVE  /\ seen[j] \in Range(Touched(n))
                        /\ \A i \in 1 .. j - 1 : content[seen[i]].state = "whole"
                              => Precedes(Touched(n), seen[i], seen[j])
    BY DEF InOrder
  <1>2. seen[j] \in Range(dir)
    BY <1>1 DEF InOrder
  <1>3. seen[j] \in Range(Touched(n))
    BY <1>2, DirMoves
  <1>4. ASSUME NEW i \in 1 .. j - 1, content[seen[i]].state = "whole"
        PROVE  Precedes(Touched(n), seen[i], seen[j])
    <2>1. i \in DOMAIN seen /\ seen[i] \in Names
      BY <1>4, LenProperties, ElementOfSeq
    <2>2. seen[i] # n
      BY <1>4, <2>1 DEF Range
    <2>3. data[seen[i]].state = "whole"
      BY <1>4, <2>1, <2>2
    <2>4. Precedes(dir, seen[i], seen[j])
      BY <1>1, <2>3 DEF InOrder
    <2>5. seen[i] \in Range(dir)
      BY <2>4 DEF Precedes, Range
    <2>6. CASE seen[j] = n
      BY <2>2, <2>5, <2>6, DirMoves
    <2>7. CASE seen[j] # n
      BY <2>2, <2>4, <2>7, DirMoves
    <2>8. QED
      BY <2>6, <2>7
  <1>5. QED
    BY <1>3, <1>4

\* A list that has just been sorted is in order.
LEMMA SortedInOrder ==
    ASSUME TypeOK, NEW names \in SUBSET Range(dir)
    PROVE  IsInjective(Sorted(names)) /\ InOrder(Sorted(names), dir, data)
  <1> DEFINE seen == Sorted(names)
  <1>1. /\ seen \in Seq(Names) /\ IsInjective(seen) /\ Range(seen) = names
        /\ \A i, j \in DOMAIN seen : i < j => Precedes(dir, seen[i], seen[j])
    BY SortedFacts DEF TypeOK
  <1> HIDE DEF seen
  <1>2. Len(seen) \in Nat /\ DOMAIN seen = 1 .. Len(seen)
    BY <1>1, LenProperties
  <1>3. ASSUME NEW j \in DOMAIN seen
        PROVE  seen[j] \in Range(dir) /\ \A i \in 1 .. j - 1 : Precedes(dir, seen[i], seen[j])
    <2>1. seen[j] \in names
      BY <1>1 DEF Range
    <2>2. \A i \in 1 .. j - 1 : i \in DOMAIN seen /\ i < j
      BY <1>2
    <2>3. QED
      BY <1>1, <2>1, <2>2
  <1>4. QED
    BY <1>1, <1>3 DEF InOrder, seen

\* And it stays so when its first file, which is not to be kept, is taken off it.
LEMMA TailInOrder ==
    ASSUME NEW seen \in Seq(Names), IsInjective(seen), Len(seen) > MaxBackups
    PROVE  /\ Tail(seen) \in Seq(Names) /\ IsInjective(Tail(seen))
           /\ \A j \in DOMAIN Tail(seen) : Tail(seen)[j] # Head(seen)
           /\ \A d, content : InOrder(seen, d, content) => InOrder(Tail(seen), d, content)
  <1> DEFINE t == Tail(seen)
  <1>0. Len(seen) \in Nat /\ DOMAIN seen = 1 .. Len(seen) /\ MaxBackups \in Nat \ {0}
    BY LenProperties, BackupAssumption
  <1>1. seen # <<>>
    BY <1>0, EmptySeq
  <1>2. /\ t \in Seq(Names) /\ Len(t) = Len(seen) - 1 /\ DOMAIN t = 1 .. Len(seen) - 1
        /\ Head(seen) = seen[1] /\ \A i \in 1 .. Len(seen) - 1 : t[i] = seen[i + 1]
    BY <1>1, HeadTailProperties, LenProperties
  <1> HIDE DEF t
  <1>a. \A j \in DOMAIN t : j + 1 \in DOMAIN seen /\ t[j] = seen[j + 1] /\ j + 1 # 1
    BY <1>0, <1>2
  <1>b. \A i, j \in DOMAIN t : i + 1 = j + 1 => i = j
    BY <1>0, <1>2
  <1>3. IsInjective(t)
    BY <1>a, <1>b DEF IsInjective
  <1>4. \A j \in DOMAIN t : t[j] # Head(seen)
    <2>1. 1 \in DOMAIN seen
      BY <1>0
    <2>2. QED
      BY <1>2, <1>a, <2>1 DEF IsInjective
  <1>5. ASSUME NEW d, NEW content, InOrder(seen, d, content) PROVE InOrder(t, d, content)
    <2>1. SUFFICES ASSUME NEW j \in DOMAIN t, j + MaxBackups > Len(t)
                   PROVE  /\ t[j] \in Range(d)
                          /\ \A i \in 1 .. j - 1 : content[t[i]].state = "whole"
                                => Precedes(d, t[i], t[j])
      BY DEF InOrder
    <2>2. j + 1 \in DOMAIN seen /\ j + 1 + MaxBackups > Len(seen) /\ t[j] = seen[j + 1]
      BY <1>0, <1>2, <2>1
    <2>3. \A i \in 1 .. j - 1 : i + 1 \in 1 .. (j + 1) - 1 /\ t[i] = seen[i + 1]
      BY <1>0, <1>2
    <2>4. QED
      BY <1>5, <2>2, <2>3 DEF InOrder
  <1>6. QED
    BY <1>2, <1>3, <1>4, <1>5 DEF t

LEMMA WholeStep ==
    ASSUME TypeOK, WholeIsThere, [Next]_vars
    PROVE  WholeIsThere'
  <1>0. data \in [Names -> Archive] /\ Nothing.state # "whole"
    BY DEF TypeOK, Nothing
  <1>1. ASSUME UNCHANGED <<dir, data>> PROVE WholeIsThere'
    BY <1>1 DEF WholeIsThere
  <1>2. ASSUME NEW m, dir' = Removed(m), data' = [data EXCEPT ![m] = Nothing] PROVE WholeIsThere'
    <2>1. ASSUME NEW n \in Names, data'[n].state = "whole" PROVE n # m /\ data[n].state = "whole"
      BY <1>0, <1>2, <2>1
    <2>2. Range(dir') = Range(dir) \ {m}
      BY <1>2, DirMoves
    <2>3. QED
      BY <2>1, <2>2 DEF WholeIsThere
  <1>3. ASSUME NEW m \in Names, NEW a, dir' = Touched(m), data' = [data EXCEPT ![m] = a]
        PROVE  WholeIsThere'
    <2>1. \A n \in Names : n # m => data'[n] = data[n]
      BY <1>0, <1>3
    <2>2. Range(dir') = Range(dir) \cup {m}
      BY <1>3, DirMoves
    <2>3. QED
      BY <2>1, <2>2 DEF WholeIsThere
  <1>4. ASSUME NEW p \in Processes, Write(p) PROVE WholeIsThere'
    <2>1. CASE OpenFile(p)
      BY <1>3, <2>1 DEF OpenFile, TypeOK
    <2>2. CASE WriteFile(p)
      <3> DEFINE n == writer[p].name
      <3>1. CASE ~Present(n)
        BY <1>1, <2>2, <3>1 DEF WriteFile
      <3>2. CASE Present(n)
        <4>1. n \in Names
          BY <3>2, DirMoves, RangeNames DEF TypeOK
        <4>2. dir' = Touched(n) /\ \E a : data' = [data EXCEPT ![n] = a]
          BY <2>2, <3>2 DEF WriteFile
        <4>3. QED
          BY <1>3, <4>1, <4>2
      <3>3. QED
        BY <3>1, <3>2
    <2>3. CASE Trim(p)
      BY <1>1, <1>2, <2>3 DEF Trim
    <2>4. CASE ReadFiles(p) \/ WriteRaises(p) \/ Glob(p) \/ SortFiles(p) \/ Restart(p)
      BY <1>1, <2>4 DEF ReadFiles, WriteRaises, Glob, SortFiles, Restart
    <2>5. QED
      BY <1>4, <2>1, <2>2, <2>3, <2>4 DEF Write
  <1>5. ASSUME NEW n \in Names, Delete(n) PROVE WholeIsThere'
    BY <1>2, <1>5 DEF Delete
  <1>6. QED
    BY <1>1, <1>4, <1>5, Steps, WritersRest

\* The list of a process that does not move itself: what the other one does to a file of it,
\* or a deletion does, is noted.
LEMMA ListOfOther ==
    ASSUME TypeOK, NEW q \in Processes, ListIsGood(q),
           writer'[q].at = writer[q].at, writer'[q].seen = writer[q].seen,
           NEW noted, writer'[q].raced = (writer[q].raced \/ noted),
           ~noted /\ writer[q].at = "trim" /\ InOrder(writer[q].seen, dir, data)
              => InOrder(writer[q].seen, dir', data')
    PROVE  ListIsGood(q)'
  BY DEF ListIsGood

\* The removal of n, when it is noted by those that mean to keep it.
LEMMA RemovalNoted ==
    ASSUME TypeOK, NEW q \in Processes, NEW n, ~MeansToKeep(q, n), writer[q].at = "trim",
           InOrder(writer[q].seen, dir, data),
           dir' = Removed(n), data' = [data EXCEPT ![n] = Nothing]
    PROVE  InOrder(writer[q].seen, dir', data')
  <1>0. data \in [Names -> Archive] /\ Nothing.state # "whole" /\ writer[q].seen \in Seq(Names)
    BY DEF TypeOK, Nothing, Writer
  <1>1. \A m \in Names \ {n} : data'[m] = data[m]
    BY <1>0
  <1>2. \A j \in DOMAIN writer[q].seen :
            j + MaxBackups > Len(writer[q].seen) => writer[q].seen[j] # n
    BY DEF MeansToKeep
  <1>3. CASE n \in Names
    <2>1. data'[n].state # "whole"
      BY <1>0, <1>3
    <2>2. QED
      BY <1>0, <1>1, <1>2, <2>1, OrderAfterRemoval
  <1>4. CASE n \notin Names
    <2>1. data' = data
      BY <1>0, <1>4
    <2>2. n \notin Range(dir)
      BY <1>4, RangeNames DEF TypeOK
    <2>3. Removed(n) = dir
      <3>1. \A i \in 1 .. Len(dir) : dir[i] # n
        BY <2>2, LenProperties DEF TypeOK, Range
      <3>2. QED
        BY <3>1 DEF Removed, RemoveFirst
    <2>4. QED
      BY <2>1, <2>3
  <1>5. QED
    BY <1>3, <1>4

LEMMA ListsStep ==
    ASSUME TypeOK, ListsAreGood, [Next]_vars
    PROVE  ListsAreGood'
  <1>0. /\ data \in [Names -> Archive] /\ Nothing.state # "whole"
        /\ \A q \in Processes : writer[q] \in Writer /\ writer[q].seen \in Seq(Names)
        /\ \A q \in Processes : ListIsGood(q)
    BY DEF TypeOK, Nothing, Writer, ListsAreGood
  <1>a. ASSUME UNCHANGED <<dir, data>>, NEW q \in Processes, writer'[q] = writer[q]
        PROVE  ListIsGood(q)'
    BY <1>0, <1>a DEF ListIsGood
  <1>b. ASSUME NEW q \in Processes, writer'[q].at # "trim" PROVE ListIsGood(q)'
    BY <1>b DEF ListIsGood
  <1>c. ASSUME NEW q \in Processes, NEW b, writer'[q] = [writer[q] EXCEPT !.raced = b]
        PROVE  writer'[q].at = writer[q].at /\ writer'[q].seen = writer[q].seen
               /\ writer'[q].raced = b
    BY <1>0, <1>c DEF Writer
  <1>1. ASSUME NEW p \in Processes, Write(p) PROVE ListIsGood(p)' /\ ListIsGood(Other(p))'
    <2> DEFINE q == Other(p)
               n == writer[p].name
    <2>0. q \in Processes /\ ListIsGood(q) /\ ListIsGood(p)
      BY <1>0, Others
    <2>a. ASSUME End(p), UNCHANGED <<dir, data>> PROVE ListIsGood(p)' /\ ListIsGood(q)'
      <3>1. writer'[p] = Idle /\ writer'[q] = writer[q]
        BY <2>a, WriterMoves
      <3>2. writer'[p].at # "trim"
        BY <3>1 DEF Idle
      <3>3. QED
        BY <1>a, <1>b, <2>0, <2>a, <3>1, <3>2
    <2> HIDE DEF q
    <2>1. CASE ReadFiles(p)
      <3>1. writer'[p].at = "state" /\ writer'[q] = writer[q] /\ UNCHANGED <<dir, data>>
        BY <2>1, WriterMoves DEF ReadFiles, q
      <3>2. QED
        BY <1>a, <1>b, <2>0, <3>1 DEF q
    <2>2. CASE OpenFile(p)
      <3>1. writer'[p].at = "write" /\ writer'[q] = writer[q]
        BY <2>2, WriterMoves DEF q
      <3> DEFINE s == IF Shares(p, clock) THEN "shared" ELSE "open"
      <3>2. /\ dir' = Touched(clock) /\ clock \in Names /\ s # "whole"
            /\ data' = [data EXCEPT ![clock] = [Nothing EXCEPT !.state = s]]
        BY <2>2 DEF OpenFile, TypeOK
      <3> HIDE DEF s
      <3>3. data'[clock].state # "whole" /\ \A m \in Names \ {clock} : data'[m] = data[m]
        BY <1>0, <3>2 DEF Nothing
      <3>4. InOrder(writer[q].seen, dir, data) => InOrder(writer[q].seen, dir', data')
        BY <1>0, <2>0, <3>2, <3>3, OrderAfterWrite
      <3>5. ListIsGood(q)'
        BY <2>0, <3>1, <3>4 DEF ListIsGood
      <3>6. QED
        BY <1>b, <3>1, <3>5 DEF q
    <2>3. CASE WriteFile(p)
      <3> DEFINE noted == Lists(q, n)
                 raced == writer[q].raced \/ noted
      <3>1. writer'[p].at = "glob" /\ writer'[q] = [writer[q] EXCEPT !.raced = raced]
        BY <2>3, WriterMoves DEF q
      <3>2. ASSUME ~noted, writer[q].at = "trim", InOrder(writer[q].seen, dir, data)
            PROVE  InOrder(writer[q].seen, dir', data')
        <4>1. CASE ~Present(n)
          <5>1. UNCHANGED <<dir, data>>
            BY <2>3, <4>1 DEF WriteFile
          <5>2. QED
            BY <3>2, <5>1
        <4>2. CASE Present(n)
          <5>1. n \in Names /\ n \notin Range(writer[q].seen)
            BY <1>0, <2>0, <3>2, <4>2, DirMoves, RangeNames DEF Lists, TypeOK
          <5>2. dir' = Touched(n) /\ \E a : data' = [data EXCEPT ![n] = a]
            BY <2>3, <4>2 DEF WriteFile
          <5>3. \A m \in Names \ {n} : data'[m] = data[m]
            BY <1>0, <5>2
          <5>4. QED
            BY <1>0, <2>0, <3>2, <5>1, <5>2, <5>3, OrderAfterWrite
        <4>3. QED
          BY <4>1, <4>2
      <3>3. writer'[q].at = writer[q].at /\ writer'[q].seen = writer[q].seen
            /\ writer'[q].raced = raced
        <4> HIDE DEF raced
        <4>1. QED
          BY <1>c, <2>0, <3>1
      <3>4. ListIsGood(q)'
        <4> HIDE DEF noted
        <4>1. QED
          BY <2>0, <3>2, <3>3, ListOfOther
      <3>5. QED
        BY <1>b, <3>1, <3>4 DEF q
    <2>4. CASE WriteRaises(p) \/ Restart(p)
      BY <2>4, <2>a DEF WriteRaises, Restart, q
    <2>5. CASE Glob(p)
      <3>1. writer'[p].at = "sort" /\ writer'[q] = writer[q] /\ UNCHANGED <<dir, data>>
        BY <2>5, WriterMoves DEF Glob, q
      <3>2. QED
        BY <1>a, <1>b, <2>0, <3>1 DEF q
    <2>6. CASE SortFiles(p)
      <3>1. CASE \A m \in Range(writer[p].seen) : Present(m)
        <4> DEFINE names == Range(writer[p].seen)
        <4>1. writer'[p].seen = Sorted(names) /\ writer'[q] = writer[q]
          BY <2>6, <3>1, WriterMoves DEF q
        <4>2. UNCHANGED <<dir, data>>
          BY <2>6 DEF SortFiles
        <4>3. names \in SUBSET Range(dir)
          BY <3>1, DirMoves
        <4> HIDE DEF names
        <4>4. IsInjective(Sorted(names)) /\ InOrder(Sorted(names), dir, data)
          BY <4>3, SortedInOrder
        <4>5. ListIsGood(p)'
          BY <4>1, <4>2, <4>4 DEF ListIsGood
        <4>6. QED
          BY <1>a, <2>0, <4>1, <4>2, <4>5 DEF q
      <3>2. CASE ~(\A m \in Range(writer[p].seen) : Present(m))
        BY <2>6, <2>a, <3>2 DEF SortFiles, q
      <3>3. QED
        BY <3>1, <3>2
    <2>7. CASE Trim(p)
      <3> DEFINE seen == writer[p].seen
                 m == Head(seen)
      <3>1. CASE TooMany(seen)
        <4> DEFINE noted == MeansToKeep(q, m)
                   raced == writer[q].raced \/ noted
        <4>0. seen \in Seq(Names) /\ writer[p].at = "trim" /\ IsInjective(seen)
              /\ Len(seen) > MaxBackups /\ (~writer[p].raced => InOrder(seen, dir, data))
          BY <1>0, <2>0, <2>7, <3>1 DEF Trim, TooMany, ListIsGood
        <4>1. /\ writer'[p].at = "trim" /\ writer'[p].seen = Tail(seen)
              /\ writer'[p].raced = writer[p].raced
              /\ writer'[q] = [writer[q] EXCEPT !.raced = raced]
          BY <2>7, <3>1, WriterMoves DEF q
        <4>2. dir' = Removed(m) /\ data' = [data EXCEPT ![m] = Nothing]
          BY <2>7, <3>1 DEF Trim
        <4>3. /\ Tail(seen) \in Seq(Names) /\ IsInjective(Tail(seen))
              /\ \A j \in DOMAIN Tail(seen) : Tail(seen)[j] # m
              /\ InOrder(seen, dir, data) => InOrder(Tail(seen), dir, data)
          BY <4>0, TailInOrder
        <4>4. m \in Names
          <5>1. seen # <<>>
            BY <4>0, EmptySeq, BackupAssumption
          <5>2. QED
            BY <4>0, <5>1, HeadTailProperties
        <4>5. data'[m].state # "whole" /\ \A o \in Names \ {m} : data'[o] = data[o]
          BY <1>0, <4>2, <4>4
        <4>6. InOrder(seen, dir, data) => InOrder(Tail(seen), dir', data')
          BY <4>2, <4>3, <4>5, OrderAfterRemoval
        <4>7. ListIsGood(p)'
          BY <4>0, <4>1, <4>3, <4>6 DEF ListIsGood
        <4>8. writer'[q].at = writer[q].at /\ writer'[q].seen = writer[q].seen
              /\ writer'[q].raced = raced
          <5> HIDE DEF raced
          <5>1. QED
            BY <1>c, <2>0, <4>1
        <4>9. ~noted /\ writer[q].at = "trim" /\ InOrder(writer[q].seen, dir, data)
                 => InOrder(writer[q].seen, dir', data')
          BY <2>0, <4>2, RemovalNoted
        <4>10. ListIsGood(q)'
          <5> HIDE DEF noted
          <5>1. QED
            BY <2>0, <4>8, <4>9, ListOfOther
        <4>11. QED
          BY <4>7, <4>10 DEF q
      <3>2. CASE ~TooMany(seen)
        BY <2>7, <2>a, <3>2 DEF Trim, q
      <3>3. QED
        BY <3>1, <3>2
    <2>8. QED
      BY <1>1, <2>1, <2>2, <2>3, <2>4, <2>5, <2>6, <2>7 DEF Write, q
  <1>2. ASSUME NEW n \in Names, Delete(n), NEW q \in Processes PROVE ListIsGood(q)'
    <2>1. CASE q = "dash"
      BY <1>2, <1>b, <2>1, DeleteMoves
    <2>2. CASE q = "sched"
      <3> DEFINE noted == MeansToKeep(q, n)
                 raced == writer[q].raced \/ noted
      <3>1. writer'[q] = [writer[q] EXCEPT !.raced = raced]
        BY <1>2, <2>2, DeleteMoves
      <3>2. writer'[q].at = writer[q].at /\ writer'[q].seen = writer[q].seen
            /\ writer'[q].raced = raced
        <4> HIDE DEF raced
        <4>1. QED
          BY <1>c, <3>1
      <3>3. dir' = Removed(n) /\ data' = [data EXCEPT ![n] = Nothing]
        BY <1>2 DEF Delete
      <3>4. ~noted /\ writer[q].at = "trim" /\ InOrder(writer[q].seen, dir, data)
               => InOrder(writer[q].seen, dir', data')
        BY <3>3, RemovalNoted
      <3>5. ListIsGood(q)
        BY <1>0
      <3>6. QED
        <4> HIDE DEF noted
        <4>1. QED
          BY <3>2, <3>4, <3>5, ListOfOther
    <2>3. QED
      BY <2>1, <2>2 DEF Processes
  <1>3. ASSUME UNCHANGED <<writer, dir, data, cut>>, NEW q \in Processes PROVE ListIsGood(q)'
    BY <1>3, <1>a
  <1>4. WholeIsThere'
    BY WholeStep DEF ListsAreGood
  <1>5. \A q \in Processes : ListIsGood(q)'
    <2>1. ASSUME NEW p \in Processes, Write(p), NEW q \in Processes PROVE ListIsGood(q)'
      BY <1>1, <2>1, Others
    <2>2. QED
      BY <1>2, <1>3, <2>1, Steps, WritersRest
  <1>6. QED
    BY <1>4, <1>5 DEF ListsAreGood

\* A list in order names, besides its first file, as many files of the directory as are kept.
LEMMA KeptAreThere ==
    ASSUME TypeOK, NEW seen \in Seq(Names), IsInjective(seen), Len(seen) > MaxBackups,
           InOrder(seen, dir, data), Head(seen) \in Range(dir)
    PROVE  Len(dir) - 1 >= MaxBackups
  <1> DEFINE k == Len(seen) - MaxBackups
             at(i) == IF i = 1 THEN 1 ELSE k + i - 1
             t == [i \in 1 .. MaxBackups + 1 |-> seen[at(i)]]
  <1>0. /\ Len(seen) \in Nat /\ DOMAIN seen = 1 .. Len(seen) /\ MaxBackups \in Nat \ {0}
        /\ Len(dir) \in Nat /\ dir \in Seq(Names) /\ k \in Nat \ {0}
    BY LenProperties, BackupAssumption DEF TypeOK
  <1>a. k + MaxBackups = Len(seen)
    <2>1. \A a, b \in Nat : (a - b) + b = a
      OBVIOUS
    <2>2. QED
      BY <1>0, <2>1
  <1> HIDE DEF k
  <1>1. /\ \A i \in 1 .. MaxBackups + 1 : at(i) \in DOMAIN seen
        /\ \A i, j \in 1 .. MaxBackups + 1 : at(i) = at(j) => i = j
        /\ \A i \in 1 .. MaxBackups + 1 : i # 1 => at(i) + MaxBackups > Len(seen)
    <2>1. ASSUME NEW i \in 1 .. MaxBackups + 1
          PROVE  at(i) \in DOMAIN seen /\ (i # 1 => at(i) + MaxBackups > Len(seen))
      <3>1. CASE i = 1
        BY <1>0, <1>a, <3>1
      <3>2. CASE i # 1
        BY <1>0, <1>a, <3>2
      <3>3. QED
        BY <3>1, <3>2
    <2>2. ASSUME NEW i \in 1 .. MaxBackups + 1, NEW j \in 1 .. MaxBackups + 1, at(i) = at(j)
          PROVE  i = j
      BY <1>0, <2>2
    <2>3. QED
      BY <2>1, <2>2
  <1>2. seen[1] = Head(seen)
    <2>1. seen # <<>>
      BY <1>0, <1>a, EmptySeq
    <2>2. QED
      BY <2>1, HeadTailProperties
  <1>3. \A i \in 1 .. MaxBackups + 1 : seen[at(i)] \in Names /\ seen[at(i)] \in Range(dir)
    <2> TAKE i \in 1 .. MaxBackups + 1
    <2>1. at(i) \in DOMAIN seen /\ (i # 1 => at(i) + MaxBackups > Len(seen)) /\ (i = 1 => at(i) = 1)
      BY <1>1
    <2> HIDE DEF at
    <2>2. seen[at(i)] \in Range(dir)
      BY <1>2, <2>1 DEF InOrder
    <2>3. QED
      BY <1>0, <2>2, RangeNames
  <1> HIDE DEF at
  <1>4. t \in [1 .. MaxBackups + 1 -> Names] /\ MaxBackups + 1 \in Nat
    BY <1>0, <1>3
  <1>5. t \in Seq(Names) /\ Len(t) = MaxBackups + 1 /\ DOMAIN t = 1 .. MaxBackups + 1
    BY <1>4, SeqDef, LenProperties
  <1>6. IsInjective(t)
    BY <1>1, <1>5 DEF IsInjective
  <1>7. Range(t) \subseteq Range(dir)
    BY <1>3, <1>5 DEF Range
  <1>8. Len(t) <= Len(dir)
    <2> HIDE DEF t
    <2>1. QED
      BY <1>0, <1>5, <1>6, <1>7, NoLonger
  <1>9. QED
    BY <1>0, <1>5, <1>8

LEMMA NewestStep ==
    ASSUME TypeOK, ListsAreGood, NEW p \in Processes, NEW n \in Names, TrimsNewest(p, n)
    PROVE  FALSE
  <1> DEFINE seen == writer[p].seen
  <1>0. /\ writer[p].at = "trim" /\ Trim(p) /\ data[n].state = "whole" /\ n \notin Range(dir')
        /\ \A m \in Newer(n) : data[m].state # "whole"
        /\ Len(dir) - 1 < MaxBackups \/ Unfinished(n) = {}
        /\ ~writer[p].raced /\ n \in Range(dir)
    BY DirMoves DEF TrimsNewest
  <1>1. /\ seen \in Seq(Names) /\ Len(seen) \in Nat /\ DOMAIN seen = 1 .. Len(seen)
        /\ IsInjective(seen) /\ InOrder(seen, dir, data) /\ MaxBackups \in Nat \ {0}
        /\ DOMAIN dir = 1 .. Len(dir) /\ Len(dir) \in Nat
    BY <1>0, LenProperties, BackupAssumption DEF TypeOK, Writer, ListsAreGood, ListIsGood
  <1>2. TooMany(seen)
    BY <1>0 DEF Trim
  <1>3. n = Head(seen)
    <2>1. dir' = Removed(Head(seen))
      BY <1>0, <1>2 DEF Trim
    <2>2. QED
      BY <1>0, <2>1, DirMoves
  <1> DEFINE l == Len(seen)
  <1>4. l > MaxBackups /\ l \in DOMAIN seen /\ l + MaxBackups > Len(seen) /\ 1 \in 1 .. l - 1
    BY <1>1, <1>2 DEF TooMany
  <1>5. seen[1] = n
    BY <1>1, <1>3, <1>4, EmptySeq, HeadTailProperties
  <1>6. Precedes(dir, n, seen[l])
    BY <1>0, <1>1, <1>4, <1>5 DEF InOrder
  <1>7. seen[l] \in Newer(n)
    BY <1>1, <1>6 DEF Precedes, Newer
  <1>8. Unfinished(n) # {}
    BY <1>0, <1>7 DEF Unfinished
  <1>9. Len(dir) - 1 >= MaxBackups
    BY <1>0, <1>1, <1>3, <1>4, KeptAreThere
  <1>10. QED
    BY <1>0, <1>1, <1>8, <1>9

\* Retention never removes the newest whole archive, with two processes writing and trimming in
\* one directory, unless files left unfinished take up the places that are kept, or a file it
\* counts on was written to or removed while it was at it.
THEOREM NewestKeptHolds == Spec => NewestKept
  <1>1. Init => ListsAreGood
    BY DEF Init, ListsAreGood, WholeIsThere, ListIsGood, Idle, Nothing
  <1>2. TypeOK /\ ListsAreGood /\ [Next]_vars => ListsAreGood'
    BY ListsStep
  <1>3. TypeOK /\ ListsAreGood => \A p \in Processes : \A n \in Names : ~TrimsNewest(p, n)
    BY NewestStep
  <1>4. QED
    BY <1>1, <1>2, <1>3, TypeCorrect, PTL DEF Spec, NewestKept
==============================================================================
