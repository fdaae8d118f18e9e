----------------------------- MODULE QueueFacts -----------------------------
(***************************************************************************)
(* Facts about numbers and sequences that the proofs share: queues that    *)
(* gain and lose entries, and the least element of a set of numbers, which *)
(* is how a proof goes through a sequence from its beginning: of all the   *)
(* places where a claim fails one would be the first.                      *)
(***************************************************************************)
EXTENDS SequencesExt, SequenceTheorems, FiniteSetTheorems, WellFoundedInduction,
        TLAPS

-----------------------------------------------------------------------------
(* Sets of numbers, queues. *)

\* The least element of a set of numbers is in it: the code's loops over the
\* parts go in plan order and meet the first one first (begin_wave).
LEMMA MinInSet ==
    ASSUME NEW S \in SUBSET Nat, S # {}
    PROVE  Min(S) \in S /\ \A x \in S : Min(S) <= x
<1> DEFINE R == StrictSubsetOrdering(Nat)
           T == {0..m : m \in S}
<1>1. IsWellFoundedOn(R, FiniteSubsetsOf(Nat))
    BY FS_StrictSubsetOrderingWellFounded
<1>2. \A m \in S : 0..m \in FiniteSubsetsOf(Nat)
    BY FS_Interval DEF FiniteSubsetsOf
<1>3. T \subseteq FiniteSubsetsOf(Nat) /\ T # {}
    BY <1>2
<1>4. PICK X \in T : \A Y \in T : <<Y, X>> \notin R
    <2> HIDE DEF T, R
    <2> QED  BY <1>1, <1>3, WFMin
<1>5. PICK m \in S : X = 0..m
    OBVIOUS
<1>6. ASSUME NEW x \in S, x < m
      PROVE  FALSE
    <2>1. 0..x \in T /\ 0..x \subseteq 0..m /\ m \notin 0..x
        BY <1>6
    <2>2. 0..x # 0..m
        BY <1>6, m \in 0..m
    <2>3. <<0..x, 0..m>> \in R
        BY <2>1, <2>2 DEF StrictSubsetOrdering
    <2>4. QED
        BY <1>4, <1>5, <2>1, <2>3
<1>7. \A x \in S : m <= x
    BY <1>6
<1>8. QED
    BY <1>7 DEF Min

\* Taking one entry out of a queue leaves a queue (local_queue.retain).
LEMMA RemoveFirstType ==
    ASSUME NEW S, NEW q \in Seq(S), NEW e
    PROVE  RemoveFirst(q, e) \in Seq(S)
<1>1. CASE ~ \E i \in 1..Len(q) : q[i] = e
    BY <1>1 DEF RemoveFirst
<1>2. CASE \E i \in 1..Len(q) : q[i] = e
    <2> DEFINE I == {i \in 1..Len(q) : q[i] = e}
               k == Min(I)
    <2>1. I \in SUBSET Nat /\ I # {}
        BY <1>2
    <2>2. k \in 1..Len(q)
        BY <2>1, MinInSet
    <2>3. SelectInSeq(q, LAMBDA v : v = e) = k
        BY <2>1 DEF SelectInSeq
    <2>4. RemoveFirst(q, e) = SubSeq(q, 1, k - 1) \o SubSeq(q, k + 1, Len(q))
        BY <1>2, <2>3 DEF RemoveFirst, RemoveAt
    <2> HIDE DEF k
    <2>5. \A i \in 1..Len(q) : q[i] \in S
        BY ElementOfSeq
    <2>6. SubSeq(q, 1, k - 1) \in Seq(S)
        <3>1. k - 1 \in Int /\ \A i \in 1..k - 1 : q[i] \in S
            BY <2>2, <2>5
        <3>2. QED
            BY <3>1, SubSeqProperties
    <2>7. SubSeq(q, k + 1, Len(q)) \in Seq(S)
        <3>1. k + 1 \in Int /\ Len(q) \in Int /\ \A i \in k + 1..Len(q) : q[i] \in S
            BY <2>2, <2>5
        <3>2. QED
            BY <3>1, SubSeqProperties
    <2>8. QED
        BY <2>4, <2>6, <2>7, ConcatProperties
<1>3. QED
    BY <1>1, <1>2

-----------------------------------------------------------------------------
(* Queues without repetition. *)

\* The n entries of q without the k-th.
Gap(q, r, n, k) ==
    /\ n \in Nat /\ k \in 1..n /\ DOMAIN q = 1..n /\ DOMAIN r = 1..n - 1
    /\ \A i \in 1..k - 1 : r[i] = q[i]
    /\ \A i \in k..n - 1 : r[i] = q[i + 1]

\* A sequence without repetition that loses its k-th entry.
LEMMA GapOnce ==
    ASSUME NEW n, NEW k, NEW q, NEW r, Gap(q, r, n, k), IsInjective(q)
    PROVE  IsInjective(r) /\ Range(r) = Range(q) \ {q[k]}
<1> USE DEF Gap
<1>1. ASSUME NEW i \in 1..n - 1
      PROVE  \E j \in 1..n : j # k /\ r[i] = q[j] /\ j = IF i < k THEN i ELSE i + 1
    BY DEF IsInjective
<1>2. ASSUME NEW j \in 1..n, j # k
      PROVE  \E i \in 1..n - 1 : r[i] = q[j]
    <2>1. CASE j < k
        BY <1>2, <2>1, j \in 1..n - 1
    <2>2. CASE j > k
        <3>1. j - 1 \in k..n - 1 /\ j - 1 \in 1..n - 1 /\ (j - 1) + 1 = j
            BY <2>2
        <3>2. r[j - 1] = q[(j - 1) + 1]
            BY <3>1
        <3>3. QED
            BY <3>1, <3>2
    <2>3. QED
        BY <1>2, <2>1, <2>2
<1>3. IsInjective(r)
    <2>1. SUFFICES ASSUME NEW a \in 1..n - 1, NEW b \in 1..n - 1, r[a] = r[b]
                   PROVE  a = b
        BY DEF IsInjective
    <2>2. PICK x \in 1..n : r[a] = q[x] /\ x = IF a < k THEN a ELSE a + 1
        BY <1>1
    <2>3. PICK y \in 1..n : r[b] = q[y] /\ y = IF b < k THEN b ELSE b + 1
        BY <1>1
    <2>4. x = y
        BY <2>1, <2>2, <2>3 DEF IsInjective
    <2>5. QED
        BY <2>2, <2>3, <2>4
<1>4. \A i \in 1..n - 1 : r[i] \in Range(q) \ {q[k]}
    BY <1>1 DEF IsInjective, Range
<1>5. \A j \in 1..n : q[j] # q[k] => q[j] \in Range(r)
    BY <1>2 DEF Range
<1>6. QED
    BY <1>3, <1>4, <1>5 DEF Range

\* What RemoveFirst takes out is one entry, and the ones behind it move up.
LEMMA RemoveFirstGap ==
    ASSUME NEW S, NEW q \in Seq(S), NEW e, \E i \in 1..Len(q) : q[i] = e
    PROVE  /\ RemoveFirst(q, e) \in Seq(S) /\ Len(RemoveFirst(q, e)) = Len(q) - 1
           /\ \E k \in 1..Len(q) : q[k] = e /\ Gap(q, RemoveFirst(q, e), Len(q), k)
<1> DEFINE n == Len(q)
           I == {i \in 1..Len(q) : q[i] = e}
           k == Min(I)
           r == RemoveFirst(q, e)
           a == SubSeq(q, 1, k - 1)
           b == SubSeq(q, k + 1, n)
<1>0. n \in Nat /\ DOMAIN q = 1..n
    BY LenProperties
<1>1. I \in SUBSET Nat /\ I # {}
    OBVIOUS
<1>2. k \in 1..n /\ q[k] = e
    BY <1>1, MinInSet
<1>3. SelectInSeq(q, LAMBDA v : v = e) = k
    BY <1>1 DEF SelectInSeq
<1>4. r = a \o b
    BY <1>3 DEF RemoveFirst, RemoveAt
<1> HIDE DEF k, I, n
<1>5. \A i \in 1..n : q[i] \in S
    BY <1>0, ElementOfSeq DEF n
<1>6. /\ a \in Seq(S) /\ Len(a) = k - 1
      /\ \A i \in 1..k - 1 : a[i] = q[i]
    <2>1. k - 1 \in Int /\ \A i \in 1..k - 1 : q[i] \in S
        BY <1>0, <1>2, <1>5
    <2>2. /\ a \in Seq(S)
          /\ Len(a) = IF 1 <= k - 1 THEN k - 1 - 1 + 1 ELSE 0
          /\ \A i \in 1..k - 1 - 1 + 1 : a[i] = q[1 + i - 1]
        BY <2>1, SubSeqProperties
    <2>3. QED
        BY <1>0, <1>2, <2>2
<1>7. /\ b \in Seq(S) /\ Len(b) = n - k
      /\ \A i \in 1..n - k : b[i] = q[k + i]
    <2>1. k + 1 \in Int /\ n \in Int /\ \A i \in k + 1..n : q[i] \in S
        BY <1>0, <1>2, <1>5
    <2>2. /\ b \in Seq(S)
          /\ Len(b) = IF k + 1 <= n THEN n - (k + 1) + 1 ELSE 0
          /\ \A i \in 1..n - (k + 1) + 1 : b[i] = q[k + 1 + i - 1]
        BY <2>1, SubSeqProperties
    <2>3. QED
        BY <1>0, <1>2, <2>2
<1> HIDE DEF r, a, b
<1>8. /\ r \in Seq(S) /\ Len(r) = n - 1
      /\ \A i \in 1..n - 1 : r[i] = IF i <= k - 1 THEN a[i] ELSE b[i - (k - 1)]
    BY <1>0, <1>2, <1>4, <1>6, <1>7, ConcatProperties
<1>9. \A i \in 1..k - 1 : r[i] = q[i]
    BY <1>0, <1>2, <1>6, <1>8
<1>10. ASSUME NEW i \in k..n - 1
       PROVE  r[i] = q[i + 1]
    <2>1. i \in 1..n - 1 /\ ~(i <= k - 1) /\ i - (k - 1) \in 1..n - k
          /\ k + (i - (k - 1)) = i + 1
        BY <1>0, <1>2
    <2>2. QED
        BY <1>7, <1>8, <2>1
<1>11. Gap(q, r, n, k)
    BY <1>0, <1>2, <1>8, <1>9, <1>10, LenProperties DEF Gap
<1>12. QED
    BY <1>2, <1>8, <1>11 DEF r, n

\* Taking an entry out leaves the others in line, once (local_queue.retain).
LEMMA RemoveFirstOnce ==
    ASSUME NEW S, NEW q \in Seq(S), IsInjective(q), NEW e
    PROVE  /\ RemoveFirst(q, e) \in Seq(S) /\ IsInjective(RemoveFirst(q, e))
           /\ Range(RemoveFirst(q, e)) = Range(q) \ {e}
<1> DEFINE n == Len(q)
           r == RemoveFirst(q, e)
<1>0. n \in Nat /\ DOMAIN q = 1..n
    BY LenProperties
<1>1. CASE ~ \E i \in 1..Len(q) : q[i] = e
    BY <1>0, <1>1 DEF RemoveFirst, Range
<1>2. CASE \E i \in 1..Len(q) : q[i] = e
    <2>1. PICK k \in 1..n : q[k] = e /\ Gap(q, r, n, k)
        BY <1>2, RemoveFirstGap
    <2>2. r \in Seq(S)
        BY <1>2, RemoveFirstGap
    <2> HIDE DEF r, n
    <2>3. IsInjective(r) /\ Range(r) = Range(q) \ {q[k]}
        BY <2>1, GapOnce
    <2>4. QED
        BY <2>1, <2>2, <2>3 DEF r
<1>3. QED
    BY <1>1, <1>2

\* a stands in line before b.
Before(q, a, b) == \E i, j \in 1..Len(q) : i < j /\ q[i] = a /\ q[j] = b

\* Nobody overtakes anybody when an entry leaves the line (local_queue.retain).
LEMMA RemoveFirstOrder ==
    ASSUME NEW S, NEW q \in Seq(S), NEW e, NEW a, NEW b, a # e, b # e,
           Before(q, a, b)
    PROVE  Before(RemoveFirst(q, e), a, b)
<1> DEFINE n == Len(q)
           r == RemoveFirst(q, e)
<1>1. n \in Nat
    BY LenProperties
<1>2. CASE ~ \E i \in 1..Len(q) : q[i] = e
    BY <1>2 DEF RemoveFirst
<1>3. CASE \E i \in 1..Len(q) : q[i] = e
    <2>1. PICK k \in 1..n : q[k] = e /\ Gap(q, r, n, k)
        BY <1>3, RemoveFirstGap
    <2>2. PICK i \in 1..n, j \in 1..n : i < j /\ q[i] = a /\ q[j] = b
        BY DEF Before
    <2> DEFINE x == IF i < k THEN i ELSE i - 1
               y == IF j < k THEN j ELSE j - 1
    <2> HIDE DEF n, r
    <2>3. i # k /\ j # k
        BY <2>1, <2>2
    <2>4. ASSUME NEW h \in 1..n, h # k
          PROVE  LET z == IF h < k THEN h ELSE h - 1
                 IN  z \in 1..n - 1 /\ r[z] = q[h]
        <3>1. CASE h < k
            BY <1>1, <2>1, <3>1 DEF Gap
        <3>2. CASE h > k
            <4>1. h - 1 \in k..n - 1 /\ h - 1 \in 1..n - 1 /\ (h - 1) + 1 = h
                BY <1>1, <3>2
            <4>2. r[h - 1] = q[(h - 1) + 1]
                BY <2>1, <4>1 DEF Gap
            <4>3. QED
                BY <3>2, <4>1, <4>2
        <3>3. QED
            BY <2>4, <3>1, <3>2
    <2>5. x \in 1..n - 1 /\ r[x] = a /\ y \in 1..n - 1 /\ r[y] = b
        BY <2>2, <2>3, <2>4
    <2>6. x < y
        BY <2>2, <2>3
    <2>7. QED
        <3>1. Len(r) = n - 1
            BY <1>3, RemoveFirstGap DEF r, n
        <3>2. QED
            BY <2>5, <2>6, <3>1 DEF Before, r
<1>4. QED
    BY <1>2, <1>3

\* An entry that is not in line yet goes to its end.
LEMMA AppendOnce ==
    ASSUME NEW S, NEW q \in Seq(S), IsInjective(q), NEW e \in S, e \notin Range(q)
    PROVE  IsInjective(Append(q, e)) /\ Range(Append(q, e)) = Range(q) \cup {e}
<1> DEFINE n == Len(q)
           r == Append(q, e)
<1>1. n \in Nat /\ DOMAIN q = 1..n
    BY LenProperties
<1>2. /\ Len(r) = n + 1 /\ r \in Seq(S) /\ r[n + 1] = e
      /\ \A i \in 1..n : r[i] = q[i]
    BY AppendProperties
<1>3. DOMAIN r = 1..n + 1
    BY <1>2, LenProperties
<1> HIDE DEF r, n
<1>4. IsInjective(r)
    BY <1>1, <1>2, <1>3 DEF IsInjective, Range
<1>5. Range(r) = Range(q) \cup {e}
    BY <1>1, <1>2, <1>3 DEF Range
<1>6. QED
    BY <1>4, <1>5 DEF r

\* The head is taken off a copy of the queue (drain_local_queue).
LEMMA TailOnce ==
    ASSUME NEW S, NEW q \in Seq(S), IsInjective(q), q # <<>>
    PROVE  /\ Head(q) \in S /\ Head(q) \in Range(q)
           /\ IsInjective(Tail(q)) /\ Range(Tail(q)) = Range(q) \ {Head(q)}
<1> DEFINE n == Len(q)
           r == Tail(q)
<1>1. n \in Nat \ {0} /\ DOMAIN q = 1..n
    BY LenProperties, EmptySeq
<1>2. Head(q) \in S /\ Head(q) = q[1]
    BY HeadTailProperties
<1>3. /\ Len(r) = n - 1 /\ r \in Seq(S)
      /\ \A i \in 1..Len(r) : r[i] = q[i + 1]
    BY HeadTailProperties
<1>4. DOMAIN r = 1..n - 1
    BY <1>3, LenProperties
<1> HIDE DEF r, n
<1>5. 1 \in 1..n /\ \A i \in 1..1 - 1 : r[i] = q[i]
    BY <1>1
<1>6. Gap(q, r, n, 1)
    BY <1>1, <1>3, <1>4, <1>5 DEF Gap
<1>7. IsInjective(r) /\ Range(r) = Range(q) \ {q[1]}
    BY <1>6, GapOnce
<1>8. QED
    BY <1>1, <1>2, <1>5, <1>7 DEF r, Range

-----------------------------------------------------------------------------
(* Sequences put one behind the other. *)

\* Every two entries are in the relation, the one that comes first first.
Pairwise(s, R) == \A i, j \in 1..Len(s) : i < j => <<s[i], s[j]>> \in R

\* The entries of two sequences.
LEMMA ConcatRange ==
    ASSUME NEW S, NEW s \in Seq(S), NEW t \in Seq(S)
    PROVE  s \o t \in Seq(S) /\ Range(s \o t) = Range(s) \cup Range(t)
<1> DEFINE m == Len(s)
           n == Len(t)
           c == s \o t
<1>1. m \in Nat /\ n \in Nat /\ DOMAIN s = 1..m /\ DOMAIN t = 1..n
    BY LenProperties
<1>2. /\ c \in Seq(S) /\ Len(c) = m + n
      /\ \A i \in 1..m + n : c[i] = IF i <= m THEN s[i] ELSE t[i - m]
    BY ConcatProperties
<1>3. DOMAIN c = 1..m + n
    BY <1>2, LenProperties
<1> HIDE DEF c, m, n
<1>4. ASSUME NEW i \in 1..m + n
      PROVE  c[i] \in Range(s) \cup Range(t)
    <2>1. CASE i <= m
        <3>1. i \in 1..m /\ c[i] = s[i]
            BY <1>1, <1>2, <2>1
        <3>2. QED
            BY <1>1, <3>1 DEF Range
    <2>2. CASE ~(i <= m)
        <3>1. i - m \in 1..n /\ c[i] = t[i - m]
            BY <1>1, <1>2, <2>2
        <3>2. QED
            BY <1>1, <3>1 DEF Range
    <2>3. QED
        BY <2>1, <2>2
<1>5. ASSUME NEW i \in 1..m
      PROVE  s[i] \in Range(c)
    <2>1. i \in 1..m + n /\ c[i] = s[i]
        BY <1>1, <1>2
    <2>2. QED
        BY <1>3, <2>1 DEF Range
<1>6. ASSUME NEW i \in 1..n
      PROVE  t[i] \in Range(c)
    <2>1. m + i \in 1..m + n /\ ~(m + i <= m) /\ (m + i) - m = i
        BY <1>1
    <2>2. c[m + i] = t[i]
        BY <1>2, <2>1
    <2>3. QED
        BY <1>3, <2>1, <2>2 DEF Range
<1>7. Range(c) = Range(s) \cup Range(t)
    BY <1>1, <1>3, <1>4, <1>5, <1>6 DEF Range
<1>8. QED
    BY <1>2, <1>7 DEF c

\* Two sequences are in order one behind the other when each of them is and all of
\* the first comes before all of the second.
LEMMA ConcatPairwise ==
    ASSUME NEW S, NEW s \in Seq(S), NEW t \in Seq(S), NEW R
    PROVE  Pairwise(s \o t, R) <=>
              /\ Pairwise(s, R) /\ Pairwise(t, R)
              /\ \A x \in Range(s), y \in Range(t) : <<x, y>> \in R
<1> DEFINE m == Len(s)
           n == Len(t)
           c == s \o t
<1>1. m \in Nat /\ n \in Nat /\ DOMAIN s = 1..m /\ DOMAIN t = 1..n
    BY LenProperties
<1>2. /\ c \in Seq(S) /\ Len(c) = m + n
      /\ \A i \in 1..m + n : c[i] = IF i <= m THEN s[i] ELSE t[i - m]
    BY ConcatProperties
<1> HIDE DEF c
<1>3. \A i \in 1..m : i \in 1..m + n /\ c[i] = s[i]
    BY <1>1, <1>2
<1>4. ASSUME NEW i \in 1..n
      PROVE  m + i \in 1..m + n /\ c[m + i] = t[i]
    <2>1. m + i \in 1..m + n /\ ~(m + i <= m) /\ (m + i) - m = i
        BY <1>1
    <2>2. QED
        BY <1>2, <2>1
<1> HIDE DEF m, n
<1>5. ASSUME Pairwise(c, R)
      PROVE  /\ Pairwise(s, R) /\ Pairwise(t, R)
             /\ \A x \in Range(s), y \in Range(t) : <<x, y>> \in R
    <2>1. \A i, j \in 1..m + n : i < j => <<c[i], c[j]>> \in R
        BY <1>2, <1>5 DEF Pairwise
    <2>2. \A i, j \in 1..m : i < j => <<s[i], s[j]>> \in R
        BY <1>3, <2>1
    <2>3. ASSUME NEW i \in 1..n, NEW j \in 1..n, i < j
          PROVE  <<t[i], t[j]>> \in R
        <3>1. m + i < m + j
            BY <1>1, <2>3
        <3>2. QED
            BY <1>4, <2>1, <3>1
    <2>4. ASSUME NEW i \in 1..m, NEW j \in 1..n
          PROVE  <<s[i], t[j]>> \in R
        <3>1. i < m + j
            BY <1>1
        <3>2. QED
            BY <1>3, <1>4, <2>1, <3>1
    <2>5. \A x \in Range(s), y \in Range(t) : <<x, y>> \in R
        BY <1>1, <2>4 DEF Range
    <2>6. QED
        BY <2>2, <2>3, <2>5 DEF Pairwise, m, n
<1>6. ASSUME Pairwise(s, R), Pairwise(t, R),
             \A x \in Range(s), y \in Range(t) : <<x, y>> \in R
      PROVE  Pairwise(c, R)
    <2>1. SUFFICES ASSUME NEW i \in 1..m + n, NEW j \in 1..m + n, i < j
                   PROVE  <<c[i], c[j]>> \in R
        BY <1>2 DEF Pairwise
    <2>2. CASE j <= m
        <3>1. i \in 1..m /\ j \in 1..m
            BY <1>1, <2>1, <2>2
        <3>2. QED
            BY <1>3, <1>6, <2>1, <3>1 DEF Pairwise, m
    <2>3. CASE i <= m /\ ~(j <= m)
        <3>1. i \in 1..m /\ j - m \in 1..n
            BY <1>1, <2>1, <2>3
        <3>2. c[i] = s[i] /\ c[j] = t[j - m]
            BY <1>2, <2>3
        <3>3. s[i] \in Range(s) /\ t[j - m] \in Range(t)
            BY <1>1, <3>1 DEF Range
        <3>4. QED
            BY <1>6, <3>2, <3>3
    <2>4. CASE ~(i <= m)
        <3>1. i - m \in 1..n /\ j - m \in 1..n /\ i - m < j - m /\ ~(j <= m)
            BY <1>1, <2>1, <2>4
        <3>2. c[i] = t[i - m] /\ c[j] = t[j - m]
            BY <1>2, <2>4, <3>1
        <3>3. QED
            BY <1>6, <3>1, <3>2 DEF Pairwise, n
    <2>5. QED
        BY <1>1, <2>2, <2>3, <2>4
<1>7. QED
    BY <1>5, <1>6 DEF c

\* An empty sequence and one with a single entry.
LEMMA ShortSequences ==
    /\ Range(<<>>) = {} /\ \A R : Pairwise(<<>>, R)
    /\ \A e : Range(<<e>>) = {e} /\ \A R : Pairwise(<<e>>, R)
<1>1. Range(<<>>) = {} /\ \A R : Pairwise(<<>>, R)
    BY DEF Range, Pairwise
<1>2. ASSUME NEW e
      PROVE  Range(<<e>>) = {e} /\ \A R : Pairwise(<<e>>, R)
    <2>1. Len(<<e>>) = 1 /\ DOMAIN <<e>> = 1..1 /\ <<e>>[1] = e
        OBVIOUS
    <2>2. Range(<<e>>) = {e}
        BY <2>1 DEF Range
    <2>3. \A R : Pairwise(<<e>>, R)
        BY <2>1 DEF Pairwise
    <2>4. QED
        BY <2>2, <2>3
<1>3. QED
    BY <1>1, <1>2

\* Sequences of sequences put together, from the first entry on.
Joins(f, q) ==
    f[0] = <<>> /\ \A i \in 1..Len(q) : f[i] = f[i - 1] \o q[i]

\* What is put together is a sequence of the same entries, and there is one for
\* every sequence of sequences.
LEMMA JoinsType ==
    ASSUME NEW S, NEW q \in Seq(Seq(S)), NEW f, Joins(f, q)
    PROVE  \A i \in 0..Len(q) : f[i] \in Seq(S)
<1> DEFINE Bad == {i \in Nat : i <= Len(q) /\ f[i] \notin Seq(S)}
           m == Min(Bad)
<1>1. Len(q) \in Nat /\ \A i \in 1..Len(q) : q[i] \in Seq(S)
    BY LenProperties, ElementOfSeq
<1>2. SUFFICES ASSUME Bad # {} PROVE FALSE
    <2>1. \A i \in 0..Len(q) : i \in Nat /\ i <= Len(q)
        BY <1>1
    <2>2. \A i \in 0..Len(q) : f[i] \notin Seq(S) => i \in Bad
        BY <2>1
    <2> HIDE DEF Bad
    <2>3. QED
        BY <2>2
<1>3. m \in Bad /\ \A x \in Bad : m <= x
    BY <1>2, MinInSet
<1> HIDE DEF m
<1>4. CASE m = 0
    BY <1>3, <1>4, EmptySeq DEF Joins
<1>5. CASE m # 0
    <2>1. m \in 1..Len(q) /\ m - 1 \in Nat /\ m - 1 <= Len(q) /\ ~(m <= m - 1)
        BY <1>1, <1>3, <1>5
    <2>2. f[m - 1] \in Seq(S)
        BY <1>3, <2>1
    <2>3. f[m] = f[m - 1] \o q[m]
        BY <2>1 DEF Joins
    <2>4. f[m] \in Seq(S)
        BY <1>1, <2>1, <2>2, <2>3, ConcatProperties
    <2>5. QED
        BY <1>3, <2>4
<1>6. QED
    BY <1>4, <1>5

\* A sequence of sequences can be concatenated piece by piece: a function of the
\* prefixes exists, by the first prefix that would have none.
LEMMA JoinsExist ==
    ASSUME NEW S, NEW q \in Seq(Seq(S))
    PROVE  \E f : Joins(f, q)
<1> DEFINE Upto(k, f) == f[0] = <<>> /\ \A i \in 1..k : f[i] = f[i - 1] \o q[i]
           Bad == {k \in Nat : ~ \E f : Upto(k, f)}
           m == Min(Bad)
<1>1. Len(q) \in Nat
    BY LenProperties
<1>2. SUFFICES ASSUME Bad # {} PROVE FALSE
    BY <1>1 DEF Joins
<1>3. m \in Bad /\ \A x \in Bad : m <= x
    BY <1>2, MinInSet
<1> HIDE DEF m
<1>4. CASE m = 0
    <2> DEFINE f == [i \in 0..0 |-> <<>>]
    <2>1. Upto(0, f)
        <3>1. f[0] = <<>>
            OBVIOUS
        <3>2. 1..0 = {}
            OBVIOUS
        <3> HIDE DEF f
        <3>3. QED
            BY <3>1, <3>2
    <2>2. QED
        BY <1>3, <1>4, <2>1
<1>5. CASE m # 0
    <2>1. m - 1 \in Nat /\ m - 1 \notin Bad /\ m \in Nat
        <3>1. m \in Nat
            BY <1>3
        <3>2. m - 1 \in Nat /\ ~(m <= m - 1)
            BY <1>5, <3>1
        <3> HIDE DEF Bad
        <3>3. QED
            BY <1>3, <3>1, <3>2
    <2>2. PICK f : Upto(m - 1, f)
        BY <2>1
    <2> DEFINE g == [i \in 0..m |-> IF i = m THEN f[m - 1] \o q[m] ELSE f[i]]
    <2>3. g[0] = <<>>
        BY <1>5, <2>1, <2>2
    <2>4. ASSUME NEW i \in 1..m
          PROVE  g[i] = g[i - 1] \o q[i]
        <3>1. i \in 0..m /\ i - 1 \in 0..m /\ i - 1 # m /\ g[i - 1] = f[i - 1]
            BY <2>1
        <3>2. CASE i = m
            BY <3>1, <3>2
        <3>3. CASE i # m
            <4>1. i \in 1..m - 1
                BY <2>1, <3>3
            <4>2. QED
                BY <2>2, <3>1, <3>3, <4>1
        <3>4. QED
            BY <3>2, <3>3
    <2> HIDE DEF g
    <2>5. Upto(m, g)
        BY <2>3, <2>4
    <2>6. QED
        BY <1>3, <2>5
<1>6. QED
    BY <1>4, <1>5

\* FlattenSeq puts the sequences together in this way.
LEMMA FlattenJoins ==
    ASSUME NEW S, NEW q \in Seq(Seq(S)), NEW f, Joins(f, q)
    PROVE  FlattenSeq(q) = f[Len(q)] /\ FlattenSeq(q) \in Seq(S)
<1> DEFINE n == Len(q)
           Flat(g) == g = [i \in 1..n |-> IF i = 1 THEN q[i] ELSE g[i - 1] \o q[i]]
           h == [i \in 1..n |-> f[i]]
           g == CHOOSE g : Flat(g)
<1>1. n \in Nat /\ \A i \in 1..n : q[i] \in Seq(S)
    BY LenProperties, ElementOfSeq
<1>2. \A i \in 0..n : f[i] \in Seq(S)
    BY JoinsType
<1>3. f[n] \in Seq(S)
    BY <1>1, <1>2
<1>4. CASE n = 0
    <2>1. q = <<>>
        BY <1>4, EmptySeq
    <2>2. FlattenSeq(q) = q
        BY <1>4 DEF FlattenSeq
    <2>3. QED
        BY <1>3, <1>4, <2>1, <2>2 DEF Joins
<1>5. CASE n # 0
    <2>1. ASSUME NEW i \in 1..n
          PROVE  h[i] = IF i = 1 THEN q[i] ELSE h[i - 1] \o q[i]
        <3>1. f[i] = f[i - 1] \o q[i]
            BY DEF Joins
        <3>2. CASE i = 1
            <4>1. f[i - 1] = <<>>
                BY <3>2 DEF Joins
            <4>2. <<>> \o q[i] = q[i]
                BY <1>1, ConcatEmptySeq
            <4>3. QED
                BY <3>1, <3>2, <4>1, <4>2
        <3>3. CASE i # 1
            <4>1. i - 1 \in 1..n
                BY <1>1, <3>3
            <4>2. QED
                BY <3>1, <3>3, <4>1
        <3>4. QED
            BY <3>2, <3>3
    <2>2. h = [i \in 1..n |-> h[i]]
        OBVIOUS
    <2>3. Flat(h)
        <3> HIDE DEF h
        <3>1. QED
            BY <2>1, <2>2
    <2>4. Flat(g)
        <3> HIDE DEF Flat, h
        <3>1. QED
            BY <2>3
    <2>5. FlattenSeq(q) = g[n]
        BY <1>5 DEF FlattenSeq
    <2> HIDE DEF g
    <2>6. ASSUME NEW i \in 1..n
          PROVE  g[i] = IF i = 1 THEN q[i] ELSE g[i - 1] \o q[i]
        BY <2>4
    <2> HIDE DEF Flat
    <2> DEFINE Bad == {i \in Nat : i \in 1..n /\ g[i] # h[i]}
               m == Min(Bad)
    <2>7. ASSUME Bad # {}
          PROVE  FALSE
        <3>1. m \in Bad /\ \A x \in Bad : m <= x
            BY <2>7, MinInSet
        <3> HIDE DEF m, h
        <3>2. m \in 1..n /\ g[m] # h[m] /\ m \in Nat
            BY <3>1
        <3>3. CASE m = 1
            BY <2>1, <2>6, <3>2, <3>3
        <3>4. CASE m # 1
            <4>1. m - 1 \in 1..n /\ ~(m <= m - 1) /\ m - 1 \in Nat
                BY <1>1, <3>2, <3>4
            <4>2. g[m - 1] = h[m - 1]
                BY <3>1, <4>1
            <4>3. QED
                BY <2>1, <2>6, <3>2, <3>4, <4>2
        <3>5. QED
            BY <3>3, <3>4
    <2>8. g[n] = h[n]
        <3>1. n \in 1..n
            BY <1>1, <1>5
        <3> HIDE DEF h
        <3>2. QED
            BY <2>7, <3>1
    <2>9. h[n] = f[n]
        BY <1>1, <1>5
    <2>10. QED
        BY <1>3, <2>5, <2>8, <2>9
<1>6. QED
    BY <1>4, <1>5

\* One sequence more at the end.
LEMMA FlattenAppend ==
    ASSUME NEW S, NEW q \in Seq(Seq(S)), NEW s \in Seq(S)
    PROVE  /\ FlattenSeq(q) \in Seq(S)
           /\ FlattenSeq(Append(q, s)) = FlattenSeq(q) \o s
<1> DEFINE n == Len(q)
           r == Append(q, s)
<1>1. n \in Nat
    BY LenProperties
<1>2. /\ r \in Seq(Seq(S)) /\ Len(r) = n + 1 /\ r[n + 1] = s
      /\ \A i \in 1..n : r[i] = q[i]
    BY AppendProperties
<1> HIDE DEF r, n
<1>3. PICK f : Joins(f, r)
    BY <1>2, JoinsExist
<1>4. Joins(f, q)
    <2>1. \A i \in 1..n : i \in 1..n + 1
        BY <1>1
    <2>2. QED
        BY <1>2, <1>3, <2>1 DEF Joins, n
<1>5. FlattenSeq(q) = f[n] /\ FlattenSeq(q) \in Seq(S)
    BY <1>4, FlattenJoins DEF n
<1>6. FlattenSeq(r) = f[n + 1]
    BY <1>2, <1>3, FlattenJoins
<1>7. f[n + 1] = f[n] \o s
    <2>1. n + 1 \in 1..n + 1 /\ (n + 1) - 1 = n
        BY <1>1
    <2>2. QED
        BY <1>2, <1>3, <2>1 DEF Joins
<1>8. QED
    BY <1>5, <1>6, <1>7 DEF r

\* The first sequence is taken off.
LEMMA FlattenTail ==
    ASSUME NEW S, NEW q \in Seq(Seq(S)), q # <<>>
    PROVE  FlattenSeq(q) = Head(q) \o FlattenSeq(Tail(q))
<1> DEFINE n == Len(q)
           t == Tail(q)
           s == Head(q)
<1>1. n \in Nat \ {0} /\ \A i \in 1..n : q[i] \in Seq(S)
    BY LenProperties, ElementOfSeq, EmptySeq
<1>2. /\ t \in Seq(Seq(S)) /\ Len(t) = n - 1 /\ \A i \in 1..n - 1 : t[i] = q[i + 1]
      /\ s = q[1] /\ s \in Seq(S)
    BY <1>1, HeadTailProperties
<1>3. PICK f : Joins(f, q)
    BY JoinsExist
<1>4. PICK g : Joins(g, t)
    BY <1>2, JoinsExist
<1>5. FlattenSeq(q) = f[n]
    BY <1>3, FlattenJoins
<1>6. FlattenSeq(t) = g[n - 1]
    BY <1>2, <1>4, FlattenJoins
<1>7. \A i \in 0..n - 1 : g[i] \in Seq(S)
    BY <1>2, <1>4, JoinsType
<1> HIDE DEF n, t, s
<1> DEFINE Bad == {i \in Nat : i \in 0..n - 1 /\ f[i + 1] # s \o g[i]}
           m == Min(Bad)
<1>8. ASSUME Bad # {}
      PROVE  FALSE
    <2>1. m \in Bad /\ \A x \in Bad : m <= x
        BY <1>8, MinInSet
    <2> HIDE DEF m
    <2>2. m \in 0..n - 1 /\ f[m + 1] # s \o g[m] /\ m \in Nat
        BY <2>1
    <2>3. f[m + 1] = f[m] \o q[m + 1]
        <3>1. m + 1 \in 1..n /\ (m + 1) - 1 = m
            BY <1>1, <2>2
        <3>2. QED
            BY <1>3, <3>1 DEF Joins, n
    <2>4. CASE m = 0
        <3>1. f[0] = <<>> /\ g[0] = <<>>
            BY <1>3, <1>4 DEF Joins
        <3>2. <<>> \o s = s /\ s \o <<>> = s
            BY <1>2, ConcatEmptySeq
        <3>3. QED
            BY <1>2, <2>2, <2>3, <2>4, <3>1, <3>2
    <2>5. CASE m # 0
        <3>1. m - 1 \in 0..n - 1 /\ m - 1 \in Nat /\ ~(m <= m - 1) /\ (m - 1) + 1 = m
              /\ m \in 1..n - 1
            BY <1>1, <2>2, <2>5
        <3>2. m - 1 \notin Bad
            BY <2>1, <3>1
        <3>3. f[m] = s \o g[m - 1]
            BY <3>1, <3>2
        <3>4. g[m] = g[m - 1] \o q[m + 1]
            BY <1>2, <1>4, <3>1 DEF Joins
        <3>5. m + 1 \in 1..n
            BY <1>1, <3>1
        <3> DEFINE x == g[m - 1]
                   y == q[m + 1]
        <3>6. s \in Seq(S) /\ x \in Seq(S)
            BY <1>2, <1>7, <3>1
        <3>7. y \in Seq(S)
            BY <1>1, <3>5
        <3>8. f[m + 1] = f[m] \o y /\ f[m] = s \o x /\ g[m] = x \o y
            BY <2>3, <3>3, <3>4
        <3> HIDE DEF x, y
        <3>9. (s \o x) \o y = s \o (x \o y)
            BY <3>6, <3>7, ConcatAssociative, SMTT(20)
        <3>10. f[m + 1] # s \o g[m]
            BY <2>2
        <3>11. QED
            BY <3>8, <3>9, <3>10, Zenon
    <2>6. QED
        BY <2>4, <2>5
<1>9. f[n] = s \o g[n - 1]
    <2>1. n - 1 \in 0..n - 1 /\ n - 1 \in Nat /\ (n - 1) + 1 = n
        BY <1>1
    <2>2. n - 1 \notin Bad
        BY <1>8
    <2>3. QED
        BY <2>1, <2>2
<1>10. QED
    BY <1>5, <1>6, <1>9 DEF s, t

\* Nothing put together is nothing.
LEMMA FlattenNothing ==
    FlattenSeq(<<>>) = <<>>
<1>1. Len(<<>>) = 0
    BY EmptySeq
<1>2. QED
    BY <1>1 DEF FlattenSeq

=============================================================================
