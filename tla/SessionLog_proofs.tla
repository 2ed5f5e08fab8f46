------------------------- MODULE SessionLog_proofs --------------------------
(***************************************************************************)
(* Proofs about SessionLog: for any number of messages, any writers and    *)
(* sockets, any sizes of batches and pages, and any faults.                *)
(***************************************************************************)
EXTENDS SessionLog, FiniteSetTheorems, SequenceTheorems, TLAPS

-----------------------------------------------------------------------------
(* What is selected from sets of numbers and from sequences.               *)

\* No value twice
Distinct(s) == \A i, j \in DOMAIN s : s[i] = s[j] => i = j

\* Every value above those before it
Rising(s) == \A i, j \in DOMAIN s : i < j => s[i] < s[j]

\* How many of the numbers of S are not above n
RankIn(S, n) == Cardinality({k \in S : k <= n})

\* The ranks of a finite set of numbers are one for each number, in their order.
LEMMA RanksRise ==
  ASSUME NEW S \in SUBSET Nat, IsFiniteSet(S)
  PROVE  /\ Cardinality(S) \in Nat
         /\ \A n \in S : RankIn(S, n) \in 1..Cardinality(S)
         /\ \A m, n \in S : m < n => RankIn(S, m) < RankIn(S, n)
<1> DEFINE below(n) == {k \in S : k <= n}
<1>1. Cardinality(S) \in Nat
  BY FS_CardinalityType
<1>2. \A n \in S : IsFiniteSet(below(n)) /\ Cardinality(below(n)) \in Nat
                   /\ Cardinality(below(n)) <= Cardinality(S)
  <2> TAKE n \in S
  <2>1. below(n) \in SUBSET S
    OBVIOUS
  <2>2. IsFiniteSet(below(n)) /\ Cardinality(below(n)) <= Cardinality(S)
    BY <2>1, FS_Subset
  <2> QED  BY <2>2, FS_CardinalityType
<1>3. \A n \in S : Cardinality(below(n)) # 0
  <2> TAKE n \in S
  <2>1. n \in below(n)
    OBVIOUS
  <2>2. below(n) # {}
    BY <2>1
  <2> QED  BY <1>2, <2>2, FS_EmptySet
<1>4. ASSUME NEW m \in S, NEW n \in S, m < n
      PROVE  Cardinality(below(m)) < Cardinality(below(n))
  <2>1. below(m) \in SUBSET below(n)
    <3>1. ASSUME NEW k \in S, k <= m PROVE k <= n
      <4>1. m \in Nat /\ n \in Nat /\ k \in Nat
        OBVIOUS
      <4> QED  BY <1>4, <3>1, <4>1
    <3> QED  BY <3>1
  <2>2. n \in below(n) /\ n \notin below(m)
    BY <1>4
  <2>3. below(m) # below(n)
    BY <2>2
  <2>4. /\ Cardinality(below(m)) <= Cardinality(below(n))
        /\ Cardinality(below(n)) = Cardinality(below(m)) => below(n) = below(m)
    BY <1>2, <2>1, FS_Subset
  <2> QED  BY <1>2, <2>3, <2>4
<1> QED  BY <1>1, <1>2, <1>3, <1>4 DEF RankIn

\* Every rank is taken.
LEMMA RanksTaken ==
  ASSUME NEW S \in SUBSET Nat, IsFiniteSet(S), NEW i \in 1..Cardinality(S)
  PROVE  \E n \in S : RankIn(S, n) = i
<1> DEFINE N == Cardinality(S)
           rank == [n \in S |-> RankIn(S, n)]
<1>1. rank \in Injection(S, 1..N)
  <2>1. rank \in [S -> 1..N]
    BY RanksRise
  <2>2. \A m, n \in S : rank[m] = rank[n] => m = n
    <3> SUFFICES ASSUME NEW m \in S, NEW n \in S, m # n
                 PROVE  RankIn(S, m) # RankIn(S, n)
      OBVIOUS
    <3>1. m < n \/ n < m
      OBVIOUS
    <3>2. RankIn(S, m) \in Int /\ RankIn(S, n) \in Int
      BY RanksRise
    <3> QED  BY <3>1, <3>2, RanksRise
  <2> QED  BY <2>1, <2>2 DEF Injection, IsInjective
<1>2. N \in Nat
  BY RanksRise
<1>3. IsFiniteSet(1..N) /\ Cardinality(1..N) = N
  BY <1>2, FS_Interval
<1>4. rank \in Surjection(S, 1..N)
  BY <1>1, <1>3, FS_Injection
<1> QED  BY <1>4 DEF Surjection

\* Ascending puts a finite set of numbers in order, and leaves none out.
LEMMA AscendingIs ==
  ASSUME NEW S \in SUBSET Nat, IsFiniteSet(S)
  PROVE  /\ Cardinality(S) \in Nat
         /\ Ascending(S) \in [1..Cardinality(S) -> S]
         /\ Rising(Ascending(S))
         /\ \A n \in S : \E i \in 1..Cardinality(S) : Ascending(S)[i] = n
<1> DEFINE N == Cardinality(S)
           A == Ascending(S)
<1>1. N \in Nat
  BY RanksRise
<1>2. \A i \in 1..N : A[i] \in S /\ RankIn(S, A[i]) = i
  <2> TAKE i \in 1..N
  <2>1. A[i] = CHOOSE n \in S : RankIn(S, n) = i
    BY DEF Ascending, RankIn
  <2> QED  BY <2>1, RanksTaken
<1>3. DOMAIN A = 1..N /\ A \in [1..N -> S]
  BY <1>2 DEF Ascending
<1>4. \A m, n \in S : RankIn(S, m) = RankIn(S, n) => m = n
  <2> SUFFICES ASSUME NEW m \in S, NEW n \in S, m # n
               PROVE  RankIn(S, m) # RankIn(S, n)
    OBVIOUS
  <2>1. m < n \/ n < m
    OBVIOUS
  <2>2. RankIn(S, m) \in Int /\ RankIn(S, n) \in Int
    BY RanksRise
  <2> QED  BY <2>1, <2>2, RanksRise
<1>5. Rising(A)
  <2> SUFFICES ASSUME NEW i \in 1..N, NEW j \in 1..N, i < j PROVE A[i] < A[j]
    BY <1>3 DEF Rising
  <2>1. A[i] \in S /\ A[j] \in S /\ RankIn(S, A[i]) = i /\ RankIn(S, A[j]) = j
    BY <1>2
  <2>2. A[i] \in Nat /\ A[j] \in Nat
    BY <2>1
  <2>3. \A m, n \in S : m < n => RankIn(S, m) < RankIn(S, n)
    BY RanksRise
  <2>4. A[j] < A[i] => j < i
    BY <2>1, <2>3
  <2>5. A[i] # A[j]
    BY <2>1
  <2> QED  BY <2>2, <2>4, <2>5
<1>6. \A n \in S : \E i \in 1..N : A[i] = n
  <2> TAKE n \in S
  <2>1. RankIn(S, n) \in 1..N
    BY RanksRise
  <2>2. A[RankIn(S, n)] = n
    BY <1>2, <1>4, <2>1
  <2> QED  BY <2>1, <2>2
<1> QED  BY <1>1, <1>3, <1>5, <1>6

\* The numbers of an interval are what they are.
LEMMA AscendingInterval ==
  ASSUME NEW a \in Nat, NEW b \in Nat, a <= b
  PROVE  Ascending(a + 1..b) = [i \in 1..b - a |-> a + i]
<1> DEFINE S == a + 1..b
<1>1. S \in SUBSET Nat /\ IsFiniteSet(S) /\ Cardinality(S) = b - a
  <2>1. a + 1 \in Int /\ b \in Int
    OBVIOUS
  <2>2. IsFiniteSet(S) /\ Cardinality(S) = IF a + 1 > b THEN 0 ELSE b - (a + 1) + 1
    BY <2>1, FS_Interval
  <2> QED  BY <2>2
<1>2. \A n \in S : RankIn(S, n) = n - a
  <2> TAKE n \in S
  <2>1. {k \in S : k <= n} = a + 1..n
    OBVIOUS
  <2>2. Cardinality(a + 1..n) = n - a
    BY FS_Interval
  <2> QED  BY <2>1, <2>2 DEF RankIn
<1>3. \A i \in 1..b - a : (CHOOSE n \in S : RankIn(S, n) = i) = a + i
  <2> TAKE i \in 1..b - a
  <2>1. a + i \in S /\ RankIn(S, a + i) = i
    BY <1>2
  <2>2. \A n \in S : RankIn(S, n) = i => n = a + i
    BY <1>2
  <2> QED  BY <2>1, <2>2
<1> QED  BY <1>1, <1>3 DEF Ascending, RankIn

\* What is picked from a sequence keeps its type and order, and is what the
\* sequence has at these positions.
LEMMA PickedIs ==
  ASSUME NEW T, NEW s \in Seq(T), NEW P \in SUBSET DOMAIN s
  PROVE  /\ Picked(s, P) \in Seq(T)
         /\ Elements(Picked(s, P)) = {s[i] : i \in P}
         /\ Distinct(s) => Distinct(Picked(s, P))
         /\ T \subseteq Nat /\ Rising(s) => Rising(Picked(s, P))
<1> DEFINE N == Cardinality(P)
           A == Ascending(P)
           q == Picked(s, P)
<1>1. P \in SUBSET Nat /\ IsFiniteSet(P) /\ DOMAIN s = 1..Len(s) /\ Len(s) \in Nat
  <2>1. DOMAIN s = 1..Len(s) /\ Len(s) \in Nat
    OBVIOUS
  <2>2. IsFiniteSet(1..Len(s))
    BY <2>1, FS_Interval
  <2> QED  BY <2>1, <2>2, FS_Subset
<1>2. /\ N \in Nat /\ A \in [1..N -> P] /\ Rising(A)
      /\ \A p \in P : \E i \in 1..N : A[i] = p
  BY <1>1, AscendingIs
<1>3. q = [i \in 1..N |-> s[A[i]]]
  BY DEF Picked
<1>4. q \in Seq(T) /\ DOMAIN q = 1..N
  <2>1. \A i \in 1..N : A[i] \in P /\ s[A[i]] \in T
    BY <1>1, <1>2
  <2>2. q \in [1..N -> T]
    BY <1>3, <2>1
  <2> QED  BY <1>2, <2>2, IsASeq
<1>5. Elements(q) = {s[i] : i \in P}
  <2>1. \A i \in 1..N : A[i] \in P
    BY <1>2
  <2>2. Elements(q) = {s[A[i]] : i \in 1..N}
    BY <1>3, <1>4 DEF Elements
  <2> QED  BY <1>2, <2>1, <2>2
<1>6. Distinct(s) => Distinct(q)
  <2> SUFFICES ASSUME Distinct(s), NEW i \in 1..N, NEW j \in 1..N, q[i] = q[j]
               PROVE  i = j
    BY <1>4 DEF Distinct
  <2>1. A[i] = A[j]
    BY <1>1, <1>2, <1>3 DEF Distinct
  <2>2. A[i] \in Nat /\ A[j] \in Nat /\ (i < j => A[i] < A[j]) /\ (j < i => A[j] < A[i])
    BY <1>1, <1>2 DEF Rising
  <2> QED  BY <1>2, <2>1, <2>2
<1>7. T \subseteq Nat /\ Rising(s) => Rising(q)
  <2> SUFFICES ASSUME Rising(s), NEW i \in 1..N, NEW j \in 1..N, i < j
               PROVE  q[i] < q[j]
    BY <1>4 DEF Rising
  <2>1. A[i] \in DOMAIN s /\ A[j] \in DOMAIN s /\ A[i] < A[j]
    BY <1>1, <1>2 DEF Rising
  <2> QED  BY <1>3, <2>1 DEF Rising
<1> QED  BY <1>4, <1>5, <1>6, <1>7

\* What a part of a sequence holds
LEMMA PartOf ==
  ASSUME NEW T, NEW s \in Seq(T), NEW m \in 1..(Len(s) + 1), NEW n \in 0..Len(s),
         m <= n + 1
  PROVE  /\ SubSeq(s, m, n) \in Seq(T)
         /\ Len(SubSeq(s, m, n)) = n - m + 1
         /\ \A j \in 1..(n - m + 1) : SubSeq(s, m, n)[j] = s[m + j - 1]
<1>1. m \in Int /\ n \in Int /\ Len(s) \in Nat
  OBVIOUS
<1>2. \A j \in m..n : s[j] \in T
  BY <1>1
<1> QED  BY <1>1, <1>2, SubSeqProperties

\* The elements of sequences that grow at the end or lose their head
LEMMA ElementsOf ==
  ASSUME NEW T, NEW s \in Seq(T)
  PROVE  /\ Elements(s) \subseteq T
         /\ \A x \in T : /\ Append(s, x) \in Seq(T)
                         /\ Elements(Append(s, x)) = Elements(s) \cup {x}
                         /\ Distinct(s) /\ x \notin Elements(s) => Distinct(Append(s, x))
         /\ s # <<>> => /\ Head(s) \in Elements(s)
                        /\ Tail(s) \in Seq(T)
                        /\ Elements(Tail(s)) \subseteq Elements(s)
         /\ Elements(<<>>) = {} /\ Distinct(<<>>) /\ Rising(<<>>)
<1>1. Elements(s) \subseteq T
  BY DEF Elements
<1>2. ASSUME NEW x \in T
      PROVE  /\ Append(s, x) \in Seq(T)
             /\ Elements(Append(s, x)) = Elements(s) \cup {x}
             /\ Distinct(s) /\ x \notin Elements(s) => Distinct(Append(s, x))
  <2>1. /\ Append(s, x) \in Seq(T) /\ DOMAIN Append(s, x) = 1..Len(s) + 1
        /\ DOMAIN s = 1..Len(s) /\ Len(s) \in Nat
        /\ Append(s, x)[Len(s) + 1] = x
        /\ \A i \in 1..Len(s) : Append(s, x)[i] = s[i]
    OBVIOUS
  <2>2. Elements(Append(s, x)) = Elements(s) \cup {x}
    <3>1. \A i \in 1..Len(s) + 1 : i \in 1..Len(s) \/ i = Len(s) + 1
      BY <2>1
    <3>2. 1..Len(s) \subseteq 1..Len(s) + 1 /\ Len(s) + 1 \in 1..Len(s) + 1
      BY <2>1
    <3> QED  BY <2>1, <3>1, <3>2 DEF Elements
  <2>3. Distinct(s) /\ x \notin Elements(s) => Distinct(Append(s, x))
    BY <2>1 DEF Distinct, Elements
  <2> QED  BY <2>1, <2>2, <2>3
<1>3. ASSUME s # <<>>
      PROVE  /\ Head(s) \in Elements(s)
             /\ Tail(s) \in Seq(T)
             /\ Elements(Tail(s)) \subseteq Elements(s)
  <2>1. /\ Len(s) \in Nat \ {0} /\ DOMAIN s = 1..Len(s) /\ Head(s) = s[1]
        /\ Tail(s) \in Seq(T) /\ DOMAIN Tail(s) = 1..Len(s) - 1
        /\ \A i \in 1..Len(s) - 1 : Tail(s)[i] = s[i + 1]
    BY <1>3
  <2>2. \A i \in 1..Len(s) - 1 : i + 1 \in 1..Len(s)
    BY <2>1
  <2> QED  BY <2>1, <2>2 DEF Elements
<1>4. Elements(<<>>) = {} /\ Distinct(<<>>) /\ Rising(<<>>)
  BY DEF Elements, Distinct, Rising
<1> QED  BY <1>1, <1>2, <1>3, <1>4

\* What one sequence and another hold together
LEMMA ConcatElements ==
  ASSUME NEW T, NEW s \in Seq(T), NEW t \in Seq(T)
  PROVE  /\ s \o t \in Seq(T) /\ DOMAIN (s \o t) = 1..Len(s) + Len(t)
         /\ \A i \in 1..Len(s) : (s \o t)[i] = s[i]
         /\ \A i \in Len(s) + 1..Len(s) + Len(t) : /\ (s \o t)[i] = t[i - Len(s)]
                                                  /\ i - Len(s) \in 1..Len(t)
         /\ Elements(s \o t) \subseteq Elements(s) \cup Elements(t)
<1>1. /\ s \o t \in Seq(T) /\ Len(s \o t) = Len(s) + Len(t)
      /\ \A i \in 1..Len(s) + Len(t) :
           (s \o t)[i] = IF i <= Len(s) THEN s[i] ELSE t[i - Len(s)]
  BY ConcatProperties
<1>2. /\ Len(s) \in Nat /\ DOMAIN s = 1..Len(s) /\ Len(t) \in Nat /\ DOMAIN t = 1..Len(t)
      /\ DOMAIN (s \o t) = 1..Len(s \o t)
  BY <1>1
<1> DEFINE c == s \o t
<1> HIDE DEF c
<1>3. /\ DOMAIN c = 1..Len(s) + Len(t)
      /\ \A i \in 1..Len(s) + Len(t) : c[i] = IF i <= Len(s) THEN s[i] ELSE t[i - Len(s)]
  BY <1>1, <1>2 DEF c
<1>4. \A i \in 1..Len(s) : c[i] = s[i]
  BY <1>2, <1>3
<1>5. \A i \in Len(s) + 1..Len(s) + Len(t) : c[i] = t[i - Len(s)] /\ i - Len(s) \in 1..Len(t)
  BY <1>2, <1>3
<1>6. \A i \in 1..Len(s) + Len(t) : i \in 1..Len(s) \/ i \in Len(s) + 1..Len(s) + Len(t)
  BY <1>2
<1>7. Elements(c) \subseteq Elements(s) \cup Elements(t)
  BY <1>2, <1>3, <1>4, <1>5, <1>6 DEF Elements
<1> QED  BY <1>1, <1>3, <1>4, <1>5, <1>7 DEF c

\* A batch of these positions of an outbox
TakenFrom(box, r) ==
  /\ r.start + Len(r.batch) <= Len(box)
  /\ \A i \in DOMAIN r.batch : r.batch[i] = box[r.start + i]

\* Once a batch is confirmed, the outbox keeps all the others, once each.
LEMMA KeptIs ==
  ASSUME NEW T, NEW box \in Seq(T), Distinct(box), NEW r,
         r.start \in Nat, r.batch \in Seq(T), TakenFrom(box, r)
  PROVE  /\ Kept(box, r) \in Seq(T)
         /\ Distinct(Kept(box, r))
         /\ Elements(Kept(box, r)) \subseteq Elements(box)
         /\ Elements(box) \subseteq Elements(Kept(box, r)) \cup Elements(r.batch)
<1> DEFINE a == r.start
           b == Len(r.batch)
           n == Len(box)
           front == SubSeq(box, 1, a)
           back == SubSeq(box, a + b + 1, n)
           kept == Kept(box, r)
<1>1. a \in Nat /\ b \in Nat /\ n \in Nat /\ a + b <= n /\ DOMAIN box = 1..n
      /\ DOMAIN r.batch = 1..b
  BY DEF TakenFrom
<1>t. box \in Seq(T) /\ n = Len(box)
  OBVIOUS
<1>f. kept = front \o back
  BY DEF Kept
<1> HIDE DEF a, b, n
<1> HIDE DEF front, back, kept
<1>2. front \in Seq(T) /\ Len(front) = a /\ \A j \in 1..a : front[j] = box[j]
  <2>1. 1 \in 1..n + 1 /\ a \in 0..n /\ 1 <= a + 1
    BY <1>1
  <2>2. front \in Seq(T) /\ Len(front) = a - 1 + 1
        /\ \A j \in 1..a - 1 + 1 : front[j] = box[1 + j - 1]
    BY ONLY <2>1, <1>t, PartOf DEF front
  <2> QED  BY <1>1, <2>2
<1>3. back \in Seq(T) /\ Len(back) = n - a - b
      /\ \A j \in 1..n - a - b : back[j] = box[a + b + j]
  <2>1. a + b + 1 \in 1..n + 1 /\ n \in 0..n /\ a + b + 1 <= n + 1
    BY <1>1
  <2>2. back \in Seq(T) /\ Len(back) = n - (a + b + 1) + 1
        /\ \A j \in 1..n - (a + b + 1) + 1 : back[j] = box[a + b + 1 + j - 1]
    BY ONLY <2>1, <1>t, PartOf DEF back
  <2> QED  BY <1>1, <2>2
<1>4. /\ kept \in Seq(T) /\ Len(kept) = n - b /\ DOMAIN kept = 1..n - b
      /\ \A j \in 1..a : kept[j] = box[j]
      /\ \A j \in a + 1..n - b : kept[j] = box[j + b]
  <2>1. /\ kept \in Seq(T) /\ Len(kept) = a + (n - a - b)
        /\ \A i \in 1..a + (n - a - b) :
             kept[i] = IF i <= a THEN front[i] ELSE back[i - a]
    <3>1. /\ front \o back \in Seq(T) /\ Len(front \o back) = Len(front) + Len(back)
          /\ \A i \in 1..Len(front) + Len(back) :
               (front \o back)[i] = IF i <= Len(front) THEN front[i]
                                    ELSE back[i - Len(front)]
      BY ONLY <1>2, <1>3, ConcatProperties
    <3> QED  BY ONLY <3>1, <1>2, <1>3, <1>f
  <2>2. \A j \in a + 1..n - b : kept[j] = back[j - a] /\ j - a \in 1..n - a - b
    BY <1>1, <2>1
  <2> QED  BY <1>1, <1>2, <1>3, <2>1, <2>2
<1>5. \A j \in 1..n - b : \E i \in 1..n : kept[j] = box[i]
                             /\ i = IF j <= a THEN j ELSE j + b
  BY <1>1, <1>4
<1>6. Distinct(kept)
  <2> SUFFICES ASSUME NEW i \in 1..n - b, NEW j \in 1..n - b, kept[i] = kept[j]
               PROVE  i = j
    BY <1>4 DEF Distinct
  <2> DEFINE place(k) == IF k <= a THEN k ELSE k + b
  <2>1. place(i) \in 1..n /\ place(j) \in 1..n /\ box[place(i)] = box[place(j)]
    BY <1>5
  <2>2. place(i) = place(j)
    BY <1>1, <2>1 DEF Distinct
  <2> QED  BY <1>1, <2>2
<1>7. Elements(kept) \subseteq Elements(box)
  BY <1>1, <1>4, <1>5 DEF Elements
<1>8. ASSUME NEW i \in 1..n
      PROVE  (\E j \in 1..n - b : box[i] = kept[j]) \/ (\E j \in 1..b : box[i] = r.batch[j])
  <2>1. CASE i <= a
    <3>1. i \in 1..n - b /\ i \in 1..a
      BY <1>1, <2>1
    <3> QED  BY <1>4, <3>1
  <2>2. CASE a < i /\ i <= a + b
    <3>1. i - a \in 1..b /\ a + (i - a) = i
      BY <1>1, <2>2
    <3> QED  BY <1>1, <3>1 DEF TakenFrom, a, b
  <2>3. CASE a + b < i
    <3>1. i - b \in a + 1..n - b /\ (i - b) + b = i /\ i - b \in 1..n - b
      BY <1>1, <2>3
    <3> QED  BY <1>4, <3>1
  <2> QED  BY <1>1, <2>1, <2>2, <2>3
<1>9. Elements(box) \subseteq Elements(kept) \cup Elements(r.batch)
  BY <1>1, <1>4, <1>8 DEF Elements
<1> QED  BY <1>4, <1>6, <1>7, <1>9 DEF kept

-----------------------------------------------------------------------------
(* The background synchronisation.                                         *)

\* What a reader keeps while its synchronisation goes on
SamePlace(r, s) ==
  /\ s.connected = r.connected /\ s.cursor = r.cursor
  /\ s.paused = r.paused /\ s.held = r.held
  /\ s.page = r.page /\ s.recover = r.recover

\* It moves between phases, and never to the one in which a page is in hand.
LEMMA SyncIs ==
  ASSUME NEW r \in Readers, NEW s \in {Asking(r), Invalidated(r), Fetched(r)}
  PROVE  /\ s \in Readers
         /\ SamePlace(r, s)
         /\ s.after \in {r.after, r.cursor}
         /\ s.phase = "answered" => r.phase = "answered"
         /\ s.phase = "answered" => s.after = r.after
         /\ s.skip => r.skip
         /\ s.skipping => r.skipping \/ r.skip
<1> DEFINE Keeps(q, t) == /\ t \in Readers /\ SamePlace(q, t)
                          /\ t.after \in {q.after, q.cursor}
                          /\ (t.phase = "answered" => q.phase = "answered")
                          /\ (t.phase = "answered" => t.after = q.after)
                          /\ (t.skip => q.skip)
                          /\ (t.skipping => q.skipping \/ q.skip)
<1>1. \A q \in Readers : Keeps(q, Asking(q))
  BY DEF Asking, Readers, Phases, SamePlace
<1>2. \A q \in Readers, b \in BOOLEAN : Keeps(q, [q EXCEPT !.again = b])
  BY DEF Readers, SamePlace
<1>3. \A q \in Readers : Keeps(q, [q EXCEPT !.phase = "idle"])
  BY DEF Readers, Phases, SamePlace
<1>4. \A q \in Readers : Keeps(q, Asking([q EXCEPT !.again = FALSE]))
  BY DEF Asking, Readers, Phases, SamePlace
<1>5. Keeps(r, Invalidated(r))
  BY <1>2, <1>4 DEF Invalidated
<1>6. Keeps(r, Fetched(r))
  BY <1>3, <1>4 DEF Fetched
<1> QED  BY <1>1, <1>5, <1>6

\* A process that begins has no page in hand.
LEMMA FreshIs ==
  ASSUME NEW n \in Nat, NEW b \in BOOLEAN
  PROVE  /\ Fresh(n, b) \in Readers
         /\ Fresh(n, b).cursor = n /\ Fresh(n, b).page = <<>> /\ Fresh(n, b).after = 0
         /\ Fresh(n, b).phase = "idle" /\ ~Fresh(n, b).paused
         /\ Fresh(n, b).skip = b /\ ~Fresh(n, b).skipping
<1>1. <<>> \in Seq(Nat)
  OBVIOUS
<1> QED  BY <1>1 DEF Fresh, Readers, Phases

\* What is not yet claimed of a page: the numbers beyond the cursor, in order
LEMMA UnclaimedIs ==
  ASSUME NEW r \in Readers
  PROVE  /\ Unclaimed(r) \in Seq(Nat)
         /\ Elements(Unclaimed(r)) \subseteq Elements(r.page)
         /\ \A n \in Elements(Unclaimed(r)) : n > r.cursor
         /\ \A n \in Elements(r.page) : n > r.cursor => n \in Elements(Unclaimed(r))
         /\ Rising(r.page) => Rising(Unclaimed(r))
<1> DEFINE P == {i \in DOMAIN r.page : r.page[i] > r.cursor}
<1>1. r.page \in Seq(Nat) /\ P \in SUBSET DOMAIN r.page
  BY DEF Readers
<1>2. /\ Picked(r.page, P) \in Seq(Nat)
      /\ Elements(Picked(r.page, P)) = {r.page[i] : i \in P}
      /\ Rising(r.page) => Rising(Picked(r.page, P))
  BY <1>1, PickedIs
<1> QED  BY <1>2 DEF Unclaimed, Elements

\* The last of a sequence of numbers
LEMMA LastIs ==
  ASSUME NEW s \in Seq(Nat), NEW n \in Nat
  PROVE  /\ LastOf(s, n) \in Nat
         /\ LastOf(s, n) = n \/ LastOf(s, n) \in Elements(s)
         /\ Rising(s) => \A k \in Elements(s) : k <= LastOf(s, n)
<1>1. CASE s = <<>>
  BY <1>1 DEF LastOf, Elements
<1>2. CASE s # <<>>
  <2>1. Len(s) \in 1..Len(s) /\ LastOf(s, n) = s[Len(s)] /\ DOMAIN s = 1..Len(s)
    BY <1>2 DEF LastOf
  <2>2. s[Len(s)] \in Nat /\ \A i \in 1..Len(s) : s[i] \in Nat
    BY <2>1
  <2>3. Rising(s) => \A i \in 1..Len(s) : s[i] <= s[Len(s)]
    <3> SUFFICES ASSUME Rising(s), NEW i \in 1..Len(s) PROVE s[i] <= s[Len(s)]
      OBVIOUS
    <3>1. i < Len(s) => s[i] < s[Len(s)]
      BY <2>1 DEF Rising
    <3>2. s[i] \in Nat /\ (i = Len(s) \/ i < Len(s))
      BY <2>2
    <3> QED  BY <2>2, <3>1, <3>2
  <2> QED  BY <2>1, <2>2, <2>3 DEF Elements
<1> QED  BY <1>1, <1>2

\* A page taken moves the cursor to the last number not yet claimed.
LEMMA AfterPageIs ==
  ASSUME NEW r \in Readers
  PROVE  /\ AfterPage(r) \in Readers
         /\ AfterPage(r).cursor = LastOf(Unclaimed(r), r.cursor)
         /\ AfterPage(r).cursor \in Nat
         /\ AfterPage(r).after \in {LastOf(r.page, r.after), AfterPage(r).cursor}
         /\ AfterPage(r).page = <<>>
         /\ AfterPage(r).paused = r.paused /\ AfterPage(r).held = r.held
         /\ r.phase = "answered" => AfterPage(r).phase # "answered"
         /\ AfterPage(r).skip => r.skip
         /\ AfterPage(r).skipping => r.skipping \/ r.skip
<1> DEFINE c == LastOf(Unclaimed(r), r.cursor)
           a == LastOf(r.page, r.after)
           next == [r EXCEPT !.cursor = c, !.after = a, !.page = <<>>]
           moved(t) == [t EXCEPT !.phase = "asking"]
           finished(t) == [t EXCEPT !.phase = "recovering"]
           res == IF r.more THEN moved(next)
                  ELSE IF r.recover THEN finished(next) ELSE Fetched(next)
<1>1. c \in Nat /\ a \in Nat /\ <<>> \in Seq(Nat)
  BY UnclaimedIs, LastIs DEF Readers
<1>2. AfterPage(r) = res
  BY DEF AfterPage
<1> HIDE DEF c, a
<1>3. /\ next \in Readers /\ next.cursor = c /\ next.after = a /\ next.page = <<>>
      /\ next.paused = r.paused /\ next.held = r.held /\ next.phase = r.phase
      /\ next.skip = r.skip /\ next.skipping = r.skipping
  BY <1>1 DEF Readers
<1> HIDE DEF next
<1>4. CASE r.more
  BY <1>1, <1>2, <1>3, <1>4 DEF Readers, Phases, c, a
<1>5. CASE ~r.more /\ r.recover
  BY <1>1, <1>2, <1>3, <1>5 DEF Readers, Phases, c, a
<1>6. CASE ~r.more /\ ~r.recover
  <2>1. AfterPage(r) = Fetched(next)
    BY <1>2, <1>6
  <2>2. /\ Fetched(next) \in Readers /\ SamePlace(next, Fetched(next))
        /\ Fetched(next).after \in {next.after, next.cursor}
        /\ (Fetched(next).skip => next.skip)
        /\ (Fetched(next).skipping => next.skipping \/ next.skip)
    BY <1>3, SyncIs
  <2>3. Fetched(next).phase # "answered"
    BY <1>3 DEF Fetched, Asking, Readers
  <2> QED  BY <1>1, <1>3, <2>1, <2>2, <2>3 DEF SamePlace, c, a
<1> QED  BY <1>4, <1>5, <1>6

-----------------------------------------------------------------------------
(* The invariant: boxes and batches, requests, sockets, the log, its order. *)

\* The handlers of sockets that are at work, and those still to insert
Busy == {s \in Sockets : handler[s] # Idle}
Storing == {s \in Busy : ~handler[s].inserted}

\* The numbers under which messages are stored
Numbers == {seqOf[m] : m \in Stored}

\* A message is in one outbox at most, and once.
BoxesTrue ==
  /\ \A w \in Writers : Elements(outbox[w]) \subseteq 1..written
  /\ \A w \in Writers : Distinct(outbox[w])
  /\ \A v, w \in Writers :
       v # w => Elements(outbox[v]) \cap Elements(outbox[w]) = {}

\* A writer awaits one response at most, and until then the batch is still where
\* it was taken from, whatever is written behind it.
BatchesTrue ==
  /\ \A r \in requests :
       Elements(r.batch) \subseteq 1..written /\ Distinct(r.batch)
  /\ \A r, q \in requests : r.awaited /\ q.awaited /\ r.by = q.by => r = q
  /\ \A r \in requests : r.awaited => TakenFrom(outbox[r.by], r)

\* What a request has found or stored is stored.
RequestsTrue ==
  \A r \in requests :
    /\ r.known \subseteq Stored
    /\ Elements(r.news) \subseteq Stored
    /\ r.stage = "stored" => Elements(r.batch) \subseteq Stored

\* The messages in an outbox or a batch
OverHttp(m) ==
  \/ \E w \in Writers : m \in Elements(outbox[w])
  \/ \E r \in requests : m \in Elements(r.batch)

\* The message and the number of a handler are its own until it has inserted.
SocketsTrue ==
  /\ \A s \in Busy :
       /\ handler[s].msg \in 1..written /\ handler[s].at \in 1..seq
       /\ handler[s].inserted => seqOf[handler[s].msg] = handler[s].at
  /\ \A s \in Storing :
       /\ handler[s].msg \notin Stored /\ handler[s].at \notin Numbers
       /\ ~OverHttp(handler[s].msg)
  /\ \A s, t \in Storing :
       s # t => handler[s].msg # handler[t].msg /\ handler[s].at # handler[t].at

\* No number is used twice, and only stored messages are announced, handed out
\* or routed.
LogTrue ==
  /\ Stored \subseteq 1..written
  /\ \A m, n \in Stored : seqOf[m] = seqOf[n] => m = n
  /\ Elements(wire) \subseteq Numbers
  /\ Elements(reader.page) \subseteq Numbers
  /\ Elements(routed) \subseteq Stored

\* What was routed since the last restart is not beyond the cursor.
OrderTrue ==
  /\ Rising(reader.page)
  /\ reader.paused => reader.held = reader.cursor
  /\ \A i \in restarted + 1..Len(routed) : seqOf[routed[i]] <= reader.cursor
  /\ RoutedInOrder

SafetyInv ==
  /\ TypeOK
  /\ BoxesTrue /\ BatchesTrue /\ RequestsTrue /\ SocketsTrue
  /\ LogTrue /\ OrderTrue

-----------------------------------------------------------------------------
(* Typing.                                                                 *)

CentreTyped ==
  /\ seq \in Nat
  /\ seqOf \in [Messages -> 0..seq]
  /\ requests \subseteq Requests
  /\ handler \in [Sockets -> Handlers]
WritersTyped ==
  /\ written \in 0..NumMessages
  /\ outbox \in [Writers -> Seq(Messages)]
HistoryTyped ==
  /\ routed \in Seq(Messages)
  /\ skipped \subseteq Messages /\ ended \subseteq Messages
  /\ restarted \in 0..Len(routed)
FaultsTyped == faults \in 0..MaxFaults

LEMMA TypeParts ==
  TypeOK <=> /\ CentreTyped /\ WritersTyped /\ HistoryTyped /\ FaultsTyped
             /\ wire \in Seq(1..seq) /\ reader \in Readers
BY DEF TypeOK, CentreTyped, WritersTyped, HistoryTyped, FaultsTyped

\* The same of the next state
LEMMA TypePartsNext ==
  TypeOK' <=> /\ CentreTyped' /\ WritersTyped' /\ HistoryTyped' /\ FaultsTyped'
              /\ wire' \in Seq(1..seq') /\ reader' \in Readers
BY DEF TypeOK, CentreTyped, WritersTyped, HistoryTyped, FaultsTyped

\* A used number leads to its message.
LEMMA MessageAtIs ==
  ASSUME SafetyInv, NEW n \in Numbers
  PROVE  /\ MessageAt(n) \in Stored /\ seqOf[MessageAt(n)] = n
         /\ \A m \in Stored : seqOf[m] = n => m = MessageAt(n)
         /\ n \in 1..seq
<1>1. PICK m \in Stored : seqOf[m] = n
  BY DEF Numbers
<1>2. seqOf \in [Messages -> 0..seq] /\ seq \in Nat
  BY DEF SafetyInv, TypeOK
<1>3. m \in Messages /\ n # 0 /\ n \in 0..seq
  BY <1>1, <1>2 DEF Stored
<1>4. MessageAt(n) \in Messages /\ seqOf[MessageAt(n)] = n
  BY <1>1, <1>3 DEF MessageAt
<1>5. MessageAt(n) \in Stored
  BY <1>3, <1>4 DEF Stored
<1>6. \A k \in Stored : seqOf[k] = seqOf[MessageAt(n)] => k = MessageAt(n)
  BY <1>5 DEF SafetyInv, LogTrue
<1>7. n \in 1..seq
  BY <1>2, <1>3
<1> QED  BY <1>4, <1>5, <1>6, <1>7

\* The messages and numbers are finitely many.
LEMMA StoredFinite ==
  ASSUME SafetyInv
  PROVE  /\ IsFiniteSet(Messages) /\ IsFiniteSet(Stored) /\ Stored \subseteq Messages
         /\ Numbers \subseteq 1..seq
<1>1. IsFiniteSet(Messages)
  BY ConstantsAssumption, FS_Interval DEF Messages
<1>2. Stored \in SUBSET Messages
  BY DEF Stored
<1>3. Numbers \subseteq 1..seq
  BY MessageAtIs
<1> QED  BY <1>1, <1>2, <1>3, FS_Subset

\* What a request is going to insert: all of its batch that it has not found,
\* once each
LEMMA MissingIs ==
  ASSUME SafetyInv, NEW r \in requests
  PROVE  /\ Missing(r) \in Seq(Messages) /\ Distinct(Missing(r))
         /\ Elements(Missing(r)) = Elements(r.batch) \ r.known
<1> DEFINE P == {i \in DOMAIN r.batch : r.batch[i] \notin r.known}
<1>1. r.batch \in Seq(Messages) /\ Distinct(r.batch)
  BY DEF SafetyInv, TypeOK, Requests, BatchesTrue
<1>2. P \in SUBSET DOMAIN r.batch
  OBVIOUS
<1>3. /\ Picked(r.batch, P) \in Seq(Messages) /\ Distinct(Picked(r.batch, P))
      /\ Elements(Picked(r.batch, P)) = {r.batch[i] : i \in P}
  BY <1>1, <1>2, PickedIs
<1> QED  BY <1>3 DEF Missing, Elements

\* Where a sequence has a value
PlaceOf(new, m) == CHOOSE i \in DOMAIN new : new[i] = m

\* The numbers that a commit gives: each message its own, from the counter on
LEMMA Numbered ==
  ASSUME seq \in Nat, NEW new \in Seq(Messages), NEW m \in Elements(new)
  PROVE  /\ PlaceOf(new, m) \in 1..Len(new)
         /\ new[PlaceOf(new, m)] = m
         /\ StartSeq(Len(new)) + PlaceOf(new, m) - 1 = seq + PlaceOf(new, m)
<1>1. DOMAIN new = 1..Len(new) /\ Len(new) \in Nat
  OBVIOUS
<1>2. \E i \in DOMAIN new : new[i] = m
  BY DEF Elements
<1>3. PlaceOf(new, m) \in DOMAIN new /\ new[PlaceOf(new, m)] = m
  BY <1>2 DEF PlaceOf
<1>4. StartSeq(Len(new)) = seq + 1
  BY <1>1 DEF StartSeq, EndSeq
<1> QED  BY <1>1, <1>3, <1>4

\* What a commit does to the numbers
LEMMA CommitNumbers ==
  ASSUME SafetyInv, NEW r \in requests, Commit(r)
  PROVE  /\ Len(Missing(r)) \in Nat
         /\ Elements(Missing(r)) \cap Stored = {}
         /\ seq' = seq + Len(Missing(r))
         /\ DOMAIN seqOf' = Messages
         /\ \A m \in Messages \ Elements(Missing(r)) : seqOf'[m] = seqOf[m]
         /\ \A m \in Elements(Missing(r)) :
              /\ m \in Messages
              /\ seqOf'[m] = seq + PlaceOf(Missing(r), m)
              /\ PlaceOf(Missing(r), m) \in 1..Len(Missing(r))
              /\ Missing(r)[PlaceOf(Missing(r), m)] = m
<1> DEFINE new == Missing(r)
<1>1. seq \in Nat /\ new \in Seq(Messages) /\ Len(new) \in Nat
  BY MissingIs DEF SafetyInv, TypeOK
<1>2. /\ Elements(new) \cap Stored = {}
      /\ seq' = seq + Len(new)
      /\ seqOf' = [m \in Messages |->
           IF m \in Elements(new) THEN StartSeq(Len(new)) + PlaceOf(new, m) - 1
           ELSE seqOf[m]]
  BY DEF Commit, EndSeq, PlaceOf
<1> HIDE DEF new
<1>3. Elements(new) \subseteq Messages
  BY <1>1, ElementsOf
<1>4. \A m \in Elements(new) :
        /\ PlaceOf(new, m) \in 1..Len(new) /\ new[PlaceOf(new, m)] = m
        /\ StartSeq(Len(new)) + PlaceOf(new, m) - 1 = seq + PlaceOf(new, m)
  BY <1>1, Numbered
<1> QED  BY <1>1, <1>2, <1>3, <1>4 DEF new

-----------------------------------------------------------------------------
(* Every step is well typed.                                               *)

\* A new request is the newest part of its writer's outbox.
LEMMA BatchIs ==
  ASSUME TypeOK, NEW w \in Writers
  PROVE  LET a == BatchStart(w)
             b == SubSeq(outbox[w], a + 1, Len(outbox[w]))
         IN  /\ a \in 0..Len(outbox[w])
             /\ b \in Seq(Messages)
             /\ Len(b) = Len(outbox[w]) - a
             /\ \A i \in 1..Len(b) : b[i] = outbox[w][a + i]
<1> DEFINE box == outbox[w]
           n == Len(box)
           a == BatchStart(w)
           b == SubSeq(box, a + 1, n)
<1>1. box \in Seq(Messages) /\ n \in Nat /\ BatchSize \in Nat
  BY ConstantsAssumption DEF TypeOK
<1>2. a \in 0..n
  BY <1>1 DEF BatchStart
<1> HIDE DEF a, n, box
<1>3. n = Len(box)
  BY DEF n
<1>4. a + 1 \in 1..n + 1 /\ n \in 0..n /\ a + 1 <= n + 1
  BY <1>1, <1>2
<1>5. b \in Seq(Messages) /\ Len(b) = n - (a + 1) + 1
      /\ \A j \in 1..n - (a + 1) + 1 : b[j] = box[a + 1 + j - 1]
  BY ONLY <1>1, <1>3, <1>4, PartOf
<1> HIDE DEF b
<1>6. Len(b) = n - a
  BY <1>1, <1>2, <1>5
<1>7. \A i \in 1..Len(b) : b[i] = box[a + i]
  BY <1>1, <1>2, <1>5
<1> QED  BY <1>2, <1>5, <1>6, <1>7 DEF a, n, box, b

\* Requests stay requests.
LEMMA RequestTyped ==
  ASSUME NEW r \in Requests
  PROVE  /\ \A st \in Stages, k \in SUBSET Messages, ns \in Seq(Messages) :
              /\ [r EXCEPT !.stage = st, !.known = k] \in Requests
              /\ [r EXCEPT !.stage = st, !.news = ns] \in Requests
              /\ [r EXCEPT !.news = ns] \in Requests
         /\ [r EXCEPT !.awaited = FALSE] \in Requests
BY DEF Requests

\* The centre's numbers stay numbers when a request is committed.
LEMMA CommitTyped ==
  ASSUME SafetyInv, NEW r \in requests, Commit(r)
  PROVE  CentreTyped' /\ seq <= seq'
<1> DEFINE new == Missing(r)
<1>1. /\ seq \in Nat /\ seqOf \in [Messages -> 0..seq] /\ requests \subseteq Requests
      /\ handler \in [Sockets -> Handlers]
  BY DEF SafetyInv, TypeOK
<1>2. new \in Seq(Messages)
  BY MissingIs
<1>3. /\ requests' = (requests \ {r}) \cup {[r EXCEPT !.stage = "stored", !.news = new]}
      /\ handler' = handler
      /\ seqOf' = [m \in Messages |-> seqOf'[m]]
  BY DEF Commit, Replace
<1>4. /\ Len(new) \in Nat /\ seq' = seq + Len(new)
      /\ \A m \in Messages \ Elements(new) : seqOf'[m] = seqOf[m]
      /\ \A m \in Elements(new) :
           seqOf'[m] = seq + PlaceOf(new, m) /\ PlaceOf(new, m) \in 1..Len(new)
  BY CommitNumbers
<1> HIDE DEF new
<1>5. \A m \in Messages : seqOf'[m] \in 0..seq'
  <2> TAKE m \in Messages
  <2>1. CASE m \in Elements(new)
    BY <1>1, <1>4, <2>1
  <2>2. CASE m \notin Elements(new)
    <3>1. seqOf'[m] = seqOf[m] /\ seqOf[m] \in 0..seq
      BY <1>1, <1>4, <2>2
    <3> QED  BY <1>1, <1>4, <3>1
  <2> QED  BY <2>1, <2>2
<1>6. seqOf' \in [Messages -> 0..seq']
  BY <1>3, <1>5
<1>7. requests' \subseteq Requests
  <2>1. r \in Requests /\ "stored" \in Stages
    BY <1>1 DEF Stages
  <2> QED  BY <1>1, <1>2, <1>3, <2>1, RequestTyped
<1> QED  BY <1>1, <1>3, <1>4, <1>6, <1>7 DEF CentreTyped

\* Requests come and go.
LEMMA RequestStepTyped ==
  ASSUME SafetyInv,
         NEW r \in requests, RequestStep(r) \/ PostFails(r) \/ AnnounceFails(r)
  PROVE  CentreTyped'
<1>1. /\ seq \in Nat /\ seqOf \in [Messages -> 0..seq] /\ requests \subseteq Requests
      /\ handler \in [Sockets -> Handlers] /\ r \in Requests
  BY DEF SafetyInv, TypeOK
<1>2. CASE Commit(r)
  BY <1>2, CommitTyped
<1>3. CASE Lookup(r)
  <2>1. "read" \in Stages /\ Elements(r.batch) \cap Stored \in SUBSET Messages
    BY DEF Stages, Stored
  <2>2. r.news \in Seq(Messages)
    BY <1>1 DEF Requests
  <2>3. [r EXCEPT !.stage = "read", !.known = Elements(r.batch) \cap Stored] \in Requests
    BY <1>1, <2>1, <2>2, RequestTyped
  <2> QED  BY <1>1, <1>3, <2>3 DEF Lookup, Replace, CentreTyped
<1>4. CASE Announce(r)
  <2>1. r.news \in Seq(Messages) /\ r.news # <<>>
    BY <1>1, <1>4 DEF Requests, Announce
  <2>2. Tail(r.news) \in Seq(Messages)
    BY <2>1
  <2>3. [r EXCEPT !.news = Tail(@)] \in Requests
    BY <1>1, <2>2 DEF Requests
  <2> QED  BY <1>1, <1>4, <2>3 DEF Announce, Replace, CentreTyped
<1>5. CASE Clash(r) \/ Respond(r) \/ AnnounceFails(r)
  BY <1>1, <1>5 DEF Clash, Respond, AnnounceFails, CentreTyped
<1>6. CASE PostFails(r)
  <2>1. [r EXCEPT !.awaited = FALSE] \in Requests
    BY <1>1, RequestTyped
  <2> QED  BY <1>1, <1>6, <2>1 DEF PostFails, Replace, CentreTyped
<1> QED  BY <1>2, <1>3, <1>4, <1>5, <1>6 DEF RequestStep

\* An update that is emitted joins those under way.
LEMMA EmitIs ==
  ASSUME SafetyInv, NEW n \in Numbers, Emit(n)
  PROVE  wire' \in Seq(1..seq) /\ Elements(wire') \subseteq Elements(wire) \cup {n}
<1> DEFINE T == 1..seq
<1>1. wire \in Seq(T) /\ n \in T
  BY MessageAtIs DEF SafetyInv, TypeOK
<1> HIDE DEF T
<1>2. Append(wire, n) \in Seq(T) /\ Elements(Append(wire, n)) = Elements(wire) \cup {n}
  BY <1>1, ElementsOf
<1> QED  BY <1>1, <1>2 DEF Emit, T

\* More numbers are a wider type.
LEMMA WireGrows ==
  ASSUME seq \in Nat, NEW n \in Nat, seq <= n, wire \in Seq(1..seq)
  PROVE  wire \in Seq(1..n)
<1>1. \A i \in 1..Len(wire) : wire[i] \in 1..seq
  OBVIOUS
<1>2. \A i \in 1..Len(wire) : wire[i] \in 1..n
  BY <1>1
<1> QED  BY <1>2

\* The messages of the numbers that somebody hands out
LEMMA MessagesOf ==
  ASSUME SafetyInv, NEW q \in Seq(Nat), Elements(q) \subseteq Numbers
  PROVE  LET msgs == [i \in DOMAIN q |-> MessageAt(q[i])]
         IN  /\ msgs \in Seq(Messages)
             /\ Len(msgs) = Len(q)
             /\ Elements(msgs) \subseteq Stored
             /\ \A i \in 1..Len(q) : seqOf[msgs[i]] = q[i]
             /\ \A m \in Stored : seqOf[m] \in Elements(q) => m \in Elements(msgs)
<1> DEFINE msgs == [i \in DOMAIN q |-> MessageAt(q[i])]
<1>1. DOMAIN q = 1..Len(q) /\ Len(q) \in Nat
  OBVIOUS
<1>2. \A i \in 1..Len(q) : q[i] \in Numbers
  BY <1>1 DEF Elements
<1>3. \A i \in 1..Len(q) : MessageAt(q[i]) \in Stored /\ seqOf[MessageAt(q[i])] = q[i]
  BY <1>2, MessageAtIs
<1>4. msgs \in [1..Len(q) -> Messages] /\ DOMAIN msgs = 1..Len(q)
  BY <1>1, <1>3 DEF Stored
<1>5. msgs \in Seq(Messages) /\ Len(msgs) = Len(q)
  BY <1>1, <1>4
<1>6. Elements(msgs) \subseteq Stored
  BY <1>1, <1>3, <1>4 DEF Elements
<1>7. \A m \in Stored : seqOf[m] \in Elements(q) => m \in Elements(msgs)
  <2> SUFFICES ASSUME NEW m \in Stored, NEW i \in 1..Len(q), seqOf[m] = q[i]
               PROVE  m \in Elements(msgs)
    BY <1>1 DEF Elements
  <2>1. m = MessageAt(q[i])
    BY <1>2, MessageAtIs
  <2> QED  BY <1>1, <1>4, <2>1 DEF Elements
<1> QED  BY <1>3, <1>4, <1>5, <1>6, <1>7

\* The part of the page that is not claimed consists of numbers in use.
LEMMA UnclaimedUsed ==
  ASSUME SafetyInv
  PROVE  /\ reader \in Readers
         /\ Unclaimed(reader) \in Seq(Nat)
         /\ Elements(Unclaimed(reader)) \subseteq Numbers
<1>1. reader \in Readers
  BY DEF SafetyInv, TypeOK
<1> QED  BY <1>1, UnclaimedIs DEF SafetyInv, LogTrue

\* The reader's steps
LEMMA ReaderTyped ==
  ASSUME SafetyInv, ReaderStep \/ Drop \/ GetFails \/ Hold
  PROVE  TypeOK'
<1>1. /\ CentreTyped /\ WritersTyped /\ HistoryTyped /\ FaultsTyped
      /\ wire \in Seq(1..seq) /\ reader \in Readers
  BY TypeParts DEF SafetyInv
<1>2. <<>> \in Seq(1..seq) /\ <<>> \in Seq(Nat)
  OBVIOUS
<1>3. CentreTyped' /\ WritersTyped'
  <2>1. UNCHANGED <<written, seq, seqOf, requests, handler, outbox>>
    BY DEF ReaderStep, Connect, Live, Serve, Receive, Recover, Retry, Release, Drop,
           GetFails, Hold, centre
  <2> QED  BY <1>1, <2>1 DEF CentreTyped, WritersTyped
<1>4. seq' = seq
  BY DEF ReaderStep, Connect, Live, Serve, Receive, Recover, Retry, Release, Drop,
         GetFails, Hold, centre
<1>5. FaultsTyped'
  BY <1>1, ConstantsAssumption DEF FaultsTyped, Fault, ReaderStep, Connect, Live, Serve,
         Receive, Recover, Retry, Release, Drop, GetFails, Hold
<1>6. ASSUME HistoryTyped', wire' \in Seq(1..seq), reader' \in Readers
      PROVE  TypeOK'
  BY <1>3, <1>4, <1>5, <1>6, TypePartsNext
<1>7. CASE Connect \/ Drop \/ Recover \/ Retry \/ GetFails \/ Hold \/ Release
  <2>1. HistoryTyped'
    BY <1>1, <1>7 DEF Connect, Drop, Recover, Retry, GetFails, Hold, Release, HistoryTyped,
                      history
  <2>2. wire' \in Seq(1..seq)
    BY <1>1, <1>2, <1>7 DEF Connect, Drop, Recover, Retry, GetFails, Hold, Release
  <2>3. CASE Connect
    <3>1. [reader EXCEPT !.connected = TRUE] \in Readers
      BY <1>1 DEF Readers
    <3>2. reader' \in Readers
      BY <2>3, <3>1, SyncIs DEF Connect
    <3> QED  BY <1>6, <2>1, <2>2, <3>2
  <2>4. CASE Recover
    <3>1. [reader EXCEPT !.recover = FALSE] \in Readers
      BY <1>1 DEF Readers
    <3>2. reader' \in Readers
      BY <2>4, <3>1, SyncIs DEF Recover
    <3> QED  BY <1>6, <2>1, <2>2, <3>2
  <2>5. CASE Release
    <3>1. [reader EXCEPT !.paused = FALSE, !.skip = FALSE, !.cursor = reader.held]
            \in Readers
      BY <1>1 DEF Readers
    <3>2. reader' \in Readers
      BY <2>5, <3>1, SyncIs DEF Release
    <3> QED  BY <1>6, <2>1, <2>2, <3>2
  <2>6. CASE Retry
    <3>1. reader' \in Readers
      BY <1>1, <2>6, SyncIs DEF Retry
    <3> QED  BY <1>6, <2>1, <2>2, <3>1
  <2>7. CASE Drop \/ GetFails \/ Hold
    <3>1. reader' \in Readers
      BY <1>1, <1>2, <2>7 DEF Drop, GetFails, Hold, Readers, Phases
    <3> QED  BY <1>6, <2>1, <2>2, <3>1
  <2> QED  BY <1>7, <2>3, <2>4, <2>5, <2>6, <2>7
<1>8. CASE Serve
  <2> DEFINE S == {seqOf[m] : m \in Stored} \cap (reader.after + 1)..seq
             visible == Ascending(S)
             n == IF Len(visible) > PageSize THEN PageSize ELSE Len(visible)
  <2>1. S \in SUBSET Nat /\ IsFiniteSet(S)
    <3>1. reader.after \in Nat /\ seq \in Nat
      BY <1>1 DEF Readers, CentreTyped
    <3>2. IsFiniteSet((reader.after + 1)..seq) /\ (reader.after + 1)..seq \subseteq Nat
      <4>1. reader.after + 1 \in Int /\ seq \in Int
        BY <3>1
      <4>2. IsFiniteSet((reader.after + 1)..seq)
        BY <4>1, FS_Interval
      <4>3. (reader.after + 1)..seq \subseteq Nat
        BY <3>1
      <4> QED  BY <4>2, <4>3
    <3>3. S \in SUBSET ((reader.after + 1)..seq)
      OBVIOUS
    <3> QED  BY <3>2, <3>3, FS_Subset
  <2>2. visible \in [1..Cardinality(S) -> S] /\ Cardinality(S) \in Nat
    BY <2>1, AscendingIs
  <2>3. visible \in Seq(Nat) /\ Len(visible) = Cardinality(S)
    BY <2>1, <2>2
  <2> HIDE DEF visible, S
  <2>4. n \in 0..Len(visible) /\ 1 \in 1..Len(visible) + 1 /\ 1 <= n + 1
    BY <2>2, <2>3, ConstantsAssumption
  <2>5. SubSeq(visible, 1, n) \in Seq(Nat)
    BY <2>3, <2>4, PartOf
  <2>6. reader' = [reader EXCEPT !.phase = "answered", !.page = SubSeq(visible, 1, n),
                                 !.more = Len(visible) > PageSize]
    BY <1>8 DEF Serve, visible, S
  <2>p. (Len(visible) > PageSize) \in BOOLEAN
    OBVIOUS
  <2> HIDE DEF n
  <2>7. reader' \in Readers
    BY <1>1, <2>5, <2>6, <2>p DEF Readers, Phases
  <2>8. HistoryTyped' /\ wire' \in Seq(1..seq)
    BY <1>1, <1>8 DEF Serve, HistoryTyped, history
  <2> QED  BY <1>6, <2>7, <2>8
<1>9. CASE Live
  <2>1. /\ wire # <<>> /\ wire' = Tail(wire) /\ UNCHANGED <<skipped, ended, restarted>>
        /\ \/ UNCHANGED <<reader, routed>>
           \/ /\ reader' = [reader EXCEPT !.cursor = Head(wire)]
              /\ routed' = Append(routed, MessageAt(Head(wire)))
           \/ reader' = Invalidated(reader) /\ UNCHANGED routed
    BY <1>9 DEF Live
  <2>2. Head(wire) \in Elements(wire) /\ wire' \in Seq(1..seq)
    BY <1>1, <2>1, ElementsOf
  <2>3. Head(wire) \in Numbers
    BY <2>2 DEF SafetyInv, LogTrue
  <2>4. MessageAt(Head(wire)) \in Messages /\ Head(wire) \in 1..seq
    BY <2>3, MessageAtIs DEF Stored
  <2>5. reader' \in Readers
    <3>n. Head(wire) \in Nat
      BY <2>4
    <3>1. [reader EXCEPT !.cursor = Head(wire)] \in Readers
      BY <1>1, <3>n DEF Readers
    <3> QED  BY <1>1, <2>1, <3>1, SyncIs
  <2>6. HistoryTyped'
    <3>1. /\ Append(routed, MessageAt(Head(wire))) \in Seq(Messages)
          /\ Len(Append(routed, MessageAt(Head(wire)))) = Len(routed) + 1
          /\ Len(routed) \in Nat /\ restarted \in 0..Len(routed)
      BY <1>1, <2>4 DEF HistoryTyped
    <3>2. CASE routed' = routed
      BY <1>1, <2>1, <3>2 DEF HistoryTyped
    <3>3. CASE routed' = Append(routed, MessageAt(Head(wire)))
      <4>1. routed' \in Seq(Messages) /\ restarted' \in 0..Len(routed')
        BY <2>1, <3>1, <3>3
      <4> QED  BY <1>1, <2>1, <4>1 DEF HistoryTyped
    <3> QED  BY <2>1, <3>2, <3>3
  <2> QED  BY <1>6, <2>2, <2>5, <2>6
<1>10. CASE Receive
  <2> DEFINE new == Unclaimed(reader)
             msgs == [i \in DOMAIN new |-> MessageAt(new[i])]
  <2>1. /\ UNCHANGED <<wire, ended, restarted>>
        /\ \/ reader' = Fetched([reader EXCEPT !.page = <<>>]) /\ UNCHANGED <<skipped, routed>>
           \/ /\ reader' = AfterPage(reader)
              /\ \/ skipped' = skipped \cup Elements(msgs) /\ UNCHANGED routed
                 \/ routed' = routed \o msgs /\ UNCHANGED skipped
    BY <1>10 DEF Receive, history
  <2>2. msgs \in Seq(Messages) /\ Elements(msgs) \subseteq Messages
    BY UnclaimedUsed, MessagesOf DEF Stored
  <2> HIDE DEF msgs
  <2>3. reader' \in Readers
    <3>1. [reader EXCEPT !.page = <<>>] \in Readers
      BY <1>1, <1>2 DEF Readers
    <3> QED  BY <1>1, <2>1, <3>1, SyncIs, AfterPageIs
  <2>4. HistoryTyped'
    <3>1. /\ routed \o msgs \in Seq(Messages) /\ Len(routed \o msgs) = Len(routed) + Len(msgs)
          /\ Len(routed) \in Nat /\ Len(msgs) \in Nat /\ restarted \in 0..Len(routed)
      BY <1>1, <2>2, ConcatProperties DEF HistoryTyped
    <3>2. routed' \in Seq(Messages) /\ restarted' \in 0..Len(routed')
      <4>1. CASE routed' = routed
        BY <1>1, <2>1, <4>1 DEF HistoryTyped
      <4>2. CASE routed' = routed \o msgs
        BY <2>1, <3>1, <4>2
      <4> QED  BY <2>1, <4>1, <4>2
    <3>3. skipped' \subseteq Messages /\ ended' \subseteq Messages
      BY <1>1, <2>1, <2>2 DEF HistoryTyped
    <3> QED  BY <3>2, <3>3 DEF HistoryTyped
  <2> QED  BY <1>1, <1>6, <2>1, <2>3, <2>4
<1> QED  BY <1>7, <1>8, <1>9, <1>10 DEF ReaderStep

\* The batch of an awaited request leaves the outbox when it is confirmed.
LEMMA RespondOutbox ==
  ASSUME SafetyInv, NEW r \in requests, Respond(r)
  PROVE  /\ outbox' \in [Writers -> Seq(Messages)]
         /\ \A w \in Writers : /\ Distinct(outbox'[w])
                               /\ Elements(outbox'[w]) \subseteq Elements(outbox[w])
                               /\ Elements(outbox[w]) \subseteq Elements(outbox'[w]) \cup Stored
         /\ \A w \in Writers : outbox'[w] = outbox[w] \/ (w = r.by /\ r.awaited)
<1>1. /\ outbox \in [Writers -> Seq(Messages)] /\ r.by \in Writers /\ r.start \in Nat
      /\ r.batch \in Seq(Messages) /\ r.awaited \in BOOLEAN
      /\ \A w \in Writers : Distinct(outbox[w])
  BY DEF SafetyInv, TypeOK, Requests, BoxesTrue
<1>2. CASE r.awaited
  <2> DEFINE box == outbox[r.by]
             kept == Kept(box, r)
  <2>1. outbox' = [outbox EXCEPT ![r.by] = kept]
    BY <1>2 DEF Respond
  <2>2. box \in Seq(Messages) /\ Distinct(box) /\ TakenFrom(box, r)
    BY <1>1, <1>2 DEF SafetyInv, BatchesTrue
  <2>3. Elements(r.batch) \subseteq Stored
    BY DEF SafetyInv, RequestsTrue, Respond
  <2> HIDE DEF box
  <2>4. /\ kept \in Seq(Messages) /\ Distinct(kept) /\ Elements(kept) \subseteq Elements(box)
        /\ Elements(box) \subseteq Elements(kept) \cup Elements(r.batch)
    BY <1>1, <2>2, KeptIs
  <2> HIDE DEF kept
  <2>5. \A w \in Writers : outbox'[w] = IF w = r.by THEN kept ELSE outbox[w]
    BY <1>1, <2>1
  <2>6. outbox' \in [Writers -> Seq(Messages)]
    BY <1>1, <2>1, <2>4
  <2>7. ASSUME NEW w \in Writers
        PROVE  /\ Distinct(outbox'[w])
               /\ Elements(outbox'[w]) \subseteq Elements(outbox[w])
               /\ Elements(outbox[w]) \subseteq Elements(outbox'[w]) \cup Stored
    <3>1. CASE w = r.by
      BY <2>3, <2>4, <2>5, <3>1 DEF box
    <3>2. CASE w # r.by
      BY <1>1, <2>5, <3>2
    <3> QED  BY <3>1, <3>2
  <2> QED  BY <1>2, <2>5, <2>6, <2>7
<1>3. CASE ~r.awaited
  BY <1>1, <1>3 DEF Respond
<1> QED  BY <1>1, <1>2, <1>3

\* The steps of writers
LEMMA WriterTyped ==
  ASSUME SafetyInv, NEW w \in Writers, WriterStep(w)
  PROVE  TypeOK'
<1>1. /\ CentreTyped /\ WritersTyped /\ HistoryTyped /\ FaultsTyped
      /\ wire \in Seq(1..seq) /\ reader \in Readers
  BY TypeParts DEF SafetyInv
<1>2. HistoryTyped' /\ FaultsTyped' /\ wire' \in Seq(1..seq') /\ reader' \in Readers
  BY <1>1 DEF WriterStep, Enqueue, Post, centre, history, HistoryTyped, FaultsTyped
<1>3. CASE Enqueue(w)
  <2>1. written' = written + 1 /\ written + 1 \in Messages /\ written' \in 0..NumMessages
    BY <1>1, <1>3, ConstantsAssumption DEF Enqueue, WritersTyped, Messages
  <2>2. outbox[w] \in Seq(Messages) /\ Append(outbox[w], written + 1) \in Seq(Messages)
    BY <1>1, <2>1 DEF WritersTyped
  <2>3. WritersTyped'
    BY <1>1, <1>3, <2>1, <2>2 DEF Enqueue, WritersTyped
  <2>4. CentreTyped'
    BY <1>1, <1>3 DEF Enqueue, centre, CentreTyped
  <2> QED  BY <1>2, <2>3, <2>4, TypePartsNext
<1>4. CASE Post(w)
  <2> DEFINE a == BatchStart(w)
             b == SubSeq(outbox[w], a + 1, Len(outbox[w]))
             q == [by |-> w, start |-> a, batch |-> b, stage |-> "sent", known |-> {},
                   news |-> <<>>, awaited |-> TRUE]
  <2>1. requests' = requests \cup {q}
    BY <1>4 DEF Post
  <2>2. a \in Nat /\ b \in Seq(Messages)
    BY BatchIs DEF SafetyInv
  <2> HIDE DEF a, b
  <2>3. q \in Requests
    BY <2>2 DEF Requests, Stages
  <2>4. CentreTyped' /\ WritersTyped'
    BY <1>1, <1>4, <2>1, <2>3 DEF Post, CentreTyped, WritersTyped
  <2> QED  BY <1>2, <2>4, TypePartsNext
<1> QED  BY <1>3, <1>4 DEF WriterStep

\* The steps of the centre for a request
LEMMA RequestsTyped ==
  ASSUME SafetyInv,
         NEW r \in requests, RequestStep(r) \/ PostFails(r) \/ AnnounceFails(r)
  PROVE  TypeOK'
<1>1. /\ CentreTyped /\ WritersTyped /\ HistoryTyped /\ FaultsTyped
      /\ wire \in Seq(1..seq) /\ reader \in Readers
  BY TypeParts DEF SafetyInv
<1>2. CentreTyped'
  BY RequestStepTyped
<1>3. HistoryTyped'
  BY <1>1 DEF RequestStep, Lookup, Commit, Clash, Announce, Respond, PostFails, AnnounceFails,
              history, HistoryTyped
<1>4. FaultsTyped'
  BY <1>1, ConstantsAssumption DEF RequestStep, Lookup, Commit, Clash, Announce, Respond,
              PostFails, AnnounceFails, Fault, FaultsTyped
<1>5. reader' \in Readers
  <2>1. CASE Respond(r)
    BY <1>1, <2>1 DEF Respond, CursorAfterPost, Readers
  <2>2. CASE ~Respond(r)
    BY <1>1, <2>2 DEF RequestStep, Lookup, Commit, Clash, Announce, PostFails, AnnounceFails
  <2> QED  BY <2>1, <2>2
<1>6. WritersTyped'
  <2>1. CASE Respond(r)
    <3>1. outbox' \in [Writers -> Seq(Messages)]
      BY <2>1, RespondOutbox
    <3> QED  BY <1>1, <2>1, <3>1 DEF Respond, WritersTyped
  <2>2. CASE ~Respond(r)
    BY <1>1, <2>2 DEF RequestStep, Lookup, Commit, Clash, Announce, PostFails, AnnounceFails,
                      WritersTyped
  <2> QED  BY <2>1, <2>2
<1>7. wire' \in Seq(1..seq')
  <2>1. CASE Announce(r)
    <3>1. Head(r.news) \in Stored
      <4>1. r.news \in Seq(Messages) /\ r.news # <<>>
        BY <2>1 DEF SafetyInv, TypeOK, Requests, Announce
      <4> QED  BY <4>1, ElementsOf DEF SafetyInv, RequestsTrue
    <3>2. seqOf[Head(r.news)] \in Numbers
      BY <3>1 DEF Numbers
    <3>3. wire' \in Seq(1..seq)
      BY <2>1, <3>2, EmitIs DEF Announce
    <3> QED  BY <2>1, <3>3 DEF Announce
  <2>2. CASE Commit(r)
    <3>1. seq' \in Nat /\ seq <= seq' /\ wire' = wire
      BY <1>2, <2>2, CommitTyped DEF CentreTyped, Commit
    <3> QED  BY <1>1, <3>1, WireGrows DEF CentreTyped
  <2>3. CASE ~Announce(r) /\ ~Commit(r)
    BY <1>1, <2>3 DEF RequestStep, Lookup, Clash, Respond, PostFails, AnnounceFails
  <2> QED  BY <2>1, <2>2, <2>3
<1> QED  BY <1>2, <1>3, <1>4, <1>5, <1>6, <1>7, TypePartsNext

\* The steps of sockets
LEMMA SocketTyped ==
  ASSUME SafetyInv,
         NEW s \in Sockets, SocketAllocate(s) \/ SocketStep(s) \/ SocketFails(s)
  PROVE  TypeOK'
<1>1. /\ CentreTyped /\ WritersTyped /\ HistoryTyped /\ FaultsTyped
      /\ wire \in Seq(1..seq) /\ reader \in Readers
  BY TypeParts DEF SafetyInv
<1>2. HistoryTyped' /\ reader' \in Readers
  BY <1>1 DEF SocketAllocate, SocketStep, SocketInsert, SocketAnnounce, SocketFails,
              history, HistoryTyped
<1>3. FaultsTyped'
  BY <1>1, ConstantsAssumption DEF SocketAllocate, SocketStep, SocketInsert, SocketAnnounce,
              SocketFails, Fault, FaultsTyped
<1>4. Idle \in Handlers
  BY ConstantsAssumption DEF Idle, Handlers
<1>5. CASE SocketAllocate(s)
  <2>1. /\ written' = written + 1 /\ written + 1 \in 0..NumMessages
        /\ seq' = seq + 1 /\ seq \in Nat
    BY <1>1, <1>5, ConstantsAssumption DEF SocketAllocate, CentreTyped, WritersTyped
  <2>2. [msg |-> written + 1, at |-> seq + 1, inserted |-> FALSE] \in Handlers
    BY <2>1 DEF Handlers
  <2>3. \A m \in Messages : seqOf[m] \in 0..seq + 1
    BY <1>1, <2>1 DEF CentreTyped
  <2>4. CentreTyped' /\ WritersTyped'
    BY <1>1, <1>5, <2>1, <2>2, <2>3 DEF SocketAllocate, CentreTyped, WritersTyped
  <2>5. wire' \in Seq(1..seq')
    BY <1>1, <1>5, <2>1, WireGrows DEF SocketAllocate
  <2> QED  BY <1>2, <1>3, <2>4, <2>5, TypePartsNext
<1>6. CASE SocketInsert(s)
  <2>1. s \in Busy
    BY <1>6 DEF SocketInsert, Busy
  <2>2. handler[s].at \in 0..seq /\ handler[s] \in Handlers
    BY <1>1, <2>1 DEF CentreTyped, SafetyInv, SocketsTrue
  <2>3. [handler[s] EXCEPT !.inserted = TRUE] \in Handlers
    BY <2>2 DEF Handlers
  <2>4. handler' = [handler EXCEPT ![s] = [handler[s] EXCEPT !.inserted = TRUE]]
    BY <1>1, <1>6 DEF SocketInsert, CentreTyped
  <2>5. CentreTyped' /\ WritersTyped' /\ wire' \in Seq(1..seq')
    BY <1>1, <1>6, <2>2, <2>3, <2>4 DEF SocketInsert, CentreTyped, WritersTyped
  <2> QED  BY <1>2, <1>3, <2>5, TypePartsNext
<1>7. CASE SocketAnnounce(s)
  <2>1. s \in Busy
    BY <1>7 DEF SocketAnnounce, Busy, Idle
  <2>2. handler[s].at \in Numbers
    <3>1. /\ handler[s].msg \in 1..written /\ handler[s].at \in 1..seq
          /\ seqOf[handler[s].msg] = handler[s].at
      BY <1>7, <2>1 DEF SocketAnnounce, SafetyInv, SocketsTrue
    <3>2. handler[s].msg \in Messages /\ seqOf[handler[s].msg] # 0
      BY <1>1, <3>1, ConstantsAssumption DEF WritersTyped, CentreTyped, Messages
    <3> QED  BY <3>1, <3>2 DEF Numbers, Stored
  <2>3. wire' \in Seq(1..seq)
    BY <1>7, <2>2, EmitIs DEF SocketAnnounce
  <2>4. CentreTyped' /\ WritersTyped'
    BY <1>1, <1>4, <1>7 DEF SocketAnnounce, CentreTyped, WritersTyped
  <2>5. seq' = seq
    BY <1>7 DEF SocketAnnounce
  <2> QED  BY <1>2, <1>3, <2>3, <2>4, <2>5, TypePartsNext
<1>8. CASE SocketFails(s)
  <2>1. CentreTyped' /\ WritersTyped' /\ wire' \in Seq(1..seq')
    BY <1>1, <1>4, <1>8 DEF SocketFails, CentreTyped, WritersTyped
  <2> QED  BY <1>2, <1>3, <2>1, TypePartsNext
<1> QED  BY <1>5, <1>6, <1>7, <1>8 DEF SocketStep

\* The requests of a process that ended are as they were, but not awaited.
LEMMA AbandonedIs ==
  ASSUME requests \subseteq Requests
  PROVE  \A q \in Abandoned(Self) :
           /\ q \in Requests /\ (q.awaited => q.by # Self)
           /\ \E r \in requests : /\ q.by = r.by /\ q.start = r.start /\ q.batch = r.batch
                                  /\ q.stage = r.stage /\ q.known = r.known /\ q.news = r.news
                                  /\ (q.awaited => q = r)
<1> SUFFICES ASSUME NEW r \in requests
             PROVE  LET q == IF r.by = Self THEN [r EXCEPT !.awaited = FALSE] ELSE r
                    IN  /\ q \in Requests /\ (q.awaited => q.by # Self)
                        /\ q.by = r.by /\ q.start = r.start /\ q.batch = r.batch
                        /\ q.stage = r.stage /\ q.known = r.known /\ q.news = r.news
                        /\ (q.awaited => q = r)
  BY DEF Abandoned
<1>1. r \in Requests
  OBVIOUS
<1> QED  BY <1>1 DEF Requests

\* The ends of processes, and of the centre's
LEMMA EndsTyped ==
  ASSUME SafetyInv, CentreRestarts \/ Handover \/ Restart
  PROVE  TypeOK'
<1>1. /\ CentreTyped /\ WritersTyped /\ HistoryTyped /\ FaultsTyped
      /\ wire \in Seq(1..seq) /\ reader \in Readers
  BY TypeParts DEF SafetyInv
<1>2. wire' = <<>> /\ wire' \in Seq(1..seq') /\ <<>> \in Seq(Messages)
  <2>1. wire' = <<>>
    BY DEF CentreRestarts, Handover, Restart, Ends
  <2> QED  BY <2>1
<1>3. FaultsTyped'
  <2>1. faults < MaxFaults /\ faults' = faults + 1
    BY DEF CentreRestarts, Handover, Restart, Fault
  <2> QED  BY <1>1, <2>1, ConstantsAssumption DEF FaultsTyped
<1>4. Idle \in Handlers
  BY ConstantsAssumption DEF Idle, Handlers
<1>5. CASE CentreRestarts
  <2>1. CentreTyped' /\ WritersTyped' /\ HistoryTyped'
    BY <1>1, <1>4, <1>5 DEF CentreRestarts, CentreTyped, WritersTyped, HistoryTyped, history
  <2>2. reader' \in Readers
    BY <1>1, <1>5 DEF CentreRestarts, Readers
  <2> QED  BY <1>2, <1>3, <2>1, <2>2, TypePartsNext
<1>6. CASE Handover \/ Restart
  <2>1. /\ ended' = ended \cup Elements(outbox[Self])
        /\ outbox' = [outbox EXCEPT ![Self] = <<>>]
        /\ requests' = Abandoned(Self)
        /\ UNCHANGED <<written, seq, seqOf, handler, routed, skipped>>
        /\ restarted' \in {restarted, Len(routed)}
    BY <1>6 DEF Handover, Restart, Ends
  <2>2. CentreTyped'
    BY <1>1, <2>1, AbandonedIs DEF CentreTyped
  <2>3. WritersTyped'
    BY <1>1, <1>2, <2>1 DEF WritersTyped
  <2>4. Elements(outbox[Self]) \subseteq Messages
    BY <1>1, ConstantsAssumption, ElementsOf DEF WritersTyped
  <2>5. HistoryTyped'
    <3>1. Len(routed) \in Nat
      BY <1>1 DEF HistoryTyped
    <3> QED  BY <1>1, <2>1, <2>4, <3>1 DEF HistoryTyped
  <2>6. reader' \in Readers
    <3>1. Fresh(reader.held, FALSE) \in Readers /\ Fresh(0, TRUE) \in Readers
      BY <1>1, FreshIs DEF Readers
    <3> QED  BY <1>6, <3>1, SyncIs DEF Handover, Restart, Successor
  <2> QED  BY <1>2, <1>3, <2>2, <2>3, <2>5, <2>6, TypePartsNext
<1> QED  BY <1>5, <1>6

LEMMA TypeStep ==
  ASSUME SafetyInv, [Next]_vars
  PROVE  TypeOK'
<1>1. CASE \E w \in Writers : WriterStep(w)
  BY <1>1, WriterTyped
<1>2. CASE \E r \in requests : RequestStep(r) \/ PostFails(r) \/ AnnounceFails(r)
  BY <1>2, RequestsTyped
<1>3. CASE \E s \in Sockets : SocketAllocate(s) \/ SocketStep(s) \/ SocketFails(s)
  BY <1>3, SocketTyped
<1>4. CASE ReaderStep \/ Drop \/ GetFails \/ Hold
  BY <1>4, ReaderTyped
<1>5. CASE CentreRestarts \/ Handover \/ Restart
  BY <1>5, EndsTyped
<1>6. CASE UNCHANGED vars
  <2>1. TypeOK
    BY DEF SafetyInv
  <2> QED  BY <1>6, <2>1 DEF vars, centre, history, TypeOK
<1> QED  BY <1>1, <1>2, <1>3, <1>4, <1>5, <1>6 DEF Next, Disturbance

-----------------------------------------------------------------------------
(* What steps do to the numbers.                                           *)

\* The step of a handler that inserts gives its message its number.
LEMMA InsertNumbers ==
  ASSUME SafetyInv, NEW s \in Sockets, SocketInsert(s)
  PROVE  /\ s \in Storing
         /\ handler[s].msg \in Messages /\ handler[s].msg \notin Stored
         /\ handler[s].at \in 1..seq
         /\ DOMAIN seqOf' = Messages
         /\ seqOf'[handler[s].msg] = handler[s].at
         /\ \A m \in Messages \ {handler[s].msg} : seqOf'[m] = seqOf[m]
<1>1. s \in Storing /\ s \in Busy
  BY DEF SocketInsert, Storing, Busy
<1>2. /\ handler[s].msg \in 1..written /\ handler[s].at \in 1..seq
      /\ handler[s].msg \notin Stored
  BY <1>1 DEF SafetyInv, SocketsTrue
<1>3. written \in 0..NumMessages /\ seqOf \in [Messages -> 0..seq]
  BY DEF SafetyInv, TypeOK
<1>4. handler[s].msg \in Messages
  BY <1>2, <1>3, ConstantsAssumption DEF Messages
<1>5. seqOf' = [seqOf EXCEPT ![handler[s].msg] = handler[s].at]
  BY DEF SocketInsert
<1> QED  BY <1>1, <1>2, <1>3, <1>4, <1>5

LEMMA NumberSteps ==
  ASSUME [Next]_vars
  PROVE  \/ \E r \in requests : Commit(r)
         \/ \E s \in Sockets : SocketInsert(s)
         \/ \E s \in Sockets : SocketAllocate(s)
         \/ UNCHANGED <<seq, seqOf>>
<1>1. \A w \in Writers : WriterStep(w) => UNCHANGED <<seq, seqOf>>
  BY DEF WriterStep, Enqueue, Post, centre
<1>2. \A r \in requests : RequestStep(r) => Commit(r) \/ UNCHANGED <<seq, seqOf>>
  BY DEF RequestStep, Lookup, Clash, Announce, Respond
<1>3. \A s \in Sockets : SocketStep(s) => SocketInsert(s) \/ UNCHANGED <<seq, seqOf>>
  BY DEF SocketStep, SocketAnnounce
<1>4. ReaderStep => UNCHANGED <<seq, seqOf>>
  BY DEF ReaderStep, Connect, Live, Serve, Receive, Recover, Retry, Release, centre
<1>5. Disturbance => UNCHANGED <<seq, seqOf>>
  BY DEF Disturbance, PostFails, AnnounceFails, SocketFails, CentreRestarts, Drop, GetFails,
         Hold, Handover, Restart, centre
<1>6. UNCHANGED vars => UNCHANGED <<seq, seqOf>>
  BY DEF vars, centre
<1> QED  BY <1>1, <1>2, <1>3, <1>4, <1>5, <1>6 DEF Next

\* A stored message keeps its number, and no number is used twice.
LEMMA NumbersStep ==
  ASSUME SafetyInv, [Next]_vars
  PROVE  /\ seq \in Nat /\ seq' \in Nat /\ seq <= seq'
         /\ Stored \subseteq Stored'
         /\ \A m \in Stored : seqOf'[m] = seqOf[m]
         /\ Numbers \subseteq Numbers'
         /\ \A m, n \in Stored' : seqOf'[m] = seqOf'[n] => m = n
<1>1. /\ seq \in Nat /\ seqOf \in [Messages -> 0..seq] /\ Stored \subseteq Messages
      /\ \A m \in Messages : m \in Stored <=> seqOf[m] # 0
      /\ \A m \in Messages : m \in Stored' <=> seqOf'[m] # 0
      /\ Stored' \subseteq Messages
  BY DEF SafetyInv, TypeOK, Stored
<1>2. \A m, n \in Stored : seqOf[m] = seqOf[n] => m = n
  BY DEF SafetyInv, LogTrue
<1>3. seq' \in Nat
  BY TypeStep DEF TypeOK
<1>4. ASSUME \A m \in Stored : seqOf'[m] = seqOf[m], seq <= seq',
             \A m, n \in Stored' : seqOf'[m] = seqOf'[n] => m = n
      PROVE  /\ seq \in Nat /\ seq' \in Nat /\ seq <= seq'
             /\ Stored \subseteq Stored'
             /\ \A m \in Stored : seqOf'[m] = seqOf[m]
             /\ Numbers \subseteq Numbers'
             /\ \A m, n \in Stored' : seqOf'[m] = seqOf'[n] => m = n
  <2>1. Stored \subseteq Stored'
    BY <1>1, <1>4
  <2>2. Numbers \subseteq Numbers'
    BY <1>4, <2>1 DEF Numbers
  <2> QED  BY <1>1, <1>3, <1>4, <2>1, <2>2
<1>5. ASSUME NEW r \in requests, Commit(r)
      PROVE  /\ \A m \in Stored : seqOf'[m] = seqOf[m]
             /\ seq <= seq'
             /\ \A m, n \in Stored' : seqOf'[m] = seqOf'[n] => m = n
  <2> DEFINE new == Missing(r)
             p(m) == PlaceOf(new, m)
  <2>1. /\ Len(new) \in Nat /\ Elements(new) \cap Stored = {} /\ seq' = seq + Len(new)
        /\ \A m \in Messages \ Elements(new) : seqOf'[m] = seqOf[m]
        /\ \A m \in Elements(new) : /\ m \in Messages /\ seqOf'[m] = seq + p(m)
                                    /\ p(m) \in 1..Len(new) /\ new[p(m)] = m
    BY <1>5, CommitNumbers
  <2> HIDE DEF new, p
  <2>2. \A m \in Stored : seqOf'[m] = seqOf[m]
    BY <1>1, <2>1
  <2>3. ASSUME NEW m \in Stored', NEW n \in Stored', seqOf'[m] = seqOf'[n]
        PROVE  m = n
    <3>1. CASE m \in Elements(new) /\ n \in Elements(new)
      <4>1. p(m) = p(n)
        BY <1>1, <2>1, <2>3, <3>1
      <4> QED  BY <2>1, <3>1, <4>1
    <3>2. ASSUME NEW k \in Stored', k \notin Elements(new)
          PROVE  k \in Stored /\ seqOf'[k] = seqOf[k] /\ seqOf'[k] <= seq
      <4>1. k \in Messages /\ seqOf'[k] = seqOf[k]
        BY <1>1, <2>1, <3>2
      <4> QED  BY <1>1, <3>2, <4>1
    <3>3. ASSUME NEW k \in Elements(new)
          PROVE  seqOf'[k] \in Nat /\ seqOf'[k] > seq
      BY <1>1, <2>1
    <3>4. CASE m \notin Elements(new) /\ n \notin Elements(new)
      BY <1>2, <2>3, <3>2, <3>4
    <3>5. CASE m \in Elements(new) /\ n \notin Elements(new)
      BY <1>1, <2>3, <3>2, <3>3, <3>5
    <3>6. CASE m \notin Elements(new) /\ n \in Elements(new)
      BY <1>1, <2>3, <3>2, <3>3, <3>6
    <3> QED  BY <3>1, <3>4, <3>5, <3>6
  <2>4. seq <= seq'
    BY <1>1, <2>1
  <2> QED  BY <2>2, <2>3, <2>4
<1>6. ASSUME NEW s \in Sockets, SocketInsert(s)
      PROVE  /\ \A m \in Stored : seqOf'[m] = seqOf[m]
             /\ seq <= seq'
             /\ \A m, n \in Stored' : seqOf'[m] = seqOf'[n] => m = n
  <2> DEFINE k == handler[s].msg
             a == handler[s].at
  <2>1. /\ k \in Messages /\ k \notin Stored /\ a \in 1..seq
        /\ seqOf'[k] = a
        /\ \A m \in Messages \ {k} : seqOf'[m] = seqOf[m]
        /\ s \in Storing
    BY <1>6, InsertNumbers
  <2>2. \A m \in Stored : seqOf[m] # a
    BY <2>1 DEF SafetyInv, SocketsTrue, Numbers
  <2> HIDE DEF k, a
  <2>3. \A m \in Stored : seqOf'[m] = seqOf[m]
    BY <1>1, <2>1
  <2>4. \A m \in Stored' : m = k \/ (m \in Stored /\ seqOf'[m] = seqOf[m])
    BY <1>1, <2>1
  <2>5. \A m, n \in Stored' : seqOf'[m] = seqOf'[n] => m = n
    BY <1>2, <2>1, <2>2, <2>4
  <2>6. seq' = seq
    BY <1>6 DEF SocketInsert
  <2> QED  BY <1>1, <2>3, <2>5, <2>6
<1>7. ASSUME UNCHANGED seqOf, seq <= seq'
      PROVE  /\ \A m \in Stored : seqOf'[m] = seqOf[m]
             /\ seq <= seq'
             /\ \A m, n \in Stored' : seqOf'[m] = seqOf'[n] => m = n
  BY <1>1, <1>2, <1>7
<1>8. CASE \E s \in Sockets : SocketAllocate(s)
  <2>1. UNCHANGED seqOf /\ seq <= seq'
    BY <1>1, <1>8 DEF SocketAllocate
  <2> QED  BY <1>4, <1>7, <2>1
<1>9. CASE UNCHANGED <<seq, seqOf>>
  <2>1. UNCHANGED seqOf /\ seq <= seq'
    BY <1>1, <1>9
  <2> QED  BY <1>4, <1>7, <2>1
<1>10. CASE \E r \in requests : Commit(r)
  BY <1>4, <1>5, <1>10
<1>11. CASE \E s \in Sockets : SocketInsert(s)
  BY <1>4, <1>6, <1>11
<1> QED  BY <1>8, <1>9, <1>10, <1>11, NumberSteps

-----------------------------------------------------------------------------
(* Boxes and batches.                                                      *)

\* The steps that touch an outbox
LEMMA OutboxSteps ==
  ASSUME [Next]_vars
  PROVE  \/ \E w \in Writers : Enqueue(w)
         \/ \E r \in requests : Respond(r)
         \/ \E s \in Sockets : SocketAllocate(s)
         \/ Handover \/ Restart
         \/ UNCHANGED <<written, outbox>>
<1>1. \A w \in Writers : WriterStep(w) => Enqueue(w) \/ UNCHANGED <<written, outbox>>
  BY DEF WriterStep, Post
<1>2. \A r \in requests : RequestStep(r) => Respond(r) \/ UNCHANGED <<written, outbox>>
  BY DEF RequestStep, Lookup, Commit, Clash, Announce
<1>3. \A s \in Sockets : SocketStep(s) => UNCHANGED <<written, outbox>>
  BY DEF SocketStep, SocketInsert, SocketAnnounce
<1>4. ReaderStep => UNCHANGED <<written, outbox>>
  BY DEF ReaderStep, Connect, Live, Serve, Receive, Recover, Retry, Release
<1>5. Disturbance => Handover \/ Restart \/ UNCHANGED <<written, outbox>>
  BY DEF Disturbance, PostFails, AnnounceFails, SocketFails, CentreRestarts, Drop, GetFails,
         Hold
<1>6. UNCHANGED vars => UNCHANGED <<written, outbox>>
  BY DEF vars
<1> QED  BY <1>1, <1>2, <1>3, <1>4, <1>5, <1>6 DEF Next

\* What a new message does to the outbox that takes it
LEMMA Enqueued ==
  ASSUME SafetyInv, NEW w \in Writers, Enqueue(w)
  PROVE  /\ written' = written + 1 /\ written \in Nat /\ requests' = requests
         /\ \A v \in Writers : outbox'[v] = IF v = w THEN Append(outbox[w], written + 1)
                                            ELSE outbox[v]
         /\ outbox[w] \in Seq(Messages) /\ written + 1 \in Messages
         /\ Distinct(outbox'[w])
         /\ Elements(outbox'[w]) = Elements(outbox[w]) \cup {written + 1}
<1>1. /\ written \in 0..NumMessages /\ outbox \in [Writers -> Seq(Messages)]
      /\ Distinct(outbox[w]) /\ Elements(outbox[w]) \subseteq 1..written
  BY DEF SafetyInv, TypeOK, BoxesTrue
<1>2. /\ written' = written + 1 /\ requests' = requests
      /\ outbox' = [outbox EXCEPT ![w] = Append(@, written + 1)]
  BY DEF Enqueue, centre
<1>3. written \in Nat /\ written + 1 \in Messages /\ written + 1 \notin Elements(outbox[w])
  BY <1>1, ConstantsAssumption DEF Enqueue, Messages
<1>4. outbox'[w] = Append(outbox[w], written + 1)
  BY <1>1, <1>2
<1>5. Distinct(outbox'[w]) /\ Elements(outbox'[w]) = Elements(outbox[w]) \cup {written + 1}
  BY <1>1, <1>3, <1>4, ElementsOf
<1> QED  BY <1>1, <1>2, <1>3, <1>4, <1>5

LEMMA BoxesStep ==
  ASSUME SafetyInv, [Next]_vars
  PROVE  BoxesTrue'
<1>1. /\ \A w \in Writers : Elements(outbox[w]) \subseteq 1..written /\ Distinct(outbox[w])
      /\ \A v, w \in Writers :
           v # w => Elements(outbox[v]) \cap Elements(outbox[w]) = {}
      /\ written \in Nat /\ Self \in Writers
      /\ outbox \in [Writers -> Seq(Messages)]
  BY ConstantsAssumption DEF SafetyInv, TypeOK, BoxesTrue
<1>2. CASE \E w \in Writers : Enqueue(w)
  <2>1. PICK w \in Writers : Enqueue(w)
    BY <1>2
  <2>2. /\ written' = written + 1
        /\ \A v \in Writers : v # w => outbox'[v] = outbox[v]
        /\ Distinct(outbox'[w])
        /\ Elements(outbox'[w]) = Elements(outbox[w]) \cup {written + 1}
    BY <2>1, Enqueued
  <2>3. \A v \in Writers : /\ Distinct(outbox'[v])
                           /\ Elements(outbox'[v]) \subseteq 1..written'
                           /\ written + 1 \notin Elements(outbox[v])
    BY <1>1, <2>2
  <2>4. \A u, v \in Writers :
          u # v => Elements(outbox'[u]) \cap Elements(outbox'[v]) = {}
    BY <1>1, <2>2, <2>3
  <2> QED  BY <2>3, <2>4 DEF BoxesTrue
<1>3. CASE \E r \in requests : Respond(r)
  <2>1. \A w \in Writers : /\ Distinct(outbox'[w])
                           /\ Elements(outbox'[w]) \subseteq Elements(outbox[w])
    BY <1>3, RespondOutbox
  <2>2. written' = written
    BY <1>3 DEF Respond
  <2> QED  BY <1>1, <2>1, <2>2 DEF BoxesTrue
<1>4. CASE \E s \in Sockets : SocketAllocate(s)
  <2>1. written' = written + 1 /\ outbox' = outbox
    BY <1>4 DEF SocketAllocate
  <2>2. 1..written \subseteq 1..written'
    BY <1>1, <2>1
  <2> QED  BY <1>1, <2>1, <2>2 DEF BoxesTrue
<1>5. CASE Handover \/ Restart
  <2>1. written' = written /\ outbox' = [outbox EXCEPT ![Self] = <<>>]
    BY <1>5 DEF Handover, Restart, Ends
  <2>2. Elements(<<>>) = {} /\ Distinct(<<>>)
    BY DEF Elements, Distinct
  <2>3. \A w \in Writers : outbox'[w] = IF w = Self THEN <<>> ELSE outbox[w]
    BY <1>1, <2>1
  <2>4. \A w \in Writers : /\ Distinct(outbox'[w])
                           /\ Elements(outbox'[w]) \subseteq Elements(outbox[w])
    BY <1>1, <2>2, <2>3
  <2> QED  BY <1>1, <2>1, <2>4 DEF BoxesTrue
<1>6. CASE UNCHANGED <<written, outbox>>
  BY <1>1, <1>6 DEF BoxesTrue
<1> QED  BY <1>2, <1>3, <1>4, <1>5, <1>6, OutboxSteps

\* What a step for a request makes of it: it goes, or stays the request of the
\* same batch.
SameBatch(r, q) ==
  q.by = r.by /\ q.start = r.start /\ q.batch = r.batch /\ (q.awaited => r.awaited)

LEMMA RequestChanges ==
  ASSUME SafetyInv,
         NEW r \in requests, RequestStep(r) \/ PostFails(r) \/ AnnounceFails(r)
  PROVE  /\ \/ requests' = requests \ {r}
            \/ \E q : SameBatch(r, q) /\ requests' = (requests \ {r}) \cup {q}
         /\ UNCHANGED written
         /\ Respond(r) => requests' = requests \ {r}
         /\ ~Respond(r) => UNCHANGED outbox
         /\ UNCHANGED handler
<1>1. r \in Requests
  BY DEF SafetyInv, TypeOK
<1>2. CASE Clash(r) \/ Respond(r) \/ AnnounceFails(r)
  BY <1>2 DEF Clash, Respond, AnnounceFails
<1>3. CASE Lookup(r)
  <2> DEFINE q == [r EXCEPT !.stage = "read", !.known = Elements(r.batch) \cap Stored]
  <2>1. SameBatch(r, q)
    BY <1>1 DEF SameBatch, Requests
  <2> QED  BY <1>3, <2>1 DEF Lookup, Replace, Respond
<1>4. CASE Commit(r)
  <2> DEFINE q == [r EXCEPT !.stage = "stored", !.news = Missing(r)]
  <2>1. SameBatch(r, q)
    BY <1>1 DEF SameBatch, Requests
  <2> QED  BY <1>4, <2>1 DEF Commit, Replace, Respond
<1>5. CASE Announce(r)
  <2> DEFINE q == [r EXCEPT !.news = Tail(@)]
  <2>1. SameBatch(r, q)
    BY <1>1 DEF SameBatch, Requests
  <2> QED  BY <1>5, <2>1 DEF Announce, Replace, Respond
<1>6. CASE PostFails(r)
  <2> DEFINE q == [r EXCEPT !.awaited = FALSE]
  <2>1. SameBatch(r, q)
    BY <1>1 DEF SameBatch, Requests
  <2>2. requests' = requests \ {r} \/ requests' = (requests \ {r}) \cup {q}
    BY <1>6 DEF PostFails, Replace
  <2>3. UNCHANGED <<written, outbox, handler>>
    BY <1>6 DEF PostFails
  <2>4. CASE Respond(r)
    BY <2>3, <2>4 DEF Respond
  <2> QED  BY <2>1, <2>2, <2>3, <2>4
<1> QED  BY <1>2, <1>3, <1>4, <1>5, <1>6 DEF RequestStep

\* The steps that touch requests, an outbox or the count of messages
LEMMA BatchSteps ==
  ASSUME [Next]_vars
  PROVE  \/ \E w \in Writers : Enqueue(w) \/ Post(w)
         \/ \E r \in requests : RequestStep(r) \/ PostFails(r) \/ AnnounceFails(r)
         \/ \E s \in Sockets : SocketAllocate(s)
         \/ CentreRestarts \/ Handover \/ Restart
         \/ UNCHANGED <<written, outbox, requests>>
<1>1. \A s \in Sockets : SocketStep(s) => UNCHANGED <<written, outbox, requests>>
  BY DEF SocketStep, SocketInsert, SocketAnnounce
<1>2. ReaderStep => UNCHANGED <<written, outbox, requests>>
  BY DEF ReaderStep, Connect, Live, Serve, Receive, Recover, Retry, Release, centre
<1>3. (\E s \in Sockets : SocketFails(s)) \/ Drop \/ GetFails \/ Hold
        => UNCHANGED <<written, outbox, requests>>
  BY DEF SocketFails, Drop, GetFails, Hold, centre
<1>4. UNCHANGED vars => UNCHANGED <<written, outbox, requests>>
  BY DEF vars, centre
<1> QED  BY <1>1, <1>2, <1>3, <1>4 DEF Next, WriterStep, Disturbance

\* What a writer puts in a new request
Posted(w, q) ==
  /\ requests' = requests \cup {q} /\ UNCHANGED <<written, outbox>>
  /\ \A r \in requests : ~(r.by = w /\ r.awaited)
  /\ q.by = w /\ q.awaited
  /\ TakenFrom(outbox[w], q)
  /\ Elements(q.batch) \subseteq Elements(outbox[w]) /\ Distinct(q.batch)
  /\ q.known = {} /\ Elements(q.news) = {} /\ q.stage = "sent"

LEMMA PostIs ==
  ASSUME SafetyInv, NEW w \in Writers, Post(w)
  PROVE  \E q : Posted(w, q)
<1> DEFINE a == BatchStart(w)
           b == SubSeq(outbox[w], a + 1, Len(outbox[w]))
           q == [by |-> w, start |-> a, batch |-> b, stage |-> "sent", known |-> {},
                 news |-> <<>>, awaited |-> TRUE]
<1>1. outbox[w] \in Seq(Messages) /\ Distinct(outbox[w])
  BY DEF SafetyInv, TypeOK, BoxesTrue
<1>2. requests' = requests \cup {q} /\ UNCHANGED <<written, outbox>>
      /\ \A r \in requests : ~(r.by = w /\ r.awaited)
  BY DEF Post, Awaited
<1>3. /\ a \in 0..Len(outbox[w]) /\ b \in Seq(Messages)
      /\ Len(b) = Len(outbox[w]) - a
      /\ \A i \in 1..Len(b) : b[i] = outbox[w][a + i]
  BY BatchIs DEF SafetyInv
<1> HIDE DEF a, b
<1>4. Len(outbox[w]) \in Nat /\ DOMAIN outbox[w] = 1..Len(outbox[w])
      /\ DOMAIN b = 1..Len(b) /\ Len(b) \in Nat
  BY <1>1, <1>3
<1>5. \A i \in 1..Len(b) : a + i \in 1..Len(outbox[w])
  BY <1>3, <1>4
<1>6. Elements(b) \subseteq Elements(outbox[w])
  BY <1>3, <1>4, <1>5 DEF Elements
<1>7. Distinct(b)
  <2>1. ASSUME NEW i \in 1..Len(b), NEW j \in 1..Len(b), b[i] = b[j]
        PROVE  i = j
    <3>1. a + i = a + j
      BY <1>1, <1>3, <1>4, <1>5, <2>1 DEF Distinct
    <3> QED  BY <1>3, <3>1
  <2> QED  BY <1>4, <2>1 DEF Distinct
<1>8. TakenFrom(outbox[w], q)
  BY <1>3, <1>4 DEF TakenFrom
<1>9. /\ q.by = w /\ q.batch = b /\ q.awaited /\ q.known = {} /\ Elements(q.news) = {}
      /\ q.stage = "sent"
  BY DEF Elements
<1> HIDE DEF q
<1> QED  BY <1>2, <1>6, <1>7, <1>8, <1>9 DEF Posted

LEMMA BatchesStep ==
  ASSUME SafetyInv, [Next]_vars
  PROVE  BatchesTrue'
<1>1. /\ \A r \in requests : Elements(r.batch) \subseteq 1..written /\ Distinct(r.batch)
      /\ \A r, q \in requests : r.awaited /\ q.awaited /\ r.by = q.by => r = q
      /\ \A r \in requests : r.awaited => TakenFrom(outbox[r.by], r)
      /\ written \in Nat /\ Self \in Writers
      /\ outbox \in [Writers -> Seq(Messages)]
      /\ requests \subseteq Requests
      /\ \A r \in requests : /\ r.by \in Writers /\ r.start \in Nat /\ r.batch \in Seq(Messages)
                             /\ r.awaited \in BOOLEAN
  BY ConstantsAssumption DEF SafetyInv, TypeOK, BatchesTrue, Requests
<1>2. CASE \E w \in Writers : Enqueue(w)
  <2>1. PICK w \in Writers : Enqueue(w)
    BY <1>2
  <2>2. /\ written' = written + 1 /\ requests' = requests
        /\ \A v \in Writers : outbox'[v] = IF v = w THEN Append(outbox[w], written + 1)
                                           ELSE outbox[v]
        /\ outbox[w] \in Seq(Messages) /\ written + 1 \in Messages
    BY <2>1, Enqueued
  <2>3. ASSUME NEW r \in requests, r.awaited
        PROVE  TakenFrom(outbox'[r.by], r)
    <3>1. TakenFrom(outbox[r.by], r)
      BY <1>1, <2>3
    <3>2. CASE r.by = w
      <4> DEFINE box == outbox[w]
      <4>1. /\ Len(Append(box, written + 1)) = Len(box) + 1 /\ Len(box) \in Nat
            /\ \A i \in 1..Len(box) : Append(box, written + 1)[i] = box[i]
        BY <2>2
      <4>2. DOMAIN r.batch = 1..Len(r.batch) /\ Len(r.batch) \in Nat /\ r.start \in Nat
        BY <1>1
      <4>3. r.start + Len(r.batch) <= Len(box)
            /\ \A i \in 1..Len(r.batch) : r.batch[i] = box[r.start + i]
        BY <3>1, <3>2, <4>2 DEF TakenFrom
      <4>4. outbox'[r.by] = Append(box, written + 1)
        BY <2>2, <3>2
      <4> HIDE DEF box
      <4>5. \A i \in 1..Len(r.batch) : r.start + i \in 1..Len(box)
        BY <4>1, <4>2, <4>3
      <4> QED  BY <4>1, <4>2, <4>3, <4>4, <4>5 DEF TakenFrom
    <3>3. CASE r.by # w
      BY <1>1, <2>2, <3>1, <3>3
    <3> QED  BY <3>2, <3>3
  <2>4. 1..written \subseteq 1..written'
    BY <1>1, <2>2
  <2> QED  BY <1>1, <2>2, <2>3, <2>4 DEF BatchesTrue
<1>3. CASE \E w \in Writers : Post(w)
  <2>1. PICK w \in Writers : Post(w)
    BY <1>3
  <2>2. PICK q : Posted(w, q)
    BY <2>1, PostIs
  <2>3. Elements(q.batch) \subseteq 1..written
    BY <2>2 DEF Posted, SafetyInv, BoxesTrue
  <2> QED  BY <1>1, <2>2, <2>3 DEF BatchesTrue, Posted
<1>4. CASE \E r \in requests : RequestStep(r) \/ PostFails(r) \/ AnnounceFails(r)
  <2>1. PICK r \in requests : RequestStep(r) \/ PostFails(r) \/ AnnounceFails(r)
    BY <1>4
  <2>2. /\ \/ requests' = requests \ {r}
           \/ \E q : SameBatch(r, q) /\ requests' = (requests \ {r}) \cup {q}
        /\ UNCHANGED written
        /\ Respond(r) => requests' = requests \ {r}
        /\ ~Respond(r) => UNCHANGED outbox
    BY <2>1, RequestChanges
  <2>3. CASE Respond(r)
    <3>1. \A w \in Writers : outbox'[w] = outbox[w] \/ (w = r.by /\ r.awaited)
      BY <2>3, RespondOutbox
    <3>2. \A q \in requests' : q \in requests /\ q # r
      BY <2>2, <2>3
    <3>3. \A q \in requests' : q.awaited => TakenFrom(outbox'[q.by], q)
      BY <1>1, <3>1, <3>2
    <3> QED  BY <1>1, <2>2, <3>2, <3>3 DEF BatchesTrue
  <2>4. CASE ~Respond(r) /\ requests' = requests \ {r}
    BY <1>1, <2>2, <2>4 DEF BatchesTrue
  <2>5. CASE ~Respond(r) /\ \E q : SameBatch(r, q) /\ requests' = (requests \ {r}) \cup {q}
    <3>1. PICK q : SameBatch(r, q) /\ requests' = (requests \ {r}) \cup {q}
      BY <2>5
    <3>2. UNCHANGED <<written, outbox>>
      BY <2>2, <2>5
    <3>3. q.by = r.by /\ q.start = r.start /\ q.batch = r.batch /\ (q.awaited => r.awaited)
      BY <3>1 DEF SameBatch
    <3>4. q.awaited => TakenFrom(outbox[q.by], q)
      BY <1>1, <3>3 DEF TakenFrom
    <3> QED  BY <1>1, <3>1, <3>2, <3>3, <3>4 DEF BatchesTrue
  <2> QED  BY <2>2, <2>3, <2>4, <2>5
<1>5. CASE \E s \in Sockets : SocketAllocate(s)
  <2>1. written' = written + 1 /\ outbox' = outbox /\ requests' = requests
    BY <1>5 DEF SocketAllocate
  <2>2. 1..written \subseteq 1..written'
    BY <1>1, <2>1
  <2> QED  BY <1>1, <2>1, <2>2 DEF BatchesTrue
<1>6. CASE CentreRestarts
  BY <1>6 DEF CentreRestarts, BatchesTrue
<1>7. CASE Handover \/ Restart
  <2>1. /\ written' = written /\ outbox' = [outbox EXCEPT ![Self] = <<>>]
        /\ requests' = Abandoned(Self)
    BY <1>7 DEF Handover, Restart, Ends
  <2>2. \A q \in requests' :
          /\ (q.awaited => q.by # Self /\ q \in requests)
          /\ \E r \in requests : q.batch = r.batch
    BY <1>1, <2>1, AbandonedIs
  <2>3. \A q \in requests' : q.awaited => outbox'[q.by] = outbox[q.by]
    BY <1>1, <2>1, <2>2
  <2>4. \A q \in requests' : Elements(q.batch) \subseteq 1..written' /\ Distinct(q.batch)
    BY <1>1, <2>1, <2>2
  <2>5. \A r, q \in requests' : r.awaited /\ q.awaited /\ r.by = q.by => r = q
    BY <1>1, <2>2
  <2>6. \A r \in requests' : r.awaited => TakenFrom(outbox'[r.by], r)
    BY <1>1, <2>2, <2>3
  <2> QED  BY <2>4, <2>5, <2>6 DEF BatchesTrue
<1>8. CASE UNCHANGED <<written, outbox, requests>>
  BY <1>1, <1>8 DEF BatchesTrue
<1> QED  BY <1>2, <1>3, <1>4, <1>5, <1>6, <1>7, <1>8, BatchSteps

-----------------------------------------------------------------------------
(* Requests and sockets.                                                   *)

LEMMA RequestsStep ==
  ASSUME SafetyInv, [Next]_vars
  PROVE  RequestsTrue'
<1> DEFINE Fine(r, S) == /\ r.known \subseteq S /\ Elements(r.news) \subseteq S
                         /\ (r.stage = "stored" => Elements(r.batch) \subseteq S)
<1>1. /\ \A r \in requests : Fine(r, Stored)
      /\ requests \subseteq Requests
  BY DEF SafetyInv, TypeOK, RequestsTrue
<1>2. Stored \subseteq Stored'
  BY NumbersStep
<1>3. ASSUME \A q \in requests' : Fine(q, Stored) \/ Fine(q, Stored')
      PROVE  RequestsTrue'
  BY <1>2, <1>3 DEF RequestsTrue
<1>4. CASE \E w \in Writers : Enqueue(w)
  BY <1>1, <1>3, <1>4 DEF Enqueue, centre
<1>5. CASE \E w \in Writers : Post(w)
  <2>0. PICK w \in Writers : Post(w)
    BY <1>5
  <2>1. PICK q : Posted(w, q)
    BY <2>0, PostIs
  <2>2. requests' = requests \cup {q} /\ Fine(q, Stored)
    BY <2>1 DEF Posted
  <2> QED  BY <1>1, <1>3, <2>2
<1>6. CASE \E r \in requests : RequestStep(r) \/ PostFails(r) \/ AnnounceFails(r)
  <2>1. PICK r \in requests : RequestStep(r) \/ PostFails(r) \/ AnnounceFails(r)
    BY <1>6
  <2>2. r \in Requests /\ Fine(r, Stored) /\ r.news \in Seq(Messages)
    BY <1>1 DEF Requests
  <2>3. ASSUME NEW q, Fine(q, Stored) \/ Fine(q, Stored'), requests' = (requests \ {r}) \cup {q}
        PROVE  RequestsTrue'
    BY <1>1, <1>3, <2>3
  <2>4. CASE Clash(r) \/ Respond(r) \/ AnnounceFails(r)
    BY <1>1, <1>3, <2>4 DEF Clash, Respond, AnnounceFails
  <2>5. CASE Lookup(r)
    <3> DEFINE q == [r EXCEPT !.stage = "read", !.known = Elements(r.batch) \cap Stored]
    <3>1. q.known \subseteq Stored /\ q.news = r.news /\ q.stage = "read"
      BY <2>2 DEF Requests
    <3>2. requests' = (requests \ {r}) \cup {q}
      BY <2>5 DEF Lookup, Replace
    <3> HIDE DEF q
    <3>3. Fine(q, Stored)
      BY <2>2, <3>1
    <3> QED  BY <2>3, <3>2, <3>3
  <2>6. CASE Commit(r)
    <3> DEFINE q == [r EXCEPT !.stage = "stored", !.news = Missing(r)]
    <3>1. q.known = r.known /\ q.news = Missing(r) /\ q.batch = r.batch
      BY <2>2 DEF Requests
    <3>2. requests' = (requests \ {r}) \cup {q}
      BY <2>6 DEF Commit, Replace
    <3> HIDE DEF q
    <3>3. Elements(Missing(r)) \subseteq Stored'
      <4>1. seq \in Nat
        BY NumbersStep
      <4>2. \A m \in Elements(Missing(r)) :
              /\ m \in Messages /\ seqOf'[m] = seq + PlaceOf(Missing(r), m)
              /\ PlaceOf(Missing(r), m) \in 1..Len(Missing(r))
        BY <2>6, CommitNumbers
      <4>3. \A m \in Elements(Missing(r)) : seqOf'[m] # 0
        BY <4>1, <4>2
      <4> QED  BY <4>2, <4>3 DEF Stored
    <3>4. Elements(Missing(r)) = Elements(r.batch) \ r.known
      BY MissingIs
    <3>5. Fine(q, Stored')
      BY <1>2, <2>2, <3>1, <3>3, <3>4
    <3> QED  BY <2>3, <3>2, <3>5
  <2>7. CASE Announce(r)
    <3> DEFINE q == [r EXCEPT !.news = Tail(@)]
    <3>1. q.known = r.known /\ q.news = Tail(r.news) /\ q.batch = r.batch /\ q.stage = r.stage
      BY <2>2 DEF Requests
    <3>2. requests' = (requests \ {r}) \cup {q} /\ r.news # <<>>
      BY <2>7 DEF Announce, Replace
    <3> HIDE DEF q
    <3>3. Elements(Tail(r.news)) \subseteq Elements(r.news)
      BY <2>2, <3>2, ElementsOf
    <3>4. Fine(q, Stored)
      BY <2>2, <3>1, <3>3
    <3> QED  BY <2>3, <3>2, <3>4
  <2>8. CASE PostFails(r)
    <3> DEFINE q == [r EXCEPT !.awaited = FALSE]
    <3>1. q.known = r.known /\ q.news = r.news /\ q.batch = r.batch /\ q.stage = r.stage
      BY <2>2 DEF Requests
    <3>2. requests' = requests \ {r} \/ requests' = (requests \ {r}) \cup {q}
      BY <2>8 DEF PostFails, Replace
    <3> HIDE DEF q
    <3>3. Fine(q, Stored)
      BY <2>2, <3>1
    <3> QED  BY <1>1, <1>3, <2>3, <3>2, <3>3
  <2> QED  BY <2>1, <2>4, <2>5, <2>6, <2>7, <2>8 DEF RequestStep
<1>7. CASE \E s \in Sockets : SocketAllocate(s)
  BY <1>1, <1>3, <1>7 DEF SocketAllocate
<1>8. CASE CentreRestarts
  BY <1>3, <1>8 DEF CentreRestarts
<1>9. CASE Handover \/ Restart
  <2>1. requests' = Abandoned(Self)
    BY <1>9 DEF Handover, Restart, Ends
  <2>2. \A q \in requests' :
          \E r \in requests : /\ q.batch = r.batch /\ q.stage = r.stage
                              /\ q.known = r.known /\ q.news = r.news
    BY <1>1, <2>1, AbandonedIs
  <2>3. \A q \in requests' : Fine(q, Stored)
    BY <1>1, <2>2
  <2> QED  BY <1>3, <2>3
<1>10. CASE UNCHANGED <<written, outbox, requests>>
  BY <1>1, <1>3, <1>10
<1> QED  BY <1>4, <1>5, <1>6, <1>7, <1>8, <1>9, <1>10, BatchSteps

\* A message that has been written and travels over a socket does not come into
\* an outbox or a batch.
LEMMA OverHttpStep ==
  ASSUME SafetyInv, [Next]_vars
  PROVE  \A m \in 1..written : OverHttp(m)' => OverHttp(m)
<1>1. /\ requests \subseteq Requests /\ written \in Nat /\ Self \in Writers
      /\ outbox \in [Writers -> Seq(Messages)]
  BY ConstantsAssumption DEF SafetyInv, TypeOK
<1>2. ASSUME \A w \in Writers : \A m \in Elements(outbox'[w]) : m \in 1..written => OverHttp(m),
             \A q \in requests' : \A m \in Elements(q.batch) : OverHttp(m)
      PROVE  \A m \in 1..written : OverHttp(m)' => OverHttp(m)
  <2> SUFFICES ASSUME NEW m \in 1..written, OverHttp(m)' PROVE OverHttp(m)
    OBVIOUS
  <2>1. \/ \E w \in Writers : m \in Elements(outbox'[w])
        \/ \E q \in requests' : m \in Elements(q.batch)
    BY DEF OverHttp
  <2> QED  BY <1>2, <2>1
<1>3. /\ \A w \in Writers : \A m \in Elements(outbox[w]) : OverHttp(m)
      /\ \A r \in requests : \A m \in Elements(r.batch) : OverHttp(m)
  BY DEF OverHttp
<1>4. CASE \E w \in Writers : Enqueue(w)
  <2>1. PICK w \in Writers : Enqueue(w)
    BY <1>4
  <2>2. /\ requests' = requests
        /\ \A v \in Writers : v # w => outbox'[v] = outbox[v]
        /\ Elements(outbox'[w]) = Elements(outbox[w]) \cup {written + 1}
    BY <2>1, Enqueued
  <2>3. written + 1 \notin 1..written
    BY <1>1
  <2>4. \A v \in Writers : \A m \in Elements(outbox'[v]) : m \in 1..written => OverHttp(m)
    BY <1>3, <2>2, <2>3
  <2> QED  BY <1>2, <1>3, <2>2, <2>4
<1>5. CASE \E w \in Writers : Post(w)
  <2>0. PICK w \in Writers : Post(w)
    BY <1>5
  <2>1. PICK q : Posted(w, q)
    BY <2>0, PostIs
  <2>2. /\ requests' = requests \cup {q} /\ outbox' = outbox
        /\ Elements(q.batch) \subseteq Elements(outbox[w])
    BY <2>1 DEF Posted
  <2> QED  BY <1>2, <1>3, <2>2
<1>6. CASE \E r \in requests : RequestStep(r) \/ PostFails(r) \/ AnnounceFails(r)
  <2>1. PICK r \in requests : RequestStep(r) \/ PostFails(r) \/ AnnounceFails(r)
    BY <1>6
  <2>2. /\ \/ requests' = requests \ {r}
           \/ \E q : SameBatch(r, q) /\ requests' = (requests \ {r}) \cup {q}
        /\ ~Respond(r) => UNCHANGED outbox
    BY <2>1, RequestChanges
  <2>3. \A q \in requests' : \E p \in requests : q.batch = p.batch
    BY <2>2 DEF SameBatch
  <2>4. \A w \in Writers : Elements(outbox'[w]) \subseteq Elements(outbox[w])
    BY <2>2, RespondOutbox
  <2>5. \A q \in requests' : \A m \in Elements(q.batch) : OverHttp(m)
    BY <1>3, <2>3
  <2> QED  BY <1>2, <1>3, <2>4, <2>5
<1>7. CASE Handover \/ Restart
  <2>1. /\ outbox' = [outbox EXCEPT ![Self] = <<>>]
        /\ requests' = Abandoned(Self)
    BY <1>7 DEF Handover, Restart, Ends
  <2>2. \A q \in requests' : \E r \in requests : q.batch = r.batch
    BY <1>1, <2>1, AbandonedIs
  <2>3. \A q \in requests' : \A m \in Elements(q.batch) : OverHttp(m)
    BY <1>3, <2>2
  <2>4. \A w \in Writers : outbox'[w] = IF w = Self THEN <<>> ELSE outbox[w]
    BY <1>1, <2>1
  <2>5. Elements(<<>>) = {}
    BY DEF Elements
  <2> QED  BY <1>2, <1>3, <2>3, <2>4, <2>5
<1>8. CASE \/ \E s \in Sockets : SocketAllocate(s)
           \/ CentreRestarts
           \/ UNCHANGED <<written, outbox, requests>>
  <2>1. outbox' = outbox /\ requests' \subseteq requests
    BY <1>8 DEF SocketAllocate, CentreRestarts
  <2> QED  BY <1>2, <1>3, <2>1
<1> QED  BY <1>4, <1>5, <1>6, <1>7, <1>8, BatchSteps

LEMMA WrittenGrows ==
  ASSUME SafetyInv, [Next]_vars
  PROVE  written \in Nat /\ written' \in Nat /\ written <= written'
<1>1. written \in Nat
  BY DEF SafetyInv, TypeOK
<1>2. written' \in {written, written + 1}
  BY OutboxSteps DEF Enqueue, Respond, SocketAllocate, Handover, Restart
<1> QED  BY <1>1, <1>2

\* The steps that touch a handler, the counter or the numbers
LEMMA HandlerSteps ==
  ASSUME [Next]_vars
  PROVE  \/ \E r \in requests : Commit(r)
         \/ \E s \in Sockets : SocketAllocate(s) \/ SocketStep(s) \/ SocketFails(s)
         \/ CentreRestarts
         \/ UNCHANGED <<handler, seq, seqOf>>
<1>1. \A w \in Writers : WriterStep(w) => UNCHANGED <<handler, seq, seqOf>>
  BY DEF WriterStep, Enqueue, Post, centre
<1>2. \A r \in requests :
        RequestStep(r) => Commit(r) \/ UNCHANGED <<handler, seq, seqOf>>
  BY DEF RequestStep, Lookup, Clash, Announce, Respond
<1>3. ReaderStep => UNCHANGED <<handler, seq, seqOf>>
  BY DEF ReaderStep, Connect, Live, Serve, Receive, Recover, Retry, Release, centre
<1>4. Disturbance => \/ CentreRestarts \/ \E s \in Sockets : SocketFails(s)
                     \/ UNCHANGED <<handler, seq, seqOf>>
  BY DEF Disturbance, PostFails, AnnounceFails, Drop, GetFails, Hold, Handover, Restart,
         centre
<1>5. UNCHANGED vars => UNCHANGED <<handler, seq, seqOf>>
  BY DEF vars, centre
<1> QED  BY <1>1, <1>2, <1>3, <1>4, <1>5 DEF Next

LEMMA SocketsStep ==
  ASSUME SafetyInv, [Next]_vars
  PROVE  SocketsTrue'
<1> DEFINE BusyTrue(s) == /\ handler[s].msg \in 1..written /\ handler[s].at \in 1..seq
                          /\ handler[s].inserted => seqOf[handler[s].msg] = handler[s].at
           StoringTrue(s) == /\ handler[s].msg \notin Stored /\ handler[s].at \notin Numbers
                             /\ ~OverHttp(handler[s].msg)
           Apart(s, t) == handler[s].msg # handler[t].msg /\ handler[s].at # handler[t].at
<1>1. /\ \A s \in Busy : BusyTrue(s)
      /\ \A s \in Storing : StoringTrue(s)
      /\ \A s, t \in Storing : s # t => Apart(s, t)
  BY DEF SafetyInv, SocketsTrue
<1>2. /\ seq \in Nat /\ seq' \in Nat /\ seq <= seq'
      /\ Stored \subseteq Stored' /\ Numbers \subseteq Numbers'
      /\ \A m \in Stored : seqOf'[m] = seqOf[m]
  BY NumbersStep
<1>3. written \in Nat /\ written' \in Nat /\ written <= written'
  BY WrittenGrows
<1>4. \A m \in 1..written : OverHttp(m)' => OverHttp(m)
  BY OverHttpStep
<1>5. /\ handler \in [Sockets -> Handlers]
      /\ \A m \in Messages : m \in Stored <=> seqOf[m] # 0
      /\ \A m \in 1..written : m \in Messages
      /\ Stored \subseteq Messages
  BY ConstantsAssumption DEF SafetyInv, TypeOK, Stored, Messages
<1>6. ASSUME \A s \in Busy' : BusyTrue(s)', \A s \in Storing' : StoringTrue(s)',
             \A s, t \in Storing' : s # t => Apart(s, t)'
      PROVE  SocketsTrue'
  BY <1>6 DEF SocketsTrue
<1>7. \A s \in Busy : handler[s].inserted => handler[s].msg \in Stored
  BY <1>1, <1>5
<1>8. \A s \in Sockets : /\ s \in Busy <=> handler[s] # Idle
                         /\ s \in Busy' <=> handler'[s] # Idle
                         /\ s \in Storing <=> handler[s] # Idle /\ ~handler[s].inserted
                         /\ s \in Storing' <=> handler'[s] # Idle /\ ~handler'[s].inserted
  BY DEF Busy, Storing, Idle
<1>9. Busy \subseteq Sockets /\ Busy' \subseteq Sockets /\ Storing \subseteq Busy
      /\ Storing' \subseteq Busy'
  BY DEF Busy, Storing
<1>10. ASSUME NEW s \in Busy, handler'[s] = handler[s]
       PROVE  BusyTrue(s)'
  BY <1>1, <1>2, <1>3, <1>7, <1>10
<1>11. ASSUME NEW s \in Storing, handler'[s] = handler[s],
              handler[s].msg \notin Stored', handler[s].at \notin Numbers'
       PROVE  StoringTrue(s)'
  <2>1. ~OverHttp(handler[s].msg) /\ handler[s].msg \in 1..written
    BY <1>1, <1>9
  <2>2. /\ \A w \in Writers : handler[s].msg \notin Elements(outbox'[w])
        /\ \A r \in requests' : handler[s].msg \notin Elements(r.batch)
    BY <1>4, <2>1 DEF OverHttp
  <2>3. ~OverHttp(handler[s].msg)'
    BY <1>11, <2>2 DEF OverHttp
  <2> QED  BY <1>11, <2>3
<1>12. CASE \E r \in requests : Commit(r)
  <2>1. PICK r \in requests : Commit(r)
    BY <1>12
  <2> DEFINE new == Missing(r)
             p(m) == PlaceOf(new, m)
  <2>2. /\ Len(new) \in Nat /\ seq' = seq + Len(new)
        /\ \A m \in Messages \ Elements(new) : seqOf'[m] = seqOf[m]
        /\ \A m \in Elements(new) : m \in Messages /\ seqOf'[m] = seq + p(m)
                                    /\ p(m) \in 1..Len(new)
    BY <2>1, CommitNumbers
  <2>3. handler' = handler
    BY <2>1 DEF Commit
  <2>4. Elements(new) \subseteq Elements(r.batch)
    BY MissingIs
  <2> HIDE DEF new, p
  <2>5. Busy' = Busy /\ Storing' = Storing
    BY <2>3 DEF Busy, Storing
  <2>6. ASSUME NEW s \in Storing
        PROVE  handler[s].msg \notin Stored' /\ handler[s].at \notin Numbers'
    <3>1. handler[s].msg \notin Elements(new)
      BY <1>1, <2>1, <2>4 DEF OverHttp
    <3>2. handler[s].msg \in Messages /\ handler[s].msg \notin Stored /\ handler[s].at \in 1..seq
      BY <1>1, <1>5, <1>9
    <3>3. handler[s].msg \notin Stored'
      <4>1. seqOf'[handler[s].msg] = 0
        BY <1>5, <2>2, <3>1, <3>2
      <4> QED  BY <4>1 DEF Stored
    <3>4. ASSUME NEW m \in Stored', seqOf'[m] = handler[s].at
          PROVE  FALSE
      <4>1. m \in Messages /\ seqOf'[m] # 0
        BY DEF Stored
      <4>2. CASE m \in Elements(new)
        BY <1>2, <2>2, <3>2, <3>4, <4>2
      <4>3. CASE m \notin Elements(new)
        <5>1. seqOf[m] = handler[s].at /\ m \in Stored
          BY <1>5, <2>2, <3>4, <4>1, <4>3
        <5> QED  BY <1>1, <5>1 DEF Numbers
      <4> QED  BY <4>2, <4>3
    <3> QED  BY <3>3, <3>4 DEF Numbers
  <2>7. \A s \in Storing' : StoringTrue(s)'
    BY <1>11, <2>3, <2>5, <2>6
  <2>8. \A s \in Busy' : BusyTrue(s)'
    BY <1>10, <2>3, <2>5
  <2>9. \A s, t \in Storing' : s # t => Apart(s, t)'
    BY <1>1, <2>3, <2>5
  <2> QED  BY <1>6, <2>7, <2>8, <2>9
<1>13. CASE \E s \in Sockets : SocketAllocate(s)
  <2>1. PICK s \in Sockets : SocketAllocate(s)
    BY <1>13
  <2> DEFINE h == [msg |-> written + 1, at |-> seq + 1, inserted |-> FALSE]
  <2>2. /\ written' = written + 1 /\ seq' = seq + 1 /\ seqOf' = seqOf
        /\ handler' = [handler EXCEPT ![s] = h]
        /\ requests' = requests /\ outbox' = outbox
    BY <2>1 DEF SocketAllocate
  <2>3. handler'[s] = h /\ \A t \in Sockets : t # s => handler'[t] = handler[t]
    BY <1>5, <2>2
  <2>4. Stored' = Stored /\ Numbers' = Numbers
    BY <2>2 DEF Stored, Numbers
  <2>5. /\ h.msg = written + 1 /\ h.at = seq + 1 /\ h.inserted = FALSE /\ h # Idle
    <3>1. h.msg = written + 1 /\ h.at = seq + 1 /\ h.inserted = FALSE
      OBVIOUS
    <3>2. Idle.at = 0 /\ seq + 1 # 0
      BY <1>2 DEF Idle
    <3> QED  BY <3>1, <3>2
  <2> HIDE DEF h
  <2>6. h.msg \notin Stored /\ h.at \notin Numbers
    <3>1. Stored \subseteq 1..written /\ Numbers \subseteq 1..seq
      BY StoredFinite DEF SafetyInv, LogTrue
    <3> QED  BY <1>2, <1>3, <2>5, <3>1
  <2>7. /\ \A w \in Writers : h.msg \notin Elements(outbox'[w])
        /\ \A r \in requests' : h.msg \notin Elements(r.batch)
    <3>1. /\ \A w \in Writers : Elements(outbox[w]) \subseteq 1..written
          /\ \A r \in requests : Elements(r.batch) \subseteq 1..written
      BY DEF SafetyInv, BoxesTrue, BatchesTrue
    <3>2. h.msg \notin 1..written
      BY <1>3, <2>5
    <3> QED  BY <2>2, <3>1, <3>2
  <2>8. BusyTrue(s)' /\ StoringTrue(s)'
    <3>1. BusyTrue(s)'
      BY <1>2, <1>3, <2>2, <2>3, <2>5
    <3>2. ~OverHttp(handler[s].msg)'
      BY <2>3, <2>7 DEF OverHttp
    <3> QED  BY <2>3, <2>4, <2>6, <3>1, <3>2
  <2>9. ASSUME NEW t \in Storing', t # s
        PROVE  t \in Storing /\ handler'[t] = handler[t] /\ StoringTrue(t)' /\ Apart(s, t)'
    <3>1. handler'[t] = handler[t] /\ t \in Storing /\ t \in Busy
      BY <1>8, <1>9, <2>3, <2>9
    <3>2. StoringTrue(t)'
      BY <1>1, <1>11, <2>4, <3>1
    <3>3. handler[t].msg \in 1..written /\ handler[t].at \in 1..seq
      BY <1>1, <3>1
    <3> QED  BY <1>2, <1>3, <2>3, <2>5, <3>1, <3>2, <3>3
  <2>10. ASSUME NEW t \in Busy', t # s
         PROVE  BusyTrue(t)'
    <3>1. handler'[t] = handler[t] /\ t \in Busy
      BY <1>8, <1>9, <2>3, <2>10
    <3> QED  BY <1>10, <3>1
  <2>11. \A t, u \in Storing' : t # u => Apart(t, u)'
    <3> SUFFICES ASSUME NEW t \in Storing', NEW u \in Storing', t # u PROVE Apart(t, u)'
      OBVIOUS
    <3>1. CASE t = s
      BY <2>9, <3>1
    <3>2. CASE u = s
      <4>1. Apart(s, t)'
        BY <2>9, <3>2
      <4> QED  BY <3>2, <4>1
    <3>3. CASE t # s /\ u # s
      BY <1>1, <2>9, <3>3
    <3> QED  BY <3>1, <3>2, <3>3
  <2> QED  BY <1>6, <2>8, <2>9, <2>10, <2>11
<1>14. CASE \E s \in Sockets : SocketInsert(s)
  <2>1. PICK s \in Sockets : SocketInsert(s)
    BY <1>14
  <2> DEFINE k == handler[s].msg
             a == handler[s].at
  <2>2. /\ s \in Storing /\ k \in Messages /\ k \notin Stored
        /\ a \in 1..seq /\ seqOf'[k] = a
        /\ \A m \in Messages \ {k} : seqOf'[m] = seqOf[m]
    BY <2>1, InsertNumbers
  <2>3. handler' = [handler EXCEPT ![s] = [handler[s] EXCEPT !.inserted = TRUE]]
    BY <1>5, <2>1 DEF SocketInsert
  <2>4. /\ handler'[s].msg = k /\ handler'[s].at = a /\ handler'[s].inserted
        /\ \A t \in Sockets : t # s => handler'[t] = handler[t]
    <3>1. handler[s] \in Handlers
      BY <1>5
    <3>2. handler'[s] = [handler[s] EXCEPT !.inserted = TRUE]
          /\ \A t \in Sockets : t # s => handler'[t] = handler[t]
      BY <1>5, <2>3
    <3> QED  BY <3>1, <3>2 DEF Handlers
  <2> HIDE DEF k, a
  <2>5. BusyTrue(s)'
    <3>1. k \in 1..written /\ a \in 1..seq
      BY <1>1, <1>9, <2>2 DEF k, a
    <3> QED  BY <1>2, <1>3, <2>2, <2>4, <3>1
  <2>6. ASSUME NEW t \in Busy', t # s
        PROVE  BusyTrue(t)'
    <3>1. handler'[t] = handler[t] /\ t \in Busy
      BY <1>8, <1>9, <2>4, <2>6
    <3> QED  BY <1>10, <3>1
  <2>7. ASSUME NEW t \in Storing'
        PROVE  t \in Storing /\ handler'[t] = handler[t] /\ StoringTrue(t)'
    <3>1. t # s
      BY <1>8, <1>9, <2>4
    <3>2. handler'[t] = handler[t] /\ t \in Storing /\ t \in Busy
      BY <1>8, <1>9, <2>4, <3>1
    <3>3. handler[t].msg # k /\ handler[t].at # a
      BY <1>1, <2>2, <3>1, <3>2 DEF k, a
    <3>4. \A m \in Stored' : m \in Messages /\ (m = k \/ (m \in Stored /\ seqOf'[m] = seqOf[m]))
      BY <1>5, <2>2 DEF Stored
    <3>5. handler[t].msg \notin Stored'
      BY <1>1, <3>2, <3>3, <3>4
    <3>6. handler[t].at \notin Numbers'
      <4>1. \A m \in Stored : seqOf[m] # handler[t].at
        BY <1>1, <3>2 DEF Numbers
      <4>2. \A m \in Stored' : seqOf'[m] # handler[t].at
        BY <2>2, <3>3, <3>4, <4>1
      <4> QED  BY <4>2 DEF Numbers
    <3> QED  BY <1>11, <3>2, <3>5, <3>6
  <2>8. \A t, u \in Storing' : t # u => Apart(t, u)'
    BY <1>1, <2>7
  <2> QED  BY <1>6, <2>5, <2>6, <2>7, <2>8
<1>15. CASE \/ \E s \in Sockets : SocketAnnounce(s) \/ SocketFails(s)
            \/ CentreRestarts
            \/ UNCHANGED <<handler, seq, seqOf>>
  <2>1. /\ seqOf' = seqOf
        /\ \A s \in Sockets : handler'[s] \in {handler[s], Idle}
    BY <1>5, <1>15 DEF SocketAnnounce, SocketFails, CentreRestarts
  <2>2. Stored' = Stored /\ Numbers' = Numbers
    BY <2>1 DEF Stored, Numbers
  <2>3. \A s \in Busy' : s \in Busy /\ handler'[s] = handler[s]
    BY <1>8, <1>9, <2>1
  <2>4. \A s \in Storing' : s \in Storing /\ handler'[s] = handler[s]
    BY <1>8, <1>9, <2>3
  <2>5. \A s \in Busy' : BusyTrue(s)'
    BY <1>10, <2>3
  <2>6. \A s \in Storing' : StoringTrue(s)'
    BY <1>1, <1>11, <2>2, <2>4
  <2>7. \A s, t \in Storing' : s # t => Apart(s, t)'
    BY <1>1, <2>4
  <2> QED  BY <1>6, <2>5, <2>6, <2>7
<1> QED  BY <1>12, <1>13, <1>14, <1>15, HandlerSteps DEF SocketStep

-----------------------------------------------------------------------------
(* The log and its order.                                                  *)

\* Steps that do not move the reader
ReaderRests ==
  /\ reader'.page \in {reader.page, <<>>}
  /\ reader'.cursor = reader.cursor
  /\ reader'.paused = reader.paused /\ reader'.held = reader.held
  /\ UNCHANGED <<routed, restarted>>

LEMMA ReaderChanges ==
  ASSUME SafetyInv, [Next]_vars
  PROVE  \/ (Live \/ Serve \/ Receive \/ Release \/ Hold \/ Handover \/ Restart)
         \/ ReaderRests
<1>1. reader \in Readers
  BY DEF SafetyInv, TypeOK
<1>2. UNCHANGED <<reader, routed, restarted>> => ReaderRests
  BY DEF ReaderRests
<1>3. \A w \in Writers : WriterStep(w) => UNCHANGED <<reader, routed, restarted>>
  BY DEF WriterStep, Enqueue, Post, history
<1>4. ASSUME NEW r \in requests, RequestStep(r) \/ PostFails(r) \/ AnnounceFails(r)
      PROVE  ReaderRests
  <2>1. CASE Respond(r)
    BY <1>1, <2>1 DEF Respond, CursorAfterPost, ReaderRests, Readers, history
  <2>2. CASE ~Respond(r)
    BY <1>2, <1>4, <2>2 DEF RequestStep, Lookup, Commit, Clash, Announce, PostFails,
                            AnnounceFails, history
  <2> QED  BY <2>1, <2>2
<1>5. \A s \in Sockets : SocketAllocate(s) \/ SocketStep(s) \/ SocketFails(s)
                           => UNCHANGED <<reader, routed, restarted>>
  BY DEF SocketAllocate, SocketStep, SocketInsert, SocketAnnounce, SocketFails, history
<1>6. ASSUME NEW r \in Readers, SamePlace(r, reader'), UNCHANGED <<routed, restarted>>,
             r.page = reader.page, r.cursor = reader.cursor,
             r.paused = reader.paused, r.held = reader.held
      PROVE  ReaderRests
  BY <1>6 DEF SamePlace, ReaderRests
<1>7. CASE Connect
  <2> DEFINE r == [reader EXCEPT !.connected = TRUE]
  <2>1. /\ r \in Readers /\ r.page = reader.page /\ r.cursor = reader.cursor
        /\ r.paused = reader.paused /\ r.held = reader.held
    BY <1>1 DEF Readers
  <2>2. reader' = Invalidated(r) /\ UNCHANGED <<routed, restarted>>
    BY <1>7 DEF Connect, history
  <2> HIDE DEF r
  <2> QED  BY <1>6, <2>1, <2>2, SyncIs
<1>8. CASE Recover
  <2> DEFINE r == [reader EXCEPT !.recover = FALSE]
  <2>1. /\ r \in Readers /\ r.page = reader.page /\ r.cursor = reader.cursor
        /\ r.paused = reader.paused /\ r.held = reader.held
    BY <1>1 DEF Readers
  <2>2. reader' = Fetched(r) /\ UNCHANGED <<routed, restarted>>
    BY <1>8 DEF Recover, history
  <2> HIDE DEF r
  <2> QED  BY <1>6, <2>1, <2>2, SyncIs
<1>9. CASE Retry
  BY <1>1, <1>6, <1>9, SyncIs DEF Retry, history
<1>10. CASE Drop \/ GetFails \/ CentreRestarts
  BY <1>1, <1>10 DEF Drop, GetFails, CentreRestarts, ReaderRests, Readers, history
<1>11. CASE UNCHANGED vars
  BY <1>2, <1>11 DEF vars, history
<1> QED  BY <1>2, <1>3, <1>4, <1>5, <1>7, <1>8, <1>9, <1>10, <1>11
         DEF Next, ReaderStep, Disturbance

\* The steps in which an update is emitted or taken
LEMMA WireSteps ==
  ASSUME [Next]_vars
  PROVE  \/ wire' \in {wire, <<>>}
         \/ wire # <<>> /\ wire' = Tail(wire)
         \/ \E r \in requests : Announce(r)
         \/ \E s \in Sockets : SocketAnnounce(s)
<1>1. \A w \in Writers : WriterStep(w) => wire' = wire
  BY DEF WriterStep, Enqueue, Post
<1>2. \A r \in requests : RequestStep(r) => Announce(r) \/ wire' = wire
  BY DEF RequestStep, Lookup, Commit, Clash, Respond
<1>3. \A s \in Sockets : SocketAllocate(s) \/ SocketStep(s) => SocketAnnounce(s) \/ wire' = wire
  BY DEF SocketAllocate, SocketStep, SocketInsert
<1>4. ReaderStep => \/ wire' = wire
                    \/ wire # <<>> /\ wire' = Tail(wire)
  BY DEF ReaderStep, Connect, Live, Serve, Receive, Recover, Retry, Release
<1>5. Disturbance => wire' \in {wire, <<>>}
  BY DEF Disturbance, PostFails, AnnounceFails, SocketFails, CentreRestarts, Drop, GetFails,
         Hold, Handover, Restart, Ends
<1>6. UNCHANGED vars => wire' = wire
  BY DEF vars
<1> QED  BY <1>1, <1>2, <1>3, <1>4, <1>5, <1>6 DEF Next

\* A page is the first of the visible numbers behind where it was asked for.
LEMMA ServeIs ==
  ASSUME SafetyInv, Serve
  PROVE  LET S == Numbers \cap (reader.after + 1)..seq
             n == Len(reader'.page)
         IN  /\ S \in SUBSET Nat /\ IsFiniteSet(S)
             /\ reader'.page \in Seq(Nat)
             /\ n <= Cardinality(S)
             /\ \A i \in 1..n : reader'.page[i] = Ascending(S)[i]
             /\ Rising(reader'.page)
             /\ Elements(reader'.page) \subseteq S
             /\ reader'.phase = "answered"
             /\ reader'.cursor = reader.cursor /\ reader'.after = reader.after
             /\ reader'.paused = reader.paused /\ reader'.held = reader.held
             /\ reader'.skip = reader.skip /\ reader'.skipping = reader.skipping
<1> DEFINE S == Numbers \cap (reader.after + 1)..seq
           visible == Ascending(S)
           k == IF Len(visible) > PageSize THEN PageSize ELSE Len(visible)
           page == SubSeq(visible, 1, k)
<1>1. reader \in Readers /\ seq \in Nat
  BY DEF SafetyInv, TypeOK
<1>2. S \in SUBSET Nat /\ IsFiniteSet(S)
  <2>1. reader.after \in Nat
    BY <1>1 DEF Readers
  <2>2. reader.after + 1 \in Int /\ seq \in Int
    BY <1>1, <2>1
  <2>3. IsFiniteSet((reader.after + 1)..seq)
    BY <2>2, FS_Interval
  <2>4. (reader.after + 1)..seq \subseteq Nat
    BY <2>1
  <2>5. S \in SUBSET ((reader.after + 1)..seq)
    OBVIOUS
  <2> QED  BY <2>3, <2>4, <2>5, FS_Subset
<1>3. reader' = [reader EXCEPT !.phase = "answered", !.page = page,
                               !.more = Len(visible) > PageSize]
  BY DEF Serve, Numbers
<1>4. visible \in [1..Cardinality(S) -> S] /\ Cardinality(S) \in Nat /\ Rising(visible)
  BY <1>2, AscendingIs
<1> HIDE DEF visible, S
<1>5. visible \in Seq(S) /\ Len(visible) = Cardinality(S)
  BY <1>4, IsASeq
<1>6. k \in 0..Len(visible) /\ 1 \in 1..Len(visible) + 1 /\ 1 <= k + 1
  BY <1>4, <1>5, ConstantsAssumption
<1>7. /\ page \in Seq(S) /\ Len(page) = k - 1 + 1
      /\ \A j \in 1..k - 1 + 1 : page[j] = visible[1 + j - 1]
  BY ONLY <1>5, <1>6, PartOf
<1> HIDE DEF k, page
<1>8. /\ page \in Seq(S) /\ Len(page) = k /\ DOMAIN page = 1..k
      /\ \A j \in 1..k : page[j] = visible[j] /\ page[j] \in S
      /\ k \in Nat /\ k <= Cardinality(S)
  <2>1. Len(page) = k /\ k \in Nat /\ k <= Cardinality(S)
    BY <1>4, <1>5, <1>6, <1>7
  <2>2. \A j \in 1..k : page[j] = visible[j]
    BY <1>7, <2>1
  <2> QED  BY <1>7, <2>1, <2>2
<1>9. Rising(page)
  <2>1. \A i \in 1..k : i \in DOMAIN visible
    BY <1>4, <1>8
  <2> QED  BY <1>4, <1>8, <2>1 DEF Rising
<1>10. Elements(page) \subseteq S
  BY <1>8 DEF Elements
<1>11. page \in Seq(Nat)
  <2>1. \A j \in 1..k : page[j] \in Nat
    BY <1>2, <1>8
  <2> QED  BY <1>8, <2>1, IsASeq
<1>12. /\ reader'.page = page /\ reader'.phase = "answered"
       /\ reader'.cursor = reader.cursor /\ reader'.after = reader.after
       /\ reader'.paused = reader.paused /\ reader'.held = reader.held
       /\ reader'.skip = reader.skip /\ reader'.skipping = reader.skipping
  BY <1>1, <1>3 DEF Readers
<1> QED  BY <1>2, <1>8, <1>9, <1>10, <1>11, <1>12 DEF S, visible

\* A live update that is taken is the next number; all others leave the reader
\* where it was.
LEMMA LiveIs ==
  ASSUME SafetyInv, Live
  PROVE  \/ ReaderRests
         \/ LET n == Head(wire)
            IN  /\ n \in Numbers /\ n = reader.cursor + 1 /\ ~reader.paused
                /\ reader' = [reader EXCEPT !.cursor = n]
                /\ routed' = Append(routed, MessageAt(n))
                /\ MessageAt(n) \in Stored /\ seqOf[MessageAt(n)] = n
                /\ UNCHANGED <<skipped, restarted>>
<1>1. reader \in Readers /\ wire \in Seq(1..seq)
  BY DEF SafetyInv, TypeOK
<1>2. Head(wire) \in Numbers
  <2>1. wire # <<>>
    BY DEF Live
  <2>2. Head(wire) \in Elements(wire)
    BY <1>1, <2>1, ElementsOf
  <2> QED  BY <2>2 DEF SafetyInv, LogTrue
<1>3. MessageAt(Head(wire)) \in Stored /\ seqOf[MessageAt(Head(wire))] = Head(wire)
  BY <1>2, MessageAtIs
<1>4. CASE UNCHANGED <<reader, routed>>
  BY <1>4 DEF Live, ReaderRests
<1>5. CASE reader' = Invalidated(reader) /\ UNCHANGED routed
  <2>1. SamePlace(reader, reader')
    BY <1>1, <1>5, SyncIs
  <2> QED  BY <1>5, <2>1 DEF Live, ReaderRests, SamePlace
<1>6. CASE /\ ~reader.paused /\ Contiguous(Head(wire))
           /\ reader' = [reader EXCEPT !.cursor = Head(wire)]
           /\ routed' = Append(routed, MessageAt(Head(wire)))
  BY <1>2, <1>3, <1>6 DEF Live, Contiguous
<1> QED  BY <1>4, <1>5, <1>6 DEF Live

\* A page that is taken leaves the reader at the last number it had not claimed.
LEMMA ReceiveIs ==
  ASSUME SafetyInv, Receive
  PROVE  \/ ReaderRests /\ reader.paused /\ UNCHANGED skipped
         \/ LET new == Unclaimed(reader)
                msgs == [i \in DOMAIN new |-> MessageAt(new[i])]
            IN  /\ ~reader.paused /\ reader' = AfterPage(reader)
                /\ \/ /\ reader.skipping
                      /\ skipped' = skipped \cup Elements(msgs) /\ UNCHANGED routed
                   \/ ~reader.skipping /\ routed' = routed \o msgs /\ UNCHANGED skipped
                /\ UNCHANGED restarted
<1>1. reader \in Readers
  BY DEF SafetyInv, TypeOK
<1>2. CASE reader.paused
  <2> DEFINE r == [reader EXCEPT !.page = <<>>]
  <2>1. <<>> \in Seq(Nat)
    OBVIOUS
  <2>2. /\ r \in Readers /\ r.page = <<>> /\ r.cursor = reader.cursor
        /\ r.paused = reader.paused /\ r.held = reader.held
    BY <1>1, <2>1 DEF Readers
  <2>3. reader' = Fetched(r) /\ UNCHANGED <<routed, restarted, skipped>>
    BY <1>2 DEF Receive, history
  <2> HIDE DEF r
  <2>4. SamePlace(r, reader')
    BY <2>2, <2>3, SyncIs
  <2> QED  BY <1>2, <2>2, <2>3, <2>4 DEF SamePlace, ReaderRests
<1>3. CASE ~reader.paused
  BY <1>3 DEF Receive
<1> QED  BY <1>2, <1>3

\* Steps that leave the reader at the same number, whether or not it is held there
ReaderStays ==
  /\ reader'.page \in {reader.page, <<>>}
  /\ reader'.cursor = reader.cursor
  /\ reader'.paused => reader'.held = reader'.cursor
  /\ UNCHANGED <<routed, restarted>>

\* The reader stays, is handed a page, takes an update or a page, or begins again.
LEMMA PlaceSteps ==
  ASSUME SafetyInv, [Next]_vars
  PROVE  \/ ReaderStays
         \/ Serve
         \/ Live /\ ~ReaderRests
         \/ Receive /\ ~ReaderRests
         \/ /\ Restart
            /\ reader'.page = <<>> /\ ~reader'.paused /\ reader'.cursor = 0
            /\ routed' = routed /\ restarted' = Len(routed)
<1>1. reader \in Readers /\ (reader.paused => reader.held = reader.cursor)
  BY DEF SafetyInv, TypeOK, OrderTrue
<1>2. CASE ReaderRests
  BY <1>1, <1>2 DEF ReaderRests, ReaderStays
<1>3. CASE Hold
  BY <1>1, <1>3 DEF Hold, ReaderStays, Readers, history
<1>4. CASE Release
  <2> DEFINE r == [reader EXCEPT !.paused = FALSE, !.skip = FALSE, !.cursor = reader.held]
  <2>1. /\ r \in Readers /\ r.page = reader.page /\ r.cursor = reader.cursor /\ ~r.paused
    BY <1>1, <1>4 DEF Readers, Release
  <2>2. reader' = Invalidated(r) /\ UNCHANGED <<routed, restarted>>
    BY <1>4 DEF Release, history
  <2> HIDE DEF r
  <2>3. SamePlace(r, reader')
    BY <2>1, <2>2, SyncIs
  <2> QED  BY <2>1, <2>2, <2>3 DEF SamePlace, ReaderStays
<1>5. CASE Handover
  <2> DEFINE r == Fresh(reader.held, FALSE)
  <2>1. reader.held \in Nat /\ reader.held = reader.cursor
    BY <1>1, <1>5 DEF Readers, Handover
  <2>2. r \in Readers /\ r.page = <<>> /\ r.cursor = reader.cursor /\ ~r.paused
    BY <2>1, FreshIs
  <2>3. reader' = Invalidated(r) /\ UNCHANGED <<routed, restarted>>
    BY <1>5 DEF Handover, Successor
  <2> HIDE DEF r
  <2>4. SamePlace(r, reader')
    BY <2>2, <2>3, SyncIs
  <2> QED  BY <2>2, <2>3, <2>4 DEF SamePlace, ReaderStays
<1>6. CASE Restart
  <2>1. reader' = Fresh(0, TRUE) /\ routed' = routed /\ restarted' = Len(routed)
    BY <1>6 DEF Restart
  <2> QED  BY <1>6, <2>1, FreshIs
<1> QED  BY <1>2, <1>3, <1>4, <1>5, <1>6, ReaderChanges

\* Only messages that have been written are stored.
LEMMA StoredStep ==
  ASSUME SafetyInv, [Next]_vars
  PROVE  Stored' \subseteq 1..written'
<1>1. Stored \subseteq 1..written /\ written \in Nat /\ written' \in Nat /\ written <= written'
  BY WrittenGrows DEF SafetyInv, LogTrue
<1>2. /\ \A m \in Messages : m \in Stored <=> seqOf[m] # 0
      /\ Stored' = {m \in Messages : seqOf'[m] # 0}
  BY DEF Stored
<1>3. ASSUME NEW X, X \subseteq 1..written,
             \A m \in Messages : m \in X \/ seqOf'[m] = seqOf[m]
      PROVE  Stored' \subseteq 1..written'
  <2>1. 1..written \subseteq 1..written'
    BY <1>1
  <2>2. \A m \in Stored' : m \in 1..written
    BY <1>1, <1>2, <1>3
  <2> QED  BY <2>1, <2>2
<1>4. CASE \E r \in requests : Commit(r)
  <2>1. PICK r \in requests : Commit(r)
    BY <1>4
  <2>2. Elements(Missing(r)) \subseteq 1..written
    BY MissingIs DEF SafetyInv, BatchesTrue
  <2>3. \A m \in Messages \ Elements(Missing(r)) : seqOf'[m] = seqOf[m]
    BY <2>1, CommitNumbers
  <2> QED  BY <1>3, <2>2, <2>3
<1>5. CASE \E s \in Sockets : SocketInsert(s)
  <2>1. PICK s \in Sockets : SocketInsert(s)
    BY <1>5
  <2>2. /\ s \in Storing /\ s \in Busy
        /\ \A m \in Messages \ {handler[s].msg} : seqOf'[m] = seqOf[m]
    BY <2>1, InsertNumbers DEF Storing
  <2>3. handler[s].msg \in 1..written
    BY <2>2 DEF SafetyInv, SocketsTrue
  <2> DEFINE X == {handler[s].msg}
  <2>4. X \subseteq 1..written
    BY <2>3
  <2>5. \A m \in Messages : m \in X \/ seqOf'[m] = seqOf[m]
    BY <2>2
  <2> HIDE DEF X
  <2> QED  BY <1>3, <2>4, <2>5
<1>6. CASE (\E s \in Sockets : SocketAllocate(s)) \/ UNCHANGED <<seq, seqOf>>
  <2>1. seqOf' = seqOf
    BY <1>6 DEF SocketAllocate
  <2>2. {} \subseteq 1..written
    OBVIOUS
  <2> QED  BY <1>3, <2>1, <2>2
<1> QED  BY <1>4, <1>5, <1>6, NumberSteps

\* Only numbers in use are on their way.
LEMMA WireStep ==
  ASSUME SafetyInv, [Next]_vars
  PROVE  Elements(wire') \subseteq Numbers'
<1>1. /\ wire \in Seq(1..seq) /\ Elements(wire) \subseteq Numbers /\ Numbers \subseteq Numbers'
  BY NumbersStep DEF SafetyInv, TypeOK, LogTrue
<1>2. CASE wire' \in {wire, <<>>} \/ (wire # <<>> /\ wire' = Tail(wire))
  <2>1. Elements(wire') \subseteq Elements(wire)
    BY <1>1, <1>2, ElementsOf
  <2> QED  BY <1>1, <2>1
<1>3. CASE \E r \in requests : Announce(r)
  <2>1. PICK r \in requests : Announce(r)
    BY <1>3
  <2>2. r.news # <<>> /\ Emit(seqOf[Head(r.news)])
    BY <2>1 DEF Announce
  <2>3. r.news \in Seq(Messages) /\ Elements(r.news) \subseteq Stored
    BY DEF SafetyInv, TypeOK, Requests, RequestsTrue
  <2>4. Head(r.news) \in Elements(r.news)
    BY <2>2, <2>3, ElementsOf
  <2>5. seqOf[Head(r.news)] \in Numbers
    BY <2>3, <2>4 DEF Numbers
  <2> QED  BY <1>1, <2>2, <2>5, EmitIs
<1>4. CASE \E s \in Sockets : SocketAnnounce(s)
  <2>1. PICK s \in Sockets : SocketAnnounce(s)
    BY <1>4
  <2>2. handler[s].inserted /\ Emit(handler[s].at)
    BY <2>1 DEF SocketAnnounce
  <2>3. s \in Busy
    BY <2>2 DEF Busy, Idle
  <2>4. /\ handler[s].msg \in 1..written /\ seqOf[handler[s].msg] = handler[s].at
        /\ handler[s].at \in 1..seq /\ written \in 0..NumMessages /\ seq \in Nat
    BY <2>2, <2>3 DEF SafetyInv, SocketsTrue, TypeOK
  <2>5. handler[s].msg \in Stored
    BY <2>4, ConstantsAssumption DEF Stored, Messages
  <2>6. handler[s].at \in Numbers
    BY <2>4, <2>5 DEF Numbers
  <2> QED  BY <1>1, <2>2, <2>6, EmitIs
<1> QED  BY <1>2, <1>3, <1>4, WireSteps

\* Only numbers in use are in a page, and only messages that were stored before are
\* routed.
LEMMA RoutedStored ==
  ASSUME SafetyInv, [Next]_vars
  PROVE  Elements(reader'.page) \subseteq Numbers /\ Elements(routed') \subseteq Stored
<1>1. /\ Elements(reader.page) \subseteq Numbers /\ Numbers \subseteq Numbers'
      /\ Elements(routed) \subseteq Stored /\ Stored \subseteq Stored'
      /\ routed \in Seq(Messages) /\ reader \in Readers
  BY NumbersStep DEF SafetyInv, TypeOK, LogTrue
<1>2. Elements(<<>>) = {}
  BY DEF Elements
<1>3. CASE ReaderStays
  BY <1>1, <1>2, <1>3 DEF ReaderStays
<1>4. CASE Serve
  <2>1. Elements(reader'.page) \subseteq Numbers
    BY <1>4, ServeIs
  <2>2. routed' = routed
    BY <1>4 DEF Serve, history
  <2> QED  BY <1>1, <2>1, <2>2
<1>5. CASE Live /\ ~ReaderRests
  <2>1. /\ reader' = [reader EXCEPT !.cursor = Head(wire)]
        /\ routed' = Append(routed, MessageAt(Head(wire)))
        /\ MessageAt(Head(wire)) \in Stored
    BY <1>5, LiveIs
  <2>2. reader'.page = reader.page
    BY <1>1, <2>1 DEF Readers
  <2>3. Elements(routed') = Elements(routed) \cup {MessageAt(Head(wire))}
    BY <1>1, <2>1, ElementsOf DEF Stored
  <2> QED  BY <1>1, <2>1, <2>2, <2>3
<1>6. CASE Receive /\ ~ReaderRests
  <2> DEFINE new == Unclaimed(reader)
             msgs == [i \in DOMAIN new |-> MessageAt(new[i])]
  <2>1. reader' = AfterPage(reader) /\ routed' \in {routed, routed \o msgs}
    BY <1>6, ReceiveIs
  <2>2. msgs \in Seq(Messages) /\ Elements(msgs) \subseteq Stored
    BY UnclaimedUsed, MessagesOf
  <2> HIDE DEF msgs
  <2>3. Elements(routed \o msgs) \subseteq Elements(routed) \cup Elements(msgs)
    BY <1>1, <2>2, ConcatElements
  <2>4. reader'.page = <<>>
    BY <1>1, <2>1, AfterPageIs
  <2> QED  BY <1>1, <1>2, <2>1, <2>2, <2>3, <2>4
<1>7. CASE reader'.page = <<>> /\ routed' = routed
  BY <1>1, <1>2, <1>7
<1> QED  BY <1>3, <1>4, <1>5, <1>6, <1>7, PlaceSteps

\* Nobody announces, hands out or routes what is not stored.
LEMMA LogStep ==
  ASSUME SafetyInv, [Next]_vars
  PROVE  LogTrue'
<1>1. Numbers \subseteq Numbers' /\ Stored \subseteq Stored'
  BY NumbersStep
<1>2. Elements(reader'.page) \subseteq Numbers /\ Elements(routed') \subseteq Stored
  BY RoutedStored
<1>3. \A m, n \in Stored' : seqOf'[m] = seqOf'[n] => m = n
  BY NumbersStep
<1> QED  BY <1>1, <1>2, <1>3, StoredStep, WireStep DEF LogTrue

\* What is routed next has numbers beyond the cursor, and in order.
LEMMA RoutedFurther ==
  ASSUME SafetyInv, NEW msgs \in Seq(Messages), NEW c \in Nat, reader.cursor <= c,
         \A i \in 1..Len(msgs) : reader.cursor < seqOf[msgs[i]] /\ seqOf[msgs[i]] <= c,
         \A i, j \in 1..Len(msgs) : i < j => seqOf[msgs[i]] < seqOf[msgs[j]]
  PROVE  LET q == routed \o msgs
         IN  /\ \A i \in restarted + 1..Len(q) : seqOf[q[i]] <= c
             /\ \A i, j \in DOMAIN q : restarted < i /\ i < j => seqOf[q[i]] < seqOf[q[j]]
<1> DEFINE q == routed \o msgs
           n == Len(routed)
           k == Len(msgs)
           num(i) == seqOf[q[i]]
<1>1. /\ routed \in Seq(Messages) /\ restarted \in 0..n /\ n \in Nat /\ k \in Nat
      /\ reader.cursor \in Nat /\ seqOf \in [Messages -> 0..seq] /\ seq \in Nat
      /\ DOMAIN routed = 1..n
  BY DEF SafetyInv, TypeOK, Readers
<1>2. /\ \A i \in restarted + 1..n : seqOf[routed[i]] <= reader.cursor
      /\ \A i, j \in 1..n : restarted < i /\ i < j => seqOf[routed[i]] < seqOf[routed[j]]
  BY <1>1 DEF SafetyInv, OrderTrue, RoutedInOrder
<1>3. /\ DOMAIN q = 1..n + k /\ q \in Seq(Messages)
      /\ \A i \in 1..n : q[i] = routed[i]
      /\ \A i \in n + 1..n + k : q[i] = msgs[i - n] /\ i - n \in 1..k
  BY <1>1, ConcatElements
<1>4. Len(q) = n + k
  BY <1>1, <1>3, ConcatProperties
<1> HIDE DEF q, n, k
<1>5. \A i \in 1..n + k : seqOf[q[i]] \in Nat
  BY <1>1, <1>3, <1>4
<1>6. \A i \in n + 1..n + k : reader.cursor < num(i) /\ num(i) <= c
  BY <1>3 DEF k
<1>7. \A i \in restarted + 1..n + k : num(i) <= c
  <2> TAKE i \in restarted + 1..n + k
  <2>1. CASE i \in restarted + 1..n
    <3>1. i \in 1..n /\ i \in 1..n + k
      BY <1>1, <2>1
    <3>2. num(i) <= reader.cursor /\ num(i) \in Nat
      BY <1>2, <1>3, <1>5, <2>1, <3>1
    <3> QED  BY <1>1, <3>2
  <2>2. CASE i \in n + 1..n + k
    BY <1>6, <2>2
  <2> QED  BY <1>1, <2>1, <2>2
<1>8. ASSUME NEW i \in 1..n + k, NEW j \in 1..n + k, restarted < i, i < j
      PROVE  num(i) < num(j)
  <2>1. CASE j \in 1..n
    <3>1. i \in 1..n
      BY <1>1, <1>8, <2>1
    <3> QED  BY <1>2, <1>3, <1>8, <2>1, <3>1
  <2>2. CASE i \in 1..n /\ j \in n + 1..n + k
    <3>1. i \in restarted + 1..n
      BY <1>1, <1>8, <2>2
    <3>2. num(i) <= reader.cursor /\ reader.cursor < num(j)
      BY <1>2, <1>3, <1>6, <2>2, <3>1
    <3> QED  BY <1>1, <1>5, <3>2
  <2>3. CASE i \in n + 1..n + k /\ j \in n + 1..n + k
    <3>1. i - n \in 1..k /\ j - n \in 1..k /\ i - n < j - n
      BY <1>1, <1>3, <1>8, <2>3
    <3>2. seqOf[msgs[i - n]] < seqOf[msgs[j - n]]
      BY <3>1 DEF k
    <3> QED  BY <1>3, <2>3, <3>2
  <2>4. /\ i \in 1..n \/ i \in n + 1..n + k
        /\ j \in 1..n \/ j \in n + 1..n + k
    BY <1>1
  <2>5. i \in n + 1..n + k => j \in n + 1..n + k
    BY <1>1, <1>8
  <2> QED  BY <2>1, <2>2, <2>3, <2>4, <2>5
<1> QED  BY <1>3, <1>4, <1>7, <1>8 DEF q

\* The messages of a page that is taken, in the order of their numbers
LEMMA PageTaken ==
  ASSUME SafetyInv
  PROVE  LET new == Unclaimed(reader)
             msgs == [i \in DOMAIN new |-> MessageAt(new[i])]
             c == AfterPage(reader).cursor
         IN  /\ msgs \in Seq(Messages) /\ c \in Nat /\ reader.cursor <= c
             /\ \A i \in 1..Len(msgs) : reader.cursor < seqOf[msgs[i]] /\ seqOf[msgs[i]] <= c
             /\ \A i, j \in 1..Len(msgs) : i < j => seqOf[msgs[i]] < seqOf[msgs[j]]
<1> DEFINE new == Unclaimed(reader)
           msgs == [i \in DOMAIN new |-> MessageAt(new[i])]
           c == AfterPage(reader).cursor
<1>1. /\ reader \in Readers /\ new \in Seq(Nat) /\ Elements(new) \subseteq Numbers
      /\ Rising(new) /\ \A n \in Elements(new) : n > reader.cursor
  BY UnclaimedUsed, UnclaimedIs DEF SafetyInv, OrderTrue
<1>2. msgs \in Seq(Messages) /\ Len(msgs) = Len(new)
      /\ \A i \in 1..Len(new) : seqOf[msgs[i]] = new[i]
  BY <1>1, MessagesOf
<1>3. c = LastOf(new, reader.cursor) /\ reader.cursor \in Nat
  BY <1>1, AfterPageIs DEF Readers
<1>4. /\ c \in Nat /\ (c = reader.cursor \/ c \in Elements(new))
      /\ \A k \in Elements(new) : k <= c
  BY <1>1, <1>3, LastIs
<1>5. \A i \in 1..Len(new) : new[i] \in Elements(new)
  BY <1>1 DEF Elements
<1>6. \A i, j \in 1..Len(new) : i < j => new[i] < new[j]
  BY <1>1 DEF Rising
<1> HIDE DEF new, msgs, c
<1>7. reader.cursor <= c
  BY <1>1, <1>3, <1>4
<1>8. \A i \in 1..Len(msgs) : reader.cursor < seqOf[msgs[i]] /\ seqOf[msgs[i]] <= c
  BY <1>1, <1>2, <1>4, <1>5
<1>9. \A i, j \in 1..Len(msgs) : i < j => seqOf[msgs[i]] < seqOf[msgs[j]]
  BY <1>2, <1>6
<1> QED  BY <1>2, <1>4, <1>7, <1>8, <1>9 DEF new, msgs, c

\* What is routed stays in order and not beyond the cursor.
LEMMA OrderStep ==
  ASSUME SafetyInv, [Next]_vars
  PROVE  OrderTrue'
<1> DEFINE Ordered(q, d, c) ==
             /\ \A i \in d + 1..Len(q) : seqOf[q[i]] <= c
             /\ \A i, j \in DOMAIN q : d < i /\ i < j => seqOf[q[i]] < seqOf[q[j]]
           Fine == /\ Rising(reader'.page)
                   /\ reader'.paused => reader'.held = reader'.cursor
                   /\ Ordered(routed', restarted', reader'.cursor)
<1>1. /\ Rising(reader.page) /\ (reader.paused => reader.held = reader.cursor)
      /\ Ordered(routed, restarted, reader.cursor)
      /\ routed \in Seq(Messages) /\ reader \in Readers /\ restarted \in 0..Len(routed)
  BY DEF SafetyInv, TypeOK, OrderTrue, RoutedInOrder
<1>2. Rising(<<>>)
  BY DEF Rising
<1>3. ASSUME Fine PROVE OrderTrue'
  <2>1. routed' \in Seq(Messages) /\ restarted' \in 0..Len(routed')
    BY TypeStep DEF TypeOK
  <2>2. \A i \in 1..Len(routed') : routed'[i] \in Stored
    BY <2>1, RoutedStored DEF Elements
  <2>3. \A i \in 1..Len(routed') : seqOf'[routed'[i]] = seqOf[routed'[i]]
    BY <2>2, NumbersStep
  <2>d. DOMAIN routed' = 1..Len(routed') /\ Len(routed') \in Nat /\ restarted' \in Nat
    BY <2>1
  <2>e. \A i \in restarted' + 1..Len(routed') : i \in 1..Len(routed')
    <3> DEFINE n == Len(routed')
               d == restarted'
    <3>1. n \in Nat /\ d \in Nat
      BY <2>d
    <3> HIDE DEF n, d
    <3>2. \A i \in d + 1..n : i \in 1..n
      BY ONLY <3>1
    <3> QED  BY <3>2 DEF n, d
  <2>4. DOMAIN routed' = 1..Len(routed')
        /\ \A i \in restarted' + 1..Len(routed') : i \in 1..Len(routed')
    BY <2>d, <2>e
  <2>5. \A i \in restarted' + 1..Len(routed') : seqOf'[routed'[i]] <= reader'.cursor
    BY <1>3, <2>3, <2>4
  <2>6. \A i, j \in 1..Len(routed') :
          restarted' < i /\ i < j => seqOf'[routed'[i]] < seqOf'[routed'[j]]
    BY <1>3, <2>3, <2>4
  <2> QED  BY <1>3, <2>4, <2>5, <2>6 DEF OrderTrue, RoutedInOrder
<1>4. CASE ReaderStays
  <2>1. Ordered(routed', restarted', reader'.cursor)
    BY <1>1, <1>4 DEF ReaderStays
  <2> QED  BY <1>1, <1>2, <1>3, <1>4, <2>1 DEF ReaderStays
<1>5. CASE Serve
  <2>1. /\ Rising(reader'.page) /\ reader'.cursor = reader.cursor
        /\ reader'.paused = reader.paused /\ reader'.held = reader.held
    BY <1>5, ServeIs
  <2>2. routed' = routed /\ restarted' = restarted
    BY <1>5 DEF Serve, history
  <2> QED  BY <1>1, <1>3, <2>1, <2>2
<1>6. CASE Live /\ ~ReaderRests
  <2> DEFINE n == Head(wire)
             m == MessageAt(n)
  <2>1. /\ n \in Numbers /\ n = reader.cursor + 1 /\ ~reader.paused
        /\ reader' = [reader EXCEPT !.cursor = n]
        /\ routed' = Append(routed, m)
        /\ m \in Stored /\ seqOf[m] = n /\ restarted' = restarted
    BY <1>6, LiveIs
  <2> HIDE DEF n, m
  <2>2. /\ reader'.cursor = n /\ reader'.page = reader.page /\ ~reader'.paused
        /\ n \in Nat /\ reader.cursor \in Nat /\ m \in Messages
    BY <1>1, <2>1 DEF Readers, Stored
  <2> DEFINE one == <<m>>
  <2>3. routed' = routed \o one /\ one \in Seq(Messages) /\ Len(one) = 1 /\ one[1] = m
    BY <1>1, <2>1, <2>2, AppendIsConcat
  <2> HIDE DEF one
  <2>4. \A i \in 1..Len(one) : i = 1
    BY <2>3
  <2>5. /\ reader.cursor <= n
        /\ \A i \in 1..Len(one) : reader.cursor < seqOf[one[i]] /\ seqOf[one[i]] <= n
        /\ \A i, j \in 1..Len(one) : i < j => seqOf[one[i]] < seqOf[one[j]]
    BY <2>1, <2>2, <2>3, <2>4
  <2>6. Ordered(routed \o one, restarted, n)
    BY <2>2, <2>3, <2>5, RoutedFurther
  <2> QED  BY <1>1, <1>3, <2>1, <2>2, <2>3, <2>6
<1>7. CASE Receive /\ ~ReaderRests
  <2> DEFINE new == Unclaimed(reader)
             msgs == [i \in DOMAIN new |-> MessageAt(new[i])]
             c == AfterPage(reader).cursor
  <2>1. reader' = AfterPage(reader) /\ routed' \in {routed, routed \o msgs}
        /\ restarted' = restarted
    BY <1>7, ReceiveIs
  <2>2. /\ msgs \in Seq(Messages) /\ c \in Nat /\ reader.cursor <= c
        /\ \A i \in 1..Len(msgs) : reader.cursor < seqOf[msgs[i]] /\ seqOf[msgs[i]] <= c
        /\ \A i, j \in 1..Len(msgs) : i < j => seqOf[msgs[i]] < seqOf[msgs[j]]
    BY PageTaken
  <2> HIDE DEF msgs, c
  <2>3. Ordered(routed \o msgs, restarted, c)
    BY <2>2, RoutedFurther
  <2>4. Ordered(routed, restarted, c)
    <3>1. reader.cursor \in Nat /\ \A i \in restarted + 1..Len(routed) : seqOf[routed[i]] \in Nat
      BY <1>1 DEF SafetyInv, TypeOK, Readers
    <3> QED  BY <1>1, <2>2, <3>1
  <2>5. /\ reader'.page = <<>> /\ reader'.cursor = c
        /\ reader'.paused = reader.paused
    BY <1>1, <2>1, AfterPageIs DEF c
  <2>6. ~reader.paused
    BY <1>7, ReceiveIs
  <2> QED  BY <1>2, <1>3, <2>1, <2>3, <2>4, <2>5, <2>6
<1>8. CASE /\ reader'.page = <<>> /\ ~reader'.paused
           /\ routed' = routed /\ restarted' = Len(routed)
  <2>1. Ordered(routed', restarted', reader'.cursor)
    BY <1>1, <1>8
  <2> QED  BY <1>2, <1>3, <1>8, <2>1
<1> QED  BY <1>4, <1>5, <1>6, <1>7, <1>8, PlaceSteps

-----------------------------------------------------------------------------
(* What holds always.                                                      *)

LEMMA InitSafety == Init => SafetyInv
<1> SUFFICES ASSUME Init PROVE SafetyInv
  OBVIOUS
<1>1. /\ written = 0 /\ seq = 0 /\ seqOf = [m \in Messages |-> 0]
      /\ outbox = [w \in Writers |-> <<>>] /\ requests = {}
      /\ handler = [s \in Sockets |-> Idle] /\ wire = <<>>
      /\ reader = Fresh(0, FALSE) /\ routed = <<>>
      /\ skipped = {} /\ ended = {} /\ restarted = 0 /\ faults = 0
  BY DEF Init
<1>2. /\ reader \in Readers /\ reader.page = <<>> /\ ~reader.paused
  BY <1>1, FreshIs
<1>3. /\ <<>> \in Seq(Messages) /\ <<>> \in Seq(1..seq) /\ Len(<<>>) = 0
      /\ Elements(<<>>) = {} /\ Distinct(<<>>) /\ Rising(<<>>) /\ DOMAIN <<>> = {}
  BY DEF Elements, Distinct, Rising
<1>4. Stored = {} /\ Busy = {}
  BY <1>1 DEF Stored, Busy
<1>5. TypeOK
  <2>1. Idle \in Handlers
    BY ConstantsAssumption DEF Idle, Handlers
  <2>2. /\ written \in 0..NumMessages /\ seq \in Nat /\ seqOf \in [Messages -> 0..seq]
        /\ outbox \in [Writers -> Seq(Messages)] /\ faults \in 0..MaxFaults
    BY <1>1, <1>3, ConstantsAssumption
  <2>3. requests \subseteq Requests /\ handler \in [Sockets -> Handlers]
    BY <1>1, <2>1
  <2>4. routed \in Seq(Messages) /\ restarted \in 0..Len(routed)
    BY <1>1, <1>3
  <2> QED  BY <1>1, <1>2, <1>3, <2>2, <2>3, <2>4 DEF TypeOK
<1>6. BoxesTrue /\ BatchesTrue /\ RequestsTrue
  BY <1>1, <1>3 DEF BoxesTrue, BatchesTrue, RequestsTrue
<1>7. SocketsTrue
  BY <1>4 DEF SocketsTrue, Storing
<1>8. LogTrue
  BY <1>1, <1>2, <1>3, <1>4 DEF LogTrue
<1>9. OrderTrue
  <2>1. \A i \in restarted + 1..Len(routed) : FALSE
    BY <1>1, <1>3
  <2> QED  BY <1>1, <1>2, <1>3, <2>1 DEF OrderTrue, RoutedInOrder
<1> QED  BY <1>5, <1>6, <1>7, <1>8, <1>9 DEF SafetyInv

LEMMA SafetyStep == SafetyInv /\ [Next]_vars => SafetyInv'
BY TypeStep, BoxesStep, BatchesStep, RequestsStep, SocketsStep, LogStep, OrderStep
   DEF SafetyInv

\* No number is used twice, no outbox holds a message twice, a batch whose response
\* is awaited is still where it was taken from, and a socket's number and message
\* are its own until its handler has inserted them.
THEOREM SafetyCorrect == Spec => []SafetyInv
BY InitSafety, SafetyStep, PTL DEF Spec

\* Every variable holds what the code can put there, whatever is lost, repeated or
\* ended on the way.
THEOREM TypeCorrect == Spec => []TypeOK
<1>1. SafetyInv => TypeOK
  BY DEF SafetyInv
<1> QED  BY <1>1, SafetyCorrect, PTL

\* What a process and those that take over from it route is routed once and in the
\* order of the numbers, also with sockets whose messages become visible out of
\* order (fetchMessages and the update handler of apiSession.ts).
THEOREM RoutedInOrderAlways == Spec => []RoutedInOrder
<1>1. SafetyInv => RoutedInOrder
  BY DEF SafetyInv, OrderTrue
<1> QED  BY <1>1, SafetyCorrect, PTL

-----------------------------------------------------------------------------
(* With HTTP writers alone: the numbers have no gap, a page continues where *)
(* it was asked for, and the cursor moves over what is routed or skipped.  *)

\* Every number given is in use.
Dense == 1..seq \subseteq Numbers

\* The page of a reader is the numbers right behind where it was asked for, up to
\* at most n, and is gone when it has been taken.
PageFits(r, n) ==
  /\ r.cursor <= n
  /\ r.after <= r.cursor
  /\ r.after + Len(r.page) <= n
  /\ \A i \in 1..Len(r.page) : r.page[i] = r.after + i
  /\ r.phase # "answered" => r.page = <<>>

HttpInv ==
  /\ SafetyInv
  /\ Dense /\ PageFits(reader, seq)
  /\ NothingSteppedOver /\ OutboxKept

\* A commit leaves no gap.
LEMMA DenseStep ==
  ASSUME Sockets = {}, SafetyInv, Dense, [Next]_vars
  PROVE  Dense'
<1>1. seq \in Nat /\ Numbers \subseteq Numbers'
  BY NumbersStep
<1>2. CASE \E r \in requests : Commit(r)
  <2>1. PICK r \in requests : Commit(r)
    BY <1>2
  <2> DEFINE new == Missing(r)
  <2>2. /\ new \in Seq(Messages) /\ Distinct(new) /\ Len(new) \in Nat /\ seq' = seq + Len(new)
        /\ \A m \in Elements(new) : /\ m \in Messages /\ seqOf'[m] = seq + PlaceOf(new, m)
                                    /\ PlaceOf(new, m) \in 1..Len(new)
                                    /\ new[PlaceOf(new, m)] = m
    BY <2>1, MissingIs, CommitNumbers
  <2> HIDE DEF new
  <2>3. DOMAIN new = 1..Len(new)
    BY <2>2
  <2>4. \A i \in 1..Len(new) : seq + i \in Numbers'
    <3> TAKE i \in 1..Len(new)
    <3>1. new[i] \in Elements(new)
      BY <2>3 DEF Elements
    <3>2. PlaceOf(new, new[i]) = i
      BY <2>2, <2>3, <3>1 DEF Distinct
    <3>3. seqOf'[new[i]] = seq + i /\ new[i] \in Messages /\ seq + i # 0
      BY <1>1, <2>2, <3>1, <3>2
    <3>4. new[i] \in Stored'
      BY <3>3 DEF Stored
    <3> QED  BY <3>3, <3>4 DEF Numbers
  <2>5. \A n \in 1..seq' : n \in 1..seq \/ (n - seq \in 1..Len(new) /\ n = seq + (n - seq))
    BY <1>1, <2>2
  <2>6. \A n \in 1..seq' : n \in Numbers'
    BY <1>1, <2>4, <2>5 DEF Dense
  <2> QED  BY <2>6 DEF Dense
<1>3. CASE UNCHANGED <<seq, seqOf>>
  BY <1>1, <1>3 DEF Dense
<1> QED  BY <1>2, <1>3, NumberSteps

\* What was routed, skipped or ended with its process stays so.
LEMMA HistoryGrows ==
  ASSUME SafetyInv, [Next]_vars
  PROVE  /\ Elements(routed) \subseteq Elements(routed')
         /\ skipped \subseteq skipped' /\ ended \subseteq ended'
<1>1. routed \in Seq(Messages)
  BY DEF SafetyInv, TypeOK
<1>2. \A w \in Writers : WriterStep(w) => UNCHANGED history
  BY DEF WriterStep, Enqueue, Post, history
<1>3. \A r \in requests : RequestStep(r) => UNCHANGED history
  BY DEF RequestStep, Lookup, Commit, Clash, Announce, Respond, history
<1>4. \A s \in Sockets : SocketAllocate(s) \/ SocketStep(s) => UNCHANGED history
  BY DEF SocketAllocate, SocketStep, SocketInsert, SocketAnnounce, history
<1>5. Disturbance => UNCHANGED <<routed, skipped>> /\ (UNCHANGED ended \/ Ends)
  BY DEF Disturbance, PostFails, AnnounceFails, SocketFails, CentreRestarts, Drop, GetFails,
         Hold, Handover, Restart, history
<1>6. Connect \/ Serve \/ Recover \/ Retry \/ Release => UNCHANGED history
  BY DEF Connect, Serve, Recover, Retry, Release, history
<1>7. CASE UNCHANGED history
  BY <1>7 DEF history
<1>8. CASE Disturbance
  BY <1>5, <1>8 DEF Ends
<1>9. CASE Live
  <2>1. UNCHANGED <<skipped, ended>> /\ routed' \in {routed, Append(routed, MessageAt(Head(wire)))}
    BY <1>9 DEF Live
  <2>2. CASE routed' = routed
    BY <2>1, <2>2
  <2>3. CASE routed' # routed
    <3>1. ~ReaderRests
      BY <2>3 DEF ReaderRests
    <3> DEFINE m == MessageAt(Head(wire))
    <3>2. m \in Messages /\ routed' = Append(routed, m)
      BY <1>9, <2>1, <2>3, <3>1, LiveIs DEF Stored
    <3> HIDE DEF m
    <3>3. Elements(Append(routed, m)) = Elements(routed) \cup {m}
      BY <1>1, <3>2, ElementsOf
    <3> QED  BY <2>1, <3>2, <3>3
  <2> QED  BY <2>2, <2>3
<1>10. CASE Receive
  <2> DEFINE new == Unclaimed(reader)
             msgs == [i \in DOMAIN new |-> MessageAt(new[i])]
  <2>1. /\ ended' = ended /\ skipped \subseteq skipped' /\ routed' \in {routed, routed \o msgs}
    BY <1>10 DEF Receive, history
  <2>2. msgs \in Seq(Messages)
    BY UnclaimedUsed, MessagesOf
  <2> HIDE DEF msgs
  <2>3. Elements(routed) \subseteq Elements(routed \o msgs)
    <3>1. /\ DOMAIN (routed \o msgs) = 1..Len(routed) + Len(msgs)
          /\ \A i \in 1..Len(routed) : (routed \o msgs)[i] = routed[i]
      BY <1>1, <2>2, ConcatElements
    <3>2. /\ DOMAIN routed = 1..Len(routed) /\ Len(routed) \in Nat /\ Len(msgs) \in Nat
      BY <1>1, <2>2
    <3>3. \A i \in 1..Len(routed) : i \in 1..Len(routed) + Len(msgs)
      BY <3>2
    <3> QED  BY <3>1, <3>2, <3>3 DEF Elements
  <2> QED  BY <2>1, <2>3
<1> QED  BY <1>2, <1>3, <1>4, <1>6, <1>7, <1>8, <1>9, <1>10 DEF Next, ReaderStep, vars

\* A message leaves an outbox when it is stored, or ends with the process.
LEMMA OutboxKeptStep ==
  ASSUME Sockets = {}, SafetyInv, OutboxKept, [Next]_vars
  PROVE  OutboxKept'
<1> DEFINE Safe(m) == m \in Stored \cup ended \/ \E w \in Writers : m \in Elements(outbox[w])
<1>1. /\ Stored \subseteq Stored' /\ ended \subseteq ended' /\ Self \in Writers
      /\ outbox \in [Writers -> Seq(Messages)] /\ written \in Nat
  BY NumbersStep, HistoryGrows, ConstantsAssumption DEF SafetyInv, TypeOK
<1>2. \A m \in 1..written : Safe(m)
  BY DEF OutboxKept
<1>3. ASSUME \A w \in Writers : \A m \in Elements(outbox[w]) :
               m \in Stored' \cup ended' \/ \E v \in Writers : m \in Elements(outbox'[v])
      PROVE  \A m \in 1..written :
               m \in Stored' \cup ended' \/ \E v \in Writers : m \in Elements(outbox'[v])
  BY <1>1, <1>2, <1>3
<1>4. CASE \E w \in Writers : Enqueue(w)
  <2>1. PICK w \in Writers : Enqueue(w)
    BY <1>4
  <2>2. /\ written' = written + 1
        /\ \A v \in Writers : v # w => outbox'[v] = outbox[v]
        /\ Elements(outbox'[w]) = Elements(outbox[w]) \cup {written + 1}
    BY <2>1, Enqueued
  <2>3. \A v \in Writers : \A m \in Elements(outbox[v]) : m \in Elements(outbox'[v])
    BY <2>2
  <2>4. \A m \in 1..written' : m \in 1..written \/ m = written + 1
    BY <1>1, <2>2
  <2> QED  BY <1>3, <2>2, <2>3, <2>4 DEF OutboxKept
<1>5. CASE \E r \in requests : Respond(r)
  <2>1. PICK r \in requests : Respond(r)
    BY <1>5
  <2>2. \A w \in Writers : Elements(outbox[w]) \subseteq Elements(outbox'[w]) \cup Stored
    BY <2>1, RespondOutbox
  <2>3. written' = written
    BY <2>1 DEF Respond
  <2> QED  BY <1>1, <1>3, <2>2, <2>3 DEF OutboxKept
<1>6. CASE Handover \/ Restart
  <2>1. Ends /\ written' = written
    BY <1>6 DEF Handover, Restart
  <2>2. /\ Elements(outbox[Self]) \subseteq ended'
        /\ \A w \in Writers \ {Self} : outbox'[w] = outbox[w]
    BY <1>1, <2>1 DEF Ends
  <2>3. \A w \in Writers : \A m \in Elements(outbox[w]) :
          m \in ended' \/ m \in Elements(outbox'[w])
    BY <2>2
  <2> QED  BY <1>3, <2>1, <2>3 DEF OutboxKept
<1>7. CASE UNCHANGED <<written, outbox>>
  BY <1>3, <1>7 DEF OutboxKept
<1> QED  BY <1>4, <1>5, <1>6, <1>7, OutboxSteps

\* The synchronisation keeps a page where it was asked for.
LEMMA SyncFits ==
  ASSUME NEW r \in Readers, NEW n \in Nat, PageFits(r, n), NEW s,
         \/ s = Invalidated(r)
         \/ r.page = <<>> /\ s \in {Asking(r), Fetched(r)}
  PROVE  PageFits(s, n)
<1>1. /\ s \in Readers /\ SamePlace(r, s) /\ s.after \in {r.after, r.cursor}
      /\ (s.phase = "answered" => r.phase = "answered" /\ s.after = r.after)
  BY SyncIs
<1>2. /\ r.cursor \in Nat /\ r.after \in Nat /\ s.cursor = r.cursor /\ s.page = r.page
      /\ r.cursor <= n /\ r.after <= r.cursor
  BY <1>1 DEF PageFits, SamePlace, Readers
<1>3. s.after <= s.cursor /\ s.cursor <= n /\ s.after \in Nat
  BY <1>1, <1>2
<1>4. CASE r.page = <<>>
  BY <1>2, <1>3, <1>4 DEF PageFits
<1>5. CASE r.page # <<>>
  <2>1. r.phase = "answered" /\ s = Invalidated(r)
    BY <1>5 DEF PageFits
  <2>2. s.phase = "answered"
    BY <2>1 DEF Invalidated, Readers
  <2> QED  BY <1>1, <1>2, <1>3, <2>1, <2>2 DEF PageFits
<1> QED  BY <1>4, <1>5

\* A process that begins anew has no page.
LEMMA FreshFits ==
  ASSUME NEW c \in Nat, NEW n \in Nat, c <= n, NEW b \in BOOLEAN
  PROVE  PageFits(Fresh(c, b), n)
BY FreshIs DEF PageFits

\* A page that is served begins right behind where it was asked for.
LEMMA ServeFits ==
  ASSUME SafetyInv, Dense, PageFits(reader, seq), Serve
  PROVE  PageFits(reader', seq)
<1> DEFINE a == reader.after
           S == Numbers \cap (a + 1)..seq
           p == reader'.page
<1>1. /\ a \in Nat /\ seq \in Nat /\ reader.cursor \in Nat
      /\ a <= reader.cursor /\ reader.cursor <= seq
  BY DEF SafetyInv, TypeOK, Readers, PageFits
<1>2. /\ p \in Seq(Nat) /\ Len(p) <= Cardinality(S)
      /\ \A i \in 1..Len(p) : p[i] = Ascending(S)[i]
      /\ reader'.phase = "answered"
      /\ reader'.cursor = reader.cursor /\ reader'.after = a
  BY ServeIs
<1>3. S = a + 1..seq
  BY <1>1 DEF Dense
<1> HIDE DEF S, a
<1>4. a <= seq
  BY <1>1
<1>5. Ascending(S) = [i \in 1..seq - a |-> a + i]
  BY <1>1, <1>3, <1>4, AscendingInterval
<1>6. Cardinality(S) = seq - a
  <2>1. a + 1 \in Int /\ seq \in Int
    BY <1>1
  <2>2. Cardinality(a + 1..seq) = IF a + 1 > seq THEN 0 ELSE seq - (a + 1) + 1
    BY <2>1, FS_Interval
  <2> QED  BY <1>1, <1>3, <1>4, <2>2
<1>7. Len(p) \in Nat
  BY <1>2
<1> HIDE DEF p
<1>8. \A i \in 1..Len(p) : p[i] = a + i
  <2>1. \A i \in 1..Len(p) : i \in 1..seq - a
    BY <1>1, <1>2, <1>6, <1>7
  <2>2. \A i \in 1..Len(p) : p[i] = [j \in 1..seq - a |-> a + j][i]
    BY <1>2, <1>5
  <2> QED  BY <2>1, <2>2
<1>9. a + Len(p) <= seq
  BY <1>1, <1>2, <1>6, <1>7
<1> QED  BY <1>1, <1>2, <1>8, <1>9 DEF PageFits, p

\* Taking a page leaves the cursor at its end, or where it was if that is further.
LEMMA TakenFits ==
  ASSUME SafetyInv, PageFits(reader, seq)
  PROVE  LET r == AfterPage(reader)
         IN  /\ r.page = <<>> /\ r.cursor \in Nat /\ r.cursor <= seq
             /\ reader.phase = "answered" => PageFits(r, seq)
             /\ \A n \in Numbers : reader.cursor < n /\ n <= r.cursor
                                     => n \in Elements(Unclaimed(reader))
<1> DEFINE new == Unclaimed(reader)
           page == reader.page
           r == AfterPage(reader)
           a == reader.after
           c == reader.cursor
           k == Len(page)
<1>1. /\ reader \in Readers /\ a \in Nat /\ c \in Nat /\ page \in Seq(Nat) /\ k \in Nat
      /\ seq \in Nat /\ DOMAIN page = 1..k
      /\ a <= c /\ c <= seq /\ a + k <= seq /\ \A i \in 1..k : page[i] = a + i
  BY DEF SafetyInv, TypeOK, Readers, PageFits
<1>2. /\ new \in Seq(Nat) /\ Elements(new) \subseteq Elements(page)
      /\ \A n \in Elements(new) : n > c
      /\ \A n \in Elements(page) : n > c => n \in Elements(new)
      /\ Rising(new)
  BY <1>1, UnclaimedIs DEF SafetyInv, OrderTrue
<1>3. /\ r \in Readers /\ r.page = <<>> /\ r.cursor = LastOf(new, c) /\ r.cursor \in Nat
      /\ r.after \in {LastOf(page, a), r.cursor}
      /\ (reader.phase = "answered" => r.phase # "answered")
  BY <1>1, AfterPageIs
<1>4. /\ LastOf(new, c) = c \/ LastOf(new, c) \in Elements(new)
      /\ \A n \in Elements(new) : n <= LastOf(new, c)
      /\ LastOf(page, a) = a \/ LastOf(page, a) \in Elements(page)
  BY <1>1, <1>2, LastIs
<1>5. \A n \in Nat : n \in Elements(page) <=> (a < n /\ n <= a + k)
  <2>1. \A n \in Elements(page) : a < n /\ n <= a + k
    BY <1>1 DEF Elements
  <2>2. ASSUME NEW n \in Nat, a < n, n <= a + k PROVE n \in Elements(page)
    <3>1. n - a \in 1..k /\ a + (n - a) = n
      BY <1>1, <2>2
    <3>2. page[n - a] = n
      BY <1>1, <3>1
    <3> QED  BY <1>1, <3>1, <3>2 DEF Elements
  <2> QED  BY <2>1, <2>2
<1>6. Elements(page) \subseteq Nat
  BY <1>1, ElementsOf
<1> HIDE DEF new, page, r, a, c, k
<1>7. r.cursor <= seq /\ c <= r.cursor
  BY <1>1, <1>2, <1>3, <1>4, <1>5, <1>6
<1>8. \A n \in Elements(page) : n <= r.cursor
  BY <1>1, <1>2, <1>3, <1>4, <1>6, <1>7
<1>9. r.after <= r.cursor /\ r.after \in Nat
  BY <1>1, <1>3, <1>4, <1>6, <1>7, <1>8
<1>10. \A n \in Nat : c < n /\ n <= r.cursor => n \in Elements(new)
  <2> SUFFICES ASSUME NEW n \in Nat, c < n, n <= r.cursor PROVE n \in Elements(new)
    OBVIOUS
  <2>1. r.cursor \in Elements(new) /\ r.cursor \in Elements(page)
    BY <1>1, <1>2, <1>3, <1>4
  <2>2. r.cursor <= a + k
    BY <1>3, <1>5, <2>1
  <2>3. a < n /\ n <= a + k
    BY <1>1, <1>3, <2>2
  <2> QED  BY <1>2, <1>5, <2>3
<1>11. Numbers \subseteq Nat
  BY MessageAtIs DEF SafetyInv, TypeOK
<1>12. reader.phase = "answered" => PageFits(r, seq)
  <2>1. Len(r.page) = 0
    BY <1>3
  <2> QED  BY <1>1, <1>3, <1>7, <1>9, <2>1 DEF PageFits
<1> QED  BY <1>3, <1>7, <1>10, <1>11, <1>12 DEF new, r, c

\* Whatever happens, a page continues where it was asked for.
LEMMA PageStep ==
  ASSUME SafetyInv, Dense, PageFits(reader, seq), [Next]_vars
  PROVE  PageFits(reader', seq')
<1>1. /\ reader \in Readers /\ seq \in Nat /\ reader.cursor \in Nat /\ reader.after \in Nat
      /\ reader.page \in Seq(Nat) /\ reader.cursor <= seq
      /\ (reader.paused => reader.held = reader.cursor)
  BY DEF SafetyInv, TypeOK, Readers, PageFits, OrderTrue
<1>2. seq' \in Nat /\ seq <= seq' /\ reader' \in Readers
  BY NumbersStep, TypeStep DEF TypeOK
<1>3. ASSUME PageFits(reader', seq) PROVE PageFits(reader', seq')
  <2>1. reader'.cursor \in Nat /\ reader'.after \in Nat /\ Len(reader'.page) \in Nat
    BY <1>2 DEF Readers
  <2> QED  BY <1>1, <1>2, <1>3, <2>1 DEF PageFits
<1>4. CASE reader' = reader
  BY <1>3, <1>4
<1>5. \A w \in Writers : WriterStep(w) => reader' = reader
  BY DEF WriterStep, Enqueue, Post
<1>6. \A r \in requests : RequestStep(r) \/ PostFails(r) \/ AnnounceFails(r) => reader' = reader
  BY <1>1 DEF RequestStep, Lookup, Commit, Clash, Announce, Respond, CursorAfterPost, PostFails,
              AnnounceFails, Readers
<1>7. \A s \in Sockets : SocketAllocate(s) \/ SocketStep(s) \/ SocketFails(s) => reader' = reader
  BY DEF SocketAllocate, SocketStep, SocketInsert, SocketAnnounce, SocketFails
<1>8. ASSUME NEW r \in Readers, r.cursor = reader.cursor, r.after = reader.after,
             r.page = reader.page, r.phase = reader.phase
      PROVE  PageFits(r, seq)
  BY <1>8 DEF PageFits
<1>9. CASE CentreRestarts \/ Drop \/ Hold
  <2>1. /\ reader'.cursor = reader.cursor /\ reader'.after = reader.after
        /\ reader'.page = reader.page /\ reader'.phase = reader.phase
    BY <1>1, <1>9 DEF CentreRestarts, Drop, Hold, Readers
  <2> QED  BY <1>2, <1>3, <1>8, <2>1
<1>10. CASE GetFails
  <2>1. /\ reader'.cursor = reader.cursor /\ reader'.after = reader.after
        /\ reader'.page = <<>>
    BY <1>1, <1>10 DEF GetFails, Readers
  <2>2. PageFits(reader', seq)
    BY <1>1, <2>1 DEF PageFits
  <2> QED  BY <1>3, <2>2
<1>11. CASE Connect
  <2> DEFINE r == [reader EXCEPT !.connected = TRUE]
  <2>1. /\ r \in Readers /\ r.cursor = reader.cursor /\ r.after = reader.after
        /\ r.page = reader.page /\ r.phase = reader.phase /\ reader' = Invalidated(r)
    BY <1>1, <1>11 DEF Connect, Readers
  <2> HIDE DEF r
  <2>2. PageFits(r, seq)
    BY <1>8, <2>1
  <2> QED  BY <1>1, <1>3, <2>1, <2>2, SyncFits
<1>12. CASE Release
  <2> DEFINE r == [reader EXCEPT !.paused = FALSE, !.skip = FALSE, !.cursor = reader.held]
  <2>1. /\ r \in Readers /\ r.cursor = reader.cursor /\ r.after = reader.after
        /\ r.page = reader.page /\ r.phase = reader.phase /\ reader' = Invalidated(r)
    BY <1>1, <1>12 DEF Release, Readers
  <2> HIDE DEF r
  <2>2. PageFits(r, seq)
    BY <1>8, <2>1
  <2> QED  BY <1>1, <1>3, <2>1, <2>2, SyncFits
<1>13. CASE Recover
  <2> DEFINE r == [reader EXCEPT !.recover = FALSE]
  <2>1. /\ r \in Readers /\ r.cursor = reader.cursor /\ r.after = reader.after
        /\ r.page = reader.page /\ r.phase = reader.phase /\ reader' = Fetched(r)
    BY <1>1, <1>13 DEF Recover, Readers
  <2>2. r.page = <<>>
    BY <1>13, <2>1 DEF Recover, PageFits
  <2> HIDE DEF r
  <2>3. PageFits(r, seq)
    BY <1>8, <2>1
  <2> QED  BY <1>1, <1>3, <2>1, <2>2, <2>3, SyncFits
<1>14. CASE Retry
  <2>1. reader' = Asking(reader) /\ reader.page = <<>>
    BY <1>14 DEF Retry, PageFits
  <2> QED  BY <1>1, <1>3, <2>1, SyncFits
<1>15. CASE Live
  <2>1. reader' = reader \/ reader' = Invalidated(reader)
        \/ /\ reader' = [reader EXCEPT !.cursor = Head(wire)]
           /\ Head(wire) = reader.cursor + 1
    BY <1>15 DEF Live, Contiguous
  <2>2. CASE reader' = Invalidated(reader)
    BY <1>1, <1>3, <2>2, SyncFits
  <2>3. CASE /\ reader' = [reader EXCEPT !.cursor = Head(wire)]
             /\ Head(wire) = reader.cursor + 1
    <3>1. /\ reader'.cursor = reader.cursor + 1 /\ reader'.after = reader.after
          /\ reader'.page = reader.page /\ reader'.phase = reader.phase
      BY <1>1, <2>3 DEF Readers
    <3>2. Head(wire) \in 1..seq
      <4>1. wire # <<>> /\ wire \in Seq(1..seq)
        BY <1>15 DEF Live, SafetyInv, TypeOK
      <4> DEFINE T == 1..seq
      <4>2. wire \in Seq(T)
        BY <4>1
      <4> HIDE DEF T
      <4>3. Head(wire) \in Elements(wire) /\ Elements(wire) \subseteq T
        BY <4>1, <4>2, ElementsOf
      <4> QED  BY <4>3 DEF T
    <3>3. reader'.cursor <= seq /\ reader'.after <= reader'.cursor
      BY <1>1, <2>3, <3>1, <3>2 DEF PageFits
    <3>4. PageFits(reader', seq)
      BY <3>1, <3>3 DEF PageFits
    <3> QED  BY <1>3, <3>4
  <2> QED  BY <1>4, <2>1, <2>2, <2>3
<1>16. CASE Serve
  BY <1>3, <1>16, ServeFits
<1>17. CASE Receive
  <2>1. CASE reader.paused
    <3> DEFINE r == [reader EXCEPT !.page = <<>>]
    <3>e. <<>> \in Seq(Nat)
      OBVIOUS
    <3>1. /\ r \in Readers /\ r.cursor = reader.cursor /\ r.after = reader.after
          /\ r.page = <<>>
      BY <1>1, <3>e DEF Readers
    <3>2. reader' = Fetched(r)
      BY <1>17, <2>1 DEF Receive
    <3> HIDE DEF r
    <3>3. PageFits(r, seq)
      BY <1>1, <3>1 DEF PageFits
    <3> QED  BY <1>1, <1>3, <3>1, <3>2, <3>3, SyncFits
  <2>2. CASE ~reader.paused
    <3>1. reader' = AfterPage(reader) /\ reader.phase = "answered"
      BY <1>17, <2>2 DEF Receive
    <3>2. PageFits(AfterPage(reader), seq)
      BY <3>1, TakenFits
    <3> QED  BY <1>3, <3>1, <3>2
  <2> QED  BY <2>1, <2>2
<1>18. CASE Handover
  <2>1. /\ reader.held \in Nat /\ reader.held <= seq
        /\ reader' = Invalidated(Fresh(reader.held, FALSE))
    BY <1>1, <1>18 DEF Handover, Successor, Readers
  <2>2. Fresh(reader.held, FALSE) \in Readers /\ PageFits(Fresh(reader.held, FALSE), seq)
    BY <1>1, <2>1, FreshIs, FreshFits
  <2> QED  BY <1>1, <1>3, <2>1, <2>2, SyncFits
<1>19. CASE Restart
  <2>1. reader' = Fresh(0, TRUE) /\ 0 \in Nat /\ 0 <= seq
    BY <1>1, <1>19 DEF Restart
  <2>2. PageFits(Fresh(0, TRUE), seq)
    BY <1>1, <2>1, FreshFits
  <2> QED  BY <1>3, <2>1, <2>2
<1>20. CASE UNCHANGED vars
  BY <1>4, <1>20 DEF vars
<1> QED  BY <1>4, <1>5, <1>6, <1>7, <1>9, <1>10, <1>11, <1>12, <1>13, <1>14, <1>15, <1>16,
            <1>17, <1>18, <1>19, <1>20 DEF Next, ReaderStep, Disturbance

\* The cursor passes a message only with it.
LEMMA SteppedStep ==
  ASSUME Sockets = {}, SafetyInv, PageFits(reader, seq), NothingSteppedOver, [Next]_vars
  PROVE  NothingSteppedOver'
<1>1. /\ reader \in Readers /\ reader.cursor \in Nat /\ seq \in Nat /\ reader.cursor <= seq
      /\ seqOf \in [Messages -> 0..seq]
      /\ routed \in Seq(Messages)
      /\ Elements(routed) \subseteq Elements(routed') /\ skipped \subseteq skipped'
  BY HistoryGrows DEF SafetyInv, TypeOK, Readers, PageFits
<1>2. \A m \in Stored : seqOf[m] <= reader.cursor => m \in Elements(routed') \cup skipped'
  BY <1>1 DEF NothingSteppedOver
<1>3. \A m \in Stored : /\ m \in Messages /\ seqOf[m] \in Nat /\ seqOf[m] # 0
                        /\ seqOf[m] \in Numbers /\ m = MessageAt(seqOf[m])
  <2>1. \A m \in Stored : m \in Messages /\ seqOf[m] \in Nat /\ seqOf[m] # 0
                          /\ seqOf[m] \in Numbers
    BY <1>1 DEF Stored, Numbers
  <2> QED  BY <2>1, MessageAtIs
<1>4. CASE \E r \in requests : Commit(r)
  <2>1. PICK r \in requests : Commit(r)
    BY <1>4
  <2>2. reader' = reader
    BY <2>1 DEF Commit
  <2>3. \A m \in Stored' : m \notin Stored => seqOf'[m] > seq
    <3>1. /\ \A m \in Messages \ Elements(Missing(r)) : seqOf'[m] = seqOf[m]
          /\ \A m \in Elements(Missing(r)) :
               /\ seqOf'[m] = seq + PlaceOf(Missing(r), m)
               /\ PlaceOf(Missing(r), m) \in 1..Len(Missing(r))
          /\ Len(Missing(r)) \in Nat
      BY <2>1, CommitNumbers
    <3>2. \A m \in Stored' : m \in Stored \/ m \in Elements(Missing(r))
      BY <3>1 DEF Stored
    <3>3. \A m \in Elements(Missing(r)) : seqOf'[m] > seq
      BY <1>1, <3>1
    <3> QED  BY <3>2, <3>3
  <2>4. \A m \in Stored : seqOf'[m] = seqOf[m]
    BY NumbersStep
  <2>5. \A m \in Stored' : seqOf'[m] <= reader'.cursor => m \in Stored
    <3> TAKE m \in Stored'
    <3>1. seqOf'[m] \in Nat
      BY TypeStep, NumbersStep DEF TypeOK, Stored
    <3> QED  BY <1>1, <2>2, <2>3, <3>1
  <2> QED  BY <1>2, <2>2, <2>4, <2>5 DEF NothingSteppedOver
<1>5. CASE UNCHANGED <<seq, seqOf>>
  <2>1. Stored' = Stored
    BY <1>5 DEF Stored
  <2>2. ASSUME \A m \in Stored : seqOf[m] <= reader'.cursor => m \in Elements(routed') \cup skipped'
        PROVE  NothingSteppedOver'
    BY <1>5, <2>1, <2>2 DEF NothingSteppedOver
  <2>3. CASE reader'.cursor = reader.cursor
    BY <1>2, <2>2, <2>3
  <2>4. CASE Live /\ ~ReaderRests
    <3> DEFINE n == Head(wire)
               l == MessageAt(n)
    <3>1. /\ n = reader.cursor + 1 /\ reader' = [reader EXCEPT !.cursor = n]
          /\ routed' = Append(routed, l) /\ l \in Stored /\ seqOf[l] = n
      BY <2>4, LiveIs
    <3>2. reader'.cursor = n
      BY <1>1, <3>1 DEF Readers
    <3> HIDE DEF n, l
    <3>3. l \in Elements(routed')
      BY <1>1, <1>3, <3>1, ElementsOf
    <3>4. \A m \in Stored : seqOf[m] <= n => seqOf[m] <= reader.cursor \/ seqOf[m] = n
      BY <1>1, <1>3, <3>1
    <3>5. \A m \in Stored : seqOf[m] = n => m = l
      BY <1>3, <3>1 DEF l
    <3> QED  BY <1>2, <2>2, <3>2, <3>3, <3>4, <3>5
  <2>5. CASE Receive /\ ~ReaderRests
    <3> DEFINE new == Unclaimed(reader)
               msgs == [i \in DOMAIN new |-> MessageAt(new[i])]
    <3>1. /\ reader' = AfterPage(reader)
          /\ skipped' = skipped \cup Elements(msgs) \/ routed' = routed \o msgs
      BY <2>5, ReceiveIs
    <3>2. /\ msgs \in Seq(Messages)
          /\ \A m \in Stored : seqOf[m] \in Elements(new) => m \in Elements(msgs)
      BY UnclaimedUsed, MessagesOf
    <3>3. \A n \in Numbers : reader.cursor < n /\ n <= reader'.cursor => n \in Elements(new)
      BY <3>1, TakenFits
    <3> HIDE DEF new, msgs
    <3>4. Elements(msgs) \subseteq Elements(routed \o msgs)
      <4>1. /\ routed \o msgs \in Seq(Messages)
            /\ DOMAIN (routed \o msgs) = 1..Len(routed) + Len(msgs)
            /\ \A i \in Len(routed) + 1..Len(routed) + Len(msgs) :
                 (routed \o msgs)[i] = msgs[i - Len(routed)]
        BY <1>1, <3>2, ConcatElements
      <4>2. DOMAIN msgs = 1..Len(msgs) /\ Len(msgs) \in Nat /\ Len(routed) \in Nat
        BY <1>1, <3>2
      <4> DEFINE a == Len(routed)
                 b == Len(msgs)
                 c == routed \o msgs
      <4> HIDE DEF a, b, c
      <4>3. /\ DOMAIN msgs = 1..b /\ DOMAIN c = 1..a + b /\ a \in Nat /\ b \in Nat
            /\ \A i \in a + 1..a + b : c[i] = msgs[i - a]
        BY <4>1, <4>2 DEF a, b, c
      <4>4. \A i \in 1..b : a + i \in a + 1..a + b /\ a + i \in 1..a + b /\ (a + i) - a = i
        BY <4>3
      <4>5. \A i \in 1..b : c[a + i] = msgs[i]
        BY <4>3, <4>4
      <4>6. Elements(msgs) \subseteq Elements(c)
        BY <4>3, <4>4, <4>5 DEF Elements
      <4> QED  BY <4>6 DEF c
    <3>5. Elements(msgs) \subseteq Elements(routed') \cup skipped'
      BY <3>1, <3>4
    <3>6. \A m \in Stored : seqOf[m] <= reader'.cursor =>
            seqOf[m] <= reader.cursor \/ m \in Elements(msgs)
      BY <1>1, <1>3, <3>2, <3>3
    <3> QED  BY <1>2, <2>2, <3>5, <3>6
  <2>6. CASE reader'.cursor = 0
    BY <1>3, <2>2, <2>6
  <2>7. Serve => reader'.cursor = reader.cursor
    BY ServeIs
  <2> QED  BY <2>3, <2>4, <2>5, <2>6, <2>7, PlaceSteps DEF ReaderStays
<1> QED  BY <1>4, <1>5, NumberSteps

LEMMA HttpStep == Sockets = {} /\ HttpInv /\ [Next]_vars => HttpInv'
<1>1. ASSUME Sockets = {}, HttpInv, [Next]_vars PROVE HttpInv'
  <2>1. SafetyInv' /\ Dense' /\ OutboxKept' /\ NothingSteppedOver'
    BY <1>1, SafetyStep, DenseStep, OutboxKeptStep, SteppedStep DEF HttpInv
  <2>2. PageFits(reader', seq')
    BY <1>1, PageStep DEF HttpInv
  <2> QED  BY <2>1, <2>2 DEF HttpInv, PageFits
<1> QED  BY <1>1

LEMMA HttpInit == Init => HttpInv
<1> SUFFICES ASSUME Init PROVE HttpInv
  OBVIOUS
<1>1. SafetyInv
  BY InitSafety
<1>2. written = 0 /\ seq = 0 /\ reader = Fresh(0, FALSE) /\ seqOf = [m \in Messages |-> 0]
  BY DEF Init
<1>3. Dense /\ OutboxKept /\ NothingSteppedOver
  BY <1>2 DEF Dense, OutboxKept, NothingSteppedOver, Stored
<1>4. 0 \in Nat /\ 0 <= 0
  OBVIOUS
<1>5. PageFits(reader, seq)
  BY <1>2, <1>4, FreshFits
<1> QED  BY <1>1, <1>3, <1>5 DEF HttpInv

\* With HTTP writers alone, a message leaves the outbox of a running process only once
\* it is stored, whatever requests fail, are repeated or run on (flushOutbox).
THEOREM OutboxIsKept ==
  ASSUME Sockets = {}
  PROVE  Spec => []OutboxKept
<1>1. HttpInv => OutboxKept
  BY DEF HttpInv
<1> QED  BY <1>1, HttpInit, HttpStep, PTL DEF Spec

\* With HTTP writers alone, the cursor moves over a message only when the message is
\* routed, or skipped by a restarted process (fetchMessages).
THEOREM NothingIsSteppedOver ==
  ASSUME Sockets = {}
  PROVE  Spec => []NothingSteppedOver
<1>1. HttpInv => NothingSteppedOver
  BY DEF HttpInv
<1> QED  BY <1>1, HttpInit, HttpStep, PTL DEF Spec

-----------------------------------------------------------------------------
(* With HTTP writers alone, and no process that ends without a refresh: the *)
(* process is given a prefix of the log.                                   *)

Prefix ==
  /\ ~reader.skip /\ ~reader.skipping
  /\ routed = [n \in 1..reader.cursor |-> MessageAt(n)]

\* Nothing is skipped: only a process that began without a cursor would.
LEMMA SkipStep ==
  ASSUME "restart" \notin Faults, SafetyInv, ~reader.skip, ~reader.skipping, [Next]_vars
  PROVE  ~reader'.skip /\ ~reader'.skipping
<1>1. reader \in Readers /\ ~Restart
  BY DEF SafetyInv, TypeOK, Restart, Fault
<1>2. ASSUME NEW r \in Readers, ~r.skip, ~r.skipping,
             reader' \in {Asking(r), Invalidated(r), Fetched(r)}
      PROVE  ~reader'.skip /\ ~reader'.skipping
  <2>1. /\ (Asking(r).skip => r.skip) /\ (Asking(r).skipping => r.skipping \/ r.skip)
        /\ (Invalidated(r).skip => r.skip)
        /\ (Invalidated(r).skipping => r.skipping \/ r.skip)
        /\ (Fetched(r).skip => r.skip) /\ (Fetched(r).skipping => r.skipping \/ r.skip)
    BY SyncIs
  <2> QED  BY <1>2, <2>1
<1>3. \A w \in Writers : WriterStep(w) => reader' = reader
  BY DEF WriterStep, Enqueue, Post
<1>4. \A r \in requests : RequestStep(r) \/ PostFails(r) \/ AnnounceFails(r) => reader' = reader
  BY <1>1 DEF RequestStep, Lookup, Commit, Clash, Announce, Respond, CursorAfterPost, PostFails,
              AnnounceFails, Readers
<1>5. \A s \in Sockets : SocketAllocate(s) \/ SocketStep(s) \/ SocketFails(s) => reader' = reader
  BY DEF SocketAllocate, SocketStep, SocketInsert, SocketAnnounce, SocketFails
<1>6. CASE CentreRestarts \/ Drop \/ Hold \/ GetFails
  BY <1>1, <1>6 DEF CentreRestarts, Drop, Hold, GetFails, Readers
<1>7. CASE Connect
  <2> DEFINE r == [reader EXCEPT !.connected = TRUE]
  <2>1. r \in Readers /\ ~r.skip /\ ~r.skipping /\ reader' = Invalidated(r)
    BY <1>1, <1>7 DEF Connect, Readers
  <2> HIDE DEF r
  <2> QED  BY <1>2, <2>1
<1>8. CASE Release
  <2> DEFINE r == [reader EXCEPT !.paused = FALSE, !.skip = FALSE, !.cursor = reader.held]
  <2>1. r \in Readers /\ ~r.skip /\ ~r.skipping /\ reader' = Invalidated(r)
    BY <1>1, <1>8 DEF Release, Readers
  <2> HIDE DEF r
  <2> QED  BY <1>2, <2>1
<1>9. CASE Recover
  <2> DEFINE r == [reader EXCEPT !.recover = FALSE]
  <2>1. r \in Readers /\ ~r.skip /\ ~r.skipping /\ reader' = Fetched(r)
    BY <1>1, <1>9 DEF Recover, Readers
  <2> HIDE DEF r
  <2> QED  BY <1>2, <2>1
<1>10. CASE Retry
  BY <1>1, <1>2, <1>10 DEF Retry
<1>11. CASE Live
  <2>1. reader' = reader \/ reader' = Invalidated(reader)
        \/ reader' = [reader EXCEPT !.cursor = Head(wire)]
    BY <1>11 DEF Live
  <2> QED  BY <1>1, <1>2, <2>1 DEF Readers
<1>12. CASE Serve
  BY <1>12, ServeIs
<1>13. CASE Receive
  <2> DEFINE r == [reader EXCEPT !.page = <<>>]
  <2>e. <<>> \in Seq(Nat)
    OBVIOUS
  <2>1. r \in Readers /\ ~r.skip /\ ~r.skipping
    BY <1>1, <2>e DEF Readers
  <2>2. reader' = Fetched(r) \/ reader' = AfterPage(reader)
    BY <1>13 DEF Receive
  <2> HIDE DEF r
  <2>3. ~AfterPage(reader).skip /\ ~AfterPage(reader).skipping
    BY <1>1, AfterPageIs
  <2> QED  BY <1>2, <2>1, <2>2, <2>3
<1>14. CASE Handover
  <2> DEFINE r == Fresh(reader.held, FALSE)
  <2>1. reader.held \in Nat
    BY <1>1 DEF Readers
  <2>2. r \in Readers /\ ~r.skip /\ ~r.skipping /\ reader' = Invalidated(r)
    BY <1>14, <2>1, FreshIs DEF Handover, Successor
  <2> HIDE DEF r
  <2> QED  BY <1>2, <2>2
<1>15. CASE UNCHANGED vars
  BY <1>15 DEF vars
<1> QED  BY <1>1, <1>3, <1>4, <1>5, <1>6, <1>7, <1>8, <1>9, <1>10, <1>11, <1>12, <1>13,
            <1>14, <1>15 DEF Next, ReaderStep, Disturbance

\* What a reader has not claimed of a page are the numbers right behind its cursor.
LEMMA UnclaimedRun ==
  ASSUME SafetyInv, PageFits(reader, seq)
  PROVE  LET new == Unclaimed(reader)
         IN  /\ AfterPage(reader).cursor = reader.cursor + Len(new)
             /\ \A i \in 1..Len(new) : new[i] = reader.cursor + i
<1> DEFINE page == reader.page
           a == reader.after
           c == reader.cursor
           k == Len(page)
           d == IF c - a <= k THEN c - a ELSE k
           P == {i \in DOMAIN page : page[i] > c}
           new == Unclaimed(reader)
<1>1. /\ reader \in Readers /\ a \in Nat /\ c \in Nat /\ page \in Seq(Nat) /\ k \in Nat
      /\ DOMAIN page = 1..k /\ a <= c /\ \A i \in 1..k : page[i] = a + i
  BY DEF SafetyInv, TypeOK, Readers, PageFits
<1>2. new = [i \in 1..Cardinality(P) |-> page[Ascending(P)[i]]]
  BY DEF Unclaimed, Picked
<1>3. AfterPage(reader).cursor = LastOf(new, c) /\ new \in Seq(Nat)
  BY <1>1, AfterPageIs, UnclaimedIs
<1> HIDE DEF page, a, c, new, k
<1>4. d \in Nat /\ d <= k /\ d <= c - a /\ (d = c - a \/ d = k)
  BY <1>1
<1>5. P = d + 1..k
  BY <1>1, <1>4
<1> HIDE DEF P, d
<1>6. Ascending(P) = [i \in 1..k - d |-> d + i]
  BY <1>1, <1>4, <1>5, AscendingInterval
<1>7. Cardinality(P) = k - d
  <2>1. d + 1 \in Int /\ k \in Int
    BY <1>1, <1>4
  <2>2. Cardinality(d + 1..k) = IF d + 1 > k THEN 0 ELSE k - (d + 1) + 1
    BY <2>1, FS_Interval
  <2> QED  BY <1>1, <1>4, <1>5, <2>2
<1>8. Len(new) = k - d
  BY <1>1, <1>2, <1>3, <1>4, <1>7
<1>9. \A i \in 1..k - d : new[i] = page[d + i] /\ d + i \in 1..k
  BY <1>1, <1>2, <1>4, <1>6, <1>7
<1>10. \A i \in 1..k - d : new[i] = c + i
  <2> TAKE i \in 1..k - d
  <2>1. new[i] = a + (d + i)
    BY <1>1, <1>9
  <2>2. d = c - a
    BY <1>1, <1>4
  <2> QED  BY <1>1, <2>1, <2>2
<1>11. LastOf(new, c) = c + Len(new)
  <2>1. CASE new = <<>>
    BY <1>1, <2>1 DEF LastOf
  <2>2. CASE new # <<>>
    <3>1. Len(new) \in 1..k - d
      BY <1>1, <1>3, <1>4, <1>8, <2>2
    <3> QED  BY <1>10, <2>2, <3>1 DEF LastOf
  <2> QED  BY <2>1, <2>2
<1> QED  BY <1>3, <1>8, <1>10, <1>11 DEF new, c

\* A number keeps its message, and every number has one.
LEMMA MessageAtNext ==
  ASSUME Sockets = {}, HttpInv, [Next]_vars
  PROVE  /\ \A n \in 1..seq : MessageAt(n) \in Messages /\ seqOf[MessageAt(n)] = n
         /\ \A n \in 1..seq' : MessageAt(n)' \in Messages /\ seqOf'[MessageAt(n)'] = n
         /\ \A n \in 1..seq : MessageAt(n)' = MessageAt(n)
         /\ seq \in Nat /\ seq' \in Nat /\ seq <= seq'
<1>1. /\ seq \in Nat /\ seq' \in Nat /\ seq <= seq'
      /\ \A m \in Stored : m \in Stored' /\ seqOf'[m] = seqOf[m]
      /\ \A m, n \in Stored' : seqOf'[m] = seqOf'[n] => m = n
  BY NumbersStep DEF HttpInv
<1>2. \A n \in 1..seq : n \in Numbers
  BY DEF HttpInv, Dense
<1>3. \A n \in 1..seq' : n \in Numbers'
  BY DenseStep DEF HttpInv, Dense
<1>4. ASSUME NEW n \in 1..seq
      PROVE  MessageAt(n) \in Stored /\ MessageAt(n) \in Messages /\ seqOf[MessageAt(n)] = n
  BY <1>2, MessageAtIs DEF HttpInv, Stored
<1>5. ASSUME NEW n \in 1..seq'
      PROVE  MessageAt(n)' \in Stored' /\ MessageAt(n)' \in Messages /\ seqOf'[MessageAt(n)'] = n
  <2>1. PICK m \in Stored' : seqOf'[m] = n
    BY <1>3 DEF Numbers
  <2>2. m \in Messages /\ n # 0
    BY <2>1 DEF Stored
  <2>3. MessageAt(n)' \in Messages /\ seqOf'[MessageAt(n)'] = n
    BY <2>1, <2>2 DEF MessageAt
  <2> QED  BY <2>2, <2>3 DEF Stored
<1>6. ASSUME NEW n \in 1..seq
      PROVE  MessageAt(n)' = MessageAt(n)
  <2>1. n \in 1..seq'
    BY <1>1
  <2> QED  BY <1>1, <1>4, <1>5, <2>1
<1> QED  BY <1>1, <1>4, <1>5, <1>6

\* Messages in the order of their numbers, and the next ones
LEMMA RunGrows ==
  ASSUME NEW c \in Nat, NEW msgs \in Seq(Messages),
         \A n \in 1..c + Len(msgs) : MessageAt(n) \in Messages,
         \A i \in 1..Len(msgs) : msgs[i] = MessageAt(c + i)
  PROVE  [n \in 1..c |-> MessageAt(n)] \o msgs
           = [n \in 1..c + Len(msgs) |-> MessageAt(n)]
<1> DEFINE k == Len(msgs)
           q == [n \in 1..c |-> MessageAt(n)]
           t == [n \in 1..c + k |-> MessageAt(n)]
           s == q \o msgs
<1>1. k \in Nat /\ \A n \in 1..c : n \in 1..c + k
  OBVIOUS
<1>2. q \in Seq(Messages) /\ Len(q) = c /\ \A n \in 1..c : q[n] = MessageAt(n)
  <2>1. \A n \in 1..c : MessageAt(n) \in Messages
    BY <1>1
  <2> QED  BY <2>1, IsASeq
<1>3. t \in Seq(Messages) /\ Len(t) = c + k /\ \A n \in 1..c + k : t[n] = MessageAt(n)
  BY <1>1, IsASeq
<1> HIDE DEF q
<1>4. /\ s \in Seq(Messages) /\ Len(s) = Len(q) + k
      /\ \A i \in 1..Len(q) : s[i] = q[i]
      /\ \A i \in Len(q) + 1..Len(q) + k : s[i] = msgs[i - Len(q)] /\ i - Len(q) \in 1..k
  BY <1>2, ConcatElements, ConcatProperties
<1> HIDE DEF s, t, k
<1>5. \A i \in c + 1..c + k : s[i] = MessageAt(i)
  <2> TAKE i \in c + 1..c + k
  <2>1. s[i] = msgs[i - c] /\ i - c \in 1..k
    BY <1>2, <1>4
  <2>2. msgs[i - c] = MessageAt(c + (i - c))
    BY <2>1 DEF k
  <2>3. c + (i - c) = i
    BY <1>1
  <2> QED  BY <2>1, <2>2, <2>3
<1>6. \A i \in 1..c + k : s[i] = t[i]
  <2> TAKE i \in 1..c + k
  <2>1. i \in 1..c \/ i \in c + 1..c + k
    BY <1>1
  <2> QED  BY <1>2, <1>3, <1>4, <1>5, <2>1
<1>7. s = t
  BY <1>2, <1>3, <1>4, <1>6, SeqEqual
<1> QED  BY <1>7 DEF s, t, q, k

\* What is routed are the messages up to the cursor.
LEMMA PrefixStep ==
  ASSUME Sockets = {}, "restart" \notin Faults, HttpInv, Prefix, [Next]_vars
  PROVE  /\ Prefix'
         /\ reader.cursor \in Nat /\ reader.cursor <= reader'.cursor
         /\ reader'.cursor \in Nat /\ reader'.cursor <= seq
<1> DEFINE Run(c) == [n \in 1..c |-> MessageAt(n)]
           Grows == /\ reader'.cursor \in Nat /\ reader.cursor <= reader'.cursor
                    /\ reader'.cursor <= seq /\ routed' = Run(reader'.cursor)
<1>1. /\ SafetyInv /\ reader \in Readers /\ reader.cursor \in Nat /\ reader.cursor <= seq
      /\ seq \in Nat /\ routed = Run(reader.cursor) /\ routed \in Seq(Messages)
      /\ ~reader.skip /\ ~reader.skipping
  BY DEF HttpInv, SafetyInv, TypeOK, Readers, PageFits, Prefix
<1>2. \A n \in 1..seq : MessageAt(n) \in Messages /\ MessageAt(n)' = MessageAt(n)
  BY MessageAtNext
<1>3. Grows
  <2>1. CASE reader'.cursor = reader.cursor /\ routed' = routed
    BY <1>1, <2>1
  <2>2. CASE Live /\ ~ReaderRests
    <3> DEFINE c == reader.cursor
               m == MessageAt(c + 1)
               one == <<m>>
    <3>1. /\ c + 1 \in Numbers /\ reader' = [reader EXCEPT !.cursor = c + 1]
          /\ routed' = Append(routed, m) /\ m \in Messages
      BY <1>1, <2>2, LiveIs DEF Stored
    <3>2. reader'.cursor = c + 1 /\ c + 1 \in 1..seq
      BY <1>1, <3>1, MessageAtIs DEF Readers
    <3>3. one \in Seq(Messages) /\ Len(one) = 1 /\ one[1] = m /\ routed' = routed \o one
      BY <1>1, <3>1, AppendIsConcat
    <3> HIDE DEF one
    <3>4. /\ \A n \in 1..c + Len(one) : MessageAt(n) \in Messages
          /\ \A i \in 1..Len(one) : one[i] = MessageAt(c + i)
      <4>1. \A n \in 1..c + 1 : n \in 1..seq
        BY <1>1, <3>2
      <4>2. \A i \in 1..1 : i = 1
        OBVIOUS
      <4> QED  BY <1>2, <3>3, <4>1, <4>2
    <3>5. Run(c) \o one = Run(c + Len(one))
      BY <1>1, <3>3, <3>4, RunGrows
    <3> QED  BY <1>1, <3>2, <3>3, <3>5
  <2>3. CASE Receive /\ ~ReaderRests
    <3> DEFINE c == reader.cursor
               new == Unclaimed(reader)
               msgs == [i \in DOMAIN new |-> MessageAt(new[i])]
    <3>1. reader' = AfterPage(reader) /\ routed' = routed \o msgs
      BY <1>1, <2>3, ReceiveIs
    <3>2. /\ AfterPage(reader).cursor = c + Len(new)
          /\ \A i \in 1..Len(new) : new[i] = c + i
      BY <1>1, UnclaimedRun DEF HttpInv
    <3>3. AfterPage(reader).cursor <= seq
      BY <1>1, TakenFits DEF HttpInv
    <3>4. /\ new \in Seq(Nat) /\ DOMAIN new = 1..Len(new) /\ Len(new) \in Nat
          /\ msgs \in Seq(Messages) /\ Len(msgs) = Len(new)
      BY <1>1, UnclaimedUsed, MessagesOf
    <3>5. \A i \in 1..Len(new) : msgs[i] = MessageAt(new[i])
      BY <3>4
    <3> HIDE DEF msgs, new
    <3>6. \A i \in 1..Len(msgs) : msgs[i] = MessageAt(c + i)
      BY <3>2, <3>4, <3>5
    <3>7. \A n \in 1..c + Len(msgs) : MessageAt(n) \in Messages
      <4>1. \A n \in 1..c + Len(msgs) : n \in 1..seq
        BY <1>1, <3>2, <3>3, <3>4
      <4> QED  BY <1>2, <4>1
    <3>8. Run(c) \o msgs = Run(c + Len(msgs))
      BY <1>1, <3>4, <3>6, <3>7, RunGrows
    <3>9. reader'.cursor = c + Len(msgs) /\ routed' = Run(c + Len(msgs))
      BY <1>1, <3>1, <3>2, <3>4, <3>8
    <3>10. reader'.cursor \in Nat /\ c <= reader'.cursor /\ reader'.cursor <= seq
      <4>1. c \in Nat /\ Len(msgs) \in Nat
        BY <1>1, <3>4
      <4> QED  BY <3>1, <3>3, <3>9, <4>1
    <3>11. routed' = Run(reader'.cursor)
      BY <3>9
    <3> QED  BY <3>10, <3>11
  <2>4. Serve => reader'.cursor = reader.cursor /\ routed' = routed
    BY <1>1, ServeIs DEF Serve, history
  <2>5. ~Restart
    BY DEF Restart, Fault
  <2> QED  BY <1>1, <2>1, <2>2, <2>3, <2>4, <2>5, PlaceSteps DEF ReaderStays
<1>4. ~reader'.skip /\ ~reader'.skipping
  BY <1>1, SkipStep
<1>5. \A n \in 1..reader'.cursor : MessageAt(n)' = MessageAt(n)
  <2>1. \A n \in 1..reader'.cursor : n \in 1..seq
    BY <1>1, <1>3
  <2> QED  BY <1>2, <2>1
<1>6. routed' = [n \in 1..reader'.cursor |-> MessageAt(n)']
  BY <1>3, <1>5
<1> QED  BY <1>1, <1>3, <1>4, <1>6 DEF Prefix

\* There are as many messages in the log as numbers were given.
LEMMA StoredCount == HttpInv => Cardinality(Stored) = seq
<1> SUFFICES ASSUME HttpInv PROVE Cardinality(Stored) = seq
  OBVIOUS
<1> DEFINE f == [m \in Stored |-> seqOf[m]]
<1>1. /\ SafetyInv /\ seq \in Nat /\ Numbers = 1..seq
      /\ \A m, n \in Stored : seqOf[m] = seqOf[n] => m = n
  BY StoredFinite DEF HttpInv, SafetyInv, TypeOK, LogTrue, Dense
<1>2. f \in [Stored -> 1..seq]
  BY <1>1 DEF Numbers
<1>3. f \in Injection(Stored, 1..seq)
  BY <1>1, <1>2 DEF Injection, IsInjective
<1>4. \A n \in 1..seq : \E m \in Stored : f[m] = n
  BY <1>1 DEF Numbers
<1>5. f \in Surjection(Stored, 1..seq)
  BY <1>2, <1>4 DEF Surjection
<1>6. ExistsBijection(Stored, 1..seq)
  BY <1>3, <1>5 DEF ExistsBijection, Bijection
<1>7. IsFiniteSet(Stored)
  BY <1>1, StoredFinite
<1>8. Cardinality(1..seq) = seq
  BY <1>1, FS_Interval
<1>9. Cardinality(1..seq) = Cardinality(Stored)
  BY <1>6, <1>7, FS_Bijection
<1> QED  BY <1>8, <1>9

\* One sequence begins with another.
LEMMA PrefixIs ==
  ASSUME NEW T, NEW s \in Seq(T), NEW t \in Seq(T), Len(s) <= Len(t),
         \A i \in 1..Len(s) : s[i] = t[i]
  PROVE  Promise!IsPrefixOf(s, t)
<1> DEFINE k == Len(s)
           p == SubSeq(t, 1, k)
<1>1. k \in Nat /\ Len(t) \in Nat /\ 1 \in 1..Len(t) + 1 /\ k \in 0..Len(t) /\ 1 <= k + 1
  OBVIOUS
<1>2. p \in Seq(T) /\ Len(p) = k - 1 + 1 /\ \A j \in 1..k - 1 + 1 : p[j] = t[1 + j - 1]
  BY <1>1, PartOf
<1> HIDE DEF p
<1>3. Len(p) = k /\ \A j \in 1..k : p[j] = s[j]
  BY <1>1, <1>2
<1>4. s = p
  BY <1>2, <1>3, SeqEqual
<1> QED  BY <1>4 DEF p, Promise!IsPrefixOf

LEMMA PromiseInit == Init => Promise!Init
<1> SUFFICES ASSUME Init PROVE Promise!Init
  OBVIOUS
<1>1. Cardinality(Stored) = 0
  BY HttpInit, StoredCount DEF Init
<1>2. [n \in 1..0 |-> MessageAt(n)] = <<>>
  OBVIOUS
<1>3. [n \in 1..Cardinality(Stored) |-> MessageAt(n)] = <<>>
  BY <1>1, <1>2
<1> QED  BY <1>3 DEF Init, Promise!Init

\* Every step stores messages behind those of the log, or routes the next ones, or is
\* none of the promise's.
LEMMA PromiseStep ==
  ASSUME Sockets = {}, "restart" \notin Faults, HttpInv, Prefix, HttpInv', [Next]_vars
  PROVE  [Promise!Next]_Promise!vars
<1> DEFINE old == [n \in 1..seq |-> MessageAt(n)]
           new == [n \in 1..seq' |-> MessageAt(n)']
<1>1. /\ \A n \in 1..seq : MessageAt(n) \in Messages /\ seqOf[MessageAt(n)] = n
      /\ \A n \in 1..seq' : MessageAt(n)' \in Messages /\ seqOf'[MessageAt(n)'] = n
      /\ \A n \in 1..seq : MessageAt(n)' = MessageAt(n)
      /\ seq \in Nat /\ seq' \in Nat /\ seq <= seq'
  BY MessageAtNext
<1>2. [n \in 1..Cardinality(Stored) |-> MessageAt(n)] = old
  BY StoredCount
<1>3. [n \in 1..Cardinality(Stored)' |-> MessageAt(n)'] = new
  <2>1. (Cardinality(Stored) = seq)'
    BY StoredCount, PTL
  <2> QED  BY <2>1
<1>4. old \in Seq(Messages) /\ Len(old) = seq /\ \A n \in 1..seq : old[n] = MessageAt(n)
  BY <1>1, IsASeq
<1>5. /\ new \in Seq(Messages) /\ Len(new) = seq' /\ DOMAIN new = 1..seq'
      /\ \A n \in 1..seq' : new[n] = MessageAt(n)'
  BY <1>1, IsASeq
<1>6. CASE seq' = seq /\ UNCHANGED seqOf
  <2>1. new = old
    BY <1>1, <1>6
  <2>2. /\ routed = [n \in 1..reader.cursor |-> MessageAt(n)]
        /\ routed' = [n \in 1..reader'.cursor |-> MessageAt(n)']
        /\ reader.cursor \in Nat /\ reader'.cursor \in Nat
        /\ reader.cursor <= reader'.cursor /\ reader'.cursor <= seq
    BY PrefixStep DEF Prefix
  <2> DEFINE c == reader.cursor
             d == reader'.cursor
  <2> HIDE DEF c, d
  <2>3. /\ routed = [n \in 1..c |-> MessageAt(n)]
        /\ routed' = [n \in 1..d |-> MessageAt(n)']
        /\ c \in Nat /\ d \in Nat /\ c <= d /\ d <= seq
    BY <2>2 DEF c, d
  <2>4. \A n \in 1..d : n \in 1..seq
    BY <1>1, <2>3
  <2>5. routed' \in Seq(Messages) /\ Len(routed') = d /\ \A n \in 1..d : routed'[n] = MessageAt(n)
    <3>1. \A n \in 1..d : MessageAt(n)' \in Messages /\ MessageAt(n)' = MessageAt(n)
      BY <1>1, <2>4
    <3>2. routed' = [n \in 1..d |-> MessageAt(n)] /\ \A n \in 1..d : MessageAt(n) \in Messages
      BY <2>3, <3>1
    <3> QED  BY <2>3, <3>2, IsASeq
  <2>6. routed \in Seq(Messages) /\ Len(routed) = c /\ \A n \in 1..c : routed[n] = MessageAt(n)
    <3>1. \A n \in 1..c : n \in 1..d
      BY <2>3
    <3>2. \A n \in 1..c : MessageAt(n) \in Messages
      BY <1>1, <2>4, <3>1
    <3> QED  BY <2>3, <3>2, IsASeq
  <2>7. Promise!IsPrefixOf(routed, routed')
    <3>1. \A n \in 1..c : n \in 1..d
      BY <2>3
    <3>2. Len(routed) <= Len(routed') /\ \A n \in 1..Len(routed) : routed[n] = routed'[n]
      BY <2>3, <2>5, <2>6, <3>1
    <3> QED  BY <2>5, <2>6, <3>2, PrefixIs
  <2>8. Promise!IsPrefixOf(routed', old)
    <3>1. Len(routed') <= Len(old) /\ \A n \in 1..Len(routed') : routed'[n] = old[n]
      BY <1>4, <2>3, <2>4, <2>5
    <3> HIDE DEF old
    <3> QED  BY <1>4, <2>5, <3>1, PrefixIs
  <2> QED  BY <1>2, <1>3, <2>1, <2>5, <2>7, <2>8 DEF Promise!Next, Promise!Route
<1>7. CASE \E r \in requests : Commit(r)
  <2>1. routed' = routed
    BY <1>7 DEF Commit, history
  <2>2. Promise!IsPrefixOf(old, new)
    <3>1. \A n \in 1..seq : n \in 1..seq'
      BY <1>1
    <3>2. Len(old) <= Len(new) /\ \A n \in 1..Len(old) : old[n] = new[n]
      BY <1>1, <1>4, <1>5, <3>1
    <3> HIDE DEF old, new
    <3> QED  BY <1>4, <1>5, <3>2, PrefixIs
  <2>3. \A i, j \in 1..seq' : new[i] = new[j] => i = j
    BY <1>1, <1>5
  <2>4. \A i, j \in DOMAIN new : new[i] = new[j] => i = j
    BY <1>5, <2>3
  <2> QED  BY <1>2, <1>3, <1>5, <2>1, <2>2, <2>4 DEF Promise!Next, Promise!Store
<1> QED  BY <1>6, <1>7, NumberSteps

\* With HTTP writers alone, and unless a process ends without a refresh, the session's
\* log is a sequence and the process is given a prefix of it: every message once and
\* in order, whatever requests, announcements, connections and restarts of the centre
\* are lost or repeated, and whatever process takes over.
THEOREM PromiseIsKept ==
  ASSUME Sockets = {}, "restart" \notin Faults
  PROVE  Spec => PromiseKept
<1>1. Init => HttpInv /\ Prefix
  <2>1. Init => ~reader.skip /\ ~reader.skipping /\ reader.cursor = 0 /\ routed = <<>>
    BY FreshIs DEF Init, Fresh
  <2> QED  BY <2>1, HttpInit DEF Prefix
<1>2. HttpInv /\ Prefix /\ [Next]_vars => (HttpInv /\ Prefix)'
  BY HttpStep, PrefixStep
<1>3. HttpInv /\ Prefix /\ HttpInv' /\ [Next]_vars => [Promise!Next]_Promise!vars
  BY PromiseStep
<1> QED  BY <1>1, <1>2, <1>3, PromiseInit, PTL DEF Spec, PromiseKept, Promise!Spec
=============================================================================
