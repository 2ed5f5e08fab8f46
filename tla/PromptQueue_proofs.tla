------------------------- MODULE PromptQueue_proofs -------------------------
(***************************************************************************)
(* Proofs about PromptQueue: for any prompts, shared commands, faults and  *)
(* presses of the buttons.                                                 *)
(***************************************************************************)
EXTENDS PromptQueue, SequenceTheorems, TLAPS

-----------------------------------------------------------------------------
(* What the queue's operations do to a queue that holds every prompt once. *)

\* A queue of prompts of S, each of them once
OnceEach(q, S) ==
  /\ q \in Seq(S)
  /\ \A i, j \in 1..Len(q) : q[i] = q[j] => i = j

\* That is what the type invariant says of the queue.
LEMMA OnceIsInjective ==
  ASSUME NEW S, NEW q
  PROVE  OnceEach(q, S) <=> q \in Seq(S) /\ IsInjective(q)
<1>1. q \in Seq(S) => DOMAIN q = 1..Len(q)
  OBVIOUS
<1> QED  BY <1>1 DEF OnceEach, IsInjective

\* What a part of a sequence holds
LEMMA PartOf ==
  ASSUME NEW S, NEW q \in Seq(S), NEW m \in 1..(Len(q) + 1), NEW n \in 0..Len(q),
         m <= n + 1
  PROVE  /\ SubSeq(q, m, n) \in Seq(S)
         /\ Len(SubSeq(q, m, n)) = n - m + 1
         /\ \A j \in 1..(n - m + 1) : SubSeq(q, m, n)[j] = q[m + j - 1]
<1>1. m \in Int /\ n \in Int /\ Len(q) \in Nat
  OBVIOUS
<1>2. \A j \in m..n : q[j] \in S
  BY <1>1
<1> QED  BY <1>1, <1>2, SubSeqProperties

\* findIndex and splice take out the one prompt there is.
LEMMA Removed ==
  ASSUME NEW S, NEW q, OnceEach(q, S), NEW k
  PROVE  /\ OnceEach(RemoveFirst(q, k), S)
         /\ ToSet(RemoveFirst(q, k)) = ToSet(q) \ {k}
<1>1. CASE ~\E i \in 1..Len(q) : q[i] = k
  <2>1. RemoveFirst(q, k) = q
    BY <1>1 DEF RemoveFirst
  <2>2. k \notin ToSet(q)
    BY <1>1 DEF ToSet, OnceEach
  <2> QED  BY <2>1, <2>2
<1>2. CASE \E i \in 1..Len(q) : q[i] = k
  <2>1. PICK i \in 1..Len(q) : q[i] = k
    BY <1>2
  <2> DEFINE I == {j \in 1..Len(q) : q[j] = k}
             r == RemoveAt(q, i)
  <2>2. I = {i}
    BY <2>1 DEF OnceEach
  <2>3. SelectInSeq(q, LAMBDA v : v = k) = i
    <3>1. Min({i}) = i
      BY DEF Min
    <3> QED  BY <2>2, <3>1 DEF SelectInSeq
  <2>4. RemoveFirst(q, k) = r
    BY <1>2, <2>3 DEF RemoveFirst
  <2>5. /\ r \in Seq(S) /\ Len(r) = Len(q) - 1
        /\ \A j \in 1..Len(r) : r[j] = IF j < i THEN q[j] ELSE q[j + 1]
    <3> DEFINE a == SubSeq(q, 1, i - 1)
               b == SubSeq(q, i + 1, Len(q))
    <3>1. /\ a \in Seq(S) /\ Len(a) = i - 1
          /\ \A j \in 1..(i - 1) : a[j] = q[j]
      BY PartOf DEF OnceEach
    <3>2. /\ b \in Seq(S) /\ Len(b) = Len(q) - i
          /\ \A j \in 1..(Len(q) - i) : b[j] = q[i + j]
      BY PartOf DEF OnceEach
    <3>3. r = a \o b
      BY DEF RemoveAt
    <3> HIDE DEF a, b, r
    <3>4. r \in Seq(S) /\ Len(r) = Len(q) - 1
      BY <3>1, <3>2, <3>3, ConcatProperties DEF OnceEach
    <3>5. \A j \in 1..Len(r) : r[j] = IF j <= i - 1 THEN a[j] ELSE b[j - (i - 1)]
      BY <3>1, <3>2, <3>3, <3>4, ConcatProperties DEF OnceEach
    <3> QED  BY <3>1, <3>2, <3>4, <3>5 DEF OnceEach
  <2> HIDE DEF r
  <2>6. ASSUME NEW a \in 1..Len(r), NEW b \in 1..Len(r), r[a] = r[b]
        PROVE  a = b
    <3> DEFINE At1(j) == IF j < i THEN j ELSE j + 1
    <3>1. At1(a) \in 1..Len(q) /\ At1(b) \in 1..Len(q) /\ q[At1(a)] = q[At1(b)]
      BY <2>5, <2>6 DEF OnceEach
    <3>2. At1(a) = At1(b)
      BY <3>1 DEF OnceEach
    <3> QED  BY <3>2
  <2>7. ToSet(r) \subseteq ToSet(q) \ {k}
    BY <2>1, <2>5 DEF ToSet, OnceEach
  <2>8. ASSUME NEW e \in ToSet(q) \ {k}
        PROVE  e \in ToSet(r)
    <3>1. PICK j \in 1..Len(q) : q[j] = e
      BY <2>8 DEF ToSet, OnceEach
    <3>2. j # i
      BY <2>1, <2>8, <3>1
    <3>3. CASE j < i
      <4>1. j \in 1..Len(r) /\ r[j] = e
        BY <2>5, <3>1, <3>3
      <4> QED  BY <4>1, <2>5 DEF ToSet
    <3>4. CASE j > i
      <4>1. j - 1 \in 1..Len(r) /\ r[j - 1] = e
        BY <2>5, <3>1, <3>4
      <4> QED  BY <4>1, <2>5 DEF ToSet
    <3> QED  BY <3>2, <3>3, <3>4
  <2> QED  BY <2>4, <2>5, <2>6, <2>7, <2>8 DEF OnceEach
<1> QED  BY <1>1, <1>2

\* Any place will do for one that is put in.
LEMMA Inserted ==
  ASSUME NEW S, NEW q, OnceEach(q, S), NEW k \in S, k \notin ToSet(q),
         NEW i \in 1..(Len(q) + 1)
  PROVE  /\ OnceEach(InsertAt(q, i, k), S)
         /\ ToSet(InsertAt(q, i, k)) = ToSet(q) \cup {k}
<1> DEFINE r == InsertAt(q, i, k)
<1>1. /\ r \in Seq(S) /\ Len(r) = Len(q) + 1
      /\ \A j \in 1..Len(r) :
           r[j] = IF j < i THEN q[j] ELSE IF j = i THEN k ELSE q[j - 1]
  <2> DEFINE a == SubSeq(q, 1, i - 1)
             b == SubSeq(q, i, Len(q))
             c == a \o <<k>>
  <2>1. /\ a \in Seq(S) /\ Len(a) = i - 1
        /\ \A j \in 1..(i - 1) : a[j] = q[j]
    BY PartOf DEF OnceEach
  <2>2. /\ b \in Seq(S) /\ Len(b) = Len(q) - i + 1
        /\ \A j \in 1..(Len(q) - i + 1) : b[j] = q[i + j - 1]
    BY PartOf DEF OnceEach
  <2>3. r = c \o b
    BY DEF InsertAt
  <2>4. <<k>> \in Seq(S) /\ Len(<<k>>) = 1 /\ <<k>>[1] = k
    OBVIOUS
  <2> HIDE DEF a, b, r
  <2>5. /\ c \in Seq(S) /\ Len(c) = i
        /\ \A j \in 1..i : c[j] = IF j <= i - 1 THEN a[j] ELSE <<k>>[j - (i - 1)]
    BY <2>1, <2>4, ConcatProperties
  <2> HIDE DEF c
  <2>6. r \in Seq(S) /\ Len(r) = Len(q) + 1
    BY <2>2, <2>3, <2>5, ConcatProperties DEF OnceEach
  <2>7. \A j \in 1..Len(r) : r[j] = IF j <= i THEN c[j] ELSE b[j - i]
    BY <2>2, <2>3, <2>5, <2>6, ConcatProperties DEF OnceEach
  <2>8. ASSUME NEW j \in 1..Len(r)
        PROVE  r[j] = IF j < i THEN q[j] ELSE IF j = i THEN k ELSE q[j - 1]
    <3>1. CASE j < i
      BY <3>1, <2>1, <2>5, <2>7
    <3>2. CASE j = i
      BY <3>2, <2>4, <2>5, <2>7
    <3>3. CASE j > i
      <4>1. j - i \in 1..(Len(q) - i + 1) /\ i + (j - i) - 1 = j - 1
        BY <3>3, <2>6 DEF OnceEach
      <4> QED  BY <3>3, <4>1, <2>2, <2>7
    <3> QED  BY <3>1, <3>2, <3>3
  <2> QED  BY <2>6, <2>8
<1> HIDE DEF r
<1>2. \A j \in 1..Len(q) : q[j] # k
  BY DEF ToSet, OnceEach
<1>3. ASSUME NEW a \in 1..Len(r), NEW b \in 1..Len(r), r[a] = r[b]
      PROVE  a = b
  <2> DEFINE From(j) == IF j < i THEN j ELSE j - 1
  <2>1. a = i <=> b = i
    <3>1. \A j \in 1..Len(r) : j # i => r[j] # k
      BY <1>1, <1>2 DEF OnceEach
    <3> QED  BY <1>1, <1>3, <3>1
  <2>2. CASE a # i /\ b # i
    <3>1. /\ From(a) \in 1..Len(q) /\ From(b) \in 1..Len(q)
          /\ q[From(a)] = q[From(b)]
      BY <1>1, <1>3, <2>2 DEF OnceEach
    <3>2. From(a) = From(b)
      BY <3>1 DEF OnceEach
    <3> QED  BY <2>2, <3>2
  <2> QED  BY <2>1, <2>2
<1>4. ToSet(r) \subseteq ToSet(q) \cup {k}
  BY <1>1 DEF ToSet, OnceEach
<1>5. k \in ToSet(r)
  BY <1>1 DEF ToSet, OnceEach
<1>6. ASSUME NEW e \in ToSet(q)
      PROVE  e \in ToSet(r)
  <2>1. PICK j \in 1..Len(q) : q[j] = e
    BY <1>6 DEF ToSet, OnceEach
  <2>2. CASE j < i
    <3>1. j \in 1..Len(r) /\ r[j] = e
      BY <1>1, <2>1, <2>2
    <3> QED  BY <3>1, <1>1 DEF ToSet
  <2>3. CASE j >= i
    <3>1. j + 1 \in 1..Len(r) /\ r[j + 1] = e
      BY <1>1, <2>1, <2>3
    <3> QED  BY <3>1, <1>1 DEF ToSet
  <2> QED  BY <2>2, <2>3
<1>7. OnceEach(r, S)
  BY <1>1, <1>3 DEF OnceEach
<1> QED  BY <1>4, <1>5, <1>6, <1>7 DEF r

\* push
LEMMA Appended ==
  ASSUME NEW S, NEW q, OnceEach(q, S), NEW k \in S, k \notin ToSet(q)
  PROVE  /\ OnceEach(Append(q, k), S)
         /\ ToSet(Append(q, k)) = ToSet(q) \cup {k}
<1> DEFINE r == Append(q, k)
<1>1. /\ r \in Seq(S) /\ Len(r) = Len(q) + 1
      /\ \A j \in 1..Len(r) : r[j] = IF j <= Len(q) THEN q[j] ELSE k
  BY AppendProperties DEF OnceEach
<1> HIDE DEF r
<1>2. \A j \in 1..Len(q) : q[j] # k
  BY DEF ToSet, OnceEach
<1>3. ASSUME NEW a \in 1..Len(r), NEW b \in 1..Len(r), r[a] = r[b]
      PROVE  a = b
  <2>1. Len(q) \in Nat /\ \A i, j \in 1..Len(q) : q[i] = q[j] => i = j
    BY DEF OnceEach
  <2> QED  BY <1>1, <1>2, <1>3, <2>1
<1>4. ToSet(r) = ToSet(q) \cup {k}
  BY <1>1 DEF ToSet, OnceEach
<1> QED  BY <1>1, <1>3, <1>4 DEF r, OnceEach

\* unshift
LEMMA PutInFront ==
  ASSUME NEW S, NEW q, OnceEach(q, S), NEW k \in S, k \notin ToSet(q)
  PROVE  /\ OnceEach(<<k>> \o q, S)
         /\ ToSet(<<k>> \o q) = ToSet(q) \cup {k}
<1>1. SubSeq(q, 1, 0) = <<>> /\ SubSeq(q, 1, Len(q)) = q
  BY SubSeqEmpty, SubSeqFull DEF OnceEach
<1>2. <<>> \o <<k>> = <<k>>
  BY ConcatEmptySeq
<1>3. <<k>> \o q = InsertAt(q, 1, k)
  <2>1. InsertAt(q, 1, k) = SubSeq(q, 1, 0) \o <<k>> \o SubSeq(q, 1, Len(q))
    <3>1. 1 - 1 = 0
      OBVIOUS
    <3> QED  BY <3>1 DEF InsertAt
  <2> QED  BY <1>1, <1>2, <2>1
<1>4. 1 \in 1..(Len(q) + 1)
  BY LenProperties DEF OnceEach
<1>5. /\ OnceEach(InsertAt(q, 1, k), S)
      /\ ToSet(InsertAt(q, 1, k)) = ToSet(q) \cup {k}
  BY <1>4, Inserted
<1> QED  BY ONLY <1>3, <1>5

\* What a process begins with
LEMMA EmptyQueue ==
  ASSUME NEW S
  PROVE  OnceEach(<<>>, S) /\ ToSet(<<>>) = {}
BY DEF OnceEach, ToSet

\* A batch taken from the front, and what is left
LEMMA Divided ==
  ASSUME NEW S, NEW q, OnceEach(q, S), NEW n \in 1..Len(q)
  PROVE  /\ OnceEach(SubSeq(q, n + 1, Len(q)), S)
         /\ ToSet(SubSeq(q, 1, n)) \subseteq ToSet(q)
         /\ ToSet(SubSeq(q, n + 1, Len(q))) = ToSet(q) \ ToSet(SubSeq(q, 1, n))
<1> DEFINE b == SubSeq(q, 1, n)
           r == SubSeq(q, n + 1, Len(q))
<1>1. /\ r \in Seq(S) /\ Len(r) = Len(q) - n
      /\ \A j \in 1..Len(r) : r[j] = q[n + j]
  BY PartOf DEF OnceEach
<1>2. /\ b \in Seq(S) /\ Len(b) = n
      /\ \A j \in 1..n : b[j] = q[j]
  BY PartOf DEF OnceEach
<1> HIDE DEF b, r
<1>3. ASSUME NEW i \in 1..Len(r), NEW j \in 1..Len(r), r[i] = r[j]
      PROVE  i = j
  <2>1. n + i \in 1..Len(q) /\ n + j \in 1..Len(q) /\ q[n + i] = q[n + j]
    BY <1>1, <1>3 DEF OnceEach
  <2>2. n + i = n + j
    BY <2>1 DEF OnceEach
  <2> QED  BY <2>2
<1>4. ToSet(b) \subseteq ToSet(q)
  BY <1>2 DEF ToSet, OnceEach
<1>5. ASSUME NEW i \in 1..Len(r)
      PROVE  r[i] \in ToSet(q) \ ToSet(b)
  <2>1. n + i \in 1..Len(q) /\ r[i] = q[n + i]
    BY <1>1 DEF OnceEach
  <2>2. \A j \in 1..n : j \in 1..Len(q) /\ q[j] # q[n + i]
    BY <2>1 DEF OnceEach
  <2> QED  BY <1>2, <2>1, <2>2 DEF ToSet, OnceEach
<1>6. ASSUME NEW e \in ToSet(q), e \notin ToSet(b)
      PROVE  e \in ToSet(r)
  <2>1. PICK j \in 1..Len(q) : q[j] = e
    BY <1>6 DEF ToSet, OnceEach
  <2>2. j > n
    BY <1>2, <1>6, <2>1 DEF ToSet
  <2>3. j - n \in 1..Len(r) /\ r[j - n] = e
    BY <1>1, <2>1, <2>2
  <2> QED  BY <2>3, <1>1 DEF ToSet
<1>7. ToSet(r) \subseteq ToSet(q) \ ToSet(b)
  BY <1>1, <1>5 DEF ToSet
<1>8. OnceEach(r, S)
  BY <1>1, <1>3 DEF OnceEach
<1> QED  BY <1>4, <1>6, <1>7, <1>8 DEF b, r

-----------------------------------------------------------------------------
(* The inductive invariant.                                                *)

Suspended == consumer.at \in {"asking", "claiming", "answered"}

\* A prompt the consumer has seen at the head, and is suspended for, has arrived,
\* and either still waits or its sender was told that it will not run.
HeadIs(k) ==
  /\ k \in arrived
  /\ k \in Own =>
       /\ k \notin Lifted
       /\ Waits(k) \/ "withdrawn" \in receipts[k]

HeadTrue ==
  /\ Suspended => HeadIs(consumer.head)
  /\ consumer.at = "claiming" => consumer.head \in Shared

\* Nothing is lifted out twice.
SteeringTrue == \A a, b \in steering : a.key = b.key => a = b

\* What waits has arrived, and so has what this process has claimed; what has
\* arrived is accounted for.
ArrivedTrue ==
  /\ \A k \in Keys : Waits(k) \/ k \in Lifted \/ k \in admitted => k \in arrived
  /\ \A k \in arrived :
       Waits(k) \/ k \in Lifted \/ receipts[k] # {} \/ k \in lost
  /\ \A k \in reviewed : Waits(k) => k \in restored

\* The app is told of a prompt of the owner once, when it no longer waits; what
\* has run was released.
OwnIs(k) ==
  /\ k \notin arrived => receipts[k] = {}
  /\ Waits(k) \/ k \in Lifted => receipts[k] = {}
  /\ Waits(k) => k \notin Lifted
  /\ ~("released" \in receipts[k] /\ "withdrawn" \in receipts[k])
  /\ ran[k] = 0 \/ (ran[k] = 1 /\ "released" \in receipts[k])

OwnTrue == \A k \in Own : OwnIs(k)

PromptsTrue == HeadTrue /\ SteeringTrue /\ ArrivedTrue /\ OwnTrue

\* A shared command that has run was claimed, and is not claimed again.  One
\* that this process has claimed runs while it waits here, or never.
CommandIs(k) ==
  /\ ran[k] = 0 \/ (ran[k] = 1 /\ command[k] = "started")
  /\ k \in admitted => command[k] = "started"
  /\ k \in admitted /\ Waits(k) => ran[k] = 0

\* The claim just granted is of a command that has not run.
ClaimTrue ==
  consumer.at = "answered" /\ consumer.allowed /\ consumer.head \in Shared \ admitted =>
    command[consumer.head] = "started" /\ ran[consumer.head] = 0

\* A command outdated by a change of the sharing is never claimed.
VersionIs(k) ==
  /\ queuedUnder[k] <= policy.version
  /\ k \in outdated =>
       \/ command[k] = "cancelled"
       \/ command[k] = "queued" /\ queuedUnder[k] < policy.version

SharedTrue ==
  /\ \A k \in Shared : CommandIs(k) /\ VersionIs(k)
  /\ ClaimTrue

SafetyInv == TypeOK /\ PromptsTrue /\ SharedTrue

-----------------------------------------------------------------------------
(* What the proofs of several steps share.                                 *)

\* Prompts and commands are keys.
LEMMA KeysTyped ==
  /\ Own \subseteq Keys /\ Shared \subseteq Keys /\ Own \cap Shared = {}
  /\ Keys = Own \cup Shared
BY QueueAssumption DEF Keys

\* What waits is a key, and the head of the queue waits.
LEMMA QueueTyped ==
  ASSUME TypeOK
  PROVE  /\ OnceEach(queue, Keys)
         /\ ToSet(queue) \subseteq Keys
         /\ queue # <<>> => Head(queue) \in ToSet(queue)
<1>1. OnceEach(queue, Keys)
  BY OnceIsInjective DEF TypeOK
<1>2. ToSet(queue) \subseteq Keys
  BY ElementOfSeq DEF TypeOK, ToSet
<1>3. queue # <<>> => Head(queue) = queue[1] /\ 1 \in DOMAIN queue
  BY HeadTailProperties, EmptySeq, LenProperties DEF TypeOK
<1> QED  BY <1>1, <1>2, <1>3 DEF ToSet

\* Whose receipts grow
LEMMA ToldEffect ==
  ASSUME NEW keys, NEW what, receipts' = Told(keys, what)
  PROVE  \A k \in Keys :
           receipts'[k] = IF k \in keys THEN receipts[k] \cup {what} ELSE receipts[k]
BY DEF Told

\* Receipts stay receipts.
LEMMA ToldTyped ==
  ASSUME TypeOK, NEW keys, NEW what \in {"released", "withdrawn"}
  PROVE  Told(keys, what) \in [Keys -> SUBSET {"released", "withdrawn"}]
BY DEF Told, TypeOK

-----------------------------------------------------------------------------
(* Steps that leave the shared commands alone: none runs, and none of those *)
(* this process has claimed is put in again.                                *)

LEMMA SharedKept ==
  ASSUME SharedTrue,
         UNCHANGED <<command, queuedUnder, policy, outdated, admitted>>,
         \A k \in Shared : ran'[k] = ran[k],
         \A k \in Shared \cap admitted : k \in ToSet(queue') => k \in ToSet(queue),
         \/ consumer' = consumer
         \/ consumer'.at = "answered" /\ consumer'.allowed =>
              consumer'.head \notin Shared \ admitted
  PROVE  SharedTrue'
<1>1. ASSUME NEW k \in Shared
      PROVE  CommandIs(k)' /\ VersionIs(k)'
  BY <1>1 DEF SharedTrue, CommandIs, VersionIs, Waits
<1>2. ClaimTrue'
  <2>1. CASE consumer' = consumer
    BY <2>1 DEF SharedTrue, ClaimTrue
  <2>2. CASE consumer'.at = "answered" /\ consumer'.allowed =>
               consumer'.head \notin Shared \ admitted
    BY <2>2 DEF ClaimTrue
  <2> QED  BY <2>1, <2>2
<1> QED  BY <1>1, <1>2 DEF SharedTrue

\* Steps that leave the prompts where they are: only what the consumer is
\* suspended for changes, or what is claimed.
LEMMA PromptsKept ==
  ASSUME PromptsTrue, HeadTrue', admitted' \subseteq arrived,
         UNCHANGED <<queue, steering, reviewed, receipts, arrived, restored, lost, ran>>
  PROVE  PromptsTrue'
<1>1. SteeringTrue'
  BY DEF PromptsTrue, SteeringTrue
<1>2. ArrivedTrue'
  BY DEF PromptsTrue, ArrivedTrue, Waits, Lifted
<1>3. OwnTrue'
  BY DEF PromptsTrue, OwnTrue, OwnIs, Waits, Lifted
<1> QED  BY <1>1, <1>2, <1>3 DEF PromptsTrue

-----------------------------------------------------------------------------
(* The consumer goes on, or another process begins.                        *)

LEMMA LooksAtHeadKeeps ==
  ASSUME TypeOK, PromptsTrue, SharedTrue, LooksAtHead
  PROVE  PromptsTrue' /\ SharedTrue'
<1>1. UNCHANGED <<command, queuedUnder, policy, outdated, admitted, ran, queue,
                  steering, reviewed, receipts, arrived, restored, lost>>
  BY DEF LooksAtHead, centreVars, waiting, known, told, past
<1>2. Head(queue) \in ToSet(queue) /\ Head(queue) \in Keys
  BY QueueTyped DEF LooksAtHead
<1>3. /\ consumer'.head = Head(queue)
      /\ consumer'.at = "claiming" => Head(queue) \in Shared
      /\ consumer'.at = "answered" => Head(queue) \notin Shared \ admitted
  BY DEF LooksAtHead, Guard
<1>4. HeadIs(Head(queue))
  BY <1>2, KeysTyped DEF PromptsTrue, ArrivedTrue, OwnTrue, OwnIs, HeadIs, Waits
<1>5. HeadIs(Head(queue))'
  BY <1>1, <1>4 DEF HeadIs, Lifted, Waits
<1>6. HeadTrue'
  <2>1. HeadIs(consumer.head)'
    BY <1>1, <1>3, <1>5 DEF HeadIs
  <2> QED  BY <1>3, <2>1 DEF HeadTrue
<1>7. admitted' \subseteq arrived
  BY <1>1, KeysTyped DEF TypeOK, PromptsTrue, ArrivedTrue
<1>8. PromptsTrue'
  BY <1>1, <1>6, <1>7, PromptsKept
<1>9. SharedTrue'
  BY <1>1, <1>3, SharedKept
<1> QED  BY <1>8, <1>9

\* The consumer is back at the top, asleep, or busy with a turn.
LEMMA RestsKeep ==
  ASSUME TypeOK, PromptsTrue, SharedTrue, FallsAsleep \/ TurnEnds
  PROVE  PromptsTrue' /\ SharedTrue'
<1>1. UNCHANGED <<command, queuedUnder, policy, outdated, admitted, ran, queue,
                  steering, reviewed, receipts, arrived, restored, lost>>
  BY DEF FallsAsleep, TurnEnds, centreVars, waiting, known, told, past
<1>2. consumer'.at \in {"top", "asleep"}
  BY DEF FallsAsleep, TurnEnds, At
<1>3. HeadTrue'
  BY <1>2 DEF HeadTrue, Suspended
<1>4. admitted' \subseteq arrived
  BY <1>1, KeysTyped DEF TypeOK, PromptsTrue, ArrivedTrue
<1>5. PromptsTrue'
  BY <1>1, <1>3, <1>4, PromptsKept
<1>6. SharedTrue'
  BY <1>1, <1>2, SharedKept
<1> QED  BY <1>5, <1>6

LEMMA DeviceAuthorizesKeeps ==
  ASSUME TypeOK, PromptsTrue, SharedTrue, DeviceAuthorizes
  PROVE  PromptsTrue' /\ SharedTrue'
<1>1. UNCHANGED <<command, queuedUnder, policy, outdated, admitted, ran, queue,
                  steering, reviewed, receipts, arrived, restored, lost>>
  BY DEF DeviceAuthorizes, centreVars, waiting, known, told, past
<1>2. /\ Suspended /\ consumer'.head = consumer.head
      /\ consumer'.at = "claiming" => consumer.head \in Shared
      /\ consumer'.at = "answered" => consumer.head \notin Shared
  BY DEF DeviceAuthorizes, TypeOK, Suspended
<1>3. HeadTrue'
  BY <1>1, <1>2 DEF PromptsTrue, HeadTrue, HeadIs, Lifted, Waits
<1>4. admitted' \subseteq arrived
  BY <1>1, KeysTyped DEF TypeOK, PromptsTrue, ArrivedTrue
<1>5. PromptsTrue'
  BY <1>1, <1>3, <1>4, PromptsKept
<1>6. SharedTrue'
  BY <1>1, <1>2, SharedKept
<1> QED  BY <1>5, <1>6

\* A claim granted is remembered, though its prompt is no longer at the head.
LEMMA LooksAgainKeeps ==
  ASSUME TypeOK, PromptsTrue, SharedTrue, LooksAgain
  PROVE  PromptsTrue' /\ SharedTrue'
<1>1. UNCHANGED <<command, queuedUnder, policy, outdated, ran, queue, steering,
                  reviewed, receipts, arrived, restored, lost>>
  BY DEF LooksAgain, centreVars, waiting, told, past
<1>2. /\ consumer.at = "answered" /\ consumer.allowed /\ consumer'.at = "top"
      /\ admitted' = admitted \cup ({consumer.head} \cap Shared)
  BY DEF LooksAgain, Admits, At
<1>3. HeadTrue'
  BY <1>2 DEF HeadTrue, Suspended
<1>4. admitted' \subseteq arrived
  BY <1>2, KeysTyped DEF TypeOK, PromptsTrue, ArrivedTrue, HeadTrue, HeadIs, Suspended
<1>5. PromptsTrue'
  BY <1>1, <1>3, <1>4, PromptsKept
<1>6. ASSUME NEW k \in Shared
      PROVE  CommandIs(k)' /\ VersionIs(k)'
  <2>1. CommandIs(k) /\ VersionIs(k) /\ ClaimTrue
    BY DEF SharedTrue
  <2>2. CommandIs(k)'
    BY <1>1, <1>2, <2>1 DEF CommandIs, ClaimTrue, Waits
  <2>3. VersionIs(k)'
    BY <1>1, <2>1 DEF VersionIs
  <2> QED  BY <2>2, <2>3
<1>7. SharedTrue'
  BY <1>2, <1>6 DEF SharedTrue, ClaimTrue
<1> QED  BY <1>5, <1>7

\* The process that takes over has nothing waiting and nothing claimed.
LEMMA RestartKeeps ==
  ASSUME TypeOK, PromptsTrue, SharedTrue, NEW resumed \in BOOLEAN, Restart(resumed)
  PROVE  PromptsTrue' /\ SharedTrue'
<1>1. /\ queue' = <<>> /\ steering' = {} /\ consumer'.at = "top"
      /\ admitted' = {} /\ reviewed' = {} /\ arrived' = arrived \cap Own
      /\ lost' = lost \cup ((ToSet(queue) \cup Lifted) \cap Own)
      /\ receipts' = [k \in Keys |-> IF k \in Shared THEN {} ELSE receipts[k]]
      /\ UNCHANGED <<ran, command, queuedUnder, policy, outdated>>
  BY DEF Restart, At, centreVars, ResumeRun
<1>2. ToSet(queue') = {} /\ Lifted' = {}
  BY <1>1, EmptyQueue DEF Lifted
<1>3. HeadTrue' /\ SteeringTrue'
  BY <1>1 DEF HeadTrue, SteeringTrue, Suspended
<1>4. ArrivedTrue'
  BY <1>1, <1>2, KeysTyped DEF PromptsTrue, ArrivedTrue, Waits
<1>5. OwnTrue'
  BY <1>1, <1>2, KeysTyped DEF PromptsTrue, OwnTrue, OwnIs, Waits
<1>6. ASSUME NEW k \in Shared
      PROVE  CommandIs(k)' /\ VersionIs(k)'
  BY <1>1, <1>2 DEF SharedTrue, CommandIs, VersionIs
<1>7. SharedTrue'
  BY <1>1, <1>6 DEF SharedTrue, ClaimTrue
<1> QED  BY <1>3, <1>4, <1>5, <1>7 DEF PromptsTrue

-----------------------------------------------------------------------------
(* Prompts are withdrawn.                                                  *)

\* A prompt that waits, or was withdrawn before, is taken out, and its sender
\* told; the consumer is not concerned unless it comes back to the top.
LEMMA OneWithdrawn ==
  ASSUME TypeOK, PromptsTrue, SharedTrue, NEW k, HeadIs(k),
         queue' = RemoveFirst(queue, k), receipts' = Told({k}, "withdrawn"),
         UNCHANGED <<command, queuedUnder, policy, outdated, steering, known,
                     arrived, past>>,
         consumer' = consumer \/ consumer' = At("top")
  PROVE  PromptsTrue' /\ SharedTrue'
<1>1. ToSet(queue') = ToSet(queue) \ {k} /\ Lifted' = Lifted
  BY QueueTyped, Removed DEF Lifted
<1>2. \A j \in Keys :
        receipts'[j] = IF j = k THEN receipts[j] \cup {"withdrawn"} ELSE receipts[j]
  BY ToldEffect
<1>3. UNCHANGED <<admitted, reviewed, restored, lost, ran>> /\ arrived \subseteq Keys
  BY DEF known, past, TypeOK
<1>4. HeadTrue'
  <2>1. ASSUME NEW h, HeadIs(h)
        PROVE  HeadIs(h)'
    BY <1>1, <1>2, <1>3, <2>1 DEF HeadIs, Waits
  <2>2. CASE consumer' = consumer
    BY <2>1, <2>2 DEF PromptsTrue, HeadTrue, Suspended
  <2>3. CASE consumer' = At("top")
    BY <2>3 DEF HeadTrue, Suspended, At
  <2> QED  BY <2>2, <2>3
<1>5. SteeringTrue'
  BY DEF PromptsTrue, SteeringTrue
<1>6. ArrivedTrue'
  BY <1>1, <1>2, <1>3 DEF PromptsTrue, ArrivedTrue, Waits
<1>7. OwnTrue'
  <2>1. ASSUME NEW j \in Own
        PROVE  OwnIs(j)'
    <3>1. OwnIs(j) /\ j \in Keys
      BY KeysTyped DEF PromptsTrue, OwnTrue
    <3>2. CASE j = k
      <4>1. "released" \notin receipts[j] /\ j \notin Lifted /\ j \in arrived
        BY <3>1, <3>2 DEF HeadIs, OwnIs
      <4>2. ran'[j] = 0
        BY <1>3, <3>1, <4>1 DEF OwnIs
      <4>3. receipts'[j] = receipts[j] \cup {"withdrawn"} /\ "released" \notin receipts'[j]
        <5>1. receipts'[j] = receipts[j] \cup {"withdrawn"}
          BY <1>2, <3>1, <3>2
        <5>2. "released" \notin {"withdrawn"}
          OBVIOUS
        <5> QED  BY <4>1, <5>1, <5>2
      <4>4. j \notin ToSet(queue') /\ j \notin Lifted' /\ j \in arrived'
        BY <1>1, <3>2, <4>1
      <4> QED  BY <4>2, <4>3, <4>4 DEF OwnIs, Waits
    <3>3. CASE j # k
      BY <1>1, <1>2, <1>3, <3>1, <3>3 DEF OwnIs, Waits
    <3> QED  BY <3>2, <3>3
  <2> QED  BY <2>1 DEF OwnTrue
<1>8. SharedTrue'
  <2>1. consumer' = At("top") => consumer'.at # "answered"
    BY DEF At
  <2> QED  BY <1>1, <1>3, <2>1, SharedKept
<1> QED  BY <1>4, <1>5, <1>6, <1>7, <1>8 DEF PromptsTrue

\* The centre or the device does not allow what the consumer is suspended for.
LEMMA DiscardsKeeps ==
  ASSUME TypeOK, PromptsTrue, SharedTrue, Suspended, Discards(consumer.head)
  PROVE  PromptsTrue' /\ SharedTrue'
<1>1. HeadIs(consumer.head)
  BY DEF PromptsTrue, HeadTrue
<1> QED  BY <1>1, OneWithdrawn DEF Discards, centreVars

LEMMA WithdrawsKeeps ==
  ASSUME TypeOK, PromptsTrue, SharedTrue, NEW k \in Keys, Withdraws(k)
  PROVE  PromptsTrue' /\ SharedTrue'
<1>1. HeadIs(k)
  BY DEF PromptsTrue, ArrivedTrue, OwnTrue, OwnIs, HeadIs, Withdraws
<1> QED  BY <1>1, OneWithdrawn DEF Withdraws, centreVars

-----------------------------------------------------------------------------
(* The queue is put in order, prompts are lifted out, taken or put back.   *)

LEMMA GoesNextKeeps ==
  ASSUME TypeOK, PromptsTrue, SharedTrue, NEW k \in Keys, GoesNext(k)
  PROVE  PromptsTrue' /\ SharedTrue' /\ OnceEach(queue', Keys)
<1>1. UNCHANGED <<command, queuedUnder, policy, outdated, steering, consumer,
                  admitted, reviewed, receipts, arrived, restored, lost, ran>>
  BY DEF GoesNext, centreVars, known, told, past
<1>2. OnceEach(queue', Keys) /\ ToSet(queue') = ToSet(queue)
  <2>1. /\ OnceEach(RemoveFirst(queue, k), Keys)
        /\ ToSet(RemoveFirst(queue, k)) = ToSet(queue) \ {k}
    BY QueueTyped, Removed
  <2>2. /\ OnceEach(queue', Keys)
        /\ ToSet(queue') = (ToSet(queue) \ {k}) \cup {k}
    BY <2>1, PutInFront DEF GoesNext
  <2> QED  BY <2>2 DEF GoesNext, Waits
<1>3. HeadTrue' /\ SteeringTrue'
  BY <1>1, <1>2 DEF PromptsTrue, HeadTrue, HeadIs, SteeringTrue, Suspended, Lifted, Waits
<1>4. ArrivedTrue'
  BY <1>1, <1>2 DEF PromptsTrue, ArrivedTrue, Lifted, Waits
<1>5. OwnTrue'
  BY <1>1, <1>2 DEF PromptsTrue, OwnTrue, OwnIs, Lifted, Waits
<1>6. SharedTrue'
  BY <1>1, <1>2, SharedKept
<1> QED  BY <1>2, <1>3, <1>4, <1>5, <1>6 DEF PromptsTrue

LEMMA SteersKeeps ==
  ASSUME TypeOK, PromptsTrue, SharedTrue, NEW k \in Keys, Steers(k)
  PROVE  PromptsTrue' /\ SharedTrue'
<1>1. /\ UNCHANGED <<command, queuedUnder, policy, outdated, consumer, admitted,
                     reviewed, receipts, arrived, restored, lost, ran>>
      /\ k \in Own /\ k \in ToSet(queue) /\ consumer.at = "turn"
  BY DEF Steers, centreVars, known, told, past, Waits
<1>2. ToSet(queue') = ToSet(queue) \ {k}
  BY QueueTyped, Removed DEF Steers
<1>3. PICK i \in DOMAIN queue : steering' = steering \cup {[key |-> k, index |-> i]}
  BY DEF Steers
<1>4. Lifted' = Lifted \cup {k}
  <2> DEFINE new == [key |-> k, index |-> i]
  <2>1. new.key = k
    OBVIOUS
  <2> HIDE DEF new
  <2>2. steering' = steering \cup {new}
    BY <1>3 DEF new
  <2> QED  BY <2>1, <2>2 DEF Lifted
<1>5. k \notin Lifted /\ k \in arrived /\ receipts[k] = {}
  BY <1>1, KeysTyped DEF PromptsTrue, OwnTrue, OwnIs, ArrivedTrue, Waits
<1>6. HeadTrue'
  BY <1>1 DEF HeadTrue, Suspended
<1>7. SteeringTrue'
  <2>1. \A a \in steering : a.key # k
    BY <1>5 DEF Lifted
  <2> QED  BY <1>3, <2>1 DEF PromptsTrue, SteeringTrue
<1>8. ArrivedTrue'
  BY <1>1, <1>2, <1>4, <1>5 DEF PromptsTrue, ArrivedTrue, Waits
<1>9. OwnTrue'
  BY <1>1, <1>2, <1>4, <1>5 DEF PromptsTrue, OwnTrue, OwnIs, Waits
<1>10. SharedTrue'
  BY <1>1, <1>2, SharedKept
<1> QED  BY <1>6, <1>7, <1>8, <1>9, <1>10 DEF PromptsTrue

\* The engine took the prompt that was lifted out, or may have taken it.
LEMMA SteeredKeeps ==
  ASSUME TypeOK, PromptsTrue, SharedTrue, NEW s \in steering,
         steering' = steering \ {s}, receipts' = Told({s.key}, "released"),
         ran' = [ran EXCEPT ![s.key] = @ + 1] \/ ran' = ran,
         UNCHANGED <<centreVars, queue, consumer, known, arrived, restored, lost>>
  PROVE  PromptsTrue' /\ SharedTrue'
<1>1. /\ s.key \in Own /\ s.key \in Keys /\ s.key \in Lifted
      /\ ran \in [Keys -> Nat] /\ arrived \subseteq Keys
  BY KeysTyped DEF TypeOK, Lifted
<1>2. Lifted' = Lifted \ {s.key}
  BY DEF PromptsTrue, SteeringTrue, Lifted
<1>3. \A j \in Keys :
        receipts'[j] = IF j = s.key THEN receipts[j] \cup {"released"} ELSE receipts[j]
  BY ToldEffect
<1>4. /\ \A j \in Keys : j # s.key => ran'[j] = ran[j]
      /\ ran'[s.key] \in {ran[s.key], ran[s.key] + 1}
  BY <1>1
<1>5. OwnIs(s.key) /\ receipts[s.key] = {} /\ s.key \notin ToSet(queue)
      /\ s.key \in arrived /\ ran[s.key] = 0
  BY <1>1 DEF PromptsTrue, OwnTrue, OwnIs, ArrivedTrue, Waits
<1>6. HeadTrue'
  <2>1. ASSUME NEW h, HeadIs(h)
        PROVE  HeadIs(h)'
    BY <1>1, <1>2, <1>3, <2>1 DEF HeadIs, Waits
  <2> QED  BY <2>1 DEF PromptsTrue, HeadTrue, Suspended
<1>7. SteeringTrue'
  BY DEF PromptsTrue, SteeringTrue
<1>8. ArrivedTrue'
  BY <1>1, <1>2, <1>3 DEF PromptsTrue, ArrivedTrue, Waits, known
<1>9. OwnTrue'
  <2>1. ASSUME NEW j \in Own
        PROVE  OwnIs(j)'
    <3>1. OwnIs(j) /\ j \in Keys
      BY KeysTyped DEF PromptsTrue, OwnTrue
    <3>2. CASE j = s.key
      <4>1. receipts'[j] = {"released"} /\ "withdrawn" \notin receipts'[j]
        <5>1. receipts'[j] = receipts[j] \cup {"released"}
          BY <1>3, <3>1, <3>2
        <5>2. "withdrawn" \notin {"released"}
          OBVIOUS
        <5> QED  BY <1>5, <3>2, <5>1, <5>2
      <4>2. ran'[j] \in {0, 1}
        BY <1>4, <1>5, <3>2
      <4>3. j \notin ToSet(queue') /\ j \notin Lifted' /\ j \in arrived'
        BY <1>2, <1>5, <3>2
      <4> QED  BY <4>1, <4>2, <4>3 DEF OwnIs, Waits
    <3>3. CASE j # s.key
      BY <1>2, <1>3, <1>4, <3>1, <3>3 DEF OwnIs, Waits
    <3> QED  BY <3>2, <3>3
  <2> QED  BY <2>1 DEF OwnTrue
<1>10. SharedTrue'
  BY <1>1, <1>4, KeysTyped, SharedKept DEF centreVars, known
<1> QED  BY <1>6, <1>7, <1>8, <1>9, <1>10 DEF PromptsTrue

\* The engine refused it: it is back in the queue.
LEMMA SteerRefusedKeeps ==
  ASSUME TypeOK, PromptsTrue, SharedTrue, NEW s \in steering, SteerRefused(s)
  PROVE  PromptsTrue' /\ SharedTrue' /\ OnceEach(queue', Keys)
<1>1. /\ UNCHANGED <<command, queuedUnder, policy, outdated, consumer, admitted,
                     reviewed, receipts, arrived, lost, ran>>
      /\ steering' = steering \ {s} /\ restored' = restored \cup {s.key}
  BY DEF SteerRefused, centreVars, known, told
<1>2. /\ s.key \in Own /\ s.key \in Keys /\ s.key \in Lifted
      /\ s.index \in Nat \ {0} /\ Len(queue) \in Nat
  BY KeysTyped, LenProperties DEF TypeOK, Lifted
<1>3. Lifted' = Lifted \ {s.key}
  BY <1>1 DEF PromptsTrue, SteeringTrue, Lifted
<1>4. receipts[s.key] = {} /\ s.key \notin ToSet(queue) /\ s.key \in arrived
  BY <1>2 DEF PromptsTrue, OwnTrue, OwnIs, ArrivedTrue, Waits
<1>5. OnceEach(queue', Keys) /\ ToSet(queue') = ToSet(queue) \cup {s.key}
  <2> DEFINE i == IF s.index <= Len(queue) THEN s.index ELSE Len(queue) + 1
  <2>1. i \in 1..(Len(queue) + 1)
    BY <1>2
  <2>2. queue' = InsertAt(queue, i, s.key)
    BY DEF SteerRefused
  <2> HIDE DEF i
  <2>3. OnceEach(queue, Keys)
    BY QueueTyped
  <2> QED  BY <1>2, <1>4, <2>1, <2>2, <2>3, Inserted
<1>6. HeadTrue'
  <2>1. ASSUME NEW h, HeadIs(h)
        PROVE  HeadIs(h)'
    BY <1>1, <1>3, <1>5, <2>1 DEF HeadIs, Waits
  <2> QED  BY <1>1, <2>1 DEF PromptsTrue, HeadTrue, Suspended
<1>7. SteeringTrue'
  BY <1>1 DEF PromptsTrue, SteeringTrue
<1>8. ArrivedTrue'
  BY <1>1, <1>3, <1>4, <1>5 DEF PromptsTrue, ArrivedTrue, Waits
<1>9. OwnTrue'
  BY <1>1, <1>3, <1>4, <1>5 DEF PromptsTrue, OwnTrue, OwnIs, Waits
<1>10. SharedTrue'
  BY <1>1, <1>2, <1>5, KeysTyped, SharedKept
<1> QED  BY <1>5, <1>6, <1>7, <1>8, <1>9, <1>10 DEF PromptsTrue

\* The hub has dealt with a report in its turn.
LEMMA ReviewsKeeps ==
  ASSUME TypeOK, PromptsTrue, SharedTrue, NEW r \in Reports, Reviews(r)
  PROVE  PromptsTrue' /\ SharedTrue'
<1>1. /\ UNCHANGED <<command, queuedUnder, policy, outdated, steering, consumer,
                     admitted, arrived, restored, lost, ran>>
      /\ consumer.at = "turn" /\ reviewed' = reviewed \cup {r}
  BY DEF Reviews, centreVars, past
<1>2. r \in Own /\ r \in Keys /\ arrived \subseteq Keys /\ reviewed \subseteq Own
  BY KeysTyped, QueueAssumption DEF TypeOK
<1>3. ToSet(queue') = ToSet(queue) \ {r} /\ Lifted' = Lifted
  BY <1>1, QueueTyped, Removed DEF Reviews, Lifted
<1>4. \A j \in Keys :
        receipts'[j] = IF j = r /\ r \in ToSet(queue) THEN receipts[j] \cup {"released"}
                                                      ELSE receipts[j]
  BY ToldEffect DEF Reviews, Waits
<1>5. HeadTrue' /\ SteeringTrue'
  BY <1>1 DEF PromptsTrue, HeadTrue, SteeringTrue, Suspended
<1>6. ArrivedTrue'
  BY <1>1, <1>2, <1>3, <1>4 DEF PromptsTrue, ArrivedTrue, Waits
<1>7. OwnTrue'
  <2>1. ASSUME NEW j \in Own
        PROVE  OwnIs(j)'
    <3>1. OwnIs(j) /\ j \in Keys /\ (j \in ToSet(queue) => j \in arrived)
      BY KeysTyped DEF PromptsTrue, OwnTrue, ArrivedTrue, Waits
    <3>2. CASE j = r /\ r \in ToSet(queue)
      <4>1. receipts'[j] = {"released"} /\ "withdrawn" \notin receipts'[j]
        <5>1. receipts'[j] = receipts[j] \cup {"released"}
          BY <1>4, <3>1, <3>2
        <5>2. "withdrawn" \notin {"released"}
          OBVIOUS
        <5>3. receipts[j] = {}
          BY <3>1, <3>2 DEF OwnIs, Waits
        <5> QED  BY <5>1, <5>2, <5>3
      <4>2. j \notin ToSet(queue') /\ j \notin Lifted' /\ j \in arrived'
        BY <1>1, <1>3, <3>1, <3>2 DEF OwnIs, Waits
      <4>3. ran'[j] = 0
        BY <1>1, <3>1, <3>2 DEF OwnIs, Waits
      <4> QED  BY <4>1, <4>2, <4>3 DEF OwnIs, Waits
    <3>3. CASE ~(j = r /\ r \in ToSet(queue))
      <4>1. receipts'[j] = receipts[j]
        BY <1>4, <3>1, <3>3
      <4>2. j \in ToSet(queue') <=> j \in ToSet(queue)
        BY <1>3, <3>3
      <4> QED  BY <1>1, <1>3, <3>1, <4>1, <4>2 DEF OwnIs, Waits
    <3> QED  BY <3>2, <3>3
  <2> QED  BY <2>1 DEF OwnTrue
<1>8. SharedTrue'
  BY <1>1, <1>3, SharedKept
<1> QED  BY <1>5, <1>6, <1>7, <1>8 DEF PromptsTrue

-----------------------------------------------------------------------------
(* Prompts arrive.                                                         *)

\* A waiter is told; otherwise the consumer goes on as it was.
LEMMA WokenKeeps ==
  ASSUME PromptsTrue, consumer' = Woken(consumer),
         \A h \in arrived : HeadIs(h) => HeadIs(h)'
  PROVE  HeadTrue' /\ (consumer' = consumer \/ consumer'.at # "answered")
BY DEF Woken, At, PromptsTrue, HeadTrue, HeadIs, Suspended

\* A queue of one
LEMMA JustOne ==
  ASSUME NEW S, NEW k \in S
  PROVE  OnceEach(<<k>>, S) /\ ToSet(<<k>>) = {k}
<1>1. <<k>> \in Seq(S) /\ Len(<<k>>) = 1 /\ <<k>>[1] = k
  OBVIOUS
<1> QED  BY <1>1 DEF OnceEach, ToSet

\* Where a prompt of the owner is put
LEMMA ArrivesQueue ==
  ASSUME TypeOK, PromptsTrue, NEW k \in Own, NEW interrupts \in BOOLEAN,
         Arrives(k, interrupts)
  PROVE  /\ OnceEach(queue', Keys)
         /\ k \notin reviewed =>
              ToSet(queue') = (ToSet(queue) \ Cleared(k)) \cup {k}
<1>1. k \in Keys /\ k \notin ToSet(queue) /\ OnceEach(queue, Keys)
  BY KeysTyped, QueueTyped DEF Arrives, PromptsTrue, ArrivedTrue, Waits
<1>2. CASE k \in reviewed
  BY <1>1, <1>2 DEF Arrives, AutoConsumed
<1>3. CASE k \notin reviewed /\ k \in Clears
  <2>1. queue' = <<k>> /\ Cleared(k) = ToSet(queue)
    BY <1>3 DEF Arrives, Cleared
  <2> QED  BY <1>1, <2>1, JustOne
<1>4. CASE k \notin reviewed /\ k \notin Clears
  <2>1. /\ queue' = <<k>> \o queue \/ queue' = Append(queue, k)
        /\ Cleared(k) = {}
    BY <1>4 DEF Arrives, Cleared
  <2>2. /\ OnceEach(<<k>> \o queue, Keys) /\ OnceEach(Append(queue, k), Keys)
        /\ ToSet(<<k>> \o queue) = ToSet(queue) \cup {k}
        /\ ToSet(Append(queue, k)) = ToSet(queue) \cup {k}
    BY <1>1, PutInFront, Appended
  <2> QED  BY <2>1, <2>2
<1> QED  BY <1>2, <1>3, <1>4

LEMMA ArrivesKeeps ==
  ASSUME TypeOK, PromptsTrue, SharedTrue, NEW k \in Own, NEW interrupts \in BOOLEAN,
         Arrives(k, interrupts)
  PROVE  PromptsTrue' /\ SharedTrue'
<1>1. /\ UNCHANGED <<command, queuedUnder, policy, outdated, steering, admitted,
                     reviewed, restored, lost, ran>>
      /\ k \in Keys /\ k \notin arrived /\ arrived' = arrived \cup {k}
      /\ arrived \subseteq Keys /\ Lifted' = Lifted
  BY KeysTyped DEF Arrives, centreVars, known, past, TypeOK, Lifted
<1>2. OwnIs(k) /\ k \notin ToSet(queue) /\ k \notin Lifted /\ receipts[k] = {}
  BY <1>1 DEF PromptsTrue, OwnTrue, OwnIs, ArrivedTrue, Waits
<1>3. SteeringTrue'
  BY <1>1 DEF PromptsTrue, SteeringTrue
<1>4. CASE k \in reviewed
  <2>1. queue' = queue /\ consumer' = consumer /\ receipts' = Told({k}, "released")
    BY <1>4 DEF Arrives, AutoConsumed
  <2>2. \A j \in Keys :
          receipts'[j] = IF j = k THEN receipts[j] \cup {"released"} ELSE receipts[j]
    BY <2>1, ToldEffect
  <2>3. HeadTrue'
    BY <1>1, <2>1, <2>2 DEF PromptsTrue, HeadTrue, HeadIs, Suspended, Waits
  <2>4. ArrivedTrue'
    BY <1>1, <2>1, <2>2 DEF PromptsTrue, ArrivedTrue, Waits
  <2>5. ASSUME NEW j \in Own
        PROVE  OwnIs(j)'
    <3>1. OwnIs(j) /\ j \in Keys
      BY KeysTyped DEF PromptsTrue, OwnTrue
    <3>2. CASE j = k
      <4>1. receipts'[j] = {"released"}
        BY <1>2, <2>2, <3>1, <3>2
      <4>2. "withdrawn" \notin {"released"}
        OBVIOUS
      <4>3. ran'[j] = 0 \/ ran'[j] = 1
        BY <1>1, <3>1 DEF OwnIs
      <4> QED  BY <1>1, <1>2, <2>1, <3>2, <4>1, <4>2, <4>3 DEF OwnIs, Waits
    <3>3. CASE j # k
      BY <1>1, <2>1, <2>2, <3>1, <3>3 DEF OwnIs, Waits
    <3> QED  BY <3>2, <3>3
  <2>6. SharedTrue'
    BY <1>1, <2>1, SharedKept
  <2> QED  BY <1>3, <2>3, <2>4, <2>5, <2>6 DEF PromptsTrue, OwnTrue
<1>5. CASE k \notin reviewed
  <2>1. /\ consumer' = Woken(consumer)
        /\ receipts' = Told(Cleared(k), "withdrawn")
    BY <1>5 DEF Arrives
  <2>2. /\ ToSet(queue') = (ToSet(queue) \ Cleared(k)) \cup {k}
        /\ Cleared(k) \subseteq ToSet(queue)
    BY <1>5, ArrivesQueue DEF Cleared
  <2>3. \A j \in Keys :
          receipts'[j] = IF j \in Cleared(k) THEN receipts[j] \cup {"withdrawn"}
                                             ELSE receipts[j]
    BY <2>1, ToldEffect
  <2>4. HeadTrue' /\ (consumer' = consumer \/ consumer'.at # "answered")
    <3>1. ASSUME NEW h \in arrived, HeadIs(h)
          PROVE  HeadIs(h)'
      BY <1>1, <2>2, <2>3, <3>1 DEF HeadIs, Waits
    <3> QED  BY <2>1, <3>1, WokenKeeps
  <2>5. ArrivedTrue'
    BY <1>1, <1>5, <2>2, <2>3 DEF PromptsTrue, ArrivedTrue, Waits
  <2>6. ASSUME NEW j \in Own
        PROVE  OwnIs(j)'
    <3>1. OwnIs(j) /\ j \in Keys /\ (j \in ToSet(queue) => j \in arrived)
      BY KeysTyped DEF PromptsTrue, OwnTrue, ArrivedTrue, Waits
    <3>2. CASE j \in Cleared(k)
      <4>1. receipts[j] = {} /\ j \notin Lifted /\ j # k /\ ran[j] = 0
        BY <1>2, <2>2, <3>1, <3>2 DEF OwnIs, Waits
      <4>2. receipts'[j] = {"withdrawn"} /\ "released" \notin {"withdrawn"}
        BY <2>3, <3>1, <3>2, <4>1
      <4> QED  BY <1>1, <2>2, <3>1, <3>2, <4>1, <4>2 DEF OwnIs, Waits
    <3>3. CASE j \notin Cleared(k)
      <4>1. receipts'[j] = receipts[j]
        BY <2>3, <3>1, <3>3
      <4> QED  BY <1>1, <1>2, <2>2, <3>1, <3>3, <4>1 DEF OwnIs, Waits
    <3> QED  BY <3>2, <3>3
  <2>7. SharedTrue'
    BY <1>1, <2>2, <2>4, KeysTyped, SharedKept
  <2> QED  BY <1>3, <2>4, <2>5, <2>6, <2>7 DEF PromptsTrue, OwnTrue
<1> QED  BY <1>4, <1>5

\* A shared command is delivered, perhaps again.
LEMMA TakesKeeps ==
  ASSUME TypeOK, PromptsTrue, SharedTrue, NEW k \in Shared, Takes(k)
  PROVE  PromptsTrue' /\ SharedTrue' /\ OnceEach(queue', Keys)
<1>1. /\ UNCHANGED <<command, queuedUnder, policy, outdated, steering, admitted,
                     reviewed, receipts, restored, lost, ran>>
      /\ k \in Keys /\ arrived' = arrived \cup {k}
      /\ Lifted' = Lifted /\ reviewed \subseteq Own
  BY KeysTyped, QueueAssumption DEF Takes, centreVars, known, past, TypeOK, Lifted
<1>2. /\ OnceEach(queue', Keys)
      /\ \/ k \notin admitted /\ ToSet(queue') = ToSet(queue) \cup {k}
         \/ k \in arrived /\ ToSet(queue') = ToSet(queue)
  <2>1. CASE NewHere(k)
    <3>1. queue' = Append(queue, k) /\ k \notin admitted /\ k \notin ToSet(queue)
      BY <2>1 DEF Takes, NewHere, Waits
    <3> QED  BY <1>1, <3>1, Appended, QueueTyped
  <2>2. CASE ~NewHere(k)
    <3>1. queue' = queue /\ k \in arrived
      BY <1>1, <2>2 DEF Takes, NewHere, PromptsTrue, ArrivedTrue
    <3> QED  BY <3>1, QueueTyped
  <2> QED  BY <2>1, <2>2
<1>3. consumer' = Woken(consumer) \/ consumer' = consumer
  BY DEF Takes
<1>4. HeadTrue' /\ (consumer' = consumer \/ consumer'.at # "answered")
  <2>1. ASSUME NEW h \in arrived, HeadIs(h)
        PROVE  HeadIs(h)'
    BY <1>1, <1>2, <2>1 DEF HeadIs, Waits
  <2>2. CASE consumer' = Woken(consumer)
    BY <2>1, <2>2, WokenKeeps
  <2>3. CASE consumer' = consumer
    BY <2>1, <2>3 DEF PromptsTrue, HeadTrue, HeadIs, Suspended
  <2> QED  BY <1>3, <2>2, <2>3
<1>5. SteeringTrue'
  BY <1>1 DEF PromptsTrue, SteeringTrue
<1>6. ArrivedTrue'
  BY <1>1, <1>2, KeysTyped DEF PromptsTrue, ArrivedTrue, Waits
<1>7. OwnTrue'
  <2>1. ASSUME NEW j \in Own
        PROVE  OwnIs(j)'
    <3>1. OwnIs(j) /\ j # k
      BY KeysTyped DEF PromptsTrue, OwnTrue
    <3>2. j \in ToSet(queue') <=> j \in ToSet(queue)
      BY <1>2, <3>1
    <3> QED  BY <1>1, <3>1, <3>2 DEF OwnIs, Waits
  <2> QED  BY <2>1 DEF OwnTrue
<1>8. SharedTrue'
  BY <1>1, <1>2, <1>4, SharedKept
<1> QED  BY <1>2, <1>4, <1>5, <1>6, <1>7, <1>8 DEF PromptsTrue

-----------------------------------------------------------------------------
(* Claims at the centre, and changes of the sharing.                       *)

\* A claim takes a command from "queued", to "started" only if it is allowed; a
\* command outdated by a change of the sharing is not.
LEMMA ClaimRecorded ==
  ASSUME TypeOK, SharedTrue, NEW k \in Shared, RecordClaim(k),
         UNCHANGED <<queue, admitted, ran>>
  PROVE  /\ \A j \in Shared : CommandIs(j)' /\ VersionIs(j)'
         /\ \A j \in Shared : command[j] = "started" => command'[j] = "started"
         /\ ClaimAllowed(k) => command'[k] = "started" /\ ran[k] = 0
<1>1. /\ UNCHANGED <<policy, queuedUnder, outdated>>
      /\ command \in [Shared -> CommandStates] /\ policy.version \in Nat
      /\ queuedUnder[k] \in Nat
      /\ command' = IF command[k] = "queued"
                    THEN [command EXCEPT ![k] =
                            IF ClaimAllowed(k) THEN "started" ELSE "cancelled"]
                    ELSE command
  BY CentreAssumption DEF RecordClaim, TypeOK, CentreTypeOK
<1>2. \A j \in Shared : j # k \/ command[k] # "queued" => command'[j] = command[j]
  BY <1>1
<1>3. command[k] = "queued" =>
        command'[k] = IF ClaimAllowed(k) THEN "started" ELSE "cancelled"
  BY <1>1
<1>4. ClaimAllowed(k) => command[k] = "queued" /\ queuedUnder[k] = policy.version
  BY DEF ClaimAllowed, Permitted
<1>5. CommandIs(k) /\ VersionIs(k)
  BY DEF SharedTrue
<1>6. command[k] = "queued" => ran[k] = 0 /\ k \notin admitted
  BY <1>5 DEF CommandIs
<1>7. ASSUME NEW j \in Shared
      PROVE  CommandIs(j)' /\ VersionIs(j)'
  <2>1. CommandIs(j) /\ VersionIs(j)
    BY DEF SharedTrue
  <2>2. CASE j # k \/ command[k] # "queued"
    BY <1>1, <1>2, <2>1, <2>2 DEF CommandIs, VersionIs, Waits
  <2>3. CASE j = k /\ command[k] = "queued"
    <3>1. CommandIs(k)'
      BY <1>6, <2>3 DEF CommandIs
    <3>2. k \in outdated => command'[k] = "cancelled"
      BY <1>1, <1>3, <1>4, <1>5, <2>3 DEF VersionIs
    <3>3. VersionIs(k)'
      BY <1>1, <1>5, <3>2 DEF VersionIs
    <3> QED  BY <2>3, <3>1, <3>3
  <2> QED  BY <2>2, <2>3
<1>8. \A j \in Shared : command[j] = "started" => command'[j] = "started"
  BY <1>2
<1> QED  BY <1>3, <1>4, <1>6, <1>7, <1>8

LEMMA ClaimServedKeeps ==
  ASSUME TypeOK, PromptsTrue, SharedTrue, ClaimServed
  PROVE  PromptsTrue' /\ SharedTrue' /\ consumer.head \in Shared
<1>1. /\ UNCHANGED <<queue, steering, admitted, reviewed, receipts, arrived,
                     restored, lost, ran>>
      /\ RecordClaim(consumer.head)
  BY DEF ClaimServed, waiting, known, told, past
<1>2. /\ Suspended /\ consumer.head \in Shared
      /\ consumer'.at = "answered" /\ consumer'.head = consumer.head
      /\ consumer'.allowed = ClaimAllowed(consumer.head)
  BY DEF ClaimServed, TypeOK, PromptsTrue, HeadTrue, Suspended
<1>3. HeadTrue'
  BY <1>1, <1>2 DEF PromptsTrue, HeadTrue, HeadIs, Lifted, Waits
<1>4. admitted' \subseteq arrived
  BY <1>1, KeysTyped DEF TypeOK, PromptsTrue, ArrivedTrue
<1>5. PromptsTrue'
  BY <1>1, <1>3, <1>4, PromptsKept
<1>6. SharedTrue'
  BY <1>1, <1>2, ClaimRecorded DEF SharedTrue, ClaimTrue
<1> QED  BY <1>2, <1>5, <1>6

\* A claim the process has given up is carried out after all.
LEMMA LateClaimKeeps ==
  ASSUME TypeOK, PromptsTrue, SharedTrue, NEW k \in Shared, LateClaimServed(k)
  PROVE  PromptsTrue' /\ SharedTrue'
<1>1. /\ UNCHANGED <<queue, steering, consumer, admitted, reviewed, receipts,
                     arrived, restored, lost, ran>>
      /\ RecordClaim(k)
  BY DEF LateClaimServed, waiting, known, told, past
<1>2. HeadTrue'
  BY <1>1 DEF PromptsTrue, HeadTrue, HeadIs, Suspended, Lifted, Waits
<1>3. admitted' \subseteq arrived
  BY <1>1, KeysTyped DEF TypeOK, PromptsTrue, ArrivedTrue
<1>4. PromptsTrue'
  BY <1>1, <1>2, <1>3, PromptsKept
<1>5. SharedTrue'
  BY <1>1, ClaimRecorded DEF SharedTrue, ClaimTrue
<1> QED  BY <1>4, <1>5

LEMMA QueueCommandKeeps ==
  ASSUME TypeOK, SharedTrue, NEW k \in Shared, QueueCommand(k),
         UNCHANGED <<queue, consumer, admitted, ran>>
  PROVE  SharedTrue'
<1>1. /\ UNCHANGED <<policy, outdated>> /\ command[k] = "none"
      /\ command'[k] = "queued" /\ queuedUnder'[k] = policy.version
      /\ \A j \in Shared \ {k} : command'[j] = command[j] /\ queuedUnder'[j] = queuedUnder[j]
      /\ policy.version \in Nat
  BY DEF QueueCommand, TypeOK, CentreTypeOK
<1>2. \A j \in Shared : CommandIs(j) /\ VersionIs(j)
  BY DEF SharedTrue
<1>3. ASSUME NEW j \in Shared
      PROVE  CommandIs(j)' /\ VersionIs(j)'
  <2>1. CASE j = k
    <3>1. ran[k] = 0 /\ k \notin admitted /\ k \notin outdated
      BY <1>1, <1>2 DEF CommandIs, VersionIs
    <3> QED  BY <1>1, <2>1, <3>1 DEF CommandIs, VersionIs
  <2>2. CASE j # k
    BY <1>1, <1>2, <2>2 DEF CommandIs, VersionIs, Waits
  <2> QED  BY <2>1, <2>2
<1>4. ClaimTrue'
  BY <1>1 DEF SharedTrue, ClaimTrue
<1> QED  BY <1>3, <1>4 DEF SharedTrue

LEMMA ChangeSharingKeeps ==
  ASSUME TypeOK, SharedTrue, NEW granted \in BOOLEAN, ChangeSharing(granted),
         UNCHANGED <<queue, consumer, admitted, ran>>
  PROVE  SharedTrue'
<1>1. /\ UNCHANGED <<command, queuedUnder>> /\ policy.version \in Nat
      /\ policy'.version = policy.version + 1
      /\ outdated' = outdated \cup Waiting
      /\ \A j \in Shared : queuedUnder[j] \in Nat
  BY DEF ChangeSharing, TypeOK, CentreTypeOK
<1>2. ASSUME NEW j \in Shared
      PROVE  CommandIs(j)' /\ VersionIs(j)'
  <2>1. CommandIs(j) /\ VersionIs(j)
    BY DEF SharedTrue
  <2>2. CommandIs(j)'
    BY <1>1, <2>1 DEF CommandIs, Waits
  <2>3. VersionIs(j)'
    BY <1>1, <2>1 DEF VersionIs, Waiting
  <2> QED  BY <2>2, <2>3
<1>3. ClaimTrue'
  BY <1>1 DEF SharedTrue, ClaimTrue
<1> QED  BY <1>2, <1>3 DEF SharedTrue

LEMMA SharingKeeps ==
  ASSUME TypeOK, PromptsTrue, SharedTrue, Sharing
  PROVE  PromptsTrue' /\ SharedTrue'
<1>1. UNCHANGED <<queue, steering, consumer, admitted, reviewed, receipts, arrived,
                  restored, lost, ran>>
  BY DEF Sharing, waiting, known, told, past
<1>2. HeadTrue'
  BY <1>1 DEF PromptsTrue, HeadTrue, HeadIs, Suspended, Lifted, Waits
<1>3. admitted' \subseteq arrived
  BY <1>1, KeysTyped DEF TypeOK, PromptsTrue, ArrivedTrue
<1>4. PromptsTrue'
  BY <1>1, <1>2, <1>3, PromptsKept
<1>5. SharedTrue'
  <2>1. CASE \E k \in Shared : QueueCommand(k)
    BY <1>1, <2>1, QueueCommandKeeps
  <2>2. CASE \E granted \in BOOLEAN : ChangeSharing(granted)
    BY <1>1, <2>2, ChangeSharingKeeps
  <2>3. CASE ChangeDeviceSharing
    <3>1. UNCHANGED <<policy, command, queuedUnder, outdated>>
      BY <2>3 DEF ChangeDeviceSharing
    <3> QED  BY <1>1, <3>1, SharedKept
  <2> QED  BY <2>1, <2>2, <2>3 DEF Sharing
<1> QED  BY <1>4, <1>5

-----------------------------------------------------------------------------
(* Prompts are handed over.                                                *)

\* A shared command is a batch of its own, the one the guard has allowed.
LEMMA BatchAlone ==
  ASSUME TypeOK, NEW n \in 1..Len(queue), HandsOver(n), NEW k \in Shared,
         k \in ToSet(SubSeq(queue, 1, n))
  PROVE  ToSet(SubSeq(queue, 1, n)) = {k} /\ k = consumer.head
<1> DEFINE b == SubSeq(queue, 1, n)
<1>1. queue \in Seq(Keys) /\ Len(queue) \in Nat
  BY LenProperties DEF TypeOK
<1>2. b \in Seq(Keys) /\ Len(b) = n /\ \A i \in 1..n : b[i] = queue[i]
  BY <1>1, PartOf
<1> HIDE DEF b
<1>3. PICK i \in 1..n : queue[i] = k
  BY <1>2 DEF ToSet, b
<1>4. n = 1
  <2>1. Isolated(queue[i])
    BY <1>3 DEF Isolated
  <2> QED  BY <2>1 DEF HandsOver, BatchSizes
<1>5. queue[1] = k /\ Head(queue) = k
  BY <1>1, <1>3, <1>4, HeadTailProperties, EmptySeq
<1>6. ToSet(b) = {k}
  BY <1>2, <1>4, <1>5 DEF ToSet
<1> QED  BY <1>5, <1>6 DEF b, HandsOver, HeadMayRun

LEMMA HandsOverKeeps ==
  ASSUME TypeOK, PromptsTrue, SharedTrue, NEW n \in 1..Len(queue), HandsOver(n)
  PROVE  PromptsTrue' /\ SharedTrue' /\ OnceEach(queue', Keys)
<1> DEFINE batch == ToSet(SubSeq(queue, 1, n))
<1>1. /\ UNCHANGED <<command, queuedUnder, policy, outdated, steering, reviewed,
                     arrived, restored, lost>>
      /\ Lifted' = Lifted /\ arrived \subseteq Keys /\ ran \in [Keys -> Nat]
      /\ consumer.at = "answered" /\ consumer.allowed /\ consumer'.at = "turn"
      /\ admitted' = admitted \cup ({consumer.head} \cap Shared)
  BY DEF HandsOver, HeadMayRun, Admits, At, centreVars, Lifted, TypeOK
<1>2. /\ OnceEach(queue', Keys) /\ batch \subseteq ToSet(queue)
      /\ ToSet(queue') = ToSet(queue) \ batch
  BY QueueTyped, Divided DEF HandsOver
<1>3. \A j \in Keys :
        /\ receipts'[j] = IF j \in batch THEN receipts[j] \cup {"released"}
                                         ELSE receipts[j]
        /\ ran'[j] = IF j \in batch THEN ran[j] + 1 ELSE ran[j]
  BY ToldEffect DEF HandsOver
<1>4. \A k \in Shared : k \in batch => k = consumer.head
  BY BatchAlone
<1> HIDE DEF batch
<1>5. HeadTrue' /\ SteeringTrue'
  BY <1>1 DEF PromptsTrue, HeadTrue, SteeringTrue, Suspended
<1>6. ArrivedTrue'
  <2>1. consumer.head \in arrived
    BY <1>1 DEF PromptsTrue, HeadTrue, HeadIs, Suspended
  <2> QED  BY <1>1, <1>2, <1>3, <2>1 DEF PromptsTrue, ArrivedTrue, Waits
<1>7. ASSUME NEW j \in Own
      PROVE  OwnIs(j)'
  <2>1. OwnIs(j) /\ j \in Keys /\ (j \in ToSet(queue) => j \in arrived)
    BY KeysTyped DEF PromptsTrue, OwnTrue, ArrivedTrue, Waits
  <2>2. CASE j \in batch
    <3>1. receipts[j] = {} /\ j \notin Lifted /\ ran[j] = 0 /\ j \in arrived
      BY <1>2, <2>1, <2>2 DEF OwnIs, Waits
    <3>2. receipts'[j] = {"released"} /\ "withdrawn" \notin {"released"} /\ ran'[j] = 1
      <4>1. /\ receipts'[j] = receipts[j] \cup {"released"}
            /\ ran'[j] = ran[j] + 1
        BY <1>3, <2>1, <2>2
      <4>2. "withdrawn" \notin {"released"} /\ 0 + 1 = 1
        OBVIOUS
      <4> QED  BY <3>1, <4>1, <4>2
    <3> QED  BY <1>1, <1>2, <2>2, <3>1, <3>2 DEF OwnIs, Waits
  <2>3. CASE j \notin batch
    <3>1. receipts'[j] = receipts[j] /\ ran'[j] = ran[j]
      BY <1>3, <2>1, <2>3
    <3> QED  BY <1>1, <1>2, <2>1, <2>3, <3>1 DEF OwnIs, Waits
  <2> QED  BY <2>2, <2>3
<1>8. ASSUME NEW k \in Shared
      PROVE  CommandIs(k)' /\ VersionIs(k)'
  <2>1. CommandIs(k) /\ VersionIs(k) /\ ClaimTrue /\ k \in Keys
    BY KeysTyped DEF SharedTrue
  <2>2. k = consumer.head => command[k] = "started"
    BY <1>1, <2>1 DEF CommandIs, ClaimTrue
  <2>3. CASE k \in batch
    <3>1. k = consumer.head /\ k \in ToSet(queue) /\ k \notin ToSet(queue')
      BY <1>2, <1>4, <2>3
    <3>2. ran[k] = 0
      BY <1>1, <2>1, <3>1 DEF CommandIs, ClaimTrue, Waits
    <3>3. ran'[k] = 1
      <4>1. ran'[k] = ran[k] + 1
        BY <1>3, <2>1, <2>3
      <4> QED  BY <3>2, <4>1
    <3> QED  BY <1>1, <2>1, <2>2, <3>1, <3>3 DEF CommandIs, VersionIs, Waits
  <2>4. CASE k \notin batch
    <3>1. ran'[k] = ran[k]
      BY <1>3, <2>1, <2>4
    <3>2. k = consumer.head /\ k \notin admitted => ran[k] = 0
      BY <1>1, <2>1 DEF ClaimTrue
    <3> QED  BY <1>1, <1>2, <2>1, <2>2, <3>1, <3>2 DEF CommandIs, VersionIs, Waits
  <2> QED  BY <2>3, <2>4
<1>9. SharedTrue'
  BY <1>1, <1>8 DEF SharedTrue, ClaimTrue
<1> QED  BY <1>2, <1>5, <1>6, <1>7, <1>9 DEF PromptsTrue, OwnTrue

-----------------------------------------------------------------------------
(* Type correctness, step by step.                                         *)

\* The parts of the type invariant that belong to the process
ProcessTyped ==
  /\ steering \subseteq [key : Own, index : Nat \ {0}]
  /\ consumer \in [at : Sites, head : Keys \cup {NoKey}, allowed : BOOLEAN]
  /\ admitted \subseteq Shared /\ reviewed \subseteq Reports
  /\ late \subseteq Shared

FeedTyped ==
  /\ cursor \in 0..Len(log)
  /\ recovery \in [at : {"due", "answered", "taking"}, found : SUBSET (1..Len(log))]

HistoryTyped ==
  /\ receipts \in [Keys -> SUBSET {"released", "withdrawn"}]
  /\ arrived \subseteq Keys /\ restored \subseteq Own /\ lost \subseteq Own
  /\ ran \in [Keys -> Nat]

BudgetTyped == faults \in 0..MaxFaults /\ presses \in 0..MaxPresses

LEMMA TypeParts ==
  TypeOK <=> /\ CentreTypeOK /\ OnceEach(queue, Keys)
             /\ ProcessTyped /\ FeedTyped /\ HistoryTyped /\ BudgetTyped
<1>1. OnceEach(queue, Keys) <=> queue \in Seq(Keys) /\ IsInjective(queue)
  BY OnceIsInjective
<1> QED  BY <1>1 DEF TypeOK, ProcessTyped, FeedTyped, HistoryTyped, BudgetTyped

LEMMA BudgetKept ==
  ASSUME BudgetTyped, Fault \/ Press \/ UNCHANGED budget
  PROVE  BudgetTyped'
BY QueueAssumption DEF BudgetTyped, Fault, Press, budget

LEMMA AtTyped == At("top") \in [at : Sites, head : Keys \cup {NoKey}, allowed : BOOLEAN]
                 /\ At("asleep") \in [at : Sites, head : Keys \cup {NoKey}, allowed : BOOLEAN]
                 /\ At("turn") \in [at : Sites, head : Keys \cup {NoKey}, allowed : BOOLEAN]
BY DEF At, Sites

\* The centre's log only grows, so that places in it stay places in it.
LEMMA CentreKept ==
  ASSUME CentreTypeOK, FeedTyped, UNCHANGED feed,
         \/ UNCHANGED centreVars
         \/ Sharing
         \/ ResumeRun
         \/ \E k \in Shared : RecordClaim(k)
  PROVE  CentreTypeOK' /\ FeedTyped'
<1>1. CASE UNCHANGED centreVars
  BY <1>1 DEF centreVars, CentreTypeOK, FeedTyped, feed
<1>2. CASE \E k \in Shared : RecordClaim(k)
  BY <1>2 DEF RecordClaim, CentreTypeOK, CommandStates, FeedTyped, feed
<1>3. CASE ResumeRun \/ ChangeDeviceSharing
  BY <1>3 DEF ResumeRun, ChangeDeviceSharing, CentreTypeOK, FeedTyped, feed
<1>4. CASE \E granted \in BOOLEAN : ChangeSharing(granted)
  BY <1>4, CentreAssumption DEF ChangeSharing, CentreTypeOK, Waiting, FeedTyped, feed
<1>5. CASE \E k \in Shared : QueueCommand(k)
  <2>1. PICK k \in Shared : QueueCommand(k)
    BY <1>5
  <2>2. log' \in Seq(Shared) /\ Len(log') = Len(log) + 1 /\ Len(log) \in Nat
    BY <2>1, AppendProperties, LenProperties DEF QueueCommand, CentreTypeOK
  <2>3. CentreTypeOK'
    BY <2>1, <2>2 DEF QueueCommand, CentreTypeOK, CommandStates
  <2>4. cursor' \in 0..Len(log') /\ recovery'.found \subseteq 1..Len(log')
    BY <2>2 DEF FeedTyped, feed
  <2> QED  BY <2>3, <2>4 DEF FeedTyped, feed
<1> QED  BY <1>1, <1>2, <1>3, <1>4, <1>5 DEF Sharing

LEMMA TypeFromParts ==
  ASSUME CentreTypeOK', OnceEach(queue', Keys), ProcessTyped', FeedTyped',
         HistoryTyped', BudgetTyped'
  PROVE  TypeOK'
<1>1. queue' \in Seq(Keys) /\ IsInjective(queue')
  BY OnceIsInjective
<1> QED  BY <1>1 DEF TypeOK, ProcessTyped, FeedTyped, HistoryTyped, BudgetTyped

\* A step that leaves the centre and its log alone
LEMMA TypeInProcess ==
  ASSUME TypeOK, UNCHANGED <<centreVars, feed>>, Fault \/ Press \/ UNCHANGED budget,
         OnceEach(queue', Keys), ProcessTyped', HistoryTyped'
  PROVE  TypeOK'
<1>1. CentreTypeOK' /\ FeedTyped' /\ BudgetTyped'
  BY TypeParts, CentreKept, BudgetKept
<1> QED  BY <1>1, TypeFromParts

LEMMA ArrivesTyped ==
  ASSUME TypeOK, PromptsTrue, NEW k \in Own, NEW interrupts \in BOOLEAN,
         Arrives(k, interrupts)
  PROVE  TypeOK'
<1>1. OnceEach(queue', Keys)
  BY ArrivesQueue
<1>2. ProcessTyped'
  BY TypeParts, AtTyped DEF ProcessTyped, Arrives, Woken, known
<1>3. HistoryTyped'
  <2>1. receipts' \in [Keys -> SUBSET {"released", "withdrawn"}]
    BY ToldTyped DEF Arrives
  <2> QED  BY <2>1, TypeParts, KeysTyped DEF HistoryTyped, Arrives, past
<1> QED  BY <1>1, <1>2, <1>3, TypeInProcess DEF Arrives

LEMMA TakesTyped ==
  ASSUME TypeOK, PromptsTrue, SharedTrue, NEW k \in Shared, Takes(k), FeedTyped'
  PROVE  TypeOK'
<1>1. OnceEach(queue', Keys)
  BY TakesKeeps
<1>2. ProcessTyped'
  BY TypeParts, AtTyped DEF ProcessTyped, Takes, Woken, known
<1>3. HistoryTyped'
  BY TypeParts, KeysTyped DEF HistoryTyped, Takes, past
<1>4. CentreTypeOK'
  BY TypeParts DEF Takes, centreVars, CentreTypeOK
<1>5. BudgetTyped'
  BY TypeParts, BudgetKept DEF Takes
<1> QED  BY <1>1, <1>2, <1>3, <1>4, <1>5, TypeFromParts

LEMMA FeedTypedKept ==
  ASSUME TypeOK, PromptsTrue, SharedTrue, Reader \/ Recoverer \/ PendingFails
  PROVE  TypeOK' /\ PromptsTrue' /\ SharedTrue'
<1>1. /\ CentreTypeOK /\ FeedTyped /\ Len(log) \in Nat
      /\ \A i \in 1..Len(log) : log[i] \in Shared
  BY TypeParts, LenProperties, ElementOfSeq DEF CentreTypeOK
<1>2. CASE ReadsLog
  <2>1. cursor + 1 \in 1..Len(log) /\ log[cursor + 1] \in Shared
    BY <1>1, <1>2 DEF ReadsLog, FeedTyped
  <2>2. FeedTyped'
    BY <1>1, <1>2, <2>1 DEF ReadsLog, Takes, centreVars, FeedTyped
  <2> QED  BY <1>2, <2>1, <2>2, TakesTyped, TakesKeeps DEF ReadsLog
<1>3. CASE \E i \in recovery.found : TakesPending(i)
  <2>1. PICK i \in recovery.found : TakesPending(i)
    BY <1>3
  <2>2. log[i] \in Shared
    BY <1>1, <2>1 DEF FeedTyped
  <2>3. FeedTyped'
    BY <1>1, <2>1 DEF TakesPending, Takes, centreVars, FeedTyped
  <2> QED  BY <2>1, <2>2, <2>3, TakesTyped, TakesKeeps DEF TakesPending
<1>4. CASE AsksForPending \/ PendingComes \/ PendingFails
  <2>1. /\ UNCHANGED <<command, queuedUnder, policy, outdated, queue, steering,
                       consumer, admitted, reviewed, receipts, arrived, restored,
                       lost, ran>>
        /\ UNCHANGED <<centreVars, known, late, cursor, past, told>>
    BY <1>4 DEF AsksForPending, PendingComes, PendingFails, centreVars, waiting,
                known, told, past
  <2>2. FeedTyped'
    BY <1>1, <1>4 DEF AsksForPending, PendingComes, PendingFails, PendingCommands,
                      centreVars, FeedTyped
  <2>3. CentreTypeOK' /\ OnceEach(queue', Keys) /\ ProcessTyped' /\ HistoryTyped'
    BY <2>1, TypeParts DEF centreVars, CentreTypeOK, ProcessTyped, HistoryTyped
  <2>4. BudgetTyped'
    BY <1>4, TypeParts, BudgetKept DEF AsksForPending, PendingComes, PendingFails
  <2>5. TypeOK'
    BY <2>2, <2>3, <2>4, TypeFromParts
  <2>6. HeadTrue'
    BY <2>1 DEF PromptsTrue, HeadTrue, HeadIs, Suspended, Lifted, Waits
  <2>7. admitted' \subseteq arrived
    BY <2>1, KeysTyped DEF TypeOK, PromptsTrue, ArrivedTrue
  <2> QED  BY <2>1, <2>5, <2>6, <2>7, PromptsKept, SharedKept
<1> QED  BY <1>2, <1>3, <1>4 DEF Reader, Recoverer

LEMMA DiscardsTyped ==
  ASSUME TypeOK, PromptsTrue, Suspended, Discards(consumer.head), late' \subseteq Shared,
         Fault \/ UNCHANGED budget
  PROVE  TypeOK'
<1>1. OnceEach(queue', Keys)
  BY QueueTyped, Removed DEF Discards
<1>2. ProcessTyped'
  BY TypeParts, AtTyped DEF ProcessTyped, Discards, known
<1>3. HistoryTyped'
  <2>1. receipts' \in [Keys -> SUBSET {"released", "withdrawn"}]
    BY ToldTyped DEF Discards
  <2> QED  BY <2>1, TypeParts DEF HistoryTyped, Discards, past
<1> QED  BY <1>1, <1>2, <1>3, TypeInProcess DEF Discards

\* The answers that do not allow the prompt, or do not come
LEMMA RefusalsKeep ==
  ASSUME TypeOK, PromptsTrue, SharedTrue,
         DeviceRefuses \/ DeviceUnknown \/ ClaimRefused \/ ClaimTimesOut
  PROVE  TypeOK' /\ PromptsTrue' /\ SharedTrue'
<1>1. Suspended /\ Discards(consumer.head) /\ (Fault \/ UNCHANGED budget)
  BY DEF DeviceRefuses, DeviceUnknown, ClaimRefused, ClaimTimesOut, Suspended
<1>2. late \subseteq Shared /\ (consumer.at = "claiming" => consumer.head \in Shared)
  BY DEF TypeOK, PromptsTrue, HeadTrue
<1>3. late' \subseteq Shared
  BY <1>2 DEF DeviceRefuses, DeviceUnknown, ClaimRefused, ClaimTimesOut
<1> QED  BY <1>1, <1>3, DiscardsTyped, DiscardsKeeps

LEMMA ConsumerMovesTyped ==
  ASSUME TypeOK, LooksAtHead \/ FallsAsleep \/ DeviceAuthorizes \/ TurnEnds \/ LooksAgain
  PROVE  TypeOK'
<1>1. UNCHANGED <<centreVars, feed, budget, late, queue, steering, reviewed,
                  receipts, arrived, restored, lost, ran>>
  BY DEF LooksAtHead, FallsAsleep, DeviceAuthorizes, TurnEnds, LooksAgain, waiting,
         known, told, past
<1>2. consumer' \in [at : Sites, head : Keys \cup {NoKey}, allowed : BOOLEAN]
  <2>1. CASE LooksAtHead
    <3>1. Head(queue) \in Keys
      BY <2>1, QueueTyped DEF LooksAtHead
    <3> QED  BY <2>1, <3>1 DEF LooksAtHead, Guard, Sites
  <2>2. CASE DeviceAuthorizes
    BY <2>2 DEF DeviceAuthorizes, TypeOK, Sites
  <2>3. CASE FallsAsleep \/ TurnEnds \/ LooksAgain
    BY <2>3, AtTyped DEF FallsAsleep, TurnEnds, LooksAgain
  <2> QED  BY <2>1, <2>2, <2>3
<1>3. admitted' \subseteq Shared
  BY DEF LooksAtHead, FallsAsleep, DeviceAuthorizes, TurnEnds, LooksAgain, Admits,
         known, TypeOK
<1>4. ProcessTyped'
  BY <1>1, <1>2, <1>3, TypeParts DEF ProcessTyped
<1>5. OnceEach(queue', Keys) /\ HistoryTyped'
  BY <1>1, TypeParts DEF HistoryTyped
<1> QED  BY <1>1, <1>4, <1>5, TypeInProcess

LEMMA ClaimsTyped ==
  ASSUME TypeOK, PromptsTrue, SharedTrue,
         ClaimServed \/ \E k \in Shared : LateClaimServed(k)
  PROVE  TypeOK'
<1>1. UNCHANGED <<feed, budget, queue, steering, admitted, reviewed, receipts,
                  arrived, restored, lost, ran>>
  BY DEF ClaimServed, LateClaimServed, waiting, known, told, past
<1>2. \E k \in Shared : RecordClaim(k)
  BY ClaimServedKeeps DEF ClaimServed, LateClaimServed
<1>3. CentreTypeOK' /\ FeedTyped' /\ BudgetTyped'
  BY <1>1, <1>2, TypeParts, CentreKept, BudgetKept
<1>4. consumer' \in [at : Sites, head : Keys \cup {NoKey}, allowed : BOOLEAN]
      /\ late' \subseteq Shared
  <2>1. ClaimAllowed(consumer.head) \in BOOLEAN
    BY DEF ClaimAllowed, Permitted, MaySend, TypeOK, CentreTypeOK
  <2> QED  BY <2>1 DEF ClaimServed, LateClaimServed, TypeOK, Sites
<1>5. OnceEach(queue', Keys) /\ HistoryTyped' /\ ProcessTyped'
  BY <1>1, <1>4, TypeParts DEF HistoryTyped, ProcessTyped
<1> QED  BY <1>3, <1>5, TypeFromParts

LEMMA HandsOverTyped ==
  ASSUME TypeOK, PromptsTrue, SharedTrue, NEW n \in 1..Len(queue), HandsOver(n)
  PROVE  TypeOK'
<1>1. OnceEach(queue', Keys)
  BY HandsOverKeeps
<1>2. ProcessTyped'
  BY TypeParts, AtTyped DEF ProcessTyped, HandsOver, Admits
<1>3. HistoryTyped'
  <2>1. receipts' \in [Keys -> SUBSET {"released", "withdrawn"}]
    BY ToldTyped DEF HandsOver
  <2>2. ran' \in [Keys -> Nat]
    BY TypeParts DEF HandsOver, HistoryTyped
  <2> QED  BY <2>1, <2>2, TypeParts DEF HistoryTyped, HandsOver
<1> QED  BY <1>1, <1>2, <1>3, TypeInProcess DEF HandsOver

LEMMA ButtonsKeep ==
  ASSUME TypeOK, PromptsTrue, SharedTrue, Buttons
  PROVE  TypeOK' /\ PromptsTrue' /\ SharedTrue'
<1>1. CASE \E k \in Keys : Withdraws(k)
  <2>1. PICK k \in Keys : Withdraws(k)
    BY <1>1
  <2>2. OnceEach(queue', Keys)
    BY <2>1, QueueTyped, Removed DEF Withdraws
  <2>3. ProcessTyped'
    BY <2>1, TypeParts DEF ProcessTyped, Withdraws, known
  <2>4. receipts' \in [Keys -> SUBSET {"released", "withdrawn"}]
    BY <2>1, ToldTyped DEF Withdraws
  <2>5. HistoryTyped'
    BY <2>1, <2>4, TypeParts DEF HistoryTyped, Withdraws, past
  <2>6. TypeOK'
    BY <2>1, <2>2, <2>3, <2>5, TypeInProcess DEF Withdraws
  <2> QED  BY <2>1, <2>6, WithdrawsKeeps
<1>2. CASE \E k \in Keys : GoesNext(k)
  <2>1. PICK k \in Keys : GoesNext(k)
    BY <1>2
  <2>2. PromptsTrue' /\ SharedTrue' /\ OnceEach(queue', Keys)
    BY <2>1, GoesNextKeeps
  <2>3. ProcessTyped' /\ HistoryTyped'
    BY <2>1, TypeParts DEF ProcessTyped, HistoryTyped, GoesNext, known, told, past
  <2>4. TypeOK'
    BY <2>1, <2>2, <2>3, TypeInProcess DEF GoesNext
  <2> QED  BY <2>2, <2>4
<1>3. CASE \E k \in Keys : Steers(k)
  <2>1. PICK k \in Keys : Steers(k)
    BY <1>3
  <2>2. OnceEach(queue', Keys)
    BY <2>1, QueueTyped, Removed DEF Steers
  <2>3. steering' \subseteq [key : Own, index : Nat \ {0}]
    <3>1. PICK i \in DOMAIN queue : steering' = steering \cup {[key |-> k, index |-> i]}
      BY <2>1 DEF Steers
    <3>2. k \in Own /\ i \in Nat \ {0}
      BY <2>1, <3>1, LenProperties DEF Steers, TypeOK
    <3> QED  BY <3>1, <3>2 DEF TypeOK
  <2>4. ProcessTyped' /\ HistoryTyped'
    BY <2>1, <2>3, TypeParts DEF ProcessTyped, HistoryTyped, Steers, known, told, past
  <2>5. TypeOK'
    BY <2>1, <2>2, <2>4, TypeInProcess DEF Steers
  <2> QED  BY <2>1, <2>5, SteersKeeps
<1>4. CASE \E r \in Reports : Reviews(r)
  <2>1. PICK r \in Reports : Reviews(r)
    BY <1>4
  <2>2. OnceEach(queue', Keys)
    BY <2>1, QueueTyped, Removed DEF Reviews
  <2>3. ProcessTyped'
    BY <2>1, TypeParts DEF ProcessTyped, Reviews
  <2>4. receipts' \in [Keys -> SUBSET {"released", "withdrawn"}]
    BY <2>1, ToldTyped, TypeParts DEF Reviews, HistoryTyped
  <2>5. HistoryTyped'
    BY <2>1, <2>4, TypeParts DEF HistoryTyped, Reviews, past
  <2>6. TypeOK'
    BY <2>1, <2>2, <2>3, <2>5, TypeInProcess DEF Reviews
  <2> QED  BY <2>1, <2>6, ReviewsKeeps
<1> QED  BY <1>1, <1>2, <1>3, <1>4 DEF Buttons

\* What the engine answers, or fails to, of a prompt that was lifted out
LEMMA SteeringKeeps ==
  ASSUME TypeOK, PromptsTrue, SharedTrue, NEW s \in steering,
         Steered(s) \/ SteerRefused(s) \/ SteerUnconfirmed(s)
  PROVE  TypeOK' /\ PromptsTrue' /\ SharedTrue'
<1>1. s.key \in Own /\ s.key \in Keys
  BY KeysTyped DEF TypeOK
<1>2. CASE Steered(s) \/ SteerUnconfirmed(s)
  <2>1. /\ steering' = steering \ {s} /\ receipts' = Told({s.key}, "released")
        /\ ran' = [ran EXCEPT ![s.key] = @ + 1] \/ ran' = ran
        /\ UNCHANGED <<centreVars, queue, consumer, known, arrived, restored, lost>>
        /\ UNCHANGED <<late, feed>> /\ (Fault \/ UNCHANGED budget)
    BY <1>2 DEF Steered, SteerUnconfirmed
  <2>2. PromptsTrue' /\ SharedTrue'
    BY <2>1, SteeredKeeps
  <2>3. OnceEach(queue', Keys) /\ ProcessTyped'
    BY <2>1, TypeParts DEF ProcessTyped, known
  <2>4. receipts' \in [Keys -> SUBSET {"released", "withdrawn"}]
    BY <2>1, ToldTyped
  <2>5. ran' \in [Keys -> Nat]
    BY <1>1, <2>1, TypeParts DEF HistoryTyped
  <2>6. HistoryTyped'
    BY <2>1, <2>4, <2>5, TypeParts DEF HistoryTyped
  <2>7. TypeOK'
    BY <2>1, <2>3, <2>6, TypeInProcess
  <2> QED  BY <2>2, <2>7
<1>3. CASE SteerRefused(s)
  <2>1. PromptsTrue' /\ SharedTrue' /\ OnceEach(queue', Keys)
    BY <1>3, SteerRefusedKeeps
  <2>2. ProcessTyped' /\ HistoryTyped'
    BY <1>1, <1>3, TypeParts DEF ProcessTyped, HistoryTyped, SteerRefused, known, told
  <2>3. TypeOK'
    BY <1>3, <2>1, <2>2, TypeInProcess DEF SteerRefused
  <2> QED  BY <2>1, <2>3
<1> QED  BY <1>2, <1>3

LEMMA SharingTyped ==
  ASSUME TypeOK, Sharing
  PROVE  TypeOK'
<1>1. /\ OnceEach(queue', Keys) /\ ProcessTyped' /\ HistoryTyped'
      /\ UNCHANGED <<feed, budget>>
  BY TypeParts DEF Sharing, ProcessTyped, HistoryTyped, waiting, known, told, past
<1>2. CentreTypeOK' /\ FeedTyped' /\ BudgetTyped'
  BY <1>1, TypeParts, CentreKept, BudgetKept
<1> QED  BY <1>1, <1>2, TypeFromParts

LEMMA RestartTyped ==
  ASSUME TypeOK, PromptsTrue, NEW resumed \in BOOLEAN, Restart(resumed)
  PROVE  TypeOK'
<1>1. CentreTypeOK' /\ log' = log
  BY TypeParts DEF Restart, ResumeRun, centreVars, CentreTypeOK
<1>2. OnceEach(queue', Keys)
  BY EmptyQueue DEF Restart
<1>3. ProcessTyped'
  BY TypeParts, AtTyped DEF Restart, ProcessTyped, PromptsTrue, HeadTrue
<1>4. FeedTyped'
  <2>1. Len(log) \in Nat
    BY LenProperties DEF TypeOK, CentreTypeOK
  <2>2. cursor' \in 0..Len(log)
    BY <2>1, TypeParts DEF Restart, FeedTyped
  <2> QED  BY <1>1, <2>2 DEF Restart, FeedTyped
<1>5. HistoryTyped'
  BY TypeParts DEF Restart, HistoryTyped
<1>6. BudgetTyped'
  BY TypeParts, BudgetKept DEF Restart
<1> QED  BY <1>1, <1>2, <1>3, <1>4, <1>5, <1>6, TypeFromParts

-----------------------------------------------------------------------------
(* The invariant holds at first, and every step keeps it.                  *)

LEMMA InitSafety == Init => SafetyInv
<1> SUFFICES ASSUME Init PROVE SafetyInv
  OBVIOUS
<1>1. ToSet(queue) = {} /\ OnceEach(queue, Keys) /\ Lifted = {}
  BY EmptyQueue DEF Init, Lifted
<1>2. CentreTypeOK
  BY CentreAssumption DEF Init, CentreInit, CentreTypeOK, CommandStates
<1>3. ProcessTyped /\ FeedTyped /\ HistoryTyped /\ BudgetTyped
  <2>1. Len(log) = 0
    BY DEF Init, CentreInit
  <2> QED  BY <2>1, AtTyped, QueueAssumption
           DEF Init, ProcessTyped, FeedTyped, HistoryTyped, BudgetTyped
<1>4. TypeOK
  BY <1>1, <1>2, <1>3, TypeParts
<1>5. PromptsTrue
  BY <1>1, KeysTyped DEF Init, At, PromptsTrue, HeadTrue, Suspended, SteeringTrue, ArrivedTrue,
                         OwnTrue, OwnIs, Waits
<1>6. SharedTrue
  BY <1>1, KeysTyped, CentreAssumption
     DEF Init, CentreInit, At, SharedTrue, ClaimTrue, CommandIs, VersionIs, Waits
<1> QED  BY <1>4, <1>5, <1>6 DEF SafetyInv

LEMMA StepSafety == SafetyInv /\ [Next]_vars => SafetyInv'
<1> SUFFICES ASSUME TypeOK, PromptsTrue, SharedTrue, [Next]_vars
             PROVE  TypeOK' /\ PromptsTrue' /\ SharedTrue'
  BY DEF SafetyInv
<1>1. CASE \E k \in Own, interrupts \in BOOLEAN : Arrives(k, interrupts)
  BY <1>1, ArrivesTyped, ArrivesKeeps
<1>2. CASE Reader \/ Recoverer \/ PendingFails
  BY <1>2, FeedTypedKept
<1>3. CASE LooksAtHead
  BY <1>3, ConsumerMovesTyped, LooksAtHeadKeeps
<1>4. CASE FallsAsleep \/ TurnEnds
  BY <1>4, ConsumerMovesTyped, RestsKeep
<1>5. CASE LooksAgain
  BY <1>5, ConsumerMovesTyped, LooksAgainKeeps
<1>6. CASE DeviceAuthorizes
  BY <1>6, ConsumerMovesTyped, DeviceAuthorizesKeeps
<1>7. CASE DeviceRefuses \/ DeviceUnknown \/ ClaimRefused \/ ClaimTimesOut
  BY <1>7, RefusalsKeep
<1>8. CASE ClaimServed
  BY <1>8, ClaimsTyped, ClaimServedKeeps
<1>9. CASE \E k \in Shared : LateClaimServed(k)
  BY <1>9, ClaimsTyped, LateClaimKeeps
<1>10. CASE \E n \in 1..Len(queue) : HandsOver(n)
  BY <1>10, HandsOverTyped, HandsOverKeeps
<1>11. CASE Sharing
  BY <1>11, SharingTyped, SharingKeeps
<1>12. CASE Buttons
  BY <1>12, ButtonsKeep
<1>13. CASE \E s \in steering : Steered(s) \/ SteerRefused(s) \/ SteerUnconfirmed(s)
  BY <1>13, SteeringKeeps
<1>14. CASE \E resumed \in BOOLEAN : Restart(resumed)
  BY <1>14, RestartTyped, RestartKeeps
<1>15. CASE UNCHANGED vars
  <2>1. UNCHANGED <<centreVars, queue, steering, consumer, known, late, feed, told,
                    past, budget>>
    BY <1>15 DEF vars, waiting
  <2>2. HeadTrue'
    BY <2>1 DEF PromptsTrue, HeadTrue, HeadIs, Suspended, Lifted, Waits, told, past, known
  <2>3. admitted' \subseteq arrived
    BY <2>1, KeysTyped DEF TypeOK, PromptsTrue, ArrivedTrue, known
  <2>4. PromptsTrue' /\ SharedTrue'
    BY <2>1, <2>2, <2>3, PromptsKept, SharedKept DEF centreVars, known, told, past
  <2>5. ProcessTyped' /\ HistoryTyped' /\ OnceEach(queue', Keys)
    BY <2>1, TypeParts DEF ProcessTyped, HistoryTyped, known, told, past
  <2> QED  BY <2>1, <2>4, <2>5, TypeInProcess
<1> QED  BY <1>1, <1>2, <1>3, <1>4, <1>5, <1>6, <1>7, <1>8, <1>9, <1>10, <1>11, <1>12,
            <1>13, <1>14, <1>15 DEF Next, Consumer, SteerAnswered, Faults

\* What the process and the centre keep, always
THEOREM SafetyCorrect == Spec => []SafetyInv
BY InitSafety, StepSafety, PTL DEF Spec

\* Every variable keeps its type, and no prompt waits twice.
THEOREM TypeCorrect == Spec => []TypeOK
<1>1. SafetyInv => TypeOK
  BY DEF SafetyInv
<1> QED  BY <1>1, SafetyCorrect, PTL

\* No prompt is handed to the engine twice, whatever is delivered, claimed,
\* given up or restarted.
THEOREM RunsAtMostOnce == Spec => []AtMostOnce
<1>1. SafetyInv => AtMostOnce
  <2> SUFFICES ASSUME SafetyInv, NEW k \in Keys PROVE ran[k] <= 1
    BY DEF AtMostOnce
  <2>1. CASE k \in Own
    BY <2>1 DEF SafetyInv, PromptsTrue, OwnTrue, OwnIs
  <2>2. CASE k \in Shared
    BY <2>2 DEF SafetyInv, SharedTrue, CommandIs
  <2> QED  BY <2>1, <2>2, KeysTyped
<1> QED  BY <1>1, SafetyCorrect, PTL

\* What has arrived is accounted for, and the app's receipts are true.
THEOREM AccountsCorrect == Spec => []Accounted
<1>1. SafetyInv => Accounted
  <2> SUFFICES ASSUME SafetyInv PROVE Accounted
    OBVIOUS
  <2>1. ToSet(queue) \cap reviewed \subseteq restored
    BY DEF SafetyInv, PromptsTrue, ArrivedTrue, Waits
  <2>2. \A k \in arrived :
          Waits(k) \/ k \in Lifted \/ receipts[k] # {} \/ k \in lost
    BY DEF SafetyInv, PromptsTrue, ArrivedTrue
  <2>3. ASSUME NEW k \in Own
        PROVE  /\ Waits(k) \/ k \in Lifted => receipts[k] = {}
               /\ Waits(k) => k \notin Lifted
               /\ receipts[k] # {"released", "withdrawn"}
               /\ "withdrawn" \in receipts[k] => ran[k] = 0
    <3>1. OwnIs(k)
      BY DEF SafetyInv, PromptsTrue, OwnTrue
    <3> QED  BY <3>1 DEF OwnIs
  <2> QED  BY <2>1, <2>2, <2>3 DEF Accounted
<1> QED  BY <1>1, SafetyCorrect, PTL

\* A command that was waiting when the sharing changed never runs.
THEOREM OutdatedCorrect == Spec => []OutdatedNeverRuns
<1>1. SafetyInv => OutdatedNeverRuns
  <2> SUFFICES ASSUME SafetyInv, NEW k \in outdated PROVE ran[k] = 0
    BY DEF OutdatedNeverRuns
  <2>1. k \in Shared
    BY DEF SafetyInv, TypeOK, CentreTypeOK
  <2>2. CommandIs(k) /\ VersionIs(k)
    BY <2>1 DEF SafetyInv, SharedTrue
  <2> QED  BY <2>2 DEF CommandIs, VersionIs
<1> QED  BY <1>1, SafetyCorrect, PTL

-----------------------------------------------------------------------------
(* What a step may do to shared commands.                                  *)

\* What runs: at most one shared command, alone, which the centre has recorded as
\* started; then the record does not change.
LEMMA StepRuns ==
  ASSUME SafetyInv, SafetyInv', [Next]_vars
  PROVE  \/ \A k \in Shared : ran'[k] = ran[k]
         \/ /\ UNCHANGED command
            /\ \E k \in Shared : /\ ran[k] = 0 /\ ran'[k] = 1 /\ command[k] = "started"
                                 /\ \A j \in Keys \ {k} : ran'[j] = ran[j]
<1>1. CASE \E n \in 1..Len(queue) : HandsOver(n)
  <2>1. PICK n \in 1..Len(queue) : HandsOver(n)
    BY <1>1
  <2> DEFINE batch == ToSet(SubSeq(queue, 1, n))
  <2>2. /\ \A j \in Keys : ran'[j] = IF j \in batch THEN ran[j] + 1 ELSE ran[j]
        /\ UNCHANGED command
    BY <2>1 DEF HandsOver, centreVars
  <2>3. CASE \E k \in Shared : k \in batch
    <3>1. PICK k \in Shared : k \in batch
      BY <2>3
    <3>2. batch = {k} /\ k \in Keys
      BY <2>1, <3>1, BatchAlone, KeysTyped DEF SafetyInv
    <3> HIDE DEF batch
    <3>3. \A j \in Keys \ {k} : ran'[j] = ran[j]
      BY <2>2, <3>2
    <3>4. /\ ran[k] = 0 \/ ran[k] = 1
          /\ ran'[k] = 0 \/ (ran'[k] = 1 /\ command'[k] = "started")
      BY DEF SafetyInv, SharedTrue, CommandIs
    <3>5. ran'[k] = ran[k] + 1
      BY <2>2, <3>2
    <3> QED  BY <2>2, <3>3, <3>4, <3>5
  <2>4. CASE ~\E k \in Shared : k \in batch
    BY <2>2, <2>4, KeysTyped
  <2> QED  BY <2>3, <2>4
<1>2. CASE \E s \in steering : Steered(s) \/ SteerRefused(s) \/ SteerUnconfirmed(s)
  <2>1. PICK s \in steering : Steered(s) \/ SteerRefused(s) \/ SteerUnconfirmed(s)
    BY <1>2
  <2>2. s.key \notin Shared
    BY KeysTyped DEF SafetyInv, TypeOK
  <2>3. ran' = [ran EXCEPT ![s.key] = @ + 1] \/ ran' = ran
    BY <2>1 DEF Steered, SteerRefused, SteerUnconfirmed
  <2>4. ran \in [Keys -> Nat]
    BY DEF SafetyInv, TypeOK
  <2> QED  BY <2>2, <2>3, <2>4, KeysTyped
<1>3. CASE \E k \in Own, interrupts \in BOOLEAN : Arrives(k, interrupts)
  BY <1>3 DEF Arrives, past
<1>4. CASE Reader \/ Recoverer \/ PendingFails
  BY <1>4 DEF Reader, Recoverer, ReadsLog, TakesPending, Takes, AsksForPending,
              PendingComes, PendingFails, past
<1>5. CASE LooksAtHead \/ FallsAsleep \/ TurnEnds \/ LooksAgain \/ DeviceAuthorizes
  BY <1>5 DEF LooksAtHead, FallsAsleep, TurnEnds, LooksAgain, DeviceAuthorizes, past
<1>6. CASE DeviceRefuses \/ DeviceUnknown \/ ClaimRefused \/ ClaimTimesOut
  BY <1>6 DEF DeviceRefuses, DeviceUnknown, ClaimRefused, ClaimTimesOut, Discards, past
<1>7. CASE ClaimServed \/ \E k \in Shared : LateClaimServed(k)
  BY <1>7 DEF ClaimServed, LateClaimServed, past
<1>8. CASE Sharing
  BY <1>8 DEF Sharing, past
<1>9. CASE Buttons
  BY <1>9 DEF Buttons, Withdraws, GoesNext, Steers, Reviews, past
<1>10. CASE \E resumed \in BOOLEAN : Restart(resumed)
  BY <1>10 DEF Restart
<1>11. CASE UNCHANGED vars
  BY <1>11 DEF vars, past
<1> QED  BY <1>1, <1>2, <1>3, <1>4, <1>5, <1>6, <1>7, <1>8, <1>9, <1>10, <1>11
         DEF Next, Consumer, SteerAnswered, Faults

\* What becomes of the centre's record: one command is stored, or claimed.
LEMMA StepRecords ==
  ASSUME SafetyInv, [Next]_vars
  PROVE  \/ UNCHANGED command
         \/ \E k \in Shared :
              \/ command[k] = "none" /\ command' = [command EXCEPT ![k] = "queued"]
              \/ /\ command[k] = "queued"
                 /\ \/ command' = [command EXCEPT ![k] = "started"]
                    \/ command' = [command EXCEPT ![k] = "cancelled"]
<1>1. CASE \E n \in 1..Len(queue) : HandsOver(n)
  BY <1>1 DEF HandsOver, centreVars
<1>2. CASE \E s \in steering : Steered(s) \/ SteerRefused(s) \/ SteerUnconfirmed(s)
  BY <1>2 DEF Steered, SteerRefused, SteerUnconfirmed, centreVars
<1>3. CASE \E k \in Own, interrupts \in BOOLEAN : Arrives(k, interrupts)
  BY <1>3 DEF Arrives, centreVars
<1>4. CASE Reader \/ Recoverer \/ PendingFails
  BY <1>4 DEF Reader, Recoverer, ReadsLog, TakesPending, Takes, AsksForPending,
              PendingComes, PendingFails, centreVars
<1>5. CASE LooksAtHead \/ FallsAsleep \/ TurnEnds \/ LooksAgain \/ DeviceAuthorizes
  BY <1>5 DEF LooksAtHead, FallsAsleep, TurnEnds, LooksAgain, DeviceAuthorizes, centreVars
<1>6. CASE DeviceRefuses \/ DeviceUnknown \/ ClaimRefused \/ ClaimTimesOut
  BY <1>6 DEF DeviceRefuses, DeviceUnknown, ClaimRefused, ClaimTimesOut, Discards, centreVars
<1>7. CASE ClaimServed \/ \E k \in Shared : LateClaimServed(k)
  <2>1. \E k \in Shared : RecordClaim(k)
    BY <1>7, ClaimServedKeeps DEF SafetyInv, ClaimServed, LateClaimServed
  <2> QED  BY <2>1 DEF RecordClaim
<1>8. CASE Sharing
  BY <1>8 DEF Sharing, QueueCommand, ChangeSharing, ChangeDeviceSharing
<1>9. CASE Buttons
  BY <1>9 DEF Buttons, Withdraws, GoesNext, Steers, Reviews, centreVars
<1>10. CASE \E resumed \in BOOLEAN : Restart(resumed)
  BY <1>10 DEF Restart, ResumeRun, centreVars
<1>11. CASE UNCHANGED vars
  BY <1>11 DEF vars, centreVars
<1> QED  BY <1>1, <1>2, <1>3, <1>4, <1>5, <1>6, <1>7, <1>8, <1>9, <1>10, <1>11
         DEF Next, Consumer, SteerAnswered, Faults

\* The turn of a shared command is its own.
THEOREM RunsAlone == Spec => SharedRunsAlone
<1>1. ASSUME SafetyInv, SafetyInv', [Next]_vars
      PROVE  [\A k \in Shared, j \in Keys :
                ran'[k] # ran[k] /\ ran'[j] # ran[j] => j = k]_vars
  BY <1>1, StepRuns, KeysTyped
<1> QED  BY <1>1, SafetyCorrect, PTL DEF Spec, SharedRunsAlone

\* Every step of the queue and the centre is a step of the promise, or none.
LEMMA StepPromise ==
  ASSUME SafetyInv, SafetyInv', [Next]_vars
  PROVE  [Promise!Next]_(Promise!vars)
<1> DEFINE own == [k \in Shared |-> ran[k]]
<1>1. CASE \A k \in Shared : ran'[k] = ran[k]
  <2>1. own' = own
    BY <1>1
  <2> HIDE DEF own
  <2>2. CASE UNCHANGED command
    BY <2>1, <2>2 DEF Promise!vars, own
  <2>3. CASE ~UNCHANGED command
    <3>1. PICK k \in Shared :
              \/ command[k] = "none" /\ command' = [command EXCEPT ![k] = "queued"]
              \/ /\ command[k] = "queued"
                 /\ \/ command' = [command EXCEPT ![k] = "started"]
                    \/ command' = [command EXCEPT ![k] = "cancelled"]
      BY <2>3, StepRecords
    <3>2. \/ Promise!Record(k, "none", "queued")
          \/ Promise!Record(k, "queued", "started")
          \/ Promise!Record(k, "queued", "cancelled")
      BY <2>1, <3>1 DEF Promise!Record, own
    <3> QED  BY <3>2 DEF Promise!Next
  <2> QED  BY <2>2, <2>3
<1>2. CASE ~\A k \in Shared : ran'[k] = ran[k]
  <2>1. UNCHANGED command
    BY <1>2, StepRuns
  <2>2. PICK k \in Shared : /\ ran[k] = 0 /\ ran'[k] = 1 /\ command[k] = "started"
                            /\ \A j \in Keys \ {k} : ran'[j] = ran[j]
    BY <1>2, StepRuns
  <2>3. own' = [own EXCEPT ![k] = 1] /\ own[k] = 0
    BY <2>2, KeysTyped
  <2> HIDE DEF own
  <2>4. Promise!Run(k)
    BY <2>1, <2>2, <2>3 DEF Promise!Run, own
  <2> QED  BY <2>4 DEF Promise!Next
<1> QED  BY <1>1, <1>2

\* The centre's record, and what runs, keep the promise made of shared commands.
THEOREM PromiseIsKept == Spec => KeepsPromise
<1>1. Init => Promise!Init
  BY KeysTyped DEF Init, CentreInit, Promise!Init
<1>2. SafetyInv /\ SafetyInv' /\ [Next]_vars => [Promise!Next]_(Promise!vars)
  BY StepPromise
<1> QED  BY <1>1, <1>2, SafetyCorrect, PTL DEF Spec, KeepsPromise, Promise!Spec
=============================================================================
