----------------------- MODULE SessionMetadata_proofs -----------------------
(***************************************************************************)
(* Proofs about SessionMetadata: for any number of processes, apps,        *)
(* updates, attempts and faults.                                           *)
(***************************************************************************)
EXTENDS SessionMetadata, SequenceTheorems, TLAPS

-----------------------------------------------------------------------------
(* The inductive invariant.                                                *)

\* What the centre would write is the version the request was made from, with
\* one update more; what it has written is in the history, and shows the update.
RequestsTrue ==
  \A r \in requests :
    /\ r.base \in -1..Version
    /\ r.base >= 0 => r.value = At(r.base) \cup {r.update}
    /\ r.at = "read" => r.base >= 0
    /\ r.at = "written" =>
         /\ r.base \in 0..Version - 1
         /\ r.value = At(r.base + 1)
         /\ r.update \in At(Version)

\* A client waits for one request at a time.
OneEach ==
  \A r, s \in requests : r.from = s.from /\ r.from # Nobody => r = s

\* The request somebody waits for is of the update the client is making, for a
\* process the first in its queue, and no newer than the copy.
CallersWait ==
  \A r \in requests :
    r.from # Nobody =>
      /\ Caller[r.update] = r.from
      /\ status[r.update] = "called"
      /\ attempt[r.from].update = r.update
      /\ r.from \in Processes =>
           /\ queue[r.from] # <<>>
           /\ r.update = Head(queue[r.from])
           /\ r.base <= copy[r.from].version

\* The lock of a process is awaited once by each update that is under way.
QueuesTrue ==
  \A p \in Processes :
    /\ \A i \in 1..Len(queue[p]) :
         Caller[queue[p][i]] = p /\ status[queue[p][i]] = "called"
    /\ \A i, j \in 1..Len(queue[p]) : queue[p][i] = queue[p][j] => i = j

\* Who was told of an update was told the truth.
ToldTrue ==
  \A u \in Updates : status[u] = "told" => u \in At(Version)

SafetyInv ==
  /\ TypeOK /\ RequestsTrue /\ OneEach /\ CallersWait /\ QueuesTrue /\ ToldTrue

\* How many conflicts client c may have had, and that n more would not be too
\* many.
Allowance(c) == 1 + 2 * (Version - attempt[c].since)

Due(c, n) == attempt[c].conflicts + n <= Allowance(c)

\* Every client has had no more than it may, and what it makes was called for.
CountsOfClients ==
  \A c \in Clients :
    /\ attempt[c].since <= Version
    /\ Due(c, 0)
    /\ attempt[c].conflicts > 0 =>
         attempt[c].update \in Updates /\ status[attempt[c].update] # "new"

\* A request made from an old copy will meet one conflict more, one that was
\* checked before somebody else's write two; one written leaves room for both.
CountsOfRequests ==
  \A r \in requests :
    r.from # Nobody =>
      /\ r.at = "sent" /\ r.base # Version => Due(r.from, 1)
      /\ r.at = "read" /\ r.base # Version => Due(r.from, 2)
      /\ r.at = "written" => Due(r.from, 2)

\* A process that pauses with an old copy will meet one more.
CountsOfPauses ==
  \A p \in Processes :
    /\ ~Waits(p)
    /\ queue[p] # <<>>
    /\ attempt[p].update = Head(queue[p])
    /\ copy[p].version # Version
    => Due(p, 1)

ConflictsCounted == CountsOfClients /\ CountsOfRequests /\ CountsOfPauses

-----------------------------------------------------------------------------
(* The history of versions.                                                *)

\* A version that was taken does not change when another is.
LEMMA HistoryGrows ==
  ASSUME written \in Seq(SUBSET Updates),
         NEW x \in SUBSET Updates, written' = Append(written, x)
  PROVE  /\ Version \in Nat /\ Version' = Version + 1
         /\ written' \in Seq(SUBSET Updates)
         /\ At(Version)' = x
         /\ \A v \in Int : v <= Version => At(v)' = At(v) /\ CopyOf(v)' = CopyOf(v)
<1>1. /\ written' \in Seq(SUBSET Updates)
      /\ Len(written') = Len(written) + 1
      /\ Len(written) \in Nat
      /\ \A i \in 1..Len(written) : written'[i] = written[i]
      /\ written'[Len(written) + 1] = x
  BY AppendProperties, LenProperties
<1>2. At(Version)' = x
  BY <1>1 DEF At, Version
<1>3. ASSUME NEW v \in Int, v <= Version  PROVE At(v)' = At(v)
  BY <1>1, <1>3 DEF At, Version
<1>. QED  BY <1>1, <1>2, <1>3 DEF Version, CopyOf

\* What the history holds of a version is a set of updates.
LEMMA HistoryTyped ==
  ASSUME written \in Seq(SUBSET Updates)
  PROVE  /\ Version \in Nat
         /\ \A v \in Int : v <= Version => At(v) \in SUBSET Updates
<1>1. Len(written) \in Nat /\ \A i \in 1..Len(written) : written[i] \in SUBSET Updates
  BY LenProperties, ElementOfSeq
<1>. QED  BY <1>1 DEF At, Version

LEMMA HistoryKept ==
  ASSUME UNCHANGED written
  PROVE  Version' = Version /\ \A v : At(v)' = At(v) /\ CopyOf(v)' = CopyOf(v)
BY DEF Version, At, CopyOf

\* The type of a request, field by field.
LEMMA RequestTyped ==
  ASSUME TypeOK, NEW r \in requests
  PROVE  /\ r \in Requests
         /\ r.from \in Clients \cup {Nobody} /\ r.update \in Updates /\ r.base \in Int
         /\ r.value \in SUBSET Updates /\ r.at \in {"sent", "read", "written"}
BY DEF TypeOK, Requests

LEMMA CopyTyped ==
  ASSUME TypeOK, NEW c \in Clients
  PROVE  /\ copy[c].version \in Int /\ copy[c].value \in SUBSET Updates
         /\ copy[c].version <= Version /\ copy[c].version >= -1
         /\ copy[c] = CopyOf(copy[c].version)
         /\ copy[c].value = At(copy[c].version)
BY HistoryTyped DEF TypeOK, CopyOf

-----------------------------------------------------------------------------
(* The initial state.                                                      *)

LEMMA InitSafety ==
  ASSUME Init  PROVE SafetyInv
<1>1. Version = 0 /\ At(0) = {} /\ CopyOf(0) = [version |-> 0, value |-> {}]
  BY EmptySeq DEF Init, Version, At, CopyOf
<1>2. TypeOK
  BY <1>1, EmptySeq, MetadataAssumption DEF Init, TypeOK, Attempts, Begun, Clients
<1>. QED  BY <1>1, <1>2, EmptySeq DEF Init, SafetyInv, RequestsTrue, OneEach, CallersWait,
            QueuesTrue, ToldTrue

LEMMA InitCounted ==
  ASSUME Init  PROVE ConflictsCounted
<1>1. Version = 0
  BY EmptySeq DEF Init, Version
<1>. QED  BY <1>1 DEF Init, ConflictsCounted, CountsOfClients, CountsOfRequests, CountsOfPauses,
            Begun, Allowance, Due

-----------------------------------------------------------------------------
(* Lemmas on queues and requests.                                          *)

\* Two requests that are waited for are of different clients, and so of
\* different updates.
LEMMA OthersDiffer ==
  ASSUME SafetyInv, NEW r \in requests, NEW s \in requests \ {r},
         r.from # Nobody, s.from # Nobody
  PROVE  s.from # r.from /\ s.update # r.update
BY DEF SafetyInv, OneEach, CallersWait

\* An update whose caller waits is its own first in the queue.
LEMMA CallerFacts ==
  ASSUME SafetyInv, NEW r \in requests, r.from # Nobody
  PROVE  /\ r.from \in Clients /\ r.update \in Updates /\ Caller[r.update] = r.from
         /\ status[r.update] = "called" /\ attempt[r.from].update = r.update
         /\ r.from \in Processes => /\ queue[r.from] # <<>>
                                    /\ r.update = Head(queue[r.from])
                                    /\ r.base <= copy[r.from].version
BY RequestTyped DEF SafetyInv, CallersWait

LEMMA QueueTyped ==
  ASSUME SafetyInv, NEW p \in Processes
  PROVE  /\ queue[p] \in Seq(Updates) /\ Len(queue[p]) \in Nat
         /\ \A i \in 1..Len(queue[p]) :
              /\ queue[p][i] \in Updates /\ Caller[queue[p][i]] = p
              /\ status[queue[p][i]] = "called"
         /\ queue[p] # <<>> => Len(queue[p]) >= 1 /\ Head(queue[p]) = queue[p][1]
<1>1. queue[p] \in Seq(Updates)
  BY DEF SafetyInv, TypeOK
<1>. QED  BY <1>1, LenProperties, ElementOfSeq, EmptySeq DEF SafetyInv, QueuesTrue

\* When an update is over, its process's queue begins after it and holds it no
\* more, and nobody else's changes.
LEMMA EndsKeeps ==
  ASSUME SafetyInv, NEW r \in requests, r.from # Nobody,
         NEW outcome \in {"told", "failed", "ignored"}, Ends(r, outcome)
  PROVE  /\ queue' \in [Processes -> Seq(Updates)]
         /\ status' \in [Updates -> {"new", "called", "told", "failed", "ignored", "lost"}]
         /\ status'[r.update] = outcome
         /\ \A u \in Updates : u # r.update => status'[u] = status[u]
         /\ \A p \in Processes : p # r.from => queue'[p] = queue[p]
         /\ r.from \in Processes /\ queue'[r.from] # <<>> =>
              Head(queue'[r.from]) # r.update
         /\ QueuesTrue'
<1>1. /\ r.from \in Clients /\ r.update \in Updates
      /\ status \in [Updates -> {"new", "called", "told", "failed", "ignored", "lost"}]
      /\ queue \in [Processes -> Seq(Updates)]
  BY CallerFacts DEF SafetyInv, TypeOK
<1>2. /\ status'[r.update] = outcome
      /\ \A u \in Updates : u # r.update => status'[u] = status[u]
      /\ status' \in [Updates -> {"new", "called", "told", "failed", "ignored", "lost"}]
      /\ \A p \in Processes : p # r.from => queue'[p] = queue[p]
  BY <1>1 DEF Ends
<1>3. CASE r.from \in Processes
  <2>. DEFINE p == r.from  q == queue[p]
  <2>1. /\ q \in Seq(Updates) /\ q # <<>> /\ Len(q) \in Nat /\ r.update = q[1]
    BY <1>3, QueueTyped, CallerFacts
  <2>2. /\ Tail(q) \in Seq(Updates) /\ Len(Tail(q)) = Len(q) - 1
        /\ \A i \in 1..Len(Tail(q)) : Tail(q)[i] = q[i + 1]
    BY <2>1, HeadTailProperties
  <2>3. queue' = [queue EXCEPT ![p] = Tail(q)]
    BY <1>3 DEF Ends
  <2>4. queue'[p] = Tail(q) /\ queue' \in [Processes -> Seq(Updates)]
    BY <1>1, <1>3, <2>2, <2>3
  <2>5. \A i, j \in 1..Len(q) : q[i] = q[j] => i = j
    BY <1>3 DEF SafetyInv, QueuesTrue
  <2>6. \A i \in 1..Len(Tail(q)) : i + 1 \in 1..Len(q) /\ Tail(q)[i] = q[i + 1]
    BY <2>1, <2>2
  <2>7. \A i \in 1..Len(Tail(q)) : Tail(q)[i] # r.update
    BY <2>1, <2>5, <2>6
  <2>8. Tail(q) # <<>> => Head(Tail(q)) = Tail(q)[1] /\ 1 \in 1..Len(Tail(q))
    BY <2>2, EmptySeq
  <2>9. ASSUME NEW s \in Processes, NEW i \in 1..Len(queue'[s])
        PROVE  Caller[queue'[s][i]] = s /\ status'[queue'[s][i]] = "called"
    <3>1. CASE s = p
      <4>1. queue'[s] = Tail(q) /\ i \in 1..Len(Tail(q))
        BY <2>4, <2>9, <3>1
      <4>2. Tail(q)[i] = q[i + 1] /\ i + 1 \in 1..Len(q) /\ Tail(q)[i] # r.update
        BY <2>6, <2>7, <4>1
      <4>3. /\ q[i + 1] \in Updates /\ Caller[q[i + 1]] = p /\ status[q[i + 1]] = "called"
        BY <1>3, <4>2, QueueTyped
      <4>. QED  BY <1>2, <3>1, <4>1, <4>2, <4>3
    <3>2. CASE s # p
      <4>1. queue'[s] = queue[s]
        BY <1>2, <3>2
      <4>2. /\ queue[s][i] \in Updates /\ Caller[queue[s][i]] = s
            /\ status[queue[s][i]] = "called"
        BY <4>1, <2>9, QueueTyped
      <4>3. queue[s][i] # r.update
        BY <4>2, <3>2, CallerFacts
      <4>. QED  BY <1>2, <4>1, <4>2, <4>3
    <3>. QED  BY <3>1, <3>2
  <2>10. ASSUME NEW s \in Processes, NEW i \in 1..Len(queue'[s]), NEW j \in 1..Len(queue'[s]),
                queue'[s][i] = queue'[s][j]
         PROVE  i = j
    <3>1. CASE s = p
      <4>1. i \in 1..Len(Tail(q)) /\ j \in 1..Len(Tail(q)) /\ Tail(q)[i] = Tail(q)[j]
        BY <2>4, <2>10, <3>1
      <4>2. /\ i + 1 \in 1..Len(q) /\ j + 1 \in 1..Len(q) /\ q[i + 1] = q[j + 1]
        BY <2>6, <4>1
      <4>3. i + 1 = j + 1
        BY <2>5, <4>2
      <4>. QED  BY <4>3
    <3>2. CASE s # p
      BY <1>2, <2>10, <3>2 DEF SafetyInv, QueuesTrue
    <3>. QED  BY <3>1, <3>2
  <2>11. QueuesTrue'
    BY <2>9, <2>10 DEF QueuesTrue
  <2>. QED  BY <1>2, <1>3, <2>4, <2>7, <2>8, <2>11
<1>4. CASE r.from \notin Processes
  <2>1. queue' = queue
    BY <1>4 DEF Ends
  <2>2. ASSUME NEW s \in Processes, NEW i \in 1..Len(queue[s])
        PROVE  Caller[queue[s][i]] = s /\ status'[queue[s][i]] = "called"
    <3>1. /\ queue[s][i] \in Updates /\ Caller[queue[s][i]] = s
          /\ status[queue[s][i]] = "called"
      BY <2>2, QueueTyped
    <3>2. queue[s][i] # r.update
      BY <1>4, <3>1, CallerFacts
    <3>. QED  BY <1>2, <3>1, <3>2
  <2>3. QueuesTrue'
    BY <2>1, <2>2 DEF SafetyInv, QueuesTrue
  <2>. QED  BY <1>1, <1>2, <1>4, <2>1, <2>3
<1>. QED  BY <1>3, <1>4

-----------------------------------------------------------------------------
(* Every step preserves the invariant: calls and attempts.                 *)

\* Adding a request of a client who waits for none, for an update that is its
\* own and under way, and made from the client's copy.
LEMMA RequestMade ==
  ASSUME SafetyInv, NEW c \in Clients, NEW u \in Updates, ~Waits(c), Caller[u] = c,
         requests' = requests \cup {Request(c, u, copy[c])}, UNCHANGED <<written, copy>>
  PROVE  /\ requests' \subseteq Requests
         /\ RequestsTrue' /\ OneEach'
         /\ \A s \in requests : s.from # c
<1>1. \A s \in requests : s.from # c
  BY DEF Waits
<1>2. /\ copy[c].version \in -1..Version /\ copy[c].value = At(copy[c].version)
      /\ copy[c].value \in SUBSET Updates
  BY CopyTyped DEF SafetyInv
<1>3. Request(c, u, copy[c]) \in Requests
  BY <1>2 DEF Request, Requests
<1>4. requests \subseteq Requests
  BY DEF SafetyInv, TypeOK
<1>5. RequestsTrue'
  BY <1>2, HistoryKept DEF SafetyInv, RequestsTrue, Request, Version, At
<1>6. OneEach'
  <2>. SUFFICES ASSUME NEW r \in requests', NEW s \in requests',
                       r.from = s.from, r.from # Nobody
                PROVE  r = s
    BY DEF OneEach
  <2>1. Request(c, u, copy[c]).from = c
    BY DEF Request
  <2>2. CASE r \in requests /\ s \in requests
    BY <2>2 DEF SafetyInv, OneEach
  <2>. QED  BY <1>1, <2>1, <2>2
<1>. QED  BY <1>1, <1>3, <1>4, <1>5, <1>6

LEMMA SafeProcessCalls ==
  ASSUME SafetyInv, NEW u \in Updates, ProcessCalls(u)  PROVE SafetyInv'
<1>. DEFINE p == Caller[u]  q == queue[p]
<1>1. p \in Processes /\ status[u] = "new"
  BY DEF ProcessCalls
<1>2. /\ queue \in [Processes -> Seq(Updates)]
      /\ status \in [Updates -> {"new", "called", "told", "failed", "ignored", "lost"}]
      /\ status' = [status EXCEPT ![u] = "called"]
      /\ queue' = [queue EXCEPT ![p] = Append(q, u)]
  BY DEF ProcessCalls, SafetyInv, TypeOK
<1>3. /\ q \in Seq(Updates) /\ Append(q, u) \in Seq(Updates)
      /\ Len(q) \in Nat /\ Len(Append(q, u)) = Len(q) + 1
      /\ \A i \in 1..Len(q) : Append(q, u)[i] = q[i] /\ q[i] # u
      /\ Append(q, u)[Len(q) + 1] = u
  BY <1>1, <1>2, QueueTyped, AppendProperties
<1>4. queue'[p] = Append(q, u) /\ \A s \in Processes : s # p => queue'[s] = queue[s]
  BY <1>1, <1>2
<1>5. status'[u] = "called" /\ \A w \in Updates : w # u => status'[w] = status[w]
  BY <1>2
<1>6. /\ queue' \in [Processes -> Seq(Updates)]
      /\ status' \in [Updates -> {"new", "called", "told", "failed", "ignored", "lost"}]
  BY <1>2, <1>3
<1>7. UNCHANGED <<written, requests, copy, attempt, faults>>
  BY DEF ProcessCalls
<1>8. TypeOK'
  BY <1>6, <1>7, HistoryKept DEF SafetyInv, TypeOK, Attempts, Version, CopyOf, At
<1>9. RequestsTrue' /\ OneEach'
  BY <1>7 DEF SafetyInv, RequestsTrue, OneEach, Version, At
<1>10. CallersWait'
  <2>. SUFFICES ASSUME NEW r \in requests, r.from # Nobody
                PROVE  /\ status'[r.update] = "called"
                       /\ r.from \in Processes => /\ queue'[r.from] # <<>>
                                                  /\ r.update = Head(queue'[r.from])
    BY <1>7, CallerFacts DEF CallersWait
  <2>1. r.update \in Updates /\ status[r.update] = "called"
    BY CallerFacts
  <2>2. CASE r.from = p
    <3>1. q # <<>> /\ r.update = Head(q)
      BY <1>1, <2>2, CallerFacts
    <3>2. Append(q, u) # <<>> /\ Head(Append(q, u)) = Head(q)
      BY <1>3, <3>1, HeadTailAppend, EmptySeq, AppendProperties
    <3>. QED  BY <1>1, <1>4, <1>5, <2>1, <2>2, <3>1, <3>2
  <2>3. CASE r.from # p
    BY <1>1, <1>4, <1>5, <2>1, <2>3, CallerFacts
  <2>. QED  BY <2>2, <2>3
<1>11. QueuesTrue'
  <2>1. ASSUME NEW s \in Processes, NEW i \in 1..Len(queue'[s])
        PROVE  Caller[queue'[s][i]] = s /\ status'[queue'[s][i]] = "called"
    <3>1. CASE s = p /\ i = Len(q) + 1
      BY <1>3, <1>4, <1>5, <3>1
    <3>2. CASE s = p /\ i # Len(q) + 1
      <4>1. i \in 1..Len(q) /\ queue'[s][i] = q[i]
        BY <1>3, <1>4, <2>1, <3>2
      <4>. QED  BY <1>1, <1>3, <1>5, <3>2, <4>1, QueueTyped
    <3>3. CASE s # p
      <4>1. queue[s][i] \in Updates /\ Caller[queue[s][i]] = s /\ status[queue[s][i]] = "called"
        BY <1>4, <2>1, <3>3, QueueTyped
      <4>. QED  BY <1>1, <1>4, <1>5, <3>3, <4>1
    <3>. QED  BY <3>1, <3>2, <3>3
  <2>2. ASSUME NEW s \in Processes, NEW i \in 1..Len(queue'[s]), NEW j \in 1..Len(queue'[s]),
               queue'[s][i] = queue'[s][j]
        PROVE  i = j
    <3>1. CASE s = p
      <4>1. \A k \in 1..Len(q), l \in 1..Len(q) : q[k] = q[l] => k = l
        BY <1>1 DEF SafetyInv, QueuesTrue
      <4>2. \A k \in 1..Len(q) : Append(q, u)[k] # u /\ Append(q, u)[k] = q[k]
        BY <1>3
      <4>3. /\ i \in 1..Len(q) + 1 /\ j \in 1..Len(q) + 1
            /\ Append(q, u)[i] = Append(q, u)[j]
        BY <1>3, <1>4, <2>2, <3>1
      <4>4. CASE i \in 1..Len(q) /\ j \in 1..Len(q)
        BY <4>1, <4>2, <4>3, <4>4
      <4>5. CASE i = Len(q) + 1 \/ j = Len(q) + 1
        BY <1>3, <4>2, <4>3, <4>5
      <4>. QED  BY <1>3, <4>3, <4>4, <4>5
    <3>2. CASE s # p
      BY <1>4, <2>2, <3>2 DEF SafetyInv, QueuesTrue
    <3>. QED  BY <3>1, <3>2
  <2>. QED  BY <2>1, <2>2 DEF QueuesTrue
<1>12. ToldTrue'
  BY <1>2, <1>5, <1>7 DEF SafetyInv, ToldTrue, At, Version
<1>. QED  BY <1>8, <1>9, <1>10, <1>11, <1>12 DEF SafetyInv

LEMMA SafeAttempt ==
  ASSUME SafetyInv, NEW p \in Processes, Attempt(p)  PROVE SafetyInv'
<1>. DEFINE u == Head(queue[p])
<1>1. /\ queue[p] # <<>> /\ ~Waits(p)
      /\ requests' = requests \cup {Request(p, u, copy[p])}
      /\ attempt' = IF attempt[p].update = u THEN attempt
                                             ELSE [attempt EXCEPT ![p] = Begun(u)]
      /\ UNCHANGED <<written, copy, queue, status, faults>>
  BY DEF Attempt, Free
<1>2. /\ u = queue[p][1] /\ 1 \in 1..Len(queue[p])
  BY <1>1, QueueTyped
<1>3. u \in Updates /\ Caller[u] = p /\ status[u] = "called"
  BY <1>2, QueueTyped
<1>4. p \in Clients
  BY DEF Clients
<1>5. requests' \subseteq Requests /\ RequestsTrue' /\ OneEach' /\ \A s \in requests : s.from # p
  BY <1>1, <1>3, <1>4, RequestMade
<1>6. /\ attempt' \in [Clients -> Attempts]
      /\ attempt'[p].update = u
      /\ \A c \in Clients : c # p => attempt'[c] = attempt[c]
  BY <1>1, <1>3, <1>4, HistoryTyped DEF SafetyInv, TypeOK, Attempts, Begun
<1>7. TypeOK'
  BY <1>1, <1>5, <1>6 DEF SafetyInv, TypeOK, CopyOf, At, Version, Attempts
<1>8. CallersWait'
  <2>. SUFFICES ASSUME NEW r \in requests', r.from # Nobody
                PROVE  /\ Caller[r.update] = r.from
                       /\ status[r.update] = "called"
                       /\ attempt'[r.from].update = r.update
                       /\ r.from \in Processes =>
                            /\ queue[r.from] # <<>>
                            /\ r.update = Head(queue[r.from])
                            /\ r.base <= copy[r.from].version
    BY <1>1 DEF CallersWait
  <2>1. CASE r \in requests
    BY <1>5, <1>6, <2>1, CallerFacts
  <2>2. CASE r = Request(p, u, copy[p])
    BY <1>1, <1>3, <1>4, <1>6, <2>2, CopyTyped DEF Request, SafetyInv
  <2>. QED  BY <1>1, <2>1, <2>2
<1>9. QueuesTrue' /\ ToldTrue'
  BY <1>1 DEF SafetyInv, QueuesTrue, ToldTrue, At, Version
<1>. QED  BY <1>5, <1>7, <1>8, <1>9 DEF SafetyInv

LEMMA SafeAppCalls ==
  ASSUME SafetyInv, NEW u \in Updates, AppCalls(u)  PROVE SafetyInv'
<1>. DEFINE c == Caller[u]
<1>1. /\ c \in Apps /\ status[u] = "new" /\ ~Waits(c)
      /\ status' = [status EXCEPT ![u] = "called"]
      /\ requests' = requests \cup {Request(c, u, copy[c])}
      /\ attempt' = [attempt EXCEPT ![c] = Begun(u)]
      /\ UNCHANGED <<written, copy, queue, faults>>
  BY DEF AppCalls
<1>2. c \in Clients /\ c \notin Processes
  BY <1>1, MetadataAssumption DEF Clients
<1>3. requests' \subseteq Requests /\ RequestsTrue' /\ OneEach' /\ \A s \in requests : s.from # c
  BY <1>1, <1>2, RequestMade
<1>4. /\ attempt' \in [Clients -> Attempts]
      /\ attempt'[c].update = u
      /\ \A d \in Clients : d # c => attempt'[d] = attempt[d]
  BY <1>1, <1>2, HistoryTyped DEF SafetyInv, TypeOK, Attempts, Begun
<1>5. /\ status' \in [Updates -> {"new", "called", "told", "failed", "ignored", "lost"}]
      /\ status'[u] = "called" /\ \A w \in Updates : w # u => status'[w] = status[w]
  BY <1>1 DEF SafetyInv, TypeOK
<1>6. TypeOK'
  BY <1>1, <1>3, <1>4, <1>5 DEF SafetyInv, TypeOK, CopyOf, At, Version, Attempts
<1>7. CallersWait'
  <2>. SUFFICES ASSUME NEW r \in requests', r.from # Nobody
                PROVE  /\ Caller[r.update] = r.from
                       /\ status'[r.update] = "called"
                       /\ attempt'[r.from].update = r.update
                       /\ r.from \in Processes =>
                            /\ queue[r.from] # <<>>
                            /\ r.update = Head(queue[r.from])
                            /\ r.base <= copy[r.from].version
    BY <1>1 DEF CallersWait
  <2>1. CASE r \in requests
    BY <1>1, <1>3, <1>4, <1>5, <2>1, CallerFacts
  <2>2. CASE r = Request(c, u, copy[c])
    BY <1>2, <1>4, <1>5, <2>2 DEF Request
  <2>. QED  BY <1>1, <2>1, <2>2
<1>8. QueuesTrue'
  <2>1. ASSUME NEW s \in Processes, NEW i \in 1..Len(queue[s])
        PROVE  status'[queue[s][i]] = "called"
    BY <1>1, <1>5, QueueTyped
  <2>. QED  BY <1>1, <2>1 DEF SafetyInv, QueuesTrue
<1>9. ToldTrue'
  BY <1>1, <1>5 DEF SafetyInv, ToldTrue, At, Version
<1>. QED  BY <1>3, <1>6, <1>7, <1>8, <1>9 DEF SafetyInv

LEMMA SafeAppLearns ==
  ASSUME SafetyInv, NEW c \in Apps, NEW v \in 1..Version, AppLearns(c, v)  PROVE SafetyInv'
<1>1. /\ copy' = [copy EXCEPT ![c] = CopyOf(v)]
      /\ UNCHANGED <<written, requests, queue, attempt, status, faults>>
  BY DEF AppLearns
<1>2. c \in Clients /\ c \notin Processes
  BY MetadataAssumption DEF Clients
<1>3. v \in Int /\ v <= Version /\ v >= -1 /\ At(v) \in SUBSET Updates /\ Version \in Nat
  BY HistoryTyped DEF SafetyInv, TypeOK
<1>4. /\ copy' \in [Clients -> [version : Int, value : SUBSET Updates]]
      /\ \A d \in Clients :
           copy'[d].version \in -1..Version /\ copy'[d] = CopyOf(copy'[d].version)
  BY <1>1, <1>2, <1>3 DEF SafetyInv, TypeOK, CopyOf
<1>5. TypeOK'
  BY <1>1, <1>4 DEF SafetyInv, TypeOK, CopyOf, At, Version, Attempts
<1>6. RequestsTrue' /\ OneEach' /\ QueuesTrue' /\ ToldTrue'
  BY <1>1 DEF SafetyInv, RequestsTrue, OneEach, QueuesTrue, ToldTrue, At, Version
<1>7. CallersWait'
  <2>1. \A p \in Processes : copy'[p] = copy[p]
    BY <1>1, <1>2 DEF SafetyInv, TypeOK, Clients
  <2>. QED  BY <1>1, <2>1 DEF SafetyInv, CallersWait
<1>. QED  BY <1>5, <1>6, <1>7 DEF SafetyInv

-----------------------------------------------------------------------------
(* Every step preserves the invariant: answers.                            *)

\* A request nobody waits for any more.
Left(r) == [r EXCEPT !.from = Nobody]

LEMMA LeftFacts ==
  ASSUME SafetyInv, NEW r \in requests
  PROVE  /\ Left(r) \in Requests /\ Left(r).from = Nobody
         /\ Left(r).update = r.update /\ Left(r).base = r.base
         /\ Left(r).value = r.value /\ Left(r).at = r.at
BY RequestTyped DEF SafetyInv, Left, Requests

\* When one request is gone or its client waits no longer, whatever became of its
\* update, the others and those who wait for them are as they were.
LEMMA RequestOver ==
  ASSUME SafetyInv, NEW r \in requests, UNCHANGED written,
         requests' \in {requests \ {r}, (requests \ {r}) \cup {Left(r)}},
         NEW outcome \in {"told", "failed", "ignored"},
         GoesOn \/ (r.from # Nobody /\ Ends(r, outcome)),
         \A c \in Clients : attempt'[c].update = attempt[c].update,
         \A p \in Processes : p # r.from => copy'[p].version >= copy[p].version,
         \A p \in Processes : copy'[p].version \in Int
  PROVE  /\ requests' \subseteq Requests
         /\ RequestsTrue' /\ OneEach' /\ CallersWait' /\ QueuesTrue'
         /\ queue' \in [Processes -> Seq(Updates)]
         /\ status' \in [Updates -> {"new", "called", "told", "failed", "ignored", "lost"}]
         /\ \A u \in Updates :
              status'[u] = "told" =>
                status[u] = "told" \/ (u = r.update /\ outcome = "told")
<1>1. requests' \subseteq Requests
  BY LeftFacts DEF SafetyInv, TypeOK
<1>2. RequestsTrue' /\ OneEach'
  <2>1. OneEach'
    BY LeftFacts DEF SafetyInv, OneEach
  <2>. SUFFICES ASSUME NEW s \in requests'
                PROVE  /\ s.base \in -1..Version
                       /\ s.base >= 0 => s.value = At(s.base) \cup {s.update}
                       /\ s.at = "read" => s.base >= 0
                       /\ s.at = "written" => /\ s.base \in 0..Version - 1
                                              /\ s.value = At(s.base + 1)
                                              /\ s.update \in At(Version)
    BY <2>1 DEF RequestsTrue, Version, At
  <2>. QED  BY LeftFacts DEF SafetyInv, RequestsTrue
<1>3. CASE GoesOn
  <2>1. queue' = queue /\ status' = status
    BY <1>3 DEF GoesOn
  <2>2. QueuesTrue'
    BY <2>1 DEF SafetyInv, QueuesTrue
  <2>3. CallersWait'
    <3>. SUFFICES ASSUME NEW s \in requests \ {r}, s.from # Nobody
                  PROVE  /\ attempt'[s.from].update = s.update
                         /\ s.from \in Processes => s.base <= copy'[s.from].version
      BY <2>1, CallerFacts, LeftFacts DEF CallersWait
    <3>1. attempt'[s.from].update = s.update
      BY CallerFacts
    <3>2. ASSUME s.from \in Processes  PROVE s.base <= copy'[s.from].version
      <4>1. r.from # s.from
        BY <3>2 DEF SafetyInv, OneEach
      <4>2. copy'[s.from].version >= copy[s.from].version /\ copy'[s.from].version \in Int
        BY <3>2, <4>1
      <4>3. s.base <= copy[s.from].version /\ s.base \in Int
        BY <3>2, CallerFacts, RequestTyped DEF SafetyInv
      <4>4. copy[s.from].version \in Int
        BY <3>2, CopyTyped DEF SafetyInv, Clients
      <4>. QED  BY <4>2, <4>3, <4>4
    <3>. QED  BY <3>1, <3>2
  <2>. QED  BY <1>1, <1>2, <2>1, <2>2, <2>3 DEF SafetyInv, TypeOK
<1>4. CASE r.from # Nobody /\ Ends(r, outcome)
  <2>1. /\ queue' \in [Processes -> Seq(Updates)]
        /\ status' \in [Updates -> {"new", "called", "told", "failed", "ignored", "lost"}]
        /\ status'[r.update] = outcome
        /\ \A u \in Updates : u # r.update => status'[u] = status[u]
        /\ \A p \in Processes : p # r.from => queue'[p] = queue[p]
        /\ QueuesTrue'
    BY <1>4, EndsKeeps
  <2>2. CallersWait'
    <3>. SUFFICES ASSUME NEW s \in requests \ {r}, s.from # Nobody
                  PROVE  /\ Caller[s.update] = s.from
                         /\ status'[s.update] = "called"
                         /\ attempt'[s.from].update = s.update
                         /\ s.from \in Processes =>
                              /\ queue'[s.from] # <<>>
                              /\ s.update = Head(queue'[s.from])
                              /\ s.base <= copy'[s.from].version
      BY LeftFacts DEF CallersWait
    <3>1. s.from # r.from /\ s.update # r.update /\ s.update \in Updates
      BY <1>4, OthersDiffer, CallerFacts
    <3>2. Caller[s.update] = s.from /\ status'[s.update] = "called"
          /\ attempt'[s.from].update = s.update
      BY <2>1, <3>1, CallerFacts
    <3>3. ASSUME s.from \in Processes
          PROVE  /\ queue'[s.from] # <<>>
                 /\ s.update = Head(queue'[s.from])
                 /\ s.base <= copy'[s.from].version
      <4>1. copy'[s.from].version >= copy[s.from].version /\ copy'[s.from].version \in Int
        BY <3>1, <3>3
      <4>2. s.base <= copy[s.from].version /\ s.base \in Int
        BY <3>3, CallerFacts, RequestTyped DEF SafetyInv
      <4>3. copy[s.from].version \in Int
        BY <3>3, CopyTyped DEF SafetyInv, Clients
      <4>4. s.base <= copy'[s.from].version
        BY <4>1, <4>2, <4>3
      <4>. QED  BY <2>1, <3>1, <3>3, <4>4, CallerFacts
    <3>. QED  BY <3>2, <3>3
  <2>3. r.update \in Updates
    BY <1>4, CallerFacts
  <2>. QED  BY <1>1, <1>2, <2>1, <2>2, <2>3
<1>. QED  BY <1>3, <1>4

\* The same update asked for again, from what the client has learnt.
LEMMA RequestRepeated ==
  ASSUME SafetyInv, NEW r \in requests, r.from # Nobody,
         NEW from, from.version \in -1..Version, from = CopyOf(from.version),
         requests' = (requests \ {r}) \cup {Request(r.from, r.update, from)},
         UNCHANGED <<written, status, queue>>,
         \A c \in Clients : attempt'[c].update = attempt[c].update,
         \A p \in Processes : p # r.from => copy'[p] = copy[p],
         r.from \in Processes => from.version <= copy'[r.from].version
  PROVE  /\ requests' \subseteq Requests
         /\ RequestsTrue' /\ OneEach' /\ CallersWait'
<1>. DEFINE new == Request(r.from, r.update, from)
<1>1. /\ r.from \in Clients /\ r.update \in Updates
      /\ from.value = At(from.version) /\ from.value \in SUBSET Updates
  BY CallerFacts, HistoryTyped DEF SafetyInv, TypeOK, CopyOf
<1>2. new \in Requests
  BY <1>1 DEF Request, Requests
<1>3. requests' \subseteq Requests
  BY <1>2 DEF SafetyInv, TypeOK
<1>4. RequestsTrue'
  <2>. SUFFICES ASSUME NEW s \in requests'
                PROVE  /\ s.base \in -1..Version
                       /\ s.base >= 0 => s.value = At(s.base) \cup {s.update}
                       /\ s.at = "read" => s.base >= 0
                       /\ s.at = "written" => /\ s.base \in 0..Version - 1
                                              /\ s.value = At(s.base + 1)
                                              /\ s.update \in At(Version)
    BY DEF RequestsTrue, Version, At
  <2>1. CASE s \in requests
    BY <2>1 DEF SafetyInv, RequestsTrue
  <2>2. CASE s = new
    BY <1>1, <2>2 DEF Request
  <2>. QED  BY <2>1, <2>2
<1>5. OneEach'
  <2>. SUFFICES ASSUME NEW s \in requests', NEW t \in requests', s.from = t.from, s.from # Nobody
                PROVE  s = t
    BY DEF OneEach
  <2>1. new.from = r.from
    BY DEF Request
  <2>2. CASE s \in requests \ {r} /\ t \in requests \ {r}
    BY <2>2 DEF SafetyInv, OneEach
  <2>. QED  BY <2>1, <2>2, OthersDiffer
<1>6. CallersWait'
  <2>. SUFFICES ASSUME NEW s \in requests', s.from # Nobody
                PROVE  /\ Caller[s.update] = s.from
                       /\ status[s.update] = "called"
                       /\ attempt'[s.from].update = s.update
                       /\ s.from \in Processes =>
                            /\ queue[s.from] # <<>>
                            /\ s.update = Head(queue[s.from])
                            /\ s.base <= copy'[s.from].version
    BY DEF CallersWait
  <2>1. CASE s \in requests \ {r}
    BY <2>1, OthersDiffer, CallerFacts
  <2>2. CASE s = new
    BY <1>1, <2>2, CallerFacts DEF Request
  <2>. QED  BY <2>1, <2>2
<1>. QED  BY <1>3, <1>4, <1>5, <1>6

\* Copies and counted conflicts stay what they are said to be.
LEMMA Adopted ==
  ASSUME SafetyInv, NEW c \in Clients, NEW v \in -1..Version, UNCHANGED written,
         copy' = [copy EXCEPT ![c] = CopyOf(v)]
  PROVE  /\ copy' \in [Clients -> [version : Int, value : SUBSET Updates]]
         /\ \A d \in Clients :
              copy'[d].version \in -1..Version /\ copy'[d] = CopyOf(copy'[d].version)
         /\ copy'[c] = CopyOf(v) /\ \A d \in Clients : d # c => copy'[d] = copy[d]
<1>1. At(v) \in SUBSET Updates
  BY HistoryTyped DEF SafetyInv, TypeOK
<1>. QED  BY <1>1 DEF SafetyInv, TypeOK, CopyOf

LEMMA LearntFacts ==
  ASSUME SafetyInv, NEW c \in Clients, NEW v \in 0..Version
  PROVE  /\ Learnt(c, v).version \in -1..Version
         /\ Learnt(c, v) = CopyOf(Learnt(c, v).version)
         /\ Learnt(c, v).version >= copy[c].version
         /\ Learnt(c, v).version >= v
BY CopyTyped, HistoryTyped DEF SafetyInv, TypeOK, Learnt, Newer, CopyOf

LEMMA Counted ==
  ASSUME TypeOK, NEW c \in Clients,
         attempt' = [attempt EXCEPT ![c].conflicts = attempt[c].conflicts + 1]
  PROVE  /\ attempt' \in [Clients -> Attempts]
         /\ \A d \in Clients :
              /\ attempt'[d].update = attempt[d].update /\ attempt'[d].since = attempt[d].since
              /\ attempt'[d].conflicts =
                   IF d = c THEN attempt[d].conflicts + 1 ELSE attempt[d].conflicts
<1>1. /\ attempt \in [Clients -> Attempts]
      /\ attempt[c].conflicts + 1 \in Nat
  BY DEF TypeOK, Attempts
<1>2. attempt' = [attempt EXCEPT ![c] = [@ EXCEPT !.conflicts = attempt[c].conflicts + 1]]
  OBVIOUS
<1>3. [attempt[c] EXCEPT !.conflicts = attempt[c].conflicts + 1] =
        [update |-> attempt[c].update, conflicts |-> attempt[c].conflicts + 1,
         since |-> attempt[c].since]
  BY <1>1 DEF Attempts
<1>. QED  BY <1>1, <1>2, <1>3 DEF Attempts

\* The parts of the type invariant that a step without a write must show.
LEMMA TypedAfter ==
  ASSUME TypeOK, UNCHANGED written, requests' \subseteq Requests,
         copy' \in [Clients -> [version : Int, value : SUBSET Updates]],
         \A c \in Clients :
           copy'[c].version \in -1..Version /\ copy'[c] = CopyOf(copy'[c].version),
         attempt' \in [Clients -> Attempts],
         queue' \in [Processes -> Seq(Updates)],
         status' \in [Updates -> {"new", "called", "told", "failed", "ignored", "lost"}],
         faults' \in 0..MaxFaults
  PROVE  TypeOK'
BY DEF TypeOK, CopyOf, At, Version, Attempts

LEMMA CopiesUnchanged ==
  ASSUME TypeOK, UNCHANGED <<written, copy>>
  PROVE  /\ copy' \in [Clients -> [version : Int, value : SUBSET Updates]]
         /\ \A c \in Clients :
              copy'[c].version \in -1..Version /\ copy'[c] = CopyOf(copy'[c].version)
BY DEF TypeOK

\* The ways a mismatch may be answered: nobody waits, the client pauses or gives
\* up, or it asks again; lemmas on Mismatch split on them.
MismatchEnds(r) ==
  /\ requests' = requests \ {r}
  /\ GoesOn \/ (r.from # Nobody /\ Ends(r, "failed"))

MismatchRepeats(r, from) ==
  /\ r.from # Nobody
  /\ requests' = (requests \ {r}) \cup {Request(r.from, r.update, from)}
  /\ GoesOn

LEMMA MismatchSplits ==
  ASSUME NEW r \in requests, NEW v, Mismatch(r, v)
  PROVE  /\ UNCHANGED <<written, faults>>
         /\ \/ r.from = Nobody /\ MismatchEnds(r) /\ UNCHANGED <<copy, attempt, status, queue>>
            \/ /\ r.from \in Processes
               /\ copy' = [copy EXCEPT ![r.from] = Learnt(r.from, v)]
               /\ attempt' = [attempt EXCEPT ![r.from].conflicts =
                                attempt[r.from].conflicts + 1]
               /\ MismatchEnds(r) \/ MismatchRepeats(r, Learnt(r.from, v))
            \/ /\ r.from \in Apps
               /\ UNCHANGED copy
               /\ attempt' = [attempt EXCEPT ![r.from].conflicts =
                                attempt[r.from].conflicts + 1]
               /\ MismatchEnds(r) \/ MismatchRepeats(r, CopyOf(v))
<1>1. UNCHANGED <<written, faults>>
  BY DEF Mismatch
<1>2. r.from \in Clients => r.from # Nobody
  BY MetadataAssumption
<1>3. CASE r.from = Nobody /\ requests' = requests \ {r} /\ GoesOn /\ UNCHANGED <<copy, attempt>>
  BY <1>1, <1>3 DEF MismatchEnds, GoesOn
<1>4. CASE /\ r.from \in Processes
           /\ attempt' = [attempt EXCEPT ![r.from].conflicts = attempt[r.from].conflicts + 1]
           /\ copy' = [copy EXCEPT ![r.from] = Learnt(r.from, v)]
           /\ IF r.update \notin Strict THEN requests' = requests \ {r} /\ GoesOn
              ELSE IF attempt[r.from].conflicts + 1 = StrictAttempts
              THEN requests' = requests \ {r} /\ Ends(r, "failed")
              ELSE /\ requests' = (requests \ {r})
                                  \cup {Request(r.from, r.update, Learnt(r.from, v))}
                   /\ GoesOn
  <2>1. MismatchEnds(r) \/ MismatchRepeats(r, Learnt(r.from, v))
    <3>1. r.from # Nobody
      BY <1>2, <1>4 DEF Clients
    <3>2. CASE r.update \notin Strict
      BY <1>4, <3>2 DEF MismatchEnds
    <3>3. CASE r.update \in Strict /\ attempt[r.from].conflicts + 1 = StrictAttempts
      BY <1>4, <3>1, <3>3 DEF MismatchEnds
    <3>4. CASE r.update \in Strict /\ attempt[r.from].conflicts + 1 # StrictAttempts
      BY <1>4, <3>1, <3>4 DEF MismatchRepeats
    <3>. QED  BY <3>2, <3>3, <3>4
  <2>. QED  BY <1>1, <1>4, <2>1
<1>5. CASE /\ r.from \in Apps
           /\ attempt' = [attempt EXCEPT ![r.from].conflicts = attempt[r.from].conflicts + 1]
           /\ UNCHANGED copy
           /\ IF attempt[r.from].conflicts + 1 = AppAttempts
              THEN requests' = requests \ {r} /\ Ends(r, "failed")
              ELSE /\ requests' = (requests \ {r})
                                  \cup {Request(r.from, r.update, CopyOf(v))}
                   /\ GoesOn
  <2>1. r.from # Nobody
    BY <1>2, <1>5 DEF Clients
  <2>2. MismatchEnds(r) \/ MismatchRepeats(r, CopyOf(v))
    BY <1>5, <2>1 DEF MismatchEnds, MismatchRepeats
  <2>. QED  BY <1>1, <1>5, <2>2
<1>. QED  BY <1>3, <1>4, <1>5 DEF Mismatch

LEMMA SafeMismatch ==
  ASSUME SafetyInv, NEW r \in requests, NEW v \in 0..Version, Mismatch(r, v)
  PROVE  SafetyInv'
<1>1. UNCHANGED <<written, faults>>
  BY MismatchSplits
<1>2. /\ written \in Seq(SUBSET Updates) /\ faults' \in 0..MaxFaults /\ TypeOK
      /\ attempt \in [Clients -> Attempts]
  BY <1>1 DEF SafetyInv, TypeOK
<1>3. \A p \in Processes : p \in Clients
  BY DEF Clients
<1>. DEFINE Copies ==
       /\ copy' \in [Clients -> [version : Int, value : SUBSET Updates]]
       /\ \A c \in Clients :
            copy'[c].version \in -1..Version /\ copy'[c] = CopyOf(copy'[c].version)
<1>4. ASSUME MismatchEnds(r), Copies, attempt' \in [Clients -> Attempts],
             \A c \in Clients : attempt'[c].update = attempt[c].update,
             \A p \in Processes : p # r.from => copy'[p] = copy[p]
      PROVE  SafetyInv'
  <2>1. \A p \in Processes : p # r.from => copy'[p].version >= copy[p].version
    BY <1>2, <1>3, <1>4, CopyTyped
  <2>2. \A p \in Processes : copy'[p].version \in Int
    BY <1>3, <1>4
  <2>3. /\ requests' \subseteq Requests
        /\ RequestsTrue' /\ OneEach' /\ CallersWait' /\ QueuesTrue'
        /\ queue' \in [Processes -> Seq(Updates)]
        /\ status' \in [Updates -> {"new", "called", "told", "failed", "ignored", "lost"}]
        /\ \A u \in Updates : status'[u] = "told" => status[u] = "told"
    BY <1>1, <1>4, <2>1, <2>2, RequestOver DEF MismatchEnds
  <2>4. TypeOK'
    BY <1>1, <1>2, <1>4, <2>3, TypedAfter
  <2>5. ToldTrue'
    BY <1>1, <2>3 DEF SafetyInv, ToldTrue, At, Version
  <2>. QED  BY <2>3, <2>4, <2>5 DEF SafetyInv
<1>5. ASSUME NEW from, MismatchRepeats(r, from), Copies, attempt' \in [Clients -> Attempts],
             from.version \in -1..Version, from = CopyOf(from.version),
             \A c \in Clients : attempt'[c].update = attempt[c].update,
             \A p \in Processes : p # r.from => copy'[p] = copy[p],
             r.from \in Processes => from.version <= copy'[r.from].version
      PROVE  SafetyInv'
  <2>1. UNCHANGED <<status, queue>>
    BY <1>5 DEF MismatchRepeats, GoesOn
  <2>2. requests' \subseteq Requests /\ RequestsTrue' /\ OneEach' /\ CallersWait'
    BY <1>1, <1>5, <2>1, RequestRepeated DEF MismatchRepeats
  <2>3. /\ queue' \in [Processes -> Seq(Updates)]
        /\ status' \in [Updates -> {"new", "called", "told", "failed", "ignored", "lost"}]
    BY <1>2, <2>1 DEF TypeOK
  <2>4. TypeOK'
    BY <1>1, <1>2, <1>5, <2>2, <2>3, TypedAfter
  <2>5. QueuesTrue' /\ ToldTrue'
    BY <1>1, <2>1 DEF SafetyInv, QueuesTrue, ToldTrue, At, Version
  <2>. QED  BY <2>2, <2>4, <2>5 DEF SafetyInv
<1>6. CASE r.from = Nobody /\ MismatchEnds(r) /\ UNCHANGED <<copy, attempt, status, queue>>
  BY <1>1, <1>2, <1>3, <1>4, <1>6, CopiesUnchanged
<1>7. CASE /\ r.from \in Processes
           /\ copy' = [copy EXCEPT ![r.from] = Learnt(r.from, v)]
           /\ attempt' = [attempt EXCEPT ![r.from].conflicts = attempt[r.from].conflicts + 1]
           /\ MismatchEnds(r) \/ MismatchRepeats(r, Learnt(r.from, v))
  <2>. DEFINE l == Learnt(r.from, v)
  <2>1. r.from \in Clients
    BY <1>3, <1>7
  <2>2. l.version \in -1..Version /\ l = CopyOf(l.version)
    BY <2>1, LearntFacts
  <2>3. Copies /\ copy'[r.from] = l /\ \A p \in Processes : p # r.from => copy'[p] = copy[p]
    <3>1. copy' = [copy EXCEPT ![r.from] = CopyOf(l.version)]
      BY <1>7, <2>2
    <3>. HIDE DEF l
    <3>. QED  BY <1>1, <1>3, <2>1, <2>2, <3>1, Adopted
  <2>4. /\ attempt' \in [Clients -> Attempts]
        /\ \A c \in Clients : attempt'[c].update = attempt[c].update
    BY <1>2, <1>7, <2>1, Counted
  <2>5. l.version <= copy'[r.from].version
    BY <2>2, <2>3
  <2>. HIDE DEF l, Copies
  <2>6. CASE MismatchEnds(r)
    BY <1>4, <2>3, <2>4, <2>6
  <2>7. CASE MismatchRepeats(r, l)
    BY <1>5, <2>2, <2>3, <2>4, <2>5, <2>7
  <2>. QED  BY <1>7, <2>6, <2>7 DEF l
<1>8. CASE /\ r.from \in Apps
           /\ UNCHANGED copy
           /\ attempt' = [attempt EXCEPT ![r.from].conflicts = attempt[r.from].conflicts + 1]
           /\ MismatchEnds(r) \/ MismatchRepeats(r, CopyOf(v))
  <2>1. r.from \in Clients /\ r.from \notin Processes
    BY <1>8, MetadataAssumption DEF Clients
  <2>2. /\ attempt' \in [Clients -> Attempts]
        /\ \A c \in Clients : attempt'[c].update = attempt[c].update
    BY <1>2, <1>8, <2>1, Counted
  <2>3. Copies
    BY <1>1, <1>2, <1>8, CopiesUnchanged
  <2>4. \A p \in Processes : p # r.from => copy'[p] = copy[p]
    BY <1>8
  <2>5. CopyOf(v).version \in -1..Version /\ CopyOf(v) = CopyOf(CopyOf(v).version)
    BY <1>2, HistoryTyped DEF CopyOf
  <2>. HIDE DEF Copies
  <2>6. CASE MismatchEnds(r)
    BY <1>4, <2>2, <2>3, <2>4, <2>6
  <2>7. CASE MismatchRepeats(r, CopyOf(v))
    BY <1>5, <2>1, <2>2, <2>3, <2>4, <2>5, <2>7
  <2>. QED  BY <1>8, <2>6, <2>7
<1>. QED  BY <1>6, <1>7, <1>8, MismatchSplits

-----------------------------------------------------------------------------
(* Every step preserves the invariant: the centre, and what goes wrong.    *)

\* A request that is carried further is the same in all else.
Carried(r, at) == [r EXCEPT !.at = at]

LEMMA CarriedFacts ==
  ASSUME SafetyInv, NEW r \in requests, NEW at \in {"read", "written"}
  PROVE  /\ Carried(r, at) \in Requests /\ Carried(r, at).from = r.from
         /\ Carried(r, at).update = r.update /\ Carried(r, at).base = r.base
         /\ Carried(r, at).value = r.value /\ Carried(r, at).at = at
BY RequestTyped DEF SafetyInv, Carried, Requests

LEMMA RequestCarried ==
  ASSUME SafetyInv, NEW r \in requests, NEW at \in {"read", "written"},
         requests' = (requests \ {r}) \cup {Carried(r, at)},
         UNCHANGED <<copy, queue, attempt, status, faults>>
  PROVE  /\ requests' \subseteq Requests
         /\ OneEach' /\ CallersWait' /\ QueuesTrue'
<1>1. requests' \subseteq Requests
  BY CarriedFacts DEF SafetyInv, TypeOK
<1>2. OneEach'
  BY CarriedFacts DEF SafetyInv, OneEach
<1>3. CallersWait'
  BY CarriedFacts DEF SafetyInv, CallersWait
<1>4. QueuesTrue'
  BY DEF SafetyInv, QueuesTrue
<1>. QED  BY <1>1, <1>2, <1>3, <1>4

LEMMA SafeReads ==
  ASSUME SafetyInv, NEW r \in requests, Reads(r)  PROVE SafetyInv'
<1>1. TypeOK /\ Version \in Nat
  BY HistoryTyped DEF SafetyInv, TypeOK
<1>2. CASE r.base # Version
  BY <1>1, <1>2, SafeMismatch DEF Reads
<1>3. CASE r.base = Version
  <2>1. /\ requests' = (requests \ {r}) \cup {Carried(r, "read")}
        /\ UNCHANGED <<written, copy, queue, attempt, status, faults>>
    BY <1>3 DEF Reads, Carried
  <2>2. requests' \subseteq Requests /\ OneEach' /\ CallersWait' /\ QueuesTrue'
    BY <2>1, RequestCarried
  <2>3. RequestsTrue'
    <3>. SUFFICES ASSUME NEW s \in requests'
                  PROVE  /\ s.base \in -1..Version
                         /\ s.base >= 0 => s.value = At(s.base) \cup {s.update}
                         /\ s.at = "read" => s.base >= 0
                         /\ s.at = "written" => /\ s.base \in 0..Version - 1
                                                /\ s.value = At(s.base + 1)
                                                /\ s.update \in At(Version)
      BY <2>1 DEF RequestsTrue, Version, At
    <3>1. CASE s \in requests
      BY <3>1 DEF SafetyInv, RequestsTrue
    <3>2. CASE s = Carried(r, "read")
      BY <1>1, <1>3, <3>2, CarriedFacts DEF SafetyInv, RequestsTrue
    <3>. QED  BY <2>1, <3>1, <3>2
  <2>4. TypeOK'
    BY <1>1, <2>1, <2>2 DEF TypeOK, CopyOf, At, Version, Attempts
  <2>5. ToldTrue'
    BY <2>1 DEF SafetyInv, ToldTrue, At, Version
  <2>. QED  BY <2>2, <2>3, <2>4, <2>5 DEF SafetyInv
<1>. QED  BY <1>2, <1>3

\* A write that is taken adds its update, and nothing else, to the latest version.
LEMMA WriteAdds ==
  ASSUME SafetyInv, NEW r \in requests, Writes(r), RowMatches(r)
  PROVE  /\ r.base = Version /\ r.value = At(Version) \cup {r.update}
         /\ written' = Append(written, r.value)
         /\ At(Version)' = At(Version) \cup {r.update}
<1>1. /\ r.at = "read" /\ r.base = Version /\ r.value \in SUBSET Updates
      /\ written \in Seq(SUBSET Updates) /\ written' = Append(written, r.value)
  BY RequestTyped DEF Writes, RowMatches, SafetyInv, TypeOK
<1>2. r.value = At(Version) \cup {r.update}
  BY <1>1, HistoryTyped DEF SafetyInv, RequestsTrue
<1>. QED  BY <1>1, <1>2, HistoryGrows

LEMMA SafeWrites ==
  ASSUME SafetyInv, NEW r \in requests, Writes(r)  PROVE SafetyInv'
<1>1. TypeOK /\ Version \in Nat /\ written \in Seq(SUBSET Updates)
  BY HistoryTyped DEF SafetyInv, TypeOK
<1>2. CASE ~RowMatches(r)
  <2>1. r.base \in 0..Version /\ Mismatch(r, r.base)
    BY <1>1, <1>2 DEF Writes, SafetyInv, RequestsTrue
  <2>. QED  BY <2>1, SafeMismatch
<1>3. CASE RowMatches(r)
  <2>1. /\ requests' = (requests \ {r}) \cup {Carried(r, "written")}
        /\ UNCHANGED <<copy, queue, attempt, status, faults>>
    BY <1>3 DEF Writes, Carried
  <2>2. requests' \subseteq Requests /\ OneEach' /\ CallersWait' /\ QueuesTrue'
    BY <2>1, RequestCarried
  <2>3. /\ r.base = Version /\ r.value = At(Version) \cup {r.update}
        /\ written' = Append(written, r.value)
        /\ r.value \in SUBSET Updates /\ r.update \in Updates
    BY <1>3, WriteAdds, RequestTyped DEF SafetyInv
  <2>4. /\ Version' = Version + 1
        /\ written' \in Seq(SUBSET Updates)
        /\ At(Version)' = r.value
        /\ \A v \in Int : v <= Version => At(v)' = At(v) /\ CopyOf(v)' = CopyOf(v)
    BY <1>1, <2>3, HistoryGrows
  <2>5. written'[Version + 1] = r.value
    BY <1>1, <2>3, AppendProperties DEF Version
  <2>6. RequestsTrue'
    <3>. SUFFICES ASSUME NEW s \in requests'
                  PROVE  /\ s.base \in -1..Version'
                         /\ s.base >= 0 => s.value = At(s.base)' \cup {s.update}
                         /\ s.at = "read" => s.base >= 0
                         /\ s.at = "written" => /\ s.base \in 0..Version' - 1
                                                /\ s.value = At(s.base + 1)'
                                                /\ s.update \in At(Version)'
      BY DEF RequestsTrue, Version, At
    <3>1. CASE s \in requests
      <4>1. /\ s.base \in -1..Version
            /\ s.base >= 0 => s.value = At(s.base) \cup {s.update}
            /\ s.at = "read" => s.base >= 0
            /\ s.at = "written" => /\ s.base \in 0..Version - 1
                                   /\ s.value = At(s.base + 1)
                                   /\ s.update \in At(Version)
        BY <3>1 DEF SafetyInv, RequestsTrue
      <4>2. At(s.base)' = At(s.base)
        BY <1>1, <2>4, <4>1
      <4>3. s.at = "written" => At(s.base + 1)' = At(s.base + 1)
        BY <1>1, <2>4, <4>1
      <4>. QED  BY <1>1, <2>3, <2>4, <4>1, <4>2, <4>3
    <3>2. CASE s = Carried(r, "written")
      <4>1. s.base = Version /\ s.value = r.value /\ s.update = r.update /\ s.at = "written"
        BY <2>3, <3>2, CarriedFacts
      <4>2. At(s.base)' = At(Version)
        BY <1>1, <2>4, <4>1
      <4>3. At(s.base + 1)' = r.value
        BY <1>1, <2>5, <4>1 DEF At
      <4>. QED  BY <1>1, <2>3, <2>4, <4>1, <4>2, <4>3
    <3>. QED  BY <2>1, <3>1, <3>2
  <2>7. TypeOK'
    <3>1. ASSUME NEW c \in Clients
          PROVE  copy'[c].version \in -1..Version' /\ copy'[c] = CopyOf(copy[c].version)'
      <4>1. /\ copy[c].version \in Int /\ copy[c].version <= Version /\ copy[c].version >= -1
            /\ copy[c] = CopyOf(copy[c].version)
        BY <1>1, <3>1, CopyTyped
      <4>. DEFINE v == copy[c].version
      <4>2. [version |-> v, value |-> At(v)]
              = [version |-> v, value |-> IF v <= 0 THEN {} ELSE written'[v]]
        <5>1. ASSUME v > 0  PROVE written'[v] = written[v]
          BY <1>1, <2>3, <4>1, <5>1, AppendProperties, LenProperties DEF Version
        <5>. QED  BY <4>1, <5>1 DEF At
      <4>3. copy[c] = [version |-> v, value |-> At(v)] /\ v \in -1..Version'
        BY <1>1, <2>4, <4>1 DEF CopyOf
      <4>4. copy' = copy
        BY <2>1
      <4>. HIDE DEF v
      <4>5. copy[c] = [version |-> v, value |-> IF v <= 0 THEN {} ELSE written'[v]]
        BY <4>2, <4>3
      <4>. QED  BY <4>3, <4>4, <4>5 DEF CopyOf, At, v
    <3>. QED  BY <1>1, <2>1, <2>2, <2>4, <3>1 DEF TypeOK, CopyOf, At, Version
  <2>8. ToldTrue'
    BY <2>1, <2>3, <2>4 DEF SafetyInv, ToldTrue
  <2>. QED  BY <2>2, <2>6, <2>7, <2>8 DEF SafetyInv
<1>. QED  BY <1>2, <1>3

LEMMA SafeAnnounces ==
  ASSUME SafetyInv, NEW r \in requests, NEW deaf \in SUBSET Processes, Announces(r, deaf),
         faults' \in 0..MaxFaults
  PROVE  SafetyInv'
<1>. DEFINE taken == [version |-> r.base + 1, value |-> r.value]
<1>1. /\ r.at = "written" /\ requests' = requests \ {r}
      /\ UNCHANGED <<written, attempt>>
      /\ \A c \in Clients :
           \/ copy'[c] = copy[c]
           \/ copy'[c] = taken /\ (c = r.from \/ r.base + 1 > copy[c].version)
      /\ DOMAIN copy' = Clients /\ copy' = [c \in Clients |-> copy'[c]]
  BY DEF Announces, VersionTaken, Newer
<1>2. /\ r.base \in 0..Version - 1 /\ r.value = At(r.base + 1) /\ r.update \in At(Version)
      /\ TypeOK /\ Version \in Nat /\ written \in Seq(SUBSET Updates)
  BY <1>1, HistoryTyped DEF SafetyInv, RequestsTrue, TypeOK
<1>3. GoesOn \/ (r.from # Nobody /\ Ends(r, "told"))
  BY DEF Announces
<1>4. /\ taken.version \in -1..Version /\ taken.version \in Int /\ taken = CopyOf(taken.version)
      /\ taken \in [version : Int, value : SUBSET Updates]
  BY <1>2, HistoryTyped DEF CopyOf
<1>5. /\ copy' \in [Clients -> [version : Int, value : SUBSET Updates]]
      /\ \A c \in Clients :
           copy'[c].version \in -1..Version /\ copy'[c] = CopyOf(copy'[c].version)
  <2>1. \A c \in Clients : copy'[c] \in {copy[c], taken}
    BY <1>1
  <2>. HIDE DEF taken
  <2>. QED  BY <1>1, <1>2, <1>4, <2>1 DEF TypeOK
<1>6. \A p \in Processes : p # r.from => copy'[p].version >= copy[p].version
  <2>. SUFFICES ASSUME NEW p \in Processes, p # r.from
                PROVE  copy'[p].version >= copy[p].version
    OBVIOUS
  <2>1. p \in Clients
    BY DEF Clients
  <2>2. copy[p].version \in Int
    BY <1>2, <2>1, CopyTyped
  <2>. QED  BY <1>1, <1>2, <2>1, <2>2
<1>7. \A p \in Processes : copy'[p].version \in Int
  BY <1>5 DEF Clients
<1>8. /\ requests' \subseteq Requests
      /\ RequestsTrue' /\ OneEach' /\ CallersWait' /\ QueuesTrue'
      /\ queue' \in [Processes -> Seq(Updates)]
      /\ status' \in [Updates -> {"new", "called", "told", "failed", "ignored", "lost"}]
      /\ \A u \in Updates : status'[u] = "told" => status[u] = "told" \/ u = r.update
  BY <1>1, <1>3, <1>6, <1>7, RequestOver
<1>9. TypeOK'
  <2>1. attempt' \in [Clients -> Attempts]
    BY <1>1, <1>2 DEF TypeOK
  <2>. QED  BY <1>1, <1>2, <1>5, <1>8, <2>1, TypedAfter
<1>10. ToldTrue'
  BY <1>1, <1>2, <1>8 DEF SafetyInv, ToldTrue, At, Version
<1>. QED  BY <1>8, <1>9, <1>10 DEF SafetyInv

LEMMA SafeFails ==
  ASSUME SafetyInv, NEW r \in requests, Fails(r)  PROVE SafetyInv'
<1>1. /\ requests' = requests \ {r} /\ UNCHANGED <<written, copy, attempt>>
      /\ faults' \in 0..MaxFaults /\ TypeOK
  BY MetadataAssumption DEF Fails, Disturbs, SafetyInv, TypeOK
<1>2. PICK outcome \in {"failed", "ignored"} :
        GoesOn \/ (r.from # Nobody /\ Ends(r, outcome))
  BY DEF Fails
<1>3. \A p \in Processes : copy'[p].version >= copy[p].version /\ copy'[p].version \in Int
  BY <1>1, CopyTyped DEF Clients
<1>4. /\ requests' \subseteq Requests
      /\ RequestsTrue' /\ OneEach' /\ CallersWait' /\ QueuesTrue'
      /\ queue' \in [Processes -> Seq(Updates)]
      /\ status' \in [Updates -> {"new", "called", "told", "failed", "ignored", "lost"}]
      /\ \A u \in Updates : status'[u] = "told" => status[u] = "told"
  BY <1>1, <1>2, <1>3, RequestOver
<1>5. TypeOK'
  <2>1. attempt' \in [Clients -> Attempts]
    BY <1>1 DEF TypeOK
  <2>. QED  BY <1>1, <1>4, <2>1, CopiesUnchanged, TypedAfter
<1>6. ToldTrue'
  BY <1>1, <1>4 DEF SafetyInv, ToldTrue, At, Version
<1>. QED  BY <1>4, <1>5, <1>6 DEF SafetyInv

LEMMA SafeAnswerLost ==
  ASSUME SafetyInv, NEW r \in requests, AnswerLost(r)  PROVE SafetyInv'
<1>1. /\ requests' = (requests \ {r}) \cup {Left(r)} /\ UNCHANGED <<written, copy, attempt>>
      /\ faults' \in 0..MaxFaults /\ TypeOK
      /\ GoesOn \/ (r.from # Nobody /\ Ends(r, "failed"))
  BY MetadataAssumption DEF AnswerLost, Disturbs, SafetyInv, TypeOK, Left
<1>2. \A p \in Processes : copy'[p].version >= copy[p].version /\ copy'[p].version \in Int
  BY <1>1, CopyTyped DEF Clients
<1>3. /\ requests' \subseteq Requests
      /\ RequestsTrue' /\ OneEach' /\ CallersWait' /\ QueuesTrue'
      /\ queue' \in [Processes -> Seq(Updates)]
      /\ status' \in [Updates -> {"new", "called", "told", "failed", "ignored", "lost"}]
      /\ \A u \in Updates : status'[u] = "told" => status[u] = "told"
  BY <1>1, <1>2, RequestOver
<1>4. TypeOK'
  <2>1. attempt' \in [Clients -> Attempts]
    BY <1>1 DEF TypeOK
  <2>. QED  BY <1>1, <1>3, <2>1, CopiesUnchanged, TypedAfter
<1>5. ToldTrue'
  BY <1>1, <1>3 DEF SafetyInv, ToldTrue, At, Version
<1>. QED  BY <1>3, <1>4, <1>5 DEF SafetyInv

\* The end of a process loses the updates in its queue, and those only.
LEMMA SafeRestarts ==
  ASSUME SafetyInv, NEW p \in Processes, Restarts(p)  PROVE SafetyInv'
<1>. DEFINE Lost == {u \in Updates : \E i \in DOMAIN queue[p] : queue[p][i] = u}
            fresh == [version |-> -1, value |-> {}]
<1>1. /\ requests' = {IF r.from = p THEN Left(r) ELSE r : r \in requests}
      /\ copy' = [copy EXCEPT ![p] = fresh]
      /\ status' = [u \in Updates |-> IF u \in Lost THEN "lost" ELSE status[u]]
      /\ queue' = [queue EXCEPT ![p] = <<>>]
      /\ attempt' = [attempt EXCEPT ![p] = Begun(Nobody)]
      /\ UNCHANGED written /\ faults' \in 0..MaxFaults
  BY MetadataAssumption DEF Restarts, Disturbs, SafetyInv, TypeOK, Left, UnknownRevision
<1>2. TypeOK /\ Version \in Nat /\ p \in Clients /\ p # Nobody
  BY HistoryTyped, MetadataAssumption DEF SafetyInv, TypeOK, Clients
<1>3. \A u \in Lost : u \in Updates /\ Caller[u] = p /\ status[u] = "called"
  BY QueueTyped, LenProperties DEF SafetyInv, TypeOK
<1>4. /\ queue' \in [Processes -> Seq(Updates)] /\ queue'[p] = <<>>
      /\ \A q \in Processes : q # p => queue'[q] = queue[q]
  BY <1>1, <1>2, EmptySeq DEF TypeOK
<1>5. /\ copy' \in [Clients -> [version : Int, value : SUBSET Updates]]
      /\ copy'[p] = fresh
      /\ \A c \in Clients : c # p => copy'[c] = copy[c]
      /\ \A c \in Clients :
           copy'[c].version \in -1..Version /\ copy'[c] = CopyOf(copy'[c].version)
  <2>1. fresh = CopyOf(-1) /\ fresh \in [version : Int, value : SUBSET Updates]
        /\ fresh.version \in -1..Version
    BY <1>2 DEF CopyOf, At
  <2>2. fresh = CopyOf(fresh.version)
    BY <2>1
  <2>. HIDE DEF fresh
  <2>3. /\ copy' \in [Clients -> [version : Int, value : SUBSET Updates]]
        /\ copy'[p] = fresh /\ \A c \in Clients : c # p => copy'[c] = copy[c]
    BY <1>1, <1>2, <2>1 DEF TypeOK
  <2>4. \A c \in Clients : copy[c].version \in -1..Version /\ copy[c] = CopyOf(copy[c].version)
    BY <1>2 DEF TypeOK
  <2>. QED  BY <2>1, <2>2, <2>3, <2>4
<1>6. /\ attempt' \in [Clients -> Attempts]
      /\ \A c \in Clients : c # p => attempt'[c] = attempt[c]
  BY <1>1, <1>2 DEF TypeOK, Attempts, Begun
<1>7. /\ status' \in [Updates -> {"new", "called", "told", "failed", "ignored", "lost"}]
      /\ \A u \in Updates : Caller[u] # p => status'[u] = status[u]
      /\ \A u \in Updates : status'[u] = "told" => status[u] = "told"
  BY <1>1, <1>2, <1>3 DEF TypeOK
<1>8. \A s \in requests' :
        \/ s \in requests /\ s.from # p
        \/ \E r \in requests : r.from = p /\ s = Left(r)
  BY <1>1
<1>9. requests' \subseteq Requests
  BY <1>2, <1>8, LeftFacts DEF TypeOK
<1>10. TypeOK'
  BY <1>1, <1>2, <1>4, <1>5, <1>6, <1>7, <1>9, TypedAfter
<1>11. RequestsTrue'
  <2>. SUFFICES ASSUME NEW s \in requests'
                PROVE  /\ s.base \in -1..Version
                       /\ s.base >= 0 => s.value = At(s.base) \cup {s.update}
                       /\ s.at = "read" => s.base >= 0
                       /\ s.at = "written" => /\ s.base \in 0..Version - 1
                                              /\ s.value = At(s.base + 1)
                                              /\ s.update \in At(Version)
    BY <1>1 DEF RequestsTrue, Version, At
  <2>. QED  BY <1>8, LeftFacts DEF SafetyInv, RequestsTrue
<1>12. OneEach'
  BY <1>8, LeftFacts DEF SafetyInv, OneEach
<1>13. CallersWait'
  <2>. SUFFICES ASSUME NEW s \in requests, s.from # p, s.from # Nobody
                PROVE  /\ Caller[s.update] = s.from
                       /\ status'[s.update] = "called"
                       /\ attempt'[s.from].update = s.update
                       /\ s.from \in Processes =>
                            /\ queue'[s.from] # <<>>
                            /\ s.update = Head(queue'[s.from])
                            /\ s.base <= copy'[s.from].version
    BY <1>8, LeftFacts DEF CallersWait
  <2>. QED  BY <1>4, <1>5, <1>6, <1>7, CallerFacts
<1>14. QueuesTrue'
  <2>1. ASSUME NEW q \in Processes, NEW i \in 1..Len(queue'[q])
        PROVE  Caller[queue'[q][i]] = q /\ status'[queue'[q][i]] = "called"
    <3>1. q # p
      BY <1>4, <2>1, EmptySeq
    <3>2. /\ queue[q][i] \in Updates /\ Caller[queue[q][i]] = q
          /\ status[queue[q][i]] = "called"
      BY <1>4, <2>1, <3>1, QueueTyped
    <3>. QED  BY <1>4, <1>7, <3>1, <3>2
  <2>2. ASSUME NEW q \in Processes, NEW i \in 1..Len(queue'[q]), NEW j \in 1..Len(queue'[q]),
               queue'[q][i] = queue'[q][j]
        PROVE  i = j
    BY <1>4, <2>2, EmptySeq DEF SafetyInv, QueuesTrue
  <2>. QED  BY <2>1, <2>2 DEF QueuesTrue
<1>15. ToldTrue'
  BY <1>1, <1>7 DEF SafetyInv, ToldTrue, At, Version
<1>. QED  BY <1>10, <1>11, <1>12, <1>13, <1>14, <1>15 DEF SafetyInv

LEMMA SafeNext ==
  ASSUME SafetyInv, [Next]_vars  PROVE SafetyInv'
<1>1. ASSUME NEW u \in Updates, ProcessCalls(u) \/ AppCalls(u)  PROVE SafetyInv'
  BY <1>1, SafeProcessCalls, SafeAppCalls
<1>2. ASSUME NEW p \in Processes, Attempt(p) \/ Restarts(p)  PROVE SafetyInv'
  BY <1>2, SafeAttempt, SafeRestarts
<1>3. ASSUME NEW c \in Apps, NEW v \in 1..Version, AppLearns(c, v)  PROVE SafetyInv'
  BY <1>3, SafeAppLearns
<1>4. ASSUME NEW r \in requests, Serves(r)  PROVE SafetyInv'
  <2>1. CASE Announces(r, {}) /\ UNCHANGED faults
    BY <2>1, SafeAnnounces DEF SafetyInv, TypeOK
  <2>. QED  BY <1>4, <2>1, SafeReads, SafeWrites DEF Serves
<1>5. ASSUME NEW r \in requests, Fails(r) \/ AnswerLost(r)  PROVE SafetyInv'
  BY <1>5, SafeFails, SafeAnswerLost
<1>6. ASSUME NEW r \in requests, NEW deaf \in SUBSET Processes, Misses(r, deaf)
      PROVE  SafetyInv'
  <2>1. faults' \in 0..MaxFaults /\ Announces(r, deaf)
    BY <1>6, MetadataAssumption DEF Misses, Disturbs, SafetyInv, TypeOK
  <2>. QED  BY <2>1, SafeAnnounces
<1>7. CASE UNCHANGED vars
  BY <1>7 DEF vars, SafetyInv, TypeOK, RequestsTrue, OneEach, CallersWait, QueuesTrue, ToldTrue,
     CopyOf, At, Version, Attempts
<1>. QED  BY <1>1, <1>2, <1>3, <1>4, <1>5, <1>6, <1>7 DEF Next

-----------------------------------------------------------------------------
(* What follows.                                                           *)

\* Each request is what its client could send, each client waits for one, and
\* whoever was told of an update was told the truth.
THEOREM SafetyCorrect == Spec => []SafetyInv
BY InitSafety, SafeNext, PTL DEF Spec

\* Whatever is lost, late or overtaken, every copy is what the centre has in the
\* version its client takes it for (updateMetadata in apiSession.ts, and the
\* pushes and answers of sessionUpdateHandler.ts).
THEOREM TypeCorrect == Spec => []TypeOK
<1>1. SafetyInv => TypeOK
  BY DEF SafetyInv
<1>. QED  BY <1>1, SafetyCorrect, PTL

-----------------------------------------------------------------------------
(* The promise: nothing taken is undone.                                   *)

LEMMA PromiseInit ==
  ASSUME Init  PROVE Promise!Init
BY EmptySeq DEF Init, Promise!Init, At, Version

\* A step that writes nothing and tells nobody.
LEMMA PromiseStutter ==
  ASSUME UNCHANGED written, \A u \in Updates : status'[u] = "told" <=> status[u] = "told"
  PROVE  UNCHANGED Promise!vars
<1>1. At(Version)' = At(Version)
  BY DEF At, Version
<1>2. {u \in Updates : status[u] = "told"}' = {u \in Updates : status[u] = "told"}
  OBVIOUS
<1>. QED  BY <1>1, <1>2 DEF Promise!vars

\* An update that ends in failure was not told before and is not now.
LEMMA EndsUntold ==
  ASSUME SafetyInv, NEW r \in requests, NEW outcome \in {"failed", "ignored"},
         GoesOn \/ (r.from # Nobody /\ Ends(r, outcome))
  PROVE  \A u \in Updates : status'[u] = "told" <=> status[u] = "told"
<1>1. CASE GoesOn
  BY <1>1 DEF GoesOn
<1>2. CASE r.from # Nobody /\ Ends(r, outcome)
  BY <1>2, EndsKeeps, CallerFacts
<1>. QED  BY <1>1, <1>2

LEMMA PromiseMismatch ==
  ASSUME SafetyInv, NEW r \in requests, NEW v, Mismatch(r, v)
  PROVE  UNCHANGED Promise!vars
<1>1. UNCHANGED written
  BY MismatchSplits
<1>2. GoesOn \/ (r.from # Nobody /\ Ends(r, "failed"))
  BY MismatchSplits DEF MismatchEnds, MismatchRepeats
<1>. QED  BY <1>1, <1>2, EndsUntold, PromiseStutter

LEMMA PromiseWrites ==
  ASSUME SafetyInv, NEW r \in requests, Writes(r)
  PROVE  [Promise!Next]_Promise!vars
<1>1. CASE RowMatches(r)
  <2>1. At(Version)' = At(Version) \cup {r.update} /\ r.update \in Updates
    BY <1>1, WriteAdds, RequestTyped DEF SafetyInv
  <2>2. status' = status
    BY <1>1 DEF Writes
  <2>3. Promise!Take(r.update)
    BY <2>1, <2>2 DEF Promise!Take
  <2>. QED  BY <2>1, <2>3 DEF Promise!Next
<1>2. CASE ~RowMatches(r)
  BY <1>2, PromiseMismatch DEF Writes
<1>. QED  BY <1>1, <1>2

LEMMA PromiseAnnounces ==
  ASSUME SafetyInv, NEW r \in requests, NEW deaf, Announces(r, deaf)
  PROVE  [Promise!Next]_Promise!vars
<1>1. UNCHANGED written /\ r.at = "written"
  BY DEF Announces
<1>2. r.update \in Updates /\ r.update \in At(Version)
  BY <1>1, RequestTyped DEF SafetyInv, RequestsTrue
<1>3. CASE r.from = Nobody
  BY <1>1, <1>3, PromiseStutter DEF Announces, GoesOn
<1>4. CASE r.from # Nobody
  <2>1. /\ status'[r.update] = "told"
        /\ \A u \in Updates : u # r.update => status'[u] = status[u]
    BY <1>4, EndsKeeps DEF Announces
  <2>2. {u \in Updates : status[u] = "told"}' = {u \in Updates : status[u] = "told"} \cup {r.update}
    BY <1>2, <2>1
  <2>3. At(Version)' = At(Version)
    BY <1>1 DEF At, Version
  <2>4. Promise!Tell(r.update)
    BY <1>2, <2>2, <2>3 DEF Promise!Tell
  <2>. QED  BY <1>2, <2>4 DEF Promise!Next
<1>. QED  BY <1>3, <1>4

LEMMA PromiseRestarts ==
  ASSUME SafetyInv, NEW p \in Processes, Restarts(p)  PROVE UNCHANGED Promise!vars
<1>1. \A i \in DOMAIN queue[p] : queue[p][i] \in Updates /\ status[queue[p][i]] = "called"
  BY QueueTyped, LenProperties DEF SafetyInv, TypeOK
<1>2. /\ UNCHANGED written
      /\ status' = [u \in Updates |->
                      IF \E i \in DOMAIN queue[p] : queue[p][i] = u THEN "lost" ELSE status[u]]
  BY DEF Restarts
<1>3. \A u \in Updates : status'[u] = "told" <=> status[u] = "told"
  BY <1>1, <1>2
<1>. QED  BY <1>2, <1>3, PromiseStutter

LEMMA PromiseNext ==
  ASSUME SafetyInv, [Next]_vars  PROVE [Promise!Next]_Promise!vars
<1>1. ASSUME NEW u \in Updates, ProcessCalls(u) \/ AppCalls(u)  PROVE UNCHANGED Promise!vars
  <2>1. /\ UNCHANGED written /\ status[u] = "new" /\ status' = [status EXCEPT ![u] = "called"]
    BY <1>1 DEF ProcessCalls, AppCalls
  <2>2. \A w \in Updates : status'[w] = "told" <=> status[w] = "told"
    BY <2>1 DEF SafetyInv, TypeOK
  <2>. QED  BY <2>1, <2>2, PromiseStutter
<1>2. ASSUME NEW p \in Processes, Attempt(p) \/ Restarts(p)  PROVE UNCHANGED Promise!vars
  BY <1>2, PromiseRestarts, PromiseStutter DEF Attempt
<1>3. ASSUME NEW c \in Apps, NEW v \in 1..Version, AppLearns(c, v)
      PROVE  UNCHANGED Promise!vars
  BY <1>3, PromiseStutter DEF AppLearns
<1>4. ASSUME NEW r \in requests, Serves(r)  PROVE [Promise!Next]_Promise!vars
  <2>1. CASE Reads(r)
    BY <2>1, PromiseMismatch, PromiseStutter DEF Reads
  <2>. QED  BY <1>4, <2>1, PromiseWrites, PromiseAnnounces DEF Serves
<1>5. ASSUME NEW r \in requests, Fails(r) \/ AnswerLost(r)  PROVE UNCHANGED Promise!vars
  <2>1. UNCHANGED written
    BY <1>5 DEF Fails, AnswerLost
  <2>2. PICK outcome \in {"failed", "ignored"} :
          GoesOn \/ (r.from # Nobody /\ Ends(r, outcome))
    BY <1>5 DEF Fails, AnswerLost
  <2>. QED  BY <2>1, <2>2, EndsUntold, PromiseStutter
<1>6. ASSUME NEW r \in requests, NEW deaf \in SUBSET Processes, Misses(r, deaf)
      PROVE  [Promise!Next]_Promise!vars
  BY <1>6, PromiseAnnounces DEF Misses
<1>7. CASE UNCHANGED vars
  BY <1>7, PromiseStutter DEF vars
<1>. QED  BY <1>1, <1>2, <1>3, <1>4, <1>5, <1>6, <1>7 DEF Next

\* However the steps of several handlers interleave, no write undoes another's
\* and no caller is told of an update that was not made (updateMany's version
\* check in sessionUpdateHandler.ts).
THEOREM PromiseIsKept == Spec => KeepsPromise
<1>1. SafetyInv /\ [Next]_vars => [Promise!Next]_Promise!vars
  BY PromiseNext
<1>. QED  BY <1>1, PromiseInit, SafetyCorrect, PTL DEF Spec, KeepsPromise, Promise!Spec

-----------------------------------------------------------------------------
(* Conflicts have causes: every step preserves the count.                  *)

LEMMA AttemptTyped ==
  ASSUME TypeOK, NEW c \in Clients
  PROVE  /\ attempt[c].conflicts \in Nat /\ attempt[c].since \in Nat
         /\ attempt[c].update \in Updates \cup {Nobody}
BY DEF TypeOK, Attempts

\* What is due to a client who counts no new conflict stays due.
LEMMA DueKept ==
  ASSUME TypeOK, NEW c \in Clients, attempt'[c] = attempt[c],
         Version' \in Nat, Version' >= Version,
         NEW n \in Nat, Due(c, n)
  PROVE  Due(c, n)'
<1>1. /\ attempt[c].conflicts \in Nat /\ attempt[c].since \in Nat
      /\ Version \in Nat
  BY AttemptTyped, HistoryTyped DEF TypeOK
<1>. QED  BY <1>1 DEF Due, Allowance

LEMMA DueLess ==
  ASSUME TypeOK, NEW c \in Clients, NEW n \in Nat, NEW m \in Nat, m <= n, Due(c, n)
  PROVE  Due(c, m)
<1>1. /\ attempt[c].conflicts \in Nat /\ attempt[c].since \in Nat
      /\ Version \in Nat
  BY AttemptTyped, HistoryTyped DEF TypeOK
<1>. QED  BY <1>1 DEF Due, Allowance

\* A write by anybody allows two conflicts more.
LEMMA DueMore ==
  ASSUME TypeOK, NEW c \in Clients, attempt'[c] = attempt[c], Version' = Version + 1,
         Due(c, 0)
  PROVE  Due(c, 1)' /\ Due(c, 2)'
<1>1. /\ attempt[c].conflicts \in Nat /\ attempt[c].since \in Nat
      /\ Version \in Nat
  BY AttemptTyped, HistoryTyped DEF TypeOK
<1>. QED  BY <1>1 DEF Due, Allowance

\* A client that begins may meet one.
LEMMA DueBegun ==
  ASSUME TypeOK, NEW c \in Clients, NEW u, attempt'[c] = Begun(u), UNCHANGED written
  PROVE  /\ Due(c, 0)' /\ Due(c, 1)'
         /\ attempt'[c].since = Version /\ attempt'[c].conflicts = 0
         /\ attempt'[c].update = u
BY HistoryTyped, HistoryKept DEF TypeOK, Due, Allowance, Begun

\* Clients who count no conflict, and others of whom the same is shown apart.
LEMMA ClientsKept ==
  ASSUME TypeOK, CountsOfClients, Version' \in Nat, Version' >= Version,
         \A u \in Updates : status[u] # "new" => status'[u] # "new",
         NEW B \in SUBSET Clients,
         \A c \in Clients \ B : attempt'[c] = attempt[c],
         \A c \in B :
           /\ Due(c, 0)' /\ attempt'[c].since <= Version'
           /\ attempt'[c].conflicts > 0 =>
                attempt'[c].update \in Updates /\ status'[attempt'[c].update] # "new"
  PROVE  CountsOfClients'
<1>. SUFFICES ASSUME NEW c \in Clients
              PROVE  /\ attempt'[c].since <= Version'
                     /\ Due(c, 0)'
                     /\ attempt'[c].conflicts > 0 =>
                          /\ attempt'[c].update \in Updates
                          /\ status'[attempt'[c].update] # "new"
  BY DEF CountsOfClients
<1>1. CASE c \in B
  BY <1>1
<1>2. CASE c \notin B
  <2>1. attempt'[c] = attempt[c] /\ Due(c, 0) /\ attempt[c].since <= Version
    BY <1>2 DEF CountsOfClients
  <2>2. Due(c, 0)'
    BY <2>1, DueKept
  <2>3. attempt[c].since \in Nat /\ Version \in Nat
    BY AttemptTyped, HistoryTyped DEF TypeOK
  <2>. QED  BY <2>1, <2>2, <2>3 DEF CountsOfClients
<1>. QED  BY <1>1, <1>2

\* Requests that somebody waits for and that were there before.
LEMMA RequestsKept ==
  ASSUME SafetyInv, CountsOfRequests, UNCHANGED written,
         NEW s \in requests, s.from # Nobody, attempt'[s.from] = attempt[s.from]
  PROVE  /\ s.at = "sent" /\ s.base # Version' => Due(s.from, 1)'
         /\ s.at = "read" /\ s.base # Version' => Due(s.from, 2)'
         /\ s.at = "written" => Due(s.from, 2)'
<1>1. TypeOK /\ s.from \in Clients /\ Version' = Version /\ Version \in Nat
  BY CallerFacts, HistoryKept, HistoryTyped DEF SafetyInv, TypeOK
<1>2. \A n \in Nat : Due(s.from, n) => Due(s.from, n)'
  BY <1>1, DueKept
<1>. QED  BY <1>1, <1>2 DEF CountsOfRequests

\* A process that paused before, with a copy no newer than it is now.
LEMMA PauseKept ==
  ASSUME SafetyInv, CountsOfPauses, UNCHANGED written,
         NEW p \in Processes, ~Waits(p), queue[p] # <<>>, attempt[p].update = Head(queue[p]),
         copy'[p] = copy[p] \/ copy[p].version # Version,
         copy'[p].version # Version,
         attempt'[p] = attempt[p]
  PROVE  Due(p, 1)'
<1>1. TypeOK /\ p \in Clients /\ Version' = Version /\ Version \in Nat
  BY HistoryKept, HistoryTyped DEF SafetyInv, TypeOK, Clients
<1>2. Due(p, 1)
  BY <1>1 DEF CountsOfPauses
<1>. QED  BY <1>1, <1>2, DueKept

LEMMA CountProcessCalls ==
  ASSUME SafetyInv, ConflictsCounted, NEW u \in Updates, ProcessCalls(u)
  PROVE  ConflictsCounted'
<1>1. /\ Caller[u] \in Processes /\ status[u] = "new"
      /\ status' = [status EXCEPT ![u] = "called"]
      /\ queue' = [queue EXCEPT ![Caller[u]] = Append(queue[Caller[u]], u)]
      /\ UNCHANGED <<written, requests, copy, attempt, faults>>
  BY DEF ProcessCalls
<1>2. TypeOK /\ Version' = Version /\ Version \in Nat
      /\ CountsOfClients /\ CountsOfRequests /\ CountsOfPauses
  BY <1>1, HistoryKept, HistoryTyped DEF SafetyInv, TypeOK, ConflictsCounted
<1>3. CountsOfClients'
  <2>1. \A w \in Updates : status[w] # "new" => status'[w] # "new"
    BY <1>1, <1>2 DEF TypeOK
  <2>2. /\ \A c \in Clients \ {} : attempt'[c] = attempt[c]
        /\ \A c \in {} : Due(c, 0)' /\ attempt'[c].since <= Version' /\ attempt'[c].conflicts = 0
        /\ {} \in SUBSET Clients /\ Version' \in Nat /\ Version' >= Version
    BY <1>1, <1>2
  <2>. QED  BY <1>2, <2>1, <2>2, ClientsKept
<1>4. CountsOfRequests'
  BY <1>1, <1>2, RequestsKept DEF CountsOfRequests
<1>5. CountsOfPauses'
  <2>. SUFFICES ASSUME NEW p \in Processes, ~Waits(p), queue'[p] # <<>>,
                       attempt[p].update = Head(queue'[p]), copy[p].version # Version
                PROVE  Due(p, 1)'
    BY <1>1, <1>2 DEF CountsOfPauses, Waits
  <2>1. p \in Clients /\ attempt'[p] = attempt[p]
    BY <1>1 DEF Clients
  <2>2. CASE p # Caller[u]
    <3>1. queue'[p] = queue[p]
      BY <1>1, <2>2 DEF SafetyInv, TypeOK
    <3>. QED  BY <1>1, <1>2, <2>1, <3>1, PauseKept
  <2>3. CASE p = Caller[u] /\ queue[p] # <<>>
    <3>1. queue'[p] = Append(queue[p], u) /\ queue[p] \in Seq(Updates)
      BY <1>1, <1>2, <2>3 DEF TypeOK
    <3>2. Head(queue'[p]) = Head(queue[p])
      BY <2>3, <3>1, HeadTailAppend
    <3>. QED  BY <1>1, <1>2, <2>1, <2>3, <3>2, PauseKept
  <2>4. CASE p = Caller[u] /\ queue[p] = <<>>
    <3>1. Head(queue'[p]) = u
      BY <1>1, <1>2, <2>4 DEF TypeOK
    <3>2. attempt[p].update = u /\ ~(attempt[p].conflicts > 0)
      BY <1>1, <1>2, <2>1, <3>1 DEF CountsOfClients
    <3>3. attempt[p].conflicts = 0 /\ attempt[p].since \in Nat /\ attempt[p].since <= Version
      BY <1>2, <2>1, <3>2, AttemptTyped DEF CountsOfClients
    <3>. QED  BY <1>2, <2>1, <3>3 DEF Due, Allowance
  <2>. QED  BY <2>2, <2>3, <2>4
<1>. QED  BY <1>3, <1>4, <1>5 DEF ConflictsCounted

LEMMA CountAttempt ==
  ASSUME SafetyInv, ConflictsCounted, NEW p \in Processes, Attempt(p)
  PROVE  ConflictsCounted'
<1>. DEFINE u == Head(queue[p])  new == Request(p, u, copy[p])
<1>1. /\ queue[p] # <<>> /\ ~Waits(p)
      /\ requests' = requests \cup {new}
      /\ attempt' = IF attempt[p].update = u THEN attempt
                                             ELSE [attempt EXCEPT ![p] = Begun(u)]
      /\ UNCHANGED <<written, copy, queue, status, faults>>
  BY DEF Attempt, Free
<1>2. /\ TypeOK /\ Version' = Version /\ Version \in Nat /\ p \in Clients /\ p # Nobody
      /\ CountsOfClients /\ CountsOfRequests /\ CountsOfPauses
  BY <1>1, HistoryKept, HistoryTyped, MetadataAssumption
  DEF SafetyInv, TypeOK, ConflictsCounted, Clients
<1>3. /\ new.from = p /\ new.at = "sent" /\ new.base = copy[p].version
      /\ \A s \in requests : s.from # p
  BY <1>1 DEF Request, Waits
<1>4. \A c \in Clients : c # p => attempt'[c] = attempt[c]
  BY <1>1, <1>2 DEF TypeOK
<1>5. \/ attempt'[p] = attempt[p] /\ attempt[p].update = u
      \/ attempt'[p] = Begun(u)
  BY <1>1, <1>2 DEF TypeOK
<1>6. CountsOfClients'
  <2>1. CASE attempt'[p] = attempt[p]
    <3>1. \A c \in Clients \ {} : attempt'[c] = attempt[c]
      BY <1>4, <2>1
    <3>2. {} \in SUBSET Clients /\ Version' \in Nat /\ Version' >= Version
      BY <1>2
    <3>. QED  BY <1>1, <1>2, <3>1, <3>2, ClientsKept
  <2>2. CASE attempt'[p] = Begun(u)
    <3>1. /\ {p} \in SUBSET Clients /\ Version' \in Nat /\ Version' >= Version
          /\ \A c \in {p} :
               /\ Due(c, 0)' /\ attempt'[c].since <= Version'
               /\ attempt'[c].conflicts > 0 =>
                    attempt'[c].update \in Updates /\ status'[attempt'[c].update] # "new"
      BY <1>1, <1>2, <2>2, DueBegun
    <3>2. \A c \in Clients \ {p} : attempt'[c] = attempt[c]
      BY <1>4
    <3>. QED  BY <1>1, <1>2, <3>1, <3>2, ClientsKept
  <2>. QED  BY <1>5, <2>1, <2>2
<1>7. new.base # Version => Due(p, 1)'
  <2>1. CASE attempt'[p] = Begun(u)
    BY <1>1, <1>2, <2>1, DueBegun
  <2>2. CASE attempt'[p] = attempt[p] /\ attempt[p].update = u
    BY <1>1, <1>2, <1>3, <2>2, PauseKept
  <2>. QED  BY <1>5, <2>1, <2>2
<1>8. CountsOfRequests'
  <2>. SUFFICES ASSUME NEW s \in requests', s.from # Nobody
                PROVE  /\ s.at = "sent" /\ s.base # Version' => Due(s.from, 1)'
                       /\ s.at = "read" /\ s.base # Version' => Due(s.from, 2)'
                       /\ s.at = "written" => Due(s.from, 2)'
    BY DEF CountsOfRequests
  <2>1. CASE s \in requests
    BY <1>1, <1>2, <1>3, <1>4, <2>1, RequestsKept, CallerFacts
  <2>2. CASE s = new
    BY <1>2, <1>3, <1>7, <2>2
  <2>. QED  BY <1>1, <2>1, <2>2
<1>9. CountsOfPauses'
  <2>. SUFFICES ASSUME NEW q \in Processes, ~Waits(q)', queue[q] # <<>>,
                       attempt'[q].update = Head(queue[q]), copy[q].version # Version
                PROVE  Due(q, 1)'
    BY <1>1, <1>2 DEF CountsOfPauses
  <2>1. q # p /\ ~Waits(q)
    BY <1>1, <1>3 DEF Waits
  <2>2. attempt'[q] = attempt[q]
    BY <1>4, <2>1 DEF Clients
  <2>. QED  BY <1>1, <1>2, <2>1, <2>2, PauseKept
<1>. QED  BY <1>6, <1>8, <1>9 DEF ConflictsCounted

LEMMA CountAppCalls ==
  ASSUME SafetyInv, ConflictsCounted, NEW u \in Updates, AppCalls(u)
  PROVE  ConflictsCounted'
<1>. DEFINE c == Caller[u]  new == Request(c, u, copy[c])
<1>1. /\ c \in Apps /\ status[u] = "new" /\ ~Waits(c)
      /\ status' = [status EXCEPT ![u] = "called"]
      /\ requests' = requests \cup {new}
      /\ attempt' = [attempt EXCEPT ![c] = Begun(u)]
      /\ UNCHANGED <<written, copy, queue, faults>>
  BY DEF AppCalls
<1>2. /\ TypeOK /\ Version' = Version /\ Version \in Nat
      /\ c \in Clients /\ c \notin Processes /\ c # Nobody
      /\ CountsOfClients /\ CountsOfRequests /\ CountsOfPauses
  BY <1>1, HistoryKept, HistoryTyped, MetadataAssumption
  DEF SafetyInv, TypeOK, ConflictsCounted, Clients
<1>3. /\ new.from = c /\ new.at = "sent"
      /\ \A s \in requests : s.from # c
  BY <1>1 DEF Request, Waits
<1>4. /\ attempt'[c] = Begun(u)
      /\ \A d \in Clients : d # c => attempt'[d] = attempt[d]
  BY <1>1, <1>2 DEF TypeOK
<1>5. Due(c, 0)' /\ Due(c, 1)' /\ attempt'[c].since = Version /\ attempt'[c].conflicts = 0
  BY <1>1, <1>2, <1>4, DueBegun
<1>6. CountsOfClients'
  <2>1. \A w \in Updates : status[w] # "new" => status'[w] # "new"
    BY <1>1, <1>2 DEF TypeOK
  <2>2. /\ {c} \in SUBSET Clients /\ Version' \in Nat /\ Version' >= Version
        /\ \A d \in {c} :
             /\ Due(d, 0)' /\ attempt'[d].since <= Version'
             /\ attempt'[d].conflicts > 0 =>
                  attempt'[d].update \in Updates /\ status'[attempt'[d].update] # "new"
        /\ \A d \in Clients \ {c} : attempt'[d] = attempt[d]
    BY <1>2, <1>4, <1>5
  <2>. QED  BY <1>2, <2>1, <2>2, ClientsKept
<1>7. CountsOfRequests'
  <2>. SUFFICES ASSUME NEW s \in requests', s.from # Nobody
                PROVE  /\ s.at = "sent" /\ s.base # Version' => Due(s.from, 1)'
                       /\ s.at = "read" /\ s.base # Version' => Due(s.from, 2)'
                       /\ s.at = "written" => Due(s.from, 2)'
    BY DEF CountsOfRequests
  <2>1. CASE s \in requests
    BY <1>1, <1>2, <1>3, <1>4, <2>1, RequestsKept, CallerFacts
  <2>2. CASE s = new
    BY <1>3, <1>5, <2>2
  <2>. QED  BY <1>1, <2>1, <2>2
<1>8. CountsOfPauses'
  <2>. SUFFICES ASSUME NEW q \in Processes, ~Waits(q)', queue[q] # <<>>,
                       attempt'[q].update = Head(queue[q]), copy[q].version # Version
                PROVE  Due(q, 1)'
    BY <1>1, <1>2 DEF CountsOfPauses
  <2>1. q # c /\ ~Waits(q)
    BY <1>1, <1>2 DEF Waits
  <2>2. attempt'[q] = attempt[q]
    BY <1>4, <2>1 DEF Clients
  <2>. QED  BY <1>1, <1>2, <2>1, <2>2, PauseKept
<1>. QED  BY <1>6, <1>7, <1>8 DEF ConflictsCounted

LEMMA CountAppLearns ==
  ASSUME SafetyInv, ConflictsCounted, NEW c \in Apps, NEW v \in 1..Version, AppLearns(c, v)
  PROVE  ConflictsCounted'
<1>1. /\ copy' = [copy EXCEPT ![c] = CopyOf(v)]
      /\ UNCHANGED <<written, requests, queue, attempt, status, faults>>
  BY DEF AppLearns
<1>2. \A p \in Processes : copy'[p] = copy[p]
  BY <1>1, MetadataAssumption DEF SafetyInv, TypeOK, Clients
<1>. QED  BY <1>1, <1>2 DEF ConflictsCounted, CountsOfClients, CountsOfRequests,
            CountsOfPauses, Due, Allowance, Version, Waits

\* A conflict that was due is met.
LEMMA DueMet ==
  ASSUME TypeOK, NEW c \in Clients, UNCHANGED written,
         attempt'[c].conflicts = attempt[c].conflicts + 1, attempt'[c].since = attempt[c].since,
         NEW n \in Nat, Due(c, n + 1)
  PROVE  Due(c, n)'
<1>1. /\ attempt[c].conflicts \in Nat /\ attempt[c].since \in Nat
      /\ Version \in Nat /\ Version' = Version
  BY AttemptTyped, HistoryTyped, HistoryKept DEF TypeOK
<1>. QED  BY <1>1 DEF Due, Allowance

\* A process that starts afresh or goes on with another update than before.
LEMMA OverIsOver ==
  ASSUME SafetyInv, NEW r \in requests, r.from \in Processes,
         NEW outcome \in {"told", "failed", "ignored"}, Ends(r, outcome),
         attempt'[r.from].update = attempt[r.from].update
  PROVE  queue'[r.from] # <<>> => attempt'[r.from].update # Head(queue'[r.from])
<1>1. r.from # Nobody
  BY MetadataAssumption DEF Clients
<1>. QED  BY <1>1, EndsKeeps, CallerFacts

\* Other processes are as they were.
LEMMA PausesKept ==
  ASSUME SafetyInv, CountsOfPauses, UNCHANGED written, NEW r \in requests,
         NEW p \in Processes, p # r.from, p # Nobody,
         \A s \in requests : s # r /\ s.from = p => s \in requests',
         GoesOn \/ (r.from # Nobody /\ \E o \in {"told", "failed", "ignored"} : Ends(r, o)),
         ~Waits(p)', queue'[p] # <<>>, attempt'[p].update = Head(queue'[p]),
         copy'[p] = copy[p] \/ copy[p].version # Version,
         copy'[p].version # Version,
         attempt'[p] = attempt[p]
  PROVE  Due(p, 1)'
<1>1. ~Waits(p)
  BY DEF Waits
<1>2. queue'[p] = queue[p]
  BY EndsKeeps DEF GoesOn
<1>. QED  BY <1>1, <1>2, PauseKept

LEMMA CountMismatch ==
  ASSUME SafetyInv, ConflictsCounted, NEW r \in requests, NEW v \in 0..Version, Mismatch(r, v),
         r.base # Version,
         (r.at = "sent" /\ v = Version) \/ (r.at = "read" /\ v = r.base)
  PROVE  ConflictsCounted'
<1>. DEFINE c == r.from
<1>1. UNCHANGED <<written, faults>>
  BY MismatchSplits
<1>2. /\ TypeOK /\ Version' = Version /\ Version \in Nat
      /\ CountsOfClients /\ CountsOfRequests /\ CountsOfPauses
  BY <1>1, HistoryKept, HistoryTyped DEF SafetyInv, TypeOK, ConflictsCounted
<1>3. {} \in SUBSET Clients /\ Version' \in Nat /\ Version' >= Version
  BY <1>2
<1>4. \A p \in Processes : p \in Clients /\ p # Nobody
  BY MetadataAssumption DEF Clients
<1>5. CASE c = Nobody
  <2>1. requests' = requests \ {r} /\ UNCHANGED <<copy, attempt, status, queue>>
    BY <1>4, <1>5, MismatchSplits, MetadataAssumption DEF MismatchEnds, Clients
  <2>2. CountsOfClients'
    BY <1>2, <1>3, <2>1, ClientsKept
  <2>3. CountsOfRequests'
    BY <1>1, <1>2, <2>1, RequestsKept DEF CountsOfRequests
  <2>4. CountsOfPauses'
    <3>. SUFFICES ASSUME NEW q \in Processes, ~Waits(q)', queue[q] # <<>>,
                         attempt[q].update = Head(queue[q]), copy[q].version # Version
                  PROVE  Due(q, 1)'
      BY <1>2, <2>1 DEF CountsOfPauses
    <3>1. ~Waits(q)
      BY <1>4, <1>5, <2>1 DEF Waits
    <3>. QED  BY <1>1, <1>2, <2>1, <3>1, PauseKept
  <2>. QED  BY <2>2, <2>3, <2>4 DEF ConflictsCounted
<1>6. CASE c # Nobody
  <2>1. c \in Clients /\ r.update \in Updates /\ attempt[c].update = r.update
        /\ status[r.update] = "called"
    BY <1>6, CallerFacts
  <2>2. attempt' = [attempt EXCEPT ![c].conflicts = attempt[c].conflicts + 1]
    BY <1>6, MismatchSplits
  <2>3. \A d \in Clients :
          /\ attempt'[d].update = attempt[d].update /\ attempt'[d].since = attempt[d].since
          /\ attempt'[d].conflicts =
               IF d = c THEN attempt[d].conflicts + 1 ELSE attempt[d].conflicts
    BY <1>2, <2>1, <2>2, Counted
  <2>4. \A d \in Clients : d # c => attempt'[d] = attempt[d]
    BY <1>2, <2>2 DEF TypeOK
  <2>5. Due(c, 1) /\ (v # Version => Due(c, 2))
    <3>1. CASE r.at = "sent" /\ v = Version
      BY <1>2, <1>6, <3>1 DEF CountsOfRequests
    <3>2. CASE r.at = "read" /\ v = r.base
      <4>1. Due(c, 2)
        BY <1>2, <1>6, <3>2 DEF CountsOfRequests
      <4>. QED  BY <1>2, <2>1, <4>1, DueLess
    <3>. QED  BY <3>1, <3>2
  <2>6. Due(c, 0)' /\ (v # Version => Due(c, 1)')
    <3>1. /\ attempt'[c].conflicts = attempt[c].conflicts + 1
          /\ attempt'[c].since = attempt[c].since
      BY <2>1, <2>3
    <3>2. \A n \in Nat : Due(c, n + 1) => Due(c, n)'
      BY <1>1, <1>2, <2>1, <3>1, DueMet
    <3>3. Due(c, 0 + 1) => Due(c, 0)'
      BY <3>2
    <3>4. Due(c, 1 + 1) => Due(c, 1)'
      BY <3>2
    <3>. QED  BY <2>5, <3>3, <3>4
  <2>7. \/ GoesOn
        \/ Ends(r, "failed") /\ requests' = requests \ {r}
    BY <1>6, MismatchSplits DEF MismatchEnds, MismatchRepeats
  <2>8. /\ status'[r.update] # "new"
        /\ \A u \in Updates : status[u] # "new" => status'[u] # "new"
    BY <1>6, <2>1, <2>7, EndsKeeps DEF GoesOn
  <2>9. CountsOfClients'
    <3>1. /\ {c} \in SUBSET Clients
          /\ \A d \in Clients \ {c} : attempt'[d] = attempt[d]
          /\ \A d \in {c} :
               /\ Due(d, 0)' /\ attempt'[d].since <= Version'
               /\ attempt'[d].conflicts > 0 =>
                    attempt'[d].update \in Updates /\ status'[attempt'[d].update] # "new"
      BY <1>2, <2>1, <2>3, <2>4, <2>6, <2>8 DEF CountsOfClients
    <3>. QED  BY <1>2, <1>3, <2>8, <3>1, ClientsKept
  <2>10. /\ copy'[c].version # Version /\ c \in Processes => v # Version
         /\ \A p \in Processes : p # c => copy'[p] = copy[p]
    <3>1. CASE c \in Processes
      <4>1. copy' = [copy EXCEPT ![c] = Learnt(c, v)]
        BY <1>6, <3>1, MismatchSplits, MetadataAssumption
      <4>2. copy'[c] = Learnt(c, v) /\ \A p \in Processes : p # c => copy'[p] = copy[p]
        BY <1>2, <1>4, <2>1, <4>1 DEF TypeOK
      <4>. QED  BY <1>2, <2>1, <4>2, LearntFacts
    <3>2. CASE c \notin Processes
      BY <1>6, <3>2, MismatchSplits
    <3>. QED  BY <3>1, <3>2
  <2>11. ASSUME NEW s \in requests', s \notin requests, s.from # Nobody
         PROVE  s.from = c /\ s.at = "sent" /\ (s.base # Version => v # Version)
    <3>1. \/ c \in Processes /\ s = Request(c, r.update, Learnt(c, v))
          \/ c \in Apps /\ s = Request(c, r.update, CopyOf(v))
      <4>1. \/ requests' = requests \ {r}
            \/ /\ c \in Processes
               /\ requests' = (requests \ {r}) \cup {Request(c, r.update, Learnt(c, v))}
            \/ /\ c \in Apps
               /\ requests' = (requests \ {r}) \cup {Request(c, r.update, CopyOf(v))}
        BY <1>6, MismatchSplits DEF MismatchEnds, MismatchRepeats
      <4>. QED  BY <2>11, <4>1
    <3>2. Learnt(c, v).version \in -1..Version /\ Learnt(c, v).version >= v
      BY <2>1, LearntFacts
    <3>. QED  BY <1>2, <3>1, <3>2 DEF Request, CopyOf
  <2>12. ASSUME NEW s \in requests', s \in requests, s.from # Nobody
         PROVE  s.from # c
    <3>1. s # r
      <4>1. CASE requests' = requests \ {r}
        BY <2>12, <4>1
      <4>2. CASE requests' = (requests \ {r}) \cup {Request(c, r.update, Learnt(c, v))} /\ c \in Processes
        <5>1. ASSUME r = Request(c, r.update, Learnt(c, v))  PROVE FALSE
          <6>1. r.at = "sent" /\ r.base = Learnt(c, v).version
            BY <5>1 DEF Request
          <6>. QED  BY <1>2, <2>1, <6>1, LearntFacts
        <5>. QED  BY <4>2, <5>1
      <4>3. CASE requests' = (requests \ {r}) \cup {Request(c, r.update, CopyOf(v))}
        <5>1. ASSUME r = Request(c, r.update, CopyOf(v))  PROVE FALSE
          <6>1. r.at = "sent" /\ r.base = v
            BY <5>1 DEF Request, CopyOf
          <6>. QED  BY <6>1
        <5>. QED  BY <4>3, <5>1
      <4>. QED  BY <1>6, <4>1, <4>2, <4>3, MismatchSplits DEF MismatchEnds, MismatchRepeats
    <3>. QED  BY <1>6, <2>12, <3>1, OthersDiffer
  <2>13. CountsOfRequests'
    <3>. SUFFICES ASSUME NEW s \in requests', s.from # Nobody
                  PROVE  /\ s.at = "sent" /\ s.base # Version' => Due(s.from, 1)'
                         /\ s.at = "read" /\ s.base # Version' => Due(s.from, 2)'
                         /\ s.at = "written" => Due(s.from, 2)'
      BY DEF CountsOfRequests
    <3>1. CASE s \in requests
      <4>1. attempt'[s.from] = attempt[s.from]
        BY <2>4, <2>12, <3>1, CallerFacts
      <4>. QED  BY <1>1, <1>2, <3>1, <4>1, RequestsKept
    <3>2. CASE s \notin requests
      BY <1>2, <2>6, <2>11, <3>2
    <3>. QED  BY <3>1, <3>2
  <2>14. CountsOfPauses'
    <3>. SUFFICES ASSUME NEW q \in Processes, ~Waits(q)', queue'[q] # <<>>,
                         attempt'[q].update = Head(queue'[q]), copy'[q].version # Version
                  PROVE  Due(q, 1)'
      BY <1>2 DEF CountsOfPauses
    <3>1. CASE q = c
      <4>1. v # Version
        BY <2>10, <3>1
      <4>. QED  BY <2>6, <3>1, <4>1
    <3>2. CASE q # c
      <4>1. \A s \in requests : s # r /\ s.from = q => s \in requests'
        BY <1>6, MismatchSplits DEF MismatchEnds, MismatchRepeats
      <4>2. attempt'[q] = attempt[q] /\ copy'[q] = copy[q]
        BY <1>4, <2>4, <2>10, <3>2
      <4>3. GoesOn \/ (r.from # Nobody /\ \E o \in {"told", "failed", "ignored"} : Ends(r, o))
        BY <1>6, <2>7
      <4>. QED  BY <1>1, <1>2, <1>4, <3>2, <4>1, <4>2, <4>3, PausesKept
    <3>. QED  BY <3>1, <3>2
  <2>. QED  BY <2>9, <2>13, <2>14 DEF ConflictsCounted
<1>. QED  BY <1>5, <1>6

LEMMA CountReads ==
  ASSUME SafetyInv, ConflictsCounted, NEW r \in requests, Reads(r)
  PROVE  ConflictsCounted'
<1>1. /\ TypeOK /\ Version \in Nat /\ r.at = "sent"
      /\ CountsOfClients /\ CountsOfRequests /\ CountsOfPauses
  BY HistoryTyped DEF SafetyInv, TypeOK, ConflictsCounted, Reads
<1>2. CASE r.base # Version
  BY <1>1, <1>2, CountMismatch DEF Reads
<1>3. CASE r.base = Version
  <2>1. /\ requests' = (requests \ {r}) \cup {Carried(r, "read")}
        /\ UNCHANGED <<written, copy, queue, attempt, status, faults>>
        /\ Version' = Version
    BY <1>3, HistoryKept DEF Reads, Carried
  <2>2. CountsOfClients'
    BY <2>1, <1>1 DEF CountsOfClients, Due, Allowance
  <2>3. CountsOfRequests'
    BY <1>1, <1>3, <2>1, CarriedFacts DEF CountsOfRequests, Due, Allowance
  <2>4. \A c : Waits(c)' <=> Waits(c)
    BY <2>1, CarriedFacts DEF Waits
  <2>5. CountsOfPauses'
    BY <1>1, <2>1, <2>4 DEF CountsOfPauses, Due, Allowance
  <2>. QED  BY <2>2, <2>3, <2>5 DEF ConflictsCounted
<1>. QED  BY <1>2, <1>3

LEMMA CountWrites ==
  ASSUME SafetyInv, ConflictsCounted, NEW r \in requests, Writes(r)
  PROVE  ConflictsCounted'
<1>1. /\ TypeOK /\ Version \in Nat /\ r.at = "read"
      /\ CountsOfClients /\ CountsOfRequests /\ CountsOfPauses
      /\ written \in Seq(SUBSET Updates)
  BY HistoryTyped DEF SafetyInv, TypeOK, ConflictsCounted, Writes
<1>2. CASE ~RowMatches(r)
  <2>1. /\ r.base \in 0..Version /\ Mismatch(r, r.base) /\ r.base # Version
    BY <1>1, <1>2 DEF Writes, SafetyInv, RequestsTrue, RowMatches
  <2>. QED  BY <1>1, <2>1, CountMismatch
<1>3. CASE RowMatches(r)
  <2>1. /\ requests' = (requests \ {r}) \cup {Carried(r, "written")}
        /\ UNCHANGED <<copy, queue, attempt, status, faults>>
    BY <1>3 DEF Writes, Carried
  <2>2. written' = Append(written, r.value) /\ r.value \in SUBSET Updates
    BY <1>3, WriteAdds, RequestTyped DEF SafetyInv
  <2>3. Version' = Version + 1
    BY <1>1, <2>2, HistoryGrows
  <2>4. \A c \in Clients : Due(c, 1)' /\ Due(c, 2)'
    <3>1. \A c \in Clients : attempt'[c] = attempt[c] /\ Due(c, 0)
      BY <1>1, <2>1 DEF CountsOfClients
    <3>. QED  BY <1>1, <2>3, <3>1, DueMore
  <2>5. CountsOfClients'
    <3>1. {} \in SUBSET Clients /\ Version' \in Nat /\ Version' >= Version
      BY <1>1, <2>3
    <3>. QED  BY <1>1, <2>1, <3>1, ClientsKept
  <2>6. CountsOfRequests'
    <3>1. \A s \in requests' : s.from # Nobody => s.from \in Clients
      BY <2>1, CarriedFacts, CallerFacts
    <3>. QED  BY <2>4, <3>1 DEF CountsOfRequests
  <2>7. CountsOfPauses'
    BY <2>4 DEF CountsOfPauses, Clients
  <2>. QED  BY <2>5, <2>6, <2>7 DEF ConflictsCounted
<1>. QED  BY <1>2, <1>3

\* When a request is gone, or its client waits no longer.
LEMMA CountOver ==
  ASSUME SafetyInv, ConflictsCounted, NEW r \in requests, UNCHANGED <<written, attempt>>,
         requests' \in {requests \ {r}, (requests \ {r}) \cup {Left(r)}},
         NEW outcome \in {"told", "failed", "ignored"},
         \/ GoesOn /\ (r.from \in Processes => UNCHANGED copy)
         \/ r.from # Nobody /\ Ends(r, outcome),
         \A p \in Processes : p # r.from => copy'[p] = copy[p] \/ copy[p].version # Version
  PROVE  ConflictsCounted'
<1>1. /\ TypeOK /\ Version' = Version /\ Version \in Nat
      /\ CountsOfClients /\ CountsOfRequests /\ CountsOfPauses
  BY HistoryKept, HistoryTyped DEF SafetyInv, TypeOK, ConflictsCounted
<1>2. \A p \in Processes : p \in Clients /\ p # Nobody
  BY MetadataAssumption DEF Clients
<1>3. CountsOfClients'
  <2>1. \A u \in Updates : status[u] # "new" => status'[u] # "new"
    BY EndsKeeps DEF GoesOn
  <2>2. {} \in SUBSET Clients /\ Version' \in Nat /\ Version' >= Version
    BY <1>1
  <2>. QED  BY <1>1, <2>1, <2>2, ClientsKept
<1>4. CountsOfRequests'
  <2>. SUFFICES ASSUME NEW s \in requests', s.from # Nobody
                PROVE  /\ s.at = "sent" /\ s.base # Version' => Due(s.from, 1)'
                       /\ s.at = "read" /\ s.base # Version' => Due(s.from, 2)'
                       /\ s.at = "written" => Due(s.from, 2)'
    BY DEF CountsOfRequests
  <2>1. s \in requests
    BY LeftFacts
  <2>. QED  BY <1>1, <2>1, RequestsKept
<1>5. CountsOfPauses'
  <2>. SUFFICES ASSUME NEW q \in Processes, ~Waits(q)', queue'[q] # <<>>,
                       attempt'[q].update = Head(queue'[q]), copy'[q].version # Version
                PROVE  Due(q, 1)'
    BY <1>1 DEF CountsOfPauses
  <2>1. CASE q # r.from
    <3>1. \A s \in requests : s # r /\ s.from = q => s \in requests'
      OBVIOUS
    <3>2. GoesOn \/ (r.from # Nobody /\ \E o \in {"told", "failed", "ignored"} : Ends(r, o))
      OBVIOUS
    <3>. QED  BY <1>1, <1>2, <2>1, <3>1, <3>2, PausesKept
  <2>2. CASE q = r.from
    <3>1. GoesOn /\ UNCHANGED copy
      BY <2>2, EndsKeeps, CallerFacts
    <3>2. r.base <= copy[q].version /\ copy[q].version \in Int /\ copy[q].version <= Version
          /\ r.base \in Int /\ r.at \in {"sent", "read", "written"}
      BY <1>1, <1>2, <2>2, CallerFacts, CopyTyped, RequestTyped
    <3>3. r.base # Version
      BY <1>1, <3>1, <3>2
    <3>4. Due(q, 1) \/ Due(q, 2)
      BY <1>1, <1>2, <2>2, <3>2, <3>3 DEF CountsOfRequests
    <3>5. Due(q, 1)
      BY <1>1, <1>2, <3>4, DueLess
    <3>. QED  BY <1>1, <1>2, <3>5, DueKept
  <2>. QED  BY <2>1, <2>2
<1>. QED  BY <1>3, <1>4, <1>5 DEF ConflictsCounted

LEMMA CountAnnounces ==
  ASSUME SafetyInv, ConflictsCounted, NEW r \in requests, NEW deaf, Announces(r, deaf)
  PROVE  ConflictsCounted'
<1>1. /\ requests' = requests \ {r} /\ UNCHANGED <<written, attempt>> /\ r.at = "written"
      /\ \/ GoesOn /\ r.from = Nobody
         \/ r.from # Nobody /\ Ends(r, "told")
  BY DEF Announces
<1>2. r.base + 1 \in 1..Version /\ TypeOK /\ Version \in Nat
  BY <1>1, HistoryTyped DEF SafetyInv, RequestsTrue, TypeOK
<1>3. \A p \in Processes : p # r.from => copy'[p] = copy[p] \/ r.base + 1 > copy[p].version
  BY DEF Announces, VersionTaken, Newer, Clients
<1>4. \A p \in Processes : p # r.from => copy'[p] = copy[p] \/ copy[p].version # Version
  BY <1>2, <1>3, CopyTyped DEF Clients
<1>5. r.from \in Processes => r.from # Nobody
  BY MetadataAssumption DEF Clients
<1>. QED  BY <1>1, <1>4, <1>5, CountOver

LEMMA CountFails ==
  ASSUME SafetyInv, ConflictsCounted, NEW r \in requests, Fails(r)  PROVE ConflictsCounted'
<1>1. /\ requests' = requests \ {r} /\ UNCHANGED <<written, copy, attempt>>
  BY DEF Fails
<1>2. PICK outcome \in {"failed", "ignored"} :
        GoesOn \/ (r.from # Nobody /\ Ends(r, outcome))
  BY DEF Fails
<1>. QED  BY <1>1, <1>2, CountOver

LEMMA CountAnswerLost ==
  ASSUME SafetyInv, ConflictsCounted, NEW r \in requests, AnswerLost(r)
  PROVE  ConflictsCounted'
<1>1. /\ requests' = (requests \ {r}) \cup {Left(r)} /\ UNCHANGED <<written, copy, attempt>>
      /\ GoesOn \/ (r.from # Nobody /\ Ends(r, "failed"))
  BY DEF AnswerLost, Left
<1>. QED  BY <1>1, CountOver

LEMMA CountRestarts ==
  ASSUME SafetyInv, ConflictsCounted, NEW p \in Processes, Restarts(p)
  PROVE  ConflictsCounted'
<1>1. /\ requests' = {IF r.from = p THEN Left(r) ELSE r : r \in requests}
      /\ copy' = [copy EXCEPT ![p] = [version |-> -1, value |-> {}]]
      /\ queue' = [queue EXCEPT ![p] = <<>>]
      /\ attempt' = [attempt EXCEPT ![p] = Begun(Nobody)]
      /\ \A u \in Updates : status'[u] = "lost" \/ status'[u] = status[u]
      /\ UNCHANGED written
  BY DEF Restarts, Left, UnknownRevision
<1>2. /\ TypeOK /\ Version' = Version /\ Version \in Nat /\ p \in Clients
      /\ CountsOfClients /\ CountsOfRequests /\ CountsOfPauses
  BY <1>1, HistoryKept, HistoryTyped DEF SafetyInv, TypeOK, ConflictsCounted, Clients
<1>3. /\ attempt'[p] = Begun(Nobody) /\ \A c \in Clients : c # p => attempt'[c] = attempt[c]
      /\ queue'[p] = <<>> /\ \A q \in Processes : q # p => queue'[q] = queue[q]
      /\ \A q \in Processes : q # p => copy'[q] = copy[q]
  BY <1>1, <1>2 DEF TypeOK, Clients
<1>4. \A s \in requests' : s.from # Nobody => s \in requests /\ s.from # p
  BY <1>1, LeftFacts
<1>5. CountsOfClients'
  <2>1. Due(p, 0)' /\ attempt'[p].since = Version /\ attempt'[p].conflicts = 0
    BY <1>1, <1>2, <1>3, DueBegun
  <2>2. /\ {p} \in SUBSET Clients /\ Version' \in Nat /\ Version' >= Version
        /\ \A c \in {p} :
             /\ Due(c, 0)' /\ attempt'[c].since <= Version'
             /\ attempt'[c].conflicts > 0 =>
                  attempt'[c].update \in Updates /\ status'[attempt'[c].update] # "new"
        /\ \A c \in Clients \ {p} : attempt'[c] = attempt[c]
    BY <1>2, <1>3, <2>1
  <2>3. \A u \in Updates : status[u] # "new" => status'[u] # "new"
    BY <1>1
  <2>. QED  BY <1>2, <2>2, <2>3, ClientsKept
<1>6. CountsOfRequests'
  <2>. SUFFICES ASSUME NEW s \in requests', s.from # Nobody
                PROVE  /\ s.at = "sent" /\ s.base # Version' => Due(s.from, 1)'
                       /\ s.at = "read" /\ s.base # Version' => Due(s.from, 2)'
                       /\ s.at = "written" => Due(s.from, 2)'
    BY DEF CountsOfRequests
  <2>1. s \in requests /\ attempt'[s.from] = attempt[s.from]
    BY <1>3, <1>4, CallerFacts
  <2>. QED  BY <1>1, <1>2, <2>1, RequestsKept
<1>7. CountsOfPauses'
  <2>. SUFFICES ASSUME NEW q \in Processes, ~Waits(q)', queue'[q] # <<>>,
                       attempt'[q].update = Head(queue'[q]), copy'[q].version # Version
                PROVE  Due(q, 1)'
    BY <1>2 DEF CountsOfPauses
  <2>1. q # p
    BY <1>3
  <2>2. ~Waits(q)
    <3>. SUFFICES ASSUME NEW s \in requests, s.from = q  PROVE s \in requests'
      BY DEF Waits
    <3>. QED  BY <1>1, <2>1
  <2>3. attempt'[q] = attempt[q] /\ queue'[q] = queue[q] /\ copy'[q] = copy[q]
    BY <1>3, <2>1 DEF Clients
  <2>. QED  BY <1>1, <1>2, <2>2, <2>3, PauseKept
<1>. QED  BY <1>5, <1>6, <1>7 DEF ConflictsCounted

LEMMA CountNext ==
  ASSUME SafetyInv, ConflictsCounted, [Next]_vars  PROVE ConflictsCounted'
<1>1. ASSUME NEW u \in Updates, ProcessCalls(u) \/ AppCalls(u)  PROVE ConflictsCounted'
  BY <1>1, CountProcessCalls, CountAppCalls
<1>2. ASSUME NEW p \in Processes, Attempt(p) \/ Restarts(p)  PROVE ConflictsCounted'
  BY <1>2, CountAttempt, CountRestarts
<1>3. ASSUME NEW c \in Apps, NEW v \in 1..Version, AppLearns(c, v)  PROVE ConflictsCounted'
  BY <1>3, CountAppLearns
<1>4. ASSUME NEW r \in requests, Serves(r)  PROVE ConflictsCounted'
  BY <1>4, CountReads, CountWrites, CountAnnounces DEF Serves
<1>5. ASSUME NEW r \in requests, Fails(r) \/ AnswerLost(r)  PROVE ConflictsCounted'
  BY <1>5, CountFails, CountAnswerLost
<1>6. ASSUME NEW r \in requests, NEW deaf \in SUBSET Processes, Misses(r, deaf)
      PROVE  ConflictsCounted'
  BY <1>6, CountAnnounces DEF Misses
<1>7. CASE UNCHANGED vars
  BY <1>7 DEF vars, ConflictsCounted, CountsOfClients, CountsOfRequests, CountsOfPauses, Due,
     Allowance, Version, Waits
<1>. QED  BY <1>1, <1>2, <1>3, <1>4, <1>5, <1>6, <1>7 DEF Next

\* A client that is told of a conflict is told because somebody else's update was
\* taken, at most twice for each, and once for a copy that was old: a strict
\* update never gives up for any other reason (updateMetadata in apiSession.ts).
THEOREM ConflictsExplained == Spec => []ConflictsHaveCauses
<1>1. SafetyInv /\ ConflictsCounted => ConflictsHaveCauses
  BY AttemptTyped DEF SafetyInv, ConflictsCounted, CountsOfClients, ConflictsHaveCauses, Due,
     Allowance
<1>2. SafetyInv /\ ConflictsCounted /\ [Next]_vars => ConflictsCounted'
  BY CountNext
<1>. QED  BY <1>1, <1>2, InitCounted, SafetyCorrect, PTL DEF Spec
=============================================================================
