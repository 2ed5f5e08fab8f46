----------------------- MODULE AgentMailEvict_proofs -----------------------
(* AgentMail when there is not room for all receipts: how many there are,   *)
(* which may go, and what each of them decides until it goes.               *)
EXTENDS AgentMail_proofs

-----------------------------------------------------------------------------
(* What an eviction does.                                                   *)

LEMMA PresentFinite ==
  ASSUME NEW inbox \in [Mails -> Receipts]
  PROVE  /\ IsFiniteSet(Present(inbox)) /\ Cardinality(Present(inbox)) \in Nat
         /\ Present(inbox) = {m \in Mails : inbox[m].phase # "none"}
<1>1. Present(inbox) = {m \in Mails : inbox[m].phase # "none"}
  BY DEF Present, InPhase
<1>2. Present(inbox) \in SUBSET Mails
  BY <1>1
<1>. QED  BY <1>1, <1>2, MailsFinite, FS_Subset, FS_CardinalityType

LEMMA FewerPresent ==
  ASSUME NEW inbox \in [Mails -> Receipts], NEW left \in [Mails -> Receipts],
         \A m \in Mails : left[m].phase # "none" => inbox[m].phase # "none"
  PROVE  Cardinality(Present(left)) <= Cardinality(Present(inbox))
<1>1. Present(left) \in SUBSET Present(inbox)
  BY PresentFinite
<1>. QED  BY <1>1, PresentFinite, FS_Subset

\* Only acked receipts go, and as many as asked for.
LEMMA DroppingFacts ==
  ASSUME NEW inbox \in [Mails -> Receipts], NEW n \in Nat, NEW left \in Dropping(inbox, n)
  PROVE  /\ left \in [Mails -> Receipts]
         /\ \A m \in Mails : left[m] = inbox[m] \/ (inbox[m].phase = "acked" /\ left[m] = NoReceipt)
         /\ Cardinality(Present(left)) = Cardinality(Present(inbox)) - n
<1>1. PICK D \in SUBSET InPhase(inbox, "acked") : Cardinality(D) = n /\ left = Forget(inbox, D)
  BY DEF Dropping
<1>2. left \in [Mails -> Receipts]
  BY DroppingType
<1>3. /\ \A m \in D : m \in Mails /\ inbox[m].phase = "acked" /\ left[m] = NoReceipt
      /\ \A m \in Mails \ D : left[m] = inbox[m]
  BY <1>1 DEF Forget, InPhase
<1>4. Present(left) = Present(inbox) \ D
  BY <1>2, <1>3, PresentFinite DEF NoReceipt
<1>5. D \cap Present(inbox) = D /\ Present(inbox) \cap D = D
  BY <1>1, PresentFinite DEF InPhase
<1>6. Cardinality(Present(inbox) \ D) = Cardinality(Present(inbox)) - Cardinality(Present(inbox) \cap D)
  BY PresentFinite, FS_Difference
<1>7. Cardinality(Present(left)) = Cardinality(Present(inbox)) - n
  BY <1>1, <1>4, <1>5, <1>6
<1>8. ASSUME NEW m \in Mails
      PROVE  left[m] = inbox[m] \/ (inbox[m].phase = "acked" /\ left[m] = NoReceipt)
  <2>1. CASE m \in D
    BY <1>3, <2>1
  <2>2. CASE m \notin D
    BY <1>3, <2>2
  <2>. QED  BY <2>1, <2>2
<1>. QED  BY <1>2, <1>7, <1>8

LEMMA ExcessType == ASSUME NEW n \in Nat, NEW limit \in Nat PROVE Excess(n, limit) \in Nat
BY DEF Excess

LEMMA RoomForFacts ==
  ASSUME NEW inbox \in [Mails -> Receipts], NEW left \in RoomFor(inbox)
  PROVE  /\ left \in [Mails -> Receipts]
         /\ \A m \in Mails : left[m] = inbox[m] \/ (inbox[m].phase = "acked" /\ left[m] = NoReceipt)
         /\ Cardinality(Present(left)) + 1 <= InboxLimit
<1>. DEFINE n == Cardinality(Present(inbox))
            e == Excess(n + 1, InboxLimit)
<1>1. n \in Nat /\ InboxLimit \in Nat
  BY PresentFinite, ConstantsAssumption
<1>2. e \in Nat /\ n + 1 - e <= InboxLimit
  BY <1>1 DEF Excess
<1>3. left \in Dropping(inbox, e)
  BY DEF RoomFor
<1>. HIDE DEF n, e
<1>4. /\ left \in [Mails -> Receipts]
      /\ \A m \in Mails : left[m] = inbox[m] \/ (inbox[m].phase = "acked" /\ left[m] = NoReceipt)
      /\ Cardinality(Present(left)) = n - e
  BY <1>2, <1>3, DroppingFacts DEF n
<1>. QED  BY <1>1, <1>2, <1>4

LEMMA MarkedFacts ==
  ASSUME NEW inbox \in [Mails -> Receipts], NEW batch, NEW left \in Marked(inbox, batch)
  PROVE  /\ left \in [Mails -> Receipts]
         /\ \A m \in Mails : \/ left[m] = inbox[m]
                             \/ m \in batch \/ (inbox[m].phase = "acked" /\ left[m] = NoReceipt)
         /\ \A m \in Mails : left[m].phase # "none" =>
                              inbox[m].phase # "none" /\ left[m].kind = inbox[m].kind
<1>. DEFINE acked == [m \in DOMAIN inbox |->
                        IF m \in batch /\ inbox[m].phase = "processed"
                        THEN [inbox[m] EXCEPT !.phase = "acked"] ELSE inbox[m]]
            e == Excess(Cardinality(InPhase(acked, "acked")), AckedKept)
<1>1. acked \in [Mails -> Receipts]
  BY DEF Receipts, Phases
<1>2. \A m \in Mails : /\ acked[m] = inbox[m] \/ m \in batch
                       /\ acked[m].phase # "none" => inbox[m].phase # "none"
                       /\ acked[m].kind = inbox[m].kind
  BY DEF Receipts
<1>3. left \in Dropping(acked, e)
  BY DEF Marked
<1>. HIDE DEF acked
<1>4. e \in Nat
  <2>1. InPhase(acked, "acked") \in SUBSET Mails
    BY <1>1 DEF InPhase
  <2>2. Cardinality(InPhase(acked, "acked")) \in Nat
    BY <2>1, MailsFinite, FS_Subset, FS_CardinalityType
  <2>. QED  BY <2>2, ConstantsAssumption, ExcessType
<1>. HIDE DEF e
<1>5. /\ left \in [Mails -> Receipts]
      /\ \A m \in Mails : left[m] = acked[m] \/ (acked[m].phase = "acked" /\ left[m] = NoReceipt)
  BY <1>1, <1>3, <1>4, DroppingFacts
<1>. QED  BY <1>2, <1>5 DEF NoReceipt

-----------------------------------------------------------------------------
(* The bodies that are submitted.                                           *)

\* What a write must promise of its body.
Fit(b, body) == Bounded(body) /\ Confirmed(body) /\ Keeps(b, body)

LEMMA FitSame ==
  ASSUME NEW b \in Bodies, Bounded(b), Confirmed(b)  PROVE Fit(b, b)
BY Ranks DEF Fit, Keeps

LEMMA FitMark ==
  ASSUME NEW b \in Bodies, Bounded(b), Confirmed(b), NEW batch, batch \subseteq delivered,
         NEW inbox \in Marked(b.inbox, batch)
  PROVE  Fit(b, [b EXCEPT !.inbox = inbox])
<1>. DEFINE body == [b EXCEPT !.inbox = inbox]
<1>1. b.inbox \in [Mails -> Receipts]
  BY DEF Bodies
<1>2. /\ inbox \in [Mails -> Receipts]
      /\ \A m \in Mails : \/ inbox[m] = b.inbox[m]
                          \/ m \in batch \/ (b.inbox[m].phase = "acked" /\ inbox[m] = NoReceipt)
      /\ \A m \in Mails : inbox[m].phase # "none" => b.inbox[m].phase # "none"
  BY <1>1, MarkedFacts
<1>3. body \in Bodies /\ body.inbox = inbox
  BY <1>2 DEF Bodies
<1>. HIDE DEF body
<1>4. Bounded(body)
  BY <1>1, <1>2, <1>3, FewerPresent, PresentFinite, ConstantsAssumption DEF Bounded
<1>5. Confirmed(body)
  BY <1>2, <1>3 DEF Confirmed, NoReceipt
<1>6. Keeps(b, body)
  <2>1. \A m \in Mails \ delivered : body.inbox[m] = b.inbox[m]
    BY <1>2, <1>3 DEF Confirmed
  <2>. QED  BY <2>1, Ranks DEF Keeps, Rank
<1>. QED  BY <1>4, <1>5, <1>6 DEF Fit, body

LEMMA FitProject ==
  ASSUME NEW b \in Bodies, Bounded(b), Confirmed(b), NEW m \in Mails,
         NEW plan \in Receipts, plan.phase = "projected",
         NEW body \in Projections(b, m, plan)
  PROVE  Fit(b, body)
<1>1. b.inbox \in [Mails -> Receipts] /\ body \in Bodies
  BY ProjectionsType DEF Bodies
<1>2. CASE b.inbox[m].phase # "none"
  BY <1>2, FitSame DEF Projections
<1>3. CASE b.inbox[m].phase = "none"
  <2>1. PICK left \in RoomFor(b.inbox) :
          body = [inbox |-> [left EXCEPT ![m] = plan], board |-> [b.board EXCEPT ![m] = @ + 1]]
    BY <1>3 DEF Projections
  <2>2. /\ left \in [Mails -> Receipts]
        /\ \A k \in Mails : left[k] = b.inbox[k] \/ (b.inbox[k].phase = "acked" /\ left[k] = NoReceipt)
        /\ Cardinality(Present(left)) + 1 <= InboxLimit
    BY <1>1, RoomForFacts
  <2>3. /\ body.inbox \in [Mails -> Receipts] /\ body.inbox[m] = plan
        /\ \A k \in Mails \ {m} : body.inbox[k] = left[k]
    BY <1>1, <2>1, <2>2
  <2>4. Bounded(body)
    <3>1. Present(body.inbox) = Present(left) \cup {m}
      <4>1. Present(body.inbox) = {k \in Mails : body.inbox[k].phase # "none"}
        BY <2>3, PresentFinite
      <4>2. Present(left) = {k \in Mails : left[k].phase # "none"}
        BY <2>2, PresentFinite
      <4>. QED  BY <2>3, <4>1, <4>2
    <3>2. Cardinality(Present(left) \cup {m}) <= Cardinality(Present(left)) + 1
      <4>1. IsFiniteSet(Present(left)) /\ Cardinality(Present(left)) \in Nat
        BY <2>2, PresentFinite
      <4>2. Cardinality(Present(left) \cup {m})
              = IF m \in Present(left) THEN Cardinality(Present(left)) ELSE Cardinality(Present(left)) + 1
        BY <4>1, FS_AddElement
      <4>. QED  BY <4>1, <4>2
    <3>3. Cardinality(Present(left)) \in Nat /\ Cardinality(Present(body.inbox)) \in Nat
      BY <2>2, <2>3, PresentFinite
    <3>4. InboxLimit \in Nat
      BY ConstantsAssumption
    <3>. QED  BY <2>2, <3>1, <3>2, <3>3, <3>4 DEF Bounded
  <2>5. Confirmed(body)
    BY <2>2, <2>3 DEF Confirmed, NoReceipt
  <2>6. Keeps(b, body)
    <3>1. \A k \in Mails \ (delivered \cup {m}) : body.inbox[k] = b.inbox[k]
      BY <2>2, <2>3 DEF Confirmed
    <3>2. Rank(b, m) = 0 /\ Rank(body, m) = 1
      BY <1>3, <2>3 DEF Rank, PhaseRank
    <3>3. ASSUME NEW k \in Mails \ delivered PROVE Rank(body, k) >= Rank(b, k)
      <4>1. CASE k = m
        BY <3>2, <4>1
      <4>2. CASE k # m
        <5>1. Rank(body, k) = Rank(b, k) /\ Rank(b, k) \in 0..3
          BY <3>1, <4>2, Ranks DEF Rank
        <5>. QED  BY <5>1
      <4>. QED  BY <4>1, <4>2
    <3>. QED  BY <3>3 DEF Keeps
  <2>. QED  BY <2>4, <2>5, <2>6 DEF Fit
<1>. QED  BY <1>2, <1>3

LEMMA FitFinish ==
  ASSUME NEW b \in Bodies, Bounded(b), Confirmed(b), NEW m \in Mails, b.inbox[m].phase = "projected"
  PROVE  Fit(b, [b EXCEPT !.inbox[m].phase = "processed"])
<1>. DEFINE body == [b EXCEPT !.inbox[m].phase = "processed"]
<1>1. b.inbox \in [Mails -> Receipts] /\ b.inbox[m] \in Receipts
  BY DEF Bodies
<1>2. /\ body \in Bodies /\ body.inbox \in [Mails -> Receipts] /\ body.inbox[m].phase = "processed"
      /\ \A k \in Mails \ {m} : body.inbox[k] = b.inbox[k]
  BY <1>1 DEF Bodies, Receipts, Phases
<1>. HIDE DEF body
<1>3. Bounded(body)
  <2>1. \A k \in Mails : body.inbox[k].phase # "none" => b.inbox[k].phase # "none"
    BY <1>2
  <2>. QED  BY <1>1, <1>2, <2>1, FewerPresent, PresentFinite, ConstantsAssumption DEF Bounded
<1>4. Confirmed(body)
  BY <1>2 DEF Confirmed
<1>5. Keeps(b, body)
  <2>1. Rank(b, m) = 1 /\ Rank(body, m) = 2
    BY <1>2 DEF Rank, PhaseRank
  <2>2. \A k \in Mails \ {m} : Rank(body, k) = Rank(b, k) /\ Rank(b, k) \in 0..3
    BY <1>2, Ranks DEF Rank
  <2>. QED  BY <2>1, <2>2 DEF Keeps
<1>. QED  BY <1>3, <1>4, <1>5 DEF Fit, body

-----------------------------------------------------------------------------
(* The invariant.                                                           *)

\* The steps change the metadata by nothing, or by a body that fits.
LEMMA EvictStep ==
  ASSUME TypeOK, TypeOK', EvictInv, NEW p \in Procs, NEW c, client' = [client EXCEPT ![p] = c],
         delivered \subseteq delivered',
         \/ meta' = meta
         \/ \E b \in Bodies : meta' = Append(meta, b) /\ Bounded(b) /\ Confirmed(b),
         c \in Clients, c.base \in 1..Current,
         c.pc \in {"mark", "marking"} => c.batch \subseteq delivered',
         c.pc \in {"project", "projecting"} => c.receipt.phase = "projected",
         Writing(c) => Fit(meta[c.base], c.body)
  PROVE  EvictInv'
<1>1. /\ Current \in Nat /\ \A v \in 1..Current : meta'[v] = meta[v]
      /\ \A v \in 1..Current' : v \in 1..Current \/ (Bounded(meta'[v]) /\ Confirmed(meta'[v]))
  <2>1. meta \in Seq(Bodies) /\ Current \in Nat
    BY Typed DEF TypeOK, CentreTypeOK
  <2>2. CASE meta' = meta
    BY <2>1, <2>2 DEF Current
  <2>3. CASE \E b \in Bodies : meta' = Append(meta, b) /\ Bounded(b) /\ Confirmed(b)
    <3>1. PICK b \in Bodies : meta' = Append(meta, b) /\ Bounded(b) /\ Confirmed(b)
      BY <2>3
    <3>2. Current' = Current + 1 /\ meta'[Current + 1] = b /\ \A v \in 1..Current : meta'[v] = meta[v]
      BY <2>1, <3>1 DEF Current
    <3>3. ASSUME NEW v \in 1..Current', v \notin 1..Current PROVE meta'[v] = b
      <4>1. v = Current + 1
        BY <2>1, <3>2, <3>3
      <4>. QED  BY <3>2, <4>1
    <3>. QED  BY <2>1, <3>1, <3>2, <3>3
  <2>. QED  BY <2>2, <2>3
<1>2. EvictHistory'
  <2>1. ASSUME NEW v \in 1..Current' PROVE Bounded(meta'[v]) /\ Confirmed(meta'[v])
    BY <1>1 DEF EvictInv, EvictHistory
  <2>. QED  BY <2>1 DEF EvictHistory, Bounded, Confirmed
<1>3. ASSUME NEW q \in Procs PROVE EvictClient(client[q])'
  <2>1. PICK d : d = client'[q]
    OBVIOUS
  <2>2. d = IF q = p THEN c ELSE client[q]
    BY <2>1 DEF TypeOK
  <2>3. /\ d \in Clients /\ d.base \in 1..Current
        /\ d.pc \in {"mark", "marking"} => d.batch \subseteq delivered'
        /\ d.pc \in {"project", "projecting"} => d.receipt.phase = "projected"
        /\ Writing(d) => Fit(meta[d.base], d.body)
    <3>1. CASE q = p
      BY <2>2, <3>1
    <3>2. CASE q # p
      BY <2>2, <3>2, Typed DEF EvictInv, EvictClient, ClientTypeOK, Fit
    <3>. QED  BY <3>1, <3>2
  <2>4. meta'[d.base] = meta[d.base]
    BY <1>1, <2>3
  <2>5. ASSUME Writing(d)
        PROVE  /\ Bounded(d.body)
               /\ \A m \in Mails : d.body.inbox[m].phase = "acked" => m \in delivered'
               /\ \A m \in Mails \ delivered' : Rank(d.body, m) >= Rank(meta'[d.base], m)
    BY <2>3, <2>4, <2>5 DEF Fit, Confirmed, Keeps
  <2>. QED  BY <2>1, <2>3, <2>5 DEF EvictClient, Writing, Bounded, Confirmed, Keeps, Rank
<1>. QED  BY <1>2, <1>3 DEF EvictInv

LEMMA EvictInit == Init => EvictInv
<1>. SUFFICES ASSUME Init PROVE EvictInv
  OBVIOUS
<1>1. Current = 1 /\ \A v \in 1..Current : meta[v] = EmptyBody
  BY DEF Init, Current
<1>2. Bounded(EmptyBody) /\ Confirmed(EmptyBody)
  <2>1. EmptyBody.inbox \in [Mails -> Receipts] /\ \A m \in Mails : EmptyBody.inbox[m].phase = "none"
    BY BodyTypes DEF EmptyBody, NoReceipt
  <2>2. Present(EmptyBody.inbox) = {}
    BY <2>1, PresentFinite
  <2>3. Cardinality(Present(EmptyBody.inbox)) = 0
    BY <2>2, FS_EmptySet
  <2>. QED  BY <2>1, <2>3, ConstantsAssumption DEF Bounded, Confirmed
<1>3. \A p \in Procs : client[p] = Down
  BY DEF Init
<1>. QED  BY <1>1, <1>2, <1>3 DEF EvictInv, EvictHistory, EvictClient, Writing, Down

\* What is known of a process and of the metadata it holds.
LEMMA EvictFacts ==
  ASSUME TypeOK, EvictInv, NEW p \in Procs
  PROVE  /\ client[p] \in Clients /\ client[p].base \in 1..Current /\ client[p].local \in 1..Current
         /\ client[p].pc \in Handling => client[p].cur \in Mails
         /\ EvictClient(client[p])
         /\ Local(p) = meta[client[p].local]
         /\ Local(p) \in Bodies /\ Bounded(Local(p)) /\ Confirmed(Local(p))
BY Typed DEF EvictInv, EvictHistory, ClientTypeOK, Local

\* A step of one process that writes nothing and is not about to.
LEMMA EvictQuiet ==
  ASSUME TypeOK, TypeOK', EvictInv, NEW p \in Procs, NEW c, Become(p, c), meta' = meta,
         delivered \subseteq delivered', c \in Clients, c.base \in 1..Current,
         c.pc \in {"mark", "marking"} => c.batch \subseteq delivered',
         c.pc \in {"project", "projecting"} => c.receipt.phase = "projected",
         ~Writing(c)
  PROVE  EvictInv'
BY EvictStep DEF Become

LEMMA EvictSubmit ==
  ASSUME TypeOK, TypeOK', EvictInv, NEW p \in Procs, NEW body \in Bodies, Fit(Local(p), body),
         NEW waiting \in {"marking", "projecting", "finishing"}, Submit(p, body, waiting),
         waiting = "marking" => client[p].pc = "mark",
         waiting = "projecting" => client[p].pc = "project",
         meta' = meta, delivered' = delivered
  PROVE  EvictInv'
<1>. DEFINE d == [client[p] EXCEPT !.pc = waiting, !.base = client[p].local, !.body = body]
<1>0. client[p] \in Clients
  BY EvictFacts
<1>1. /\ d \in Clients /\ d.base = client[p].local /\ d.body = body /\ d.pc = waiting
      /\ d.base \in 1..Current
  <2>1. waiting \in Steps /\ client[p].local \in Nat /\ client[p].local \in 1..Current
    BY EvictFacts, Typed DEF Steps
  <2>. QED  BY <1>0, <2>1 DEF Clients
<1>2. client' = [client EXCEPT ![p] = d]
  BY DEF Submit, Become
<1>4. d.batch = client[p].batch /\ d.receipt = client[p].receipt
  BY <1>0 DEF Clients
<1>. HIDE DEF d
<1>3. Fit(meta[d.base], d.body)
  BY <1>1, EvictFacts
<1>5. /\ d.pc \in {"mark", "marking"} => d.batch \subseteq delivered'
      /\ d.pc \in {"project", "projecting"} => d.receipt.phase = "projected"
  BY <1>1, <1>4, EvictFacts DEF EvictClient
<1>. QED  BY <1>1, <1>2, <1>3, <1>5, EvictStep

\* The end of a write, on whatever the process goes on with.
LEMMA EvictWritten ==
  ASSUME TypeOK, TypeOK', EvictInv, NEW p \in Procs, NEW c \in Clients, NEW d \in Clients,
         NEW retry \in {"mark", "project", "finish"}, Writing(client[p]), delivered' = delivered,
         c.pc \notin {"mark", "project"}, ~Writing(c),
         d.pc \notin {"mark", "project"}, ~Writing(d),
         retry = "mark" => client[p].pc = "marking",
         retry = "project" => client[p].pc = "projecting",
         Accepted(p, c) \/ Conflict(p, retry) \/ Failed(p, d)
  PROVE  EvictInv'
<1>1. /\ client[p] \in Clients /\ client[p].body \in Bodies /\ Current \in Nat \ {0}
      /\ Bounded(client[p].body) /\ Confirmed(client[p].body) /\ EmptyBody \in Bodies
      /\ 1 \in 1..Current /\ Current + 1 \in Nat
  BY Typed, BodyTypes DEF EvictInv, EvictClient, Fit
<1>2. CASE Accepted(p, c)
  <2>. DEFINE e == [Settled(c) EXCEPT !.local = Current + 1]
  <2>1. e = [c EXCEPT !.base = 1, !.body = EmptyBody, !.local = Current + 1]
    BY DEF Settled, Clients
  <2>. HIDE DEF e
  <2>2. e \in Clients /\ e.pc = c.pc /\ e.base = 1
    BY <1>1, <2>1 DEF Clients
  <2>3. client' = [client EXCEPT ![p] = e] /\ meta' = Append(meta, client[p].body)
    BY <1>2 DEF Accepted, Become, e
  <2>. QED  BY <1>1, <2>2, <2>3, EvictStep DEF Writing
<1>3. CASE Conflict(p, retry)
  <2>. DEFINE v == IF Current > client[p].local THEN Current ELSE client[p].local
              e == [client[p] EXCEPT !.base = 1, !.body = EmptyBody, !.pc = retry, !.local = v]
  <2>1. client' = [client EXCEPT ![p] = e] /\ meta' = meta
    BY <1>1, <1>3 DEF Conflict, Settled, Clients, Become
  <2>2. v \in Nat
    BY <1>1 DEF Clients
  <2>3. /\ e \in Clients /\ e.pc = retry /\ e.batch = client[p].batch
        /\ e.receipt = client[p].receipt /\ e.base = 1
    <3>1. retry \in Steps
      BY DEF Steps
    <3>. QED  BY <1>1, <2>2, <3>1 DEF Clients
  <2>. HIDE DEF e
  <2>4. /\ e.pc \in {"mark", "marking"} => e.batch \subseteq delivered'
        /\ e.pc \in {"project", "projecting"} => e.receipt.phase = "projected"
    BY <2>3, EvictFacts DEF EvictClient
  <2>. QED  BY <1>1, <2>1, <2>3, <2>4, EvictStep DEF Writing
<1>4. CASE Failed(p, d)
  <2>. DEFINE e == [d EXCEPT !.base = 1, !.body = EmptyBody]
  <2>1. /\ client' = [client EXCEPT ![p] = e]
        /\ meta' = meta \/ meta' = Append(meta, client[p].body)
    BY <1>4 DEF Failed, Settled, Become
  <2>2. e \in Clients /\ e.pc = d.pc /\ e.base = 1
    BY <1>1 DEF Clients
  <2>. HIDE DEF e
  <2>. QED  BY <1>1, <2>1, <2>2, EvictStep DEF Writing
<1>. QED  BY <1>2, <1>3, <1>4

\* A process that goes on from here, submits nothing and keeps its base.
LEMMA EvictOn ==
  ASSUME TypeOK, TypeOK', EvictInv, NEW p \in Procs, NEW c \in Clients, Become(p, c),
         meta' = meta, delivered' = delivered,
         c.base \in {1, client[p].base},
         c.pc \notin {"mark", "marking", "project", "projecting", "finishing"}
  PROVE  EvictInv'
<1>1. c.base \in 1..Current
  BY Typed, EvictFacts
<1>. QED  BY <1>1, EvictQuiet DEF Writing

LEMMA EvictNextLetter ==
  ASSUME NEW c \in Clients
  PROVE  /\ NextLetter(c) \in Clients /\ NextLetter(c).base = c.base /\ NextLetter(c).pc = "next"
BY BodyTypes DEF NextLetter, Clients, Steps

LEMMA EvictSweepOver ==
  ASSUME NEW c \in Clients
  PROVE  /\ SweepOver(c) \in Clients /\ SweepOver(c).base = c.base
         /\ SweepOver(c).pc \in {"receive", "idle"}
BY DEF SweepOver, Clients, Steps

LEMMA EvictEnvironment ==
  ASSUME TypeOK, TypeOK', EvictInv, NEW p \in Procs, Environment(p)  PROVE EvictInv'
<1>1. /\ client[p] \in Clients /\ client[p].base \in 1..Current /\ EvictClient(client[p])
      /\ Current \in Nat \ {0}
  BY EvictFacts, Typed
<1>3. CASE Push(p)
  <2>1. PICK v \in (client[p].local + 1)..Current : Become(p, [client[p] EXCEPT !.local = v])
    BY <1>3 DEF Push
  <2>. DEFINE c == [client[p] EXCEPT !.local = v]
  <2>2. /\ c \in Clients /\ c.pc = client[p].pc /\ c.base = client[p].base /\ c.body = client[p].body
        /\ c.batch = client[p].batch /\ c.receipt = client[p].receipt
    <3>1. v \in Nat
      BY <1>1, <2>1 DEF Clients
    <3>. QED  BY <1>1, <3>1 DEF Clients
  <2>3. client' = [client EXCEPT ![p] = c] /\ meta' = meta /\ delivered' = delivered
    BY <1>3, <2>1 DEF Push, Become
  <2>. HIDE DEF c
  <2>. QED  BY <1>1, <2>2, <2>3, EvictStep DEF EvictClient, Writing, Fit
<1>4. CASE Start(p)
  <2>1. PICK v \in 1..Current : Become(p, [Down EXCEPT !.pc = "idle", !.local = v])
    BY <1>4 DEF Start
  <2>2. /\ [Down EXCEPT !.pc = "idle", !.local = v].base = 1
        /\ [Down EXCEPT !.pc = "idle", !.local = v].pc = "idle"
    BY DEF Down
  <2>3. [Down EXCEPT !.pc = "idle", !.local = v] \in Clients
    <3>1. v \in Nat
      BY <1>1
    <3>. QED  BY <3>1, BodyTypes DEF Down, Clients, Steps
  <2>. QED  BY <1>4, <2>1, <2>2, <2>3, EvictOn DEF Start
<1>5. CASE Crash(p) \/ Close(p)
  <2>1. Down \in Clients /\ Down.base = 1 /\ Down.pc = "down"
    BY BodyTypes DEF Down, Clients, Steps
  <2>. QED  BY <1>5, <2>1, EvictOn DEF Crash, Close
<1>6. CASE Stop(p)
  <2>. DEFINE c == [Down EXCEPT !.pc = "stopped", !.local = client[p].local, !.outbox = client[p].outbox]
  <2>1. client[p].local \in Nat /\ client[p].outbox \in [Mails -> Kinds \cup {"none"}]
    BY <1>1 DEF Clients
  <2>2. c \in Clients /\ c.base = 1 /\ c.pc = "stopped"
    BY <2>1, BodyTypes DEF Down, Clients, Steps
  <2>. QED  BY <1>6, <2>2, EvictOn DEF Stop
<1>. QED  BY <1>3, <1>4, <1>5, <1>6 DEF Environment

LEMMA EvictSweep ==
  ASSUME TypeOK, TypeOK', EvictInv, NEW p \in Procs,
         BeginTick(p) \/ SweepDone(p) \/ Ack(p) \/ Mark(p) \/ MarkWritten(p) \/ Receive(p) \/ ListDone(p)
  PROVE  EvictInv'
<1>1. /\ client[p] \in Clients /\ client[p].base \in 1..Current /\ EvictClient(client[p])
      /\ Local(p) \in Bodies /\ Bounded(Local(p)) /\ Confirmed(Local(p))
  BY EvictFacts
<1>2. CASE BeginTick(p) \/ ListDone(p)
  <2>1. InPhase(Local(p).inbox, "processed") \subseteq Mails
    BY <1>1 DEF InPhase, Bodies
  <2>2. ASSUME NEW after \in {"receive", "idle"}
        PROVE  /\ SweepFrom(p, after) \in Clients /\ SweepFrom(p, after).pc = "sweep"
               /\ SweepFrom(p, after).base = client[p].base
    BY <1>1, <2>1 DEF SweepFrom, Clients, Steps
  <2>. QED  BY <1>2, <2>2, EvictOn DEF BeginTick, ListDone
<1>3. CASE SweepDone(p)
  BY <1>1, <1>3, EvictSweepOver, EvictOn DEF SweepDone
<1>4. CASE Ack(p)
  <2>1. PICK b \in Batches(client[p].ids) :
          \/ /\ delivered' = delivered \cup b
             /\ Become(p, [client[p] EXCEPT !.pc = "mark", !.batch = b, !.ids = @ \ b])
          \/ /\ delivered' \in {delivered, delivered \cup b}
             /\ Become(p, SweepOver(client[p]))
    BY <1>4 DEF Ack
  <2>2. b \subseteq Mails /\ delivered \subseteq delivered' /\ meta' = meta
    BY <1>1, <1>4, <2>1 DEF Ack, Batches, Clients
  <2>3. CASE /\ delivered' = delivered \cup b
             /\ Become(p, [client[p] EXCEPT !.pc = "mark", !.batch = b, !.ids = @ \ b])
    <3>. DEFINE c == [client[p] EXCEPT !.pc = "mark", !.batch = b, !.ids = @ \ b]
    <3>1. c \in Clients /\ c.pc = "mark" /\ c.batch = b /\ c.base = client[p].base
      BY <1>1, <2>2 DEF Clients, Steps
    <3>2. c.batch \subseteq delivered' /\ ~Writing(c)
      BY <2>3, <3>1 DEF Writing
    <3>. HIDE DEF c
    <3>3. Become(p, c)
      BY <2>3 DEF c
    <3>. QED  BY <1>1, <2>2, <3>1, <3>2, <3>3, EvictQuiet
  <2>4. CASE Become(p, SweepOver(client[p]))
    <3>1. /\ SweepOver(client[p]) \in Clients /\ SweepOver(client[p]).base = client[p].base
          /\ SweepOver(client[p]).pc \in {"receive", "idle"}
      BY <1>1, EvictSweepOver
    <3>2. ~Writing(SweepOver(client[p]))
      BY <3>1 DEF Writing
    <3>. QED  BY <1>1, <2>2, <2>4, <3>1, <3>2, EvictQuiet
  <2>. QED  BY <2>1, <2>3, <2>4
<1>5. CASE Mark(p)
  <2>1. PICK inbox \in Marked(Local(p).inbox, client[p].batch) :
          Submit(p, [Local(p) EXCEPT !.inbox = inbox], "marking")
    BY <1>5 DEF Mark
  <2>2. client[p].pc = "mark" /\ client[p].batch \subseteq delivered
    BY <1>1, <1>5 DEF Mark, At, EvictClient
  <2>3. Local(p).inbox \in [Mails -> Receipts]
    BY <1>1 DEF Bodies
  <2>4. [Local(p) EXCEPT !.inbox = inbox] \in Bodies
    BY <1>1, <2>1, <2>3, MarkedType DEF Bodies
  <2>5. Fit(Local(p), [Local(p) EXCEPT !.inbox = inbox])
    BY <1>1, <2>1, <2>2, FitMark
  <2>. QED  BY <1>5, <2>1, <2>2, <2>4, <2>5, EvictSubmit DEF Mark
<1>6. CASE MarkWritten(p)
  <2>. DEFINE c == [client[p] EXCEPT !.pc = "sweep", !.batch = {}]
              d == SweepOver([client[p] EXCEPT !.after = "idle"])
  <2>1. c \in Clients /\ c.pc = "sweep" /\ ~Writing(c)
    BY <1>1 DEF Clients, Steps, Writing
  <2>2. d \in Clients /\ d.pc = "idle" /\ ~Writing(d)
    BY <1>1 DEF SweepOver, Clients, Steps, Writing
  <2>3. /\ client[p].pc = "marking" /\ Writing(client[p]) /\ delivered' = delivered
        /\ Accepted(p, c) \/ Conflict(p, "mark") \/ Failed(p, d)
    BY <1>6 DEF MarkWritten, At, Writing
  <2>. HIDE DEF c, d
  <2>. QED  BY <2>1, <2>2, <2>3, EvictWritten
<1>7. CASE Receive(p)
  <2>1. Oldest(1..sent \ delivered) \subseteq Mails
    BY ConstantsAssumption DEF Oldest, TypeOK, CentreTypeOK, Mails
  <2>. DEFINE c == [client[p] EXCEPT !.pc = "next", !.fetched = Oldest(1..sent \ delivered)]
              d == [client[p] EXCEPT !.pc = "next"]
  <2>2. c \in Clients /\ c.pc = "next" /\ c.base = client[p].base
    BY <1>1, <2>1 DEF Clients, Steps
  <2>3. d \in Clients /\ d.pc = "next" /\ d.base = client[p].base
    BY <1>1 DEF Clients, Steps
  <2>4. (Become(p, c) \/ Become(p, d)) /\ meta' = meta /\ delivered' = delivered
    BY <1>7 DEF Receive
  <2>. HIDE DEF c, d
  <2>. QED  BY <2>2, <2>3, <2>4, EvictOn
<1>. QED  BY <1>2, <1>3, <1>4, <1>5, <1>6, <1>7

LEMMA EvictLetter ==
  ASSUME TypeOK, TypeOK', EvictInv, NEW p \in Procs,
         \/ Take(p) \/ Validate(p) \/ Project(p) \/ ProjectWritten(p) \/ Store(p) \/ Stored(p)
         \/ Flush(p) \/ Report(p) \/ Finish(p) \/ FinishWritten(p)
  PROVE  EvictInv'
<1>. DEFINE d == NextLetter(client[p])
<1>1. /\ client[p] \in Clients /\ client[p].base \in 1..Current /\ EvictClient(client[p])
      /\ Local(p) \in Bodies /\ Bounded(Local(p)) /\ Confirmed(Local(p))
      /\ client[p].pc \in Handling => client[p].cur \in Mails
  BY EvictFacts
<1>2. d \in Clients /\ d.base = client[p].base /\ d.pc = "next"
  BY <1>1, EvictNextLetter
<1>. HIDE DEF d
<1>3. ~Writing(d) /\ (Become(p, d) /\ meta' = meta /\ delivered' = delivered => EvictInv')
  BY <1>2, EvictOn DEF Writing
<1>4. CASE Take(p)
  <2>1. PICK m \in client[p].fetched :
          LET c == [client[p] EXCEPT !.fetched = @ \ {m}, !.cur = m]
              r == Local(p).inbox[m]
          IN  Become(p, CASE r.phase = "none"      -> [c EXCEPT !.pc = "validate"]
                          [] r.phase = "projected" -> [c EXCEPT !.pc = "store", !.receipt = r]
                          [] OTHER                 -> NextLetter(c))
    BY <1>4 DEF Take
  <2>. DEFINE c == [client[p] EXCEPT !.fetched = @ \ {m}, !.cur = m]
              r == Local(p).inbox[m]
  <2>2. m \in Mails /\ m \in Nat /\ r \in Receipts
    BY <1>1, ConstantsAssumption DEF Clients, Mails, Bodies
  <2>3. c \in Clients /\ c.base = client[p].base
    BY <1>1, <2>2 DEF Clients
  <2>. HIDE DEF c
  <2>4. [c EXCEPT !.pc = "validate"] \in Clients /\ [c EXCEPT !.pc = "validate"].pc = "validate"
        /\ [c EXCEPT !.pc = "validate"].base = client[p].base
    BY <2>3 DEF Clients, Steps
  <2>5. /\ [c EXCEPT !.pc = "store", !.receipt = r] \in Clients
        /\ [c EXCEPT !.pc = "store", !.receipt = r].pc = "store"
        /\ [c EXCEPT !.pc = "store", !.receipt = r].base = client[p].base
    BY <2>2, <2>3 DEF Clients, Steps
  <2>6. NextLetter(c) \in Clients /\ NextLetter(c).base = client[p].base /\ NextLetter(c).pc = "next"
    BY <2>3, EvictNextLetter
  <2>7. \/ Become(p, [c EXCEPT !.pc = "validate"])
        \/ Become(p, [c EXCEPT !.pc = "store", !.receipt = r])
        \/ Become(p, NextLetter(c))
    <3>1. CASE r.phase = "none"
      BY <2>1, <3>1 DEF c
    <3>2. CASE r.phase = "projected"
      BY <2>1, <3>2 DEF c
    <3>3. CASE r.phase # "none" /\ r.phase # "projected"
      BY <2>1, <3>3 DEF c
    <3>. QED  BY <3>1, <3>2, <3>3
  <2>8. meta' = meta /\ delivered' = delivered
    BY <1>4 DEF Take
  <2>9. CASE Become(p, [c EXCEPT !.pc = "validate"])
    BY <2>4, <2>8, <2>9, EvictOn
  <2>10. CASE Become(p, [c EXCEPT !.pc = "store", !.receipt = r])
    BY <2>5, <2>8, <2>10, EvictOn
  <2>11. CASE Become(p, NextLetter(c))
    BY <2>6, <2>8, <2>11, EvictOn
  <2>. QED  BY <2>7, <2>9, <2>10, <2>11
<1>5. CASE Validate(p)
  <2>1. ASSUME NEW plan \in PlansAt(Current),
               Become(p, [client[p] EXCEPT !.pc = "project", !.receipt = plan])
        PROVE  EvictInv'
    <3>. DEFINE c == [client[p] EXCEPT !.pc = "project", !.receipt = plan]
    <3>1. plan \in Receipts /\ plan.phase = "projected"
      BY Typed DEF PlansAt, Receipts, Phases
    <3>2. c \in Clients /\ c.pc = "project" /\ c.receipt = plan /\ c.base = client[p].base
      BY <1>1, <3>1 DEF Clients, Steps
    <3>. HIDE DEF c
    <3>3. Become(p, c) /\ meta' = meta /\ delivered' = delivered /\ ~Writing(c)
      BY <1>5, <2>1, <3>2 DEF c, Validate, Writing
    <3>. QED  BY <1>1, <3>1, <3>2, <3>3, EvictQuiet
  <2>. QED  BY <1>3, <1>5, <2>1 DEF Validate, d
<1>6. CASE Project(p)
  <2>1. /\ client[p].pc = "project" /\ client[p].receipt.phase = "projected"
        /\ client[p].cur \in Mails /\ client[p].receipt \in Receipts
    BY <1>1, <1>6 DEF Project, At, EvictClient, Handling, Clients
  <2>2. meta' = meta /\ delivered' = delivered
    BY <1>6 DEF Project
  <2>3. ASSUME NEW body \in Projections(Local(p), client[p].cur, client[p].receipt),
               Submit(p, body, "projecting")
        PROVE  EvictInv'
    <3>1. body \in Bodies /\ Fit(Local(p), body)
      BY <1>1, <2>1, ProjectionsType, FitProject
    <3>. QED  BY <2>1, <2>2, <2>3, <3>1, EvictSubmit
  <2>. QED  BY <1>3, <1>6, <2>2, <2>3 DEF Project, d
<1>7. CASE ProjectWritten(p)
  <2>. DEFINE r == client[p].body.inbox[client[p].cur]
              e == [client[p] EXCEPT !.pc = "store", !.receipt = r]
              c == IF r.phase = "projected" THEN e ELSE d
  <2>1. /\ client[p].pc = "projecting" /\ Writing(client[p]) /\ delivered' = delivered
        /\ Accepted(p, c) \/ Conflict(p, "project") \/ Failed(p, d)
    BY <1>7 DEF ProjectWritten, At, Writing, d
  <2>2. r \in Receipts
    BY <1>1, <2>1 DEF Handling, Clients, Bodies
  <2>3. e \in Clients /\ e.pc = "store"
    BY <1>1, <2>2 DEF Clients, Steps
  <2>4. c \in Clients /\ c.pc \in {"store", "next"} /\ ~Writing(c)
    BY <1>2, <2>3 DEF Writing
  <2>. HIDE DEF c
  <2>. QED  BY <1>2, <1>3, <2>1, <2>4, EvictWritten
<1>8. CASE Store(p)
  <2>1. client[p].cur \in Mails /\ client[p].outbox \in [Mails -> Kinds \cup {"none"}]
        /\ client[p].receipt.kind \in Kinds
    BY <1>1, <1>8 DEF Store, At, Handling, Clients, Receipts
  <2>. DEFINE box == [client[p].outbox EXCEPT ![client[p].cur] =
                        IF @ = "none" THEN client[p].receipt.kind ELSE @]
              c == [client[p] EXCEPT !.pc = "storing", !.outbox = box]
  <2>2. box \in [Mails -> Kinds \cup {"none"}]
    BY <2>1
  <2>3. c \in Clients /\ c.pc = "storing" /\ c.base = client[p].base
    BY <1>1, <2>2 DEF Clients, Steps
  <2>4. Become(p, c) /\ meta' = meta /\ delivered' = delivered
    BY <1>1, <1>8 DEF Store, Clients
  <2>. HIDE DEF c
  <2>. QED  BY <2>3, <2>4, EvictOn
<1>9. CASE Stored(p)
  <2>. DEFINE c == [client[p] EXCEPT !.pc = IF client[p].receipt.kind = "rejection" THEN "report" ELSE "finish"]
  <2>1. c \in Clients /\ c.pc \in {"report", "finish"} /\ c.base = client[p].base
    BY <1>1 DEF Clients, Steps
  <2>2. (Become(p, c) \/ Become(p, d)) /\ meta' = meta /\ delivered' = delivered
    BY <1>9 DEF Stored, d
  <2>. HIDE DEF c
  <2>. QED  BY <1>3, <2>1, <2>2, EvictOn
<1>10. CASE Flush(p)
  <2>. DEFINE c == [client[p] EXCEPT !.outbox = EmptyOutbox]
  <2>1. /\ c \in Clients /\ c.pc = client[p].pc /\ c.base = client[p].base /\ c.body = client[p].body
        /\ c.batch = client[p].batch /\ c.receipt = client[p].receipt
    BY <1>1, BodyTypes DEF Clients
  <2>2. PICK e : e \in {c, client[p]} /\ client' = [client EXCEPT ![p] = e]
    <3>1. client = [client EXCEPT ![p] = client[p]]
      BY DEF TypeOK
    <3>. QED  BY <1>10, <3>1 DEF Flush, Become
  <2>3. meta' = meta /\ delivered' = delivered
    BY <1>10 DEF Flush
  <2>. HIDE DEF c
  <2>4. /\ e \in Clients /\ e.pc = client[p].pc /\ e.base = client[p].base /\ e.body = client[p].body
        /\ e.batch = client[p].batch /\ e.receipt = client[p].receipt
    BY <1>1, <2>1, <2>2
  <2>. QED  BY <1>1, <2>2, <2>3, <2>4, EvictStep DEF EvictClient, Writing, Fit
<1>11. CASE Report(p)
  <2>. DEFINE c == [client[p] EXCEPT !.pc = "finish"]
  <2>1. c \in Clients /\ c.pc = "finish" /\ c.base = client[p].base
    BY <1>1 DEF Clients, Steps
  <2>2. (Become(p, c) \/ Become(p, d)) /\ meta' = meta /\ delivered' = delivered
    BY <1>11 DEF Report, d
  <2>. HIDE DEF c
  <2>. QED  BY <1>3, <2>1, <2>2, EvictOn
<1>12. CASE Finish(p)
  <2>. DEFINE m == client[p].cur
              b == Local(p)
  <2>1. m \in Mails /\ meta' = meta /\ delivered' = delivered
    BY <1>1, <1>12 DEF Finish, At, Handling
  <2>2. CASE b.inbox[m].phase = "none"
    BY <1>3, <1>12, <2>2 DEF Finish, d
  <2>3. CASE b.inbox[m].phase = "projected"
    <3>1. Submit(p, [b EXCEPT !.inbox[m].phase = "processed"], "finishing")
      BY <1>12, <2>3 DEF Finish
    <3>2. Fit(b, [b EXCEPT !.inbox[m].phase = "processed"])
      BY <1>1, <2>1, <2>3, FitFinish
    <3>3. [b EXCEPT !.inbox[m].phase = "processed"] \in Bodies
      <4>1. b.inbox \in [Mails -> Receipts] /\ b.inbox[m] \in Receipts
        BY <1>1, <2>1 DEF Bodies
      <4>. QED  BY <1>1, <2>1, <4>1 DEF Bodies, Receipts, Phases
    <3>. QED  BY <2>1, <3>1, <3>2, <3>3, EvictSubmit
  <2>4. CASE b.inbox[m].phase # "none" /\ b.inbox[m].phase # "projected"
    <3>1. Submit(p, b, "finishing")
      BY <1>12, <2>4 DEF Finish
    <3>. QED  BY <1>1, <2>1, <3>1, FitSame, EvictSubmit
  <2>. QED  BY <2>2, <2>3, <2>4
<1>13. CASE FinishWritten(p)
  <2>1. /\ client[p].pc = "finishing" /\ Writing(client[p]) /\ delivered' = delivered
        /\ Accepted(p, d) \/ Conflict(p, "finish") \/ Failed(p, d)
    BY <1>13 DEF FinishWritten, At, Writing, d
  <2>. QED  BY <1>2, <1>3, <2>1, EvictWritten
<1>. QED  BY <1>4, <1>5, <1>6, <1>7, <1>8, <1>9, <1>10, <1>11, <1>12, <1>13

-----------------------------------------------------------------------------
(* The theorems.                                                             *)

LEMMA EvictCentre ==
  ASSUME TypeOK, TypeOK', EvictInv, Send \/ ForeignWrite  PROVE EvictInv'
<1>1. /\ meta \in Seq(Bodies) /\ Latest \in Bodies /\ Current \in Nat \ {0}
      /\ Bounded(Latest) /\ Confirmed(Latest)
  BY Typed DEF TypeOK, CentreTypeOK, EvictInv, EvictHistory, Latest
<1>2. client' = client /\ delivered' = delivered /\ (meta' = meta \/ meta' = Append(meta, Latest))
  BY DEF Send, ForeignWrite
<1>3. /\ \A v \in 1..Current : meta'[v] = meta[v]
      /\ \A v \in 1..Current' : v \in 1..Current \/ meta'[v] = Latest
  <2>1. CASE meta' = meta
    BY <2>1 DEF Current
  <2>2. CASE meta' = Append(meta, Latest)
    <3>1. Current' = Current + 1 /\ meta'[Current + 1] = Latest /\ \A v \in 1..Current : meta'[v] = meta[v]
      BY <1>1, <2>2 DEF Current
    <3>2. ASSUME NEW v \in 1..Current', v \notin 1..Current PROVE meta'[v] = Latest
      <4>1. v = Current + 1
        BY <1>1, <3>1, <3>2
      <4>. QED  BY <3>1, <4>1
    <3>. QED  BY <3>1, <3>2
  <2>. QED  BY <1>2, <2>1, <2>2
<1>4. \A v \in 1..Current' : Bounded(meta'[v]) /\ Confirmed(meta'[v])
  BY <1>1, <1>3 DEF EvictInv, EvictHistory
<1>5. ASSUME NEW q \in Procs PROVE EvictClient(client[q])'
  <2>1. meta'[client[q].base] = meta[client[q].base]
    BY <1>3, Typed DEF ClientTypeOK
  <2>. QED  BY <1>2, <2>1 DEF EvictInv, EvictClient, Writing, Bounded, Confirmed, Keeps, Rank
<1>. QED  BY <1>2, <1>4, <1>5 DEF EvictInv, EvictHistory, Bounded, Confirmed

LEMMA EvictNext ==
  ASSUME TypeOK, TypeOK', EvictInv, [Next]_vars  PROVE EvictInv'
<1>1. CASE Send \/ ForeignWrite
  BY <1>1, EvictCentre
<1>2. ASSUME NEW p \in Procs, Loop(p) \/ Flush(p) \/ Environment(p) PROVE EvictInv'
  BY <1>2, EvictSweep, EvictLetter, EvictEnvironment DEF Loop
<1>3. CASE UNCHANGED vars
  BY <1>3 DEF vars, EvictInv, EvictHistory, EvictClient, Writing, Bounded, Confirmed, Keeps, Rank,
     Current
<1>. QED  BY <1>1, <1>2, <1>3 DEF Next

\* However many letters there are: every version of the metadata, and every
\* write in flight, is within the limit, calls acked only letters the centre has
\* confirmed, and drops no receipt but those.
THEOREM EvictCorrect == Spec => []EvictInv
<1>1. TypeOK /\ TypeOK' /\ EvictInv /\ [Next]_vars => EvictInv'
  BY EvictNext
<1>. QED  BY <1>1, EvictInit, TypeCorrect, PTL DEF Spec

\* No version of the metadata holds more receipts than the inbox limit.
THEOREM InboxIsBounded == Spec => []InboxBounded
<1>1. EvictInv => InboxBounded
  BY DEF EvictInv, EvictHistory, Bounded, InboxBounded
<1>. QED  BY <1>1, EvictCorrect, PTL

\* As long as the centre hands a letter out, no metadata write drops its receipt
\* or takes it a phase back, whoever writes and however full the inbox is.
THEOREM PendingIsKept == Spec => PendingKept
<1>. DEFINE Kept == \A m \in Mails \ delivered :
                      PhaseRank[Latest'.inbox[m].phase] >= PhaseRank[Latest.inbox[m].phase]
<1>1. TypeOK /\ EvictInv /\ [Next]_vars => [Kept]_vars
  <2>. SUFFICES ASSUME TypeOK, EvictInv, Next PROVE Kept
    BY DEF vars
  <2>1. meta \in Seq(Bodies) /\ Latest \in Bodies
    BY Typed DEF TypeOK, CentreTypeOK
  <2>2. CASE Latest' = Latest
    <3>1. \A m \in Mails : PhaseRank[Latest.inbox[m].phase] \in 0..3
      BY <2>1, Ranks DEF Rank
    <3>. QED  BY <2>2, <3>1
  <2>3. CASE Send \/ ForeignWrite
    <3>1. Latest' = Latest
      BY <2>1, <2>3 DEF Send, ForeignWrite, Latest, Current
    <3>. QED  BY <2>2, <3>1
  <2>4. ASSUME NEW p \in Procs, MarkWritten(p) \/ ProjectWritten(p) \/ FinishWritten(p) PROVE Kept
    <3>1. Writing(client[p])
      BY <2>4 DEF MarkWritten, ProjectWritten, FinishWritten, At, Writing
    <3>2. \/ meta' = meta
          \/ client[p].base = Current /\ meta' = Append(meta, client[p].body)
      BY <2>4 DEF MarkWritten, ProjectWritten, FinishWritten, Accepted, Conflict, Failed
    <3>3. CASE meta' = meta
      BY <2>2, <3>3 DEF Latest, Current
    <3>4. CASE client[p].base = Current /\ meta' = Append(meta, client[p].body)
      <4>1. client[p].body \in Bodies
        BY Typed
      <4>2. Latest' = client[p].body
        BY <2>1, <3>4, <4>1 DEF Latest, Current
      <4>3. Keeps(Latest, client[p].body)
        BY <3>1, <3>4 DEF EvictInv, EvictClient, Latest
      <4>. QED  BY <4>2, <4>3 DEF Keeps, Rank
    <3>. QED  BY <3>2, <3>3, <3>4
  <2>5. ASSUME NEW p \in Procs,
               \/ BeginTick(p) \/ SweepDone(p) \/ Ack(p) \/ Mark(p) \/ Receive(p) \/ ListDone(p)
               \/ Take(p) \/ Validate(p) \/ Project(p) \/ Store(p) \/ Stored(p) \/ Report(p)
               \/ Finish(p) \/ Flush(p) \/ Environment(p)
        PROVE  Kept
    <3>1. meta' = meta
      BY <2>5 DEF BeginTick, SweepDone, Ack, Mark, Receive, ListDone, Take, Validate, Project,
         Store, Stored, Report, Finish, Flush, Environment, Push, Start, Crash, Stop, Close
    <3>. QED  BY <2>2, <3>1 DEF Latest, Current
  <2>. HIDE DEF Kept
  <2>. QED  BY <2>3, <2>4, <2>5 DEF Next, Loop
<1>. QED  BY <1>1, EvictCorrect, TypeCorrect, PTL DEF Spec, PendingKept

-----------------------------------------------------------------------------
(* Applied once and decided once, until the receipt is evicted.             *)

LEMMA MetaGrows ==
  ASSUME TypeOK, NEW b \in Bodies, meta' = Append(meta, b)
  PROVE  /\ Current \in Nat \ {0} /\ Current' = Current + 1 /\ Latest' = b
         /\ \A v \in 1..Current : meta'[v] = meta[v]
         /\ \A v \in 1..Current' : v \in 1..Current \/ meta'[v] = b
<1>1. meta \in Seq(Bodies) /\ Current \in Nat \ {0}
  BY Typed DEF TypeOK, CentreTypeOK
<1>2. Current' = Current + 1 /\ meta'[Current + 1] = b /\ \A v \in 1..Current : meta'[v] = meta[v]
  BY <1>1 DEF Current
<1>3. \A v \in 1..Current' : v \in 1..Current \/ v = Current + 1
  BY <1>1, <1>2
<1>. QED  BY <1>1, <1>2, <1>3 DEF Latest

LEMMA KeepsOn ==
  ASSUME NEW a, NEW b, NEW c, NEW m, KeepsDecision(a, b, m), KeepsDecision(b, c, m)
  PROVE  KeepsDecision(a, c, m)
BY DEF KeepsDecision, Decided

\* An evicted receipt stays evicted; any other keeps what it decides.
LEMMA LetterMeta ==
  ASSUME TypeOK, TypeOK', NEW m \in Mails, ~Evicted(m)', ~Evicted(m) => LetterHistory(m),
         \/ meta' = meta
         \/ \E b \in Bodies :
              /\ meta' = Append(meta, b)
              /\ ~Evicted(m) => Drops(Latest, b, m) \/ KeepsDecision(Latest, b, m)
  PROVE  /\ ~Evicted(m) /\ LetterHistory(m)' /\ KeepsDecision(Latest, Latest', m)
         /\ \A v \in 1..Current : meta'[v] = meta[v]
<1>1. Current \in Nat \ {0}
  BY Typed
<1>2. CASE meta' = meta
  <2>1. Current' = Current /\ Latest' = Latest
    BY <1>2 DEF Current, Latest
  <2>2. ~Evicted(m)
    BY <1>2, <2>1 DEF Evicted
  <2>3. LetterHistory(m)'
    BY <1>2, <2>1, <2>2 DEF LetterHistory
  <2>4. KeepsDecision(Latest, Latest, m)
    BY <1>1, <2>2 DEF LetterHistory, Latest
  <2>. QED  BY <1>2, <2>1, <2>2, <2>3, <2>4
<1>3. ASSUME NEW b \in Bodies, meta' = Append(meta, b),
             ~Evicted(m) => Drops(Latest, b, m) \/ KeepsDecision(Latest, b, m)
      PROVE  /\ ~Evicted(m) /\ LetterHistory(m)' /\ KeepsDecision(Latest, Latest', m)
             /\ \A v \in 1..Current : meta'[v] = meta[v]
  <2>1. /\ Current' = Current + 1 /\ Latest' = b
        /\ \A v \in 1..Current : meta'[v] = meta[v]
        /\ \A v \in 1..Current' : v \in 1..Current \/ meta'[v] = b
    BY <1>3, MetaGrows
  <2>2. meta'[Current] = Latest /\ meta'[Current + 1] = b
    BY <1>1, <2>1 DEF Latest
  <2>3. ~Evicted(m)
    <3>1. 1..Current \subseteq 1..Current'
      BY <1>1, <2>1
    <3>. QED  BY <2>1, <3>1 DEF Evicted
  <2>4. ~Drops(Latest, b, m)
    <3>1. Current \in 1..Current' /\ Current + 1 \in 1..Current' /\ Current < Current + 1
      BY <1>1, <2>1
    <3>2. ~(meta'[Current].inbox[m].phase # "none" /\ meta'[Current + 1].inbox[m].phase = "none")
      BY <3>1 DEF Evicted
    <3>. QED  BY <2>2, <3>2 DEF Drops, Known
  <2>5. KeepsDecision(Latest, b, m)
    BY <1>3, <2>3, <2>4
  <2>6. KeepsDecision(b, b, m)
    BY <2>5 DEF KeepsDecision, Decided
  <2>7. ASSUME NEW v \in 1..Current'
        PROVE  KeepsDecision(meta'[v], b, m) /\ AppliedIn(meta'[v], m)
    <3>1. CASE v \in 1..Current
      <4>1. KeepsDecision(meta[v], Latest, m) /\ AppliedIn(meta[v], m) /\ meta'[v] = meta[v]
        BY <2>1, <2>3, <3>1 DEF LetterHistory
      <4>. QED  BY <2>5, <4>1, KeepsOn
    <3>2. CASE meta'[v] = b
      BY <2>6, <3>2 DEF KeepsDecision
    <3>. QED  BY <2>1, <3>1, <3>2
  <2>8. LetterHistory(m)'
    BY <2>1, <2>7 DEF LetterHistory
  <2>. QED  BY <2>1, <2>3, <2>5, <2>8
<1>. QED  BY <1>2, <1>3

LEMMA DecidedOn ==
  ASSUME NEW b, NEW c, NEW m, NEW kind, KeepsDecision(b, c, m), Decided(b, m, kind)
  PROVE  Decided(c, m, kind)
BY DEF KeepsDecision, Decided

\* What a step has to show: the write that lands may be any that drops the
\* receipt or keeps what it decides; a process that moves, and an effect that is
\* new, follow the newest decision.
LEMMA LetterStep ==
  ASSUME TypeOK, TypeOK', LetterInv,
         \/ meta' = meta
         \/ \E b \in Bodies :
              /\ meta' = Append(meta, b)
              /\ \A m \in Mails : ~Evicted(m) /\ Letter(m) => Drops(Latest, b, m) \/ KeepsDecision(Latest, b, m),
         \A q \in Procs : client'[q] # client[q] =>
            /\ client'[q].base \in 1..Current /\ Follows(client'[q])
            /\ \A m \in Mails : ~Evicted(m) /\ Letter(m) /\ KeepsDecision(Latest, Latest', m)
                                  => LetterClient(client'[q], Latest', m),
         \A m \in Mails : ~Evicted(m) /\ Letter(m) /\ KeepsDecision(Latest, Latest', m) =>
            /\ log'[m] # log[m] => Decided(Latest', m, log'[m])
            /\ reports'[m] # reports[m] => Decided(Latest', m, "rejection")
  PROVE  LetterInv'
<1>1. ASSUME NEW q \in Procs PROVE Follows(client[q])'
  <2>1. Follows(client'[q])
    BY DEF LetterInv
  <2>. QED  BY <2>1 DEF Follows, Known
<1>2. ASSUME NEW m \in Mails, ~Evicted(m)' PROVE Letter(m)'
  <2>1. ~Evicted(m) => Letter(m)
    BY DEF LetterInv
  <2>2. /\ ~Evicted(m) /\ LetterHistory(m)' /\ KeepsDecision(Latest, Latest', m)
        /\ \A v \in 1..Current : meta'[v] = meta[v]
    BY <1>2, <2>1, LetterMeta DEF Letter
  <2>3. Letter(m)
    BY <2>1, <2>2
  <2>4. LetterEffects(m)'
    <3>1. ASSUME log'[m] # "none" PROVE Decided(Latest', m, log'[m])
      BY <2>2, <2>3, <3>1, DecidedOn DEF Letter, LetterEffects
    <3>2. ASSUME reports'[m] > 0 PROVE Decided(Latest', m, "rejection")
      BY <2>2, <2>3, <3>2, DecidedOn DEF Letter, LetterEffects
    <3>. QED  BY <3>1, <3>2 DEF LetterEffects, Decided, Known
  <2>5. ASSUME NEW q \in Procs PROVE LetterClient(client[q], Latest, m)'
    <3>1. PICK d : d = client'[q]
      OBVIOUS
    <3>2. d.base \in 1..Current
      BY <3>1, Typed DEF ClientTypeOK
    <3>3. LetterClient(d, Latest', m)
      <4>1. CASE d = client[q]
        <5>1. LetterClient(d, Latest, m)
          BY <2>3, <4>1 DEF Letter
        <5>. QED  BY <2>2, <5>1, DecidedOn DEF LetterClient
      <4>2. CASE d # client[q]
        BY <2>2, <2>3, <3>1, <4>2
      <4>. QED  BY <4>1, <4>2
    <3>4. meta'[d.base] = meta[d.base]
      BY <2>2, <3>2
    <3>5. /\ Writing(d) => Drops(meta'[d.base], d.body, m) \/ KeepsDecision(meta'[d.base], d.body, m)
          /\ Executing(d) /\ d.cur = m => Decided(Latest', m, d.receipt.kind)
          /\ d.outbox[m] # "none" => Decided(Latest', m, d.outbox[m])
      BY <3>3, <3>4 DEF LetterClient
    <3>. QED  BY <3>1, <3>5 DEF LetterClient, Writing, Executing, Decided, Known, Drops, KeepsDecision,
              AppliedIn
  <2>. QED  BY <2>2, <2>4, <2>5 DEF Letter
<1>. QED  BY <1>1, <1>2 DEF LetterInv

\* What the write of a process does to the metadata, if it lands.
Lands(p) ==
  \/ meta' = meta
  \/ Writing(client[p]) /\ client[p].base = Current /\ meta' = Append(meta, client[p].body)

\* The step of one process.
LEMMA LetterMoves ==
  ASSUME TypeOK, TypeOK', LetterInv, NEW p \in Procs, NEW c \in Clients, Become(p, c), Lands(p),
         c.base \in 1..Current, Follows(c),
         \A m \in Mails : ~Evicted(m) /\ Letter(m) /\ KeepsDecision(Latest, Latest', m) =>
            /\ LetterClient(c, Latest', m)
            /\ log'[m] # log[m] => Decided(Latest', m, log'[m])
            /\ reports'[m] # reports[m] => Decided(Latest', m, "rejection")
  PROVE  LetterInv'
<1>1. \A q \in Procs : client'[q] # client[q] => client'[q] = c
  BY DEF Become, TypeOK
<1>2. \/ meta' = meta
      \/ \E b \in Bodies :
           /\ meta' = Append(meta, b)
           /\ \A m \in Mails : ~Evicted(m) /\ Letter(m) => Drops(Latest, b, m) \/ KeepsDecision(Latest, b, m)
  <2>1. CASE Writing(client[p]) /\ client[p].base = Current /\ meta' = Append(meta, client[p].body)
    <3>1. client[p].body \in Bodies
      BY Typed
    <3>2. ASSUME NEW m \in Mails, Letter(m)
          PROVE  Drops(Latest, client[p].body, m) \/ KeepsDecision(Latest, client[p].body, m)
      BY <2>1, <3>2 DEF Letter, LetterClient, Latest
    <3>. QED  BY <2>1, <3>1, <3>2
  <2>. QED  BY <2>1 DEF Lands
<1>. QED  BY <1>1, <1>2, LetterStep

\* A process that goes on, and takes nothing up that it was not carrying out.
LEMMA LetterOn ==
  ASSUME TypeOK, TypeOK', LetterInv, NEW p \in Procs, NEW c \in Clients, Become(p, c), Lands(p),
         c.base \in {1, client[p].base}, ~Writing(c),
         Executing(c) => /\ Executing(client[p]) /\ c.cur = client[p].cur
                         /\ c.receipt = client[p].receipt,
         c.pc = "report" => c.receipt.kind = "rejection",
         c.outbox \in {client[p].outbox, EmptyOutbox},
         log' = log,
         \A m \in Mails : reports'[m] # reports[m] => client[p].pc = "report" /\ m = client[p].cur
  PROVE  LetterInv'
<1>1. c.base \in 1..Current
  BY Typed DEF ClientTypeOK
<1>2. Follows(c)
  BY DEF Follows, Writing
<1>3. ASSUME NEW m \in Mails, Letter(m), KeepsDecision(Latest, Latest', m)
      PROVE  /\ LetterClient(c, Latest', m)
             /\ reports'[m] # reports[m] => Decided(Latest', m, "rejection")
  <2>1. /\ Executing(client[p]) /\ client[p].cur = m => Decided(Latest, m, client[p].receipt.kind)
        /\ client[p].outbox[m] # "none" => Decided(Latest, m, client[p].outbox[m])
    BY <1>3 DEF Letter, LetterClient
  <2>2. Executing(c) /\ c.cur = m => Decided(Latest', m, c.receipt.kind)
    BY <1>3, <2>1, DecidedOn
  <2>3. c.outbox[m] # "none" => Decided(Latest', m, c.outbox[m])
    BY <1>3, <2>1, DecidedOn DEF EmptyOutbox
  <2>4. reports'[m] # reports[m] => Decided(Latest', m, "rejection")
    <3>1. client[p].pc = "report" => client[p].receipt.kind = "rejection"
      BY DEF LetterInv, Follows
    <3>. QED  BY <1>3, <2>1, <3>1, DecidedOn DEF Executing
  <2>. QED  BY <2>2, <2>3, <2>4 DEF LetterClient
<1>. QED  BY <1>1, <1>2, <1>3, LetterMoves

\* A body that drops a receipt or keeps what it decides may be written.
LEMMA LetterSubmit ==
  ASSUME TypeOK, TypeOK', LetterInv, NEW p \in Procs, NEW body \in Bodies,
         NEW waiting \in {"marking", "projecting", "finishing"}, Submit(p, body, waiting),
         waiting = "finishing" => client[p].pc = "finish",
         waiting = "projecting" => Known(body, client[p].cur),
         \A m \in Mails : Letter(m) => Drops(Local(p), body, m) \/ KeepsDecision(Local(p), body, m),
         UNCHANGED <<meta, log, reports>>
  PROVE  LetterInv'
<1>. DEFINE c == [client[p] EXCEPT !.pc = waiting, !.base = client[p].local, !.body = body]
<1>1. /\ client[p] \in Clients /\ client[p].local \in 1..Current /\ Local(p) = meta[client[p].local]
      /\ Latest' = Latest
  BY Typed DEF ClientTypeOK, Local, Latest, Current
<1>2. /\ c \in Clients /\ c.pc = waiting /\ c.base = client[p].local /\ c.body = body
      /\ c.cur = client[p].cur /\ c.receipt = client[p].receipt /\ c.outbox = client[p].outbox
  <2>1. waiting \in Steps
    BY DEF Steps
  <2>2. client[p].local \in Nat
    BY <1>1 DEF Clients
  <2>. QED  BY <1>1, <2>1, <2>2 DEF Clients
<1>3. Become(p, c)
  BY DEF Submit
<1>. HIDE DEF c
<1>4. Follows(c)
  BY <1>2 DEF Follows
<1>5. ASSUME NEW m \in Mails, Letter(m) PROVE LetterClient(c, Latest', m)
  <2>1. LetterClient(client[p], Latest, m)
    BY <1>5 DEF Letter
  <2>2. Drops(meta[c.base], c.body, m) \/ KeepsDecision(meta[c.base], c.body, m)
    BY <1>1, <1>2, <1>5
  <2>3. Executing(c) => Executing(client[p])
    BY <1>2 DEF Executing
  <2>. QED  BY <1>1, <1>2, <2>1, <2>2, <2>3 DEF LetterClient
<1>. QED  BY <1>1, <1>2, <1>3, <1>4, <1>5, LetterMoves DEF Lands

\* The end of a write, on whatever the process goes on with.
LEMMA LetterWritten ==
  ASSUME TypeOK, TypeOK', LetterInv, NEW p \in Procs, NEW c \in Clients, NEW d \in Clients,
         NEW retry \in {"mark", "project", "finish"}, Writing(client[p]),
         c.pc \in {"sweep", "next"}, c.outbox = client[p].outbox,
         d.pc \in {"idle", "next"}, d.outbox = client[p].outbox,
         retry = "finish" => client[p].pc = "finishing",
         Accepted(p, c) \/ Conflict(p, retry) \/ Failed(p, d),
         log' = log, reports' = reports
  PROVE  LetterInv'
<1>1. /\ client[p] \in Clients /\ EmptyBody \in Bodies /\ Current \in Nat \ {0} /\ Current + 1 \in Nat
  BY Typed, BodyTypes
<1>2. Lands(p)
  BY DEF Lands, Accepted, Conflict, Failed
<1>3. CASE Accepted(p, c)
  <2>. DEFINE e == [c EXCEPT !.base = 1, !.body = EmptyBody, !.local = Current + 1]
  <2>1. e \in Clients /\ e.pc = c.pc /\ e.base = 1 /\ e.outbox = client[p].outbox
    BY <1>1 DEF Clients
  <2>2. Become(p, e)
    BY <1>3 DEF Accepted, Settled, Clients
  <2>. HIDE DEF e
  <2>. QED  BY <1>2, <2>1, <2>2, LetterOn DEF Executing, Writing
<1>4. CASE Conflict(p, retry)
  <2>. DEFINE v == IF Current > client[p].local THEN Current ELSE client[p].local
              e == [client[p] EXCEPT !.base = 1, !.body = EmptyBody, !.pc = retry, !.local = v]
  <2>1. v \in Nat /\ retry \in Steps
    BY <1>1 DEF Clients, Steps
  <2>2. /\ e \in Clients /\ e.pc = retry /\ e.base = 1 /\ e.outbox = client[p].outbox
        /\ e.cur = client[p].cur /\ e.receipt = client[p].receipt
    BY <1>1, <2>1 DEF Clients
  <2>3. Become(p, e)
    BY <1>1, <1>4 DEF Conflict, Settled, Clients
  <2>. HIDE DEF e
  <2>. QED  BY <1>2, <2>2, <2>3, LetterOn DEF Executing, Writing
<1>5. CASE Failed(p, d)
  <2>. DEFINE e == [d EXCEPT !.base = 1, !.body = EmptyBody]
  <2>1. e \in Clients /\ e.pc = d.pc /\ e.base = 1 /\ e.outbox = client[p].outbox
    BY <1>1 DEF Clients
  <2>2. Become(p, e)
    BY <1>5 DEF Failed, Settled
  <2>. HIDE DEF e
  <2>. QED  BY <1>2, <2>1, <2>2, LetterOn DEF Executing, Writing
<1>. QED  BY <1>3, <1>4, <1>5

-----------------------------------------------------------------------------
(* The bodies, and what the letters know of them.                           *)

LEMMA KeepsSame ==
  ASSUME NEW b, NEW m, AppliedIn(b, m)  PROVE KeepsDecision(b, b, m)
BY DEF KeepsDecision, Decided

\* An acked mark keeps the decision, or drops the receipt.
LEMMA LetterMark ==
  ASSUME NEW b \in Bodies, NEW m \in Mails, AppliedIn(b, m), NEW batch,
         NEW inbox \in Marked(b.inbox, batch)
  PROVE  Drops(b, [b EXCEPT !.inbox = inbox], m) \/ KeepsDecision(b, [b EXCEPT !.inbox = inbox], m)
<1>. DEFINE body == [b EXCEPT !.inbox = inbox]
<1>1. b.inbox \in [Mails -> Receipts]
  BY DEF Bodies
<1>2. inbox[m].phase # "none" => b.inbox[m].phase # "none" /\ inbox[m].kind = b.inbox[m].kind
  BY <1>1, MarkedFacts
<1>3. body.inbox = inbox /\ body.board = b.board
  BY DEF Bodies
<1>. HIDE DEF body
<1>4. Drops(b, body, m) \/ KeepsDecision(b, body, m)
  BY <1>2, <1>3 DEF Drops, KeepsDecision, Decided, AppliedIn, Known
<1>. QED  BY <1>4 DEF body

\* A projection decides the letter in hand, and keeps or drops the others.
LEMMA LetterProject ==
  ASSUME NEW b \in Bodies, NEW m \in Mails, NEW plan \in Receipts, plan.phase = "projected",
         NEW body \in Projections(b, m, plan)
  PROVE  /\ Known(body, m)
         /\ \A k \in Mails : AppliedIn(b, k) => Drops(b, body, k) \/ KeepsDecision(b, body, k)
<1>1. CASE b.inbox[m].phase # "none"
  BY <1>1, KeepsSame DEF Projections, Known
<1>2. CASE b.inbox[m].phase = "none"
  <2>1. PICK left \in RoomFor(b.inbox) :
          body = [inbox |-> [left EXCEPT ![m] = plan], board |-> [b.board EXCEPT ![m] = @ + 1]]
    BY <1>2 DEF Projections
  <2>2. b.inbox \in [Mails -> Receipts] /\ b.board \in [Mails -> Nat]
    BY DEF Bodies
  <2>3. /\ left \in [Mails -> Receipts]
        /\ \A k \in Mails : left[k] = b.inbox[k] \/ (b.inbox[k].phase = "acked" /\ left[k] = NoReceipt)
    BY <2>2, RoomForFacts
  <2>4. /\ body.inbox[m] = plan /\ body.board[m] = b.board[m] + 1
        /\ \A k \in Mails \ {m} : body.inbox[k] = left[k] /\ body.board[k] = b.board[k]
    BY <2>1, <2>2, <2>3
  <2>5. ASSUME NEW k \in Mails, AppliedIn(b, k) PROVE Drops(b, body, k) \/ KeepsDecision(b, body, k)
    <3>1. CASE k = m
      BY <1>2, <2>4, <2>5, <3>1 DEF KeepsDecision, AppliedIn, Known
    <3>2. CASE k # m /\ left[k] = b.inbox[k]
      BY <2>4, <2>5, <3>2 DEF KeepsDecision, AppliedIn, Known, Decided
    <3>3. CASE k # m /\ b.inbox[k].phase = "acked" /\ left[k] = NoReceipt
      BY <2>4, <3>3 DEF Drops, Known, NoReceipt
    <3>. QED  BY <2>3, <3>1, <3>2, <3>3
  <2>. QED  BY <2>4, <2>5 DEF Known
<1>. QED  BY <1>1, <1>2

LEMMA LetterFinish ==
  ASSUME NEW b \in Bodies, NEW m \in Mails, NEW k \in Mails, AppliedIn(b, k),
         b.inbox[m].phase = "projected"
  PROVE  KeepsDecision(b, [b EXCEPT !.inbox[m].phase = "processed"], k)
<1>. DEFINE body == [b EXCEPT !.inbox[m].phase = "processed"]
<1>1. b.inbox \in [Mails -> Receipts] /\ b.inbox[m] \in Receipts
  BY DEF Bodies
<1>2. /\ body.inbox[m].phase = "processed" /\ body.inbox[m].kind = b.inbox[m].kind
      /\ \A l \in Mails \ {m} : body.inbox[l] = b.inbox[l]
      /\ body.board = b.board
  BY <1>1 DEF Bodies, Receipts, Phases
<1>. HIDE DEF body
<1>3. KeepsDecision(b, body, k)
  BY <1>2 DEF KeepsDecision, AppliedIn, Known, Decided
<1>. QED  BY <1>3 DEF body

\* What a letter knows of the version a process holds.
LEMMA LetterLocal ==
  ASSUME TypeOK, NEW p \in Procs, NEW m \in Mails, Letter(m)
  PROVE  AppliedIn(Local(p), m) /\ KeepsDecision(Local(p), Latest, m)
BY Typed DEF ClientTypeOK, Local, Letter, LetterHistory

-----------------------------------------------------------------------------
(* The steps.                                                               *)

LEMMA LetterInit == Init => LetterInv
<1>. SUFFICES ASSUME Init PROVE LetterInv
  OBVIOUS
<1>1. Current = 1 /\ Latest = EmptyBody /\ \A v \in 1..Current : meta[v] = EmptyBody
  BY DEF Init, Current, Latest
<1>2. \A m \in Mails : AppliedIn(EmptyBody, m) /\ ~Known(EmptyBody, m)
  BY DEF AppliedIn, Known, EmptyBody, NoReceipt
<1>3. \A p \in Procs : client[p] = Down
  BY DEF Init
<1>4. Follows(Down)
  BY DEF Follows, Down
<1>5. ASSUME NEW m \in Mails PROVE Letter(m)
  <2>1. LetterHistory(m)
    BY <1>1, <1>2 DEF LetterHistory, KeepsDecision
  <2>2. LetterEffects(m)
    BY DEF Init, LetterEffects
  <2>3. LetterClient(Down, Latest, m)
    BY DEF LetterClient, Writing, Executing, Down, EmptyOutbox
  <2>. QED  BY <1>3, <2>1, <2>2, <2>3 DEF Letter
<1>. QED  BY <1>3, <1>4, <1>5 DEF LetterInv

LEMMA LetterCentre ==
  ASSUME TypeOK, TypeOK', LetterInv, Send \/ ForeignWrite  PROVE LetterInv'
<1>1. client' = client /\ log' = log /\ reports' = reports
  BY DEF Send, ForeignWrite
<1>2. \/ meta' = meta
      \/ \E b \in Bodies :
           /\ meta' = Append(meta, b)
           /\ \A m \in Mails : ~Evicted(m) /\ Letter(m) => Drops(Latest, b, m) \/ KeepsDecision(Latest, b, m)
  <2>1. \A m \in Mails : Letter(m) => KeepsDecision(Latest, Latest, m)
    BY Typed DEF Letter, LetterHistory, Latest
  <2>2. Latest \in Bodies
    BY Typed
  <2>. QED  BY <2>1, <2>2 DEF Send, ForeignWrite
<1>. QED  BY <1>1, <1>2, LetterStep

LEMMA LetterEnvironment ==
  ASSUME TypeOK, TypeOK', LetterInv, NEW p \in Procs, Environment(p)  PROVE LetterInv'
<1>1. /\ client[p] \in Clients /\ client[p].base \in 1..Current /\ client[p].local \in Nat
      /\ client[p].outbox \in [Mails -> Kinds \cup {"none"}]
  BY Typed DEF ClientTypeOK, Clients
<1>2. meta' = meta /\ log' = log /\ reports' = reports
  BY DEF Environment, Push, Start, Crash, Stop, Close
<1>3. Lands(p)
  BY <1>2 DEF Lands
<1>4. CASE Push(p)
  <2>1. PICK v \in (client[p].local + 1)..Current : Become(p, [client[p] EXCEPT !.local = v])
    BY <1>4 DEF Push
  <2>. DEFINE c == [client[p] EXCEPT !.local = v]
  <2>2. /\ c \in Clients /\ c.pc = client[p].pc /\ c.base = client[p].base /\ c.body = client[p].body
        /\ c.cur = client[p].cur /\ c.receipt = client[p].receipt /\ c.outbox = client[p].outbox
    <3>1. v \in Nat
      BY <1>1, <2>1
    <3>. QED  BY <1>1, <3>1 DEF Clients
  <2>3. Become(p, c)
    BY <2>1
  <2>. HIDE DEF c
  <2>4. Follows(client[p]) /\ \A m \in Mails : Letter(m) => LetterClient(client[p], Latest, m)
    BY DEF LetterInv, Letter
  <2>5. Follows(c) /\ \A m \in Mails : Letter(m) => LetterClient(c, Latest, m)
    BY <2>2, <2>4 DEF Follows, LetterClient, Writing, Executing
  <2>6. Latest' = Latest
    BY <1>2 DEF Latest, Current
  <2>. QED  BY <1>1, <1>2, <1>3, <2>2, <2>3, <2>5, <2>6, LetterMoves
<1>5. CASE Start(p)
  <2>1. PICK v \in 1..Current : Become(p, [Down EXCEPT !.pc = "idle", !.local = v])
    BY <1>5 DEF Start
  <2>. DEFINE c == [Down EXCEPT !.pc = "idle", !.local = v]
  <2>2. c \in Clients /\ c.base = 1 /\ c.pc = "idle" /\ c.outbox = EmptyOutbox
    <3>1. v \in Nat
      BY Typed, <2>1
    <3>. QED  BY <3>1, BodyTypes DEF Down, Clients, Steps
  <2>3. Become(p, c)
    BY <2>1
  <2>. HIDE DEF c
  <2>. QED  BY <1>2, <1>3, <2>2, <2>3, LetterOn DEF Writing, Executing
<1>6. CASE Crash(p) \/ Close(p)
  <2>1. Down \in Clients /\ Down.base = 1 /\ Down.pc = "down" /\ Down.outbox = EmptyOutbox
    BY BodyTypes DEF Down, Clients, Steps
  <2>2. Become(p, Down)
    BY <1>6 DEF Crash, Close
  <2>. QED  BY <1>2, <1>3, <2>1, <2>2, LetterOn DEF Writing, Executing
<1>7. CASE Stop(p)
  <2>. DEFINE c == [Down EXCEPT !.pc = "stopped", !.local = client[p].local, !.outbox = client[p].outbox]
  <2>1. c \in Clients /\ c.base = 1 /\ c.pc = "stopped" /\ c.outbox = client[p].outbox
    BY <1>1, BodyTypes DEF Down, Clients, Steps
  <2>2. Become(p, c)
    BY <1>7 DEF Stop
  <2>. HIDE DEF c
  <2>. QED  BY <1>2, <1>3, <2>1, <2>2, LetterOn DEF Writing, Executing
<1>. QED  BY <1>4, <1>5, <1>6, <1>7 DEF Environment

LEMMA LetterSweep ==
  ASSUME TypeOK, TypeOK', LetterInv, NEW p \in Procs,
         BeginTick(p) \/ SweepDone(p) \/ Ack(p) \/ Mark(p) \/ MarkWritten(p) \/ Receive(p) \/ ListDone(p)
  PROVE  LetterInv'
<1>1. /\ client[p] \in Clients /\ client[p].base \in 1..Current /\ Local(p) \in Bodies
      /\ log' = log /\ reports' = reports
  BY Held DEF ClientTypeOK, BeginTick, SweepDone, Ack, Mark, MarkWritten, Receive, ListDone
<1>2. ASSUME NEW c \in Clients, Become(p, c), meta' = meta, c.base = client[p].base,
             c.pc \in {"idle", "sweep", "mark", "receive", "next"}, c.outbox = client[p].outbox
      PROVE  LetterInv'
  BY <1>1, <1>2, LetterOn DEF Lands, Writing, Executing
<1>3. CASE BeginTick(p) \/ ListDone(p)
  <2>1. InPhase(Local(p).inbox, "processed") \subseteq Mails
    BY Held
  <2>2. ASSUME NEW after \in {"receive", "idle"}
        PROVE  /\ SweepFrom(p, after) \in Clients /\ SweepFrom(p, after).pc = "sweep"
               /\ SweepFrom(p, after).base = client[p].base
               /\ SweepFrom(p, after).outbox = client[p].outbox
    BY <1>1, <2>1 DEF SweepFrom, Clients, Steps
  <2>. QED  BY <1>2, <1>3, <2>2 DEF BeginTick, ListDone
<1>4. /\ SweepOver(client[p]) \in Clients /\ SweepOver(client[p]).base = client[p].base
      /\ SweepOver(client[p]).pc \in {"receive", "idle"}
      /\ SweepOver(client[p]).outbox = client[p].outbox
  BY <1>1 DEF SweepOver, Clients, Steps
<1>5. CASE SweepDone(p)
  BY <1>2, <1>4, <1>5 DEF SweepDone
<1>6. CASE Ack(p)
  <2>1. PICK b \in Batches(client[p].ids) :
          \/ Become(p, [client[p] EXCEPT !.pc = "mark", !.batch = b, !.ids = @ \ b])
          \/ Become(p, SweepOver(client[p]))
    BY <1>6 DEF Ack
  <2>. DEFINE c == [client[p] EXCEPT !.pc = "mark", !.batch = b, !.ids = @ \ b]
  <2>2. c \in Clients /\ c.pc = "mark" /\ c.base = client[p].base /\ c.outbox = client[p].outbox
    BY <1>1 DEF Batches, Clients, Steps
  <2>3. Become(p, c) \/ Become(p, SweepOver(client[p]))
    BY <2>1
  <2>. HIDE DEF c
  <2>. QED  BY <1>2, <1>4, <1>6, <2>2, <2>3 DEF Ack
<1>7. CASE Mark(p)
  <2>1. PICK inbox \in Marked(Local(p).inbox, client[p].batch) :
          Submit(p, [Local(p) EXCEPT !.inbox = inbox], "marking")
    BY <1>7 DEF Mark
  <2>2. [Local(p) EXCEPT !.inbox = inbox] \in Bodies
    BY <1>1, <2>1, Held, MarkedType DEF Bodies
  <2>3. \A m \in Mails : Letter(m) => \/ Drops(Local(p), [Local(p) EXCEPT !.inbox = inbox], m)
                                      \/ KeepsDecision(Local(p), [Local(p) EXCEPT !.inbox = inbox], m)
    BY <1>1, <2>1, LetterLocal, LetterMark
  <2>. QED  BY <1>7, <2>1, <2>2, <2>3, LetterSubmit DEF Mark
<1>8. CASE MarkWritten(p)
  <2>. DEFINE c == [client[p] EXCEPT !.pc = "sweep", !.batch = {}]
              d == SweepOver([client[p] EXCEPT !.after = "idle"])
  <2>1. c \in Clients /\ c.pc = "sweep" /\ c.outbox = client[p].outbox
    BY <1>1 DEF Clients, Steps
  <2>2. d \in Clients /\ d.pc = "idle" /\ d.outbox = client[p].outbox
    BY <1>1 DEF SweepOver, Clients, Steps
  <2>3. Writing(client[p]) /\ (Accepted(p, c) \/ Conflict(p, "mark") \/ Failed(p, d))
    BY <1>8 DEF MarkWritten, At, Writing
  <2>. HIDE DEF c, d
  <2>. QED  BY <1>1, <2>1, <2>2, <2>3, LetterWritten
<1>9. CASE Receive(p)
  <2>1. Oldest(1..sent \ delivered) \subseteq Mails
    BY ConstantsAssumption DEF Oldest, TypeOK, CentreTypeOK, Mails
  <2>. DEFINE c == [client[p] EXCEPT !.pc = "next", !.fetched = Oldest(1..sent \ delivered)]
              d == [client[p] EXCEPT !.pc = "next"]
  <2>2. c \in Clients /\ c.pc = "next" /\ c.base = client[p].base /\ c.outbox = client[p].outbox
    BY <1>1, <2>1 DEF Clients, Steps
  <2>3. d \in Clients /\ d.pc = "next" /\ d.base = client[p].base /\ d.outbox = client[p].outbox
    BY <1>1 DEF Clients, Steps
  <2>4. (Become(p, c) \/ Become(p, d)) /\ meta' = meta
    BY <1>9 DEF Receive
  <2>. HIDE DEF c, d
  <2>. QED  BY <1>2, <2>2, <2>3, <2>4
<1>. QED  BY <1>3, <1>5, <1>6, <1>7, <1>8, <1>9

\* From taking a letter up to storing its message.
LEMMA LetterTaken ==
  ASSUME TypeOK, TypeOK', EvictInv, LetterInv, NEW p \in Procs,
         Take(p) \/ Validate(p) \/ Project(p) \/ ProjectWritten(p) \/ Store(p)
  PROVE  LetterInv'
<1>. DEFINE d == NextLetter(client[p])
<1>1. /\ client[p] \in Clients /\ client[p].base \in 1..Current /\ Local(p) \in Bodies
      /\ client[p].pc \in Handling => client[p].cur \in Mails
      /\ log' = log /\ reports' = reports
  BY Held DEF ClientTypeOK, Take, Validate, Project, ProjectWritten, Store
<1>2. d \in Clients /\ d.base = client[p].base /\ d.pc = "next" /\ d.outbox = client[p].outbox
  BY <1>1, BodyTypes DEF NextLetter, Clients, Steps
<1>. HIDE DEF d
<1>3. ASSUME NEW c \in Clients, Become(p, c), meta' = meta, c.base = client[p].base,
             c.pc \in {"next", "validate", "project"}, c.outbox = client[p].outbox
      PROVE  LetterInv'
  BY <1>1, <1>3, LetterOn DEF Lands, Writing, Executing
<1>4. CASE Take(p)
  <2>1. PICK m \in client[p].fetched :
          LET c == [client[p] EXCEPT !.fetched = @ \ {m}, !.cur = m]
              r == Local(p).inbox[m]
          IN  Become(p, CASE r.phase = "none"      -> [c EXCEPT !.pc = "validate"]
                          [] r.phase = "projected" -> [c EXCEPT !.pc = "store", !.receipt = r]
                          [] OTHER                 -> NextLetter(c))
    BY <1>4 DEF Take
  <2>. DEFINE c == [client[p] EXCEPT !.fetched = @ \ {m}, !.cur = m]
              r == Local(p).inbox[m]
              e == [c EXCEPT !.pc = "store", !.receipt = r]
              f == [c EXCEPT !.pc = "validate"]
  <2>0. m \in Mails
    BY <1>1, <2>1 DEF Clients
  <2>2. m \in Nat /\ r \in Receipts /\ meta' = meta
    <3>1. Local(p).inbox \in [Mails -> Receipts]
      BY Held
    <3>2. m \in Nat
      BY <2>0, ConstantsAssumption DEF Mails
    <3>. QED  BY <1>4, <2>0, <3>1, <3>2 DEF Take
  <2>3. c \in Clients /\ c.base = client[p].base /\ c.outbox = client[p].outbox /\ c.cur = m
    BY <1>1, <2>0, <2>2 DEF Clients
  <2>. HIDE DEF c
  <2>4. f \in Clients /\ f.pc = "validate" /\ f.base = client[p].base /\ f.outbox = client[p].outbox
    BY <2>3 DEF Clients, Steps
  <2>5. /\ e \in Clients /\ e.pc = "store" /\ e.base = client[p].base /\ e.outbox = client[p].outbox
        /\ e.cur = m /\ e.receipt = r
    BY <2>2, <2>3 DEF Clients, Steps
  <2>6. /\ NextLetter(c) \in Clients /\ NextLetter(c).base = client[p].base
        /\ NextLetter(c).pc = "next" /\ NextLetter(c).outbox = client[p].outbox
    BY <2>3, BodyTypes DEF NextLetter, Clients, Steps
  <2>7. \/ Become(p, f)
        \/ r.phase = "projected" /\ Become(p, e)
        \/ Become(p, NextLetter(c))
    <3>1. CASE r.phase = "none"
      BY <2>1, <3>1 DEF c
    <3>2. CASE r.phase = "projected"
      BY <2>1, <3>2 DEF c
    <3>3. CASE r.phase # "none" /\ r.phase # "projected"
      BY <2>1, <3>3 DEF c
    <3>. QED  BY <3>1, <3>2, <3>3
  <2>. HIDE DEF e, f
  <2>8. CASE r.phase = "projected" /\ Become(p, e)
    <3>1. Follows(e) /\ ~Writing(e) /\ Lands(p) /\ Latest' = Latest
      BY <2>2, <2>5 DEF Follows, Writing, Lands, Latest, Current
    <3>2. ASSUME NEW k \in Mails, Letter(k) PROVE LetterClient(e, Latest, k)
      <4>1. KeepsDecision(Local(p), Latest, k)
        BY <3>2, LetterLocal
      <4>2. k = m => Decided(Latest, k, r.kind)
        BY <2>8, <4>1 DEF KeepsDecision, Known
      <4>3. client[p].outbox[k] # "none" => Decided(Latest, k, client[p].outbox[k])
        BY <3>2 DEF Letter, LetterClient
      <4>. QED  BY <2>5, <3>1, <4>2, <4>3 DEF LetterClient
    <3>. QED  BY <1>1, <2>5, <2>8, <3>1, <3>2, LetterMoves
  <2>. QED  BY <1>3, <2>2, <2>4, <2>6, <2>7, <2>8
<1>5. CASE Validate(p)
  <2>1. ASSUME NEW plan \in PlansAt(Current),
               Become(p, [client[p] EXCEPT !.pc = "project", !.receipt = plan])
        PROVE  LetterInv'
    <3>. DEFINE c == [client[p] EXCEPT !.pc = "project", !.receipt = plan]
    <3>1. plan \in Receipts
      BY Typed DEF PlansAt, Receipts, Phases
    <3>2. c \in Clients /\ c.pc = "project" /\ c.base = client[p].base /\ c.outbox = client[p].outbox
      BY <1>1, <3>1 DEF Clients, Steps
    <3>3. Become(p, c)
      BY <2>1
    <3>. HIDE DEF c
    <3>. QED  BY <1>3, <1>5, <3>2, <3>3 DEF Validate
  <2>. QED  BY <1>2, <1>3, <1>5, <2>1 DEF Validate, d
<1>6. CASE Project(p)
  <2>1. /\ client[p].receipt.phase = "projected" /\ client[p].receipt \in Receipts
        /\ client[p].cur \in Mails /\ meta' = meta
    BY <1>1, <1>6 DEF Project, At, EvictInv, EvictClient, Handling, Clients
  <2>2. ASSUME NEW body \in Projections(Local(p), client[p].cur, client[p].receipt),
               Submit(p, body, "projecting")
        PROVE  LetterInv'
    <3>1. body \in Bodies /\ Known(body, client[p].cur)
      BY <1>1, <2>1, ProjectionsType, LetterProject
    <3>2. \A m \in Mails : Letter(m) => Drops(Local(p), body, m) \/ KeepsDecision(Local(p), body, m)
      BY <1>1, <2>1, LetterLocal, LetterProject
    <3>. QED  BY <1>1, <2>1, <2>2, <3>1, <3>2, LetterSubmit
  <2>. QED  BY <1>2, <1>3, <1>6, <2>1, <2>2 DEF Project, d
<1>7. CASE ProjectWritten(p)
  <2>. DEFINE r == client[p].body.inbox[client[p].cur]
              e == [client[p] EXCEPT !.pc = "store", !.receipt = r, !.base = 1, !.body = EmptyBody,
                                     !.local = Current + 1]
  <2>1. /\ client[p].pc = "projecting" /\ Writing(client[p]) /\ r \in Receipts
        /\ client[p].cur \in Mails /\ client[p].body \in Bodies /\ Current \in Nat \ {0}
    BY <1>1, <1>7, Typed DEF ProjectWritten, At, Writing, Handling, Clients, Bodies
  <2>2. CASE Accepted(p, d) \/ Conflict(p, "project") \/ Failed(p, d)
    BY <1>1, <1>2, <2>1, <2>2, LetterWritten
  <2>3. CASE /\ r.phase = "projected"
             /\ Accepted(p, [client[p] EXCEPT !.pc = "store", !.receipt = r])
    <3>1. /\ e \in Clients /\ e.pc = "store" /\ e.receipt = r /\ e.base = 1
          /\ e.cur = client[p].cur /\ e.outbox = client[p].outbox
      <4>. HIDE DEF r
      <4>1. EmptyBody \in Bodies /\ Current + 1 \in Nat
        BY <2>1, BodyTypes
      <4>. QED  BY <1>1, <2>1, <4>1 DEF Clients, Steps
    <3>2. Become(p, e) /\ Lands(p) /\ Latest' = client[p].body
      <4>1. Become(p, e)
        BY <1>1, <2>3 DEF Accepted, Settled, Clients
      <4>2. client[p].base = Current /\ meta' = Append(meta, client[p].body)
        BY <2>3 DEF Accepted
      <4>. QED  BY <2>1, <4>1, <4>2, MetaGrows DEF Lands
    <3>3. 1 \in 1..Current
      BY <2>1
    <3>4. Follows(e) /\ ~Writing(e)
      BY <3>1 DEF Follows, Writing
    <3>5. ASSUME NEW m \in Mails, Letter(m), KeepsDecision(Latest, Latest', m)
          PROVE  LetterClient(e, Latest', m)
      <4>1. client[p].cur = m => Decided(Latest', m, r.kind)
        BY <2>3, <3>2 DEF Decided, Known
      <4>2. client[p].outbox[m] # "none" => Decided(Latest', m, client[p].outbox[m])
        BY <3>5, DecidedOn DEF Letter, LetterClient
      <4>. QED  BY <3>1, <3>4, <4>1, <4>2 DEF LetterClient
    <3>. HIDE DEF e
    <3>. QED  BY <1>1, <3>1, <3>2, <3>3, <3>4, <3>5, LetterMoves
  <2>. QED  BY <1>7, <2>2, <2>3 DEF ProjectWritten, d
<1>8. CASE Store(p)
  <2>1. /\ client[p].cur \in Mails /\ client[p].outbox \in [Mails -> Kinds \cup {"none"}]
        /\ client[p].receipt.kind \in Kinds /\ client[p].pc = "store" /\ meta' = meta
    BY <1>1, <1>8 DEF Store, At, Handling, Clients, Receipts
  <2>. DEFINE box == [client[p].outbox EXCEPT ![client[p].cur] =
                        IF @ = "none" THEN client[p].receipt.kind ELSE @]
              c == [client[p] EXCEPT !.pc = "storing", !.outbox = box]
  <2>2. /\ box \in [Mails -> Kinds \cup {"none"}]
        /\ \A m \in Mails : \/ box[m] = client[p].outbox[m]
                            \/ m = client[p].cur /\ box[m] = client[p].receipt.kind
    BY <2>1
  <2>. HIDE DEF box
  <2>3. /\ c \in Clients /\ c.pc = "storing" /\ c.base = client[p].base /\ c.outbox = box
        /\ c.cur = client[p].cur /\ c.receipt = client[p].receipt
    BY <1>1, <2>2 DEF Clients, Steps
  <2>4. Become(p, c)
    BY <1>1, <1>8 DEF Store, Clients, box
  <2>. HIDE DEF c
  <2>5. Follows(c) /\ ~Writing(c) /\ Lands(p) /\ Latest' = Latest
    BY <2>1, <2>3 DEF Follows, Writing, Lands, Latest, Current
  <2>6. ASSUME NEW m \in Mails, Letter(m) PROVE LetterClient(c, Latest, m)
    <3>1. /\ m = client[p].cur => Decided(Latest, m, client[p].receipt.kind)
          /\ client[p].outbox[m] # "none" => Decided(Latest, m, client[p].outbox[m])
      BY <2>1, <2>6 DEF Letter, LetterClient, Executing
    <3>. QED  BY <2>2, <2>3, <2>5, <3>1 DEF LetterClient
  <2>. QED  BY <1>1, <2>3, <2>4, <2>5, <2>6, LetterMoves
<1>. QED  BY <1>4, <1>5, <1>6, <1>7, <1>8

\* From the flush of the message to the end of the letter.
LEMMA LetterEnds ==
  ASSUME TypeOK, TypeOK', LetterInv, NEW p \in Procs,
         Flush(p) \/ Stored(p) \/ Report(p) \/ Finish(p) \/ FinishWritten(p)
  PROVE  LetterInv'
<1>. DEFINE d == NextLetter(client[p])
<1>1. /\ client[p] \in Clients /\ client[p].base \in 1..Current /\ Local(p) \in Bodies
      /\ client[p].pc \in Handling => client[p].cur \in Mails
  BY Held DEF ClientTypeOK
<1>2. /\ d \in Clients /\ d.base = client[p].base /\ d.pc = "next" /\ d.outbox = client[p].outbox
      /\ ~Executing(d) /\ ~Writing(d)
  BY <1>1, BodyTypes DEF NextLetter, Clients, Steps, Executing, Writing
<1>. HIDE DEF d
<1>3. CASE Flush(p)
  <2>. DEFINE c == [client[p] EXCEPT !.outbox = EmptyOutbox]
  <2>1. /\ c \in Clients /\ c.pc = client[p].pc /\ c.base = client[p].base /\ c.body = client[p].body
        /\ c.cur = client[p].cur /\ c.receipt = client[p].receipt /\ c.outbox = EmptyOutbox
    BY <1>1, BodyTypes DEF Clients
  <2>2. PICK e : e \in {c, client[p]} /\ Become(p, e)
    <3>1. client = [client EXCEPT ![p] = client[p]]
      BY DEF TypeOK
    <3>. QED  BY <1>3, <3>1 DEF Flush, Become
  <2>3. meta' = meta /\ reports' = reports /\ Latest' = Latest /\ Lands(p)
    BY <1>3 DEF Flush, Lands, Latest, Current
  <2>. HIDE DEF c
  <2>4. /\ e \in Clients /\ e.pc = client[p].pc /\ e.base = client[p].base /\ e.body = client[p].body
        /\ e.cur = client[p].cur /\ e.receipt = client[p].receipt
        /\ \A m \in Mails : e.outbox[m] \in {"none", client[p].outbox[m]}
    BY <1>1, <2>1, <2>2 DEF EmptyOutbox
  <2>5. Follows(e)
    BY <2>4 DEF LetterInv, Follows
  <2>6. ASSUME NEW m \in Mails, Letter(m)
        PROVE  LetterClient(e, Latest, m) /\ (log'[m] # log[m] => Decided(Latest, m, log'[m]))
    <3>1. LetterClient(client[p], Latest, m)
      BY <2>6 DEF Letter
    <3>2. LetterClient(e, Latest, m)
      BY <2>4, <3>1 DEF LetterClient, Writing, Executing
    <3>3. log'[m] # log[m] => log'[m] = client[p].outbox[m] /\ log'[m] # "none"
      BY <1>3 DEF Flush
    <3>. QED  BY <3>1, <3>2, <3>3 DEF LetterClient
  <2>. QED  BY <1>1, <2>2, <2>3, <2>4, <2>5, <2>6, LetterMoves
<1>4. CASE Stored(p)
  <2>. DEFINE c == [client[p] EXCEPT !.pc = IF client[p].receipt.kind = "rejection" THEN "report" ELSE "finish"]
  <2>1. /\ c \in Clients /\ c.pc \in {"report", "finish"} /\ c.base = client[p].base
        /\ c.outbox = client[p].outbox /\ c.cur = client[p].cur /\ c.receipt = client[p].receipt
        /\ c.pc = "report" => client[p].receipt.kind = "rejection"
    BY <1>1 DEF Clients, Steps
  <2>2. /\ Become(p, c) \/ Become(p, d)
        /\ Lands(p) /\ log' = log /\ reports' = reports /\ Executing(client[p])
    BY <1>4 DEF Stored, d, Lands, Executing, At
  <2>. HIDE DEF c
  <2>3. ~Writing(c)
    BY <2>1 DEF Writing
  <2>. QED  BY <1>2, <2>1, <2>2, <2>3, LetterOn
<1>5. CASE Report(p)
  <2>. DEFINE c == [client[p] EXCEPT !.pc = "finish"]
  <2>1. /\ c \in Clients /\ c.pc = "finish" /\ c.base = client[p].base
        /\ c.outbox = client[p].outbox /\ c.cur = client[p].cur /\ c.receipt = client[p].receipt
    BY <1>1 DEF Clients, Steps
  <2>2. /\ Become(p, c) \/ Become(p, d)
        /\ Lands(p) /\ log' = log /\ Executing(client[p]) /\ client[p].pc = "report"
        /\ reports' \in {reports, Reported(client[p].cur)}
    BY <1>5 DEF Report, d, Lands, Executing, At
  <2>3. \A m \in Mails : reports'[m] # reports[m] => m = client[p].cur
    BY <2>2 DEF Reported, TypeOK, CentreTypeOK
  <2>. HIDE DEF c
  <2>4. ~Writing(c)
    BY <2>1 DEF Writing
  <2>5. CASE Become(p, c)
    BY <2>1, <2>2, <2>3, <2>4, <2>5, LetterOn
  <2>6. CASE Become(p, d)
    BY <1>2, <2>2, <2>3, <2>6, LetterOn
  <2>. QED  BY <2>2, <2>5, <2>6
<1>6. CASE Finish(p)
  <2>. DEFINE m == client[p].cur
              b == Local(p)
  <2>1. /\ m \in Mails /\ client[p].pc = "finish"
        /\ meta' = meta /\ log' = log /\ reports' = reports
    BY <1>1, <1>6 DEF Finish, At, Handling
  <2>2. CASE b.inbox[m].phase = "none"
    <3>1. Become(p, d) /\ Lands(p)
      BY <1>6, <2>1, <2>2 DEF Finish, d, Lands
    <3>. QED  BY <1>2, <2>1, <3>1, LetterOn
  <2>3. CASE b.inbox[m].phase = "projected"
    <3>. DEFINE body == [b EXCEPT !.inbox[m].phase = "processed"]
    <3>1. Submit(p, body, "finishing")
      BY <1>6, <2>3 DEF Finish
    <3>2. body \in Bodies
      <4>1. b.inbox \in [Mails -> Receipts] /\ b.inbox[m] \in Receipts
        BY <1>1, <2>1 DEF Bodies
      <4>. QED  BY <1>1, <2>1, <4>1 DEF Bodies, Receipts, Phases
    <3>3. \A k \in Mails : Letter(k) => KeepsDecision(b, body, k)
      BY <1>1, <2>1, <2>3, LetterLocal, LetterFinish
    <3>. HIDE DEF body
    <3>. QED  BY <2>1, <3>1, <3>2, <3>3, LetterSubmit
  <2>4. CASE b.inbox[m].phase # "none" /\ b.inbox[m].phase # "projected"
    <3>1. Submit(p, b, "finishing")
      BY <1>6, <2>4 DEF Finish
    <3>2. \A k \in Mails : Letter(k) => KeepsDecision(b, b, k)
      BY LetterLocal, KeepsSame
    <3>. QED  BY <1>1, <2>1, <3>1, <3>2, LetterSubmit
  <2>. QED  BY <2>2, <2>3, <2>4
<1>7. CASE FinishWritten(p)
  <2>1. /\ client[p].pc = "finishing" /\ Writing(client[p]) /\ log' = log /\ reports' = reports
        /\ Accepted(p, d) \/ Conflict(p, "finish") \/ Failed(p, d)
    BY <1>7 DEF FinishWritten, At, Writing, d
  <2>. QED  BY <1>2, <2>1, LetterWritten
<1>. QED  BY <1>3, <1>4, <1>5, <1>6, <1>7

LEMMA LetterNext ==
  ASSUME TypeOK, TypeOK', EvictInv, LetterInv, [Next]_vars  PROVE LetterInv'
<1>1. CASE Send \/ ForeignWrite
  BY <1>1, LetterCentre
<1>2. ASSUME NEW p \in Procs, Loop(p) \/ Flush(p) \/ Environment(p) PROVE LetterInv'
  BY <1>2, LetterSweep, LetterTaken, LetterEnds, LetterEnvironment DEF Loop
<1>3. CASE UNCHANGED vars
  BY <1>3, LetterStep DEF vars
<1>. QED  BY <1>1, <1>2, <1>3 DEF Next

\* However many receipts are evicted: a letter whose receipt is still there, or
\* was never written, has one decision, which every version of the metadata,
\* every write in flight, every process at work on it, the outboxes, the log and
\* the reports agree on.
THEOREM LetterCorrect == Spec => []LetterInv
<1>1. TypeOK /\ TypeOK' /\ EvictInv /\ LetterInv /\ [Next]_vars => LetterInv'
  BY LetterNext
<1>. QED  BY <1>1, LetterInit, EvictCorrect, TypeCorrect, PTL DEF Spec

\* With any number of letters and evictions: the board and configuration change
\* of a letter is made at most once for as long as its receipt is not evicted,
\* whichever processes receive it and however often.
THEOREM EachAppliedOnce == Spec => []AppliedOnce
<1>1. TypeOK /\ LetterInv => AppliedOnce
  BY Typed DEF LetterInv, Letter, LetterHistory, Latest, AppliedIn, AppliedOnce
<1>. QED  BY <1>1, LetterCorrect, TypeCorrect, PTL

\* Until then all receivers follow one decision about the letter: one that the
\* log has as a model turn is not reported as rejected.
THEOREM EachHasOneOutcome == Spec => []OneOutcome
<1>1. LetterInv => OneOutcome
  <2>. SUFFICES ASSUME LetterInv, NEW m \in Mails, ~Evicted(m), NEW v \in 1..Current,
                       meta[v].inbox[m].phase # "none"
       PROVE  /\ log[m] \in {"none", meta[v].inbox[m].kind}
              /\ reports[m] > 0 => meta[v].inbox[m].kind = "rejection"
    BY DEF OneOutcome
  <2>1. Letter(m)
    BY DEF LetterInv
  <2>2. Latest.inbox[m].kind = meta[v].inbox[m].kind
    BY <2>1 DEF Letter, LetterHistory, KeepsDecision, Known, Decided
  <2>. QED  BY <2>1, <2>2 DEF Letter, LetterEffects, Decided
<1>. QED  BY <1>1, LetterCorrect, PTL
=============================================================================
