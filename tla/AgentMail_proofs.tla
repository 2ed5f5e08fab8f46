-------------------------- MODULE AgentMail_proofs --------------------------
(* The type, the safety and the refinement of AgentMail, for any number of  *)
(* letters and processes.                                                   *)
EXTENDS AgentMailInv, TLAPS, FiniteSetTheorems

-----------------------------------------------------------------------------
(* The operators keep their types.                                          *)

\* Dropping acked receipts leaves an inbox.
LEMMA DroppingType ==
  ASSUME NEW inbox \in [Mails -> Receipts], NEW n, NEW left \in Dropping(inbox, n)
  PROVE  left \in [Mails -> Receipts]
<1>1. PICK D : left = Forget(inbox, D)
  BY DEF Dropping
<1>2. NoReceipt \in Receipts
  BY DEF NoReceipt, Receipts, Phases, Kinds
<1>. QED  BY <1>1, <1>2 DEF Forget

\* So does projecting a letter into a body.
LEMMA ProjectionsType ==
  ASSUME NEW body \in Bodies, NEW m \in Mails, NEW plan \in Receipts,
         NEW b \in Projections(body, m, plan)
  PROVE  b \in Bodies
<1>1. CASE body.inbox[m].phase # "none"
  BY <1>1 DEF Projections
<1>2. CASE body.inbox[m].phase = "none"
  <2>1. PICK inbox \in RoomFor(body.inbox) :
          b = [inbox |-> [inbox EXCEPT ![m] = plan],
               board |-> [body.board EXCEPT ![m] = @ + 1]]
    BY <1>2 DEF Projections
  <2>2. inbox \in [Mails -> Receipts]
    BY DroppingType DEF RoomFor, Bodies
  <2>3. body.board \in [Mails -> Nat]
    BY DEF Bodies
  <2>. QED  BY <2>1, <2>2, <2>3 DEF Bodies
<1>. QED  BY <1>1, <1>2

\* And marking a batch acked.
LEMMA MarkedType ==
  ASSUME NEW inbox \in [Mails -> Receipts], NEW batch, NEW left \in Marked(inbox, batch)
  PROVE  left \in [Mails -> Receipts]
<1>. DEFINE acked == [m \in DOMAIN inbox |->
                        IF m \in batch /\ inbox[m].phase = "processed"
                        THEN [inbox[m] EXCEPT !.phase = "acked"] ELSE inbox[m]]
<1>1. acked \in [Mails -> Receipts]
  BY DEF Receipts, Phases
<1>2. left \in Dropping(acked, Excess(Cardinality(InPhase(acked, "acked")), AckedKept))
  BY DEF Marked
<1>. HIDE DEF acked
<1>. QED  BY <1>1, <1>2, DroppingType

-----------------------------------------------------------------------------
(* Type correctness.                                                        *)

LEMMA BodyTypes ==
  /\ EmptyBody \in Bodies
  /\ EmptyOutbox \in [Mails -> Kinds \cup {"none"}]
  /\ NoReceipt \in Receipts
BY DEF EmptyBody, EmptyOutbox, Bodies, NoReceipt, Receipts, Phases, Kinds

\* A process that changes only itself keeps everything typed.
LEMMA LocalStep ==
  ASSUME TypeOK, NEW p \in Procs, NEW c, Become(p, c), ClientTypeOK(c, Current),
         UNCHANGED <<sent, delivered, meta, log, reports>>,
         Disrupt \/ Smooth
  PROVE  TypeOK'
<1>1. client' \in [Procs -> Clients] /\ \A q \in Procs : ClientTypeOK(client'[q], Current)
  BY DEF TypeOK, Become, ClientTypeOK
<1>2. CentreTypeOK'
  BY ConstantsAssumption DEF TypeOK, CentreTypeOK, Disrupt, Smooth
<1>. QED  BY <1>1, <1>2 DEF Current, TypeOK, CentreTypeOK, ClientTypeOK

\* What TypeOK says of the values a process works with.
LEMMA Held ==
  ASSUME TypeOK, NEW p \in Procs
  PROVE  /\ client[p] \in Clients
         /\ ClientTypeOK(client[p], Current)
         /\ Current \in Nat \ {0} /\ Latest \in Bodies
         /\ Local(p) \in Bodies /\ Local(p).inbox \in [Mails -> Receipts]
         /\ \A phase : InPhase(Local(p).inbox, phase) \subseteq Mails
<1>1. client[p] \in Clients /\ ClientTypeOK(client[p], Current)
  BY DEF TypeOK, ClientTypeOK
<1>2. meta \in Seq(Bodies) /\ meta # <<>>
  BY DEF TypeOK, CentreTypeOK
<1>3. Current \in Nat \ {0} /\ Latest \in Bodies
  BY <1>2 DEF Current, Latest
<1>4. Local(p) \in Bodies
  BY <1>1, <1>2 DEF Local, ClientTypeOK, Current
<1>5. Local(p).inbox \in [Mails -> Receipts]
  BY <1>4 DEF Bodies
<1>. QED  BY <1>1, <1>3, <1>4, <1>5 DEF InPhase

LEMMA TypeInit == Init => TypeOK
<1>. SUFFICES ASSUME Init PROVE TypeOK
  OBVIOUS
<1>1. Down \in Clients
  BY BodyTypes DEF Down, Clients, Steps
<1>2. CentreTypeOK
  BY BodyTypes, ConstantsAssumption DEF Init, CentreTypeOK, Kinds
<1>3. ClientTypeOK(Down, Current)
  BY <1>1 DEF Init, ClientTypeOK, Down, Current, Handling
<1>. QED  BY <1>1, <1>2, <1>3 DEF Init, TypeOK

\* A step of the centre: versions are only added.
LEMMA CentreStep ==
  ASSUME TypeOK, CentreTypeOK', Current' >= Current,
         NEW p \in Procs, NEW c, ClientTypeOK(c, Current'),
         UNCHANGED client \/ Become(p, c)
  PROVE  TypeOK'
<1>1. Current \in Nat /\ Current' \in Nat
  BY DEF TypeOK, CentreTypeOK, Current
<1>2. ASSUME NEW q \in Procs PROVE ClientTypeOK(client[q], Current')
  BY <1>1, <1>2 DEF TypeOK, ClientTypeOK
<1>3. client' \in [Procs -> Clients] /\ \A q \in Procs : ClientTypeOK(client'[q], Current')
  BY <1>2 DEF TypeOK, Become, ClientTypeOK
<1>. QED  BY <1>3 DEF TypeOK

\* A metadata write that ends well, in a conflict or in an error.
LEMMA SettledType ==
  ASSUME NEW c, NEW n \in Nat, ClientTypeOK(c, n)
  PROVE  /\ Settled(c) \in Clients
         /\ \A len \in Nat : \A v \in 1..len :
               len >= n => ClientTypeOK([Settled(c) EXCEPT !.local = v], len)
         /\ \A len \in Nat : len >= n => ClientTypeOK(Settled(c), len)
<1>1. c \in Clients
  BY DEF ClientTypeOK
<1>2. Settled(c) \in Clients
  BY <1>1, BodyTypes DEF Settled, Clients
<1>3. /\ Settled(c).local = c.local /\ Settled(c).base = 1
      /\ Settled(c).pc = c.pc /\ Settled(c).cur = c.cur
  BY <1>1 DEF Settled, Clients
<1>4. ASSUME NEW len \in Nat, len >= n PROVE ClientTypeOK(Settled(c), len)
  BY <1>2, <1>3, <1>4 DEF ClientTypeOK
<1>5. ASSUME NEW len \in Nat, NEW v \in 1..len, len >= n
      PROVE  ClientTypeOK([Settled(c) EXCEPT !.local = v], len)
  BY <1>2, <1>4, <1>5 DEF ClientTypeOK, Clients
<1>. QED  BY <1>2, <1>4, <1>5

LEMMA WriteStep ==
  ASSUME TypeOK, NEW p \in Procs, NEW c, ClientTypeOK(c, Current),
         NEW f, ClientTypeOK(f, Current),
         NEW retry \in Steps, client[p].pc \in Handling \/ retry \notin Handling,
         \/ Smooth /\ Accepted(p, c)
         \/ Smooth /\ Conflict(p, retry)
         \/ Failed(p, f),
         UNCHANGED <<sent, delivered, log, reports>>
  PROVE  TypeOK'
<1>1. /\ client[p] \in Clients /\ client[p].body \in Bodies
      /\ meta \in Seq(Bodies) /\ meta # <<>>
      /\ Current \in Nat /\ Current >= 1
  BY Held DEF Clients, TypeOK, CentreTypeOK
<1>2. disruptions' \in 0..MaxDisruptions
  BY ConstantsAssumption DEF TypeOK, CentreTypeOK, Smooth, Failed, Disrupt
<1>3. CASE UNCHANGED meta /\ Conflict(p, retry)
  <2>. DEFINE v == IF Current > client[p].local THEN Current ELSE client[p].local
              d == [Settled(client[p]) EXCEPT !.pc = retry, !.local = v]
  <2>1. CentreTypeOK' /\ Current' = Current
    BY <1>1, <1>2, <1>3 DEF TypeOK, CentreTypeOK, Current
  <2>2. v \in 1..Current
    BY Held DEF ClientTypeOK
  <2>3. ClientTypeOK([client[p] EXCEPT !.pc = retry], Current)
    BY Held DEF ClientTypeOK, Clients
  <2>4. d = [Settled([client[p] EXCEPT !.pc = retry]) EXCEPT !.local = v]
    BY <1>1 DEF Settled, Clients
  <2>5. ClientTypeOK(d, Current)
    BY <1>1, <2>2, <2>3, <2>4, SettledType
  <2>6. Become(p, d)
    BY <1>3, <1>1 DEF Conflict, Settled, Clients
  <2>. QED  BY <1>1, <2>1, <2>5, <2>6, CentreStep
<1>4. CASE UNCHANGED meta /\ Failed(p, f)
  <2>1. CentreTypeOK' /\ Current' = Current
    BY <1>1, <1>2, <1>4 DEF TypeOK, CentreTypeOK, Current
  <2>2. ClientTypeOK(Settled(f), Current)
    BY <1>1, SettledType
  <2>. QED  BY <1>1, <1>4, <2>1, <2>2, CentreStep DEF Failed
<1>5. CASE meta' = Append(meta, client[p].body)
  <2>1. CentreTypeOK' /\ Current' = Current + 1
    BY <1>1, <1>2, <1>5 DEF TypeOK, CentreTypeOK, Current
  <2>2. /\ ClientTypeOK(Settled(f), Current + 1)
        /\ ClientTypeOK([Settled(c) EXCEPT !.local = Current + 1], Current + 1)
    BY <1>1, SettledType
  <2>3. ~Conflict(p, retry)
    BY <1>1, <1>5 DEF Conflict
  <2>. QED  BY <1>1, <2>1, <2>2, <2>3, CentreStep DEF Accepted, Failed
<1>. QED  BY <1>3, <1>4, <1>5 DEF Accepted, Conflict, Failed

\* Starting a metadata write.
LEMMA SubmitStep ==
  ASSUME TypeOK, NEW p \in Procs, NEW body \in Bodies, NEW waiting \in Steps,
         Submit(p, body, waiting), client[p].pc \in Handling \/ waiting \notin Handling,
         UNCHANGED <<sent, delivered, meta, log, reports, disruptions>>
  PROVE  TypeOK'
<1>. DEFINE c == [client[p] EXCEPT !.pc = waiting, !.base = client[p].local, !.body = body]
<1>1. ClientTypeOK(c, Current)
  BY Held DEF ClientTypeOK, Clients
<1>2. Become(p, c)
  BY DEF Submit
<1>. HIDE DEF c
<1>. QED  BY <1>1, <1>2, LocalStep DEF Smooth

LEMMA TypeTick ==
  ASSUME TypeOK, NEW p \in Procs, BeginTick(p) \/ ListDone(p)  PROVE TypeOK'
<1>0. client[p] \in Clients /\ ClientTypeOK(client[p], Current)
  BY Held
<1>1. ASSUME NEW after \in {"receive", "idle"}
      PROVE  ClientTypeOK(SweepFrom(p, after), Current)
  <2>1. InPhase(Local(p).inbox, "processed") \subseteq Mails
    BY Held
  <2>. QED  BY <1>0, <1>1, <2>1 DEF SweepFrom, ClientTypeOK, Clients, Steps, Handling
<1>. QED  BY <1>1, LocalStep DEF BeginTick, ListDone, Smooth

LEMMA TypeSweep ==
  ASSUME TypeOK, NEW p \in Procs, SweepDone(p) \/ Ack(p) \/ Mark(p) \/ MarkWritten(p)
  PROVE  TypeOK'
<1>0. client[p] \in Clients /\ ClientTypeOK(client[p], Current)
  BY Held
<1>1. ClientTypeOK(SweepOver(client[p]), Current)
  BY <1>0 DEF SweepOver, ClientTypeOK, Clients, Steps, Handling
<1>2. CASE SweepDone(p)
  BY <1>1, <1>2, LocalStep DEF SweepDone, Smooth
<1>3. CASE Ack(p)
  <2>1. PICK b \in Batches(client[p].ids) : Ack(p)!3!(b)
    BY <1>3 DEF Ack
  <2>2. b \subseteq Mails
    BY Held DEF Batches, Clients
  <2>3. ClientTypeOK([client[p] EXCEPT !.pc = "mark", !.batch = b, !.ids = @ \ b], Current)
    BY <1>0, <2>2 DEF ClientTypeOK, Clients, Steps, Handling
  <2>4. CentreTypeOK' /\ Current' = Current
    <3>1. delivered' \subseteq Mails
      BY <2>1, <2>2 DEF TypeOK, CentreTypeOK
    <3>2. disruptions' \in 0..MaxDisruptions
      BY <2>1, ConstantsAssumption DEF TypeOK, CentreTypeOK, Smooth, Disrupt
    <3>. QED  BY <1>3, <3>1, <3>2 DEF Ack, TypeOK, CentreTypeOK, Current
  <2>5. Current' >= Current
    BY <2>4, Held
  <2>. QED  BY <1>1, <2>1, <2>3, <2>4, <2>5, CentreStep
<1>4. CASE Mark(p)
  <2>1. PICK inbox \in Marked(Local(p).inbox, client[p].batch) :
          Submit(p, [Local(p) EXCEPT !.inbox = inbox], "marking")
    BY <1>4 DEF Mark
  <2>2. [Local(p) EXCEPT !.inbox = inbox] \in Bodies
    BY <2>1, Held, MarkedType DEF Bodies
  <2>. QED  BY <1>4, <2>1, <2>2, SubmitStep DEF Mark, Steps, Handling
<1>5. CASE MarkWritten(p)
  <2>1. ClientTypeOK([client[p] EXCEPT !.pc = "sweep", !.batch = {}], Current)
    BY <1>0 DEF ClientTypeOK, Clients, Steps, Handling
  <2>2. ClientTypeOK(SweepOver([client[p] EXCEPT !.after = "idle"]), Current)
    BY <1>0 DEF SweepOver, ClientTypeOK, Clients, Steps, Handling
  <2>3. "mark" \in Steps /\ "mark" \notin Handling
    BY DEF Steps, Handling
  <2>. QED  BY <1>5, <2>1, <2>2, <2>3, WriteStep DEF MarkWritten
<1>. QED  BY <1>2, <1>3, <1>4, <1>5

LEMMA TypeNextLetter ==
  ASSUME NEW c, NEW n, ClientTypeOK(c, n)  PROVE ClientTypeOK(NextLetter(c), n)
<1>1. c \in Clients
  BY DEF ClientTypeOK
<1>. QED  BY <1>1, BodyTypes DEF NextLetter, ClientTypeOK, Clients, Steps, Handling

LEMMA TypeReceive ==
  ASSUME TypeOK, NEW p \in Procs, Receive(p)  PROVE TypeOK'
<1>0. client[p] \in Clients /\ ClientTypeOK(client[p], Current)
  BY Held
<1>1. Oldest(1..sent \ delivered) \subseteq Mails
  BY ConstantsAssumption DEF Oldest, TypeOK, CentreTypeOK, Mails
<1>2. ClientTypeOK([client[p] EXCEPT !.pc = "next", !.fetched = Oldest(1..sent \ delivered)], Current)
  BY <1>0, <1>1 DEF ClientTypeOK, Clients, Steps, Handling
<1>3. ClientTypeOK([client[p] EXCEPT !.pc = "next"], Current)
  BY <1>0 DEF ClientTypeOK, Clients, Steps, Handling
<1>. QED  BY <1>2, <1>3, LocalStep DEF Receive

LEMMA TypeTake ==
  ASSUME TypeOK, NEW p \in Procs, Take(p)  PROVE TypeOK'
<1>0. client[p] \in Clients /\ ClientTypeOK(client[p], Current)
  BY Held
<1>. PICK m \in client[p].fetched : Take(p)!2!(m)
  BY DEF Take
<1>. DEFINE c == [client[p] EXCEPT !.fetched = @ \ {m}, !.cur = m]
            r == Local(p).inbox[m]
<1>1. m \in Mails /\ m \in Nat /\ r \in Receipts
  <2>1. m \in Mails
    BY <1>0 DEF Clients
  <2>2. m \in Nat
    BY <2>1, ConstantsAssumption DEF Mails
  <2>. QED  BY <2>1, <2>2, Held
<1>2. c \in Clients /\ ClientTypeOK(c, Current)
  BY <1>0, <1>1 DEF ClientTypeOK, Clients
<1>3. c.cur = m
  BY <1>0 DEF Clients
<1>. HIDE DEF c, r
<1>4. ClientTypeOK([c EXCEPT !.pc = "validate"], Current)
  BY <1>1, <1>2, <1>3 DEF ClientTypeOK, Clients, Steps, Handling
<1>5. ClientTypeOK([c EXCEPT !.pc = "store", !.receipt = r], Current)
  BY <1>1, <1>2, <1>3 DEF ClientTypeOK, Clients, Steps, Handling
<1>6. ClientTypeOK(NextLetter(c), Current)
  BY <1>2, TypeNextLetter
<1>7. r.phase \in Phases
  BY <1>1 DEF Receipts
<1>8. \/ Become(p, [c EXCEPT !.pc = "validate"])
      \/ Become(p, [c EXCEPT !.pc = "store", !.receipt = r])
      \/ Become(p, NextLetter(c))
  BY <1>7 DEF c, r, Phases
<1>. QED  BY <1>4, <1>5, <1>6, <1>8, LocalStep DEF Take, Smooth

LEMMA TypeProcess ==
  ASSUME TypeOK, NEW p \in Procs,
         Validate(p) \/ Project(p) \/ Store(p) \/ Stored(p) \/ Finish(p)
  PROVE  TypeOK'
<1>0. client[p] \in Clients /\ ClientTypeOK(client[p], Current) /\ Current \in Nat
  BY Held
<1>1. ClientTypeOK(NextLetter(client[p]), Current)
  BY <1>0, TypeNextLetter
<1>2. CASE Validate(p)
  <2>0. client[p].pc \in Handling
    BY <1>2 DEF Validate, At, Handling
  <2>1. ASSUME NEW plan \in PlansAt(Current)
        PROVE  ClientTypeOK([client[p] EXCEPT !.pc = "project", !.receipt = plan], Current)
    <3>1. plan \in Receipts
      BY <1>0, <2>1 DEF PlansAt, Receipts, Phases
    <3>. QED  BY <1>0, <2>0, <3>1 DEF ClientTypeOK, Clients, Steps
  <2>. QED  BY <1>1, <1>2, <2>1, LocalStep DEF Validate
<1>3. CASE Project(p)
  <2>1. client[p].pc \in Handling /\ client[p].cur \in Mails /\ client[p].receipt \in Receipts
    BY <1>0, <1>3 DEF Project, At, Handling, ClientTypeOK, Clients
  <2>2. CASE Become(p, NextLetter(client[p]))
    BY <1>1, <1>3, <2>2, LocalStep DEF Project, Smooth
  <2>3. CASE \E body \in Projections(Local(p), client[p].cur, client[p].receipt) :
               Submit(p, body, "projecting")
    <3>1. PICK body \in Projections(Local(p), client[p].cur, client[p].receipt) :
            Submit(p, body, "projecting")
      BY <2>3
    <3>2. body \in Bodies
      BY <2>1, Held, ProjectionsType
    <3>. QED  BY <1>3, <2>1, <3>1, <3>2, SubmitStep DEF Project, Steps
  <2>. QED  BY <1>3, <2>2, <2>3 DEF Project
<1>4. CASE Store(p)
  <2>. DEFINE m == client[p].cur
              box == [client[p].outbox EXCEPT ![m] = IF @ = "none" THEN client[p].receipt.kind ELSE @]
  <2>1. client[p].pc \in Handling /\ m \in Mails /\ client[p].receipt.kind \in Kinds
    BY <1>0, <1>4 DEF Store, At, Handling, ClientTypeOK, Clients, Receipts
  <2>2. box \in [Mails -> Kinds \cup {"none"}]
    BY <1>0, <2>1 DEF Clients
  <2>3. Become(p, [client[p] EXCEPT !.pc = "storing", !.outbox = box])
    BY <1>0, <1>4 DEF Store, Clients
  <2>. HIDE DEF box
  <2>4. ClientTypeOK([client[p] EXCEPT !.pc = "storing", !.outbox = box], Current)
    BY <1>0, <2>1, <2>2 DEF ClientTypeOK, Clients, Steps
  <2>. QED  BY <1>4, <2>3, <2>4, LocalStep DEF Store, Smooth
<1>5. CASE Stored(p)
  <2>1. client[p].pc \in Handling
    BY <1>5 DEF Stored, At, Handling
  <2>2. ASSUME NEW pc \in {"report", "finish"}
        PROVE  ClientTypeOK([client[p] EXCEPT !.pc = pc], Current)
    BY <1>0, <2>1, <2>2 DEF ClientTypeOK, Clients, Steps
  <2>. QED  BY <1>1, <1>5, <2>2, LocalStep DEF Stored
<1>6. CASE Finish(p)
  <2>. DEFINE m == client[p].cur
              done == [Local(p) EXCEPT !.inbox[m].phase = "processed"]
  <2>1. client[p].pc \in Handling /\ m \in Mails
    BY <1>0, <1>6 DEF Finish, At, Handling, ClientTypeOK
  <2>2. Local(p) \in Bodies /\ Local(p).inbox[m] \in Receipts
    BY <2>1, Held
  <2>3. [Local(p).inbox[m] EXCEPT !.phase = "processed"] \in Receipts
    BY <2>2 DEF Receipts, Phases
  <2>4. done \in Bodies
    BY <2>1, <2>2, <2>3 DEF Bodies
  <2>5. \/ Become(p, NextLetter(client[p]))
        \/ Submit(p, done, "finishing")
        \/ Submit(p, Local(p), "finishing")
    BY <1>6 DEF Finish
  <2>. HIDE DEF done
  <2>6. UNCHANGED <<sent, delivered, meta, log, reports, disruptions>>
    BY <1>6 DEF Finish
  <2>7. "finishing" \in Steps
    BY DEF Steps
  <2>. QED  BY <1>1, <2>1, <2>2, <2>4, <2>5, <2>6, <2>7, SubmitStep, LocalStep DEF Smooth
<1>. QED  BY <1>2, <1>3, <1>4, <1>5, <1>6

LEMMA TypeWritten ==
  ASSUME TypeOK, NEW p \in Procs, ProjectWritten(p) \/ FinishWritten(p)  PROVE TypeOK'
<1>0. client[p] \in Clients /\ ClientTypeOK(client[p], Current)
  BY Held
<1>1. client[p].pc \in Handling /\ client[p].cur \in Mails
  BY <1>0 DEF ProjectWritten, FinishWritten, At, Handling, ClientTypeOK
<1>2. ClientTypeOK(NextLetter(client[p]), Current)
  BY <1>0, TypeNextLetter
<1>3. "project" \in Steps /\ "finish" \in Steps
  BY DEF Steps
<1>4. CASE ProjectWritten(p)
  <2>. DEFINE r == client[p].body.inbox[client[p].cur]
              c == IF r.phase = "projected"
                   THEN [client[p] EXCEPT !.pc = "store", !.receipt = r]
                   ELSE NextLetter(client[p])
  <2>1. r \in Receipts
    BY <1>0, <1>1 DEF Clients, Bodies
  <2>2. ClientTypeOK([client[p] EXCEPT !.pc = "store", !.receipt = r], Current)
    BY <1>0, <1>1, <2>1 DEF ClientTypeOK, Clients, Steps
  <2>3. ClientTypeOK(c, Current)
    BY <1>2, <2>2
  <2>4. /\ \/ Smooth /\ Accepted(p, c)
           \/ Smooth /\ Conflict(p, "project")
           \/ Failed(p, NextLetter(client[p]))
        /\ UNCHANGED <<sent, delivered, log, reports>>
    BY <1>4 DEF ProjectWritten
  <2>. HIDE DEF c
  <2>. QED  BY <1>1, <1>2, <1>3, <2>3, <2>4, WriteStep
<1>5. CASE FinishWritten(p)
  BY <1>1, <1>2, <1>3, <1>5, WriteStep DEF FinishWritten
<1>. QED  BY <1>4, <1>5

LEMMA TypeEffects ==
  ASSUME TypeOK, NEW p \in Procs, Flush(p) \/ Report(p)  PROVE TypeOK'
<1>0. client[p] \in Clients /\ ClientTypeOK(client[p], Current) /\ Current \in Nat
  BY Held
<1>1. CASE Flush(p)
  <2>1. log' \in [Mails -> Kinds \cup {"none"}]
    BY <1>0, <1>1 DEF Flush, TypeOK, CentreTypeOK, Clients
  <2>2. disruptions' \in 0..MaxDisruptions
    BY <1>1, ConstantsAssumption DEF Flush, TypeOK, CentreTypeOK, Smooth, Disrupt
  <2>3. CentreTypeOK' /\ Current' = Current
    BY <1>1, <2>1, <2>2 DEF Flush, TypeOK, CentreTypeOK, Current
  <2>4. ClientTypeOK([client[p] EXCEPT !.outbox = EmptyOutbox], Current)
    BY <1>0, BodyTypes DEF ClientTypeOK, Clients
  <2>. QED  BY <1>0, <1>1, <2>3, <2>4, CentreStep DEF Flush
<1>2. CASE Report(p)
  <2>1. client[p].pc \in Handling /\ client[p].cur \in Mails
    BY <1>0, <1>2 DEF Report, At, Handling, ClientTypeOK
  <2>2. Reported(client[p].cur) \in [Mails -> Nat]
    <3>1. reports \in [Mails -> Nat]
      BY DEF TypeOK, CentreTypeOK
    <3>2. (IF client[p].cur \in Tasks THEN 1 ELSE reports[client[p].cur] + 1) \in Nat
      BY <2>1, <3>1
    <3>. QED  BY <3>1, <3>2 DEF Reported
  <2>3. reports' \in [Mails -> Nat]
    BY <1>2, <2>2 DEF Report, TypeOK, CentreTypeOK
  <2>4. disruptions' \in 0..MaxDisruptions
    BY <1>2, ConstantsAssumption DEF Report, TypeOK, CentreTypeOK, Smooth, Disrupt
  <2>5. CentreTypeOK' /\ Current' = Current
    BY <1>2, <2>3, <2>4 DEF Report, TypeOK, CentreTypeOK, Current
  <2>6. ClientTypeOK([client[p] EXCEPT !.pc = "finish"], Current)
    BY <1>0, <2>1 DEF ClientTypeOK, Clients, Steps
  <2>7. ClientTypeOK(NextLetter(client[p]), Current)
    BY <1>0, TypeNextLetter
  <2>. QED  BY <1>0, <1>2, <2>5, <2>6, <2>7, CentreStep DEF Report
<1>. QED  BY <1>1, <1>2

LEMMA TypeLocal ==
  ASSUME NEW c, NEW n \in Nat, ClientTypeOK(c, n), NEW v \in 1..n
  PROVE  ClientTypeOK([c EXCEPT !.local = v], n)
BY DEF ClientTypeOK, Clients

LEMMA TypeEnvironment ==
  ASSUME TypeOK, NEW p \in Procs, Environment(p)  PROVE TypeOK'
<1>0. client[p] \in Clients /\ ClientTypeOK(client[p], Current) /\ Current \in Nat \ {0}
  BY Held
<1>1. Down \in Clients /\ ClientTypeOK(Down, Current)
  BY <1>0, BodyTypes DEF Down, Clients, ClientTypeOK, Steps, Handling
<1>2. CASE Push(p)
  <2>1. PICK v \in (client[p].local + 1)..Current : Become(p, [client[p] EXCEPT !.local = v])
    BY <1>2 DEF Push
  <2>2. ClientTypeOK([client[p] EXCEPT !.local = v], Current)
    BY <1>0 DEF ClientTypeOK, Clients
  <2>. QED  BY <1>2, <2>1, <2>2, LocalStep DEF Push, Smooth
<1>3. CASE Start(p)
  <2>1. PICK v \in 1..Current : Become(p, [Down EXCEPT !.pc = "idle", !.local = v])
    BY <1>3 DEF Start
  <2>2. ClientTypeOK([Down EXCEPT !.pc = "idle"], Current)
    BY <1>1 DEF ClientTypeOK, Clients, Steps, Handling
  <2>3. ClientTypeOK([[Down EXCEPT !.pc = "idle"] EXCEPT !.local = v], Current)
    BY <1>0, <2>2, TypeLocal
  <2>4. [[Down EXCEPT !.pc = "idle"] EXCEPT !.local = v] = [Down EXCEPT !.pc = "idle", !.local = v]
    OBVIOUS
  <2>. QED  BY <1>3, <2>1, <2>3, <2>4, LocalStep DEF Start, Smooth
<1>4. CASE Crash(p) \/ Close(p)
  BY <1>1, <1>4, LocalStep DEF Crash, Close, Smooth
<1>5. CASE Stop(p)
  <2>. DEFINE c == [Down EXCEPT !.pc = "stopped", !.local = client[p].local,
                                !.outbox = client[p].outbox]
  <2>1. client[p].local \in 1..Current /\ client[p].outbox \in [Mails -> Kinds \cup {"none"}]
    BY <1>0 DEF ClientTypeOK, Clients
  <2>2. c \in Clients
    BY <1>0, <1>1, <2>1 DEF Clients, Steps
  <2>3. c.local = client[p].local /\ c.base = 1 /\ c.pc = "stopped"
    BY <1>1 DEF Clients, Down
  <2>4. ClientTypeOK(c, Current)
    BY <1>0, <2>1, <2>2, <2>3 DEF ClientTypeOK, Handling
  <2>. QED  BY <1>5, <2>4, LocalStep DEF Stop
<1>. QED  BY <1>2, <1>3, <1>4, <1>5 DEF Environment

LEMMA TypeCentre ==
  ASSUME TypeOK, Send \/ ForeignWrite  PROVE TypeOK'
<1>1. meta \in Seq(Bodies) /\ meta # <<>> /\ Latest \in Bodies
  BY DEF TypeOK, CentreTypeOK, Latest, Current
<1>2. CentreTypeOK'
  <2>1. sent' \in 0..NumMails /\ disruptions' \in 0..MaxDisruptions
    BY ConstantsAssumption DEF Send, ForeignWrite, Disrupt, TypeOK, CentreTypeOK
  <2>2. meta' \in Seq(Bodies) /\ meta' # <<>>
    BY <1>1 DEF Send, ForeignWrite
  <2>. QED  BY <2>1, <2>2 DEF Send, ForeignWrite, TypeOK, CentreTypeOK
<1>3. Current \in Nat /\ Current' \in Nat /\ Current' >= Current
  BY <1>1 DEF Send, ForeignWrite, Current
<1>4. ASSUME NEW q \in Procs PROVE ClientTypeOK(client[q], Current')
  BY <1>3, <1>4 DEF TypeOK, ClientTypeOK
<1>. QED  BY <1>2, <1>4 DEF TypeOK, Send, ForeignWrite

\* Every variable keeps its type, and no process ever holds a version of the
\* metadata that the centre never had.
THEOREM TypeCorrect == Spec => []TypeOK
<1>1. Init => TypeOK
  BY TypeInit
<1>2. TypeOK /\ [Next]_vars => TypeOK'
  <2>. SUFFICES ASSUME TypeOK, [Next]_vars PROVE TypeOK'
    OBVIOUS
  <2>1. CASE UNCHANGED vars
    BY <2>1 DEF vars, TypeOK, CentreTypeOK, ClientTypeOK, Current
  <2>2. CASE Send \/ ForeignWrite
    BY <2>2, TypeCentre
  <2>3. ASSUME NEW p \in Procs, Loop(p) \/ Flush(p) \/ Environment(p) PROVE TypeOK'
    BY <2>3, TypeTick, TypeSweep, TypeReceive, TypeTake, TypeProcess, TypeWritten,
       TypeEffects, TypeEnvironment DEF Loop
  <2>. QED  BY <2>1, <2>2, <2>3 DEF Next
<1>. QED  BY <1>1, <1>2, PTL DEF Spec

-----------------------------------------------------------------------------
(* Ranks, bodies and what comes after what.                                 *)

LEMMA Ranks ==
  ASSUME NEW b \in Bodies, NEW m \in Mails
  PROVE  /\ b.inbox[m] \in Receipts /\ b.inbox[m].phase \in Phases /\ b.inbox[m].kind \in Kinds
         /\ Rank(b, m) \in 0..3 /\ b.board[m] \in Nat
         /\ Known(b, m) <=> Rank(b, m) >= 1
         /\ Done(b, m) <=> Rank(b, m) >= 2
<1>1. b.inbox[m] \in Receipts /\ b.board[m] \in Nat
  BY DEF Bodies
<1>2. b.inbox[m].phase \in Phases /\ b.inbox[m].kind \in Kinds
  BY <1>1 DEF Receipts
<1>. QED  BY <1>1, <1>2 DEF Phases, Rank, PhaseRank, Known, Done

LEMMA LaterFacts ==
  ASSUME NEW b \in Bodies, NEW c \in Bodies, Later(b, c), NEW m \in Mails
  PROVE  /\ Known(b, m) => Known(c, m) /\ c.inbox[m].kind = b.inbox[m].kind
         /\ Done(b, m) => Done(c, m)
BY Ranks DEF Later

LEMMA LaterOrder ==
  /\ \A b \in Bodies : Later(b, b)
  /\ \A b, c, d \in Bodies : Later(b, c) /\ Later(c, d) => Later(b, d)
<1>1. ASSUME NEW b \in Bodies PROVE Later(b, b)
  BY Ranks DEF Later
<1>2. ASSUME NEW b \in Bodies, NEW c \in Bodies, NEW d \in Bodies, Later(b, c), Later(c, d)
      PROVE  Later(b, d)
  <2>1. ASSUME NEW m \in Mails
        PROVE  /\ Rank(d, m) >= Rank(b, m)
               /\ Known(b, m) => d.inbox[m].kind = b.inbox[m].kind
    <3>1. Rank(b, m) \in 0..3 /\ Rank(c, m) \in 0..3 /\ Rank(d, m) \in 0..3
      BY Ranks
    <3>2. Known(b, m) => Known(c, m)
      BY <1>2, LaterFacts
    <3>. QED  BY <1>2, <3>1, <3>2 DEF Later
  <2>. QED  BY <2>1 DEF Later
<1>. QED  BY <1>1, <1>2

-----------------------------------------------------------------------------
(* With room for every letter nothing is evicted.                           *)

LEMMA MailsFinite == IsFiniteSet(Mails) /\ Cardinality(Mails) = NumMails
BY FS_Interval, ConstantsAssumption DEF Mails

LEMMA DropNone ==
  ASSUME NEW inbox \in [Mails -> Receipts]  PROVE Dropping(inbox, 0) = {inbox}
<1>. DEFINE acked == InPhase(inbox, "acked")
            Dropped == {S \in SUBSET acked : Cardinality(S) = 0 /\
                          \A d \in S, k \in acked \ S : inbox[d].at <= inbox[k].at}
<1>1. IsFiniteSet(acked)
  <2>1. acked \in SUBSET Mails
    BY DEF InPhase
  <2>. QED  BY <2>1, MailsFinite, FS_Subset
<1>2. ASSUME NEW S \in SUBSET acked PROVE Cardinality(S) = 0 <=> S = {}
  BY <1>1, FS_Subset, FS_EmptySet
<1>3. Dropped = {{}}
  BY <1>2
<1>4. Forget(inbox, {}) = inbox
  BY DEF Forget
<1>5. Dropping(inbox, 0) = {Forget(inbox, D) : D \in Dropped}
  BY DEF Dropping
<1>. HIDE DEF Dropped
<1>. QED  BY <1>3, <1>4, <1>5

LEMMA RoomForAll ==
  ASSUME NoEviction, NEW inbox \in [Mails -> Receipts], NEW m \in Mails, inbox[m].phase = "none"
  PROVE  RoomFor(inbox) = {inbox}
<1>1. Present(inbox) \in SUBSET (Mails \ {m})
  BY DEF Present, InPhase
<1>2. IsFiniteSet(Mails \ {m}) /\ Cardinality(Mails \ {m}) = NumMails - 1
  BY MailsFinite, FS_RemoveElement
<1>3. Cardinality(Present(inbox)) <= NumMails - 1 /\ Cardinality(Present(inbox)) \in Nat
  BY <1>1, <1>2, FS_Subset, FS_CardinalityType
<1>4. Excess(Cardinality(Present(inbox)) + 1, InboxLimit) = 0
  BY <1>3, ConstantsAssumption DEF Excess, NoEviction
<1>. QED  BY <1>4, DropNone DEF RoomFor

LEMMA MarkAll ==
  ASSUME NoEviction, NEW inbox \in [Mails -> Receipts], NEW batch
  PROVE  Marked(inbox, batch) =
           {[m \in Mails |-> IF m \in batch /\ inbox[m].phase = "processed"
                             THEN [inbox[m] EXCEPT !.phase = "acked"] ELSE inbox[m]]}
<1>. DEFINE acked == [m \in DOMAIN inbox |->
                        IF m \in batch /\ inbox[m].phase = "processed"
                        THEN [inbox[m] EXCEPT !.phase = "acked"] ELSE inbox[m]]
<1>1. acked \in [Mails -> Receipts]
  BY DEF Receipts, Phases
<1>2. Marked(inbox, batch) = Dropping(acked, Excess(Cardinality(InPhase(acked, "acked")), AckedKept))
  BY DEF Marked
<1>3. acked = [m \in Mails |-> IF m \in batch /\ inbox[m].phase = "processed"
                              THEN [inbox[m] EXCEPT !.phase = "acked"] ELSE inbox[m]]
  OBVIOUS
<1>. HIDE DEF acked
<1>4. InPhase(acked, "acked") \in SUBSET Mails
  BY <1>1 DEF InPhase
<1>5. Cardinality(InPhase(acked, "acked")) <= NumMails /\ Cardinality(InPhase(acked, "acked")) \in Nat
  BY <1>4, MailsFinite, FS_Subset, FS_CardinalityType
<1>6. Excess(Cardinality(InPhase(acked, "acked")), AckedKept) = 0
  BY <1>5, ConstantsAssumption DEF Excess, NoEviction
<1>. QED  BY <1>1, <1>2, <1>3, <1>6, DropNone

-----------------------------------------------------------------------------
(* Steps, for the processes that do not take them.                          *)

\* The metadata, the log, the reports and the letters only ever grow.
Grow ==
  /\ Later(Latest, Latest')
  /\ Current <= Current' /\ \A v \in 1..Current : meta'[v] = meta[v]
  /\ \A m \in Mails : /\ log[m] # "none" => log'[m] = log[m]
                      /\ (reports[m] >= 1 => reports'[m] >= 1)
  /\ sent' >= sent

LEMMA Typed ==
  ASSUME TypeOK
  PROVE  /\ Current \in Nat \ {0} /\ Latest \in Bodies
         /\ \A v \in 1..Current : meta[v] \in Bodies
         /\ \A p \in Procs : /\ client[p] \in Clients /\ ClientTypeOK(client[p], Current)
                             /\ client[p].body \in Bodies /\ meta[client[p].base] \in Bodies
         /\ \A m \in Mails : log[m] \in Kinds \cup {"none"} /\ reports[m] \in Nat
         /\ sent \in Nat
<1>1. meta \in Seq(Bodies) /\ meta # <<>>
  BY DEF TypeOK, CentreTypeOK
<1>2. Current \in Nat \ {0} /\ Latest \in Bodies /\ \A v \in 1..Current : meta[v] \in Bodies
  BY <1>1 DEF Current, Latest
<1>3. \A p \in Procs : client[p] \in Clients /\ ClientTypeOK(client[p], Current)
  BY DEF TypeOK, ClientTypeOK
<1>4. \A p \in Procs : client[p].body \in Bodies /\ meta[client[p].base] \in Bodies
  BY <1>2, <1>3 DEF ClientTypeOK, Clients
<1>5. \A m \in Mails : log[m] \in Kinds \cup {"none"} /\ reports[m] \in Nat
  BY DEF TypeOK, CentreTypeOK
<1>6. sent \in Nat
  BY ConstantsAssumption DEF TypeOK, CentreTypeOK
<1>. QED  BY <1>2, <1>3, <1>4, <1>5, <1>6

LEMMA SupportedGrows ==
  ASSUME TypeOK, TypeOK', Grow, NEW b \in Bodies, Supported(b)
  PROVE  \A m \in Mails : Done(b, m) =>
           log'[m] # "none" /\ (b.inbox[m].kind = "rejection" => reports'[m] >= 1)
<1>1. \A m \in Mails : reports[m] \in Nat /\ reports'[m] \in Nat
  BY DEF TypeOK, CentreTypeOK
<1>. QED  BY <1>1 DEF Supported, Grow

LEMMA PartsGrow ==
  ASSUME TypeOK, TypeOK', Grow, NEW c, ClientTypeOK(c, Current)
  PROVE  /\ WriteOK(c) => WriteOK(c)'
         /\ PlanOK(c, Latest) => PlanOK(c, Latest)'
         /\ StepOK(c) => StepOK(c)'
         /\ OutboxOK(c, Latest) => OutboxOK(c, Latest)'
         /\ SweepOK(c, Latest) => SweepOK(c, Latest)'
         /\ FetchOK(c) => FetchOK(c)'
<1>0. /\ c \in Clients /\ c.base \in 1..Current /\ c.body \in Bodies
      /\ c.pc \in Handling => c.cur \in Mails
  BY DEF ClientTypeOK, Clients
<1>1. Latest \in Bodies /\ Latest' \in Bodies /\ Later(Latest, Latest')
  <2>1. meta' \in Seq(Bodies) /\ meta' # <<>>
    BY DEF TypeOK, CentreTypeOK
  <2>2. Latest' \in Bodies
    BY <2>1 DEF Latest, Current
  <2>. QED  BY <2>2, Typed DEF Grow
<1>2. meta'[c.base] = meta[c.base]
  BY <1>0 DEF Grow
<1>3. WriteOK(c) => WriteOK(c)'
  <2>1. SUFFICES ASSUME WriteOK(c), Writing(c) PROVE WriteOK(c)'
    BY DEF WriteOK, Writing
  <2>2. \A m \in Mails : Done(c.body, m) =>
          log'[m] # "none" /\ (c.body.inbox[m].kind = "rejection" => reports'[m] >= 1)
    BY <1>0, <2>1, SupportedGrows DEF WriteOK
  <2>. QED  BY <1>2, <2>1, <2>2 DEF WriteOK, Writing, Supported, Sound, Known, Done, Later, Rank
<1>4. PlanOK(c, Latest) => PlanOK(c, Latest)'
  BY <1>0, <1>1, LaterFacts DEF PlanOK, Handling
<1>5. StepOK(c) => StepOK(c)'
  <2>1. \A m \in Mails : reports[m] \in Nat /\ reports'[m] \in Nat
    BY DEF TypeOK, CentreTypeOK
  <2>. QED  BY <1>0, <2>1 DEF StepOK, Grow, Handling
<1>6. OutboxOK(c, Latest) => OutboxOK(c, Latest)'
  BY <1>1, LaterFacts DEF OutboxOK
<1>7. SweepOK(c, Latest) => SweepOK(c, Latest)'
  <2>1. c.ids \cup c.batch \subseteq Mails
    BY <1>0 DEF Clients
  <2>. QED  BY <1>1, <2>1, LaterFacts DEF SweepOK
<1>8. FetchOK(c) => FetchOK(c)'
  BY Typed, ConstantsAssumption DEF FetchOK, Grow, TypeOK, CentreTypeOK
<1>. QED  BY <1>3, <1>4, <1>5, <1>6, <1>7, <1>8

LEMMA ClientGrows ==
  ASSUME TypeOK, TypeOK', Grow, NEW q \in Procs, client'[q] = client[q], ClientOK(client[q], Latest)
  PROVE  ClientOK(client[q], Latest)'
<1>1. ClientTypeOK(client[q], Current)
  BY Typed
<1>2. \E c : c = client[q]
  OBVIOUS
<1>3. PICK c : c = client[q]
  BY <1>2
<1>4. WriteOK(c)' /\ PlanOK(c, Latest)' /\ StepOK(c)' /\ OutboxOK(c, Latest)' /\ SweepOK(c, Latest)' /\ FetchOK(c)'
  BY <1>1, <1>3, PartsGrow DEF ClientOK
<1>5. client'[q] = c
  BY <1>3
<1>. QED  BY <1>4, <1>5 DEF ClientOK, WriteOK, PlanOK, StepOK, OutboxOK, SweepOK, FetchOK, Writing,
     Sound, Supported, Later, Known, Done, Rank

\* What is left to show of a step of p.
LEMMA Frame ==
  ASSUME TypeOK, TypeOK', SafetyInv, Grow, NEW p \in Procs,
         \A q \in Procs \ {p} : client'[q] = client[q],
         ClientOK(client[p], Latest)',
         Provided', Sound(Latest'), Supported(Latest)',
         Current' \in {Current, Current + 1}
  PROVE  SafetyInv'
<1>1. ASSUME NEW q \in Procs PROVE ClientOK(client[q], Latest)'
  <2>1. CASE q = p
    BY <2>1
  <2>2. CASE q # p
    BY <2>2, ClientGrows DEF SafetyInv
  <2>. QED  BY <2>1, <2>2
<1>2. Current \in Nat /\ Latest \in Bodies /\ \A v \in 1..Current : meta[v] \in Bodies
  BY Typed
<1>3. Latest' \in Bodies
  <2>1. meta' \in Seq(Bodies) /\ meta' # <<>>
    BY DEF TypeOK, CentreTypeOK
  <2>. QED  BY <2>1 DEF Latest, Current
<1>4. ASSUME NEW v \in 1..Current'
      PROVE  Sound(meta'[v]) /\ Supported(meta[v])' /\ Later(meta'[v], Latest')
  <2>1. CASE v \in 1..Current
    <3>1. Sound(meta[v]) /\ Supported(meta[v]) /\ Later(meta[v], Latest)
      BY <2>1 DEF SafetyInv, History
    <3>2. meta'[v] = meta[v]
      BY <2>1 DEF Grow
    <3>3. \A m \in Mails : Done(meta[v], m) =>
            log'[m] # "none" /\ (meta[v].inbox[m].kind = "rejection" => reports'[m] >= 1)
      BY <1>2, <2>1, <3>1, SupportedGrows
    <3>4. Supported(meta[v])'
      BY <3>2, <3>3 DEF Supported, Done
    <3>5. Later(meta[v], Latest')
      BY <1>2, <1>3, <2>1, <3>1, LaterOrder DEF Grow
    <3>. QED  BY <3>1, <3>2, <3>4, <3>5
  <2>2. CASE v = Current'
    BY <1>3, <2>2, LaterOrder DEF Latest
  <2>. QED  BY <1>2, <2>1, <2>2
<1>. QED  BY <1>1, <1>4 DEF SafetyInv, History

\* A step that changes nothing but the process that takes it.
LEMMA LocalSafe ==
  ASSUME TypeOK, TypeOK', SafetyInv, NEW p \in Procs, NEW c, Become(p, c),
         UNCHANGED <<sent, delivered, meta, log, reports>>, ClientOK(c, Latest)
  PROVE  SafetyInv'
<1>1. Latest' = Latest /\ Current' = Current
  BY DEF Latest, Current
<1>2. client'[p] = c /\ \A q \in Procs \ {p} : client'[q] = client[q]
  BY DEF Become, TypeOK
<1>3. ClientOK(client[p], Latest)'
  BY <1>1, <1>2 DEF ClientOK, WriteOK, PlanOK, StepOK, OutboxOK, SweepOK, FetchOK, Writing,
     Sound, Supported, Later, Known, Done, Rank
<1>4. Provided' /\ Sound(Latest') /\ Supported(Latest)'
  <2>1. Sound(Latest) /\ Supported(Latest)
    BY Typed DEF SafetyInv, History, Latest
  <2>. QED  BY <1>1, <2>1 DEF SafetyInv, Provided, Supported, Known, Done
<1>5. Grow
  BY <1>1, Typed, LaterOrder DEF Grow
<1>. QED  BY <1>1, <1>2, <1>3, <1>4, <1>5, Frame

\* The centre accepts the write in flight; the process goes on as c.
LEMMA WriteSafe ==
  ASSUME TypeOK, TypeOK', SafetyInv, NEW p \in Procs, NEW c, Become(p, c),
         UNCHANGED <<sent, delivered, log, reports>>,
         Writing(client[p]), client[p].base = Current,
         meta' = Append(meta, client[p].body),
         ~Writing(c), PlanOK(c, client[p].body), StepOK(c), OutboxOK(c, Latest),
         SweepOK(c, Latest), FetchOK(c), c \in Clients
  PROVE  SafetyInv'
<1>. DEFINE b == client[p].body
<1>1. b \in Bodies /\ Sound(b) /\ Supported(b) /\ Later(Latest, b)
  BY Typed DEF SafetyInv, ClientOK, WriteOK, Latest
<1>2. /\ Current' = Current + 1 /\ Latest' = b
      /\ \A v \in 1..Current : meta'[v] = meta[v]
  <2>1. meta \in Seq(Bodies)
    BY DEF TypeOK, CentreTypeOK
  <2>. QED  BY <1>1, <2>1 DEF Current, Latest
<1>. HIDE DEF b
<1>3. Latest \in Bodies /\ Current \in Nat
  BY Typed
<1>4. client'[p] = c /\ \A q \in Procs \ {p} : client'[q] = client[q]
  BY DEF Become, TypeOK
<1>5. OutboxOK(c, b)
  BY <1>1, <1>3, LaterFacts DEF OutboxOK
<1>6. SweepOK(c, b)
  <2>1. c.ids \cup c.batch \subseteq Mails
    BY DEF Clients
  <2>. QED  BY <1>1, <1>3, <2>1, LaterFacts DEF SweepOK
<1>7. ClientOK(client[p], Latest)'
  BY <1>2, <1>4, <1>5, <1>6
     DEF b, ClientOK, WriteOK, PlanOK, StepOK, OutboxOK, SweepOK, FetchOK, Writing, Known, Done
<1>8. Provided'
  <2>1. ASSUME NEW m \in Mails
        PROVE  /\ log[m] # "none" => Known(b, m) /\ b.inbox[m].kind = log[m]
               /\ reports[m] > 0 => Known(b, m) /\ b.inbox[m].kind = "rejection"
               /\ m \in delivered => Done(b, m)
    BY <1>1, <1>3, LaterFacts DEF SafetyInv, Provided
  <2>. QED  BY <1>2, <2>1 DEF Provided, Known, Done
<1>9. Grow
  <2>1. sent \in Nat /\ \A m \in Mails : reports[m] \in Nat
    BY Typed
  <2>2. Later(Latest, Latest') /\ Current <= Current'
    BY <1>1, <1>2, <1>3
  <2>3. sent' = sent /\ log' = log /\ reports' = reports
    OBVIOUS
  <2>4. \A v \in 1..Current : meta'[v] = meta[v]
    BY <1>2
  <2>5. \A m \in Mails : (log[m] # "none" => log'[m] = log[m]) /\ (reports[m] >= 1 => reports'[m] >= 1)
    BY <2>1, <2>3
  <2>6. sent' >= sent
    BY <2>1, <2>3
  <2>. QED  BY <2>2, <2>4, <2>5, <2>6 DEF Grow
<1>10. Supported(Latest)'
  BY <1>1, <1>2 DEF Supported, Done
<1>. QED  BY <1>1, <1>2, <1>4, <1>7, <1>8, <1>9, <1>10, Frame

-----------------------------------------------------------------------------
(* The steps one by one.                                                    *)

LEMMA SafeInit == Init => SafetyInv
<1>. SUFFICES ASSUME Init PROVE SafetyInv
  OBVIOUS
<1>1. Current = 1 /\ Latest = EmptyBody /\ \A v \in 1..Current : meta[v] = EmptyBody
  BY DEF Init, Current, Latest
<1>2. /\ EmptyBody \in Bodies
      /\ \A m \in Mails : /\ ~Known(EmptyBody, m) /\ ~Done(EmptyBody, m)
                          /\ EmptyBody.board[m] = 0
  BY BodyTypes DEF EmptyBody, Known, Done, NoReceipt
<1>3. Provided
  BY <1>1, <1>2 DEF Init, Provided
<1>4. History
  BY <1>1, <1>2, LaterOrder DEF History, Sound, Supported
<1>5. ClientOK(Down, Latest)
  BY DEF Init, ClientOK, WriteOK, Writing, PlanOK, StepOK, OutboxOK, SweepOK, FetchOK,
     Down, EmptyOutbox, Handling
<1>. QED  BY <1>3, <1>4, <1>5 DEF Init, SafetyInv

LEMMA LocalFacts ==
  ASSUME TypeOK, SafetyInv, NEW p \in Procs
  PROVE  /\ Local(p) = meta[client[p].local]
         /\ Local(p) \in Bodies /\ Sound(Local(p)) /\ Supported(Local(p))
         /\ Later(Local(p), Latest)
BY Typed DEF Local, SafetyInv, History, ClientTypeOK

LEMMA SafeCentre ==
  ASSUME TypeOK, TypeOK', SafetyInv, Send \/ ForeignWrite  PROVE SafetyInv'
<1>1. meta \in Seq(Bodies) /\ Latest \in Bodies /\ Current \in Nat \ {0} /\ sent \in Nat
      /\ \A m \in Mails : reports[m] \in Nat
  BY Typed DEF TypeOK, CentreTypeOK
<1>2. /\ Latest' = Latest /\ \A v \in 1..Current : meta'[v] = meta[v]
      /\ Current' \in {Current, Current + 1}
  BY <1>1 DEF Send, ForeignWrite, Current, Latest
<1>3. UNCHANGED <<client, log, reports, delivered>> /\ sent' >= sent
  BY <1>1 DEF Send, ForeignWrite
<1>4. Later(Latest, Latest') /\ Current <= Current'
  BY <1>1, <1>2, LaterOrder
<1>5. Grow
  <2>1. \A m \in Mails : (log[m] # "none" => log'[m] = log[m]) /\ (reports[m] >= 1 => reports'[m] >= 1)
    BY <1>1, <1>3
  <2>. QED  BY <1>2, <1>3, <1>4, <2>1 DEF Grow
<1>6. Provided'
  BY <1>2, <1>3 DEF SafetyInv, Provided, Known, Done
<1>7. \A q \in Procs : ClientOK(client[q], Latest)'
  BY <1>3, <1>5, ClientGrows DEF SafetyInv
<1>8. ASSUME NEW v \in 1..Current'
      PROVE  Sound(meta'[v]) /\ Supported(meta[v])' /\ Later(meta'[v], Latest')
  <2>1. CASE v \in 1..Current
    BY <1>2, <1>3, <2>1 DEF SafetyInv, History, Supported, Done
  <2>2. CASE v = Current'
    <3>1. meta'[v] = Latest
      BY <1>2, <2>2 DEF Latest
    <3>2. Sound(Latest) /\ Supported(Latest)
      BY <1>1 DEF SafetyInv, History, Latest
    <3>. QED  BY <1>1, <1>2, <1>3, <1>4, <3>1, <3>2 DEF Supported, Done
  <2>. QED  BY <1>1, <1>2, <2>1, <2>2
<1>. QED  BY <1>6, <1>7, <1>8 DEF SafetyInv, History

LEMMA SafeEnvironment ==
  ASSUME TypeOK, TypeOK', SafetyInv, NEW p \in Procs, Environment(p)  PROVE SafetyInv'
<1>. DEFINE c == client[p]
<1>1. c \in Clients /\ ClientOK(c, Latest)
  BY Typed DEF SafetyInv
<1>2. ASSUME NEW v
      PROVE  ClientOK([Down EXCEPT !.pc = "stopped", !.local = v, !.outbox = c.outbox], Latest)
  BY <1>1 DEF ClientOK, WriteOK, Writing, PlanOK, StepOK, OutboxOK, SweepOK, FetchOK,
     Down, EmptyOutbox, Handling
<1>3. ASSUME NEW v PROVE ClientOK([c EXCEPT !.local = v], Latest)
  BY <1>1 DEF ClientOK, WriteOK, Writing, PlanOK, StepOK, OutboxOK, SweepOK, FetchOK, Clients
<1>. HIDE DEF c
<1>4. CASE Push(p)
  <2>1. PICK v \in (client[p].local + 1)..Current : Become(p, [c EXCEPT !.local = v])
    BY <1>4 DEF Push, c
  <2>. QED  BY <1>3, <1>4, <2>1, LocalSafe DEF Push
<1>5. CASE Start(p)
  <2>1. PICK v : Become(p, [Down EXCEPT !.pc = "idle", !.local = v])
    BY <1>5 DEF Start
  <2>2. ClientOK([Down EXCEPT !.pc = "idle", !.local = v], Latest)
    BY DEF ClientOK, WriteOK, Writing, PlanOK, StepOK, OutboxOK, SweepOK, FetchOK,
       Down, EmptyOutbox, Handling
  <2>. QED  BY <1>5, <2>1, <2>2, LocalSafe DEF Start
<1>6. CASE Crash(p) \/ Close(p)
  <2>1. ClientOK(Down, Latest)
    BY DEF ClientOK, WriteOK, Writing, PlanOK, StepOK, OutboxOK, SweepOK, FetchOK,
       Down, EmptyOutbox, Handling
  <2>. QED  BY <1>6, <2>1, LocalSafe DEF Crash, Close
<1>7. CASE Stop(p)
  BY <1>2, <1>7, LocalSafe DEF Stop, c
<1>. QED  BY <1>4, <1>5, <1>6, <1>7 DEF Environment

\* The positions between two steps, where ClientOK asks little.
LEMMA SafeSweep ==
  ASSUME TypeOK, TypeOK', SafetyInv, NEW p \in Procs,
         BeginTick(p) \/ SweepDone(p) \/ ListDone(p)
  PROVE  SafetyInv'
<1>. DEFINE c == client[p]
<1>1. c \in Clients /\ ClientOK(c, Latest) /\ Latest \in Bodies
  BY Typed DEF SafetyInv
<1>2. ASSUME NEW after \in {"receive", "idle"} PROVE ClientOK(SweepFrom(p, after), Latest)
  <2>1. \A m \in InPhase(Local(p).inbox, "processed") : m \in Mails /\ Done(Local(p), m)
    BY LocalFacts DEF InPhase, Bodies, Done
  <2>2. \A m \in InPhase(Local(p).inbox, "processed") : Done(Latest, m)
    BY <1>1, <2>1, LocalFacts, LaterFacts
  <2>. QED  BY <1>1, <2>2 DEF SweepFrom, ClientOK, WriteOK, Writing, PlanOK, StepOK, OutboxOK,
            SweepOK, FetchOK, Clients, Handling
<1>3. CASE BeginTick(p)
  BY <1>2, <1>3, LocalSafe DEF BeginTick
<1>4. CASE ListDone(p)
  BY <1>2, <1>4, LocalSafe DEF ListDone
<1>5. CASE SweepDone(p)
  <2>1. ClientOK(SweepOver(c), Latest)
    BY <1>1 DEF SweepOver, ClientOK, WriteOK, Writing, PlanOK, StepOK, OutboxOK,
       SweepOK, FetchOK, Clients, Handling
  <2>. QED  BY <1>5, <2>1, LocalSafe DEF SweepDone
<1>. QED  BY <1>3, <1>4, <1>5

LEMMA SafeReceive ==
  ASSUME TypeOK, TypeOK', SafetyInv, NEW p \in Procs, Receive(p)  PROVE SafetyInv'
<1>. DEFINE c == client[p]
<1>1. c \in Clients /\ ClientOK(c, Latest)
  BY Typed DEF SafetyInv
<1>2. ASSUME NEW S \in SUBSET (1..sent)
      PROVE  ClientOK([c EXCEPT !.pc = "next", !.fetched = S], Latest)
  BY <1>1 DEF ClientOK, WriteOK, Writing, PlanOK, StepOK, OutboxOK, SweepOK, FetchOK, Clients, Handling
<1>3. ClientOK([c EXCEPT !.pc = "next"], Latest)
  BY <1>1 DEF ClientOK, WriteOK, Writing, PlanOK, StepOK, OutboxOK, SweepOK, FetchOK, Clients, Handling
<1>4. Oldest(1..sent \ delivered) \in SUBSET (1..sent)
  BY DEF Oldest
<1>. QED  BY <1>2, <1>3, <1>4, LocalSafe DEF Receive

\* Dropping the letter in hand is always sound.
LEMMA NextOK ==
  ASSUME NEW c \in Clients, ClientOK(c, Latest)  PROVE ClientOK(NextLetter(c), Latest)
BY DEF NextLetter, ClientOK, WriteOK, Writing, PlanOK, StepOK, OutboxOK, SweepOK, FetchOK,
   Clients, Handling

LEMMA SafeTake ==
  ASSUME TypeOK, TypeOK', SafetyInv, NEW p \in Procs, Take(p)  PROVE SafetyInv'
<1>1. client[p] \in Clients /\ ClientOK(client[p], Latest) /\ Latest \in Bodies /\ At(p, "next")
  BY Typed DEF SafetyInv, Take
<1>2. PICK m \in client[p].fetched :
        LET c == [client[p] EXCEPT !.fetched = @ \ {m}, !.cur = m]
            r == Local(p).inbox[m]
        IN  Become(p, CASE r.phase = "none"      -> [c EXCEPT !.pc = "validate"]
                        [] r.phase = "projected" -> [c EXCEPT !.pc = "store", !.receipt = r]
                        [] OTHER                 -> NextLetter(c))
  BY DEF Take
<1>. DEFINE c == [client[p] EXCEPT !.fetched = @ \ {m}, !.cur = m]
            r == Local(p).inbox[m]
<1>3. m \in Mails /\ m \in 1..sent
  BY <1>1 DEF Clients, ClientOK, FetchOK
<1>4. CASE r.phase = "none"
  <2>1. ClientOK([c EXCEPT !.pc = "validate"], Latest)
    BY <1>1, <1>3 DEF At, ClientOK, WriteOK, Writing, PlanOK, StepOK, OutboxOK, SweepOK, FetchOK,
       Clients, Handling
  <2>2. Become(p, [c EXCEPT !.pc = "validate"])
    BY <1>2, <1>4
  <2>. QED  BY <2>1, <2>2, LocalSafe DEF Take
<1>5. CASE r.phase = "projected"
  <2>1. Known(Latest, m) /\ Latest.inbox[m].kind = r.kind
    BY <1>1, <1>3, <1>5, LocalFacts, LaterFacts DEF Known
  <2>2. ClientOK([c EXCEPT !.pc = "store", !.receipt = r], Latest)
    BY <1>1, <1>3, <2>1 DEF At, ClientOK, WriteOK, Writing, PlanOK, StepOK, OutboxOK, SweepOK,
       FetchOK, Clients, Handling
  <2>3. Become(p, [c EXCEPT !.pc = "store", !.receipt = r])
    BY <1>2, <1>5
  <2>. QED  BY <2>2, <2>3, LocalSafe DEF Take
<1>6. CASE r.phase # "none" /\ r.phase # "projected"
  <2>1. ClientOK(NextLetter(c), Latest)
    BY <1>1, <1>3 DEF At, NextLetter, ClientOK, WriteOK, Writing, PlanOK, StepOK, OutboxOK, SweepOK,
       FetchOK, Clients, Handling
  <2>2. Become(p, NextLetter(c))
    BY <1>2, <1>6
  <2>. QED  BY <2>1, <2>2, LocalSafe DEF Take
<1>. QED  BY <1>4, <1>5, <1>6

LEMMA SafeValidate ==
  ASSUME TypeOK, TypeOK', SafetyInv, NEW p \in Procs, Validate(p)  PROVE SafetyInv'
<1>1. client[p] \in Clients /\ ClientOK(client[p], Latest) /\ At(p, "validate")
  BY Typed DEF SafetyInv, Validate
<1>2. ASSUME NEW plan \in PlansAt(Current),
             Become(p, [client[p] EXCEPT !.pc = "project", !.receipt = plan])
      PROVE  SafetyInv'
  <2>1. plan.phase = "projected"
    BY DEF PlansAt
  <2>2. ClientOK([client[p] EXCEPT !.pc = "project", !.receipt = plan], Latest)
    BY <1>1, <2>1 DEF At, ClientOK, WriteOK, Writing, PlanOK, StepOK, OutboxOK, SweepOK,
       FetchOK, Clients, Handling
  <2>. QED  BY <1>2, <2>2, LocalSafe DEF Validate
<1>3. CASE Become(p, NextLetter(client[p]))
  BY <1>1, <1>3, NextOK, LocalSafe DEF Validate
<1>. QED  BY <1>2, <1>3 DEF Validate

LEMMA SafeStore ==
  ASSUME TypeOK, TypeOK', SafetyInv, NEW p \in Procs, Store(p) \/ Stored(p)  PROVE SafetyInv'
<1>. DEFINE c == client[p]
<1>1. c \in Clients /\ ClientOK(c, Latest)
  BY Typed DEF SafetyInv
<1>2. CASE Store(p)
  <2>. DEFINE d == [c EXCEPT !.pc = "storing",
                      !.outbox[c.cur] = IF @ = "none" THEN c.receipt.kind ELSE @]
  <2>1. c.pc = "store" /\ c.cur \in Mails /\ Become(p, d)
    BY <1>2, Typed DEF Store, At, ClientTypeOK, Handling
  <2>2. c.receipt.kind \in Kinds /\ Known(Latest, c.cur) /\ Latest.inbox[c.cur].kind = c.receipt.kind
    BY <1>1, <2>1 DEF Clients, Receipts, ClientOK, PlanOK
  <2>3. /\ d.pc = "storing" /\ d.cur = c.cur /\ d.receipt = c.receipt /\ d.fetched = c.fetched
        /\ d.ids = c.ids /\ d.batch = c.batch
        /\ d.outbox = [c.outbox EXCEPT ![c.cur] = IF @ = "none" THEN c.receipt.kind ELSE @]
        /\ c.outbox \in [Mails -> Kinds \cup {"none"}]
    BY <1>1 DEF Clients
  <2>. HIDE DEF d
  <2>4. d.outbox[d.cur] # "none"
    BY <2>1, <2>2, <2>3 DEF Kinds
  <2>5. OutboxOK(d, Latest)
    BY <1>1, <2>1, <2>2, <2>3 DEF ClientOK, OutboxOK
  <2>6. ClientOK(d, Latest)
    BY <1>1, <2>1, <2>2, <2>3, <2>4, <2>5 DEF ClientOK, WriteOK, Writing, PlanOK, StepOK, SweepOK,
       FetchOK, Handling
  <2>. QED  BY <1>2, <2>1, <2>6, LocalSafe DEF Store
<1>3. CASE Stored(p)
  <2>1. CASE /\ c.outbox[c.cur] = "none"
             /\ Become(p, [c EXCEPT !.pc = IF c.receipt.kind = "rejection" THEN "report" ELSE "finish"])
    <3>1. c.pc = "storing" /\ log[c.cur] # "none"
      BY <1>1, <1>3, <2>1 DEF Stored, At, ClientOK, StepOK
    <3>2. ClientOK([c EXCEPT !.pc = IF c.receipt.kind = "rejection" THEN "report" ELSE "finish"], Latest)
      BY <1>1, <3>1 DEF ClientOK, WriteOK, Writing, PlanOK, StepOK, OutboxOK, SweepOK,
         FetchOK, Clients, Handling
    <3>. QED  BY <1>3, <2>1, <3>2, LocalSafe DEF Stored
  <2>2. CASE Become(p, NextLetter(c))
    BY <1>1, <1>3, <2>2, NextOK, LocalSafe DEF Stored
  <2>. QED  BY <1>3, <2>1, <2>2 DEF Stored
<1>. QED  BY <1>2, <1>3

-----------------------------------------------------------------------------
(* The writes: what is submitted extends what the process holds.             *)

LEMMA SafeMark ==
  ASSUME NoEviction, TypeOK, TypeOK', SafetyInv, NEW p \in Procs, Mark(p)  PROVE SafetyInv'
<1>. DEFINE c     == client[p]
            b     == Local(p)
            inbox == [m \in Mails |-> IF m \in c.batch /\ b.inbox[m].phase = "processed"
                                      THEN [b.inbox[m] EXCEPT !.phase = "acked"] ELSE b.inbox[m]]
            body  == [b EXCEPT !.inbox = inbox]
            d     == [c EXCEPT !.pc = "marking", !.base = c.local, !.body = body]
<1>1. c \in Clients /\ ClientOK(c, Latest) /\ Latest \in Bodies
  BY Typed DEF SafetyInv
<1>2. b = meta[c.local] /\ b \in Bodies /\ Sound(b) /\ Supported(b) /\ b.inbox \in [Mails -> Receipts]
  BY LocalFacts DEF Bodies
<1>3. Marked(b.inbox, c.batch) = {inbox}
  BY <1>2, MarkAll
<1>4. Become(p, d)
  BY <1>3 DEF Mark, Submit
<1>. HIDE DEF b
<1>5. /\ body.board = b.board /\ body.inbox = inbox /\ body \in Bodies
      /\ \A m \in Mails : /\ Known(body, m) <=> Known(b, m)
                          /\ Done(body, m) <=> Done(b, m)
                          /\ body.inbox[m].kind = b.inbox[m].kind
                          /\ Rank(body, m) >= Rank(b, m)
  <2>1. \A m \in Mails : b.inbox[m] \in Receipts
    BY <1>2
  <2>2. inbox \in [Mails -> Receipts]
    BY <2>1 DEF Receipts, Phases
  <2>3. body.board = b.board /\ body.inbox = inbox /\ body \in Bodies
    BY <1>2, <2>2 DEF Bodies
  <2>4. ASSUME NEW m \in Mails
        PROVE  /\ inbox[m].kind = b.inbox[m].kind
               /\ \/ inbox[m].phase = b.inbox[m].phase
                  \/ inbox[m].phase = "acked" /\ b.inbox[m].phase = "processed"
    BY <2>1 DEF Receipts
  <2>5. ASSUME NEW m \in Mails PROVE Rank(body, m) >= Rank(b, m)
    <3>1. CASE inbox[m].phase = b.inbox[m].phase
      <4>1. Rank(body, m) = Rank(b, m) /\ Rank(b, m) \in 0..3
        BY <1>2, <2>3, <3>1, Ranks DEF Rank
      <4>. QED  BY <4>1
    <3>2. CASE inbox[m].phase = "acked" /\ b.inbox[m].phase = "processed"
      <4>1. Rank(body, m) = 3 /\ Rank(b, m) = 2
        BY <2>3, <3>2 DEF Rank, PhaseRank
      <4>. QED  BY <4>1
    <3>. QED  BY <2>4, <3>1, <3>2
  <2>. QED  BY <2>3, <2>4, <2>5 DEF Known, Done
<1>. HIDE DEF body
<1>6. Sound(body) /\ Supported(body) /\ Later(b, body)
  BY <1>2, <1>5 DEF Sound, Supported, Later
<1>7. ClientOK(d, Latest)
  BY <1>1, <1>2, <1>5, <1>6 DEF ClientOK, WriteOK, Writing, PlanOK, StepOK, OutboxOK, SweepOK,
     FetchOK, Clients, Handling
<1>. QED  BY <1>4, <1>7, LocalSafe DEF Mark

LEMMA SafeProject ==
  ASSUME NoEviction, TypeOK, TypeOK', SafetyInv, NEW p \in Procs, Project(p)  PROVE SafetyInv'
<1>. DEFINE c == client[p]
            b == Local(p)
<1>1. /\ c \in Clients /\ ClientOK(c, Latest) /\ Latest \in Bodies /\ c.pc = "project"
      /\ c.cur \in Mails /\ c.receipt \in Receipts /\ c.receipt.phase = "projected"
  BY Typed DEF SafetyInv, Project, At, ClientTypeOK, Clients, Handling, ClientOK, StepOK
<1>2. b = meta[c.local] /\ b \in Bodies /\ Sound(b) /\ Supported(b) /\ b.inbox \in [Mails -> Receipts]
  BY LocalFacts DEF Bodies
<1>3. ASSUME NEW body \in Bodies, Sound(body), Supported(body), Later(b, body), Known(body, c.cur),
             \A m \in Mails : body.board[m] # b.board[m] => m = c.cur,
             Submit(p, body, "projecting")
      PROVE  SafetyInv'
  <2>. DEFINE d == [c EXCEPT !.pc = "projecting", !.base = c.local, !.body = body]
  <2>1. Become(p, d)
    BY <1>3 DEF Submit
  <2>2. ClientOK(d, Latest)
    BY <1>1, <1>2, <1>3 DEF ClientOK, WriteOK, Writing, PlanOK, StepOK, OutboxOK, SweepOK,
       FetchOK, Clients, Handling
  <2>. QED  BY <2>1, <2>2, LocalSafe DEF Project
<1>. HIDE DEF b
<1>4. CASE b.inbox[c.cur].phase # "none"
  <2>1. Submit(p, b, "projecting")
    BY <1>4 DEF Project, Projections, b, NextLetter
  <2>2. Later(b, b) /\ Known(b, c.cur)
    BY <1>2, <1>4, LaterOrder DEF Known
  <2>. QED  BY <1>2, <1>3, <2>1, <2>2
<1>5. CASE b.inbox[c.cur].phase = "none"
  <2>. DEFINE body == [inbox |-> [b.inbox EXCEPT ![c.cur] = c.receipt],
                       board |-> [b.board EXCEPT ![c.cur] = @ + 1]]
  <2>1. RoomFor(b.inbox) = {b.inbox}
    BY <1>1, <1>2, <1>5, RoomForAll
  <2>2. Projections(b, c.cur, c.receipt) = {body}
    BY <1>5, <2>1 DEF Projections
  <2>3. Submit(p, body, "projecting")
    BY <2>2 DEF Project, b
  <2>4. /\ body \in Bodies /\ body.inbox[c.cur] = c.receipt /\ body.board[c.cur] = b.board[c.cur] + 1
        /\ \A m \in Mails \ {c.cur} : body.inbox[m] = b.inbox[m] /\ body.board[m] = b.board[m]
    BY <1>1, <1>2 DEF Bodies
  <2>. HIDE DEF body
  <2>5. b.board[c.cur] = 0 /\ Rank(b, c.cur) = 0 /\ ~Known(b, c.cur)
    BY <1>1, <1>2, <1>5 DEF Sound, Known, Rank, PhaseRank
  <2>6. Known(body, c.cur) /\ ~Done(body, c.cur) /\ Rank(body, c.cur) = 1
    BY <1>1, <2>4 DEF Known, Done, Rank, PhaseRank
  <2>7. Sound(body)
    <3>1. \A m \in Mails \ {c.cur} : body.board[m] = IF Known(body, m) THEN 1 ELSE 0
      BY <1>2, <2>4 DEF Sound, Known
    <3>2. body.board[c.cur] = 1
      BY <2>4, <2>5
    <3>. QED  BY <2>6, <3>1, <3>2 DEF Sound
  <2>8. Supported(body)
    BY <1>2, <2>4, <2>6 DEF Supported, Done
  <2>9. Later(b, body)
    <3>1. \A m \in Mails \ {c.cur} : Rank(body, m) = Rank(b, m) /\ Rank(b, m) \in 0..3
      BY <1>2, <2>4, Ranks DEF Rank
    <3>. QED  BY <2>4, <2>5, <2>6, <3>1 DEF Later
  <2>. QED  BY <1>3, <2>3, <2>4, <2>6, <2>7, <2>8, <2>9
<1>. QED  BY <1>4, <1>5

LEMMA SafeFinish ==
  ASSUME TypeOK, TypeOK', SafetyInv, NEW p \in Procs, Finish(p)  PROVE SafetyInv'
<1>. DEFINE c == client[p]
            b == Local(p)
            m == c.cur
<1>1. /\ c \in Clients /\ ClientOK(c, Latest) /\ Latest \in Bodies /\ c.pc = "finish"
      /\ c.cur \in Mails
  BY Typed DEF SafetyInv, Finish, At, ClientTypeOK, Handling
<1>2. /\ b = meta[c.local] /\ b \in Bodies /\ Sound(b) /\ Supported(b) /\ Later(b, Latest)
      /\ b.inbox \in [Mails -> Receipts]
  BY LocalFacts DEF Bodies
<1>3. ASSUME NEW body \in Bodies, Sound(body), Supported(body), Later(b, body),
             body.board = b.board, Submit(p, body, "finishing")
      PROVE  SafetyInv'
  <2>. DEFINE d == [c EXCEPT !.pc = "finishing", !.base = c.local, !.body = body]
  <2>1. Become(p, d)
    BY <1>3 DEF Submit
  <2>2. ClientOK(d, Latest)
    BY <1>1, <1>2, <1>3 DEF ClientOK, WriteOK, Writing, PlanOK, StepOK, OutboxOK, SweepOK,
       FetchOK, Clients, Handling
  <2>. QED  BY <2>1, <2>2, LocalSafe DEF Finish
<1>4. CASE b.inbox[m].phase = "none"
  BY <1>1, <1>4, NextOK, LocalSafe DEF Finish
<1>5. CASE b.inbox[m].phase = "projected"
  <2>. DEFINE body == [b EXCEPT !.inbox[m].phase = "processed"]
  <2>1. Submit(p, body, "finishing")
    BY <1>5 DEF Finish
  <2>. HIDE DEF b
  <2>2. /\ b.inbox[m] \in Receipts /\ b.inbox[m].kind = c.receipt.kind
        /\ log[m] # "none" /\ (c.receipt.kind = "rejection" => reports[m] >= 1)
    <3>1. Known(b, m)
      BY <1>5 DEF Known
    <3>. QED  BY <1>1, <1>2, <3>1, LaterFacts DEF ClientOK, PlanOK, StepOK
  <2>3. /\ body \in Bodies /\ body.board = b.board
        /\ body.inbox[m].phase = "processed" /\ body.inbox[m].kind = b.inbox[m].kind
        /\ \A k \in Mails \ {m} : body.inbox[k] = b.inbox[k]
    BY <1>1, <1>2, <2>2 DEF Bodies, Receipts, Phases
  <2>. HIDE DEF body
  <2>4. \A k \in Mails : /\ Known(body, k) <=> Known(b, k)
                         /\ body.inbox[k].kind = b.inbox[k].kind
    BY <1>5, <2>3 DEF Known
  <2>5. Sound(body)
    BY <1>2, <2>3, <2>4 DEF Sound
  <2>6. Supported(body)
    <3>1. \A k \in Mails \ {m} : Done(body, k) => Done(b, k)
      BY <2>3 DEF Done
    <3>. QED  BY <1>2, <2>2, <2>3, <2>4, <3>1 DEF Supported
  <2>7. Later(b, body)
    <3>1. Rank(body, m) = 2 /\ Rank(b, m) = 1
      BY <1>5, <2>3 DEF Rank, PhaseRank
    <3>2. \A k \in Mails \ {m} : Rank(body, k) = Rank(b, k) /\ Rank(b, k) \in 0..3
      BY <1>2, <2>3, Ranks DEF Rank
    <3>. QED  BY <2>4, <3>1, <3>2 DEF Later
  <2>. QED  BY <1>3, <2>1, <2>3, <2>5, <2>6, <2>7
<1>6. CASE b.inbox[m].phase # "none" /\ b.inbox[m].phase # "projected"
  <2>1. Submit(p, b, "finishing")
    BY <1>6 DEF Finish
  <2>2. Later(b, b)
    BY <1>2, LaterOrder
  <2>. QED  BY <1>2, <1>3, <2>1, <2>2
<1>. QED  BY <1>4, <1>5, <1>6

-----------------------------------------------------------------------------
(* The end of a write.                                                       *)

\* Settling and adopting a version change nothing that is asked between writes.
LEMMA SettledOK ==
  ASSUME NEW c \in Clients, ~Writing(c), NEW v
  PROVE  /\ ~Writing(Settled(c)) /\ ~Writing([Settled(c) EXCEPT !.local = v])
         /\ \A b : /\ PlanOK(c, b) => PlanOK(Settled(c), b) /\ PlanOK([Settled(c) EXCEPT !.local = v], b)
                   /\ OutboxOK(c, b) => OutboxOK(Settled(c), b) /\ OutboxOK([Settled(c) EXCEPT !.local = v], b)
                   /\ SweepOK(c, b) => SweepOK(Settled(c), b) /\ SweepOK([Settled(c) EXCEPT !.local = v], b)
         /\ StepOK(c) => StepOK(Settled(c)) /\ StepOK([Settled(c) EXCEPT !.local = v])
         /\ FetchOK(c) => FetchOK(Settled(c)) /\ FetchOK([Settled(c) EXCEPT !.local = v])
<1>1. Settled(c) = [c EXCEPT !.base = 1, !.body = EmptyBody]
  BY DEF Settled
<1>. DEFINE s == Settled(c)
            d == [s EXCEPT !.local = v]
<1>2. /\ s.pc = c.pc /\ s.cur = c.cur /\ s.receipt = c.receipt /\ s.fetched = c.fetched
      /\ s.ids = c.ids /\ s.batch = c.batch /\ s.outbox = c.outbox
  BY <1>1 DEF Clients
<1>3. /\ d.pc = c.pc /\ d.cur = c.cur /\ d.receipt = c.receipt /\ d.fetched = c.fetched
      /\ d.ids = c.ids /\ d.batch = c.batch /\ d.outbox = c.outbox
  BY <1>1 DEF Clients
<1>. HIDE DEF s, d
<1>. QED  BY <1>2, <1>3 DEF s, d, Writing, PlanOK, OutboxOK, SweepOK, StepOK, FetchOK

LEMMA SafeWritten ==
  ASSUME TypeOK, TypeOK', SafetyInv, NEW p \in Procs, NEW c \in Clients, NEW d \in Clients,
         NEW retry \in {"mark", "project", "finish"},
         UNCHANGED <<sent, delivered, log, reports>>,
         Writing(client[p]), retry = "project" => client[p].pc = "projecting",
         retry = "finish" => client[p].pc = "finishing",
         \* ... as what the process goes on with when the write succeeds
         ~Writing(c), PlanOK(c, client[p].body), StepOK(c), OutboxOK(c, Latest),
         SweepOK(c, Latest), FetchOK(c),
         \* ... and when it fails
         ~Writing(d), ClientOK(d, Latest),
         Accepted(p, c) \/ Conflict(p, retry) \/ Failed(p, d)
  PROVE  SafetyInv'
<1>1. client[p] \in Clients /\ ClientOK(client[p], Latest) /\ Latest \in Bodies
  BY Typed DEF SafetyInv
<1>2. CASE Accepted(p, c)
  <2>. DEFINE e == [Settled(c) EXCEPT !.local = Current + 1]
  <2>1. e \in Clients
    <3>1. EmptyBody \in Bodies /\ Current + 1 \in Nat
      BY BodyTypes, Typed
    <3>2. e = [c EXCEPT !.base = 1, !.body = EmptyBody, !.local = Current + 1]
      BY DEF Settled, Clients
    <3>. HIDE DEF e
    <3>. QED  BY <3>1, <3>2 DEF Clients
  <2>. HIDE DEF e
  <2>2. ~Writing(e) /\ PlanOK(e, client[p].body) /\ StepOK(e) /\ OutboxOK(e, Latest)
        /\ SweepOK(e, Latest) /\ FetchOK(e)
    BY SettledOK DEF e
  <2>3. client[p].base = Current /\ meta' = Append(meta, client[p].body) /\ Become(p, e)
    BY <1>2 DEF Accepted, e
  <2>. QED  BY <2>1, <2>2, <2>3, WriteSafe
<1>3. CASE Conflict(p, retry)
  <2>. DEFINE v == IF Current > client[p].local THEN Current ELSE client[p].local
              e == [Settled(client[p]) EXCEPT !.pc = retry, !.local = v]
  <2>1. Become(p, e) /\ UNCHANGED meta
    BY <1>1, <1>3 DEF Conflict, Settled, Clients
  <2>2. e = [client[p] EXCEPT !.base = 1, !.body = EmptyBody, !.pc = retry, !.local = v]
    BY <1>1 DEF Settled, Clients
  <2>3. /\ e.pc = retry /\ e.cur = client[p].cur /\ e.receipt = client[p].receipt
        /\ e.fetched = client[p].fetched /\ e.ids = client[p].ids /\ e.batch = client[p].batch
        /\ e.outbox = client[p].outbox
    BY <1>1, <2>2 DEF Clients
  <2>. HIDE DEF e
  <2>4. ClientOK(e, Latest)
    BY <1>1, <2>3 DEF ClientOK, WriteOK, Writing, PlanOK, StepOK, OutboxOK, SweepOK, FetchOK,
       Handling
  <2>. QED  BY <2>1, <2>4, LocalSafe
<1>4. CASE Failed(p, d)
  <2>1. Settled(d) \in Clients
    BY BodyTypes DEF Settled, Clients
  <2>2. ~Writing(Settled(d)) /\ StepOK(Settled(d)) /\ OutboxOK(Settled(d), Latest)
        /\ SweepOK(Settled(d), Latest) /\ FetchOK(Settled(d)) /\ PlanOK(Settled(d), Latest)
    BY SettledOK DEF ClientOK
  <2>3. CASE UNCHANGED meta
    BY <1>4, <2>2, <2>3, LocalSafe DEF Failed, ClientOK, WriteOK
  <2>4. CASE client[p].base = Current /\ meta' = Append(meta, client[p].body)
    <3>1. Later(Latest, client[p].body) /\ client[p].body \in Bodies
      BY <1>1, <2>4, Typed DEF ClientOK, WriteOK, Latest
    <3>2. d.pc \in Handling => d.cur \in Mails
      BY ConstantsAssumption DEF ClientOK, FetchOK, TypeOK, CentreTypeOK, Mails
    <3>3. PlanOK(d, client[p].body)
      BY <1>1, <3>1, <3>2, LaterFacts DEF ClientOK, PlanOK, Handling
    <3>4. PlanOK(Settled(d), client[p].body)
      BY <3>3, SettledOK
    <3>. QED  BY <1>4, <2>1, <2>2, <2>4, <3>4, WriteSafe DEF Failed
  <2>. QED  BY <1>4, <2>3, <2>4 DEF Failed
<1>. QED  BY <1>2, <1>3, <1>4

LEMMA SafeMarkWritten ==
  ASSUME TypeOK, TypeOK', SafetyInv, NEW p \in Procs, MarkWritten(p)  PROVE SafetyInv'
<1>. DEFINE c == [client[p] EXCEPT !.pc = "sweep", !.batch = {}]
            d == SweepOver([client[p] EXCEPT !.after = "idle"])
<1>1. client[p] \in Clients /\ ClientOK(client[p], Latest) /\ client[p].pc = "marking"
  BY Typed DEF SafetyInv, MarkWritten, At
<1>2. /\ c \in Clients /\ c.pc = "sweep" /\ c.fetched = client[p].fetched
      /\ c.ids = client[p].ids /\ c.batch = {} /\ c.outbox = client[p].outbox
  BY <1>1 DEF Clients, Steps
<1>3. /\ d \in Clients /\ d.pc = "idle" /\ d.fetched = client[p].fetched
      /\ d.ids = {} /\ d.batch = {} /\ d.outbox = client[p].outbox
  BY <1>1 DEF SweepOver, Clients, Steps
<1>4. /\ Accepted(p, c) \/ Conflict(p, "mark") \/ Failed(p, d)
      /\ UNCHANGED <<sent, delivered, log, reports>>
  BY DEF MarkWritten
<1>. HIDE DEF c, d
<1>5. /\ ~Writing(c) /\ PlanOK(c, client[p].body) /\ StepOK(c) /\ OutboxOK(c, Latest)
      /\ SweepOK(c, Latest) /\ FetchOK(c)
  BY <1>1, <1>2 DEF ClientOK, Writing, PlanOK, StepOK, OutboxOK, SweepOK, FetchOK, Handling
<1>6. ~Writing(d) /\ ClientOK(d, Latest)
  BY <1>1, <1>3 DEF ClientOK, WriteOK, Writing, PlanOK, StepOK, OutboxOK, SweepOK, FetchOK, Handling
<1>7. Writing(client[p])
  BY <1>1 DEF Writing
<1>. QED  BY <1>2, <1>3, <1>4, <1>5, <1>6, <1>7, SafeWritten

LEMMA SafeNextWritten ==
  ASSUME TypeOK, SafetyInv, NEW p \in Procs
  PROVE  /\ NextLetter(client[p]) \in Clients /\ ~Writing(NextLetter(client[p]))
         /\ ClientOK(NextLetter(client[p]), Latest)
         /\ PlanOK(NextLetter(client[p]), client[p].body) /\ StepOK(NextLetter(client[p]))
         /\ OutboxOK(NextLetter(client[p]), Latest) /\ SweepOK(NextLetter(client[p]), Latest)
         /\ FetchOK(NextLetter(client[p]))
<1>. DEFINE d == NextLetter(client[p])
<1>1. client[p] \in Clients /\ ClientOK(client[p], Latest)
  BY Typed DEF SafetyInv
<1>2. d \in Clients /\ d.pc = "next"
  BY <1>1 DEF NextLetter, Clients, Steps, NoReceipt, Receipts, Phases, Kinds
<1>3. ClientOK(d, Latest)
  BY <1>1, NextOK
<1>. HIDE DEF d
<1>4. ~Writing(d) /\ PlanOK(d, client[p].body)
  BY <1>2 DEF Writing, PlanOK
<1>. QED  BY <1>2, <1>3, <1>4 DEF d, ClientOK

LEMMA SafeProjectWritten ==
  ASSUME TypeOK, TypeOK', SafetyInv, NEW p \in Procs, ProjectWritten(p)  PROVE SafetyInv'
<1>. DEFINE b == client[p].body
            r == b.inbox[client[p].cur]
            d == NextLetter(client[p])
            e == [client[p] EXCEPT !.pc = "store", !.receipt = r]
            c == IF r.phase = "projected" THEN e ELSE d
<1>1. /\ client[p] \in Clients /\ ClientOK(client[p], Latest) /\ client[p].pc = "projecting"
      /\ client[p].cur \in Mails /\ b \in Bodies
  BY Typed DEF SafetyInv, ProjectWritten, At, ClientTypeOK, Handling
<1>2. r \in Receipts /\ Known(b, client[p].cur)
  BY <1>1 DEF Bodies, ClientOK, WriteOK, Writing
<1>3. /\ Accepted(p, c) \/ Conflict(p, "project") \/ Failed(p, d)
      /\ UNCHANGED <<sent, delivered, log, reports>>
  BY DEF ProjectWritten
<1>4. /\ d \in Clients /\ ~Writing(d) /\ ClientOK(d, Latest) /\ PlanOK(d, b) /\ StepOK(d)
      /\ OutboxOK(d, Latest) /\ SweepOK(d, Latest) /\ FetchOK(d)
  BY SafeNextWritten
<1>5. /\ e \in Clients /\ e.pc = "store" /\ e.cur = client[p].cur /\ e.receipt = r
      /\ e.fetched = client[p].fetched /\ e.ids = client[p].ids /\ e.batch = client[p].batch
      /\ e.outbox = client[p].outbox
  BY <1>1, <1>2 DEF Clients, Steps
<1>. HIDE DEF d, e
<1>6. ~Writing(e) /\ PlanOK(e, b) /\ StepOK(e) /\ OutboxOK(e, Latest) /\ SweepOK(e, Latest) /\ FetchOK(e)
  BY <1>1, <1>2, <1>5 DEF ClientOK, Writing, PlanOK, StepOK, OutboxOK, SweepOK, FetchOK, Handling
<1>7. /\ c \in Clients /\ ~Writing(c) /\ PlanOK(c, b) /\ StepOK(c)
      /\ OutboxOK(c, Latest) /\ SweepOK(c, Latest) /\ FetchOK(c)
  BY <1>4, <1>5, <1>6
<1>8. Writing(client[p])
  BY <1>1 DEF Writing
<1>. HIDE DEF c, b
<1>. QED  BY <1>1, <1>3, <1>4, <1>7, <1>8, SafeWritten DEF b

LEMMA SafeFinishWritten ==
  ASSUME TypeOK, TypeOK', SafetyInv, NEW p \in Procs, FinishWritten(p)  PROVE SafetyInv'
<1>1. client[p].pc = "finishing" /\ Writing(client[p])
  BY DEF FinishWritten, At, Writing
<1>2. /\ \/ Accepted(p, NextLetter(client[p])) \/ Conflict(p, "finish") \/ Failed(p, NextLetter(client[p]))
      /\ UNCHANGED <<sent, delivered, log, reports>>
  BY DEF FinishWritten
<1>. QED  BY <1>1, <1>2, SafeNextWritten, SafeWritten

-----------------------------------------------------------------------------
(* The effects: log, reports and confirmations.                              *)

\* The log, the reports or the confirmations grow; the process goes on as c.
LEMMA EffectSafe ==
  ASSUME TypeOK, TypeOK', SafetyInv, NEW p \in Procs, NEW c, client' = [client EXCEPT ![p] = c],
         sent' = sent, meta' = meta,
         \A m \in Mails : (log[m] # "none" => log'[m] = log[m]) /\ (reports[m] >= 1 => reports'[m] >= 1),
         ClientTypeOK(c, Current), WriteOK(c), PlanOK(c, Latest), OutboxOK(c, Latest),
         SweepOK(c, Latest), FetchOK(c), StepOK(c)',
         Provided'
  PROVE  SafetyInv'
<1>1. Latest' = Latest /\ Current' = Current
  BY DEF Latest, Current
<1>2. /\ Latest \in Bodies /\ Current \in Nat /\ sent \in Nat
      /\ Sound(Latest) /\ Supported(Latest)
  BY Typed DEF SafetyInv, History, Latest
<1>3. Grow
  BY <1>1, <1>2, LaterOrder DEF Grow
<1>4. client'[p] = c /\ \A q \in Procs \ {p} : client'[q] = client[q]
  BY DEF TypeOK
<1>5. WriteOK(c)' /\ PlanOK(c, Latest)' /\ OutboxOK(c, Latest)' /\ SweepOK(c, Latest)' /\ FetchOK(c)'
  BY <1>3, PartsGrow
<1>6. ClientOK(client[p], Latest)'
  BY <1>4, <1>5 DEF ClientOK, WriteOK, PlanOK, StepOK, OutboxOK, SweepOK, FetchOK, Writing,
     Sound, Supported, Later, Known, Done, Rank
<1>7. Sound(Latest') /\ Supported(Latest)'
  <2>1. \A m \in Mails : Done(Latest, m) =>
          log'[m] # "none" /\ (Latest.inbox[m].kind = "rejection" => reports'[m] >= 1)
    BY <1>2, <1>3, SupportedGrows
  <2>. QED  BY <1>1, <1>2, <2>1 DEF Supported, Done
<1>. QED  BY <1>1, <1>3, <1>4, <1>6, <1>7, Frame

LEMMA SafeFlush ==
  ASSUME TypeOK, TypeOK', SafetyInv, NEW p \in Procs, Flush(p)  PROVE SafetyInv'
<1>1. /\ client[p] \in Clients /\ ClientTypeOK(client[p], Current) /\ ClientOK(client[p], Latest)
      /\ \A m \in Mails : reports[m] \in Nat
  BY Typed DEF SafetyInv
<1>2. /\ log' = [m \in Mails |-> IF log[m] = "none" THEN client[p].outbox[m] ELSE log[m]]
      /\ sent' = sent /\ delivered' = delivered /\ meta' = meta /\ reports' = reports
  BY DEF Flush
<1>3. PICK c : /\ c = client[p] \/ c = [client[p] EXCEPT !.outbox = EmptyOutbox]
               /\ client' = [client EXCEPT ![p] = c]
  <2>1. client = [client EXCEPT ![p] = client[p]]
    BY DEF TypeOK
  <2>. QED  BY <2>1 DEF Flush, Become
<1>4. /\ c.pc = client[p].pc /\ c.cur = client[p].cur /\ c.receipt = client[p].receipt
      /\ c.fetched = client[p].fetched /\ c.ids = client[p].ids /\ c.batch = client[p].batch
      /\ c.base = client[p].base /\ c.body = client[p].body /\ c.local = client[p].local
      /\ c.outbox = client[p].outbox \/ c.outbox = EmptyOutbox
      /\ c \in Clients
  BY <1>1, <1>3, BodyTypes DEF Clients
<1>5. ClientTypeOK(c, Current) /\ WriteOK(c) /\ PlanOK(c, Latest) /\ SweepOK(c, Latest) /\ FetchOK(c)
  BY <1>1, <1>4 DEF ClientTypeOK, ClientOK, WriteOK, Writing, PlanOK, SweepOK, FetchOK
<1>6. OutboxOK(c, Latest)
  BY <1>1, <1>4 DEF ClientOK, OutboxOK, EmptyOutbox
<1>7. StepOK(c)'
  <2>1. c.pc \in Handling => c.cur \in Mails
    BY <1>5 DEF ClientTypeOK
  <2>2. c.pc = "storing" => log'[c.cur] # "none"
    BY <1>1, <1>2, <1>4, <2>1 DEF ClientOK, StepOK, Handling
  <2>3. c.pc \in {"report", "finish", "finishing"} => log'[c.cur] # "none"
    BY <1>1, <1>2, <1>4, <2>1 DEF ClientOK, StepOK, Handling
  <2>. QED  BY <1>1, <1>2, <1>4, <2>2, <2>3 DEF ClientOK, StepOK
<1>8. Provided'
  <2>1. \A m \in Mails : log'[m] # "none" => Known(Latest, m) /\ Latest.inbox[m].kind = log'[m]
    BY <1>1, <1>2 DEF SafetyInv, Provided, ClientOK, OutboxOK
  <2>2. Latest' = Latest
    BY <1>2 DEF Latest, Current
  <2>. QED  BY <1>2, <2>1, <2>2 DEF SafetyInv, Provided, Known, Done
<1>9. \A m \in Mails : (log[m] # "none" => log'[m] = log[m]) /\ (reports[m] >= 1 => reports'[m] >= 1)
  BY <1>1, <1>2
<1>. QED  BY <1>2, <1>3, <1>5, <1>6, <1>7, <1>8, <1>9, EffectSafe

LEMMA SafeReport ==
  ASSUME TypeOK, TypeOK', SafetyInv, NEW p \in Procs, Report(p)  PROVE SafetyInv'
<1>. DEFINE m == client[p].cur
            d == NextLetter(client[p])
            e == [client[p] EXCEPT !.pc = "finish"]
<1>1. /\ client[p] \in Clients /\ ClientTypeOK(client[p], Current) /\ ClientOK(client[p], Latest)
      /\ client[p].pc = "report" /\ m \in Mails
      /\ reports \in [Mails -> Nat] /\ \A k \in Mails : reports[k] \in Nat
  BY Typed DEF SafetyInv, Report, At, ClientTypeOK, Handling, TypeOK, CentreTypeOK
<1>2. /\ Known(Latest, m) /\ Latest.inbox[m].kind = "rejection"
      /\ log[m] # "none" /\ client[p].receipt.kind = "rejection"
  BY <1>1 DEF ClientOK, PlanOK, StepOK
<1>3. /\ sent' = sent /\ delivered' = delivered /\ meta' = meta /\ log' = log
      /\ reports' \in {reports, Reported(m)}
  BY DEF Report
<1>4. /\ \A k \in Mails \ {m} : reports'[k] = reports[k]
      /\ \A k \in Mails : reports[k] >= 1 => reports'[k] >= 1
      /\ reports' = Reported(m) => reports'[m] >= 1
  <2>1. /\ \A k \in Mails \ {m} : Reported(m)[k] = reports[k]
        /\ Reported(m)[m] = IF m \in Tasks THEN 1 ELSE reports[m] + 1
    BY <1>1 DEF Reported
  <2>2. Reported(m)[m] >= 1
    BY <1>1, <2>1
  <2>. QED  BY <1>1, <1>3, <2>1, <2>2
<1>5. Latest' = Latest /\ Current' = Current
  BY <1>3 DEF Latest, Current
<1>6. Provided'
  BY <1>1, <1>2, <1>3, <1>4, <1>5 DEF SafetyInv, Provided, Known, Done
<1>7. \A k \in Mails : (log[k] # "none" => log'[k] = log[k]) /\ (reports[k] >= 1 => reports'[k] >= 1)
  BY <1>3, <1>4
<1>8. CASE Become(p, e) /\ reports' = Reported(m)
  <2>1. /\ e \in Clients /\ e.pc = "finish" /\ e.cur = m /\ e.receipt = client[p].receipt
        /\ e.fetched = client[p].fetched /\ e.ids = client[p].ids /\ e.batch = client[p].batch
        /\ e.base = client[p].base /\ e.local = client[p].local /\ e.outbox = client[p].outbox
    BY <1>1 DEF Clients, Steps
  <2>2. PICK c : c = e
    OBVIOUS
  <2>3. client' = [client EXCEPT ![p] = c]
    BY <1>8, <2>2 DEF Become
  <2>. HIDE DEF e
  <2>4. ClientTypeOK(c, Current) /\ WriteOK(c) /\ PlanOK(c, Latest) /\ OutboxOK(c, Latest)
        /\ SweepOK(c, Latest) /\ FetchOK(c)
    BY <1>1, <2>1, <2>2 DEF ClientTypeOK, ClientOK, WriteOK, Writing, PlanOK, OutboxOK, SweepOK,
       FetchOK, Handling
  <2>5. StepOK(c)'
    BY <1>2, <1>3, <1>4, <1>8, <2>1, <2>2 DEF StepOK
  <2>. QED  BY <1>3, <1>6, <1>7, <2>3, <2>4, <2>5, EffectSafe
<1>9. CASE Become(p, d)
  <2>1. d \in Clients /\ d.pc = "next" /\ d.base = client[p].base /\ d.local = client[p].local
    BY <1>1, BodyTypes DEF NextLetter, Clients, Steps
  <2>2. PICK c : c = d
    OBVIOUS
  <2>3. client' = [client EXCEPT ![p] = c]
    BY <1>9, <2>2 DEF Become
  <2>4. ClientOK(c, Latest)
    BY <1>1, <2>2, NextOK
  <2>. HIDE DEF d
  <2>5. ClientTypeOK(c, Current)
    BY <1>1, <2>1, <2>2 DEF ClientTypeOK, Handling
  <2>6. StepOK(c)'
    BY <2>1, <2>2 DEF StepOK
  <2>. QED  BY <1>3, <1>6, <1>7, <2>3, <2>4, <2>5, <2>6, EffectSafe DEF ClientOK
<1>. QED  BY <1>3, <1>8, <1>9 DEF Report

LEMMA SafeAck ==
  ASSUME TypeOK, TypeOK', SafetyInv, NEW p \in Procs, Ack(p)  PROVE SafetyInv'
<1>1. /\ client[p] \in Clients /\ ClientTypeOK(client[p], Current) /\ ClientOK(client[p], Latest)
      /\ client[p].pc = "sweep" /\ \A m \in Mails : reports[m] \in Nat
  BY Typed DEF SafetyInv, Ack, At
<1>2. PICK b \in Batches(client[p].ids) :
        /\ delivered' \in {delivered, delivered \cup b}
        /\ \/ Become(p, [client[p] EXCEPT !.pc = "mark", !.batch = b, !.ids = @ \ b])
           \/ Become(p, SweepOver(client[p]))
  BY DEF Ack
<1>3. sent' = sent /\ meta' = meta /\ log' = log /\ reports' = reports
  BY DEF Ack
<1>4. b \subseteq client[p].ids /\ b \subseteq Mails /\ \A m \in b : Done(Latest, m)
  BY <1>1, <1>2 DEF Batches, ClientOK, SweepOK, Clients
<1>5. Latest' = Latest
  BY <1>3 DEF Latest, Current
<1>6. Provided'
  BY <1>2, <1>3, <1>4, <1>5 DEF SafetyInv, Provided, Known, Done
<1>7. PICK c : /\ \/ c = [client[p] EXCEPT !.pc = "mark", !.batch = b, !.ids = @ \ b]
                  \/ c = SweepOver(client[p])
               /\ client' = [client EXCEPT ![p] = c]
  BY <1>2 DEF Become
<1>8. /\ c \in Clients /\ c.pc \in {"mark", "receive", "idle"} /\ c.cur = client[p].cur
      /\ c.fetched = client[p].fetched /\ c.outbox = client[p].outbox
      /\ c.ids \cup c.batch \subseteq client[p].ids \cup client[p].batch
      /\ c.base = client[p].base /\ c.local = client[p].local
  <2>1. CASE c = [client[p] EXCEPT !.pc = "mark", !.batch = b, !.ids = @ \ b]
    BY <1>1, <1>4, <2>1 DEF Clients, Steps
  <2>2. CASE c = SweepOver(client[p])
    BY <1>1, <2>2 DEF Clients, Steps, SweepOver
  <2>. QED  BY <1>7, <2>1, <2>2
<1>9. /\ ClientTypeOK(c, Current) /\ WriteOK(c) /\ PlanOK(c, Latest) /\ OutboxOK(c, Latest)
      /\ SweepOK(c, Latest) /\ FetchOK(c)
  BY <1>1, <1>8 DEF ClientTypeOK, ClientOK, WriteOK, Writing, PlanOK, OutboxOK, SweepOK,
     FetchOK, Handling
<1>10. StepOK(c)'
  BY <1>8 DEF StepOK
<1>11. \A m \in Mails : (log[m] # "none" => log'[m] = log[m]) /\ (reports[m] >= 1 => reports'[m] >= 1)
  BY <1>3
<1>. QED  BY <1>3, <1>6, <1>7, <1>9, <1>10, <1>11, EffectSafe

-----------------------------------------------------------------------------
(* The theorems.                                                             *)

LEMMA SafeNext ==
  ASSUME NoEviction, TypeOK, TypeOK', SafetyInv, [Next]_vars  PROVE SafetyInv'
<1>1. CASE Send \/ ForeignWrite
  BY <1>1, SafeCentre
<1>2. CASE \E p \in Procs : Loop(p) \/ Flush(p) \/ Environment(p)
  <2>1. PICK p \in Procs : Loop(p) \/ Flush(p) \/ Environment(p)
    BY <1>2
  <2>2. CASE Loop(p)
    <3>1. CASE BeginTick(p) \/ SweepDone(p) \/ ListDone(p)
      BY <3>1, SafeSweep
    <3>2. CASE Ack(p)
      BY <3>2, SafeAck
    <3>3. CASE Mark(p)
      BY <3>3, SafeMark
    <3>4. CASE MarkWritten(p)
      BY <3>4, SafeMarkWritten
    <3>5. CASE Receive(p)
      BY <3>5, SafeReceive
    <3>6. CASE Take(p)
      BY <3>6, SafeTake
    <3>7. CASE Validate(p)
      BY <3>7, SafeValidate
    <3>8. CASE Project(p)
      BY <3>8, SafeProject
    <3>9. CASE ProjectWritten(p)
      BY <3>9, SafeProjectWritten
    <3>10. CASE Store(p) \/ Stored(p)
      BY <3>10, SafeStore
    <3>11. CASE Report(p)
      BY <3>11, SafeReport
    <3>12. CASE Finish(p)
      BY <3>12, SafeFinish
    <3>13. CASE FinishWritten(p)
      BY <3>13, SafeFinishWritten
    <3>. QED  BY <2>2, <3>1, <3>2, <3>3, <3>4, <3>5, <3>6, <3>7, <3>8, <3>9, <3>10, <3>11,
              <3>12, <3>13 DEF Loop
  <2>3. CASE Flush(p)
    BY <2>3, SafeFlush
  <2>4. CASE Environment(p)
    BY <2>4, SafeEnvironment
  <2>. QED  BY <2>1, <2>2, <2>3, <2>4
<1>3. CASE UNCHANGED vars
  <2>1. /\ sent' = sent /\ delivered' = delivered /\ meta' = meta /\ log' = log
        /\ reports' = reports /\ client' = client
    BY <1>3 DEF vars
  <2>2. Latest' = Latest /\ Current' = Current
    BY <2>1 DEF Latest, Current
  <2>. QED  BY <2>1, <2>2 DEF SafetyInv, Provided, History, ClientOK, WriteOK, PlanOK, StepOK,
            OutboxOK, SweepOK, FetchOK, Writing, Sound, Supported, Later, Known, Done, Rank
<1>. QED  BY <1>1, <1>2, <1>3 DEF Next

\* With room for the receipts of all letters, the letters, their receipts, the
\* log, the reports and every process agree on how far each letter is.
THEOREM SafetyCorrect == ASSUME NoEviction PROVE Spec => []SafetyInv
<1>1. TypeOK /\ TypeOK' /\ SafetyInv /\ [Next]_vars => SafetyInv'
  BY SafeNext
<1>. QED  BY <1>1, SafeInit, TypeCorrect, PTL DEF Spec

\* As long as no receipt has to be evicted: no letter is confirmed to the centre
\* before its board change, its entry in the log and, if it was rejected, its
\* report to the hub are there.
THEOREM NothingIsLost == ASSUME NoEviction PROVE Spec => []NothingLost
<1>1. TypeOK /\ SafetyInv => NothingLost
  <2>. SUFFICES ASSUME TypeOK, SafetyInv, NEW m \in delivered PROVE
         /\ Latest.board[m] >= 1
         /\ log[m] # "none"
         /\ (\E v \in 1..Current : Rejected(meta[v], m)) => reports[m] >= 1
    BY DEF NothingLost
  <2>1. m \in Mails /\ Latest \in Bodies /\ Sound(Latest) /\ Supported(Latest)
    BY Typed DEF SafetyInv, History, Latest, TypeOK, CentreTypeOK
  <2>2. Done(Latest, m) /\ Known(Latest, m)
    BY <2>1, Ranks DEF SafetyInv, Provided
  <2>3. ASSUME NEW v \in 1..Current, Rejected(meta[v], m) PROVE Latest.inbox[m].kind = "rejection"
    BY <2>1, <2>3, Typed, LaterFacts DEF SafetyInv, History, Rejected, Known
  <2>. QED  BY <2>1, <2>2, <2>3 DEF Sound, Supported
<1>. QED  BY <1>1, SafetyCorrect, TypeCorrect, PTL

-----------------------------------------------------------------------------
(* The protocol implements MailPromise, as long as no receipt has to be     *)
(* evicted.                                                                 *)

LEMMA PromiseInit == Init => Promise!Init
<1>. SUFFICES ASSUME Init PROVE Promise!Init
  OBVIOUS
<1>1. Latest = EmptyBody
  BY DEF Init, Latest, Current
<1>2. 1..sent = {}
  BY DEF Init
<1>3. Latest.board = [m \in Mails |-> 0]
  BY <1>1 DEF EmptyBody
<1>. QED  BY <1>2, <1>3 DEF Init, Promise!Init

\* The steps the promise does not see.
LEMMA PromiseStutter ==
  ASSUME sent' = sent, delivered' = delivered, Latest' = Latest, log' = log
  PROVE  [Promise!Next]_Promise!vars
BY DEF Promise!vars

\* A letter is applied by the write that carries its projection.
LEMMA PromiseWrite ==
  ASSUME TypeOK, TypeOK', SafetyInv, NEW p \in Procs, Writing(client[p]),
         sent' = sent, delivered' = delivered, log' = log,
         \/ meta' = meta
         \/ client[p].base = Current /\ meta' = Append(meta, client[p].body)
  PROVE  [Promise!Next]_Promise!vars
<1>. DEFINE b == client[p].body
            m == client[p].cur
<1>1. /\ b \in Bodies /\ Latest \in Bodies /\ Sound(Latest)
      /\ client[p] \in Clients /\ ClientOK(client[p], Latest) /\ ClientTypeOK(client[p], Current)
  BY Typed DEF SafetyInv, History, Latest
<1>2. CASE meta' = meta
  BY <1>2, PromiseStutter DEF Latest, Current
<1>3. CASE client[p].base = Current /\ meta' = Append(meta, b)
  <2>1. Latest' = b
    <3>1. meta \in Seq(Bodies)
      BY DEF TypeOK, CentreTypeOK
    <3>. QED  BY <1>1, <1>3, <3>1 DEF Latest, Current
  <2>2. /\ Sound(b) /\ Later(Latest, b)
        /\ \A k \in Mails : b.board[k] # Latest.board[k] => client[p].pc = "projecting" /\ k = m
    BY <1>1, <1>3 DEF ClientOK, WriteOK, Latest
  <2>3. b.board \in [Mails -> Nat] /\ Latest.board \in [Mails -> Nat]
    BY <1>1 DEF Bodies
  <2>. HIDE DEF b
  <2>4. CASE \A k \in Mails : b.board[k] = Latest.board[k]
    <3>1. b.board = Latest.board
      BY <2>3, <2>4
    <3>. QED  BY <2>1, <3>1 DEF Promise!vars
  <2>5. ASSUME NEW k \in Mails, b.board[k] # Latest.board[k]
        PROVE  Promise!Apply(k)
    <3>1. k = m /\ m \in 1..sent
      BY <1>1, <2>2, <2>5 DEF ClientOK, FetchOK, Handling
    <3>2. Known(Latest, k) => Known(b, k)
      BY <1>1, <2>2, LaterFacts
    <3>3. Latest.board[k] = 0 /\ b.board[k] = 1
      BY <1>1, <2>2, <2>5, <3>2 DEF Sound
    <3>4. b.board = [Latest.board EXCEPT ![k] = 1]
      BY <2>2, <2>3, <3>1, <3>3
    <3>. QED  BY <2>1, <3>1, <3>3, <3>4 DEF Promise!Apply
  <2>. QED  BY <2>4, <2>5 DEF Promise!Next
<1>. QED  BY <1>2, <1>3

LEMMA PromiseSend ==
  ASSUME TypeOK, Send  PROVE [Promise!Next]_Promise!vars
<1>1. sent \in Nat /\ sent < NumMails /\ sent' = sent + 1
  BY ConstantsAssumption DEF Send, TypeOK, CentreTypeOK
<1>2. sent + 1 \in Mails /\ sent + 1 \notin 1..sent /\ 1..sent' = 1..sent \cup {sent + 1}
  BY <1>1, ConstantsAssumption DEF Mails
<1>3. delivered' = delivered /\ log' = log /\ Latest' = Latest
  BY DEF Send, Latest, Current
<1>4. Promise!Post(sent + 1)
  BY <1>2, <1>3 DEF Promise!Post
<1>. QED  BY <1>2, <1>4 DEF Promise!Next

LEMMA PromiseFlush ==
  ASSUME TypeOK, TypeOK', SafetyInv, NEW p \in Procs, Flush(p)
  PROVE  [Promise!Next]_Promise!vars
<1>. DEFINE S == {m \in Mails : log'[m] # log[m]}
<1>1. /\ log' = [m \in Mails |-> IF log[m] = "none" THEN client[p].outbox[m] ELSE log[m]]
      /\ sent' = sent /\ delivered' = delivered /\ Latest' = Latest
  BY DEF Flush, Latest, Current
<1>2. ClientOK(client[p], Latest) /\ Sound(Latest)
  BY Typed DEF SafetyInv, History, Latest
<1>3. log' \in [Mails -> {"none", "user", "event", "rejection"}]
  BY DEF TypeOK, CentreTypeOK, Kinds
<1>4. \A m \in S : Latest.board[m] = 1 /\ log[m] = "none"
  BY <1>1, <1>2 DEF ClientOK, OutboxOK, Sound
<1>5. Promise!Enter(S)
  BY <1>1, <1>3, <1>4 DEF Promise!Enter
<1>6. S \in SUBSET Mails
  OBVIOUS
<1>. HIDE DEF S
<1>. QED  BY <1>5, <1>6 DEF Promise!Next

LEMMA PromiseAck ==
  ASSUME TypeOK, SafetyInv, NEW p \in Procs, Ack(p)
  PROVE  [Promise!Next]_Promise!vars
<1>1. /\ client[p] \in Clients /\ ClientOK(client[p], Latest) /\ Supported(Latest)
  BY Typed DEF SafetyInv, History, Latest
<1>2. sent' = sent /\ log' = log /\ Latest' = Latest
  BY DEF Ack, Latest, Current
<1>3. PICK b \in Batches(client[p].ids) : delivered' \in {delivered, delivered \cup b}
  BY DEF Ack
<1>4. b \in SUBSET Mails /\ \A m \in b : log[m] # "none"
  BY <1>1 DEF Batches, Clients, ClientOK, SweepOK, Supported
<1>5. CASE delivered' = delivered
  BY <1>2, <1>5, PromiseStutter
<1>6. CASE delivered' = delivered \cup b
  <2>1. Promise!Close(b)
    BY <1>2, <1>4, <1>6 DEF Promise!Close
  <2>. QED  BY <1>4, <2>1 DEF Promise!Next
<1>. QED  BY <1>3, <1>5, <1>6

LEMMA PromiseNext ==
  ASSUME TypeOK, TypeOK', SafetyInv, [Next]_vars  PROVE [Promise!Next]_Promise!vars
<1>1. CASE Send
  BY <1>1, PromiseSend
<1>2. CASE ForeignWrite
  <2>1. meta \in Seq(Bodies) /\ Latest \in Bodies
    BY Typed DEF TypeOK, CentreTypeOK
  <2>2. Latest' = Latest
    BY <1>2, <2>1 DEF ForeignWrite, Latest, Current
  <2>. QED  BY <1>2, <2>2, PromiseStutter DEF ForeignWrite
<1>3. ASSUME NEW p \in Procs, MarkWritten(p) \/ ProjectWritten(p) \/ FinishWritten(p)
      PROVE  [Promise!Next]_Promise!vars
  <2>1. Writing(client[p])
    BY <1>3 DEF MarkWritten, ProjectWritten, FinishWritten, At, Writing
  <2>2. \/ meta' = meta
        \/ client[p].base = Current /\ meta' = Append(meta, client[p].body)
    BY <1>3 DEF MarkWritten, ProjectWritten, FinishWritten, Accepted, Conflict, Failed
  <2>3. sent' = sent /\ delivered' = delivered /\ log' = log
    BY <1>3 DEF MarkWritten, ProjectWritten, FinishWritten
  <2>. QED  BY <2>1, <2>2, <2>3, PromiseWrite
<1>4. ASSUME NEW p \in Procs,
             \/ BeginTick(p) \/ SweepDone(p) \/ Mark(p) \/ Receive(p) \/ ListDone(p) \/ Take(p)
             \/ Validate(p) \/ Project(p) \/ Store(p) \/ Stored(p) \/ Report(p) \/ Finish(p)
             \/ Environment(p)
      PROVE  [Promise!Next]_Promise!vars
  <2>1. sent' = sent /\ delivered' = delivered /\ meta' = meta /\ log' = log
    BY <1>4 DEF BeginTick, SweepDone, Mark, Receive, ListDone, Take, Validate, Project, Store,
       Stored, Report, Finish, Environment, Push, Start, Crash, Stop, Close
  <2>. QED  BY <2>1, PromiseStutter DEF Latest, Current
<1>5. CASE UNCHANGED vars
  BY <1>5, PromiseStutter DEF vars, Latest, Current
<1>6. CASE \E p \in Procs : Loop(p) \/ Flush(p) \/ Environment(p)
  <2>1. PICK p \in Procs : Loop(p) \/ Flush(p) \/ Environment(p)
    BY <1>6
  <2>2. CASE Flush(p)
    BY <2>2, PromiseFlush
  <2>3. CASE Ack(p)
    BY <2>3, PromiseAck
  <2>. QED  BY <1>3, <1>4, <2>1, <2>2, <2>3 DEF Loop
<1>. QED  BY <1>1, <1>2, <1>5, <1>6 DEF Next

\* As long as no receipt has to be evicted, the protocol implements the promise:
\* the projection of every letter is made once, then its message enters the log
\* as one kind of thing, and only then is the letter closed -- whatever crashes,
\* conflicts and lost responses do.  A letter whose receipt was evicted may be
\* projected again, which the promise forbids.
THEOREM PromiseIsKept == ASSUME NoEviction PROVE Spec => PromiseKept
<1>1. TypeOK /\ TypeOK' /\ SafetyInv /\ [Next]_vars => [Promise!Next]_Promise!vars
  BY PromiseNext
<1>. QED  BY <1>1, PromiseInit, SafetyCorrect, TypeCorrect, PTL DEF Spec, PromiseKept, Promise!Spec
=============================================================================
