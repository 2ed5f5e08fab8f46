----------------------------- MODULE AgentMail -----------------------------
(***************************************************************************)
(* Protocol v3 of agent mail: how a letter addressed to one session        *)
(* becomes, exactly once, a board/configuration change and an entry of the *)
(* session's message log, whatever crashes, conflicts and lost responses   *)
(* come between.  The centre keeps the letters, the versioned session      *)
(* metadata and the message log; every process in Procs runs the receiving *)
(* loop of the same session (an old process and its successor overlap      *)
(* during a refresh).                                                      *)
(*                                                                         *)
(* Letters are numbered in the order the centre created them.              *)
(***************************************************************************)
EXTENDS Naturals, Sequences, FiniteSets

CONSTANTS
  NumMails,        \* letters ever sent to the session
  Procs,           \* processes that may run the receiving loop
  Tasks,           \* letters that are task envelopes: their report has an identity
  FetchLimit,      \* letters per GET               (20 in the code)
  AckBatch,        \* ids per acknowledgement       (20 in the code)
  InboxLimit,      \* AGENT_MAIL_INBOX_LIMIT        (512 in the code)
  AckedKept,       \* ACKED_RECEIPTS_KEPT           (32 in the code)
  MaxDisruptions   \* bound on crashes, stops, errors, lost responses, foreign writes

Mails == 1..NumMails

ASSUME ConstantsAssumption ==
  /\ NumMails \in Nat
  /\ Tasks \subseteq Mails
  /\ FetchLimit \in Nat \ {0}
  /\ AckBatch \in Nat \ {0}
  /\ InboxLimit \in Nat \ {0}
  /\ AckedKept \in Nat
  /\ MaxDisruptions \in Nat

VARIABLES
  sent,         \* centre: letters 1..sent exist
  delivered,    \* centre: letters whose deliveredAt is set
  meta,         \* centre: every version of the session metadata, newest last
  log,          \* centre: what the message log holds under the letter's localId
  reports,      \* centre: rejection reports written back to the hub, per letter
  client,       \* the receiving processes
  disruptions   \* disruptions so far

vars == <<sent, delivered, meta, log, reports, client, disruptions>>

-----------------------------------------------------------------------------
(* Receipts and metadata.                                                  *)

Kinds     == {"user", "event", "rejection"}
Phases    == {"none", "projected", "processed", "acked"}
Receipts  == [phase : Phases, kind : Kinds, at : Nat]
NoReceipt == [phase |-> "none", kind |-> "event", at |-> 0]

\* What processReliableMail may decide about a letter: a model turn, a control
\* event, or an event announcing a rejected configuration.
PlansAt(now) == [phase : {"projected"}, kind : Kinds, at : {now}]

Bodies == [inbox : [Mails -> Receipts], board : [Mails -> Nat]]

InPhase(inbox, phase) == {m \in DOMAIN inbox : inbox[m].phase = phase}
Present(inbox)        == DOMAIN inbox \ InPhase(inbox, "none")
Forget(inbox, D)      == [m \in DOMAIN inbox |-> IF m \in D THEN NoReceipt ELSE inbox[m]]
Excess(n, limit)      == IF n > limit THEN n - limit ELSE 0

\* Mutant: forgets whatever is oldest, confirmed or not.
DroppingAnything(inbox, n) ==
  {Forget(inbox, D) : D \in {S \in SUBSET Present(inbox) : Cardinality(S) = n}}

\* The inboxes left when the n oldest acked receipts are dropped.
Dropping(inbox, n) ==
  LET acked == InPhase(inbox, "acked")
  IN  {Forget(inbox, D) : D \in {S \in SUBSET acked :
         Cardinality(S) = n /\ \A d \in S, k \in acked \ S : inbox[d].at <= inbox[k].at}}

\* Mutant: counts the inbox without the letter that comes in.
RoomForOneMore(inbox) == Dropping(inbox, Excess(Cardinality(Present(inbox)), InboxLimit))

\* roomFor: no room at all when the inbox is full of unconfirmed work.
RoomFor(inbox) == Dropping(inbox, Excess(Cardinality(Present(inbox)) + 1, InboxLimit))

Current == Len(meta)
Latest  == meta[Current]

-----------------------------------------------------------------------------
(* A process.  pc names the statement it has reached; local is the metadata *)
(* version it holds; fetched the letters left of this poll and cur the one  *)
(* in hand; receipt the plan captured for it; ids and batch the sweep of    *)
(* acknowledgements and then the step after it; base and body the metadata *)
(* write in flight; outbox the messages not yet confirmed stored.  *)

Steps == {"down", "stopped", "idle", "sweep", "mark", "marking", "receive", "next",
          "validate", "project", "projecting", "store", "storing", "report",
          "finish", "finishing"}

\* With a letter in hand.
Handling == {"validate", "project", "projecting", "store", "storing", "report",
             "finish", "finishing"}

Clients == [pc : Steps, local : Nat, fetched : SUBSET Mails, cur : Nat,
            receipt : Receipts, ids : SUBSET Mails, batch : SUBSET Mails,
            after : {"receive", "idle"}, base : Nat, body : Bodies, outbox : [Mails -> Kinds \cup {"none"}]]

EmptyBody == [inbox |-> [m \in Mails |-> NoReceipt], board |-> [m \in Mails |-> 0]]
EmptyOutbox == [m \in Mails |-> "none"]

Down == [pc |-> "down", local |-> 1, fetched |-> {}, cur |-> 0, receipt |-> NoReceipt,
         ids |-> {}, batch |-> {}, after |-> "receive", base |-> 1, body |-> EmptyBody,
         outbox |-> EmptyOutbox]

Init ==
  /\ sent = 0
  /\ delivered = {}
  /\ meta = <<EmptyBody>>
  /\ log = [m \in Mails |-> "none"]
  /\ reports = [m \in Mails |-> 0]
  /\ client = [p \in Procs |-> Down]
  /\ disruptions = 0

Become(p, c) == client' = [client EXCEPT ![p] = c]
Local(p)     == meta[client[p].local]
At(p, step)  == client[p].pc = step
Disrupt      == disruptions < MaxDisruptions /\ disruptions' = disruptions + 1
Smooth       == UNCHANGED disruptions

\* Go on to the next letter of the poll, done or failed with this one.
NextLetter(c) == [c EXCEPT !.pc = "next", !.cur = 0, !.receipt = NoReceipt]
\* Leave acknowledgeProcessedMail.
SweepOver(c) == [c EXCEPT !.pc = c.after, !.after = "receive", !.ids = {}, !.batch = {}]
\* Mutant: confirms every letter that has a receipt.
SweepFromAnyReceipt(p, after) == [client[p] EXCEPT !.pc = "sweep", !.after = after,
                                   !.ids = Present(Local(p).inbox)]

\* Enter it: the processed receipts of the metadata this process holds.
SweepFrom(p, after) == [client[p] EXCEPT !.pc = "sweep", !.after = after,
                         !.ids = InPhase(Local(p).inbox, "processed")]

-----------------------------------------------------------------------------
(* The centre and the environment.                                         *)

\* POST /v1/lmc/agent/mail by another session.
Send ==
  /\ sent < NumMails
  /\ sent' = sent + 1
  /\ UNCHANGED <<delivered, meta, log, reports, client, disruptions>>

\* Another writer of the session's metadata moves its version on.
ForeignWrite ==
  /\ Disrupt
  /\ meta' = Append(meta, Latest)
  /\ UNCHANGED <<sent, delivered, log, reports, client>>

\* The socket's update-session event: a newer version than the one held.
Push(p) ==
  /\ ~At(p, "down")
  /\ \E v \in (client[p].local + 1)..Current :
        Become(p, [client[p] EXCEPT !.local = v])
  /\ UNCHANGED <<sent, delivered, meta, log, reports, disruptions>>

\* A new process of the session, which may have been handed old metadata.
Start(p) ==
  /\ At(p, "down")
  /\ \E v \in 1..Current : Become(p, [Down EXCEPT !.pc = "idle", !.local = v])
  /\ UNCHANGED <<sent, delivered, meta, log, reports, disruptions>>

Crash(p) ==
  /\ ~At(p, "down")
  /\ Disrupt
  /\ Become(p, Down)
  /\ UNCHANGED <<sent, delivered, meta, log, reports>>

\* stop(): the loop ends at the next place that looks at `stopped`; the outbox
\* keeps flushing until the session is closed.
Checkpoints == {"idle", "sweep", "next", "validate", "store", "storing"}

Stop(p) ==
  /\ client[p].pc \in Checkpoints
  /\ Disrupt
  /\ Become(p, [Down EXCEPT !.pc = "stopped", !.local = client[p].local,
                            !.outbox = client[p].outbox])
  /\ UNCHANGED <<sent, delivered, meta, log, reports>>

Close(p) ==
  /\ At(p, "stopped")
  /\ Become(p, Down)
  /\ UNCHANGED <<sent, delivered, meta, log, reports, disruptions>>

-----------------------------------------------------------------------------
(* Strict metadata writes: Submit computes the new body from the version    *)
(* held; the centre accepts it only if that version is still the newest.    *)

Submit(p, body, waiting) ==
  Become(p, [client[p] EXCEPT !.pc = waiting, !.base = client[p].local, !.body = body])

Settled(c) == [c EXCEPT !.base = 1, !.body = EmptyBody]

\* Accepted, and the response arrives: continue as `c` with the new version.
Accepted(p, c) ==
  /\ client[p].base = Current
  /\ meta' = Append(meta, client[p].body)
  /\ Become(p, [Settled(c) EXCEPT !.local = Current + 1])

\* version-mismatch: adopt the newer version and retry from the handler.
Conflict(p, retry) ==
  /\ client[p].base # Current
  /\ UNCHANGED meta
  /\ Become(p, [Settled(client[p]) EXCEPT !.pc = retry,
                  !.local = IF Current > @ THEN Current ELSE @])

\* Mutant: takes a lost response for an accepted write.
FailedAsAccepted(p, c) ==
  /\ Disrupt
  /\ \/ UNCHANGED meta
     \/ client[p].base = Current /\ meta' = Append(meta, client[p].body)
  /\ Become(p, [Settled(c) EXCEPT !.local = Current + 1])

\* The write throws: the connection fails before or after the centre has taken
\* it, or it has been in conflict for all its attempts.
Failed(p, c) ==
  /\ Disrupt
  /\ \/ UNCHANGED meta
     \/ client[p].base = Current /\ meta' = Append(meta, client[p].body)
  /\ Become(p, Settled(c))

-----------------------------------------------------------------------------
(* tickBody and acknowledgeProcessedMail.                                   *)

BeginTick(p) ==
  /\ At(p, "idle")
  /\ Become(p, SweepFrom(p, "receive"))
  /\ UNCHANGED <<sent, delivered, meta, log, reports, disruptions>>

SweepDone(p) ==
  /\ At(p, "sweep")
  /\ client[p].ids = {}
  /\ Become(p, SweepOver(client[p]))
  /\ UNCHANGED <<sent, delivered, meta, log, reports, disruptions>>

\* The ids of one request.
Batches(ids) == {b \in SUBSET ids : Cardinality(b) = IF Cardinality(ids) < AckBatch
                                                     THEN Cardinality(ids) ELSE AckBatch}

\* POST /v1/lmc/agent/mail/ack.  Its response may be lost after it took effect;
\* it may also never arrive at the centre.
Ack(p) ==
  /\ At(p, "sweep")
  /\ client[p].ids # {}
  /\ \E b \in Batches(client[p].ids) :
       \/ /\ delivered' = delivered \cup b
          /\ Become(p, [client[p] EXCEPT !.pc = "mark", !.batch = b, !.ids = @ \ b])
          /\ Smooth
       \/ /\ delivered' \in {delivered, delivered \cup b}
          /\ Become(p, SweepOver(client[p]))
          /\ Disrupt
  /\ UNCHANGED <<sent, meta, log, reports>>

\* The acked mark, and the tail of acked receipts that is kept.
Marked(inbox, batch) ==
  LET acked == [m \in DOMAIN inbox |->
                  IF m \in batch /\ inbox[m].phase = "processed"
                  THEN [inbox[m] EXCEPT !.phase = "acked"] ELSE inbox[m]]
  IN  Dropping(acked, Excess(Cardinality(InPhase(acked, "acked")), AckedKept))

Mark(p) ==
  /\ At(p, "mark")
  /\ \E inbox \in Marked(Local(p).inbox, client[p].batch) :
        Submit(p, [Local(p) EXCEPT !.inbox = inbox], "marking")
  /\ UNCHANGED <<sent, delivered, meta, log, reports, disruptions>>

\* A failed mark throws out of the sweep and ends the poll.
MarkWritten(p) ==
  /\ At(p, "marking")
  /\ \/ Smooth /\ Accepted(p, [client[p] EXCEPT !.pc = "sweep", !.batch = {}])
     \/ Smooth /\ Conflict(p, "mark")
     \/ Failed(p, SweepOver([client[p] EXCEPT !.after = "idle"]))
  /\ UNCHANGED <<sent, delivered, log, reports>>

\* GET /v1/lmc/agent/mail: the oldest undelivered letters; none when it fails.
Oldest(S) == {m \in S : Cardinality({k \in S : k < m}) < FetchLimit}

Receive(p) ==
  /\ At(p, "receive")
  /\ \/ /\ Become(p, [client[p] EXCEPT !.pc = "next", !.fetched = Oldest(1..sent \ delivered)])
        /\ Smooth
     \/ /\ Become(p, [client[p] EXCEPT !.pc = "next"])
        /\ Disrupt
  /\ UNCHANGED <<sent, delivered, meta, log, reports>>

\* The end of the list: sweep again.
ListDone(p) ==
  /\ At(p, "next")
  /\ client[p].fetched = {}
  /\ Become(p, SweepFrom(p, "idle"))
  /\ UNCHANGED <<sent, delivered, meta, log, reports, disruptions>>

-----------------------------------------------------------------------------
(* processReliableMail.                                                     *)

\* Mutant: takes a projected letter for a finished one.
TakeNewOnly(p) ==
  /\ At(p, "next")
  /\ \E m \in client[p].fetched :
       /\ \A k \in client[p].fetched : m <= k
       /\ LET c == [client[p] EXCEPT !.fetched = @ \ {m}, !.cur = m]
          IN  Become(p, IF Local(p).inbox[m].phase = "none" THEN [c EXCEPT !.pc = "validate"] ELSE NextLetter(c))
  /\ UNCHANGED <<sent, delivered, meta, log, reports, disruptions>>

\* Take the next letter; its receipt in the metadata held decides what is left.
Take(p) ==
  /\ At(p, "next")
  /\ \E m \in client[p].fetched :
       /\ \A k \in client[p].fetched : m <= k
       /\ LET c == [client[p] EXCEPT !.fetched = @ \ {m}, !.cur = m]
              r == Local(p).inbox[m]
          IN  Become(p, CASE r.phase = "none"      -> [c EXCEPT !.pc = "validate"]
                          [] r.phase = "projected" -> [c EXCEPT !.pc = "store", !.receipt = r]
                          [] OTHER                 -> NextLetter(c))
  /\ UNCHANGED <<sent, delivered, meta, log, reports, disruptions>>

\* Read the relation and check a requested configuration against the engine;
\* both may differ between processes and attempts.  `at` is the time of the
\* plan; the number of metadata versions written so far serves as the clock.
\* Any other error skips the letter until the next poll.
Validate(p) ==
  /\ At(p, "validate")
  /\ \/ Smooth /\ \E plan \in PlansAt(Current) :
                     Become(p, [client[p] EXCEPT !.pc = "project", !.receipt = plan])
     \/ Disrupt /\ Become(p, NextLetter(client[p]))
  /\ UNCHANGED <<sent, delivered, meta, log, reports>>

\* Mutant: does not look again for the receipt of a concurrent process.
ProjectionsUnchecked(body, m, plan) ==
  {[inbox |-> [inbox EXCEPT ![m] = plan], board |-> [body.board EXCEPT ![m] = @ + 1]]
     : inbox \in RoomFor(body.inbox)}

\* Board, configuration and receipt in one body -- unless a receipt is there
\* already, when the body is written back as it is.
Projections(body, m, plan) ==
  IF body.inbox[m].phase # "none" THEN {body}
  ELSE {[inbox |-> [inbox EXCEPT ![m] = plan], board |-> [body.board EXCEPT ![m] = @ + 1]]
          : inbox \in RoomFor(body.inbox)}

Project(p) ==
  /\ At(p, "project")
  /\ LET bodies == Projections(Local(p), client[p].cur, client[p].receipt)
     IN  \/ \E body \in bodies : Submit(p, body, "projecting")
         \/ bodies = {} /\ Become(p, NextLetter(client[p]))
  /\ UNCHANGED <<sent, delivered, meta, log, reports, disruptions>>

\* Mutant: goes on with its own plan.
ProjectWrittenOwnPlan(p) ==
  /\ At(p, "projecting")
  /\ \/ Smooth /\ Accepted(p, [client[p] EXCEPT !.pc = "store"])
     \/ Smooth /\ Conflict(p, "project")
     \/ Failed(p, NextLetter(client[p]))
  /\ UNCHANGED <<sent, delivered, log, reports>>

\* Once written, the receipt in the metadata is the one that counts.
ProjectWritten(p) ==
  /\ At(p, "projecting")
  /\ LET r == client[p].body.inbox[client[p].cur]
     IN  \/ Smooth /\ Accepted(p, IF r.phase = "projected"
                                  THEN [client[p] EXCEPT !.pc = "store", !.receipt = r]
                                  ELSE NextLetter(client[p]))
         \/ Smooth /\ Conflict(p, "project")
         \/ Failed(p, NextLetter(client[p]))
  /\ UNCHANGED <<sent, delivered, log, reports>>

\* sendUserTextMessage / sendSessionEvent with the letter's localId.  A message
\* of an earlier attempt that is still in the outbox is waited for, not doubled.
Store(p) ==
  /\ At(p, "store")
  /\ LET m == client[p].cur
     IN  Become(p, [client[p] EXCEPT !.pc = "storing",
                      !.outbox[m] = IF @ = "none" THEN client[p].receipt.kind ELSE @])
  /\ UNCHANGED <<sent, delivered, meta, log, reports, disruptions>>

\* flushOutbox: POST /v3/sessions/:id/messages keeps the first message of a
\* localId; a lost response leaves the outbox as it is.
Flush(p) ==
  /\ client[p].outbox # EmptyOutbox
  /\ log' = [m \in Mails |-> IF log[m] = "none" THEN client[p].outbox[m] ELSE log[m]]
  /\ \/ Smooth /\ Become(p, [client[p] EXCEPT !.outbox = EmptyOutbox])
     \/ Disrupt /\ UNCHANGED client
  /\ UNCHANGED <<sent, delivered, meta, reports>>

\* Mutant: does not wait for the message to be stored.
StoredUnconfirmed(p) ==
  /\ At(p, "storing")
  /\ Become(p, [client[p] EXCEPT !.pc = IF client[p].receipt.kind = "rejection" THEN "report" ELSE "finish"])
  /\ UNCHANGED <<sent, delivered, meta, log, reports, disruptions>>

\* Storage confirmed -- or not within the timeout, and the letter stays pending.
Stored(p) ==
  /\ At(p, "storing")
  /\ \/ /\ client[p].outbox[client[p].cur] = "none"
        /\ Become(p, [client[p] EXCEPT !.pc = IF client[p].receipt.kind = "rejection" THEN "report" ELSE "finish"])
        /\ Smooth
     \/ Become(p, NextLetter(client[p])) /\ Disrupt
  /\ UNCHANGED <<sent, delivered, meta, log, reports>>

\* mail.send of the rejection.  A task's report is an envelope and carries an
\* idempotency key; a notice does not.
Reported(m) == [reports EXCEPT ![m] = IF m \in Tasks THEN 1 ELSE @ + 1]

Report(p) ==
  /\ At(p, "report")
  /\ \/ /\ reports' = Reported(client[p].cur)
        /\ Become(p, [client[p] EXCEPT !.pc = "finish"])
        /\ Smooth
     \/ /\ reports' \in {reports, Reported(client[p].cur)}
        /\ Become(p, NextLetter(client[p]))
        /\ Disrupt
  /\ UNCHANGED <<sent, delivered, meta, log>>

Finish(p) ==
  /\ At(p, "finish")
  /\ LET m == client[p].cur
         r == Local(p).inbox[m]
     IN  CASE r.phase = "none"      -> Become(p, NextLetter(client[p]))
           [] r.phase = "projected" -> Submit(p, [Local(p) EXCEPT !.inbox[m].phase = "processed"], "finishing")
           [] OTHER                 -> Submit(p, Local(p), "finishing")
  /\ UNCHANGED <<sent, delivered, meta, log, reports, disruptions>>

FinishWritten(p) ==
  /\ At(p, "finishing")
  /\ \/ Smooth /\ Accepted(p, NextLetter(client[p]))
     \/ Smooth /\ Conflict(p, "finish")
     \/ Failed(p, NextLetter(client[p]))
  /\ UNCHANGED <<sent, delivered, log, reports>>

-----------------------------------------------------------------------------
Loop(p) ==
  \/ BeginTick(p) \/ SweepDone(p) \/ Ack(p) \/ Mark(p) \/ MarkWritten(p)
  \/ Receive(p) \/ ListDone(p) \/ Take(p) \/ Validate(p)
  \/ Project(p) \/ ProjectWritten(p) \/ Store(p) \/ Stored(p)
  \/ Report(p) \/ Finish(p) \/ FinishWritten(p)

Environment(p) == Push(p) \/ Start(p) \/ Crash(p) \/ Stop(p) \/ Close(p)

Next ==
  \/ Send
  \/ ForeignWrite
  \/ \E p \in Procs : Loop(p) \/ Flush(p) \/ Environment(p)

Spec == Init /\ [][Next]_vars

\* The daemon brings a session's process back, the poll timer keeps running and
\* the outbox is retried with a backoff until it succeeds.
Fairness == \A p \in Procs : WF_vars(Loop(p)) /\ WF_vars(Flush(p)) /\ WF_vars(Start(p)) /\ WF_vars(Close(p))

FairSpec == Spec /\ Fairness
-----------------------------------------------------------------------------
(* Properties.                                                              *)

CentreTypeOK ==
  /\ sent \in 0..NumMails
  /\ delivered \subseteq Mails
  /\ meta \in Seq(Bodies) /\ meta # <<>>
  /\ log \in [Mails -> Kinds \cup {"none"}]
  /\ reports \in [Mails -> Nat]
  /\ disruptions \in 0..MaxDisruptions

\* A process, when the metadata has so many versions.
ClientTypeOK(c, versions) ==
  /\ c \in Clients
  /\ c.local \in 1..versions
  /\ c.base \in 1..versions
  /\ c.pc \in Handling => c.cur \in Mails

\* Every variable keeps its type, and no process holds a version of the
\* metadata that the centre never had.
TypeOK ==
  /\ CentreTypeOK
  /\ client \in [Procs -> Clients]
  /\ \A p \in Procs : ClientTypeOK(client[p], Current)

Rejected(body, m) == body.inbox[m].phase # "none" /\ body.inbox[m].kind = "rejection"

\* "Unacknowledged mail and persistent identities survive this process": the
\* centre never stops handing out a letter before its board change is in the
\* metadata, its message is in the log and, if it was rejected, the hub told.
NothingLost ==
  \A m \in delivered :
    /\ Latest.board[m] >= 1
    /\ log[m] # "none"
    /\ (\E v \in 1..Current : Rejected(meta[v], m)) => reports[m] >= 1

\* The receipt of the letter was in the metadata and was dropped again: nothing
\* says any more that the letter was applied.
Evicted(m) ==
  \E v, w \in 1..Current :
     v < w /\ meta[v].inbox[m].phase # "none" /\ meta[w].inbox[m].phase = "none"

\* The projection of a letter -- configuration and board -- is applied at most
\* once, whichever processes receive it and however often, for as long as its
\* receipt is not evicted.
AppliedOnce == \A m \in Mails : ~Evicted(m) => Latest.board[m] <= 1

\* All receivers agree on what a letter became: no letter is both run as a
\* model turn and reported to its hub as not started, even when processes
\* validate its configuration with different results -- for as long as its
\* receipt, which holds the decision, is not evicted.
OneOutcome ==
  \A m \in Mails : ~Evicted(m) =>
    \A v \in 1..Current :
      LET r == meta[v].inbox[m]
      IN  \/ r.phase = "none"
          \/ log[m] \in {"none", r.kind} /\ (reports[m] > 0 => r.kind = "rejection")

\* What the code keeps only until then: a process that fetched a letter before
\* its receipt was evicted applies it again.
AppliedOnceForGood == \A m \in Mails : Latest.board[m] <= 1

\* The receipts stay within the inbox limit, overlapping writers included.
InboxBounded == \A v \in 1..Current : Cardinality(Present(meta[v].inbox)) <= InboxLimit

\* "Pending work is never forgotten": while the centre still hands a letter out,
\* no metadata write drops its receipt or takes it a phase back.
PhaseRank == [none |-> 0, projected |-> 1, processed |-> 2, acked |-> 3]

PendingKept ==
  [][\A m \in Mails \ delivered :
        PhaseRank[Latest'.inbox[m].phase] >= PhaseRank[Latest.inbox[m].phase]]_vars

\* A rejected letter is reported to its hub once, whatever is retried.
ReportedOnce == \A m \in Mails : reports[m] <= 1

-----------------------------------------------------------------------------
(* The detailed protocol keeps the promise.                                 *)

Promise == INSTANCE MailPromise WITH
  posted <- 1..sent, applied <- Latest.board, entered <- log, closed <- delivered

\* Every step of the centre and of the receivers is a step of the promise or
\* changes nothing it talks about: exactly once, in the promised order.
PromiseKept == Promise!Spec

\* With restarts and a poll that keeps running, every letter is eventually
\* applied, in the log and confirmed, once disruptions stop.
EveryLetterSettles == Promise!Settles
=============================================================================
