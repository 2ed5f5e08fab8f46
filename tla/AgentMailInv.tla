---------------------------- MODULE AgentMailInv ----------------------------
(***************************************************************************)
(* The inductive invariants behind the safety of AgentMail: what every     *)
(* position of a process presupposes of the metadata, of the log and of    *)
(* the reports.                                                            *)
(***************************************************************************)
EXTENDS AgentMail

Rank(b, m)  == PhaseRank[b.inbox[m].phase]
Known(b, m) == b.inbox[m].phase # "none"
Done(b, m)  == b.inbox[m].phase \in {"processed", "acked"}

\* A metadata write is under way.
Writing(c) == c.pc \in {"marking", "projecting", "finishing"}

-----------------------------------------------------------------------------
(* Without any assumption: the inbox is bounded, and only what the centre   *)
(* has confirmed is ever evicted.                                           *)

Bounded(b)   == Cardinality(Present(b.inbox)) <= InboxLimit
Confirmed(b) == \A m \in Mails : b.inbox[m].phase = "acked" => m \in delivered

\* c takes nothing back that b says of a letter still handed out.
Keeps(b, c) == \A m \in Mails \ delivered : Rank(c, m) >= Rank(b, m)

EvictHistory == \A v \in 1..Current : Bounded(meta[v]) /\ Confirmed(meta[v])

EvictClient(c) ==
  /\ c.pc \in {"mark", "marking"} => c.batch \subseteq delivered
  /\ c.pc \in {"project", "projecting"} => c.receipt.phase = "projected"
  /\ Writing(c) => Bounded(c.body) /\ Confirmed(c.body) /\ Keeps(meta[c.base], c.body)

\* Every version and every write in flight is within the limit, calls acked
\* only what is delivered, and drops no other receipt.
EvictInv == EvictHistory /\ \A p \in Procs : EvictClient(client[p])

-----------------------------------------------------------------------------
(* Without any assumption: what the receipt of one letter decides, for as    *)
(* long as it is not evicted.                                               *)

Decided(b, m, kind) == Known(b, m) /\ b.inbox[m].kind = kind

\* The projection and its receipt are one write.
AppliedIn(b, m) == b.board[m] = IF Known(b, m) THEN 1 ELSE 0

\* c, written after b, drops the receipt of m.
Drops(b, c, m) == Known(b, m) /\ ~Known(c, m)

\* c, written after b, keeps the decision that b holds.
KeepsDecision(b, c, m) ==
  AppliedIn(c, m) /\ (Known(b, m) => Decided(c, m, b.inbox[m].kind))

LetterHistory(m) == \A v \in 1..Current : KeepsDecision(meta[v], Latest, m) /\ AppliedIn(meta[v], m)

\* The log and the reports follow the decision.
LetterEffects(m) ==
  /\ log[m] # "none" => Decided(Latest, m, log[m])
  /\ reports[m] > 0 => Decided(Latest, m, "rejection")

\* c has the letter's plan from the metadata and carries it out.
Executing(c) == c.pc \in {"store", "storing", "report", "finish", "finishing"}

\* A process at work on m does what the newest body b decides, whoever decided.
LetterClient(c, b, m) ==
  /\ Writing(c) => Drops(meta[c.base], c.body, m) \/ KeepsDecision(meta[c.base], c.body, m)
  /\ Executing(c) /\ c.cur = m => Decided(b, m, c.receipt.kind)
  /\ c.outbox[m] # "none" => Decided(b, m, c.outbox[m])

Letter(m) == LetterHistory(m) /\ LetterEffects(m) /\ \A p \in Procs : LetterClient(client[p], Latest, m)

\* Only a rejection is reported, and a projection leaves a receipt.
Follows(c) ==
  /\ c.pc = "report" => c.receipt.kind = "rejection"
  /\ c.pc = "projecting" => Known(c.body, c.cur)

\* Whatever is evicted, the letters whose receipts are still there, or were
\* never written, are applied and decided once.
LetterInv == (\A p \in Procs : Follows(client[p])) /\ \A m \in Mails : ~Evicted(m) => Letter(m)

-----------------------------------------------------------------------------
(* As long as no receipt has to be evicted.                                 *)

NoEviction == NumMails <= AckedKept /\ NumMails <= InboxLimit

\* The projection and its receipt are one write.
Sound(b) == \A m \in Mails : b.board[m] = IF Known(b, m) THEN 1 ELSE 0

\* c comes after b: no receipt vanishes, goes back or changes its mind.
Later(b, c) ==
  \A m \in Mails : /\ Rank(c, m) >= Rank(b, m)
                   /\ Known(b, m) => c.inbox[m].kind = b.inbox[m].kind

\* What is processed has had its effects.
Supported(b) ==
  \A m \in Mails : Done(b, m) =>
    log[m] # "none" /\ (b.inbox[m].kind = "rejection" => reports[m] >= 1)

\* Every effect is one the newest receipt provides for.
Provided ==
  \A m \in Mails :
    /\ log[m] # "none" => Known(Latest, m) /\ Latest.inbox[m].kind = log[m]
    /\ reports[m] > 0 => Known(Latest, m) /\ Latest.inbox[m].kind = "rejection"
    /\ m \in delivered => Done(Latest, m)

History == \A v \in 1..Current : Sound(meta[v]) /\ Supported(meta[v]) /\ Later(meta[v], Latest)

\* The write in flight extends the version it is based on, and applies no
\* letter but the one in hand.
WriteOK(c) ==
  Writing(c) =>
    /\ Sound(c.body) /\ Supported(c.body) /\ Later(meta[c.base], c.body)
    /\ \A m \in Mails : c.body.board[m] # meta[c.base].board[m] => c.pc = "projecting" /\ m = c.cur
    /\ c.pc = "projecting" => Known(c.body, c.cur)

\* The plan a process follows after the projection is that of the newest body b.
PlanOK(c, b) ==
  c.pc \in {"store", "storing", "report", "finish", "finishing"} =>
    Known(b, c.cur) /\ b.inbox[c.cur].kind = c.receipt.kind

\* What has happened by each step.
StepOK(c) ==
  /\ c.pc \in {"project", "projecting"} => c.receipt.phase = "projected"
  /\ c.pc = "storing" => c.outbox[c.cur] # "none" \/ log[c.cur] # "none"
  /\ c.pc \in {"report", "finish", "finishing"} => log[c.cur] # "none"
  /\ c.pc = "report" => c.receipt.kind = "rejection"
  /\ c.pc \in {"finish", "finishing"} /\ c.receipt.kind = "rejection" => reports[c.cur] >= 1

OutboxOK(c, b) ==
  \A m \in Mails : c.outbox[m] # "none" => Known(b, m) /\ b.inbox[m].kind = c.outbox[m]

SweepOK(c, b) == \A m \in c.ids \cup c.batch : Done(b, m)

FetchOK(c) == c.fetched \subseteq 1..sent /\ (c.pc \in Handling => c.cur \in 1..sent)

ClientOK(c, b) ==
  WriteOK(c) /\ PlanOK(c, b) /\ StepOK(c) /\ OutboxOK(c, b) /\ SweepOK(c, b) /\ FetchOK(c)

\* Letters, receipts, log, reports and processes agree on how far each letter is.
SafetyInv == Provided /\ History /\ \A p \in Procs : ClientOK(client[p], Latest)
=============================================================================
