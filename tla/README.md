# Link My CLI: TLA+ models

LMC lets several people and several devices work with coding agents. A *centre*
(`packages/lmc-server`) stores sessions, their messages and their encrypted
metadata; a *device agent* (`packages/lmc-cli`) keeps a daemon and one wrapper
process per session around a coding engine; apps (`packages/lmc-app`,
`packages/lmc-agent`, `packages/codium`) show the sessions and write to them.
Everything a client knows of a session it knows from three channels: versioned
values it writes by compare-and-set, a numbered message log it follows with a
cursor, and live events that may be lost.

This directory models that core. Paths below are relative to `packages/`.

## Inventory

| Component | State | Operations | What is hard | What makes it correct |
|---|---|---|---|---|
| **Agent mail** (`lmc-server/sources/lmc/agentMail.ts`, `lmc-cli/src/modules/agentMail/`) | letters with `deliveredAt`; receipts in the session metadata; the loop's position | send, poll, acknowledge; project, store, report, finish; restart, stop | crashes between any two steps, two processes of one session during a refresh, lost responses, a bounded inbox | no letter lost, none applied twice, one outcome per letter, all settle |
| **Session log** (`v3SessionRoutes.ts`, `storage/seq.ts`, `sessionUpdateHandler.ts`, `lmc-cli/src/api/apiSession.ts`) | sequence counter, messages with `localId`; cursor and outbox of each client | append (HTTP, socket), page, live update, pause and resume | numbers taken before the insert, pages in flight while the cursor moves, retried posts | every message routed once and in order, every `localId` stored once |
| **Versioned state** (`update-metadata`, `update-state`, machine and artifact handlers, `kvMutate.ts`) | value and version at the centre, copy at each client | compare-and-set, push, retry | check and write are two statements; answers overtaken by pushes | no lost update; a client never writes over what it has not seen |
| **Account settings** (`lmc-app/sources/sync/sync.ts`, `storage.ts`, `accountRoutes.ts`) | settings and version at the centre; shown settings, pending changes and a run on each device | change, send, merge, refresh, push | answers and pushes overtaken by changes, lost answers, conflicts | no change dropped or overwritten, a device shows what its user chose |
| **Background synchronisation** (`utils/sync.ts`, `lock.ts`, `time.ts`) | invalidated flags, waiters | invalidate, await, stop | invalidation during a run, stop with waiters | every invalidation is followed by a run, every waiter woken |
| **Prompt queue** (`utils/MessageQueue2.ts`, `sessionQueueControl.ts`) | waiting prompts, admitted keys, a waiter | push, promote, remove, take and restore, collect | the head is authorised across an await | no prompt lost or run twice; no unauthorised prompt run |
| **Presence** (`app/presence/`) | heartbeat cache, suppressed sessions, `active` rows | heartbeat, batched flush, stop, timeout | a flush in flight when a session ends | a stopped session stays stopped, a live one becomes active |
| **Shared devices and commands** (`lmc/access/`) | runs and commands with a state, policies with a version | create, dispatch, claim, resume, start; queue, claim | revocation while queued, a claim whose response is lost, replaced launches | run at most once, and only with the permission of the moment |
| **Daemon session ownership** (`daemon/`, `utils/safeSessionRefresh.ts`) | tracked processes, finished sessions, journal, refresh job, in-flight resumes | spawn, report, stop, recover, refresh, adopt, reap | daemon restarts, concurrent resumes, slow launches, recycled pids | at most one wrapper per session, a running session comes back, a stopped one does not |
| **RPC and events** (`rpcHandler.ts`, `eventRouter.ts`) | registrations, sockets | register, call, fan out | callee leaves during a call | at most one answer |
| **Files** (`fileAssetRoutes.ts`, `fileShareRoutes.ts`, `attachmentRoutes.ts`) | uploads, shares, expiry | append, publish, expire | resumed uploads | bytes published once complete |
| **Orchestration** (`modules/orchestration/`) | board and configuration inside the metadata | pure updates | repeated envelopes | idempotent per attempt |
| Installation of releases, engine adapters, accounts, apps, encryption, packaging | | | mostly I/O, translation and user interface | not modelled |

How they interact: the daemon starts wrapper processes; a wrapper reads and
writes the centre through the session log and the versioned metadata; agent
mail of other sessions arrives in a third table and is turned into a metadata
write (board, configuration, receipt) and a message of the session log, which
comes back over the log to the prompt queue and from there to the engine.

## Modules

| Module | Models |
|---|---|
| `MailPromise` | what the recipient of agent mail is promised, abstractly |
| `AgentMail` | the receipt protocol (v3) that keeps the promise |
| `MCAgentMail` | its instances for TLC |
| `AgentMailInv` | the inductive invariants of `AgentMail` |
| `AgentMail_proofs` | its type; and, as long as no receipt has to be evicted, that nothing is lost and the refinement of `MailPromise` |
| `AgentMailEvict_proofs` | what holds however full the inbox is and whatever is evicted, one outcome per letter included |
| `LogPromise` | what the reader of a session log is promised, abstractly |
| `SessionLog` | the numbered log, its writers and its reader |
| `MCSessionLog` | its instances for TLC |
| `SessionLog_proofs` | its type and its order; for HTTP writers also that nothing is stepped over, and its refinement of `LogPromise` |
| `CommandPromise` | what the sender of a shared command is promised, abstractly |
| `CommandCentre` | the centre's record of shared commands, and their permission |
| `PromptQueue` | the prompts of a session, with `CommandCentre`, from arrival to the engine |
| `MCPromptQueue` | its instances for TLC |
| `PromptQueue_proofs` | its safety, and its refinement of `CommandPromise` |
| `InvalidateSync` | the protocol of background runs, as operators |
| `Settings` | the settings of an account on several devices, with `InvalidateSync` |
| `MCSettings` | its instances for TLC |
| `Settings_proofs` | all the safety that is checked of `Settings`, proved |
| `MetadataPromise` | abstract: shared metadata, where no change is undone by another |
| `SessionMetadata` | the metadata of a session, changed by its processes and apps by compare-and-set |
| `MCSessionMetadata` | its instance for TLC |
| `SessionMetadata_proofs` | its type, its refinement of `MetadataPromise`, and what its conflicts come from |
| `SessionProcesses` | the wrapper processes of a session and how they are resumed |
| `SessionOwner` | app, refresh, recovery and restarting daemon, with `SessionProcesses` |
| `MCSessionOwner` | its instances for TLC |
| `SessionOwner_proofs` | all the safety that is checked of `SessionOwner` by passing runs, proved |
| `Presence` | whether a session is shown as active |
| `MCPresence` | its instances for TLC |
| `Presence_proofs` | all that is checked of `Presence`, proved |

### AgentMail

State and code:

- `sent`, `delivered`: the rows of `agentMail`, numbered by creation, and the
  set of those whose `deliveredAt` is set.
- `meta`: all versions of the session's metadata the centre has written. A body
  is reduced to the receipts (`agentMailInbox`) and, per letter, how often its
  projection (configuration and board) was applied. Keeping the history makes
  "a process holds version `v`" a number, and stale copies come for free.
- `log[m]`: the message stored under the letter's `localId`, as the kind of thing
  it is: a user message (a model turn), an event, or an event announcing that
  the configuration was rejected. `reports[m]` counts the reports of a rejection
  the hub has received; a task's report is an envelope with an idempotency key
  and is stored once.
- `client[p]`: a process. `pc` names the `await` it has reached; between two
  awaits JavaScript runs alone, so each action is the code from one await to
  the next. `local` is the version its copy of the metadata has; `fetched` and
  `cur` the poll in progress; `outbox` the messages not confirmed stored.

The actions follow `tickBody` (`BeginTick`, `Receive`, `ListDone`),
`acknowledgeProcessedMail` (`Ack`, `Mark`, `MarkWritten`, `SweepDone`) and
`processReliableMail` (`Take`, `Validate`, `Project`, `ProjectWritten`, `Store`,
`Stored`, `Report`, `Finish`, `FinishWritten`). A strict metadata write is
`Submit` (the handler runs on the copy held) followed by one of `Accepted`,
`Conflict` (adopt the newer version, run the handler again) and `Failed` (thrown,
before or after the centre took it). The centre's check-and-write
(`updateMany where metadataVersion = expected`) is atomic. A conflict that the
centre answers with an outdated version leaves the caller where it was: it is
the same write again, so the model lets the caller wait for the newer version.
`Flush` is the outbox, which runs beside the loop; its POST keeps the first
message of a `localId` (a unique constraint). `Push`, `Start`, `Crash`, `Stop`,
`Close`, `ForeignWrite` are the environment.

What is abstracted: what a letter says, except for the outcome of planning it
(`PlansAt`), which may differ between processes because relation and engine are
read at different times; time, except for the order of receipts (`at`); the
eight attempts of a strict write (failing after them is `Failed`).

Not modelled: the take-and-mark path for older centres, the directory, the
hub-lost notice and hub decisions, key and protocol negotiation, and the order of
two configurations when an older letter is retried after a newer one.

### AgentMail: runs

| Run | Instance | Shows |
|---|---|---|
| `overlap` | two processes, one letter, two disruptions, no eviction | `TypeOK`, `NothingLost`, `AppliedOnce`, `OneOutcome`; the protocol refines `MailPromise` (`PromiseKept`) |
| `live` | one process, three letters, inbox of two, one acked receipt kept, one disruption, fairness | `InboxBounded`, `PendingKept` while receipts are evicted; `EveryLetterSettles` |

Bounds. A disruption is a crash, a stop, a failed or lost request, an unrelated
metadata write or any other error; two of them in one letter's life cover a
failure and a failure of its recovery. Two processes are what a refresh
creates. The limits 20, 32 and 512 are scaled to 1 or 2 so that batches,
evictions and a full inbox happen with two or three letters. `NumMails` bounds
the letters; the versions of the metadata are bounded because only letters and
disruptions cause writes that change anything -- a process without work writes
nothing. The processes of `overlap` are symmetric; `live` does not use symmetry.

`AppliedOnce` and `OneOutcome` speak of a letter until its receipt is evicted
(`Evicted`); the receipt is all that remembers it. `overlap` keeps every receipt, as
`NothingLost` and `PromiseKept` need. With evictions and two processes the two
properties, and the invariant `LetterInv` behind their proofs, also hold with one
letter, `AckedKept = 0` and one disruption, and with two letters, `AckedKept = 1`,
batches of two and no disruption.

Fairness (`live`). A process whose loop can go on does (timers and awaits are
served by the event loop), the outbox retries with a backoff that never gives
up (`utils/time.ts`), a stopped session is closed, and the daemon starts a
session again that has no process. Nothing is assumed about failures except
that they are finitely many (`MaxDisruptions`).

### AgentMail: proofs

All theorems about agent mail hold for any number of letters and processes and any
limits that satisfy `ConstantsAssumption`.

- `TypeCorrect` (`Spec => []TypeOK`) includes that no process ever holds, or
  submits from, a version of the metadata that the centre never wrote.
- `EvictCorrect` is an invariant without any further assumption: every version
  and every write in flight is within the inbox limit, calls `acked` only what
  the centre has confirmed, and, compared with the version it is based on,
  drops no receipt but acked ones. `InboxIsBounded` and `PendingIsKept` follow:
  a write that is accepted is based on the newest version, so what it was
  checked against when it was computed is what it replaces.
- `LetterCorrect` is the second invariant without any further assumption: whatever
  else is evicted, each letter whose receipt has not been dropped is applied as often
  as it has a receipt, and everything that acts on it follows that receipt.
  `EachAppliedOnce` and `EachHasOneOutcome` follow. So only the eviction of a letter's
  own receipt can make the code apply it twice or decide it again.
- `SafetyCorrect` assumes `NoEviction`: the inbox and the tail of acked
  receipts have room for all letters. The assumption is needed: without it a
  letter can be projected again (see *What the code does not keep*), which `MailPromise`
  forbids. `NothingIsLost` follows from `SafetyInv`, and `PromiseIsKept`, the
  refinement, from it step by step.

`LetterInv` says of every letter `m` that is not evicted: each version so far has the
receipt and the projection of `m` together or not at all (`AppliedIn`), and the newest
still holds the decision of each (`KeepsDecision`); a write in flight keeps the decision
of the version it is based on, or drops the receipt (`Drops`); log, reports, outboxes and
every process that carries a plan out (`Executing`) follow the newest decision. A write
that lands is based on the newest version, so it either keeps the decision or makes
`m` evicted (`LetterMeta`), and `LetterStep` reduces every step to the process that moves
and the effects that are new.

`SafetyInv` is needed because none of the properties is inductive: that a letter
is confirmed only after its effects depends on what each process believed when
it took each of the steps before. It says of the metadata that board and receipt
are one write (`Sound`), that later versions never take a receipt back or change
its decision (`Later`), and that a processed receipt has had its effects
(`Supported`); of the log, the reports and the confirmations, that the newest
receipts account for all of them (`Provided`); and of each process, that its
write in flight extends the version it is based on by at most the letter in hand
(`WriteOK`), that the plan it follows is that of the newest receipt (`PlanOK`),
that what its position presupposes has happened (`StepOK`), and that its outbox
and its sweep contain nothing the receipts do not justify (`OutboxOK`,
`SweepOK`). Because versions only grow, each of these survives the steps of other
processes (`PartsGrow`); `Frame` reduces every step to the process that takes it.

Only model-checked: `EveryLetterSettles` (liveness).

### SessionLog

A message is the number of its `localId`; what it says plays no part. State and
code:

- `seq`, `seqOf`: `session.seq` and the `seq` column of the stored messages.
- `outbox[w]`: the pending messages of a client (`apiSession.ts`). The app's
  writer keeps its own queue and sends the same requests.
- `requests`: POST requests at the centre, each between two of its awaits
  (`stage`). A request whose client has given up (`awaited = FALSE`) runs on.
- `handler[s]`: the socket `message` handler of an older client, which takes
  its number in one statement and inserts in another.
- `wire`: live updates on their way. They keep their order on one connection
  and are gone when it breaks.
- `reader`: the process that works on the session: its cursor
  (`lastReceivedSeq`), whether a refresh holds it (`paused`, `held`), and the
  fetch that `InvalidateSync` runs for it (`phase`, `again`), with the position
  and the page it has in hand.

Writing is `Enqueue`, `Post`, `Lookup`, `Commit` or `Clash`, `Announce`,
`Respond`; over a socket `SocketAllocate`, `SocketInsert`, `SocketAnnounce`.
`Commit` numbers and inserts in one step because the update of the counter locks
the session's row until the transaction ends. Reading is `Connect`, `Live`,
`Serve`, `Receive`, `Recover`, `Retry`; a refresh is `Hold` and then `Release` or
`Handover`. `PostFails`, `AnnounceFails`, `SocketFails`, `CentreRestarts`,
`GetFails`, `Drop`, `Restart` are what goes wrong; `Faults` names those an
instance allows and `MaxFaults` bounds their number.

Abstracted or left out: permissions of shared sessions, reading backwards
(`before_seq`), the app's own reader, and the commands the last step of a first
fetch recovers from another table (`Recover` is only the step, which on 401, 403 and
404 the code gives up for good); a `handleUserMessage` that throws. Requests that are
equal in every field and awaited by nobody are one. A process that ends loses
its outbox; the flush that a refresh makes before it ends may have been done or
not.

| Run | Instance | Shows |
|---|---|---|
| `log_promise` | two writers, two messages, batches of two, pages of one, two faults of any kind but a restart | `TypeOK`, `NothingSteppedOver`, `OutboxKept`, `PromiseKept` |
| `log_live` | a socket and an HTTP writer, two messages, batches of one, two faults (restarts included, failed announcements not), fairness | `RoutedInOrder`, `EveryMessageArrives` |

Bounds. Two messages in a batch and pages of one make fetches of several pages
and updates that overtake a page; batches of one make batches that start in the
middle of an outbox. Two writers are the reader, whose own messages take numbers
of the same counter, and another client. Two faults are a failure and a failure
of its repetition, or a refresh and its takeover. A socket and a writer are the
least that can become visible out of the order of their numbers. `log_live` does
not check `NothingSteppedOver`, which is false with sockets, nor `PromiseKept`,
since a restarted process is to skip messages.
`CHECK_DEADLOCK` is off because the messages are finitely many and a session
with nothing to say falls silent.

Fairness (`log_live`). A handler that awaits the database goes on, the outbox and
the fetch are repeated with a backoff that has no last attempt
(`utils/time.ts`), the socket client reconnects by itself, updates that have
arrived are handled, and a refresh is called off or completed (`Release`:
`runCodex.ts` resumes whenever the preparation throws). Nothing makes a client
write. The property is checked without `AnnounceFails`: a message whose
announcement failed arrives only with the next message or reconnect. A process
that ends takes its outbox with it, and the history `ended` says which messages
those are.

Proofs (`SessionLog_proofs`), for any number of messages, any writers, any sizes of
batches and pages, and any faults.

- `SafetyInv` needs no further assumption, and `TypeCorrect` and
  `RoutedInOrderAlways` follow from it. To the type it adds that a message is in one
  outbox at most, and once (`BoxesTrue`); that a writer awaits one response at most,
  and its batch is still where it was taken from (`BatchesTrue`), so that an answer
  removes what it confirms; that what a request has found or stored is stored
  (`RequestsTrue`); that a socket handler's message and number are its own until it has
  inserted (`SocketsTrue`); that no number is used twice and only stored messages are
  announced, handed out or routed (`LogTrue`); and that what was routed is not beyond
  the cursor (`OrderTrue`). `RoutedInOrder` alone is not inductive: a page is routed
  after live updates may have moved the cursor, and it takes that the page rises and
  that what is behind the cursor is left out of it.
- `OutboxIsKept` and `NothingIsSteppedOver` assume `Sockets = {}`. `HttpInv` adds
  that the stored numbers are exactly `1..seq` (`Dense`) and that a page in hand
  begins where its position is and has no gap up to its end (`PageFits`). Without
  the assumption both fail, since a socket handler takes its number in one statement
  and inserts in another, and its client keeps no outbox.
- `PromiseIsKept`, the refinement of `LogPromise`, assumes in addition that the
  process is not restarted without its cursor, which makes it skip what is in the
  log, as it is meant to. The invariant added is `Prefix`: what was routed is the
  log up to the cursor.

`Ascending` and the selections from sequences are defined by cardinality and by
ranks, so that what they select follows from the library's theorems about finite
sets instead of an induction. `EveryMessageArrives` is only model-checked.

### Presence

One session, times in half minutes. `row` is the session's `active` and
`lastActiveAt`; `cache` its entry in `ActivityCache`, `stopped` the end of its
suppression; `beats`, `flushes`, `endings`, `archiving` and `sweep` are the
heartbeats being looked up, the collected heartbeats being written, the writes
of `session-end`, the archive request between its write and its clear, and the
row the timeout sweep has read. `down` is history: a stop has been written and
neither expiry nor a start-up nor a restart of the centre has lifted it.

`Hit`, `Miss`, `Read`, `Answer`, `LookupFails` are `session-alive`;
`Collect`, `Flush`, `FlushFails` the batch; `Cleanup` the periodic cleaning;
`End`, `EndWritten`, `EndFails` are `session-end`, `ArchiveWritten`,
`ArchiveCleared` the archive route, `Resume` the start of a session;
`SweepRead`, `SweepWritten`, `SweepFails` the sweep; `Restart` a new process of the
centre. Between two of its awaits a handler runs alone; a database statement is
one step. A heartbeat reports a time that is now or one unit old, which is
enough for two of them to arrive in the wrong order.

Not modelled: machines, which have the same cache but no stop; the deletion of a
session; the ephemeral events; statements of a centre that has died and that the
database still executes.

| Run | Instance | Shows |
|---|---|---|
| `presence_stops` | both ways to stop, five units of time, one of each under way | `TypeOK`, `StoppedNotCached`, `TimedOutOnlyWhenSilent`, `NothingCollectedOnceStopped` |

Bounds. The cache lives one unit, the suppression two, the timeout is three
(instead of twenty): a session can be heard, be stopped, outlive its
suppression, be heard again and be timed out within five units. One heartbeat
and one write of each kind under way, together with the one in the cache, are
enough for each to be overtaken. Time ends at `MaxClock`, but steps remain
possible then, so deadlock is checked.

Proofs (`Presence_proofs`), for every choice of times and bounds. The invariant
adds to the type and `StoppedNotCached` that a written stop is either not yet
cleared or being observed (`DownWhileStopped`) and that only the archive route
leaves a stop uncleared (`OnlyArchives`). Collecting needs a cache entry, so
nothing is collected while a stop is observed (`NothingIsCollectedOnceStopped`).
`NothingIsCollectedWhileDown` says it of any written stop, under the assumption
that the archive route is not used, which is needed (see *What the code does not
keep*).
`SweepIsRight` adds that what the sweep has read was silent for the timeout when
it was read, and time only grows.

### PromptQueue with CommandCentre

One session. A prompt is a key; `Own` are those of the session's owner (some
empty the queue, `Clears`; some are reports of a worker, `Reports`), `Shared`
those that somebody else sends through the centre. State and code:

- `CommandCentre`: `policy` is the session's sharing (its version and whether
  the sender may send), `device` whether the device accepts the run, `command`
  and `queuedUnder` the rows of the shared commands, `log` their messages.
  Every access transaction locks the same row, so each is one action.
- `queue`, `steering`: the items of `MessageQueue2`, and those lifted out by
  `take` while the engine is asked to steer.
- `consumer`: where `waitForMessagesAndGetAsString` is suspended and for which
  head. `Guard` is the wiring of the guard: a lent device asks for permission
  for every prompt (`asking`), a shared command is claimed once (`claiming`).
- `admitted`: the keys whose claim was granted; `late`: claims given up by the
  process that may yet reach the centre; `recovery` and `cursor`: how shared
  commands arrive, by the log and by `GET commands/pending`, whose answer is a set of
  places in the log that are taken one by one.
- `receipts`: the events by which the app learns that a prompt no longer waits.

The consumer is `LooksAtHead`, `FallsAsleep`, `DeviceAuthorizes`, `DeviceRefuses`,
`DeviceUnknown`, `ClaimServed`, `ClaimRefused`, `ClaimTimesOut`, `HandsOver`,
`LooksAgain`, `TurnEnds`; the buttons are `Withdraws`, `GoesNext` and `Steers` with
its three outcomes; `Reviews` is a hub that reads a report inside a turn. They all
run while the consumer is suspended. `Restart` ends the process.

Abstracted: how many prompts a turn takes depends on their modes; the model
allows every number that the isolation permits (`BatchSizes`). Not modelled:
`close()` and `reset()`, steering straight from an arriving message, and the limit of
64 reviewed reports that the queue remembers (`sessionQueueControl.ts:160`).

| Run | Instance | Shows |
|---|---|---|
| `commands` | own session; a plain prompt, a `/clear`, a report and a shared command; one fault, one press, one change of the sharing | `TypeOK`, `AtMostOnce`, `Accounted`, `OutdatedNeverRuns`, `SharedRunsAlone`, `KeepsPromise` |
| `commands_live` | lent device; a prompt and a shared command; two faults; fairness | `LeavesQueue`, `Settles` |

Bounds. Four prompts of four kinds are one of everything the code treats
differently, so each pair meets at the head, behind it and in a batch. One fault
in `commands` and two in `commands_live` are a claim that times out, and a process
that ends in addition. One press of "go next" or "steer" is enough to replace the
head while it is authorised; withdrawing is not bounded. Deadlock is not checked:
a queue nobody writes to rests.

Fairness (`commands_live`). The consumer's loop runs as long as its process; a
request to the centre is answered or times out; turns end; the engine answers a
steer. Nobody has to press, send or change the sharing.

Proofs (`PromptQueue_proofs`), for any prompts and commands, `Guard`s, faults and
presses, on lent devices and on the owner's. `SafetyInv` says of the prompts that the
one the consumer is suspended for has arrived and still waits, unless its sender was
told otherwise (`HeadTrue`), that nothing is lifted out twice (`SteeringTrue`), that
what has arrived waits, is lifted out, has a receipt or was lost with its process
(`ArrivedTrue`), and that the app is told of a prompt of the owner once, when it no
longer waits (`OwnTrue`); and of the shared commands (`SharedTrue`) that one that has
run was claimed and cannot be claimed again, that one this process has claimed has not
run while it waits, and that one outdated by a change of the sharing is never claimed.
None of the properties is inductive alone: that a
command runs once (`RunsAtMostOnce`) rests on what the centre has recorded, and that
has to hold while the consumer, a recovery and a claim given up are all on their way.
`AccountsCorrect`, `OutdatedCorrect`, `RunsAlone` and `PromiseIsKept`, the refinement
of `CommandPromise`, follow step by step. What `RemoveFirst`, `InsertAt` and `SubSeq` do to a queue that holds each prompt once is
stated in lemmas of their own. `LeavesQueue` and `Settles` are only model-checked.

### Settings with InvalidateSync

`written` is the history of the account's settings at the centre, so a version is
a position in it; `store[d]` what device `d` shows and the version of it;
`pending[d]` what its user changed and the centre is not known to have;
`sync[d]` the two flags of `InvalidateSync`; `run[d]` the asynchronous function
`syncSettings` between its awaits; `stray` the requests given up; `waiter[d]`
whoever awaits fresh settings after a log-in. A change is a number of its own, and
a setting is a whole: the settings that merge key by key are several keys here.

`Changes` is `applySettings`, which invalidates; a run is `Begins`, `PostServed`,
`LearnsAccepted` or `LearnsMismatch`, `GetServed`, `Refreshes`. `PushArrives` is
`update-account`, late, out of order or never. `RequestFails`, `Restarts` and
`BecomesActive` disturb. `InvalidateSync` holds its own operators because other
runs follow the same protocol (`SessionLog`'s reader has it in its `again`).

| Run | Instance | Shows |
|---|---|---|
| `settings` | two devices, two settings, two changes, one disturbance; two attempts per run | `TypeOK`, `NothingDropped`, `NothingLeftAtRest`, `ChangesOnlyToOwnValues`, `ComesToRest` |
| `overwrite` | two devices, two settings, three changes, no disturbance | a device *does* take back what another device changed |

Bounds. Two devices and two changes make a conflict and a change during a
request; one disturbance loses a request or its answer, or restarts the app. The
three attempts of the code are two, so that a run also gives up and pauses.
`overwrite` needs the third change: one that is being sent, one of the other device
to the same setting, and one that makes the first device send again.
Fairness: a run goes on and its requests are answered; what fails fails finitely
often (`MaxDisturbances`).

Not modelled: `stop()`, `ValueSync`, `AsyncLock`, the one-time adoption of local
appearance settings, several tabs that share one browser's storage.

What `overwrite` shows. A device sends a change; the centre takes it, and then the
change of another device to the same setting, whose push arrives before the first
answer. The device puts the change it is sending on top of the newer version, as it
should while the change is pending. Then the answer arrives and clears only the list
of pending changes: the device now has the newest version, shows its own older value
instead of the other's, and has nothing pending. The fetch that follows brings the
version it has, which is ignored. With its next change, of whatever setting, it sends
all that it shows on the version it has; the centre accepts, and the other device's
change is gone.

Proofs (`Settings_proofs`), for any number of devices, settings, changes, retries and
disturbances. `SafetyInv` relates what a run has sent to what is pending: a run that
no other follows has sent all there is (`RunTrue`), what a device is about to take as
accepted was accepted (`SentTrue`), and what waits, is sent or shown is of the version
named or a value of the device's own (`PendingTrue`, `RequestTrue`, `StoreTrue`).
`TypeCorrect`, `NothingIsDropped`, `RestCorrect` and `WritesCorrect` follow. The proof
of `KeepsOthersChanges` failed at the step that clears the pending changes, and TLC,
given the third change, found the run above: `StoreTrue` cannot be strengthened to say
that a device shows the version it has. What the code does ensure of a write is
`ChangesOnlyToOwnValues`. `ComesToRest` is only model-checked.

### SessionMetadata

The metadata of a session is one encrypted document that its processes and the apps
change together. `written` is its history at the centre, so a version is a position
in it; `copy[c]` what a client holds, and the version it believes it to be of;
`requests` the handlers of `update-metadata` between their awaits, with whether
their callers still wait; `queue[p]` the updates that hold or await a process's
lock. A value is the set of updates it shows: every update sets fields of its own,
as most callers of `updateMetadata` do, and doing it again changes nothing. What two
updates of the *same* field do to each other is not visible here.

`ProcessCalls`, `Attempt` and the answers are `updateMetadata`: a *strict* update
throws after eight conflicts, an error or a lost answer; a *plain* one goes on until
it is made, its process ends or the centre answers with an error, which it ignores.
`AppCalls` and the answers are `sessionUpdateMetadata`, with three attempts, which
keeps its base apart from the copy on show. At the centre `Reads`, `Writes` and
`Announces` are the stretches between the awaits of one handler, so two handlers may
announce in the other order than they wrote. Pushes and answers share a socket and
are delivered where they are sent; an app takes a push in late or never
(`AppLearns`, which is also its fetch of the session). `Misses`, `Fails`,
`AnswerLost` and `Restarts` are the faults. A process that takes over starts with a
document of its own making and `UnknownRevision`.

`update-state` and `updateAgentState` are the same protocol with plain updates only.

| Run | Instance | Shows |
|---|---|---|
| `versions` | one process with a plain and a strict update, one app with two; three attempts each; one fault; fairness | `TypeOK` (with it, that a copy is what the centre has in its version), `KeepsPromise` (implements `MetadataPromise`: no write undoes another), `ConflictsHaveCauses`, `UpdatesEnd` |

`ConflictsHaveCauses` is what the outdated answer of a late write costs: a copy that
is out of date costs one conflict, and each version written meanwhile up to two, one
that teaches nothing and one that does. Four foreign writes may therefore exhaust the
eight attempts of a strict update, and a single one the three of an app whose copy
was out of date.

Bounds. Two writes of the app and one fault are enough for the three attempts of a
strict update, and of the app's, to be exhausted; for a push to overtake an answer,
so that the copy goes back; and for a request of a process that has ended to be
carried out under its successor. Deadlock is not checked: when all updates are over,
nothing happens. Fairness: pauses end, and what somebody waits for is answered or
lost; a request nobody waits for may stay where it is.

Not modelled: the signal that the session was archived, which a process takes from
pushes only. A process that learns of it from the answer to a conflict, or misses
the push, is not told; the app asks the process to stop before it archives.

Proofs (`SessionMetadata_proofs`), for any number of processes, apps, updates, attempts
and faults. `TypeCorrect` includes that a copy is what the centre has in its version.
`SafetyInv` adds that a request's value is that of its base with one update more,
unless the base is `UnknownRevision`, and that one written is in the history
(`RequestsTrue`); that a client waits for one request at most, which is of the update
it is making (`OneEach`, `CallersWait`); that each update awaits its lock once
(`QueuesTrue`); and that whoever was told of success was told the truth (`ToldTrue`).
`PromiseIsKept` is the refinement of `MetadataPromise`: a write that is accepted is the
newest version with one update more, whoever computed it and whenever.
`ConflictsExplained` needs `ConflictsCounted` as well: a request that is bound to
conflict has to leave room for that in the count, and one checked before somebody
else's write for two. `UpdatesEnd` is only model-checked.

### SessionOwner with SessionProcesses

One session on one machine, and all the processes that ever serve it. State and
code:

- `proc[p]`: a wrapper: where it is (`at`), which daemon started it (`home`),
  which it reported to (`told`), whether its command line names the
  conversation (`named`) and whether it was given the cursor of a handover.
- `daemon`: its number and phase. `map` is `pidToTrackedSession`. `finished` is
  `sessionIdToFinishedSession`; the map and it share record objects, which is
  why `meta` belongs to objects: what a fetch writes into one is seen through
  both.
- `disk`: the session of `sessions.json` (`host`), `active-sessions.json`
  (`journal`), and the refresh job. `server`: the metadata `hostPid` and
  `sessionConfigState`.
- `call`, `flight`: `resumeSession` for each of its callers (app, watch,
  recovery), between two awaits, and the launch that `SingleFlight` lets them
  share. `watch` is `watchRefreshJob`, `recovery` the entry of
  `StartupSessionRecovery`.

`SessionProcesses` has the three searches for an owner (`StartsResume`,
`HearsOrphans`, `HearsConversations`), the launch (`Fetches`, `Launches`,
`LaunchFails`), and a wrapper's life (`Asserts`, `Reports`, `GivesUp`, `Publishes`,
`Verified`, `Ends`, and what the daemon learns of its end: `ChildExited`,
`Prunes`). A listing of processes shows those of when it was asked for or of when
it is answered. `SessionOwner` adds the app (`PressesResume`, `Stop`), the handover
(`AsksRefresh`, `PrepareAccepted`, `PrepareRefused`, `Declines`), the watch
(`SeesExit`, `WatchTimesOut`, `WatchFetches`, `WatchResumed`, `LateRecovery`), the
recovery (`LooksForLive`, `HearsLive`, `HearsMetadata`, `RecoveryResumed`) and the
daemon (`Closes`, `Down`, `Reboots`, `Boots`, `Adopts`).

Abstracted: the wait for an idle engine before a refresh; the order of the map is
the order of the process numbers; the exit of a child is heard before others see
it dead (until then it answers signal 0). Not modelled: starting a new session,
switching engines, archived sessions and those of another machine, tmux, reuse of
process numbers within one boot, failing writes to the local disk.

| Run | Instance | Shows |
|---|---|---|
| `owner` | three processes, two daemons, two presses, one fault; fairness | `TypeOK`, `OneOwner`, `StoppedStays`, `ComesBack`, `HandoverEnds` |
| `cursor` | two processes, one daemon, two presses, no fault | a successor *is* launched without the cursor |

Bounds. Two presses are two of resume, stop and refresh, in any order; two daemons
are one restart; the fault is a crash, a reboot, a listing, fetch or answer that
fails, a launch given up or a report given up. Three processes are the first, its
successor and a duplicate. The safety is proved for any numbers (below); the
liveness is of this instance.

Fairness (`owner`). The heartbeat runs every minute, timers expire, requests are
answered or fail, an ending process ends and its exit is heard; a daemon that is
down is started again (by its successor's start, or by launchd). Nobody presses
and nothing fails of necessity. `HandoverEnds` leaves out one end of a handover: if the
watch has expired and the session is then stopped, the late job stays as it is, since
`recoverLateRefreshes` looks only at sessions that are tracked or finished.

Proofs (`SessionOwner_proofs`), for any number of processes, daemons, presses and
faults. `BaseInv` is `TypeOK` with what holds between the parts whatever happens: a
wrapper is told once and its home is no later daemon, nobody is tracked that was not
launched, a job that is watched after its exit has a process that is gone, a daemon
that is down has nothing in memory. `ProcSteps`, `CallSteps`, `RecordSteps` and
`CentreSteps` say once what any step can do to a process, to a caller of
`resumeSession`, to the record from the disk and to the centre; the rest argues from them.

- `OneOwnerHolds`. `OneOwner` is far from inductive: it says nothing of who might
  still be launched. `OwnInv` says that whoever holds the session is the process on
  disk, and that a daemon that runs either tracks it or *remembers* it (`Remembered`).
  While it is tracked, no other wrapper may report. While it is only remembered, which
  is after a restart, the daemon has launched nothing itself; its record names the
  process or the conversation the process has on its command line; and every call of
  `resumeSession` on its way has a listing that shows the process and will look for it
  (`FoundBy`), so that nothing is launched. The first process has no conversation on
  its command line; for it, `First` says that the centre still names it. So that a
  daemon adopts nobody but the holder, `Remembered` also says that, while the daemon
  boots, its record names the holder or a process that has ended.
- `StoppedNotRecovered`: from any stop on, `stopped` says so, whether or not a wrapper
  was tracked: `stopSession` forgets the journal before it looks for one. A stopped
  session is not in the journal (`Forgot`), and a launch for the recovery reads the
  journal in the same step.
- `TypeCorrect`.

Two definitions were corrected for these proofs. A resume that the watch or the recovery
begins looks for the host they have just been told by the centre (`run.ts:984`, `1150`
assign the record before the call), not for the one recorded before. And a session
counts as served again, for `StoppedStays`, when a daemon adopts a wrapper of it: the
adoption enters it in the journal.

`ComesBack` and `HandoverEnds` are only model-checked. `HeldInputKept` is refuted.

What `cursor` shows. A wrapper that hands a session over has stopped receiving, and
the cursor it froze is in the refresh job. If the app resumes the session after the
wrapper has left and before the watch has noticed (up to half a second), the
resume knows nothing of the job: the successor gets no cursor and begins at the
end of the log, and the watch then drops the job, since somebody runs. What was
sent during the handover reaches no engine.

## What the code does not keep

The modules state further properties that the code violates. Two have a run,
`HeldInputKept` and `KeepsOthersChanges`, above. Of the others, TLC shows the following
with the constants given; the definitions are in the modules.

- `HandedOnceFree` (`PromptQueue`; the constants of `commands_live` with
  `SharedRuntime = FALSE` and no fault): `steer` lifts a prompt out and awaits the
  engine. The turn ends meanwhile; the consumer finds an empty queue and sleeps. If
  the engine then refuses, `restore` (`MessageQueue2.ts:230`) puts the prompt back
  without telling the waiter, as `insert` does. The prompt waits until another
  arrives. `LeavesQueue` excepts these prompts.

- `ReportedOnce` (`AgentMail`; one process, one configuration mail, one
  disruption, `Tasks = {}`): the report of a rejected task has an idempotency key,
  the notice of a rejected configuration mail has none and is sent again.
- `AppliedOnceForGood` (`AgentMail`; two letters, two processes, `AckedKept = 1`, no
  disruption): after the acknowledgement a receipt is kept only as one of the 32
  newest. A process that fetched the letter before and still validates it finds,
  32 confirmed letters later, no receipt, and applies the letter again.
- `NothingSteppedOver` (`SessionLog`; two sockets and one writer, no fault,
  `PageSize = 2`): a socket writer that has taken number 1 may insert after another
  has inserted number 2; a page with 2 alone moves the cursor over 1. The HTTP path
  cannot do this.
- `FetchRoutesOnce` (`SessionLog`; one message, a failed fetch and a restart): the
  flag that makes a restarted process skip what is in the log is cleared when the
  first fetch begins, not when it succeeds; its repetition routes old messages.
- `NothingCollectedWhileDown` (`Presence`, `Stops = {"archive"}`): the archive
  route writes and then clears, in the order the comment on
  `clearSessionUpdates` warns of.
- `StaysDown` (`Presence`, `Stops = {"end"}`): a flush that has taken its heartbeat
  from the cache and awaits the database may write after the stop. The session
  is shown as active until the sweep finds it silent.

Others were met while modelling and are left out of the properties, or are
exceptions the properties name:

- Two wrappers can serve a session if one of them gave up reporting, or reports to
  a new daemon before that daemon has adopted the other. `OneOwner` excludes both;
  the header of `sessionSpawnGuard.ts` does not.
- A stop that arrives while a handover waits for its successor does not end the
  job: the watch resumes the session. `StoppedStays` is therefore about recovery.
- A session stopped through the daemon leaves the map before its process exits, so
  its exit is not kept as a finished session; the app's resume says that it is not
  tracked, until the daemon has restarted.
- The watch also drops the job if it only finds a successor among the processes. If
  the machine restarts before that successor has reported itself, neither the job
  nor the journal says that the session was running.
- A wrapper that is stopped and slow to end is adopted, and journaled again, by a
  daemon started meanwhile. So is a duplicate, if the stop arrives between a daemon's
  start and its adoption of the wrappers: the stop ends the wrapper that had reported,
  and the daemon then adopts the other. Should that one crash, the recovery launches
  the session again. `StoppedStays` counts an adoption as serving.
- A report reviewed while it is lifted out for steering waits again if the engine
  refuses it (`Accounted` excepts `restored`).
- A shared command withdrawn after a claim that timed out may still be recovered and
  run by a later process if the claim never reached the centre.
- A refused prompt that the app has withdrawn meanwhile gets a second, equal
  receipt.

## What is proved, and what is only checked

Proved, for every value of the constants: the type and every other invariant that the
runs of the seven components check, every action property of a passing run, and every
refinement; the sections on the components give the invariants. Three sets of theorems
have hypotheses beyond the assumptions on the constants, each because the code does not
keep the property without it: `NoEviction` (`NothingIsLost` and `PromiseIsKept` of
`AgentMail`), `Sockets = {}` and no
`"restart"` (`SessionLog`), and no archive route (`NothingIsCollectedWhileDown` of
`Presence`, which no run checks).

Only model-checked is liveness, which needs `ENABLED` and fairness: `EveryLetterSettles`,
`EveryMessageArrives`, `LeavesQueue`, `Settles`, `ComesToRest`, `UpdatesEnd`,
`ComesBack`, `HandoverEnds`.

Whatever would need induction over data is avoided: selections from sequences are
defined by ranks and cardinality, queues by what is where in them, and the histories
`written`, `meta` and `changes` are compared with the state one step before.

## Not modelled

- **The other versioned documents**: metadata and state of machines (no lock, pushes
  adopted unconditionally, conflicts answered with a second read), artifacts (two
  versions in one write) and the key-value store; `SessionMetadata` has the protocol
  they vary.
- **Launches of device runs** (`deviceRuns.ts`): planned.
- **RPC and event fan-out**: at most one answer, kept in sockets only. In the other
  models a live event is one that may be lost.
- **Files**: chunks, hashes and expiry dates over a storage service.
- **Orchestration**: pure functions over one metadata value. `AgentMail` counts
  their application.
- **Engine adapters**: translations of the event streams of third-party engines,
  whose protocols are not in this repository.
- **Accounts, access, social features**: validation around single transactions.
- **Apps, desktop app, command line**: user interface, over the synchronisation
  modelled above. Most of the repository is this, its texts and their
  translations; they have no state of interest to a model checker.
- **Encryption**: ciphertexts are opaque values here.
- **Installation of releases, logs, deployment**: downloads, files and scripts.

## Plan

1. `kvMutate`, whose versions are checked and then written one by one inside a
   transaction, and the documents of machines.
2. Device runs, whose launches may be replaced while they are on their way.
