------------------------------ MODULE Settings ------------------------------
(***************************************************************************)
(* The settings of an account on several devices: a change is shown at     *)
(* once, kept as pending, and sent by a background run that replaces the   *)
(* settings at the centre if nobody else has meanwhile; every accepted     *)
(* version is pushed to the devices.                                       *)
(*                                                                         *)
(* One action is the code between two awaits, or one request's work at the *)
(* centre.  A change is a number of its own, 0 is the default of a key.    *)
(***************************************************************************)
EXTENDS Naturals, Sequences, FiniteSets, InvalidateSync

CONSTANTS
  Devices,
  Keys,         \* of the settings
  MaxRetries,   \* attempts before a run gives up and pauses
  MaxChanges,   \* bound on the users' changes
  MaxDisturbances   \* bound on failed requests, restarts and activations

ASSUME ConstantsAssumption ==
  /\ MaxRetries \in Nat \ {0}
  /\ MaxChanges \in Nat /\ MaxDisturbances \in Nat

VARIABLES
  written,   \* the settings at the centre: all versions, the last is current
  store,     \* of each device: the settings it shows, and their version
  pending,   \* its changes not yet known to be accepted
  sync,      \* its InvalidateSync
  run,       \* its run: where it is, what it sent on which version, its answer
  stray,     \* of each device: requests given up that may still reach the centre
  waiter,    \* who awaits fresh settings after a log-in: since which version
  changes,   \* history: who made each change
  latest,    \* history: the last change of each key on each device
  disturbances

vars == <<written, store, pending, sync, run, stray, waiter, changes,
          latest, disturbances>>

Values == 0..MaxChanges
SomeSettings == [Keys -> Values]
Defaults == [k \in Keys |-> 0]
Nothing == Defaults

Version == Len(written)
At(v) == IF v = 0 THEN Defaults ELSE written[v]

\* applySettings of settings.ts
Merged(settings, delta) ==
  [k \in Keys |-> IF delta[k] # 0 THEN delta[k] ELSE settings[k]]

Request == [base : Nat, sent : SomeSettings, payload : SomeSettings]
NoRequest == [base |-> 0, sent |-> Nothing, payload |-> Nothing]
Sites == {"idle", "start", "post", "accepted", "mismatch", "get", "got"}
AtSite(site) ==
  [at |-> site, request |-> NoRequest, answer |-> 0, retries |-> 0]
Waiters == [state : {"none", "waits", "told"}, since : Nat]

TypeOK ==
  /\ written \in Seq(SomeSettings)
  /\ store \in [Devices -> [settings : SomeSettings, version : 0..Version]]
  /\ pending \in [Devices -> SomeSettings]
  /\ sync \in [Devices -> SyncStates]
  /\ run \in [Devices -> [at : Sites, request : Request, answer : 0..Version,
                          retries : 0..MaxRetries - 1]]
  /\ \A d \in Devices : run[d].at = "idle" <=> ~sync[d].invalidated
  /\ stray \in [Devices -> SUBSET Request]
  /\ waiter \in [Devices -> Waiters]
  /\ changes \in Seq(Devices) /\ Len(changes) \in Values
  /\ latest \in [Devices -> SomeSettings]
  /\ disturbances \in 0..MaxDisturbances

\* Every device is at rest after its first run; nothing was ever changed.
Init ==
  /\ written = <<>>
  /\ store = [d \in Devices |-> [settings |-> Defaults, version |-> 0]]
  /\ pending = [d \in Devices |-> Nothing]
  /\ sync = [d \in Devices |-> Idle]
  /\ run = [d \in Devices |-> AtSite("idle")]
  /\ stray = [d \in Devices |-> {}]
  /\ waiter = [d \in Devices |-> [state |-> "none", since |-> 0]]
  /\ changes = <<>> /\ latest = [d \in Devices |-> Nothing]
  /\ disturbances = 0

-----------------------------------------------------------------------------
(* Steps of a device.                                                      *)

Invalidates(d) ==
  /\ sync' = [sync EXCEPT ![d] = Invalidated(@)]
  /\ run' = IF Starts(sync[d]) THEN [run EXCEPT ![d] = AtSite("start")] ELSE run

\* applyServerSettings: pending changes stay on top.
OnTop(d, settings) == Merged(settings, pending[d])

\* Mutant: the answer to a conflict is not taken over.
NotApplied(d, v) == store

\* storage.applySettings: only ever a newer version
Applied(d, v) ==
  IF store[d].version < v
  THEN [store EXCEPT ![d] = [settings |-> OnTop(d, At(v)), version |-> v]]
  ELSE store

\* applySettings: the user changes a setting.
Changes(d, k) ==
  LET n == Len(changes) + 1 IN
  /\ Len(changes) < MaxChanges
  /\ changes' = Append(changes, d)
  /\ latest' = [latest EXCEPT ![d][k] = n]
  /\ store' = [store EXCEPT ![d].settings[k] = n]
  /\ pending' = [pending EXCEPT ![d][k] = n]
  /\ Invalidates(d)
  /\ UNCHANGED <<written, stray, waiter, disturbances>>

Disturbs ==
  disturbances < MaxDisturbances /\ disturbances' = disturbances + 1

\* The app comes to the foreground.
BecomesActive(d) ==
  /\ Disturbs
  /\ Invalidates(d)
  /\ UNCHANGED <<written, store, pending, stray, waiter, changes, latest>>

\* What the run sends: all it shows, on the version it has.
Snapshot(st, p) ==
  [base |-> st.version, sent |-> p, payload |-> Merged(st.settings, p)]

Sends(d, st, retries) ==
  run' = [run EXCEPT ![d] =
            [at |-> "post", request |-> Snapshot(st, pending[d]),
             answer |-> 0, retries |-> retries]]

\* syncSettings
Begins(d) ==
  /\ run[d].at = "start"
  /\ IF pending[d] # Nothing THEN Sends(d, store[d], 0)
                             ELSE run' = [run EXCEPT ![d] = AtSite("get")]
  /\ UNCHANGED <<written, store, pending, sync, stray, waiter, changes,
                 latest, disturbances>>

\* Mutant: a key that was sent is done with, whatever its value is by now.
SentKeysDone(p, sent) == [k \in Keys |-> IF sent[k] # 0 THEN 0 ELSE p[k]]

\* "Only clear keys we actually sent": a change made during the request stays.
StillPending(p, sent) == [k \in Keys |-> IF p[k] = sent[k] THEN 0 ELSE p[k]]

LearnsAccepted(d) ==
  /\ run[d].at = "accepted"
  /\ pending' = [pending EXCEPT ![d] = StillPending(@, run[d].request.sent)]
  /\ run' = [run EXCEPT ![d] = AtSite("get")]
  /\ UNCHANGED <<written, store, sync, stray, waiter, changes, latest,
                 disturbances>>

\* Merge and try again, a few times before the run pauses.
LearnsMismatch(d) ==
  /\ run[d].at = "mismatch"
  /\ store' = Applied(d, run[d].answer)
  /\ IF run[d].retries + 1 < MaxRetries
     THEN Sends(d, store'[d], run[d].retries + 1)
     ELSE run' = [run EXCEPT ![d] = AtSite("start")]
  /\ UNCHANGED <<written, pending, sync, stray, waiter, changes, latest,
                 disturbances>>

\* The run ends: InvalidateSync starts another, or tells who waits.
Refreshes(d) ==
  /\ run[d].at = "got"
  /\ store' = Applied(d, run[d].answer)
  /\ sync' = [sync EXCEPT ![d] = Completed(@)]
  /\ run' = [run EXCEPT ![d] =
               AtSite(IF RunsAgain(sync[d]) THEN "start" ELSE "idle")]
  /\ waiter' = IF TellsWaiters(sync[d]) /\ waiter[d].state = "waits"
               THEN [waiter EXCEPT ![d].state = "told"] ELSE waiter
  /\ UNCHANGED <<written, pending, stray, changes, latest, disturbances>>

\* update-account: the push of a version may come late, or never.
PushArrives(d, v) ==
  /\ v \in store[d].version + 1 .. Version
  /\ store' = Applied(d, v)
  /\ UNCHANGED <<written, pending, sync, run, stray, waiter, changes, latest,
                 disturbances>>

-----------------------------------------------------------------------------
(* The centre: compare and set, in one statement.                          *)

\* Mutant: what was written meanwhile is not compared.
Unchecked(request) == TRUE

Accepts(request) == request.base = Version

PostServed(d) ==
  /\ run[d].at = "post"
  /\ IF Accepts(run[d].request)
     THEN /\ written' = Append(written, run[d].request.payload)
          /\ run' = [run EXCEPT ![d].at = "accepted"]
     ELSE /\ run' = [run EXCEPT ![d].at = "mismatch", ![d].answer = Version,
                                ![d].request = NoRequest]
          /\ UNCHANGED written
  /\ UNCHANGED <<store, pending, sync, stray, waiter, changes, latest,
                 disturbances>>

StrayServed(d, request) ==
  /\ request \in stray[d]
  /\ stray' = [stray EXCEPT ![d] = @ \ {request}]
  /\ written' = IF Accepts(request) THEN Append(written, request.payload)
                                    ELSE written
  /\ UNCHANGED <<store, pending, sync, run, waiter, changes, latest,
                 disturbances>>

GetServed(d) ==
  /\ run[d].at = "get"
  /\ run' = [run EXCEPT ![d].at = "got", ![d].answer = Version]
  /\ UNCHANGED <<written, store, pending, sync, stray, waiter, changes,
                 latest, disturbances>>

-----------------------------------------------------------------------------

LeftBehind(d) ==
  stray' = IF run[d].at = "post"
           THEN [stray EXCEPT ![d] = @ \cup {run[d].request}] ELSE stray

\* A request or its answer is lost: the run is repeated after a pause.
RequestFails(d) ==
  /\ run[d].at \in Sites \ {"idle", "start"}
  /\ Disturbs
  /\ LeftBehind(d)
  /\ run' = [run EXCEPT ![d] = AtSite("start")]
  /\ UNCHANGED <<written, store, pending, sync, waiter, changes, latest>>

\* The app is started again, what it shows and what is pending having been
\* saved; after a log-in (create) somebody awaits fresh settings.
Restarts(d, logsIn) ==
  /\ Disturbs
  /\ LeftBehind(d)
  /\ sync' = [sync EXCEPT ![d] = Invalidated(Idle)]
  /\ run' = [run EXCEPT ![d] = AtSite("start")]
  /\ waiter' = [waiter EXCEPT ![d] =
                  [state |-> IF logsIn THEN "waits" ELSE "none",
                   since |-> Version]]
  /\ UNCHANGED <<written, store, pending, changes, latest>>

Progress(d) ==
  \/ Begins(d) \/ LearnsAccepted(d) \/ LearnsMismatch(d) \/ Refreshes(d)
  \/ PostServed(d) \/ GetServed(d)

Next ==
  \/ \E d \in Devices :
       \/ Progress(d)
       \/ \E k \in Keys : Changes(d, k)
       \/ BecomesActive(d)
       \/ \E v \in 1..Version : PushArrives(d, v)
       \/ RequestFails(d)
       \/ \E logsIn \in BOOLEAN : Restarts(d, logsIn)
       \/ \E request \in stray[d] : StrayServed(d, request)

Spec == Init /\ [][Next]_vars

\* A device's run goes on, and its requests are answered; may be lost.
FairSpec == Spec /\ \A d \in Devices : WF_vars(Progress(d))

-----------------------------------------------------------------------------
(* Properties.                                                             *)

Accepted == UNION {{written[v][k] : k \in Keys} : v \in 1..Version}

\* The last change a user made to a setting is pending, and shown on the device,
\* until the centre has had it: it is not lost, nor hidden by an older version
\* in between, by a change made while a request is under way, a conflict, a
\* lost answer, or a restart.
NothingDropped ==
  \A d \in Devices, k \in Keys :
    \/ latest[d][k] \in {0} \cup Accepted
    \/ latest[d][k] = pending[d][k] /\ latest[d][k] = store[d].settings[k]

\* The requests of a device that the centre may yet carry out.
UnderWay(d) == stray[d] \cup {run[d].request}

\* A write changes no setting but those its writer had changed: whatever other
\* devices wrote meanwhile stays.
KeepsOthersChanges ==
  [][\A k \in Keys :
       At(Version)'[k] # At(Version)[k] =>
         \E d \in Devices : \E request \in UnderWay(d) :
           request.sent[k] = At(Version)'[k]]_vars

\* What the code does ensure of it: a write changes a setting only to a value
\* that its own writer had given it, be it long ago; no version takes a setting
\* back to its default, or to the value of a device that is not writing.
ChangesOnlyToOwnValues ==
  [][\A k \in Keys :
       At(Version)'[k] # At(Version)[k] =>
         /\ At(Version)'[k] # 0
         /\ \E request \in UnderWay(changes[At(Version)'[k]]) :
              request.payload = At(Version)']_vars

\* A request made during a run has its own run: a device at rest has nothing left
\* to send and nobody waits there, and whoever awaited fresh settings after a
\* log-in ("Await settings sync to have fresh settings") is told only once the
\* device shows what the centre had then, or newer.
NothingLeftAtRest ==
  \A d \in Devices :
    /\ ~sync[d].invalidated =>
         pending[d] = Nothing /\ waiter[d].state # "waits"
    /\ waiter[d].state = "told" => store[d].version >= waiter[d].since

\* Every device comes to rest, through conflicts and failed requests.
ComesToRest ==
  \A d \in Devices : sync[d].invalidated ~> ~sync[d].invalidated
=============================================================================
