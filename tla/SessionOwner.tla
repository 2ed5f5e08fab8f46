---------------------------- MODULE SessionOwner ----------------------------
(***************************************************************************)
(* Who owns a session on its machine: the app that resumes and stops it,   *)
(* the wrapper that hands it over for a refresh, the daemon that watches   *)
(* the handover, recovers the session after a restart and is itself        *)
(* restarted, and the processes of SessionProcesses they all act on.       *)
(***************************************************************************)
EXTENDS SessionProcesses

CONSTANT MaxPresses    \* bound on the resumes, stops and refreshes asked for

ASSUME PressesAssumption == MaxPresses \in Nat

VARIABLES
  watch,     \* watchRefreshJob, and the object it found
  recovery,  \* StartupSessionRecovery: this session's entry
  stopped,   \* history: a stop has arrived, and the session was neither served
             \* nor adopted since, in a daemon's life
  presses

ownerVars == <<watch, recovery, stopped, presses>>
vars == <<procVars, ownerVars>>

NoWatch == [at |-> "none", of |-> Nothing]
NoRecovery == [at |-> "none", tries |-> 0, host |-> Nobody, seen |-> {}]
MaxTries == 3

TypeOK ==
  /\ ProcsTypeOK
  /\ watch \in [at : {"none", "waits", "fetches", "resumes"},
                of : Nothing..MaxProcs]
  /\ recovery \in [at : {"none", "pending", "live", "metadata", "resumes"},
                   tries : 0..MaxTries, host : 0..MaxProcs,
                   seen : SUBSET Procs]
  /\ stopped \in BOOLEAN /\ presses \in 0..MaxPresses
  /\ (watch.at # "none" => disk.job.state = "waiting")

Init ==
  /\ ProcsInit
  /\ watch = NoWatch /\ recovery = NoRecovery
  /\ stopped = FALSE /\ presses = 0

Press == presses < MaxPresses /\ presses' = presses + 1

-----------------------------------------------------------------------------
(* The app                                                                 *)

PressesResume ==
  /\ Answering /\ Press
  /\ StartsResume("app", meta)
  /\ UNCHANGED <<proc, daemon, meta, finished, disk, server, flight, faults,
                 watch, recovery, stopped>>

IsAnswered ==
  /\ call["app"].at \in {"ok", "failed"}
  /\ Answer("app", "none")
  /\ UNCHANGED <<proc, daemon, map, meta, finished, disk, server, flight,
                 faults, ownerVars>>

\* Mutant: forgets the session only once it has found its wrapper.
ForgetsTracked ==
  disk' = IF Owners = {} THEN disk ELSE [disk EXCEPT !.journal = Nobody]

\* The intent to recover goes before anything is looked for.
Forgets == disk' = [disk EXCEPT !.journal = Nobody]

\* stopSession
Stop ==
  /\ Answering /\ Press
  /\ Forgets
  /\ IF Owners = {} THEN UNCHANGED <<proc, map>>
     ELSE /\ map' = [map EXCEPT ![Tracked] = "none"]
          /\ IF proc[Tracked].at \in {"exited", "gone"} THEN UNCHANGED proc
             ELSE Moves(Tracked, "ending")
  /\ stopped' = TRUE
  /\ UNCHANGED <<daemon, meta, finished, server, call, flight, faults, watch,
                 recovery>>

-----------------------------------------------------------------------------
(* A refresh: the wrapper asks, is reserved a successor, and leaves        *)

\* SafeSessionRefresh.drain publishes before it asks.
AsksRefresh(p) ==
  /\ proc[p].at = "runs" /\ Press
  /\ Moves(p, "prepares")
  /\ server' = [server EXCEPT !.state = "refreshing"]
  /\ UNCHANGED <<daemon, map, meta, finished, disk, call, flight, faults,
                 watch, recovery, stopped>>

\* canRefreshSession, and the host the centre knows
CanRefresh(p) ==
  /\ Answering /\ server.host = p
  /\ Tracked = p \/ (Tracked = 0 /\ meta[0].host = p)
  /\ watch.at # "none" => disk.job.pid = p

TakesBack(p) ==
  /\ Moves(p, "runs") /\ server' = [server EXCEPT !.state = "error"]

\* prepareSessionRefresh; its answer may be lost on the way.
PrepareAccepted(p) ==
  /\ proc[p].at = "prepares" /\ CanRefresh(p)
  /\ meta' = [meta EXCEPT ![Tracked] = FromCentre]
  /\ IF watch.at # "none" THEN UNCHANGED <<disk, watch>>
     ELSE /\ disk' = [disk EXCEPT !.job = [pid |-> p, state |-> "waiting"]]
          /\ watch' = [NoWatch EXCEPT !.at = "waits"]
  /\ \/ Moves(p, "handedOff") /\ UNCHANGED <<server, faults>>
     \/ Fault /\ TakesBack(p)
  /\ UNCHANGED <<daemon, map, finished, call, flight, recovery, stopped,
                 presses>>

PrepareRefused(p) ==
  /\ proc[p].at = "prepares"
  /\ \/ ~CanRefresh(p) /\ UNCHANGED faults
     \/ Fault
  /\ TakesBack(p)
  /\ UNCHANGED <<daemon, map, meta, finished, disk, call, flight, ownerVars>>

\* The engine asks before it leaves and stays: the session is taken back.
Declines(p) ==
  /\ proc[p].at = "handedOff" /\ Fault
  /\ TakesBack(p)
  /\ UNCHANGED <<daemon, map, meta, finished, disk, call, flight, ownerVars>>

-----------------------------------------------------------------------------
(* The daemon's watch of a handover                                        *)

\* Mutant: a job that has ended is kept among those that are watched.
JobEnds(job) == disk' = [disk EXCEPT !.job = job] /\ UNCHANGED watch

WatchEnds(job) == watch' = NoWatch /\ disk' = [disk EXCEPT !.job = job]

\* Mutant: a handover that fails is removed like one that succeeded.
JobForgotten == WatchEnds(NoJob)

JobFails == WatchEnds([disk.job EXCEPT !.state = "error"])
WatchUnchanged ==
  UNCHANGED <<proc, daemon, finished, server, flight, recovery, stopped,
              presses>>

\* A live tracked process other than the one that left owns the session.
SeesExit ==
  /\ watch.at = "waits" /\ disk.job.pid \notin Alive
  /\ IF Tracked = Nothing THEN JobFails
     ELSE IF Tracked \in Alive THEN WatchEnds(NoJob)
     ELSE watch' = [at |-> "fetches", of |-> Tracked] /\ UNCHANGED disk
  /\ UNCHANGED <<map, meta, call, faults>> /\ WatchUnchanged

\* The old process did not leave in a minute.
WatchTimesOut ==
  /\ watch.at = "waits" /\ disk.job.pid \in Alive
  /\ WatchEnds([disk.job EXCEPT !.state = "late"])
  /\ UNCHANGED <<map, meta, call, faults>> /\ WatchUnchanged

WatchFetches ==
  /\ watch.at = "fetches"
  /\ \/ /\ server.host = disk.job.pid
        /\ meta' = [meta EXCEPT ![watch.of] = FromCentre]
        /\ StartsResume("refresh", meta')
        /\ watch' = [watch EXCEPT !.at = "resumes"]
        /\ UNCHANGED <<disk, faults>>
     \/ /\ server.host # disk.job.pid
        /\ IF server.state = "applied" THEN WatchEnds(NoJob) ELSE JobFails
        /\ UNCHANGED <<map, meta, call, faults>>
     \/ Fault /\ JobFails /\ UNCHANGED <<map, meta, call>>
  /\ WatchUnchanged

WatchResumed ==
  /\ watch.at = "resumes" /\ call["refresh"].at \in {"ok", "failed"}
  /\ Answer("refresh", "none")
  /\ IF call["refresh"].at = "ok" THEN WatchEnds(NoJob) ELSE JobFails
  /\ UNCHANGED <<map, meta, faults>> /\ WatchUnchanged

\* recoverLateRefreshes
LateRecovery ==
  /\ Answering /\ watch.at = "none"
  /\ disk.job.state = "late" /\ disk.job.pid \notin Alive
  /\ Tracked # Nothing
  /\ server = [host |-> disk.job.pid, state |-> "refreshing"]
  /\ watch' = [NoWatch EXCEPT !.at = "waits"]
  /\ disk' = [disk EXCEPT !.job.state = "waiting"]
  /\ UNCHANGED <<map, meta, call, faults>> /\ WatchUnchanged

-----------------------------------------------------------------------------
(* StartupSessionRecovery.run, the iteration of this session; a restarted  *)
(* daemon has its record at least from the disk.                           *)

Busy == watch.at # "none"
RecoveryUnchanged ==
  UNCHANGED <<proc, daemon, finished, disk, server, flight, watch, stopped,
              presses>>

Forgotten == recovery' = NoRecovery

\* Mutant: an attempt that fails is the last.
OneTry ==
  recovery' = [NoRecovery EXCEPT !.tries = recovery.tries + 1]

Retries ==
  recovery' = [NoRecovery EXCEPT
    !.at = IF recovery.tries + 1 < MaxTries THEN "pending" ELSE "none",
    !.tries = recovery.tries + 1]

LooksForLive ==
  /\ recovery.at = "pending" /\ daemon.phase = "up"
  /\ disk.journal # Nobody => ~Busy
  /\ IF disk.journal = Nobody THEN Forgotten /\ UNCHANGED map
     ELSE /\ map' = Reaped
          /\ IF LiveOwners # {} THEN Forgotten
             ELSE recovery' = [recovery EXCEPT
                    !.at = "live", !.host = HostOf(Tracked), !.seen = Alive]
  /\ UNCHANGED <<meta, call, faults>> /\ RecoveryUnchanged

HearsLive ==
  /\ recovery.at = "live"
  /\ \/ /\ \E seen \in {recovery.seen, Alive} :
             IF recovery.host \in seen THEN Forgotten
             ELSE recovery' = [NoRecovery EXCEPT
                    !.at = "metadata", !.tries = recovery.tries]
        /\ UNCHANGED faults
     \/ Fault /\ Retries
  /\ UNCHANGED <<map, meta, call>> /\ RecoveryUnchanged

HearsMetadata ==
  /\ recovery.at = "metadata"
  /\ IF daemon.phase = "closing" \/ Busy
     THEN /\ recovery' = [recovery EXCEPT !.at = "pending"]
          /\ UNCHANGED <<map, meta, call, faults>>
     ELSE IF disk.journal = Nobody
     THEN Forgotten /\ UNCHANGED <<map, meta, call, faults>>
     ELSE \/ /\ meta' = [meta EXCEPT ![Tracked] = FromCentre]
             /\ StartsResume("recovery", meta')
             /\ recovery' = [recovery EXCEPT !.at = "resumes"]
             /\ UNCHANGED faults
          \/ Fault /\ Retries /\ UNCHANGED <<map, meta, call>>
  /\ RecoveryUnchanged

RecoveryResumed ==
  /\ recovery.at = "resumes" /\ call["recovery"].at \in {"ok", "failed"}
  /\ Answer("recovery", "none")
  /\ IF call["recovery"].at = "ok" THEN Forgotten ELSE Retries
  /\ UNCHANGED <<map, meta, faults>> /\ RecoveryUnchanged

-----------------------------------------------------------------------------
(* The flight and the report, with what the history keeps of them          *)

\* canStart of the caller that leads the flight
CanStart ==
  flight.by = "recovery" => ~Busy /\ disk.journal # Nobody

LaunchesResume == Launches(CanStart) /\ UNCHANGED ownerVars

ReportsItself(p) ==
  /\ Reports(p)
  /\ stopped' = (stopped /\ proc'[p].at # "serves")
  /\ UNCHANGED <<watch, recovery, presses>>

-----------------------------------------------------------------------------
(* The daemon                                                              *)

\* requestShutdown, handoffToSelectedAgent
Closes ==
  /\ daemon.phase \in {"booting", "up"} /\ daemon.number < MaxDaemons
  /\ daemon' = [daemon EXCEPT !.phase = "closing"]
  /\ UNCHANGED <<proc, map, meta, finished, disk, server, call, flight, faults,
                 ownerVars>>

\* What the daemon had in memory is gone; the wrappers are not.
LosesMemory ==
  /\ daemon' = [daemon EXCEPT !.phase = "down"]
  /\ map' = [p \in Procs |-> "none"]
  /\ meta' = [o \in 0..MaxProcs |-> [host |-> Nobody, knows |-> FALSE]]
  /\ finished' = Nothing
  /\ call' = [c \in Callers |-> NoCall] /\ flight' = NoFlight
  /\ watch' = NoWatch /\ recovery' = NoRecovery
  /\ stopped' = FALSE
  /\ UNCHANGED <<disk, server, presses>>

Down ==
  /\ Answering /\ daemon.number < MaxDaemons
  /\ IF daemon.phase = "closing" THEN UNCHANGED faults ELSE Fault
  /\ proc' = [p \in Procs |->
       IF proc[p].at = "exited" THEN [proc[p] EXCEPT !.at = "gone"]
       ELSE proc[p]]
  /\ LosesMemory

\* The machine restarts: the wrappers are gone as well.
Reboots ==
  /\ daemon.number < MaxDaemons /\ Fault
  /\ proc' = [p \in Procs |->
       IF p \in Alive THEN [proc[p] EXCEPT !.at = "gone"] ELSE proc[p]]
  /\ LosesMemory

\* Up to the control server: the sessions on disk, the handovers accepted
Boots ==
  /\ daemon.phase = "down"
  /\ daemon' = [number |-> daemon.number + 1, phase |-> "booting"]
  /\ finished' = 0
  /\ meta' = [meta EXCEPT ![0] = [host |-> disk.host, knows |-> FALSE]]
  /\ watch' = [NoWatch EXCEPT
       !.at = IF disk.job.state = "waiting" THEN "waits" ELSE "none"]
  /\ UNCHANGED <<proc, map, disk, server, call, flight, faults, recovery,
                 stopped, presses>>

\* Adopts the wrapper that still runs; then the entries of the journal as it
\* is now are what is recovered.
Adopts ==
  /\ daemon.phase = "booting"
  /\ LET p == HostOf(finished)
         adopted == LiveOwners = {} /\ p \in Alive
     IN  \/ /\ map' = IF adopted THEN [Reaped EXCEPT ![p] = "other"]
                      ELSE Reaped
            /\ meta' = IF adopted THEN [meta EXCEPT ![p] = meta[finished]]
                       ELSE meta
            /\ disk' = IF adopted THEN [disk EXCEPT !.journal = p] ELSE disk
            /\ stopped' = (stopped /\ ~adopted)
            /\ UNCHANGED faults
         \/ Fault /\ UNCHANGED <<map, meta, disk, stopped>>
  /\ daemon' = [daemon EXCEPT !.phase = "up"]
  /\ recovery' = [NoRecovery EXCEPT
       !.at = IF disk'.journal # Nobody THEN "pending" ELSE "none"]
  /\ UNCHANGED <<proc, finished, server, call, flight, watch, presses>>

-----------------------------------------------------------------------------
App == PressesResume \/ IsAnswered \/ Stop

Resuming ==
  /\ \/ \E c \in Callers :
          HearsOrphans(c) \/ HearsConversations(c) \/ Confirms(c)
     \/ Fetches \/ LaunchFails
  /\ UNCHANGED ownerVars

Watching == SeesExit \/ WatchTimesOut \/ WatchFetches \/ WatchResumed
            \/ LateRecovery

Recovering == LooksForLive \/ HearsLive \/ HearsMetadata \/ RecoveryResumed

Wrapper(p) ==
  \/ /\ Asserts(p) \/ GivesUp(p) \/ Publishes(p) \/ Verified(p) \/ Ends(p)
     /\ UNCHANGED ownerVars
  \/ ReportsItself(p)
  \/ AsksRefresh(p) \/ PrepareAccepted(p) \/ PrepareRefused(p) \/ Declines(p)

Daemon ==
  \/ Closes \/ Down \/ Reboots \/ Boots \/ Adopts
  \/ \E p \in Procs : (ChildExited(p) \/ Prunes(p)) /\ UNCHANGED ownerVars

Next ==
  \/ App \/ Resuming \/ LaunchesResume \/ Watching \/ Recovering \/ Daemon
  \/ \E p \in Procs : Wrapper(p)

\* Timers, answers and exits come; nobody has to press and nothing has to
\* fail, and a daemon that is closed is started again.
Fairness ==
  /\ \A c \in Callers : WF_vars((HearsOrphans(c) \/ HearsConversations(c)
                                 \/ Confirms(c)) /\ UNCHANGED ownerVars)
  /\ WF_vars(Fetches /\ UNCHANGED ownerVars) /\ WF_vars(LaunchesResume)
  /\ WF_vars(SeesExit) /\ WF_vars(WatchFetches) /\ WF_vars(WatchResumed)
  /\ WF_vars(LooksForLive) /\ WF_vars(HearsLive) /\ WF_vars(HearsMetadata)
  /\ WF_vars(RecoveryResumed) /\ WF_vars(LateRecovery)
  /\ WF_vars(Down /\ daemon.phase = "closing") /\ WF_vars(Boots)
  /\ WF_vars(Adopts)
  /\ \A p \in Procs :
       /\ WF_vars(Wrapper(p) /\ faults' = faults /\ presses' = presses)
       /\ WF_vars((ChildExited(p) \/ Prunes(p)) /\ UNCHANGED ownerVars)

Spec == Init /\ [][Next]_vars /\ Fairness

-----------------------------------------------------------------------------
(* Properties                                                              *)

\* A session has exactly one wrapper: of the wrappers that serve, at most one
\* reported to the daemon that started it.  A wrapper that reports to the
\* next daemon before that daemon has adopted the one that runs is left out,
\* as is one that gave up reporting: the code lets both serve beside it.
OneOwner ==
  (\A p \in Procs : proc[p].told \in {0, proc[p].home}) =>
    Cardinality({p \in Serving : proc[p].told # 0}) <= 1

\* Newly closed sessions are never polled back to life: once a stop has
\* arrived, whether or not a wrapper was tracked then and wherever the recovery
\* was, the recovery launches no wrapper in that daemon's life, unless one has
\* reported or was adopted since.
StoppedStays ==
  [][stopped =>
       \A p \in Procs : proc[p].at = "unborn" /\ proc'[p].at = "starts"
                          => flight.by # "recovery"]_vars

\* What the bound on the processes cuts off
OutOfProcesses == \A p \in Procs : proc[p].at # "unborn"

\* A session that the journal says was running, and that has no process any
\* more, runs again: it is served, or closed meanwhile, or three attempts
\* to resume it have failed.
ComesBack ==
  recovery.at = "pending" /\ Alive = {} ~>
    \/ Serving # {} \/ disk.journal = Nobody \/ recovery.tries = MaxTries
    \/ OutOfProcesses

\* A handover that was accepted is taken over once the old process is gone:
\* a successor serves, or was launched and ended; or the job says that it
\* failed, or it is late, and the session that it waits for was stopped.
HandoverEnds ==
  /\ disk.job.pid = disk.host /\ disk.host \notin Alive
  /\ \/ disk.job.state = "waiting"
     \/ /\ disk.job.state = "late"
        /\ server = [host |-> disk.host, state |-> "refreshing"]
  ~>
  \/ Serving # {} \/ disk.job.state = "error"
  \/ stopped /\ disk.job.state = "late" /\ Tracked = Nothing
  \/ \E p \in Procs : p > disk.host /\ proc[p].at = "gone"
  \/ OutOfProcesses

\* SafeSessionRefresh.hold: anything sent after the cursor was frozen is
\* replayed to the engine taking over, so a wrapper launched while the
\* handover waits for its successor is given the cursor.
HeldInputKept ==
  [][\A p \in Procs :
       /\ proc[p].at = "unborn" /\ proc'[p].at = "starts"
       /\ disk.job.state = "waiting" /\ disk.job.pid \notin Alive
       /\ server = [host |-> disk.job.pid, state |-> "refreshing"]
       => proc'[p].cursor]_vars
=============================================================================
