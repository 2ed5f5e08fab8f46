-------------------------- MODULE SessionProcesses --------------------------
(***************************************************************************)
(* The wrapper processes of one session on one machine and how the daemon  *)
(* starts them: a wrapper asserts that nobody owns the session, reports    *)
(* itself and serves; a resume looks for an owner in three places and then *)
(* joins or starts the one launch under way.                               *)
(*                                                                         *)
(* One action is the code between two awaits of the daemon or of a         *)
(* wrapper.  Process numbers are not used again.  The records the daemon   *)
(* keeps of a session are objects that the map of tracked processes and    *)
(* the memory of finished ones share: object p was made for process p, and *)
(* object 0 was read from the disk.                                        *)
(***************************************************************************)
EXTENDS Integers, FiniteSets, FiniteSetsExt

CONSTANTS
  MaxProcs,      \* bound on the processes ever started
  MaxDaemons,    \* bound on the daemons ever started
  MaxFaults      \* bound on crashes, failed and given up requests

ASSUME ConstantsAssumption ==
  /\ MaxProcs \in Nat \ {0} /\ MaxDaemons \in Nat \ {0} /\ MaxFaults \in Nat

VARIABLES
  proc,      \* the processes
  daemon,    \* its number and whether it is booting, up, closing or down
  map,       \* pidToTrackedSession: how each process is tracked
  meta,      \* the objects: the host process, is the conversation known?
  finished,  \* sessionIdToFinishedSession: the object kept of the session
  disk,      \* the process last reported, the journal, the refresh job
  server,    \* the metadata at the centre: host process, refresh state
  call,      \* resumeSession, for each of its callers
  flight,    \* the launch under way
  faults

procVars == <<proc, daemon, map, meta, finished, disk, server, call, flight,
              faults>>

Procs == 1..MaxProcs
Nobody == 0
Nothing == -1
Callers == {"app", "refresh", "recovery"}

Stages == {"unborn", "starts", "asserted", "serves", "runs", "prepares",
           "handedOff", "ending", "exited", "gone"}
\* A child that exited answers signal 0 until its daemon hears of the exit.
Alive == {p \in Procs : proc[p].at \notin {"unborn", "gone"}}
Serving == {p \in Procs : proc[p].at \in {"serves", "runs", "prepares"}}

Reported(p) == map[p] \in {"child", "other"}
Owners == {p \in Procs : Reported(p)}
LiveOwners == Owners \cap Alive

\* findTrackedSessionById
Tracked == IF Owners # {} THEN Min(Owners) ELSE finished
HostIn(objects, o) == IF o = Nothing THEN Nobody ELSE objects[o].host
HostOf(o) == HostIn(meta, o)
Knows(o) == o # Nothing /\ meta[o].knows
FromCentre == [host |-> server.host, knows |-> TRUE]

Answering == daemon.phase # "down"
NoCall == [at |-> "none", host |-> Nobody, seen |-> {}, knows |-> FALSE]
NoFlight == [at |-> "none", by |-> "app", of |-> Nothing, pid |-> Nobody]
NoJob == [pid |-> Nobody, state |-> "none"]

ProcsTypeOK ==
  /\ proc \in [Procs -> [at : Stages, home : 0..MaxDaemons,
                         told : 0..MaxDaemons, named : BOOLEAN,
                         cursor : BOOLEAN]]
  /\ daemon \in [number : 1..MaxDaemons,
                 phase : {"booting", "up", "closing", "down"}]
  /\ map \in [Procs -> {"none", "spawned", "child", "other"}]
  /\ meta \in [0..MaxProcs -> [host : 0..MaxProcs, knows : BOOLEAN]]
  /\ finished \in Nothing..MaxProcs
  /\ disk \in [host : Procs, journal : 0..MaxProcs,
               job : [pid : 0..MaxProcs,
                      state : {"none", "waiting", "late", "error"}]]
  /\ server \in [host : Procs,
                 state : {"applied", "refreshing", "verifying", "error"}]
  /\ call \in [Callers -> [at : {"none", "confirms", "orphan", "provider",
                                 "joined", "ok", "failed"},
                           host : 0..MaxProcs, seen : SUBSET Procs,
                           knows : BOOLEAN]]
  /\ flight \in [at : {"none", "fetches", "launches", "waits"},
                 by : Callers, of : Nothing..MaxProcs, pid : 0..MaxProcs]
  /\ (daemon.phase = "down" => Owners = {} /\ finished = Nothing)
  /\ faults \in 0..MaxFaults

\* The first process runs; the first daemon started it and was told.
ProcsInit ==
  /\ proc = [p \in Procs |->
       IF p = 1 THEN [at |-> "runs", home |-> 1, told |-> 1, named |-> FALSE,
                      cursor |-> FALSE]
       ELSE [at |-> "unborn", home |-> 0, told |-> 0, named |-> FALSE,
             cursor |-> FALSE]]
  /\ daemon = [number |-> 1, phase |-> "up"]
  /\ map = [p \in Procs |-> IF p = 1 THEN "child" ELSE "none"]
  /\ meta = [o \in 0..MaxProcs |->
               [host |-> IF o = 1 THEN 1 ELSE Nobody, knows |-> FALSE]]
  /\ finished = Nothing
  /\ disk = [host |-> 1, journal |-> 1, job |-> NoJob]
  /\ server = [host |-> 1, state |-> "applied"]
  /\ call = [c \in Callers |-> NoCall]
  /\ flight = NoFlight
  /\ faults = 0

Fault == faults < MaxFaults /\ faults' = faults + 1
Moves(p, site) == proc' = [proc EXCEPT ![p].at = site]

\* forgetActiveSession for a process; a daemon that is closing forgets none
JournalWithout(p) ==
  IF disk.journal = p /\ daemon.phase # "closing" THEN Nobody ELSE disk.journal

-----------------------------------------------------------------------------
(* resumeSession                                                           *)

\* Mutant: the process table is not searched for the conversation.
NoConversation(c, seen) == FALSE

\* findProviderSessionPid
ConversationRuns(c, seen) == call[c].knows /\ \E p \in seen : proc[p].named

\* findLiveSessionProcess forgets the dead it meets before a live one.
Reaped ==
  [p \in Procs |->
     IF p \in Owners \ Alive /\ \A q \in LiveOwners : p < q
     THEN "none" ELSE map[p]]

Answer(c, at) == call' = [call EXCEPT ![c] = [NoCall EXCEPT !.at = at]]

\* Up to the first listing of processes; "objects" are as the caller leaves them.
StartsResume(c, objects) ==
  /\ call[c].at = "none"
  /\ map' = Reaped
  /\ IF LiveOwners # {} THEN Answer(c, "confirms")
     ELSE call' = [call EXCEPT ![c] =
            [at |-> "orphan", host |-> HostIn(objects, finished), seen |-> Alive,
             knows |-> FALSE]]

\* A listing shows the processes of when it was asked for, or of now.
Listings(c) == {call[c].seen, Alive}

HearsOrphans(c) ==
  /\ call[c].at = "orphan"
  /\ \/ \E seen \in Listings(c) :
          /\ IF call[c].host \in seen THEN Answer(c, "confirms")
             ELSE call' = [call EXCEPT ![c] =
                    [at |-> "provider", host |-> Nobody, seen |-> Alive,
                     knows |-> Knows(finished)]]
          /\ UNCHANGED faults
     \/ call[c].host # Nobody /\ Fault /\ Answer(c, "failed")
  /\ UNCHANGED <<proc, daemon, map, meta, finished, disk, server, flight>>

\* The last check, and the single flight behind it
HearsConversations(c) ==
  /\ call[c].at = "provider"
  /\ \/ \E seen \in Listings(c) :
          /\ IF ConversationRuns(c, seen)
             THEN Answer(c, "confirms") /\ UNCHANGED flight
             ELSE IF flight.at # "none"
             THEN Answer(c, "joined") /\ UNCHANGED flight
             ELSE IF Tracked = Nothing
             THEN Answer(c, "failed") /\ UNCHANGED flight
             ELSE /\ Answer(c, "joined")
                  /\ flight' = [at |-> IF Knows(Tracked) THEN "launches"
                                       ELSE "fetches",
                                by |-> c, of |-> Tracked, pid |-> Nobody]
          /\ UNCHANGED faults
     \/ Fault /\ Answer(c, "failed") /\ UNCHANGED flight
  /\ UNCHANGED <<proc, daemon, map, meta, finished, disk, server>>

\* confirmExistingSessionResume: the centre may not have heard of it lately.
Confirms(c) ==
  /\ call[c].at = "confirms"
  /\ \/ Answer(c, "ok") /\ UNCHANGED faults
     \/ Fault /\ Answer(c, "failed")
  /\ UNCHANGED <<proc, daemon, map, meta, finished, disk, server, flight>>

\* All who joined the flight are given its result.
Lands(result) ==
  /\ flight' = NoFlight
  /\ call' = [c \in Callers |->
       IF call[c].at = "joined" THEN [NoCall EXCEPT !.at = result] ELSE call[c]]

\* The webhook does not tell the conversation, so the centre is asked.
Fetches ==
  /\ flight.at = "fetches"
  /\ meta' = [meta EXCEPT ![flight.of] = FromCentre]
  /\ flight' = [flight EXCEPT !.at = "launches"]
  /\ UNCHANGED <<proc, daemon, map, finished, disk, server, call, faults>>

Launches(canStart) ==
  /\ flight.at = "launches"
  /\ IF canStart /\ daemon.phase # "closing"
     THEN \E p \in Procs :
       /\ proc[p].at = "unborn" /\ \A q \in 1..(p - 1) : proc[q].at # "unborn"
       /\ proc' = [proc EXCEPT ![p] =
            [at |-> "starts", home |-> daemon.number, told |-> 0,
             named |-> TRUE, cursor |-> flight.by = "refresh"]]
       /\ map' = [map EXCEPT ![p] = "spawned"]
       /\ flight' = [flight EXCEPT !.at = "waits", !.of = Nothing, !.pid = p]
       /\ UNCHANGED call
     ELSE Lands("failed") /\ UNCHANGED <<proc, map>>
  /\ UNCHANGED <<daemon, meta, finished, disk, server, faults>>

\* The fetch or the directory fails, or there is no report in 90 seconds.
LaunchFails ==
  /\ flight.at # "none"
  /\ flight.at = "waits" => proc[flight.pid].at \in {"starts", "asserted"}
  /\ Fault /\ Lands("failed")
  /\ UNCHANGED <<proc, daemon, map, meta, finished, disk, server>>

-----------------------------------------------------------------------------
(* A wrapper process                                                       *)

\* Where the exit of a process leaves it
Exit(p) ==
  IF Answering /\ proc[p].home = daemon.number THEN "exited" ELSE "gone"

\* assertSessionReconnectAvailable; without an answer the wrapper ends.
Asserts(p) ==
  /\ proc[p].at = "starts"
  /\ Moves(p, IF Answering /\ LiveOwners \ {p} = {} THEN "asserted" ELSE Exit(p))
  /\ UNCHANGED <<daemon, map, meta, finished, disk, server, call, flight, faults>>

\* Mutant: the webhook takes whoever reports.
AnyOwner(p) == TRUE

\* assertSessionOwnerAvailable
MayOwn(p) == LiveOwners \ {p} = {}

\* onHappySessionWebhook: a conflict ends the wrapper.
Reports(p) ==
  /\ proc[p].at = "asserted" /\ Answering
  /\ IF MayOwn(p)
     THEN /\ proc' = [proc EXCEPT ![p].at = "serves", ![p].told = daemon.number]
          /\ map' = [map EXCEPT ![p] = IF @ = "spawned" THEN "child" ELSE "other"]
          /\ meta' = [meta EXCEPT ![p] = [host |-> p, knows |-> FALSE]]
          /\ disk' = [disk EXCEPT !.host = p, !.journal = p]
          /\ IF flight.pid = p THEN Lands("ok") ELSE UNCHANGED <<call, flight>>
     ELSE Moves(p, Exit(p)) /\ UNCHANGED <<map, meta, disk, call, flight>>
  /\ UNCHANGED <<daemon, finished, server, faults>>

\* notifyDaemonSessionStarted retries for three seconds, then serves untold.
GivesUp(p) ==
  /\ proc[p].at = "asserted" /\ ~Answering
  /\ Fault /\ Moves(p, "serves")
  /\ UNCHANGED <<daemon, map, meta, finished, disk, server, call, flight>>

\* Its metadata reach the centre.
Publishes(p) ==
  /\ proc[p].at = "serves"
  /\ Moves(p, "runs")
  /\ server' = [host |-> p,
                state |-> IF proc[p].cursor THEN "verifying" ELSE "applied"]
  /\ UNCHANGED <<daemon, map, meta, finished, disk, call, flight, faults>>

Verified(p) ==
  /\ proc[p].at = "runs" /\ server = [host |-> p, state |-> "verifying"]
  /\ server' = [server EXCEPT !.state = "applied"]
  /\ UNCHANGED <<proc, daemon, map, meta, finished, disk, call, flight, faults>>

Ends(p) ==
  /\ \/ proc[p].at \in {"handedOff", "ending"} /\ UNCHANGED faults
     \/ p \in Serving /\ Fault
  /\ Moves(p, Exit(p))
  /\ UNCHANGED <<daemon, map, meta, finished, disk, server, call, flight>>

\* onChildExited: what is known of the session is kept for a resume.
ChildExited(p) ==
  /\ proc[p].at = "exited"
  /\ Moves(p, "gone")
  /\ disk' = IF Reported(p) THEN [disk EXCEPT !.journal = JournalWithout(p)]
             ELSE disk
  /\ finished' = IF Reported(p) THEN p ELSE finished
  /\ map' = [map EXCEPT ![p] = "none"]
  /\ IF flight.pid = p THEN Lands("failed") ELSE UNCHANGED <<call, flight>>
  /\ UNCHANGED <<daemon, meta, server, faults>>

\* The heartbeat prunes processes that are gone.
Prunes(p) ==
  /\ Answering /\ daemon.phase # "booting"
  /\ proc[p].at = "gone" /\ map[p] # "none"
  /\ disk' = IF Reported(p) THEN [disk EXCEPT !.journal = JournalWithout(p)]
             ELSE disk
  /\ map' = [map EXCEPT ![p] = "none"]
  /\ UNCHANGED <<proc, daemon, meta, finished, server, call, flight, faults>>
=============================================================================
