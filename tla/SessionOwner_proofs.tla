------------------------ MODULE SessionOwner_proofs -------------------------
(***************************************************************************)
(* Proofs about SessionOwner, for any number of processes, daemons,        *)
(* presses and faults.                                                     *)
(***************************************************************************)
EXTENDS SessionOwner, FiniteSetTheorems, TLAPS

-----------------------------------------------------------------------------
(* The inductive invariant of the types.                                   *)

\* Who was launched was launched by some daemon with the conversation named,
\* and reports once; the first process has reported to the first daemon.
ProcTrue(p) ==
  /\ proc[p].home <= daemon.number
  /\ proc[p].at \in {"unborn", "starts", "asserted"} => p # 1 /\ proc[p].told = 0
  /\ proc[p].at # "unborn" /\ p # 1 => proc[p].named
  /\ p = 1 => proc[p].told = proc[p].home /\ ~proc[p].named

ProcsTrue == \A p \in Procs : ProcTrue(p)

\* What is tracked as a wrapper of the session was launched.
OwnersTrue == \A p \in Owners : proc[p].at # "unborn"

\* A job is of a process that was launched, and has ended when its successor
\* is looked for.
JobTrue ==
  /\ disk.job.state # "none" =>
       disk.job.pid \in Procs /\ proc[disk.job.pid].at # "unborn"
  /\ watch.at = "fetches" => disk.job.pid \notin Alive

\* A daemon that is down has nothing in memory, one that boots recovers
\* nothing yet, and one that closes will have a successor.
MemoryTrue ==
  /\ daemon.phase = "down" =>
       /\ map = [p \in Procs |-> "none"]
       /\ call = [c \in Callers |-> NoCall] /\ flight = NoFlight
       /\ watch = NoWatch
  /\ daemon.phase \in {"booting", "down"} => recovery.at = "none"
  /\ daemon.phase \in {"closing", "down"} => daemon.number < MaxDaemons
  /\ recovery.at # "none" => recovery.tries < MaxTries

BaseInv == TypeOK /\ ProcsTrue /\ OwnersTrue /\ JobTrue /\ MemoryTrue

-----------------------------------------------------------------------------
(* Who is tracked.                                                         *)

\* A set of processes has a first one: the one with no other before it.
LEMMA FirstIs ==
  ASSUME NEW S \in SUBSET Procs, S # {}
  PROVE  Min(S) \in S
<1> DEFINE upTo(n) == {k \in S : k <= n}
           N == Cardinality(S)
           rank == [n \in S |-> Cardinality(upTo(n))]
<1>1. S \subseteq Nat /\ IsFiniteSet(S) /\ N \in Nat
  <2>1. 1 \in Int /\ MaxProcs \in Int
    BY ConstantsAssumption
  <2>2. IsFiniteSet(Procs)
    BY <2>1, FS_Interval DEF Procs
  <2>3. IsFiniteSet(S) /\ N \in Nat
    BY <2>2, FS_Subset, FS_CardinalityType
  <2> QED  BY <2>3 DEF Procs
<1>2. \A n \in S : /\ IsFiniteSet(upTo(n))
                   /\ Cardinality(upTo(n)) \in Nat /\ Cardinality(upTo(n)) <= N
  <2> TAKE n \in S
  <2>1. upTo(n) \in SUBSET S
    OBVIOUS
  <2> QED  BY <1>1, <2>1, FS_Subset, FS_CardinalityType
<1>3. \A n \in S : Cardinality(upTo(n)) # 0
  <2> TAKE n \in S
  <2>1. n \in upTo(n)
    BY <1>1
  <2> QED  BY <1>2, <2>1, FS_EmptySet
<1>4. ASSUME NEW m \in S, NEW n \in S, m < n
      PROVE  Cardinality(upTo(m)) < Cardinality(upTo(n))
  <2>1. m \in Nat /\ n \in Nat /\ \A k \in S : k \in Nat
    BY <1>1
  <2>2. n <= n /\ ~(n <= m) /\ \A k \in S : k <= m => k <= n
    BY <1>4, <2>1
  <2>3. upTo(m) \in SUBSET upTo(n) /\ n \in upTo(n) /\ n \notin upTo(m)
    BY <2>2
  <2>4. /\ Cardinality(upTo(m)) <= Cardinality(upTo(n))
        /\ Cardinality(upTo(n)) = Cardinality(upTo(m)) => upTo(n) = upTo(m)
    BY <1>2, <2>3, FS_Subset
  <2>5. upTo(m) # upTo(n)
    BY <2>3
  <2> HIDE DEF upTo
  <2> QED  BY <1>2, <2>4, <2>5
<1>5. rank \in Injection(S, 1..N)
  <2>1. rank \in [S -> 1..N]
    <3>1. \A n \in S : Cardinality(upTo(n)) \in 1..N
      BY <1>1, <1>2, <1>3
    <3> QED  BY <3>1
  <2>2. ASSUME NEW m \in S, NEW n \in S, rank[m] = rank[n]  PROVE m = n
    <3>1. ~(m < n) /\ ~(n < m)
      BY <1>2, <1>4, <2>2
    <3> QED  BY <1>1, <3>1
  <2> QED  BY <2>1, <2>2 DEF Injection, IsInjective
<1>6. rank \in Surjection(S, 1..N)
  <2>1. IsFiniteSet(1..N) /\ Cardinality(1..N) = N
    BY <1>1, FS_Interval
  <2> QED  BY <1>1, <1>5, <2>1, FS_Injection
<1>7. 1 \in 1..N
  BY <1>1, FS_EmptySet
<1>8. PICK x \in S : Cardinality(upTo(x)) = 1
  BY <1>6, <1>7 DEF Surjection
<1>9. ASSUME NEW y \in S  PROVE x <= y
  <2> HIDE DEF upTo
  <2>1. Cardinality(upTo(y)) \in Nat /\ Cardinality(upTo(y)) # 0
    BY <1>2, <1>3
  <2>2. ~(y < x)
    BY <1>4, <1>8, <2>1
  <2> QED  BY <1>1, <2>2
<1> QED  BY <1>9 DEF Min

LEMMA TrackedIs ==
  ASSUME TypeOK
  PROVE  /\ Tracked \in Nothing..MaxProcs
         /\ Owners # {} => Tracked \in Owners
         /\ Owners = {} => Tracked = finished
         /\ HostOf(Tracked) \in 0..MaxProcs /\ HostOf(finished) \in 0..MaxProcs
         /\ FromCentre \in [host : 0..MaxProcs, knows : BOOLEAN]
<1>1. Owners # {} => Tracked \in Owners
  BY FirstIs DEF Owners, Tracked
<1>2. finished \in Nothing..MaxProcs
  BY DEF TypeOK, ProcsTypeOK
<1>3. Owners \subseteq Nothing..MaxProcs
  BY ConstantsAssumption DEF Owners, Procs, Nothing
<1>4. Tracked \in Nothing..MaxProcs
  BY <1>1, <1>2, <1>3 DEF Tracked
<1>5. ASSUME NEW o \in Nothing..MaxProcs  PROVE HostOf(o) \in 0..MaxProcs
  <2>1. meta \in [0..MaxProcs -> [host : 0..MaxProcs, knows : BOOLEAN]]
    BY DEF TypeOK, ProcsTypeOK
  <2>2. o # Nothing => o \in 0..MaxProcs
    BY ConstantsAssumption DEF Nothing
  <2>3. 0 \in 0..MaxProcs
    BY ConstantsAssumption
  <2> QED  BY <2>1, <2>2, <2>3 DEF HostOf, HostIn, Nobody
<1>6. FromCentre \in [host : 0..MaxProcs, knows : BOOLEAN]
  BY ConstantsAssumption DEF TypeOK, ProcsTypeOK, FromCentre, Procs
<1> QED  BY <1>1, <1>2, <1>4, <1>5, <1>6 DEF Tracked

-----------------------------------------------------------------------------
(* The types, variable by variable.                                        *)

ProcSet == [at : Stages, home : 0..MaxDaemons, told : 0..MaxDaemons,
            named : BOOLEAN, cursor : BOOLEAN]
Kept == [host : 0..MaxProcs, knows : BOOLEAN]
CallSet == [at : {"none", "confirms", "orphan", "provider", "joined", "ok", "failed"},
            host : 0..MaxProcs, seen : SUBSET Procs, knows : BOOLEAN]
JobSet == [pid : 0..MaxProcs, state : {"none", "waiting", "late", "error"}]

ProcTyped == proc \in [Procs -> ProcSet]
DaemonTyped ==
  daemon \in [number : 1..MaxDaemons, phase : {"booting", "up", "closing", "down"}]
MapTyped == map \in [Procs -> {"none", "spawned", "child", "other"}]
ObjectsTyped == meta \in [0..MaxProcs -> Kept] /\ finished \in Nothing..MaxProcs
DiskTyped == disk \in [host : Procs, journal : 0..MaxProcs, job : JobSet]
ServerTyped ==
  server \in [host : Procs, state : {"applied", "refreshing", "verifying", "error"}]
CallTyped == call \in [Callers -> CallSet]
FlightTyped ==
  flight \in [at : {"none", "fetches", "launches", "waits"},
              by : Callers, of : Nothing..MaxProcs, pid : 0..MaxProcs]
WatchTyped ==
  /\ watch \in [at : {"none", "waits", "fetches", "resumes"}, of : Nothing..MaxProcs]
  /\ watch.at # "none" => disk.job.state = "waiting"
RecoveryTyped ==
  recovery \in [at : {"none", "pending", "live", "metadata", "resumes"},
                tries : 0..MaxTries, host : 0..MaxProcs, seen : SUBSET Procs]
CountsTyped ==
  stopped \in BOOLEAN /\ presses \in 0..MaxPresses /\ faults \in 0..MaxFaults
DownTyped == daemon.phase = "down" => Owners = {} /\ finished = Nothing

LEMMA TypeIs ==
  TypeOK <=>
    /\ ProcTyped /\ DaemonTyped /\ MapTyped /\ ObjectsTyped /\ DiskTyped /\ ServerTyped
    /\ CallTyped /\ FlightTyped /\ WatchTyped /\ RecoveryTyped /\ CountsTyped
    /\ DownTyped
BY DEF TypeOK, ProcsTypeOK, ProcSet, Kept, CallSet, JobSet, ProcTyped, DaemonTyped,
  MapTyped, ObjectsTyped, DiskTyped, ServerTyped, CallTyped, FlightTyped, WatchTyped,
  RecoveryTyped, CountsTyped, DownTyped

LEMMA TypeNext ==
  /\ ProcTyped' /\ DaemonTyped' /\ MapTyped' /\ ObjectsTyped' /\ DiskTyped'
  /\ ServerTyped' /\ CallTyped' /\ FlightTyped' /\ WatchTyped' /\ RecoveryTyped'
  /\ CountsTyped' /\ DownTyped'
  => TypeOK'
BY TypeIs, PTL

LEMMA FaultTyped == CountsTyped /\ Fault => faults' \in 0..MaxFaults
BY ConstantsAssumption DEF CountsTyped, Fault

LEMMA PressTyped == CountsTyped /\ Press => presses' \in 0..MaxPresses
BY PressesAssumption DEF CountsTyped, Press

\* Reaping only takes owners away.
LEMMA ReapedIs ==
  ASSUME MapTyped
  PROVE  /\ Reaped \in [Procs -> {"none", "spawned", "child", "other"}]
         /\ \A p \in Procs : Reaped[p] = map[p] \/ (Reaped[p] = "none" /\ p \notin Alive)
BY DEF MapTyped, Reaped

LEMMA IdleTyped ==
  ASSUME NEW at \in {"none", "confirms", "joined", "ok", "failed"}
  PROVE  [NoCall EXCEPT !.at = at] \in CallSet /\ [NoCall EXCEPT !.at = at].at = at
<1>1. 0 \in 0..MaxProcs /\ {} \in SUBSET Procs
  BY ConstantsAssumption
<1>2. NoCall \in CallSet
  BY <1>1 DEF CallSet, NoCall, Nobody
<1> QED  BY <1>2 DEF CallSet

LEMMA AnswerTyped ==
  ASSUME CallTyped, NEW c \in Callers,
         NEW at \in {"none", "confirms", "joined", "ok", "failed"}, Answer(c, at)
  PROVE  /\ CallTyped'
         /\ call'[c] = [NoCall EXCEPT !.at = at] /\ call'[c].at = at
         /\ \A d \in Callers \ {c} : call'[d] = call[d]
<1>1. [NoCall EXCEPT !.at = at] \in CallSet /\ [NoCall EXCEPT !.at = at].at = at
  BY IdleTyped
<1> QED  BY <1>1 DEF CallTyped, Answer

LEMMA LandsTyped ==
  ASSUME CallTyped, NEW result \in {"ok", "failed"}, Lands(result)
  PROVE  /\ CallTyped' /\ FlightTyped'
         /\ \A c \in Callers : call'[c] = call[c] \/ call'[c].at = result
<1>1. [NoCall EXCEPT !.at = result] \in CallSet /\ [NoCall EXCEPT !.at = result].at = result
  BY IdleTyped
<1>2. NoFlight \in [at : {"none", "fetches", "launches", "waits"},
                    by : Callers, of : Nothing..MaxProcs, pid : 0..MaxProcs]
  BY ConstantsAssumption DEF NoFlight, Callers, Nothing, Nobody
<1> QED  BY <1>1, <1>2 DEF CallTyped, FlightTyped, Lands

\* A resume that begins has found a live owner, or looks for the one on record.
LEMMA StartsTyped ==
  ASSUME CallTyped, MapTyped, NEW c \in Callers, NEW objects, StartsResume(c, objects),
         HostIn(objects, finished) \in 0..MaxProcs
  PROVE  /\ CallTyped' /\ MapTyped' /\ map' = Reaped
         /\ \A d \in Callers \ {c} : call'[d] = call[d]
         /\ \/ LiveOwners # {} /\ call'[c].at = "confirms"
            \/ /\ LiveOwners = {}
               /\ call'[c] = [at |-> "orphan", host |-> HostIn(objects, finished),
                              seen |-> Alive, knows |-> FALSE]
<1>1. MapTyped' /\ map' = Reaped
  BY ReapedIs DEF StartsResume, MapTyped
<1>2. CASE LiveOwners # {}
  <2>1. Answer(c, "confirms")
    BY <1>2 DEF StartsResume
  <2> QED  BY <1>1, <1>2, <2>1, AnswerTyped
<1>3. CASE LiveOwners = {}
  <2> DEFINE asked == [at |-> "orphan", host |-> HostIn(objects, finished), seen |-> Alive,
                       knows |-> FALSE]
  <2>1. call' = [call EXCEPT ![c] = asked]
    BY <1>3 DEF StartsResume
  <2>2. asked \in CallSet
    BY DEF CallSet, Alive
  <2> QED  BY <1>1, <1>3, <2>1, <2>2 DEF CallTyped
<1> QED  BY <1>2, <1>3

\* Owners are tracked as such.
LEMMA FewerOwners ==
  ASSUME \A p \in Procs : map'[p] = map[p] \/ map'[p] \in {"none", "spawned"}
  PROVE  Owners' \subseteq Owners
BY DEF Owners, Reported

-----------------------------------------------------------------------------
(* What a step does to a process.                                          *)

Left == {"ending", "exited", "gone"}

\* It goes on, or ends
GoesOn(p) ==
  /\ proc'[p].home = proc[p].home /\ proc'[p].told = proc[p].told
  /\ proc'[p].named = proc[p].named
  /\ proc'[p].at = "unborn" <=> proc[p].at = "unborn"
  /\ proc[p].at = "gone" => proc'[p].at = "gone"
  /\ proc'[p].at = "starts" => proc[p].at = "starts"
  /\ proc'[p].at = "asserted" => proc[p].at \in {"starts", "asserted"}
  /\ proc[p].at \in Left => proc'[p].at \in Left

\* It is launched
Begins(p) ==
  /\ proc[p].at = "unborn" /\ flight.at = "launches" /\ CanStart
  /\ proc'[p].at = "starts" /\ proc'[p].home = daemon.number
  /\ proc'[p].told = 0 /\ proc'[p].named

\* It reports, and nobody else owns the session
Joins(p) ==
  /\ proc[p].at = "asserted" /\ Answering /\ MayOwn(p)
  /\ proc'[p].at = "serves" /\ proc'[p].told = daemon.number
  /\ proc'[p].home = proc[p].home /\ proc'[p].named = proc[p].named
  /\ daemon' = daemon /\ disk'.host = p /\ Reported(p)'

ProcSteps == \A p \in Procs : GoesOn(p) \/ Begins(p) \/ Joins(p)

LEMMA RestGoesOn == UNCHANGED proc => ProcSteps
BY DEF ProcSteps, GoesOn

LEMMA MovesGoOn ==
  ASSUME ProcTyped, NEW q \in Procs, NEW site \in Stages, Moves(q, site),
         proc[q].at \notin {"unborn", "gone"},
         site \notin {"unborn", "starts"},
         site = "asserted" => proc[q].at = "starts",
         proc[q].at \in Left => site \in Left
  PROVE  /\ ProcTyped' /\ proc'[q].at = site
         /\ \A p \in Procs \ {q} : proc'[p] = proc[p]
         /\ \A p \in Procs : GoesOn(p)
<1>1. /\ ProcTyped' /\ proc'[q] = [proc[q] EXCEPT !.at = site]
      /\ \A p \in Procs \ {q} : proc'[p] = proc[p]
  BY DEF ProcTyped, ProcSet, Moves
<1>2. /\ proc'[q].at = site /\ proc'[q].home = proc[q].home
      /\ proc'[q].told = proc[q].told /\ proc'[q].named = proc[q].named
  BY <1>1 DEF ProcTyped, ProcSet
<1>3. GoesOn(q)
  BY <1>2 DEF GoesOn
<1>4. \A p \in Procs \ {q} : GoesOn(p)
  BY <1>1 DEF GoesOn
<1> QED  BY <1>1, <1>2, <1>3, <1>4

\* Who has ended does not come back.
LEMMA GoneStay ==
  ASSUME ProcSteps, NEW p \in Procs, proc[p].at # "unborn"
  PROVE  proc'[p].at # "unborn" /\ (p \notin Alive => p \notin Alive')
BY DEF ProcSteps, GoesOn, Begins, Joins, Alive

-----------------------------------------------------------------------------
(* Every step keeps the types.                                             *)

BaseStep == TypeOK' /\ ProcSteps /\ OwnersTrue' /\ JobTrue' /\ MemoryTrue'

LEMMA OwnersKept ==
  ASSUME OwnersTrue, ProcSteps, Owners' \subseteq Owners
  PROVE  OwnersTrue'
BY GoneStay DEF OwnersTrue, Owners

\* A step that leaves the job and its watch alone
LEMMA JobKept ==
  ASSUME BaseInv, ProcSteps, watch' = watch, disk'.job = disk.job
  PROVE  JobTrue'
<1>1. watch.at = "fetches" => disk.job.state = "waiting"
  BY TypeIs DEF BaseInv, WatchTyped
<1> QED  BY <1>1, GoneStay DEF BaseInv, JobTrue

LEMMA BaseApp ==
  ASSUME BaseInv, App
  PROVE  BaseStep
<1> USE TypeIs, TypeNext DEF BaseInv
<1>1. CASE PressesResume
  <2>1. ProcSteps
    BY <1>1, RestGoesOn DEF PressesResume
  <2>2. CallTyped' /\ MapTyped' /\ map' = Reaped
    BY <1>1, TrackedIs, StartsTyped DEF PressesResume, HostOf, Callers
  <2>3. Owners' \subseteq Owners
    BY <2>2, ReapedIs, FewerOwners
  <2>4. DownTyped'
    BY <1>1 DEF PressesResume, DownTyped, Answering
  <2>5. TypeOK'
    BY <1>1, <2>2, <2>4, PressTyped DEF PressesResume, ProcTyped, DaemonTyped, ObjectsTyped,
      DiskTyped, ServerTyped, FlightTyped, WatchTyped, RecoveryTyped, CountsTyped
  <2>6. MemoryTrue'
    BY <1>1 DEF PressesResume, MemoryTrue, Answering
  <2> QED  BY <1>1, <2>1, <2>3, <2>5, <2>6, OwnersKept, JobKept DEF BaseStep, PressesResume
<1>2. CASE IsAnswered
  <2>1. ProcSteps
    BY <1>2, RestGoesOn DEF IsAnswered
  <2>2. CallTyped' /\ Owners' = Owners
    BY <1>2, AnswerTyped DEF IsAnswered, Callers, Owners, Reported
  <2>3. TypeOK'
    BY <1>2, <2>2 DEF IsAnswered, ownerVars, ProcTyped, DaemonTyped, MapTyped, ObjectsTyped,
      DiskTyped, ServerTyped, FlightTyped, WatchTyped, RecoveryTyped, CountsTyped, DownTyped
  <2>4. MemoryTrue'
    BY <1>2 DEF IsAnswered, ownerVars, MemoryTrue, NoCall, Callers
  <2> QED  BY <1>2, <2>1, <2>2, <2>3, <2>4, OwnersKept, JobKept
           DEF BaseStep, IsAnswered, ownerVars
<1>3. CASE Stop
  <2>1. ProcSteps /\ ProcTyped'
    <3>1. CASE UNCHANGED proc
      BY <3>1, RestGoesOn DEF ProcTyped
    <3>2. CASE ~UNCHANGED proc
      <4>1. /\ Owners # {} /\ proc[Tracked].at \notin {"exited", "gone"}
            /\ Moves(Tracked, "ending")
        BY <1>3, <3>2 DEF Stop
      <4>2. Tracked \in Procs /\ proc[Tracked].at # "unborn"
        BY <4>1, TrackedIs DEF Owners, OwnersTrue
      <4> QED  BY <4>1, <4>2, MovesGoOn DEF Left, Stages, ProcSteps
    <3> QED  BY <3>1, <3>2
  <2>2. MapTyped' /\ \A p \in Procs : map'[p] = map[p] \/ map'[p] = "none"
    BY <1>3 DEF Stop, MapTyped
  <2>3. Owners' \subseteq Owners
    BY <2>2, FewerOwners
  <2>4. DiskTyped' /\ disk'.job = disk.job
    BY <1>3, ConstantsAssumption DEF Stop, Forgets, DiskTyped, Nobody
  <2>5. WatchTyped' /\ CountsTyped'
    BY <1>3, <2>4, PressTyped DEF Stop, WatchTyped, CountsTyped
  <2>6. TypeOK'
    BY <1>3, <2>1, <2>2, <2>3, <2>4, <2>5 DEF Stop, DaemonTyped, ObjectsTyped,
      ServerTyped, CallTyped, FlightTyped, RecoveryTyped, DownTyped, Answering
  <2>7. MemoryTrue'
    BY <1>3 DEF Stop, MemoryTrue, Answering
  <2> QED  BY <1>3, <2>1, <2>3, <2>4, <2>6, <2>7, OwnersKept, JobKept DEF BaseStep, Stop
<1> QED  BY <1>1, <1>2, <1>3 DEF App

\* A process that is not found is followed by the search for the conversation.
LEMMA OrphansTyped ==
  ASSUME TypeOK, NEW c \in Callers, HearsOrphans(c)
  PROVE  /\ CallTyped'
         /\ \A d \in Callers \ {c} : call'[d] = call[d]
         /\ \/ call'[c].at \in {"confirms", "failed"}
            \/ \E seen \in Listings(c) :
                 /\ call[c].host \notin seen
                 /\ call'[c] = [at |-> "provider", host |-> Nobody, seen |-> Alive,
                                knows |-> Knows(finished)]
<1> USE TypeIs
<1>1. CASE Answer(c, "confirms")
  BY <1>1, AnswerTyped
<1>2. ASSUME NEW seen \in Listings(c), call[c].host \notin seen,
             call' = [call EXCEPT ![c] =
               [at |-> "provider", host |-> Nobody, seen |-> Alive,
                knows |-> Knows(finished)]]
      PROVE  /\ CallTyped'
             /\ \A d \in Callers \ {c} : call'[d] = call[d]
             /\ call'[c] = [at |-> "provider", host |-> Nobody, seen |-> Alive,
                            knows |-> Knows(finished)]
  <2>1. Knows(finished) \in BOOLEAN
    <3>1. finished # Nothing => finished \in 0..MaxProcs
      BY ConstantsAssumption DEF ObjectsTyped, Nothing
    <3> QED  BY <3>1 DEF Knows, ObjectsTyped, Kept
  <2>2. Nobody \in 0..MaxProcs /\ Alive \in SUBSET Procs
    BY ConstantsAssumption DEF Nobody, Alive
  <2>3. [at |-> "provider", host |-> Nobody, seen |-> Alive, knows |-> Knows(finished)]
          \in CallSet
    BY <2>1, <2>2 DEF CallSet
  <2> QED  BY <1>2, <2>3 DEF CallTyped
<1>3. CASE Answer(c, "failed")
  BY <1>3, AnswerTyped
<1> QED  BY <1>1, <1>2, <1>3 DEF HearsOrphans
\* A conversation that is not found is launched, or a launch is joined.
LEMMA ConversationsTyped ==
  ASSUME TypeOK, NEW c \in Callers, HearsConversations(c)
  PROVE  /\ CallTyped' /\ FlightTyped'
         /\ \A d \in Callers \ {c} : call'[d] = call[d]
         /\ \/ flight' = flight /\ call'[c].at \in {"confirms", "failed"}
            \/ /\ \E seen \in Listings(c) : ~ConversationRuns(c, seen)
               /\ call'[c].at \in {"joined", "failed"}
<1> USE TypeIs
<1>1. CASE Answer(c, "confirms") /\ UNCHANGED flight
  BY <1>1, AnswerTyped DEF FlightTyped
<1>2. CASE Answer(c, "failed") /\ UNCHANGED flight
  BY <1>2, AnswerTyped DEF FlightTyped
<1>3. CASE /\ \E seen \in Listings(c) : ~ConversationRuns(c, seen)
           /\ Answer(c, "joined")
           /\ \/ UNCHANGED flight
              \/ /\ Tracked # Nothing
                 /\ flight' = [at |-> IF Knows(Tracked) THEN "launches" ELSE "fetches",
                               by |-> c, of |-> Tracked, pid |-> Nobody]
  <2>1. Tracked \in Nothing..MaxProcs /\ Nobody \in 0..MaxProcs
    BY TrackedIs, ConstantsAssumption DEF Nobody
  <2>2. FlightTyped'
    BY <1>3, <2>1 DEF FlightTyped
  <2> QED  BY <1>3, <2>2, AnswerTyped
<1> QED  BY <1>1, <1>2, <1>3 DEF HearsConversations

LEMMA BaseCalls ==
  ASSUME BaseInv, NEW c \in Callers,
         HearsOrphans(c) \/ HearsConversations(c) \/ Confirms(c), UNCHANGED ownerVars
  PROVE  BaseStep
<1> USE TypeIs, TypeNext DEF BaseInv
<1>1. /\ UNCHANGED <<proc, daemon, map, meta, finished, disk, server>>
      /\ call[c].at # "none" /\ (faults' = faults \/ Fault)
  BY DEF HearsOrphans, HearsConversations, Confirms
<1>2. CallTyped' /\ FlightTyped'
  <2>1. CASE HearsOrphans(c)
    BY <2>1, OrphansTyped DEF HearsOrphans, FlightTyped
  <2>2. CASE HearsConversations(c)
    BY <2>2, ConversationsTyped
  <2>3. CASE Confirms(c)
    BY <2>3, AnswerTyped DEF Confirms, FlightTyped
  <2> QED  BY <2>1, <2>2, <2>3
<1>3. ProcSteps /\ Owners' = Owners
  BY <1>1, RestGoesOn DEF Owners, Reported
<1>4. CountsTyped'
  BY <1>1, FaultTyped DEF CountsTyped, ownerVars
<1>5. TypeOK'
  BY <1>1, <1>2, <1>3, <1>4 DEF ownerVars, ProcTyped, DaemonTyped, MapTyped, ObjectsTyped,
    DiskTyped, ServerTyped, WatchTyped, RecoveryTyped, DownTyped
<1>6. daemon.phase # "down"
  BY <1>1 DEF MemoryTrue, NoCall
<1>7. MemoryTrue'
  BY <1>1, <1>6 DEF MemoryTrue, ownerVars
<1> QED  BY <1>1, <1>3, <1>5, <1>7, OwnersKept, JobKept DEF BaseStep, ownerVars

LEMMA BaseFlight ==
  ASSUME BaseInv, Fetches \/ LaunchFails, UNCHANGED ownerVars
  PROVE  BaseStep
<1> USE TypeIs, TypeNext DEF BaseInv
<1>1. /\ UNCHANGED <<proc, daemon, map, finished, disk, server>>
      /\ flight.at # "none" /\ (faults' = faults \/ Fault)
  BY DEF Fetches, LaunchFails
<1>2. CallTyped' /\ FlightTyped' /\ ObjectsTyped'
  <2>1. CASE Fetches
    BY <2>1, TrackedIs DEF Fetches, CallTyped, FlightTyped, ObjectsTyped, Kept
  <2>2. CASE LaunchFails
    BY <2>2, LandsTyped DEF LaunchFails, ObjectsTyped
  <2> QED  BY <2>1, <2>2
<1>3. ProcSteps /\ Owners' = Owners
  BY <1>1, RestGoesOn DEF Owners, Reported
<1>4. CountsTyped'
  BY <1>1, FaultTyped DEF CountsTyped, ownerVars
<1>5. TypeOK'
  BY <1>1, <1>2, <1>3, <1>4 DEF ownerVars, ProcTyped, DaemonTyped, MapTyped,
    DiskTyped, ServerTyped, WatchTyped, RecoveryTyped, DownTyped
<1>6. daemon.phase # "down"
  BY <1>1 DEF MemoryTrue, NoFlight
<1>7. MemoryTrue'
  BY <1>1, <1>6 DEF MemoryTrue, ownerVars
<1> QED  BY <1>1, <1>3, <1>5, <1>7, OwnersKept, JobKept DEF BaseStep, ownerVars

LEMMA BaseLaunch ==
  ASSUME BaseInv, LaunchesResume
  PROVE  BaseStep
<1> USE TypeIs, TypeNext DEF BaseInv
<1>1. /\ UNCHANGED <<daemon, meta, finished, disk, server, faults, ownerVars>>
      /\ flight.at = "launches"
  BY DEF LaunchesResume, Launches
<1>2. ASSUME Lands("failed"), UNCHANGED <<proc, map>>
      PROVE  /\ ProcSteps /\ ProcTyped' /\ MapTyped' /\ Owners' \subseteq Owners
             /\ CallTyped' /\ FlightTyped'
  <2>1. CallTyped' /\ FlightTyped'
    BY <1>2, LandsTyped
  <2>2. ProcSteps /\ ProcTyped' /\ MapTyped' /\ Owners' = Owners
    BY <1>2, RestGoesOn DEF Owners, Reported, ProcTyped, MapTyped
  <2> QED  BY <2>1, <2>2
<1>3. ASSUME NEW p \in Procs, proc[p].at = "unborn", CanStart,
             proc' = [proc EXCEPT ![p] =
               [at |-> "starts", home |-> daemon.number, told |-> 0,
                named |-> TRUE, cursor |-> flight.by = "refresh"]],
             map' = [map EXCEPT ![p] = "spawned"],
             flight' = [flight EXCEPT !.at = "waits", !.of = Nothing, !.pid = p],
             UNCHANGED call
      PROVE  /\ ProcSteps /\ ProcTyped' /\ MapTyped' /\ Owners' \subseteq Owners
             /\ CallTyped' /\ FlightTyped'
  <2>1. [at |-> "starts", home |-> daemon.number, told |-> 0,
         named |-> TRUE, cursor |-> flight.by = "refresh"] \in ProcSet
    BY ConstantsAssumption DEF ProcSet, DaemonTyped, Stages
  <2>2. ProcTyped' /\ Begins(p) /\ \A q \in Procs \ {p} : proc'[q] = proc[q]
    BY <1>1, <1>3, <2>1 DEF ProcTyped, Begins
  <2>3. ProcSteps
    BY <2>2 DEF ProcSteps, GoesOn
  <2>4. MapTyped' /\ Owners' \subseteq Owners
    BY <1>3, FewerOwners DEF MapTyped
  <2>5. CallTyped' /\ FlightTyped'
    <3>1. Nothing \in Nothing..MaxProcs /\ p \in 0..MaxProcs
      BY ConstantsAssumption DEF Nothing, Procs
    <3> QED  BY <1>3, <3>1 DEF CallTyped, FlightTyped
  <2> QED  BY <2>2, <2>3, <2>4, <2>5
<1>4. /\ ProcSteps /\ ProcTyped' /\ MapTyped' /\ Owners' \subseteq Owners
      /\ CallTyped' /\ FlightTyped'
  BY <1>2, <1>3 DEF LaunchesResume, Launches
<1>5. daemon.phase # "down"
  BY <1>1 DEF MemoryTrue, NoFlight
<1>6. TypeOK'
  BY <1>1, <1>4, <1>5 DEF ownerVars, DaemonTyped, ObjectsTyped,
    DiskTyped, ServerTyped, WatchTyped, RecoveryTyped, CountsTyped, DownTyped
<1>7. MemoryTrue'
  BY <1>1, <1>5 DEF MemoryTrue, ownerVars
<1> QED  BY <1>1, <1>4, <1>6, <1>7, OwnersKept, JobKept DEF BaseStep, ownerVars

\* A watch that ends leaves its job in a state that is not waited for.
LEMMA WatchEndsTyped ==
  ASSUME BaseInv, watch.at # "none", JobFails \/ WatchEnds(NoJob)
         \/ WatchEnds([disk.job EXCEPT !.state = "late"])
  PROVE  /\ DiskTyped' /\ WatchTyped'
         /\ disk'.host = disk.host /\ disk'.journal = disk.journal
         /\ watch'.at # "fetches"
         /\ disk'.job.state # "none" =>
              disk'.job.pid = disk.job.pid /\ disk.job.state # "none"
<1> USE TypeIs DEF BaseInv
<1>1. watch' = NoWatch /\ NoWatch.at = "none"
  BY DEF JobFails, WatchEnds, NoWatch
<1>2. WatchTyped'
  <2>1. Nothing \in Nothing..MaxProcs
    BY ConstantsAssumption DEF Nothing
  <2> QED  BY <1>1, <2>1 DEF WatchTyped, NoWatch
<1>3. PICK job \in {NoJob, [disk.job EXCEPT !.state = "error"],
                    [disk.job EXCEPT !.state = "late"]} :
        disk' = [disk EXCEPT !.job = job]
  BY DEF JobFails, WatchEnds
<1>4. disk.job \in JobSet /\ disk.job.state = "waiting"
  BY DEF DiskTyped, WatchTyped
<1>5. /\ job \in JobSet
      /\ job.state # "none" => job.pid = disk.job.pid
  <2>1. NoJob \in JobSet
    BY ConstantsAssumption DEF NoJob, JobSet, Nobody
  <2> QED  BY <1>4, <2>1 DEF JobSet, NoJob
<1>6. disk' \in [host : Procs, journal : 0..MaxProcs, job : JobSet] /\ disk'.job = job
      /\ disk'.host = disk.host /\ disk'.journal = disk.journal
  BY <1>3, <1>5 DEF DiskTyped
<1> QED  BY <1>1, <1>2, <1>4, <1>5, <1>6 DEF DiskTyped

LEMMA BaseWatch ==
  ASSUME BaseInv, Watching
  PROVE  BaseStep
<1> USE TypeIs, TypeNext DEF BaseInv
<1>1. /\ UNCHANGED <<proc, daemon, finished, flight, recovery, stopped, presses>>
      /\ daemon.phase # "down"
  BY DEF Watching, SeesExit, WatchTimesOut, WatchFetches, WatchResumed, LateRecovery,
    WatchUnchanged, MemoryTrue, NoWatch, Answering
<1>2. ProcSteps
  BY <1>1, RestGoesOn
<1>3. faults' \in 0..MaxFaults
  BY FaultTyped DEF Watching, SeesExit, WatchTimesOut, WatchFetches, WatchResumed,
    LateRecovery, CountsTyped
<1>4. /\ CallTyped' /\ MapTyped' /\ ObjectsTyped'
      /\ \A p \in Procs : map'[p] = map[p] \/ map'[p] = "none"
  <2>1. CASE UNCHANGED <<map, meta, call>>
    BY <1>1, <2>1 DEF CallTyped, MapTyped, ObjectsTyped
  <2>2. CASE WatchResumed
    BY <1>1, <2>2, AnswerTyped DEF WatchResumed, MapTyped, ObjectsTyped, Callers
  <2>3. CASE WatchFetches /\ ~UNCHANGED <<map, meta, call>>
    <3>1. meta' = [meta EXCEPT ![watch.of] = FromCentre] /\ StartsResume("refresh", meta')
      BY <2>3 DEF WatchFetches
    <3>2. ObjectsTyped'
      BY <1>1, <3>1, TrackedIs DEF ObjectsTyped, Kept
    <3>3. HostIn(meta', finished) \in 0..MaxProcs
      <4>1. finished # Nothing => finished \in 0..MaxProcs
        BY ConstantsAssumption DEF ObjectsTyped, Nothing
      <4> QED  BY <3>2, <4>1, ConstantsAssumption DEF HostIn, ObjectsTyped, Kept, Nobody
    <3> QED  BY <3>1, <3>2, <3>3, StartsTyped, ReapedIs DEF Callers
  <2> QED  BY <2>1, <2>2, <2>3
           DEF Watching, SeesExit, WatchTimesOut, WatchFetches, LateRecovery
<1>5. Owners' \subseteq Owners
  BY <1>4, FewerOwners
<1>6. DiskTyped' /\ WatchTyped' /\ ServerTyped' /\ JobTrue'
  <2>1. ASSUME watch.at # "none", server' = server,
               JobFails \/ WatchEnds(NoJob) \/ WatchEnds([disk.job EXCEPT !.state = "late"])
        PROVE  DiskTyped' /\ WatchTyped' /\ ServerTyped' /\ JobTrue'
    BY <1>2, <2>1, WatchEndsTyped, GoneStay DEF JobTrue, ServerTyped
  <2>2. CASE SeesExit
    <3>1. CASE watch' = [at |-> "fetches", of |-> Tracked] /\ UNCHANGED disk
      <4>1. disk.job.state = "waiting" /\ disk.job.pid \notin Alive
        BY <2>2 DEF SeesExit, WatchTyped
      <4> QED  BY <1>2, <2>2, <3>1, <4>1, TrackedIs, GoneStay
               DEF SeesExit, WatchUnchanged, JobTrue, DiskTyped, WatchTyped, ServerTyped
    <3> QED  BY <2>1, <2>2, <3>1 DEF SeesExit, WatchUnchanged
  <2>3. CASE WatchTimesOut
    BY <2>1, <2>3 DEF WatchTimesOut, WatchUnchanged
  <2>4. CASE WatchFetches
    <3>1. CASE watch' = [watch EXCEPT !.at = "resumes"] /\ UNCHANGED disk
      <4>1. watch' \in [at : {"none", "waits", "fetches", "resumes"}, of : Nothing..MaxProcs]
            /\ watch'.at = "resumes"
        BY <3>1 DEF WatchTyped
      <4> QED  BY <1>2, <2>4, <3>1, <4>1, GoneStay
               DEF WatchFetches, WatchUnchanged, JobTrue, DiskTyped, WatchTyped, ServerTyped
    <3> QED  BY <2>1, <2>4, <3>1 DEF WatchFetches, WatchUnchanged
  <2>5. CASE WatchResumed
    BY <2>1, <2>5 DEF WatchResumed, WatchUnchanged
  <2>6. CASE LateRecovery
    <3>1. disk.job.pid \in Procs /\ proc[disk.job.pid].at # "unborn"
      BY <2>6 DEF LateRecovery, JobTrue
    <3>2. /\ DiskTyped' /\ disk'.job.state = "waiting"
          /\ disk'.job.pid = disk.job.pid
      BY <2>6 DEF LateRecovery, DiskTyped, JobSet
    <3>3. WatchTyped' /\ watch'.at = "waits"
      <4>1. Nothing \in Nothing..MaxProcs
        BY ConstantsAssumption DEF Nothing
      <4>2. watch' = [at |-> "waits", of |-> Nothing]
        BY <2>6 DEF LateRecovery, NoWatch
      <4> QED  BY <3>2, <4>1, <4>2 DEF WatchTyped
    <3>4. ServerTyped'
      BY <2>6 DEF LateRecovery, WatchUnchanged, ServerTyped
    <3> QED  BY <1>2, <3>1, <3>2, <3>3, <3>4, GoneStay DEF JobTrue
  <2> QED  BY <2>2, <2>3, <2>4, <2>5, <2>6 DEF Watching
<1>7. TypeOK'
  BY <1>1, <1>3, <1>4, <1>6 DEF ProcTyped, DaemonTyped, FlightTyped, RecoveryTyped,
    CountsTyped, DownTyped
<1>8. MemoryTrue'
  BY <1>1 DEF MemoryTrue
<1> QED  BY <1>2, <1>5, <1>6, <1>7, <1>8, OwnersKept DEF BaseStep

LEMMA RetriesTyped ==
  ASSUME BaseInv, recovery.at # "none", Forgotten \/ Retries
  PROVE  RecoveryTyped' /\ (recovery'.at # "none" => recovery'.tries < MaxTries)
<1> USE TypeIs DEF BaseInv
<1>1. recovery.tries \in 0..MaxTries /\ recovery.tries < MaxTries
  BY DEF RecoveryTyped, MemoryTrue
<1>2. recovery.tries + 1 \in 0..MaxTries /\ 0 \in 0..MaxTries /\ 0 < MaxTries
      /\ 0 \in 0..MaxProcs /\ {} \in SUBSET Procs
  BY <1>1, ConstantsAssumption DEF MaxTries
<1>3. CASE Forgotten
  BY <1>2, <1>3 DEF Forgotten, NoRecovery, RecoveryTyped, Nobody
<1>4. CASE Retries
  <2>1. recovery' = [at |-> IF recovery.tries + 1 < MaxTries THEN "pending" ELSE "none",
                     tries |-> recovery.tries + 1, host |-> 0, seen |-> {}]
    BY <1>4 DEF Retries, NoRecovery, Nobody
  <2> QED  BY <1>2, <2>1 DEF RecoveryTyped
<1> QED  BY <1>3, <1>4

LEMMA BaseRecovery ==
  ASSUME BaseInv, Recovering
  PROVE  BaseStep
<1> USE TypeIs, TypeNext DEF BaseInv
<1>1. /\ UNCHANGED <<proc, daemon, finished, disk, server, flight, watch, stopped, presses>>
      /\ recovery.at # "none"
  BY DEF Recovering, LooksForLive, HearsLive, HearsMetadata, RecoveryResumed,
    RecoveryUnchanged
<1>2. ProcSteps /\ daemon.phase \notin {"booting", "down"}
  BY <1>1, RestGoesOn DEF MemoryTrue
<1>3. faults' \in 0..MaxFaults
  BY FaultTyped DEF Recovering, LooksForLive, HearsLive, HearsMetadata, RecoveryResumed,
    CountsTyped
<1>4. /\ CallTyped' /\ MapTyped' /\ ObjectsTyped'
      /\ \A p \in Procs : map'[p] = map[p] \/ map'[p] = "none"
  <2>1. CASE UNCHANGED <<map, meta, call>>
    BY <1>1, <2>1 DEF CallTyped, MapTyped, ObjectsTyped
  <2>2. CASE RecoveryResumed
    BY <1>1, <2>2, AnswerTyped DEF RecoveryResumed, MapTyped, ObjectsTyped, Callers
  <2>3. CASE LooksForLive /\ ~UNCHANGED <<map, meta, call>>
    BY <1>1, <2>3, ReapedIs DEF LooksForLive, CallTyped, MapTyped, ObjectsTyped
  <2>4. CASE HearsMetadata /\ ~UNCHANGED <<map, meta, call>>
    <3>1. meta' = [meta EXCEPT ![Tracked] = FromCentre] /\ StartsResume("recovery", meta')
      BY <2>4 DEF HearsMetadata
    <3>2. ObjectsTyped'
      BY <1>1, <3>1, TrackedIs DEF ObjectsTyped, Kept
    <3>3. HostIn(meta', finished) \in 0..MaxProcs
      <4>1. finished # Nothing => finished \in 0..MaxProcs
        BY ConstantsAssumption DEF ObjectsTyped, Nothing
      <4> QED  BY <3>2, <4>1, ConstantsAssumption DEF HostIn, ObjectsTyped, Kept, Nobody
    <3> QED  BY <3>1, <3>2, <3>3, StartsTyped, ReapedIs DEF Callers
  <2> QED  BY <2>1, <2>2, <2>3, <2>4 DEF Recovering, HearsLive
<1>5. Owners' \subseteq Owners
  BY <1>4, FewerOwners
<1>6. RecoveryTyped' /\ (recovery'.at # "none" => recovery'.tries < MaxTries)
  <2>1. CASE Forgotten \/ Retries
    BY <1>1, <2>1, RetriesTyped
  <2>2. recovery.tries \in 0..MaxTries /\ recovery.tries < MaxTries
    BY <1>1 DEF RecoveryTyped, MemoryTrue
  <2>3. CASE recovery' = [recovery EXCEPT
                 !.at = "live", !.host = HostOf(Tracked), !.seen = Alive]
    BY <2>2, <2>3, TrackedIs DEF RecoveryTyped, Alive
  <2>4. CASE recovery' = [NoRecovery EXCEPT !.at = "metadata", !.tries = recovery.tries]
    <3>1. recovery' = [at |-> "metadata", tries |-> recovery.tries, host |-> 0, seen |-> {}]
      BY <2>4 DEF NoRecovery, Nobody
    <3>2. 0 \in 0..MaxProcs /\ {} \in SUBSET Procs
      BY ConstantsAssumption
    <3> QED  BY <2>2, <3>1, <3>2 DEF RecoveryTyped
  <2>5. CASE recovery' = [recovery EXCEPT !.at = "pending"]
             \/ recovery' = [recovery EXCEPT !.at = "resumes"]
    BY <2>2, <2>5 DEF RecoveryTyped
  <2> QED  BY <2>1, <2>3, <2>4, <2>5
           DEF Recovering, LooksForLive, HearsLive, HearsMetadata, RecoveryResumed
<1>7. TypeOK'
  BY <1>1, <1>2, <1>3, <1>4, <1>6 DEF ProcTyped, DaemonTyped, DiskTyped, ServerTyped,
    FlightTyped, WatchTyped, CountsTyped, DownTyped
<1>8. MemoryTrue'
  BY <1>1, <1>2, <1>6 DEF MemoryTrue
<1> QED  BY <1>1, <1>2, <1>5, <1>7, <1>8, OwnersKept, JobKept DEF BaseStep

\* A wrapper that ends is not launched, nor does it assert.
LEMMA ExitIs ==
  ASSUME NEW p \in Procs
  PROVE  Exit(p) \in {"exited", "gone"} /\ Exit(p) \in Stages
BY DEF Exit, Stages

LEMMA TakesBackTyped ==
  ASSUME ProcTyped, ServerTyped, NEW p \in Procs, TakesBack(p),
         proc[p].at \in {"prepares", "handedOff"}
  PROVE  ProcTyped' /\ ProcSteps /\ ServerTyped' /\ proc'[p].at = "runs"
         /\ (\A q \in Procs \ {p} : proc'[q] = proc[q]) /\ server'.host = server.host
<1>1. ServerTyped' /\ server'.host = server.host
  BY DEF TakesBack, ServerTyped
<1>2. "runs" \in Stages /\ Moves(p, "runs")
  BY DEF Stages, TakesBack
<1> QED  BY <1>1, <1>2, MovesGoOn DEF Left, ProcSteps

LEMMA BaseMoves ==
  ASSUME BaseInv, NEW p \in Procs,
         \/ /\ Asserts(p) \/ GivesUp(p) \/ Publishes(p) \/ Verified(p) \/ Ends(p)
            /\ UNCHANGED ownerVars
         \/ AsksRefresh(p) \/ PrepareRefused(p) \/ Declines(p)
  PROVE  BaseStep
<1> USE TypeIs, TypeNext DEF BaseInv
<1>1. UNCHANGED <<daemon, map, meta, finished, disk, call, flight, watch, recovery, stopped>>
  BY DEF Asserts, GivesUp, Publishes, Verified, Ends, AsksRefresh, PrepareRefused, Declines,
    ownerVars
<1>2. ProcTyped' /\ ProcSteps /\ ServerTyped'
  <2>1. CASE Asserts(p)
    <3>1. PICK site \in {"asserted", "exited", "gone"} : Moves(p, site)
      BY <2>1, ExitIs DEF Asserts
    <3>2. site \in Stages
      BY DEF Stages
    <3> QED  BY <2>1, <3>1, <3>2, MovesGoOn DEF Left, Asserts, ServerTyped, ProcSteps
  <2>2. CASE GivesUp(p)
    BY <2>2, MovesGoOn DEF Left, GivesUp, ServerTyped, ProcSteps, Stages
  <2>3. CASE Publishes(p)
    <3>1. ServerTyped'
      BY <2>3 DEF Publishes, ServerTyped
    <3>2. Moves(p, "runs") /\ "runs" \in Stages /\ proc[p].at = "serves"
      BY <2>3 DEF Publishes, Stages
    <3> QED  BY <3>1, <3>2, MovesGoOn DEF Left, ProcSteps
  <2>4. CASE Verified(p)
    <3>1. ServerTyped'
      BY <2>4 DEF Verified, ServerTyped
    <3> QED  BY <2>4, <3>1, RestGoesOn DEF Verified, ProcTyped
  <2>5. CASE Ends(p)
    <3>1. proc[p].at \in {"handedOff", "ending", "serves", "runs", "prepares"}
      BY <2>5 DEF Ends, Serving
    <3> QED  BY <2>5, <3>1, ExitIs, MovesGoOn DEF Left, Ends, ServerTyped, ProcSteps
  <2>6. CASE AsksRefresh(p)
    <3>1. ServerTyped'
      BY <2>6 DEF AsksRefresh, ServerTyped
    <3>2. Moves(p, "prepares") /\ "prepares" \in Stages /\ proc[p].at = "runs"
      BY <2>6 DEF AsksRefresh, Stages
    <3> QED  BY <3>1, <3>2, MovesGoOn DEF Left, ProcSteps
  <2>7. CASE PrepareRefused(p)
    BY <2>7, TakesBackTyped DEF PrepareRefused
  <2>8. CASE Declines(p)
    BY <2>8, TakesBackTyped DEF Declines
  <2> QED  BY <2>1, <2>2, <2>3, <2>4, <2>5, <2>6, <2>7, <2>8
<1>3. faults' \in 0..MaxFaults /\ presses' \in 0..MaxPresses
  <2>1. (faults' = faults \/ Fault) /\ (presses' = presses \/ Press)
    BY DEF Asserts, GivesUp, Publishes, Verified, Ends, AsksRefresh, PrepareRefused,
      Declines, ownerVars
  <2> QED  BY <2>1, FaultTyped, PressTyped DEF CountsTyped
<1>4. TypeOK'
  BY <1>1, <1>2, <1>3 DEF DaemonTyped, MapTyped, ObjectsTyped, DiskTyped, CallTyped,
    FlightTyped, WatchTyped, RecoveryTyped, CountsTyped, DownTyped, Owners, Reported
<1>5. Owners' = Owners
  BY <1>1 DEF Owners, Reported
<1>6. MemoryTrue'
  BY <1>1 DEF MemoryTrue
<1> QED  BY <1>1, <1>2, <1>4, <1>5, <1>6, OwnersKept, JobKept DEF BaseStep

LEMMA BasePrepare ==
  ASSUME BaseInv, NEW p \in Procs, PrepareAccepted(p)
  PROVE  BaseStep
<1> USE TypeIs, TypeNext DEF BaseInv
<1>1. /\ UNCHANGED <<daemon, map, finished, call, flight, recovery, stopped, presses>>
      /\ daemon.phase # "down" /\ proc[p].at = "prepares"
  BY DEF PrepareAccepted, CanRefresh, Answering
<1>2. ProcTyped' /\ ProcSteps /\ ServerTyped' /\ faults' \in 0..MaxFaults
  <2>1. CASE Moves(p, "handedOff") /\ UNCHANGED <<server, faults>>
    <3>1. "handedOff" \in Stages
      BY DEF Stages
    <3> QED  BY <1>1, <2>1, <3>1, MovesGoOn DEF Left, ServerTyped, ProcSteps, CountsTyped
  <2>2. CASE Fault /\ TakesBack(p)
    BY <1>1, <2>2, TakesBackTyped, FaultTyped
  <2> QED  BY <2>1, <2>2 DEF PrepareAccepted
<1>3. ObjectsTyped'
  BY <1>1, TrackedIs DEF PrepareAccepted, ObjectsTyped, Kept
<1>4. DiskTyped' /\ WatchTyped' /\ JobTrue'
  <2>1. CASE watch.at # "none"
    <3>1. UNCHANGED <<disk, watch>>
      BY <2>1 DEF PrepareAccepted
    <3> QED  BY <1>2, <3>1, JobKept DEF DiskTyped, WatchTyped
  <2>2. CASE watch.at = "none"
    <3>1. /\ disk' = [disk EXCEPT !.job = [pid |-> p, state |-> "waiting"]]
          /\ watch' = [at |-> "waits", of |-> Nothing]
      BY <2>2 DEF PrepareAccepted, NoWatch
    <3>2. [pid |-> p, state |-> "waiting"] \in JobSet
      BY ConstantsAssumption DEF JobSet, Procs
    <3>3. DiskTyped' /\ disk'.job = [pid |-> p, state |-> "waiting"]
      BY <3>1, <3>2 DEF DiskTyped
    <3>4. WatchTyped' /\ watch'.at = "waits"
      <4>1. Nothing \in Nothing..MaxProcs
        BY ConstantsAssumption DEF Nothing
      <4> QED  BY <3>1, <3>3, <4>1 DEF WatchTyped
    <3>5. proc'[p].at # "unborn"
      BY <1>1, <1>2, GoneStay
    <3> QED  BY <3>3, <3>4, <3>5 DEF JobTrue
  <2> QED  BY <2>1, <2>2
<1>5. TypeOK'
  BY <1>1, <1>2, <1>3, <1>4 DEF DaemonTyped, MapTyped, CallTyped, FlightTyped,
    RecoveryTyped, CountsTyped, DownTyped, Owners, Reported
<1>6. Owners' = Owners
  BY <1>1 DEF Owners, Reported
<1>7. MemoryTrue'
  BY <1>1 DEF MemoryTrue
<1> QED  BY <1>2, <1>4, <1>5, <1>6, <1>7, OwnersKept DEF BaseStep

LEMMA BaseReports ==
  ASSUME BaseInv, NEW p \in Procs, ReportsItself(p)
  PROVE  BaseStep
<1> USE TypeIs, TypeNext DEF BaseInv
<1>1. /\ UNCHANGED <<daemon, finished, server, faults, watch, recovery, presses>>
      /\ daemon.phase # "down" /\ proc[p].at = "asserted"
  BY DEF ReportsItself, Reports, Answering
<1>2. stopped' \in BOOLEAN
  BY DEF ReportsItself
<1>3. CASE MayOwn(p)
  <2>1. /\ proc' = [proc EXCEPT ![p].at = "serves", ![p].told = daemon.number]
        /\ map' = [map EXCEPT ![p] = IF @ = "spawned" THEN "child" ELSE "other"]
        /\ meta' = [meta EXCEPT ![p] = [host |-> p, knows |-> FALSE]]
        /\ disk' = [disk EXCEPT !.host = p, !.journal = p]
        /\ Lands("ok") \/ UNCHANGED <<call, flight>>
    BY <1>3 DEF ReportsItself, Reports
  <2>2. p \in 0..MaxProcs
    BY ConstantsAssumption DEF Procs
  <2>3. /\ ProcTyped' /\ Joins(p) /\ \A q \in Procs \ {p} : proc'[q] = proc[q]
    <3>1. daemon.number \in 0..MaxDaemons
      BY ConstantsAssumption DEF DaemonTyped
    <3>2. /\ ProcTyped' /\ proc'[p] = [proc[p] EXCEPT !.at = "serves", !.told = daemon.number]
          /\ \A q \in Procs \ {p} : proc'[q] = proc[q]
      BY <2>1, <3>1 DEF ProcTyped, ProcSet, Stages
    <3>3. disk'.host = p /\ Reported(p)'
      BY <2>1 DEF DiskTyped, MapTyped, Reported
    <3> QED  BY <1>1, <1>3, <3>2, <3>3 DEF ProcTyped, ProcSet, Joins, Answering
  <2>4. ProcSteps
    BY <2>3 DEF ProcSteps, GoesOn
  <2>5. MapTyped' /\ \A q \in Procs \ {p} : map'[q] = map[q]
    BY <2>1 DEF MapTyped
  <2>6. ObjectsTyped'
    <3>1. [host |-> p, knows |-> FALSE] \in Kept
      BY <2>2 DEF Kept
    <3> QED  BY <1>1, <2>1, <3>1 DEF ObjectsTyped
  <2>7. DiskTyped' /\ disk'.job = disk.job
    BY <2>1, <2>2 DEF DiskTyped
  <2>8. CallTyped' /\ FlightTyped'
    BY <2>1, LandsTyped DEF CallTyped, FlightTyped
  <2>9. OwnersTrue'
    BY <2>3, <2>4, <2>5, GoneStay DEF OwnersTrue, Owners, Reported, Joins
  <2>10. TypeOK'
    BY <1>1, <1>2, <2>3, <2>5, <2>6, <2>7, <2>8 DEF DaemonTyped, ServerTyped, WatchTyped,
      RecoveryTyped, CountsTyped, DownTyped
  <2>11. MemoryTrue'
    BY <1>1 DEF MemoryTrue
  <2> QED  BY <1>1, <2>4, <2>7, <2>9, <2>10, <2>11, JobKept DEF BaseStep
<1>4. CASE ~MayOwn(p)
  <2>1. Moves(p, Exit(p)) /\ UNCHANGED <<map, meta, disk, call, flight>>
    BY <1>4 DEF ReportsItself, Reports
  <2>2. ProcTyped' /\ ProcSteps
    BY <1>1, <2>1, ExitIs, MovesGoOn DEF Left, ProcSteps
  <2>3. Owners' = Owners
    BY <2>1 DEF Owners, Reported
  <2>4. TypeOK'
    BY <1>1, <1>2, <2>1, <2>2, <2>3 DEF DaemonTyped, MapTyped, ObjectsTyped, DiskTyped,
      ServerTyped, CallTyped, FlightTyped, WatchTyped, RecoveryTyped, CountsTyped, DownTyped
  <2>5. MemoryTrue'
    BY <1>1 DEF MemoryTrue
  <2> QED  BY <1>1, <2>1, <2>2, <2>3, <2>4, <2>5, OwnersKept, JobKept DEF BaseStep
<1> QED  BY <1>3, <1>4

\* A daemon that goes has nothing left in memory.
LEMMA MemoryLost ==
  ASSUME BaseInv, LosesMemory, ProcTyped', ProcSteps, daemon.number < MaxDaemons,
         faults' \in 0..MaxFaults
  PROVE  BaseStep
<1> USE TypeIs, TypeNext DEF BaseInv
<1>1. /\ daemon' = [daemon EXCEPT !.phase = "down"] /\ finished' = Nothing
      /\ map' = [p \in Procs |-> "none"]
      /\ meta' = [o \in 0..MaxProcs |-> [host |-> Nobody, knows |-> FALSE]]
      /\ call' = [c \in Callers |-> NoCall] /\ flight' = NoFlight
      /\ watch' = NoWatch /\ recovery' = NoRecovery /\ stopped' = FALSE
      /\ UNCHANGED <<disk, server, presses>>
  BY DEF LosesMemory
<1>2. 0 \in 0..MaxProcs /\ {} \in SUBSET Procs /\ 0 \in 0..MaxTries
      /\ Nothing \in Nothing..MaxProcs
  BY ConstantsAssumption DEF MaxTries, Nothing
<1>3. DaemonTyped' /\ MapTyped' /\ daemon'.phase = "down" /\ daemon'.number = daemon.number
  BY <1>1 DEF DaemonTyped, MapTyped
<1>4. Owners' = {}
  BY <1>1 DEF Owners, Reported
<1>5. ObjectsTyped'
  BY <1>1, <1>2 DEF ObjectsTyped, Kept, Nobody
<1>6. CallTyped' /\ FlightTyped'
  BY <1>1, <1>2 DEF CallTyped, FlightTyped, NoCall, NoFlight, CallSet, Nobody, Callers
<1>7. WatchTyped' /\ RecoveryTyped' /\ watch'.at = "none" /\ recovery'.at = "none"
  BY <1>1, <1>2 DEF WatchTyped, RecoveryTyped, NoWatch, NoRecovery, Nobody
<1>8. TypeOK'
  BY <1>1, <1>3, <1>4, <1>5, <1>6, <1>7
     DEF DiskTyped, ServerTyped, CountsTyped, DownTyped
<1>9. OwnersTrue'
  BY <1>4 DEF OwnersTrue
<1>10. JobTrue'
  BY <1>1, <1>7, GoneStay DEF JobTrue
<1>11. MemoryTrue'
  BY <1>1, <1>3, <1>7 DEF MemoryTrue
<1> QED  BY <1>8, <1>9, <1>10, <1>11 DEF BaseStep

LEMMA BaseDown ==
  ASSUME BaseInv, Down \/ Reboots
  PROVE  BaseStep
<1> USE TypeIs DEF BaseInv
<1>1. /\ LosesMemory /\ daemon.number < MaxDaemons /\ (faults' = faults \/ Fault)
      /\ \A p \in Procs : \/ proc'[p] = proc[p]
                          \/ p \in Alive /\ proc'[p] = [proc[p] EXCEPT !.at = "gone"]
      /\ DOMAIN proc' = Procs /\ proc' = [p \in Procs |-> proc'[p]]
  BY DEF Down, Reboots, Alive
<1>2. ProcTyped'
  BY <1>1 DEF ProcTyped, ProcSet, Stages
<1>3. ASSUME NEW p \in Procs  PROVE GoesOn(p)
  BY <1>1 DEF Left, ProcTyped, ProcSet, GoesOn, Alive
<1>4. faults' \in 0..MaxFaults
  BY <1>1, FaultTyped DEF CountsTyped
<1> QED  BY <1>1, <1>2, <1>3, <1>4, MemoryLost DEF ProcSteps

LEMMA BaseBoots ==
  ASSUME BaseInv, Boots
  PROVE  BaseStep
<1> USE TypeIs, TypeNext DEF BaseInv
<1>1. /\ UNCHANGED <<proc, map, disk, server, call, flight, faults, recovery, stopped, presses>>
      /\ daemon.phase = "down" /\ finished' = 0
      /\ daemon' = [number |-> daemon.number + 1, phase |-> "booting"]
      /\ meta' = [meta EXCEPT ![0] = [host |-> disk.host, knows |-> FALSE]]
      /\ watch' = [at |-> IF disk.job.state = "waiting" THEN "waits" ELSE "none",
                   of |-> Nothing]
  BY DEF Boots, NoWatch
<1>2. DaemonTyped' /\ daemon'.phase = "booting"
  <2>1. daemon.number \in 1..MaxDaemons /\ daemon.number < MaxDaemons
    BY <1>1 DEF DaemonTyped, MemoryTrue
  <2>2. daemon.number + 1 \in 1..MaxDaemons
    BY <2>1, ConstantsAssumption
  <2> QED  BY <1>1, <2>2 DEF DaemonTyped
<1>3. 0 \in 0..MaxProcs /\ 0 \in Nothing..MaxProcs /\ Nothing \in Nothing..MaxProcs
      /\ disk.host \in 0..MaxProcs
  BY ConstantsAssumption DEF Nothing, DiskTyped, Procs
<1>4. ObjectsTyped'
  <2>1. [host |-> disk.host, knows |-> FALSE] \in Kept
    BY <1>3 DEF Kept
  <2> QED  BY <1>1, <1>3, <2>1 DEF ObjectsTyped
<1>5. WatchTyped' /\ watch'.at # "fetches"
  BY <1>1, <1>3 DEF WatchTyped
<1>6. Owners' = Owners /\ ProcSteps
  BY <1>1, RestGoesOn DEF Owners, Reported
<1>7. TypeOK'
  BY <1>1, <1>2, <1>4, <1>5 DEF ProcTyped, MapTyped, DiskTyped, ServerTyped, CallTyped,
    FlightTyped, RecoveryTyped, CountsTyped, DownTyped
<1>8. JobTrue'
  BY <1>1, <1>5, <1>6, GoneStay DEF JobTrue
<1>9. MemoryTrue'
  BY <1>1, <1>2 DEF MemoryTrue
<1> QED  BY <1>6, <1>7, <1>8, <1>9, OwnersKept DEF BaseStep

\* A daemon adopts a wrapper that is alive, and the record of it.
LEMMA AdoptsTyped ==
  ASSUME BaseInv, Adopts
  PROVE  /\ UNCHANGED <<proc, finished, server, call, flight, watch, presses>>
         /\ daemon' = [daemon EXCEPT !.phase = "up"] /\ daemon.phase = "booting"
         /\ MapTyped' /\ ObjectsTyped' /\ DiskTyped' /\ CountsTyped' /\ RecoveryTyped'
         /\ disk'.job = disk.job /\ disk'.host = disk.host
         /\ recovery'.at # "none" => recovery'.tries = 0 /\ disk'.journal # Nobody
         /\ \/ UNCHANGED <<map, meta, disk, stopped>>
            \/ map' = Reaped /\ UNCHANGED <<meta, disk, stopped>>
            \/ /\ LiveOwners = {} /\ HostOf(finished) \in Alive /\ ~stopped'
               /\ map' = [Reaped EXCEPT ![HostOf(finished)] = "other"]
               /\ meta' = [meta EXCEPT ![HostOf(finished)] = meta[finished]]
<1> USE TypeIs DEF BaseInv
<1> DEFINE h == HostOf(finished)
           adopted == LiveOwners = {} /\ h \in Alive
<1>1. /\ UNCHANGED <<proc, finished, server, call, flight, watch, presses>>
      /\ daemon' = [daemon EXCEPT !.phase = "up"] /\ daemon.phase = "booting"
      /\ recovery' = [at |-> IF disk'.journal # Nobody THEN "pending" ELSE "none",
                      tries |-> 0, host |-> 0, seen |-> {}]
  BY DEF Adopts, NoRecovery, Nobody
<1>2. \/ /\ map' = IF adopted THEN [Reaped EXCEPT ![h] = "other"] ELSE Reaped
         /\ meta' = IF adopted THEN [meta EXCEPT ![h] = meta[finished]] ELSE meta
         /\ disk' = IF adopted THEN [disk EXCEPT !.journal = h] ELSE disk
         /\ stopped' = (stopped /\ ~adopted) /\ UNCHANGED faults
      \/ Fault /\ UNCHANGED <<map, meta, disk, stopped>>
  BY DEF Adopts
<1>3. h \in 0..MaxProcs /\ (adopted => h \in Procs /\ finished \in 0..MaxProcs)
  <2>1. h \in 0..MaxProcs
    BY TrackedIs
  <2>2. adopted => h \in Procs
    BY DEF Alive
  <2>3. h \in Procs => finished # Nothing
    BY ConstantsAssumption DEF HostOf, HostIn, Nobody, Procs
  <2>4. finished # Nothing => finished \in 0..MaxProcs
    BY ConstantsAssumption DEF ObjectsTyped, Nothing
  <2> QED  BY <2>1, <2>2, <2>3, <2>4
<1> HIDE DEF h
<1>4. CountsTyped'
  <2>1. faults' \in 0..MaxFaults
    BY <1>2, FaultTyped DEF CountsTyped
  <2>2. stopped' \in BOOLEAN
    BY <1>2 DEF CountsTyped
  <2> QED  BY <1>1, <2>1, <2>2 DEF CountsTyped
<1>5. CASE map' \in {map, Reaped} /\ UNCHANGED <<meta, disk, stopped>>
  <2>1. /\ MapTyped' /\ ObjectsTyped' /\ DiskTyped'
        /\ disk'.job = disk.job /\ disk'.host = disk.host
    BY <1>1, <1>5, ReapedIs DEF MapTyped, ObjectsTyped, DiskTyped
  <2>2. /\ RecoveryTyped'
        /\ recovery'.at # "none" => recovery'.tries = 0 /\ disk'.journal # Nobody
    BY <1>1, ConstantsAssumption DEF RecoveryTyped, MaxTries
  <2> QED  BY <1>1, <1>4, <1>5, <2>1, <2>2
<1>6. CASE /\ adopted /\ map' = [Reaped EXCEPT ![h] = "other"]
           /\ meta' = [meta EXCEPT ![h] = meta[finished]]
           /\ disk' = [disk EXCEPT !.journal = h] /\ stopped' = (stopped /\ ~adopted)
  <2>1. MapTyped'
    BY <1>3, <1>6, ReapedIs DEF MapTyped
  <2>2. ObjectsTyped'
    BY <1>1, <1>3, <1>6 DEF ObjectsTyped
  <2>3. DiskTyped' /\ disk'.job = disk.job /\ disk'.host = disk.host
    BY <1>3, <1>6 DEF DiskTyped
  <2>4. /\ RecoveryTyped'
        /\ recovery'.at # "none" => recovery'.tries = 0 /\ disk'.journal # Nobody
    BY <1>1, ConstantsAssumption DEF RecoveryTyped, MaxTries
  <2>5. /\ LiveOwners = {} /\ HostOf(finished) \in Alive /\ ~stopped'
        /\ map' = [Reaped EXCEPT ![HostOf(finished)] = "other"]
        /\ meta' = [meta EXCEPT ![HostOf(finished)] = meta[finished]]
    BY <1>6 DEF h
  <2> QED  BY <1>1, <1>4, <2>1, <2>2, <2>3, <2>4, <2>5
<1>7. CASE ~adopted
  <2>1. stopped \in BOOLEAN
    BY DEF CountsTyped
  <2>2. stopped' = stopped
    BY <1>2, <1>7, <2>1
  <2> QED  BY <1>2, <1>5, <1>7, <2>2
<1> QED  BY <1>2, <1>5, <1>6, <1>7

LEMMA BaseAdopts ==
  ASSUME BaseInv, Adopts
  PROVE  BaseStep
<1> USE TypeIs, TypeNext DEF BaseInv
<1>1. ProcSteps /\ daemon'.phase = "up" /\ DaemonTyped'
  BY AdoptsTyped, RestGoesOn DEF DaemonTyped
<1>2. TypeOK'
  BY <1>1, AdoptsTyped DEF ProcTyped, ObjectsTyped, ServerTyped, CallTyped, FlightTyped,
    WatchTyped, DownTyped
<1>3. OwnersTrue'
  <2>1. CASE \A p \in Procs : map'[p] = map[p] \/ map'[p] = "none"
    BY <1>1, <2>1, FewerOwners, OwnersKept
  <2>2. CASE /\ HostOf(finished) \in Alive
             /\ map' = [Reaped EXCEPT ![HostOf(finished)] = "other"]
    <3>1. \A p \in Procs \ {HostOf(finished)} : map'[p] \in {map[p], "none"}
      BY <2>2, ReapedIs
    <3> QED  BY <2>2, <3>1, AdoptsTyped DEF OwnersTrue, Owners, Reported, Alive
  <2> QED  BY <2>1, <2>2, AdoptsTyped, ReapedIs
<1>4. JobTrue'
  BY <1>1, AdoptsTyped, JobKept
<1>5. MemoryTrue'
  BY <1>1, AdoptsTyped DEF MemoryTrue, MaxTries
<1> QED  BY <1>1, <1>2, <1>3, <1>4, <1>5 DEF BaseStep

LEMMA BaseGone ==
  ASSUME BaseInv, NEW p \in Procs, ChildExited(p) \/ Prunes(p), UNCHANGED ownerVars
  PROVE  BaseStep
<1> USE TypeIs, TypeNext DEF BaseInv
<1>1. /\ UNCHANGED <<daemon, meta, server, faults, ownerVars>>
      /\ map' = [map EXCEPT ![p] = "none"]
      /\ disk' = [disk EXCEPT !.journal = JournalWithout(p)] \/ disk' = disk
      /\ finished' \in {p, finished}
  BY DEF ChildExited, Prunes
<1>2. ProcTyped' /\ ProcSteps
  <2>1. CASE ChildExited(p)
    <3>1. "gone" \in Stages
      BY DEF Stages
    <3> QED  BY <2>1, <3>1, MovesGoOn DEF Left, ChildExited, ProcSteps
  <2>2. CASE Prunes(p)
    BY <2>2, RestGoesOn DEF Prunes, ProcTyped
  <2> QED  BY <2>1, <2>2
<1>3. CallTyped' /\ FlightTyped'
  <2>1. Lands("failed") \/ UNCHANGED <<call, flight>>
    BY DEF ChildExited, Prunes
  <2> QED  BY <2>1, LandsTyped DEF CallTyped, FlightTyped
<1>4. MapTyped' /\ Owners' \subseteq Owners
  BY <1>1, FewerOwners DEF MapTyped
<1>5. DiskTyped' /\ disk'.job = disk.job
  <2>1. JournalWithout(p) \in 0..MaxProcs
    BY ConstantsAssumption DEF JournalWithout, DiskTyped, Nobody
  <2> QED  BY <1>1, <2>1 DEF DiskTyped
<1>6. ObjectsTyped'
  <2>1. p \in Nothing..MaxProcs
    BY ConstantsAssumption DEF Procs, Nothing
  <2> QED  BY <1>1, <2>1 DEF ObjectsTyped
<1>7. daemon.phase = "down" => finished' = finished /\ UNCHANGED <<call, flight>>
  <2>1. CASE Prunes(p)
    BY <2>1 DEF Prunes
  <2>2. CASE ChildExited(p) /\ daemon.phase = "down"
    <3>1. ~Reported(p) /\ flight.pid # p
      BY <2>2, ConstantsAssumption DEF MemoryTrue, Reported, NoFlight, Nobody, Procs
    <3> QED  BY <2>2, <3>1 DEF ChildExited
  <2> QED  BY <2>1, <2>2
<1>8. TypeOK'
  BY <1>1, <1>2, <1>3, <1>4, <1>5, <1>6, <1>7 DEF DaemonTyped, ServerTyped, WatchTyped,
    RecoveryTyped, CountsTyped, DownTyped, ownerVars
<1>9. MemoryTrue'
  BY <1>1, <1>7 DEF MemoryTrue, ownerVars
<1> QED  BY <1>1, <1>2, <1>4, <1>5, <1>8, <1>9, OwnersKept, JobKept DEF BaseStep, ownerVars

LEMMA BaseCloses ==
  ASSUME BaseInv, Closes
  PROVE  BaseStep
<1> USE TypeIs, TypeNext DEF BaseInv
<1>1. /\ UNCHANGED <<proc, map, meta, finished, disk, server, call, flight, faults, ownerVars>>
      /\ daemon' = [daemon EXCEPT !.phase = "closing"]
      /\ daemon.phase \in {"booting", "up"} /\ daemon.number < MaxDaemons
  BY DEF Closes
<1>2. DaemonTyped' /\ daemon'.phase = "closing" /\ daemon'.number = daemon.number
  BY <1>1 DEF DaemonTyped
<1>3. ProcSteps /\ Owners' = Owners
  BY <1>1, RestGoesOn DEF Owners, Reported
<1>4. TypeOK'
  BY <1>1, <1>2 DEF ProcTyped, MapTyped, ObjectsTyped, DiskTyped, ServerTyped, CallTyped,
    FlightTyped, WatchTyped, RecoveryTyped, CountsTyped, DownTyped, ownerVars
<1>5. MemoryTrue'
  BY <1>1, <1>2 DEF MemoryTrue, ownerVars
<1> QED  BY <1>1, <1>3, <1>4, <1>5, OwnersKept, JobKept DEF BaseStep, ownerVars

LEMMA BaseNext ==
  ASSUME BaseInv, [Next]_vars
  PROVE  BaseStep
<1>1. CASE Daemon
  BY <1>1, BaseCloses, BaseDown, BaseBoots, BaseAdopts, BaseGone DEF Daemon
<1>2. CASE Resuming
  BY <1>2, BaseCalls, BaseFlight DEF Resuming
<1>3. ASSUME NEW p \in Procs, Wrapper(p)  PROVE BaseStep
  BY <1>3, BaseMoves, BasePrepare, BaseReports DEF Wrapper
<1>4. CASE UNCHANGED vars
  <2>1. TypeOK'
    BY <1>4, TypeIs, TypeNext DEF vars, procVars, ownerVars, BaseInv, ProcTyped,
      DaemonTyped, MapTyped, ObjectsTyped, DiskTyped, ServerTyped, CallTyped, FlightTyped,
      WatchTyped, RecoveryTyped, CountsTyped, DownTyped, Owners, Reported
  <2>2. ProcSteps /\ Owners' = Owners
    BY <1>4, RestGoesOn DEF vars, procVars, Owners, Reported
  <2>3. OwnersTrue' /\ JobTrue'
    BY <1>4, <2>2, OwnersKept, JobKept DEF vars, procVars, ownerVars, BaseInv
  <2>4. MemoryTrue'
    BY <1>4 DEF vars, procVars, ownerVars, BaseInv, MemoryTrue
  <2> QED  BY <2>1, <2>2, <2>3, <2>4 DEF BaseStep
<1> QED  BY <1>1, <1>2, <1>3, <1>4, BaseApp, BaseLaunch, BaseWatch, BaseRecovery DEF Next

\* Daemons are numbered as they come.
LEMMA DaemonGrows ==
  ASSUME BaseInv, [Next]_vars
  PROVE  /\ \/ daemon'.number = daemon.number
            \/ Boots /\ daemon'.number = daemon.number + 1
         /\ daemon.phase = "down" => Boots \/ daemon'.phase = "down"
<1>1. daemon.number \in 1..MaxDaemons /\ DaemonTyped
  BY TypeIs DEF BaseInv, DaemonTyped
<1>2. CASE Daemon
  BY <1>1, <1>2 DEF Daemon, Closes, Down, Reboots, LosesMemory, Boots, Adopts, ChildExited,
    Prunes, DaemonTyped
<1>3. CASE UNCHANGED daemon
  BY <1>3
<1> QED  BY <1>2, <1>3 DEF Next, vars, procVars, App, PressesResume, IsAnswered, Stop,
  Resuming, HearsOrphans, HearsConversations, Confirms, Fetches, LaunchFails,
  LaunchesResume, Launches, Watching, SeesExit, WatchTimesOut, WatchFetches, WatchResumed,
  LateRecovery, WatchUnchanged, Recovering, LooksForLive, HearsLive, HearsMetadata,
  RecoveryResumed, RecoveryUnchanged, Wrapper, Asserts, GivesUp, Publishes, Verified, Ends,
  ReportsItself, Reports, AsksRefresh, PrepareAccepted, PrepareRefused, Declines

LEMMA ProcsStay ==
  ASSUME BaseInv, [Next]_vars
  PROVE  ProcsTrue'
<1> USE TypeIs DEF BaseInv
<1>1. ProcSteps
  BY BaseNext DEF BaseStep
<1>2. /\ daemon.number \in Nat /\ daemon'.number \in Nat /\ daemon.number <= daemon'.number
      /\ \A p \in Procs : proc[p].home \in Nat
  BY DaemonGrows, ConstantsAssumption DEF DaemonTyped, ProcTyped, ProcSet
<1>3. ASSUME NEW p \in Procs  PROVE ProcTrue(p)'
  <2>1. ProcTrue(p)
    BY DEF ProcsTrue
  <2>2. CASE GoesOn(p)
    BY <1>2, <2>1, <2>2 DEF GoesOn, ProcTrue
  <2>3. CASE Begins(p)
    BY <1>2, <2>1, <2>3 DEF Begins, ProcTrue
  <2>4. CASE Joins(p)
    BY <1>2, <2>1, <2>4 DEF Joins, ProcTrue
  <2> QED  BY <1>1, <2>2, <2>3, <2>4 DEF ProcSteps
<1> QED  BY <1>3 DEF ProcsTrue

LEMMA BaseInitially == Init => BaseInv
<1> SUFFICES ASSUME Init PROVE BaseInv
  OBVIOUS
<1> USE ConstantsAssumption, PressesAssumption DEF Init, ProcsInit
<1>1. /\ 0 \in 0..MaxProcs /\ 1 \in Procs /\ 1 \in 0..MaxProcs
      /\ {} \in SUBSET Procs /\ 0 \in 0..MaxTries
      /\ Nothing \in Nothing..MaxProcs /\ 0 \in 0..MaxFaults /\ 0 \in 0..MaxPresses
      /\ 1 \in 1..MaxDaemons /\ 0 \in 0..MaxDaemons /\ 1 \in 0..MaxDaemons
  BY DEF Procs, MaxTries, Nothing
<1>2. ProcTyped /\ DaemonTyped /\ MapTyped
  BY <1>1 DEF ProcTyped, ProcSet, DaemonTyped, MapTyped, Stages
<1>3. ObjectsTyped /\ DiskTyped /\ ServerTyped
  BY <1>1 DEF ObjectsTyped, Kept, DiskTyped, JobSet, ServerTyped, NoJob, Nobody
<1>4. CallTyped /\ FlightTyped
  BY <1>1 DEF CallTyped, CallSet, FlightTyped, NoCall, NoFlight, Nobody, Callers
<1>5. WatchTyped /\ RecoveryTyped /\ CountsTyped /\ DownTyped
  BY <1>1 DEF WatchTyped, RecoveryTyped, CountsTyped, DownTyped, NoWatch, NoRecovery, Nobody
<1>6. TypeOK
  BY <1>2, <1>3, <1>4, <1>5, TypeIs
<1>7. ProcsTrue /\ OwnersTrue
  BY <1>1 DEF ProcsTrue, ProcTrue, OwnersTrue, Owners, Reported
<1>8. JobTrue /\ MemoryTrue
  BY DEF JobTrue, MemoryTrue, NoJob, NoWatch, NoRecovery
<1> QED  BY <1>6, <1>7, <1>8 DEF BaseInv

LEMMA BaseAlways == Spec => []BaseInv
<1>1. BaseInv /\ [Next]_vars => BaseInv'
  BY BaseNext, ProcsStay DEF BaseInv, BaseStep
<1> QED  BY <1>1, BaseInitially, PTL DEF Spec

\* The types hold: what is on record of a session that is down, of a job that
\* is watched and of the session while no daemon runs is as the code has it.
THEOREM TypeCorrect == Spec => []TypeOK
BY BaseAlways, PTL DEF BaseInv

-----------------------------------------------------------------------------
(* A session that was stopped is not launched for the recovery.            *)

\* The journal has forgotten a session that was stopped and not served since.
Forgot == stopped => disk.journal = Nobody

LEMMA ForgotKept ==
  ASSUME BaseInv, Forgot, [Next]_vars
  PROVE  Forgot'
<1> USE TypeIs DEF BaseInv
<1>1. CASE App
  <2>1. CASE Stop
    BY <2>1 DEF Stop, Forgets, Forgot, DiskTyped
  <2> QED  BY <1>1, <2>1 DEF App, PressesResume, IsAnswered, ownerVars, Forgot
<1>2. CASE Daemon
  <2>1. CASE Adopts
    BY <2>1, AdoptsTyped DEF Forgot
  <2>2. ASSUME NEW p \in Procs, ChildExited(p) \/ Prunes(p), UNCHANGED ownerVars
        PROVE  Forgot'
    <3>1. disk'.journal \in {Nobody, disk.journal} /\ stopped' = stopped
      BY <2>2 DEF ChildExited, Prunes, JournalWithout, ownerVars, DiskTyped
    <3> QED  BY <3>1 DEF Forgot
  <2> QED  BY <1>2, <2>1, <2>2 DEF Daemon, Closes, Down, Reboots, LosesMemory, Boots,
    ownerVars, Forgot
<1>3. ASSUME NEW p \in Procs, Wrapper(p)  PROVE Forgot'
  <2>1. CASE ReportsItself(p)
    <3>1. CASE MayOwn(p)
      <4>1. proc'[p].at = "serves"
        BY <2>1, <3>1 DEF ReportsItself, Reports, ProcTyped, ProcSet
      <4> QED  BY <2>1, <4>1 DEF ReportsItself, Forgot
    <3>2. CASE ~MayOwn(p)
      BY <2>1, <3>2 DEF ReportsItself, Reports, Forgot
    <3> QED  BY <3>1, <3>2
  <2>2. CASE PrepareAccepted(p)
    <3>1. disk'.journal = disk.journal /\ stopped' = stopped
      BY <2>2 DEF PrepareAccepted, DiskTyped
    <3> QED  BY <3>1 DEF Forgot
  <2> QED  BY <1>3, <2>1, <2>2 DEF Wrapper, Asserts, GivesUp, Publishes, Verified, Ends,
    AsksRefresh, PrepareRefused, Declines, ownerVars, Forgot
<1>4. CASE Watching
  <2>1. disk'.journal = disk.journal /\ stopped' = stopped
    BY <1>4 DEF Watching, SeesExit, WatchTimesOut, WatchFetches, WatchResumed, LateRecovery,
      JobFails, WatchEnds, WatchUnchanged, DiskTyped
  <2> QED  BY <2>1 DEF Forgot
<1>5. CASE UNCHANGED <<disk, stopped>>
  BY <1>5 DEF Forgot
<1> QED  BY <1>1, <1>2, <1>3, <1>4, <1>5 DEF Next, vars, procVars, ownerVars, Resuming,
  HearsOrphans, HearsConversations, Confirms, Fetches, LaunchFails, LaunchesResume,
  Launches, Recovering, LooksForLive, HearsLive, HearsMetadata, RecoveryResumed,
  RecoveryUnchanged

\* Once a stop has arrived, be it while the recovery waits and nobody is
\* tracked, the recovery launches no wrapper in that daemon's life: the stop
\* forgets the journal first, canStart reads it at the launch itself, and only
\* a wrapper that reports, or is adopted, is entered in it again.
THEOREM StoppedNotRecovered == Spec => StoppedStays
<1> DEFINE Quiet == stopped =>
             \A p \in Procs : proc[p].at = "unborn" /\ proc'[p].at = "starts"
                                => flight.by # "recovery"
<1>1. Init => Forgot
  BY DEF Init, Forgot
<1>2. BaseInv /\ Forgot /\ [Next]_vars => Forgot'
  BY ForgotKept
<1>3. BaseInv /\ Forgot /\ [Next]_vars => [Quiet]_vars
  <2> SUFFICES ASSUME BaseInv, Forgot, [Next]_vars, stopped,
                      NEW p \in Procs, proc[p].at = "unborn", proc'[p].at = "starts"
               PROVE  flight.by # "recovery"
    OBVIOUS
  <2>1. Begins(p)
    BY BaseNext DEF BaseStep, ProcSteps, GoesOn, Joins
  <2> QED  BY <2>1 DEF Begins, CanStart, Forgot
<1> QED  BY <1>1, <1>2, <1>3, BaseAlways, PTL DEF Spec, StoppedStays

-----------------------------------------------------------------------------
(* What a step does to the owners and to the records of them.              *)

\* The wrappers that serve the session, or may do so again, and reported
Holders == {p \in Procs : /\ proc[p].at \in {"serves", "runs", "prepares", "handedOff"}
                          /\ proc[p].told # 0}

\* Only who reports comes to hold the session.
LEMMA HoldersCome ==
  ASSUME BaseInv, ProcSteps, NEW p \in Procs, p \in Holders'
  PROVE  (p \in Holders /\ GoesOn(p)) \/ Joins(p)
<1>1. ~Begins(p)
  BY DEF Holders, Begins
<1>2. CASE GoesOn(p)
  <2>1. proc[p].at \notin {"unborn", "starts", "asserted"}
    BY <1>2 DEF Holders, GoesOn, BaseInv, ProcsTrue, ProcTrue
  <2>2. proc[p].at \notin Left
    BY <1>2 DEF Holders, GoesOn, Left
  <2>3. proc[p].at \in Stages
    BY TypeIs DEF BaseInv, ProcTyped, ProcSet
  <2> QED  BY <1>2, <2>1, <2>2, <2>3 DEF Holders, GoesOn, Stages, Left
<1> QED  BY <1>1, <1>2 DEF ProcSteps

LEMMA HoldersLive ==
  ASSUME NEW p \in Holders
  PROVE  /\ p \in Procs /\ p \in Alive
         /\ proc[p].at \notin {"unborn", "starts", "asserted", "exited", "gone"}
BY DEF Holders, Alive

\* Who holds the session is tracked while it does, as long as the daemon runs.
LEMMA OwnersStay ==
  ASSUME BaseInv, [Next]_vars, NEW p \in Owners, p \in Holders, p \in Holders',
         daemon'.phase # "down"
  PROVE  p \in Owners'
<1> USE TypeIs DEF BaseInv
<1>1. p \in Procs /\ p \in Alive /\ proc[p].at \notin {"unborn", "exited", "gone"}
      /\ proc'[p].at \notin {"starts", "ending", "gone"}
  BY HoldersLive DEF Holders
<1> SUFFICES map'[p] \in {map[p], "child", "other"}
  BY <1>1 DEF Owners, Reported
<1>2. Reaped[p] = map[p]
  BY <1>1, ReapedIs
<1>3. CASE UNCHANGED map \/ map' = Reaped
  BY <1>2, <1>3
<1>4. CASE Stop
  <2>1. Tracked \in Owners /\ map' = [map EXCEPT ![Tracked] = "none"]
    BY <1>4, TrackedIs DEF Stop
  <2>2. Tracked # p
    <3>1. ASSUME Tracked = p  PROVE FALSE
      <4>1. Moves(p, "ending")
        BY <1>1, <1>4, <2>1, <3>1 DEF Stop
      <4> QED  BY <1>1, <4>1 DEF Moves, ProcTyped, ProcSet
    <3> QED  BY <3>1
  <2> QED  BY <1>1, <2>1, <2>2 DEF MapTyped
<1>5. CASE LaunchesResume
  <2>1. ASSUME NEW q \in Procs, proc[q].at = "unborn", map' = [map EXCEPT ![q] = "spawned"]
        PROVE  map'[p] = map[p]
    BY <1>1, <2>1 DEF MapTyped
  <2> QED  BY <1>5, <1>3, <2>1 DEF LaunchesResume, Launches
<1>6. CASE Adopts
  BY <1>1, <1>2, <1>6, AdoptsTyped, ReapedIs DEF MapTyped
<1>7. ASSUME NEW q \in Procs, ChildExited(q) \/ Prunes(q)  PROVE map'[p] = map[p]
  BY <1>1, <1>7 DEF ChildExited, Prunes, MapTyped
<1>8. ASSUME NEW q \in Procs, ReportsItself(q)  PROVE map'[p] \in {map[p], "child", "other"}
  BY <1>1, <1>8 DEF ReportsItself, Reports, MapTyped
<1>9. daemon' # [daemon EXCEPT !.phase = "down"]
  BY DEF DaemonTyped
<1>10. CASE Daemon
  BY <1>3, <1>6, <1>7, <1>9, <1>10 DEF Daemon, Closes, Down, Reboots, LosesMemory, Boots
<1>11. CASE App
  BY <1>3, <1>4, <1>11 DEF App, PressesResume, StartsResume, IsAnswered
<1>12. CASE Watching
  BY <1>3, <1>12 DEF Watching, SeesExit, WatchTimesOut, WatchFetches, WatchResumed,
    LateRecovery, StartsResume
<1>13. CASE Recovering
  BY <1>3, <1>13 DEF Recovering, LooksForLive, HearsLive, HearsMetadata, RecoveryResumed,
    StartsResume
<1>14. CASE Resuming
  BY <1>3, <1>14 DEF Resuming, HearsOrphans, HearsConversations, Confirms, Fetches,
    LaunchFails
<1>15. ASSUME NEW q \in Procs, Wrapper(q)  PROVE map'[p] \in {map[p], "child", "other"}
  BY <1>3, <1>8, <1>15 DEF Wrapper, Asserts, GivesUp, Publishes, Verified, Ends,
    AsksRefresh, PrepareAccepted, PrepareRefused, Declines
<1> QED  BY <1>3, <1>5, <1>10, <1>11, <1>12, <1>13, <1>14, <1>15 DEF Next, vars, procVars

\* The records while nobody is tracked: a daemon that has just come up
Recovered == Owners = {} /\ finished = 0 /\ flight = NoFlight

\* The record from the disk is brought up to date from the centre, while a
\* daemon boots with the host that it named or with one that has ended.
RecordKept == meta'[0] = meta[0]
RecordBroughtUp ==
  /\ meta'[0] = FromCentre
  /\ daemon.phase = "booting" => server.host = meta[0].host \/ server.host \notin Alive

LEMMA RecordSteps ==
  ASSUME BaseInv, Recovered, [Next]_vars, ~Boots, daemon'.phase # "down"
  PROVE  /\ finished' = 0 /\ (RecordKept \/ RecordBroughtUp)
         /\ daemon'.phase = "booting" => daemon.phase = "booting"
<1> USE TypeIs DEF BaseInv
<1>1. /\ Tracked = 0 /\ 0 # Nothing /\ 0 \in 0..MaxProcs
      /\ \A q \in Procs : q # 0 /\ q \in 0..MaxProcs
  BY TrackedIs, ConstantsAssumption DEF Recovered, Nothing, Procs
<1>2. meta \in [0..MaxProcs -> Kept] /\ finished = 0
  BY DEF ObjectsTyped, Recovered
<1>3. flight.at = "none" /\ flight.pid = 0
  BY DEF Recovered, NoFlight, Nobody
<1>4. ASSUME NEW o \in Nothing..MaxProcs, meta' = [meta EXCEPT ![o] = FromCentre],
             o = 0 /\ daemon.phase = "booting" =>
               server.host = meta[0].host \/ server.host \notin Alive
      PROVE  RecordKept \/ RecordBroughtUp
  BY <1>1, <1>2, <1>4 DEF RecordKept, RecordBroughtUp
<1>5. CASE UNCHANGED <<daemon, meta, finished>>
  BY <1>2, <1>5 DEF RecordKept
<1>6. CASE WatchFetches /\ ~UNCHANGED <<daemon, meta, finished>>
  <2>1. UNCHANGED <<daemon, finished>> /\ server.host \notin Alive
        /\ meta' = [meta EXCEPT ![watch.of] = FromCentre]
    BY <1>6 DEF WatchFetches, WatchUnchanged, JobTrue
  <2>2. watch.of \in Nothing..MaxProcs
    BY DEF WatchTyped
  <2> QED  BY <1>2, <1>4, <2>1, <2>2
<1>7. CASE HearsMetadata /\ ~UNCHANGED <<daemon, meta, finished>>
  <2>1. UNCHANGED <<daemon, finished>> /\ daemon.phase # "booting"
        /\ meta' = [meta EXCEPT ![Tracked] = FromCentre]
    BY <1>7 DEF HearsMetadata, RecoveryUnchanged, MemoryTrue
  <2> QED  BY <1>2, <1>4, <2>1, TrackedIs
<1>8. ASSUME NEW q \in Procs, PrepareAccepted(q)
      PROVE  finished' = 0 /\ (RecordKept \/ RecordBroughtUp) /\ daemon' = daemon
  <2>1. server.host = meta[0].host /\ meta' = [meta EXCEPT ![Tracked] = FromCentre]
        /\ UNCHANGED <<daemon, finished>>
    BY <1>1, <1>8 DEF PrepareAccepted, CanRefresh
  <2> QED  BY <1>2, <1>4, <2>1, TrackedIs
<1>9. ASSUME NEW q \in Procs, ReportsItself(q)
      PROVE  finished' = 0 /\ RecordKept /\ daemon' = daemon
  BY <1>1, <1>2, <1>9 DEF ReportsItself, Reports, RecordKept
<1>10. CASE Adopts
  <2>1. RecordKept
    <3>1. HostOf(finished) \in Alive => HostOf(finished) \in Procs
      BY DEF Alive
    <3> QED  BY <1>1, <1>2, <1>10, <3>1, AdoptsTyped DEF RecordKept
  <2>2. daemon'.phase = "up"
    BY <1>10, AdoptsTyped DEF DaemonTyped
  <2> QED  BY <1>2, <1>10, <2>1, <2>2, AdoptsTyped
<1>11. CASE Closes
  <2>1. daemon'.phase = "closing"
    BY <1>11 DEF Closes, DaemonTyped
  <2> QED  BY <1>2, <1>11, <2>1 DEF Closes, RecordKept
<1>12. ASSUME NEW q \in Procs, ChildExited(q) \/ Prunes(q)
       PROVE  UNCHANGED <<daemon, meta, finished>>
  <2>1. ~Reported(q)
    BY DEF Recovered, Owners
  <2> QED  BY <1>12, <2>1 DEF ChildExited, Prunes
<1>13. ~LosesMemory
  BY DEF LosesMemory, DaemonTyped
<1>14. CASE Daemon
  BY <1>5, <1>10, <1>11, <1>12, <1>13, <1>14 DEF Daemon, Down, Reboots
<1>15. CASE App \/ LaunchesResume
  BY <1>5, <1>15 DEF App, PressesResume, IsAnswered, Stop, LaunchesResume, Launches
<1>16. CASE Resuming
  BY <1>3, <1>5, <1>16 DEF Resuming, HearsOrphans, HearsConversations, Confirms, Fetches,
    LaunchFails
<1>17. CASE Watching
  <2>1. UNCHANGED <<daemon, finished>>
    BY <1>17 DEF Watching, SeesExit, WatchTimesOut, WatchFetches, WatchResumed,
      LateRecovery, WatchUnchanged
  <2> QED  BY <1>5, <1>6, <1>17, <2>1 DEF Watching, SeesExit, WatchTimesOut, WatchResumed,
    LateRecovery
<1>18. CASE Recovering
  <2>1. UNCHANGED <<daemon, finished>>
    BY <1>18 DEF Recovering, LooksForLive, HearsLive, HearsMetadata, RecoveryResumed,
      RecoveryUnchanged
  <2> QED  BY <1>5, <1>7, <1>18, <2>1 DEF Recovering, LooksForLive, HearsLive,
    RecoveryResumed
<1>19. ASSUME NEW q \in Procs, Wrapper(q)
       PROVE  /\ finished' = 0 /\ (RecordKept \/ RecordBroughtUp)
              /\ daemon'.phase = "booting" => daemon.phase = "booting"
  BY <1>5, <1>8, <1>9, <1>19 DEF Wrapper, Asserts, GivesUp, Publishes, Verified, Ends,
    AsksRefresh, PrepareRefused, Declines
<1> QED  BY <1>5, <1>14, <1>15, <1>16, <1>17, <1>18, <1>19 DEF Next, vars, procVars

-----------------------------------------------------------------------------
(* What a step does to the callers of resumeSession.                       *)

\* One has found no live owner, and asks for the processes.
Looks(c) ==
  /\ LiveOwners = {} /\ Answering /\ daemon' = daemon /\ finished' = finished
  /\ call'[c] = [at |-> "orphan", host |-> HostIn(meta', finished), seen |-> Alive,
                 knows |-> FALSE]

\* One did not hear of the process on record, and asks for the conversation.
Goes(c) ==
  /\ call[c].at = "orphan" /\ \E seen \in Listings(c) : call[c].host \notin seen
  /\ call'[c] = [at |-> "provider", host |-> Nobody, seen |-> Alive,
                 knows |-> Knows(finished)]

\* One did not hear of the conversation.
Misses(c) ==
  call[c].at = "provider" /\ \E seen \in Listings(c) : ~ConversationRuns(c, seen)

Rests(c) == call'[c] = call[c] \/ call'[c].at \in {"none", "confirms", "ok", "failed"}

CallSteps ==
  /\ \A c \in Callers : Rests(c) \/ Looks(c) \/ Goes(c) \/ Misses(c)
  /\ flight' \in {flight, NoFlight} \/ flight.at # "none" \/ \E c \in Callers : Misses(c)

LEMMA AnswerRests ==
  ASSUME BaseInv, NEW c \in Callers, NEW at \in {"none", "confirms", "ok", "failed"},
         Answer(c, at)
  PROVE  \A d \in Callers : Rests(d)
BY TypeIs, AnswerTyped DEF BaseInv, Rests

LEMMA ResumeLooks ==
  ASSUME BaseInv, NEW c \in Callers, StartsResume(c, meta'), ObjectsTyped',
         Answering, UNCHANGED <<daemon, finished>>
  PROVE  \A d \in Callers : Rests(d) \/ Looks(d)
<1> USE TypeIs DEF BaseInv
<1>1. HostIn(meta', finished) \in 0..MaxProcs
  <2>1. finished # Nothing => finished \in 0..MaxProcs
    BY ConstantsAssumption DEF ObjectsTyped, Nothing
  <2> QED  BY <2>1, ConstantsAssumption DEF HostIn, ObjectsTyped, Kept, Nobody
<1>2. /\ \A d \in Callers \ {c} : call'[d] = call[d]
      /\ \/ call'[c].at = "confirms"
         \/ /\ LiveOwners = {}
            /\ call'[c] = [at |-> "orphan", host |-> HostIn(meta', finished), seen |-> Alive,
                           knows |-> FALSE]
  BY <1>1, StartsTyped
<1> QED  BY <1>2 DEF Rests, Looks

LEMMA CallsStep ==
  ASSUME BaseInv, [Next]_vars
  PROVE  CallSteps
<1> USE TypeIs DEF BaseInv
<1>1. ASSUME UNCHANGED call, flight' \in {flight, NoFlight} \/ flight.at # "none"
      PROVE  CallSteps
  BY <1>1 DEF CallSteps, Rests
<1>2. ASSUME NEW at \in {"ok", "failed"}, Lands(at)  PROVE CallSteps
  <2>1. \A c \in Callers : Rests(c)
    BY <1>2, LandsTyped DEF Rests
  <2> QED  BY <1>2, <2>1 DEF CallSteps, Lands
<1>3. ASSUME NEW c \in Callers, NEW at \in {"none", "confirms", "ok", "failed"}, Answer(c, at),
             UNCHANGED flight
      PROVE  CallSteps
  BY <1>3, AnswerRests DEF CallSteps
<1>4. ObjectsTyped'
  BY BaseNext, TypeIs, PTL DEF BaseStep
<1>5. ASSUME NEW c \in Callers, StartsResume(c, meta'), Answering,
             UNCHANGED <<daemon, finished, flight>>
      PROVE  CallSteps
  BY <1>4, <1>5, ResumeLooks DEF CallSteps
<1>6. CASE App
  <2>1. CASE PressesResume
    BY <1>5, <2>1 DEF PressesResume, Callers
  <2>2. CASE IsAnswered
    BY <1>3, <2>2 DEF IsAnswered, Callers
  <2>3. CASE Stop
    BY <1>1, <2>3 DEF Stop
  <2> QED  BY <1>6, <2>1, <2>2, <2>3 DEF App
<1>7. ASSUME NEW c \in Callers, HearsOrphans(c)  PROVE CallSteps
  <2>1. CASE Answer(c, "confirms") \/ Answer(c, "failed")
    BY <1>3, <1>7, <2>1 DEF HearsOrphans
  <2>2. ASSUME NEW seen \in Listings(c), call[c].host \notin seen,
               call' = [call EXCEPT ![c] =
                 [at |-> "provider", host |-> Nobody, seen |-> Alive,
                  knows |-> Knows(finished)]]
        PROVE  CallSteps
    <3>1. Goes(c) /\ \A d \in Callers \ {c} : Rests(d)
      BY <1>7, <2>2 DEF HearsOrphans, CallTyped, Goes, Rests
    <3> QED  BY <1>7, <3>1 DEF HearsOrphans, CallSteps
  <2> QED  BY <1>7, <2>1, <2>2 DEF HearsOrphans
<1>8. ASSUME NEW c \in Callers, HearsConversations(c)  PROVE CallSteps
  <2>1. CASE (Answer(c, "confirms") \/ Answer(c, "failed")) /\ UNCHANGED flight
    BY <1>3, <2>1
  <2>2. CASE Answer(c, "joined") /\ \E seen \in Listings(c) : ~ConversationRuns(c, seen)
    <3>1. Misses(c) /\ \A d \in Callers \ {c} : Rests(d)
      BY <1>8, <2>2, AnswerTyped DEF HearsConversations, Misses, Rests
    <3> QED  BY <3>1 DEF CallSteps
  <2> QED  BY <1>8, <2>1, <2>2 DEF HearsConversations
<1>9. ASSUME NEW c \in Callers, Confirms(c)  PROVE CallSteps
  BY <1>3, <1>9 DEF Confirms
<1>10. CASE Fetches \/ LaunchFails
  BY <1>1, <1>2, <1>10 DEF Fetches, LaunchFails
<1>11. CASE LaunchesResume
  BY <1>1, <1>2, <1>11 DEF LaunchesResume, Launches
<1>12. CASE Watching
  <2>1. CASE WatchFetches /\ StartsResume("refresh", meta')
    <3>1. Answering
      BY <2>1 DEF WatchFetches, MemoryTrue, NoWatch, Answering
    <3> QED  BY <1>5, <2>1, <3>1 DEF WatchFetches, WatchUnchanged, Callers
  <2>2. CASE WatchResumed
    BY <1>3, <2>2 DEF WatchResumed, WatchUnchanged, Callers
  <2>3. CASE UNCHANGED <<call, flight>>
    BY <1>1, <2>3
  <2> QED  BY <1>12, <2>1, <2>2, <2>3
           DEF Watching, SeesExit, WatchTimesOut, WatchFetches, LateRecovery, WatchUnchanged
<1>13. CASE Recovering
  <2>1. CASE HearsMetadata /\ StartsResume("recovery", meta')
    <3>1. Answering
      BY <2>1 DEF HearsMetadata, MemoryTrue, Answering
    <3> QED  BY <1>5, <2>1, <3>1 DEF HearsMetadata, RecoveryUnchanged, Callers
  <2>2. CASE RecoveryResumed
    BY <1>3, <2>2 DEF RecoveryResumed, RecoveryUnchanged, Callers
  <2>3. CASE UNCHANGED <<call, flight>>
    BY <1>1, <2>3
  <2> QED  BY <1>13, <2>1, <2>2, <2>3
           DEF Recovering, LooksForLive, HearsLive, HearsMetadata, RecoveryUnchanged
<1>14. CASE Daemon
  <2>1. CASE LosesMemory
    <3>1. \A c \in Callers : call'[c].at = "none"
      BY <2>1 DEF LosesMemory, NoCall
    <3> QED  BY <2>1, <3>1 DEF LosesMemory, CallSteps, Rests
  <2>2. ASSUME NEW q \in Procs, ChildExited(q) \/ Prunes(q)  PROVE CallSteps
    BY <1>1, <1>2, <2>2 DEF ChildExited, Prunes
  <2> QED  BY <1>1, <1>14, <2>1, <2>2 DEF Daemon, Closes, Down, Reboots, Boots, Adopts
<1>15. ASSUME NEW q \in Procs, Wrapper(q)  PROVE CallSteps
  BY <1>1, <1>2, <1>15 DEF Wrapper, Asserts, GivesUp, Publishes, Verified, Ends,
    ReportsItself, Reports, AsksRefresh, PrepareAccepted, PrepareRefused, Declines
<1>16. CASE UNCHANGED vars
  BY <1>1, <1>16 DEF vars, procVars
<1> QED  BY <1>6, <1>7, <1>8, <1>9, <1>10, <1>11, <1>12, <1>13, <1>14, <1>15, <1>16
  DEF Next, Resuming

LEMMA ReportJoins ==
  ASSUME BaseInv, [Next]_vars, NEW q \in Procs, ReportsItself(q), MayOwn(q)
  PROVE  Joins(q)
<1> USE TypeIs DEF BaseInv
<1>1. proc'[q].at = "serves" /\ proc'[q].told = daemon.number
  BY DEF ReportsItself, Reports, ProcTyped, ProcSet
<1>2. proc[q].told = 0 /\ daemon.number # 0 /\ proc[q].at # "unborn"
  BY DEF ReportsItself, Reports, ProcsTrue, ProcTrue, DaemonTyped
<1>3. ~GoesOn(q) /\ ~Begins(q)
  BY <1>1, <1>2 DEF GoesOn, Begins
<1> QED  BY <1>3, BaseNext DEF BaseStep, ProcSteps

\* Unless one joins, or is adopted, nobody comes to be tracked.
LEMMA NobodyComes ==
  ASSUME BaseInv, [Next]_vars, Owners = {}, ~Adopts, \A q \in Procs : ~Joins(q)
  PROVE  Owners' = {}
<1> USE TypeIs DEF BaseInv
<1> SUFFICES \A p \in Procs : map'[p] \in {map[p], "none", "spawned"}
  BY FewerOwners
<1>1. CASE UNCHANGED map \/ map' = Reaped
  BY <1>1, ReapedIs
<1>2. CASE Stop
  BY <1>1, <1>2 DEF Stop
<1>3. CASE LaunchesResume
  BY <1>1, <1>3 DEF LaunchesResume, Launches, MapTyped
<1>4. ASSUME NEW q \in Procs, ReportsItself(q)  PROVE UNCHANGED map
  BY <1>4, ReportJoins DEF ReportsItself, Reports
<1>5. CASE Daemon
  BY <1>1, <1>5 DEF Daemon, Closes, Down, Reboots, LosesMemory, Boots, ChildExited, Prunes,
    MapTyped
<1>6. CASE App
  BY <1>1, <1>2, <1>6 DEF App, PressesResume, StartsResume, IsAnswered
<1>7. CASE Watching
  BY <1>1, <1>7 DEF Watching, SeesExit, WatchTimesOut, WatchFetches, WatchResumed,
    LateRecovery, StartsResume
<1>8. CASE Recovering
  BY <1>1, <1>8 DEF Recovering, LooksForLive, HearsLive, HearsMetadata, RecoveryResumed,
    StartsResume
<1>9. CASE Resuming
  BY <1>1, <1>9 DEF Resuming, HearsOrphans, HearsConversations, Confirms, Fetches,
    LaunchFails
<1>10. ASSUME NEW q \in Procs, Wrapper(q)  PROVE UNCHANGED map
  BY <1>4, <1>10 DEF Wrapper, Asserts, GivesUp, Publishes, Verified, Ends, AsksRefresh,
    PrepareAccepted, PrepareRefused, Declines
<1> QED  BY <1>1, <1>3, <1>5, <1>6, <1>7, <1>8, <1>9, <1>10 DEF Next, vars, procVars

\* The process on disk is the last that reported to a daemon.
LEMMA HostStays ==
  ASSUME BaseInv, [Next]_vars, \A q \in Procs : ~Joins(q)
  PROVE  disk'.host = disk.host
<1> USE TypeIs DEF BaseInv
<1>1. ASSUME NEW q \in Procs, ReportsItself(q)  PROVE disk' = disk
  BY <1>1, ReportJoins DEF ReportsItself, Reports
<1>2. ASSUME NEW q \in Procs, Wrapper(q)  PROVE disk'.host = disk.host
  <2>1. CASE PrepareAccepted(q)
    BY <2>1 DEF PrepareAccepted, DiskTyped
  <2> QED  BY <1>1, <1>2, <2>1 DEF Wrapper, Asserts, GivesUp, Publishes, Verified, Ends,
    AsksRefresh, PrepareRefused, Declines
<1>3. CASE Daemon
  <2>1. CASE Adopts
    BY <2>1, AdoptsTyped
  <2>2. ASSUME NEW q \in Procs, ChildExited(q) \/ Prunes(q)  PROVE disk'.host = disk.host
    BY <2>2 DEF ChildExited, Prunes, DiskTyped
  <2> QED  BY <1>3, <2>1, <2>2 DEF Daemon, Closes, Down, Reboots, LosesMemory, Boots
<1>4. CASE Watching
  BY <1>4 DEF Watching, SeesExit, WatchTimesOut, WatchFetches, WatchResumed, LateRecovery,
    JobFails, WatchEnds, DiskTyped
<1>5. CASE App
  BY <1>5 DEF App, PressesResume, IsAnswered, Stop, Forgets, DiskTyped
<1> QED  BY <1>2, <1>3, <1>4, <1>5 DEF Next, vars, procVars, Resuming, HearsOrphans,
  HearsConversations, Confirms, Fetches, LaunchFails, LaunchesResume, Launches, Recovering,
  LooksForLive, HearsLive, HearsMetadata, RecoveryResumed, RecoveryUnchanged

\* The centre is told by a process that runs.
LEMMA CentreSteps ==
  ASSUME BaseInv, [Next]_vars
  PROVE  \/ server'.host = server.host
         \/ \E q \in Procs : proc[q].at # "unborn" /\ server'.host = q
<1> USE TypeIs DEF BaseInv
<1>1. ASSUME NEW q \in Procs, Wrapper(q)
      PROVE  server'.host = server.host \/ (proc[q].at # "unborn" /\ server'.host = q)
  BY <1>1 DEF Wrapper, Asserts, GivesUp, Publishes, Verified, Ends, ReportsItself, Reports,
    AsksRefresh, PrepareAccepted, PrepareRefused, Declines, TakesBack, ServerTyped
<1>2. CASE Daemon
  BY <1>2, AdoptsTyped DEF Daemon, Closes, Down, Reboots, LosesMemory, Boots, ChildExited,
    Prunes
<1> QED  BY <1>1, <1>2 DEF Next, vars, procVars, App, PressesResume, IsAnswered, Stop,
  Resuming, HearsOrphans, HearsConversations, Confirms, Fetches, LaunchFails,
  LaunchesResume, Launches, Watching, SeesExit, WatchTimesOut, WatchFetches, WatchResumed,
  LateRecovery, WatchUnchanged, Recovering, LooksForLive, HearsLive, HearsMetadata,
  RecoveryResumed, RecoveryUnchanged

-----------------------------------------------------------------------------
(* At most one owner.                                                      *)

\* Everyone reported to the daemon that started it.
OwnHome == \A p \in Procs : proc[p].told \in {0, proc[p].home}

\* A caller that looks for the process in the listings will find it.
FoundBy(p, c) ==
  /\ call[c].at = "orphan" =>
       p \in call[c].seen /\ (call[c].host = p \/ (proc[p].named /\ Knows(finished)))
  /\ call[c].at = "provider" =>
       p \in call[c].seen /\ proc[p].named /\ call[c].knows
  /\ call[c].at # "joined"

NoLaunch(p) == flight = NoFlight /\ \A c \in Callers : FoundBy(p, c)

\* The daemon that has come up does not track the process, but would find it:
\* it is the host on record, or has the conversation that is.
OnRecord(p) == meta[0].host = p \/ (proc[p].named /\ meta[0].knows)

Remembered(p) ==
  /\ Owners = {} /\ finished = 0 /\ OnRecord(p)
  /\ daemon.phase = "booting" => meta[0].host = p \/ meta[0].host \notin Alive
  /\ \A q \in Procs : proc[q].home # daemon.number
  /\ NoLaunch(p)

\* While the first process holds the session nothing else was launched.
First ==
  1 \in Holders =>
    /\ \A q \in Procs \ {1} : proc[q].at = "unborn"
    /\ server.host = 1 /\ NoLaunch(1)

\* Who holds the session is the one on disk, and the daemon knows it or will
\* find it.
HoldersKnown ==
  OwnHome =>
    \A p \in Holders :
      /\ disk.host = p
      /\ daemon.phase # "down" => p \in Owners \/ Remembered(p)

OwnInv == First /\ HoldersKnown

\* Who finds the process launches no other.
LEMMA FoundKept ==
  ASSUME BaseInv, [Next]_vars, NEW p \in Holders, p \in Holders', NoLaunch(p),
         proc[p].named /\ Knows(finished) => Knows(finished)',
         Answering /\ daemon' = daemon /\ finished' = finished =>
           \/ p \in Owners \/ HostIn(meta', finished) = p
           \/ proc[p].named /\ Knows(finished)'
  PROVE  NoLaunch(p)'
<1>1. p \in Procs /\ p \in Alive /\ proc'[p].named = proc[p].named
  BY HoldersLive, HoldersCome, BaseNext DEF BaseStep, GoesOn, Joins
<1>2. CallSteps
  BY CallsStep
<1>3. ASSUME NEW c \in Callers  PROVE ~Misses(c)
  BY <1>1 DEF NoLaunch, FoundBy, Misses, Listings, ConversationRuns
<1>4. flight' = NoFlight
  BY <1>2, <1>3 DEF CallSteps, NoLaunch, NoFlight
<1>5. ASSUME NEW c \in Callers  PROVE FoundBy(p, c)'
  <2>1. FoundBy(p, c)
    BY DEF NoLaunch
  <2>2. CASE Rests(c)
    BY <1>1, <2>1, <2>2 DEF Rests, FoundBy
  <2>3. CASE Looks(c)
    <3>1. p \notin Owners
      BY <1>1, <2>3 DEF Looks, LiveOwners
    <3>2. /\ call'[c].at = "orphan" /\ call'[c].seen = Alive
          /\ call'[c].host = HostIn(meta', finished)
      BY <2>3 DEF Looks
    <3> QED  BY <1>1, <2>3, <3>1, <3>2 DEF Looks, FoundBy
  <2>4. CASE Goes(c)
    <3>1. call[c].host # p
      BY <1>1, <2>1, <2>4 DEF Goes, FoundBy, Listings
    <3>2. call'[c].at = "provider" /\ call'[c].seen = Alive /\ call'[c].knows = Knows(finished)
      BY <2>4 DEF Goes
    <3> QED  BY <1>1, <2>1, <2>4, <3>1, <3>2 DEF Goes, FoundBy
  <2> QED  BY <1>2, <1>3, <2>2, <2>3, <2>4 DEF CallSteps
<1> QED  BY <1>4, <1>5 DEF NoLaunch

\* What a step makes of the record of a process that is remembered
LEMMA RecordFinds ==
  ASSUME BaseInv, First, [Next]_vars, ~Boots, daemon'.phase # "down",
         NEW p \in Holders, p \in Holders', Remembered(p)
  PROVE  /\ finished' = 0 /\ OnRecord(p)'
         /\ HostIn(meta', finished) = p \/ (proc[p].named /\ Knows(finished)')
         /\ proc[p].named /\ Knows(finished) => Knows(finished)'
         /\ daemon'.phase = "booting" => meta'[0].host = p \/ meta'[0].host \notin Alive
         /\ daemon'.phase = "booting" => daemon.phase = "booting"
<1>1. Recovered /\ finished = 0 /\ 0 # Nothing
  BY DEF Remembered, NoLaunch, Recovered, Nothing
<1>2. p \in Procs /\ proc'[p].named = proc[p].named
  BY HoldersLive, HoldersCome, BaseNext DEF BaseStep, GoesOn, Joins
<1>3. proc[p].named \/ p = 1
  BY <1>2, HoldersLive DEF BaseInv, ProcsTrue, ProcTrue
<1>4. p = 1 => server.host = 1
  BY DEF First
<1>5. /\ finished' = 0 /\ (RecordKept \/ RecordBroughtUp)
      /\ daemon'.phase = "booting" => daemon.phase = "booting"
  BY <1>1, RecordSteps
<1>6. OnRecord(p)'
  BY <1>2, <1>3, <1>4, <1>5 DEF Remembered, OnRecord, RecordKept, RecordBroughtUp,
    FromCentre
<1>7. daemon'.phase = "booting" => meta'[0].host = p \/ meta'[0].host \notin Alive
  BY <1>5 DEF Remembered, RecordKept, RecordBroughtUp, FromCentre
<1>8. Knows(finished) => Knows(finished)'
  BY <1>1, <1>5 DEF Knows, RecordKept, RecordBroughtUp, FromCentre
<1> QED  BY <1>1, <1>2, <1>5, <1>6, <1>7, <1>8 DEF OnRecord, HostIn, Knows

\* A daemon that remembers a process goes on remembering it, or adopts it.
LEMMA RememberedKept ==
  ASSUME BaseInv, First, [Next]_vars, ~Boots, daemon'.phase # "down",
         \A q \in Procs : ~Joins(q),
         NEW p \in Holders, p \in Holders', Remembered(p)
  PROVE  p \in Owners' \/ Remembered(p)'
<1> USE TypeIs DEF BaseInv
<1>1. p \in Procs /\ p \in Alive /\ finished = 0 /\ 0 # Nothing
  BY HoldersLive DEF Remembered, Nothing
<1>2. ProcSteps /\ \A q \in Procs : ~Begins(q)
  BY BaseNext DEF BaseStep, Remembered, NoLaunch, NoFlight, Begins
<1>3. \A q \in Procs : GoesOn(q)
  BY <1>2 DEF ProcSteps
<1>4. Alive' \subseteq Alive
  BY <1>3 DEF GoesOn, Alive
<1>5. daemon'.number = daemon.number
  BY DaemonGrows
<1>6. NoLaunch(p)'
  BY RecordFinds, FoundKept DEF Remembered
<1>7. \A q \in Procs : proc'[q].home # daemon'.number
  BY <1>3, <1>5 DEF GoesOn, Remembered
<1>8. ASSUME Owners' = {}  PROVE Remembered(p)'
  BY <1>4, <1>6, <1>7, <1>8, RecordFinds DEF Remembered
<1>9. CASE ~Adopts
  BY <1>8, <1>9, NobodyComes DEF Remembered
<1>10. CASE Adopts
  <2>1. CASE map' = map \/ map' = Reaped
    BY <1>8, <2>1, ReapedIs, FewerOwners DEF Remembered
  <2>2. CASE HostOf(finished) \in Alive /\ map' = [Reaped EXCEPT ![HostOf(finished)] = "other"]
    <3>1. HostOf(finished) = p
      BY <1>1, <1>10, <2>2, AdoptsTyped DEF Remembered, HostOf, HostIn
    <3>2. map'[p] = "other"
      BY <1>1, <2>2, <3>1, ReapedIs
    <3> QED  BY <1>1, <3>2 DEF Owners, Reported
  <2> QED  BY <1>10, <2>1, <2>2, AdoptsTyped
<1> QED  BY <1>9, <1>10

\* Who reported to its own daemon did so before.
LEMMA OwnHomeBefore ==
  ASSUME BaseInv, [Next]_vars, OwnHome'
  PROVE  OwnHome
<1> SUFFICES ASSUME NEW p \in Procs  PROVE proc[p].told \in {0, proc[p].home}
  BY DEF OwnHome
<1>1. GoesOn(p) \/ Begins(p) \/ Joins(p)
  BY BaseNext DEF BaseStep, ProcSteps
<1> QED  BY <1>1 DEF OwnHome, GoesOn, Begins, Joins, BaseInv, ProcsTrue, ProcTrue

\* As long as the first process holds the session, nobody else reported.
LEMMA FirstIsHome ==
  ASSUME BaseInv, First, 1 \in Holders
  PROVE  OwnHome
BY DEF BaseInv, ProcsTrue, ProcTrue, First, OwnHome

LEMMA FirstKept ==
  ASSUME BaseInv, OwnInv, [Next]_vars
  PROVE  First'
<1> USE TypeIs DEF BaseInv, OwnInv
<1> SUFFICES ASSUME 1 \in Holders'
             PROVE  /\ \A q \in Procs \ {1} : proc'[q].at = "unborn"
                    /\ server'.host = 1 /\ NoLaunch(1)'
  BY DEF First
<1>1. 1 \in Procs /\ ProcSteps
  BY BaseNext DEF BaseStep, Holders
<1>2. ~Joins(1) /\ ~proc[1].named
  BY <1>1 DEF Joins, ProcsTrue, ProcTrue
<1>3. 1 \in Holders
  BY <1>1, <1>2, HoldersCome
<1>4. (\A q \in Procs \ {1} : proc[q].at = "unborn") /\ server.host = 1 /\ NoLaunch(1)
  BY <1>3 DEF First
<1>5. ASSUME NEW q \in Procs \ {1}  PROVE proc'[q].at = "unborn"
  BY <1>1, <1>4 DEF NoLaunch, NoFlight, ProcSteps, GoesOn, Begins, Joins
<1>6. server'.host = 1
  BY <1>4, CentreSteps
<1>7. ASSUME Answering, daemon' = daemon, finished' = finished
      PROVE  1 \in Owners \/ HostIn(meta', finished) = 1
  <2>1. 1 \in Owners \/ Remembered(1)
    BY <1>3, <1>7, FirstIsHome DEF HoldersKnown, Answering
  <2>2. ~Boots /\ daemon'.phase # "down"
    BY <1>7 DEF Boots, Answering
  <2> QED  BY <1>2, <1>3, <2>1, <2>2, RecordFinds
<1>8. NoLaunch(1)'
  BY <1>2, <1>3, <1>4, <1>7, FoundKept
<1> QED  BY <1>5, <1>6, <1>8

LEMMA HoldersKnownKept ==
  ASSUME BaseInv, OwnInv, [Next]_vars
  PROVE  HoldersKnown'
<1> USE TypeIs DEF BaseInv, OwnInv
<1> SUFFICES ASSUME OwnHome', NEW p \in Holders'
             PROVE  /\ disk'.host = p
                    /\ daemon'.phase # "down" => p \in Owners' \/ Remembered(p)'
  BY DEF HoldersKnown
<1>1. OwnHome /\ ProcSteps /\ p \in Procs
  BY OwnHomeBefore, BaseNext DEF BaseStep, Holders
<1>2. CASE Joins(p)
  BY <1>1, <1>2 DEF Joins, Owners
<1>3. ASSUME ~Joins(p)  PROVE p \in Holders /\ p \in Alive
  BY <1>1, <1>3, HoldersCome, HoldersLive
<1>4. ASSUME p \in Holders
      PROVE  disk.host = p /\ (daemon.phase # "down" => p \in Owners \/ Remembered(p))
  BY <1>1, <1>4 DEF HoldersKnown
\* Nobody else joins: it would be told of the one that holds the session.
<1>5. ASSUME NEW q \in Procs, Joins(q), ~Joins(p)  PROVE FALSE
  <2>1. p \in Owners \/ Remembered(p)
    BY <1>3, <1>4, <1>5 DEF Joins, Answering
  <2>2. p \notin Owners
    BY <1>3, <1>5 DEF Joins, MayOwn, LiveOwners
  <2>3. daemon.number # 0 /\ proc[q].home = daemon.number
    BY <1>5 DEF DaemonTyped, OwnHome, Joins
  <2> QED  BY <2>1, <2>2, <2>3 DEF Remembered
<1>6. CASE \A q \in Procs : ~Joins(q)
  <2>1. p \in Holders /\ disk'.host = p
    BY <1>1, <1>3, <1>4, <1>6, HostStays
  <2>2. CASE Boots
    <3>1. daemon.phase = "down" /\ finished' = 0 /\ UNCHANGED <<proc, map, call, flight>>
      BY <2>2 DEF Boots
    <3>2. flight' = NoFlight /\ call' = [c \in Callers |-> NoCall]
      BY <3>1 DEF MemoryTrue
    <3>3. NoLaunch(p)'
      BY <3>2 DEF NoLaunch, FoundBy, NoCall
    <3>4. Owners' = {}
      BY <3>1 DEF Owners, Reported, MemoryTrue
    <3>5. meta'[0].host = p
      <4>1. 0 \in 0..MaxProcs
        BY ConstantsAssumption
      <4> QED  BY <1>4, <2>1, <2>2, <4>1 DEF Boots, ObjectsTyped
    <3>6. \A q \in Procs : proc'[q].home # daemon'.number
      <4>1. daemon.number \in Nat /\ daemon'.number = daemon.number + 1
        BY <2>2 DEF Boots, DaemonTyped
      <4>2. \A q \in Procs : proc[q].home \in Nat /\ proc[q].home <= daemon.number
        BY DEF ProcTyped, ProcSet, ProcsTrue, ProcTrue
      <4> QED  BY <3>1, <4>1, <4>2
    <3> QED  BY <2>1, <3>1, <3>3, <3>4, <3>5, <3>6 DEF Remembered, OnRecord
  <2>3. ASSUME ~Boots, daemon'.phase # "down"  PROVE p \in Owners' \/ Remembered(p)'
    <3>1. daemon.phase # "down"
      BY <2>3, DaemonGrows
    <3> QED  BY <1>4, <1>6, <2>1, <2>3, <3>1, OwnersStay, RememberedKept
  <2> QED  BY <2>1, <2>2, <2>3
<1> QED  BY <1>2, <1>5, <1>6

LEMMA OwnInitially == Init => OwnInv
<1> SUFFICES ASSUME Init PROVE OwnInv
  OBVIOUS
<1>1. /\ \A p \in Procs \ {1} : proc[p].at = "unborn"
      /\ 1 \in Procs => proc[1] = [at |-> "runs", home |-> 1, told |-> 1, named |-> FALSE,
                                  cursor |-> FALSE]
      /\ map = [p \in Procs |-> IF p = 1 THEN "child" ELSE "none"]
      /\ disk.host = 1 /\ server.host = 1
      /\ call = [c \in Callers |-> NoCall] /\ flight = NoFlight
  BY DEF Init, ProcsInit
<1>2. NoLaunch(1)
  BY <1>1 DEF NoLaunch, FoundBy, NoCall
<1>3. First
  BY <1>1, <1>2 DEF First
<1>4. \A p \in Holders : p = 1 /\ p \in Owners
  BY <1>1 DEF Holders, Owners, Reported
<1> QED  BY <1>1, <1>3, <1>4 DEF OwnInv, HoldersKnown

\* A session has exactly one wrapper: of those that reported to the daemon
\* that started them at most one serves, however the daemons crash, close and
\* come up again, and whichever of the three callers resumes the session.
THEOREM OneOwnerHolds == Spec => []OneOwner
<1>1. BaseInv /\ OwnInv /\ [Next]_vars => OwnInv'
  BY FirstKept, HoldersKnownKept DEF OwnInv
<1>2. BaseInv /\ OwnInv => OneOwner
  <2> SUFFICES ASSUME OwnInv, OwnHome
               PROVE  Cardinality({p \in Serving : proc[p].told # 0}) <= 1
    BY DEF OneOwner, OwnHome
  <2> DEFINE serving == {p \in Serving : proc[p].told # 0}
  <2>1. serving \subseteq {disk.host}
    BY DEF OwnInv, HoldersKnown, Holders, Serving
  <2>2. IsFiniteSet({disk.host}) /\ Cardinality({disk.host}) = 1
    BY FS_Singleton
  <2>3. Cardinality(serving) <= Cardinality({disk.host})
    BY <2>1, <2>2, FS_Subset
  <2> QED  BY <2>2, <2>3
<1> QED  BY <1>1, <1>2, OwnInitially, BaseAlways, PTL DEF Spec
=============================================================================
