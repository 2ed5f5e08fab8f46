--------------------------- MODULE SessionMetadata ---------------------------
(***************************************************************************)
(* The metadata of one session: a document that the session's processes    *)
(* and the owner's apps change together, each through a copy of its own.   *)
(* The centre takes a write only on top of the version it was made from    *)
(* (update-metadata in sessionUpdateHandler.ts) and pushes what it took.   *)
(* A process changes it under a lock, one update at a time                 *)
(* (updateMetadata in apiSession.ts): a strict update gives up, a plain    *)
(* one goes on for ever.  An app retries a few times                       *)
(* (sessionUpdateMetadata in ops.ts).                                      *)
(*                                                                         *)
(* What an update does to the document is one member of a set: every       *)
(* update sets fields of its own, so doing it again changes nothing.       *)
(***************************************************************************)
EXTENDS Integers, Sequences, FiniteSets

CONSTANTS
  Processes,       \* processes of the session
  Apps,            \* calls an app makes at a time
  Updates,
  Caller,          \* who makes each update
  Strict,          \* updates made with { strict: true }
  Nobody,          \* stands for a caller who does not wait any more
  StrictAttempts,  \* 8 in the code
  AppAttempts,     \* 3 in the code
  MaxFaults        \* bound on lost or failed requests, lost pushes, restarts

Clients == Processes \cup Apps

ASSUME MetadataAssumption ==
  /\ Processes \cap Apps = {}
  /\ Nobody \notin Clients
  /\ Caller \in [Updates -> Clients]
  /\ \A u \in Strict : u \in Updates /\ Caller[u] \in Processes
  /\ StrictAttempts \in Nat \ {0} /\ AppAttempts \in Nat \ {0}
  /\ MaxFaults \in Nat

VARIABLES
  written,   \* the centre: the value of each version after version 0
  requests,  \* requests at the centre, and whether their callers wait
  copy,      \* the copy of each client, and the version it is of
  queue,     \* updates of each process that hold or await its lock
  attempt,   \* the conflicts of the update each client makes
  status,    \* what became of each update, for its caller
  faults

vars == <<written, requests, copy, queue, attempt, status, faults>>

-----------------------------------------------------------------------------

Version == Len(written)
At(v) == IF v <= 0 THEN {} ELSE written[v]

CopyOf(v) == [version |-> v, value |-> At(v)]

\* Mutant: a process that takes over starts with the current version.
CurrentRevision == Version

\* A process that takes over knows no more than how it was launched.
UnknownRevision == -1

Attempts == [update : Updates \cup {Nobody}, conflicts : Nat, since : Nat]
Begun(u) == [update |-> u, conflicts |-> 0, since |-> Version]

Requests ==
  [from : Clients \cup {Nobody}, update : Updates, base : Int,
   value : SUBSET Updates, at : {"sent", "read", "written"}]

\* The handler is applied to the copy the request is made from.
Request(c, u, from) ==
  [from |-> c, update |-> u, base |-> from.version,
   value |-> from.value \cup {u}, at |-> "sent"]

Waits(c) == \E r \in requests : r.from = c

Init ==
  /\ written = <<>>
  /\ requests = {}
  /\ copy = [c \in Clients |-> CopyOf(0)]
  /\ queue = [p \in Processes |-> <<>>]
  /\ attempt = [c \in Clients |-> Begun(Nobody)]
  /\ status = [u \in Updates |-> "new"]
  /\ faults = 0

Disturbs ==
  /\ faults < MaxFaults
  /\ faults' = faults + 1

-----------------------------------------------------------------------------
(* Making updates.                                                         *)

\* updateMetadata: the update waits for those made before it.
ProcessCalls(u) ==
  /\ Caller[u] \in Processes /\ status[u] = "new"
  /\ status' = [status EXCEPT ![u] = "called"]
  /\ queue' = [queue EXCEPT ![Caller[u]] = Append(@, u)]
  /\ UNCHANGED <<written, requests, copy, attempt, faults>>

\* Mutant: backoff does not repeat what conflicted, and the lock is kept.
Untried(p) == attempt[p].update # Head(queue[p])

Free(p) == ~Waits(p)

\* The first attempt, or the next one of a plain update after a pause, is made
\* from the copy as it then is.
Attempt(p) ==
  /\ queue[p] # <<>> /\ Free(p)
  /\ LET u == Head(queue[p]) IN
     /\ requests' = requests \cup {Request(p, u, copy[p])}
     /\ attempt' = IF attempt[p].update = u THEN attempt
                                            ELSE [attempt EXCEPT ![p] = Begun(u)]
  /\ UNCHANGED <<written, copy, queue, status, faults>>

\* sessionUpdateMetadata
AppCalls(u) ==
  LET c == Caller[u] IN
  /\ c \in Apps /\ status[u] = "new" /\ ~Waits(c)
  /\ status' = [status EXCEPT ![u] = "called"]
  /\ requests' = requests \cup {Request(c, u, copy[c])}
  /\ attempt' = [attempt EXCEPT ![c] = Begun(u)]
  /\ UNCHANGED <<written, copy, queue, faults>>

\* The update is over for its caller, and the next one gets the lock.
Ends(r, outcome) ==
  /\ status' = [status EXCEPT ![r.update] = outcome]
  /\ queue' = IF r.from \in Processes
              THEN [queue EXCEPT ![r.from] = Tail(@)] ELSE queue

GoesOn == UNCHANGED <<status, queue>>

-----------------------------------------------------------------------------
(* Answers and pushes.                                                     *)

\* Mutant: the version right behind the copy's is not adopted.
MuchNewer(v, c) == v > copy[c].version + 1

Newer(v, c) == v > copy[c].version

Learnt(c, v) == IF Newer(v, c) THEN CopyOf(v) ELSE copy[c]

\* 'version-mismatch', with version v.  A strict update and an app try again at
\* once, a plain update after a pause (Attempt).
Mismatch(r, v) ==
  LET c == r.from
      conflicts == attempt[c].conflicts + 1
      counted == attempt' = [attempt EXCEPT ![c].conflicts = conflicts]
      again(from) == (requests \ {r}) \cup {Request(c, r.update, from)}
      gone == requests' = requests \ {r}
  IN
  /\ UNCHANGED <<written, faults>>
  /\ \/ c = Nobody /\ gone /\ GoesOn /\ UNCHANGED <<copy, attempt>>
     \/ /\ c \in Processes /\ counted
        /\ copy' = [copy EXCEPT ![c] = Learnt(c, v)]
        /\ IF r.update \notin Strict THEN gone /\ GoesOn
           ELSE IF conflicts = StrictAttempts THEN gone /\ Ends(r, "failed")
           ELSE requests' = again(Learnt(c, v)) /\ GoesOn
     \/ /\ c \in Apps /\ counted
        /\ UNCHANGED copy
        /\ IF conflicts = AppAttempts
           THEN gone /\ Ends(r, "failed")
           ELSE requests' = again(CopyOf(v)) /\ GoesOn

\* The push of a version, or a fetch of the session, reaches an app late or
\* never.
AppLearns(c, v) ==
  /\ Newer(v, c)
  /\ copy' = [copy EXCEPT ![c] = CopyOf(v)]
  /\ UNCHANGED <<written, requests, queue, attempt, status, faults>>

-----------------------------------------------------------------------------
(* The centre, whose handlers of several requests interleave at each await. *)

\* findUnique, and the check of the version
Reads(r) ==
  /\ r.at = "sent"
  /\ IF r.base = Version
     THEN /\ requests' = (requests \ {r}) \cup {[r EXCEPT !.at = "read"]}
          /\ UNCHANGED <<written, copy, queue, attempt, status, faults>>
     ELSE Mismatch(r, Version)

RowMatches(r) == r.base = Version

\* updateMany.  A write that comes too late is answered with what was read
\* before it, which is what the caller has.
Writes(r) ==
  /\ r.at = "read"
  /\ IF RowMatches(r)
     THEN /\ written' = Append(written, r.value)
          /\ requests' = (requests \ {r}) \cup {[r EXCEPT !.at = "written"]}
          /\ UNCHANGED <<copy, queue, attempt, status, faults>>
     ELSE Mismatch(r, r.base)

\* Mutant: the caller is told a version too many.
VersionAfterNext(r) == r.base + 2

VersionTaken(r) == r.base + 1

\* After the update's own number has been taken: the push to the processes, and
\* then the answer.  A process believes its answer even if a push has told it of
\* a newer version; an app does not.
Announces(r, deaf) ==
  LET v == VersionTaken(r)
      taken == [version |-> v, value |-> r.value]
      hears(c) == c = r.from \/ c \in Processes \ deaf
      believes(c) == c = r.from /\ c \in Processes
  IN
  /\ r.at = "written"
  /\ requests' = requests \ {r}
  /\ copy' = [c \in Clients |->
                IF believes(c) \/ (hears(c) /\ Newer(v, c)) THEN taken ELSE copy[c]]
  /\ IF r.from = Nobody THEN GoesOn ELSE Ends(r, "told")
  /\ UNCHANGED <<written, attempt>>

-----------------------------------------------------------------------------
(* What goes wrong.                                                        *)

\* A process that is not connected misses a push; one that waits would lose its
\* answer too (AnswerLost).
Misses(r, deaf) ==
  /\ Disturbs
  /\ deaf \subseteq {p \in Processes : ~Waits(p)} /\ deaf # {}
  /\ Announces(r, deaf)

\* The database fails, before the write or after it: 'error'.  A plain update
\* ends there as if it had been made ("Hard error - ignore").
Fails(r) ==
  /\ Disturbs
  /\ requests' = requests \ {r}
  /\ IF r.from = Nobody THEN GoesOn
     ELSE Ends(r, IF r.from \in Apps \/ r.update \in Strict
                  THEN "failed" ELSE "ignored")
  /\ UNCHANGED <<written, copy, attempt>>

\* The connection is lost, or an app has waited for 15 seconds; the request may
\* still be carried out.  A plain update is attempted again.
AnswerLost(r) ==
  /\ r.from # Nobody
  /\ Disturbs
  /\ requests' = (requests \ {r}) \cup {[r EXCEPT !.from = Nobody]}
  /\ IF r.from \in Apps \/ r.update \in Strict THEN Ends(r, "failed") ELSE GoesOn
  /\ UNCHANGED <<written, copy, attempt>>

\* A process ends, its updates with it, and one that knows the session only by
\* its launch takes over.
Restarts(p) ==
  /\ Disturbs
  /\ requests' = {IF r.from = p THEN [r EXCEPT !.from = Nobody] ELSE r : r \in requests}
  /\ copy' = [copy EXCEPT ![p] = [version |-> UnknownRevision, value |-> {}]]
  /\ status' = [u \in Updates |->
                  IF \E i \in DOMAIN queue[p] : queue[p][i] = u THEN "lost"
                                                               ELSE status[u]]
  /\ queue' = [queue EXCEPT ![p] = <<>>]
  /\ attempt' = [attempt EXCEPT ![p] = Begun(Nobody)]
  /\ UNCHANGED written

-----------------------------------------------------------------------------

Serves(r) ==
  \/ Reads(r) \/ Writes(r)
  \/ Announces(r, {}) /\ UNCHANGED faults

ServesCaller(c) == \E r \in requests : r.from = c /\ Serves(r)

Next ==
  \/ \E u \in Updates : ProcessCalls(u) \/ AppCalls(u)
  \/ \E p \in Processes : Attempt(p) \/ Restarts(p)
  \/ \E c \in Apps, v \in 1..Version : AppLearns(c, v)
  \/ \E r \in requests : Serves(r) \/ Fails(r) \/ AnswerLost(r)
  \/ \E r \in requests, deaf \in SUBSET Processes : Misses(r, deaf)

Spec == Init /\ [][Next]_vars

\* Pauses end, and what is waited for is answered, or lost.
FairSpec ==
  /\ Spec
  /\ \A p \in Processes : WF_vars(Attempt(p))
  /\ \A c \in Clients : WF_vars(ServesCaller(c))

-----------------------------------------------------------------------------
(* Properties.                                                             *)

\* Every variable holds what the code can put there; and the copy of a client is
\* what the centre has in the version the client believes it to be of, whatever
\* order pushes, answers and mismatches come in: the compare and set is
\* worth nothing otherwise.
TypeOK ==
  /\ written \in Seq(SUBSET Updates)
  /\ requests \subseteq Requests
  /\ copy \in [Clients -> [version : Int, value : SUBSET Updates]]
  /\ \A c \in Clients :
       copy[c].version \in -1..Version /\ copy[c] = CopyOf(copy[c].version)
  /\ queue \in [Processes -> Seq(Updates)]
  /\ attempt \in [Clients -> Attempts]
  /\ status \in [Updates -> {"new", "called", "told", "failed", "ignored", "lost"}]
  /\ faults \in 0..MaxFaults

\* No write undoes what another client wrote, although the centre reads and
\* writes in two steps, although a process sets its version back to that of its
\* own answer, and although one that takes over starts with a document of its
\* own making; and an update its caller was told of has been made.
Promise == INSTANCE MetadataPromise WITH
  value <- At(Version), told <- {u \in Updates : status[u] = "told"}
KeepsPromise == Promise!Spec

\* A copy that is out of date costs one conflict, and every version written
\* meanwhile at most two, since a write that comes too late is answered with
\* what its caller has: a strict update gives up only after StrictAttempts
\* conflicts, so never unless several others were taken while it tried.
ConflictsHaveCauses ==
  \A c \in Clients :
    attempt[c].conflicts <= 1 + 2 * (Version - attempt[c].since)

\* A plain update is made, whatever else is written, unless its process ends or
\* the centre answers with an error; a strict one, or an app's, is made or its
\* caller told that it may not have been.
UpdatesEnd ==
  \A u \in Updates :
    status[u] = "called" ~>
      u \in At(Version) \/ status[u] \in {"failed", "ignored", "lost"}
=============================================================================
