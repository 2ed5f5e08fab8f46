---------------------------- MODULE CommandCentre ----------------------------
(***************************************************************************)
(* The centre's side of shared commands (lmc/access): the sharing of one   *)
(* session, the record of every command, and the claim by which a process  *)
(* asks to run one.  Each action is one access transaction: they all lock  *)
(* the same row, and so never overlap.                                     *)
(***************************************************************************)
EXTENDS Naturals, Sequences

CONSTANTS
  Shared,          \* shared commands, by the request that creates them
  SharedRuntime,   \* TRUE if the session runs on a device lent to its owner
  MaxVersion       \* bound on the changes of the sharing

ASSUME CentreAssumption ==
  /\ SharedRuntime \in BOOLEAN
  /\ MaxVersion \in Nat

VARIABLES
  policy,      \* sharing of the session: its version, and whether the sender may send
  device,      \* TRUE while authorizeDeviceRun accepts the session
  command,     \* state of each command
  queuedUnder, \* version of the sharing under which each was queued
  log,         \* the session's log: commands in the order of their seq
  outdated     \* history: commands that were waiting when the sharing changed

centreVars == <<policy, device, command, queuedUnder, log, outdated>>

CommandStates == {"none", "queued", "started", "cancelled"}

CentreTypeOK ==
  /\ policy \in [version : 0..MaxVersion, granted : BOOLEAN]
  /\ device \in BOOLEAN
  /\ command \in [Shared -> CommandStates]
  /\ queuedUnder \in [Shared -> 0..MaxVersion]
  /\ log \in Seq(Shared)
  /\ outdated \subseteq Shared

CentreInit ==
  /\ policy = [version |-> 0, granted |-> TRUE]
  /\ device = TRUE
  /\ command = [k \in Shared |-> "none"]
  /\ queuedUnder = [k \in Shared |-> 0]
  /\ log = <<>>
  /\ outdated = {}

Waiting == {k \in Shared : command[k] = "queued"}

\* requireSessionAction and authorizeDeviceRun
MaySend == policy.granted /\ device

\* POST commands; a repeated request finds its command and changes nothing.
QueueCommand(k) ==
  /\ MaySend
  /\ command[k] = "none"
  /\ command' = [command EXCEPT ![k] = "queued"]
  /\ queuedUnder' = [queuedUnder EXCEPT ![k] = policy.version]
  /\ log' = Append(log, k)
  /\ UNCHANGED <<policy, device, outdated>>

\* Mutant: only the current permission is checked, not what it has been since.
PermittedNow(k) == MaySend

\* Still permitted, and by the very sharing under which it was queued
Permitted(k) == MaySend /\ queuedUnder[k] = policy.version

\* What a claim of k is answered
ClaimAllowed(k) == command[k] = "queued" /\ Permitted(k)

\* POST commands/claim: recorded before it is answered
RecordClaim(k) ==
  /\ command' = IF command[k] = "queued"
                THEN [command EXCEPT ![k] =
                        IF ClaimAllowed(k) THEN "started" ELSE "cancelled"]
                ELSE command
  /\ UNCHANGED <<policy, device, queuedUnder, log, outdated>>

\* Mutant: a new process does not recover what was left unclaimed.
NothingPending == {}

\* GET commands/pending, answered by their places in the log
PendingCommands == {i \in 1..Len(log) : command[log[i]] = "queued"}

\* The owner changes the sharing: the grants are replaced, the version counts.
ChangeSharing(granted) ==
  /\ policy.version < MaxVersion
  /\ policy' = [version |-> policy.version + 1, granted |-> granted]
  /\ outdated' = outdated \cup Waiting
  /\ UNCHANGED <<device, command, queuedUnder, log>>

\* The owner of the device changes its sharing: the run is under an old version.
ChangeDeviceSharing ==
  /\ SharedRuntime
  /\ device
  /\ device' = FALSE
  /\ UNCHANGED <<policy, command, queuedUnder, log, outdated>>

\* runtime/resume stores the device's current version before a new process starts.
ResumeRun ==
  /\ device' = TRUE
  /\ UNCHANGED <<policy, command, queuedUnder, log, outdated>>
=============================================================================
