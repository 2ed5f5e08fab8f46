---------------------------- MODULE MailPromise ----------------------------
(***************************************************************************)
(* What the recipient of agent mail is promised, with no process, receipt, *)
(* version or response in sight: the projection of every letter is applied *)
(* once, then its message enters the session log as one kind of thing,     *)
(* and only then does the centre close the letter.                         *)
(***************************************************************************)
EXTENDS Naturals

CONSTANT Mails

VARIABLES
  posted,    \* letters at the centre
  applied,   \* how often the projection of each has been applied
  entered,   \* what each is in the session log
  closed     \* letters the centre no longer hands out

vars == <<posted, applied, entered, closed>>

Init ==
  /\ posted = {}
  /\ applied = [m \in Mails |-> 0]
  /\ entered = [m \in Mails |-> "none"]
  /\ closed = {}

Post(m) ==
  /\ m \notin posted
  /\ posted' = posted \cup {m}
  /\ UNCHANGED <<applied, entered, closed>>

Apply(m) ==
  /\ m \in posted
  /\ applied[m] = 0
  /\ applied' = [applied EXCEPT ![m] = 1]
  /\ UNCHANGED <<posted, entered, closed>>

\* One write may enter the messages of several letters.
Enter(S) ==
  /\ \A m \in S : applied[m] = 1 /\ entered[m] = "none"
  /\ entered' \in [Mails -> {"none", "user", "event", "rejection"}]
  /\ \A m \in Mails : entered'[m] # entered[m] <=> m \in S
  /\ UNCHANGED <<posted, applied, closed>>

Close(S) ==
  /\ \A m \in S : entered[m] # "none"
  /\ closed' = closed \cup S
  /\ UNCHANGED <<posted, applied, entered>>

Next ==
  \/ \E m \in Mails : Post(m) \/ Apply(m)
  \/ \E S \in SUBSET Mails : Enter(S) \/ Close(S)

Spec == Init /\ [][Next]_vars

\* Nothing posted stays open.
Settles == \A m \in Mails : m \in posted ~> m \in closed
=============================================================================
