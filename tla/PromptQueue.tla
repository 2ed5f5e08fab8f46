----------------------------- MODULE PromptQueue -----------------------------
(***************************************************************************)
(* The prompts of one session (MessageQueue2 and the handlers around it),  *)
(* from their arrival in the session's process until they are handed to    *)
(* the engine, and the claims of shared commands at the centre.            *)
(*                                                                         *)
(* The queue is shared by the consumer loop, which suspends while it asks  *)
(* the centre whether the prompt at the head may run, and the handlers of  *)
(* the app's buttons, which run meanwhile.  An action is the code between  *)
(* two suspensions.  The process may end at any time; its queue is lost.   *)
(***************************************************************************)
EXTENDS CommandCentre, SequencesExt

CONSTANTS
  Own,        \* prompts of the session's owner
  Clears,     \* those of them that empty the queue, such as /clear
  Reports,    \* those of them that are reports of a worker
  NoKey,      \* no prompt
  MaxFaults,  \* bound on timeouts, failures and restarts
  MaxPresses  \* bound on the uses of "go next" and "steer"

ASSUME QueueAssumption ==
  /\ Own \cap Shared = {} /\ NoKey \notin Own \cup Shared
  /\ Clears \subseteq Own /\ Reports \subseteq Own \ Clears
  /\ MaxFaults \in Nat /\ MaxPresses \in Nat

VARIABLES
  queue,       \* keys of the waiting prompts
  steering,    \* prompts lifted out and offered to the running turn
  consumer,    \* the loop: where it is suspended, for which prompt, its answer
  admitted,    \* shared commands this process has claimed
  reviewed,    \* reports the hub has handled in a turn
  late,        \* claims given up here that may still reach the centre
  cursor,      \* how much of the log has been routed
  recovery,    \* the commands left unclaimed: to be asked for, or those still to be taken
  receipts,    \* what the app was told of a prompt that no longer waits
  arrived,     \* history: prompts that have reached the process
  restored,    \* history: prompts that steering put back
  lost,        \* history: the owner's prompts that ended with their process
  ran,         \* history: how often each was handed to the engine
  faults, presses

waiting == <<queue, steering>>
known == <<admitted, reviewed>>
feed == <<cursor, recovery>>
told == <<receipts, arrived>>
past == <<restored, lost, ran>>
budget == <<faults, presses>>
vars == <<centreVars, waiting, consumer, known, late, feed, told, past, budget>>

Keys == Own \cup Shared
Sites == {"top", "asking", "claiming", "answered", "asleep", "turn"}
At(site) == [at |-> site, head |-> NoKey, allowed |-> FALSE]

TypeOK ==
  /\ CentreTypeOK
  /\ queue \in Seq(Keys) /\ IsInjective(queue)
  /\ steering \subseteq [key : Own, index : Nat \ {0}]
  /\ consumer \in [at : Sites, head : Keys \cup {NoKey}, allowed : BOOLEAN]
  /\ admitted \subseteq Shared /\ reviewed \subseteq Reports
  /\ late \subseteq Shared
  /\ cursor \in 0..Len(log)
  /\ recovery \in [at : {"due", "answered", "taking"}, found : SUBSET (1..Len(log))]
  /\ receipts \in [Keys -> SUBSET {"released", "withdrawn"}]
  /\ arrived \subseteq Keys /\ restored \subseteq Own /\ lost \subseteq Own
  /\ ran \in [Keys -> Nat]
  /\ faults \in 0..MaxFaults /\ presses \in 0..MaxPresses

Init ==
  /\ CentreInit
  /\ queue = <<>> /\ steering = {}
  /\ consumer = At("top")
  /\ admitted = {} /\ reviewed = {} /\ late = {}
  /\ cursor = 0 /\ recovery = [at |-> "due", found |-> {}]
  /\ receipts = [k \in Keys |-> {}] /\ arrived = {}
  /\ restored = {} /\ lost = {} /\ ran = [k \in Keys |-> 0]
  /\ faults = 0 /\ presses = 0

Fault == faults < MaxFaults /\ faults' = faults + 1 /\ UNCHANGED presses
Press == presses < MaxPresses /\ presses' = presses + 1 /\ UNCHANGED faults

Waits(k) == k \in ToSet(queue)
Lifted == {s.key : s \in steering}

\* sendSessionEvent queue-released, queue-withdrawn
Told(keys, what) ==
  [k \in Keys |-> IF k \in keys THEN receipts[k] \cup {what} ELSE receipts[k]]

-----------------------------------------------------------------------------
(* Prompts arrive.                                                         *)

\* Mutant: what is put in does not wake the consumer.
NotWoken(c) == c

\* insert tells the waiter.
Woken(c) == IF c.at = "asleep" THEN At("top") ELSE c

\* Mutant: the prompts /clear removes are forgotten.
ClearedSilently(k) == {}

\* pushIsolateAndClear discards all that waits.
Cleared(k) == IF k \in Clears THEN ToSet(queue) ELSE {}

\* setAutoConsume
AutoConsumed(k) == k \in reviewed

\* A prompt of the owner goes to the end, to the front ("interrupt"), or
\* replaces all others; a report already reviewed is not put in.
Arrives(k, interrupts) ==
  /\ k \in Own \ arrived
  /\ interrupts => k \notin Clears \cup Reports
  /\ arrived' = arrived \cup {k}
  /\ \/ /\ k \in reviewed
        /\ receipts' = Told({k}, "released")
        /\ UNCHANGED <<queue, consumer>>
     \/ /\ ~AutoConsumed(k)
        /\ receipts' = Told(Cleared(k), "withdrawn")
        /\ queue' = IF k \in Clears THEN <<k>>
                     ELSE IF interrupts THEN <<k>> \o queue
                     ELSE Append(queue, k)
        /\ consumer' = Woken(consumer)
  /\ UNCHANGED <<centreVars, steering, known, late, feed, past, budget>>

\* Mutant: whatever is delivered is put in.
AlwaysNew(k) == TRUE

\* Mutant: a claimed command is put in again.
NotWaiting(k) == ~Waits(k)

\* insert: a shared command may be delivered by the log and by recovery.
NewHere(k) == k \notin admitted /\ ~Waits(k)

\* routeIncomingMessage: put into the queue by a handler that takes one message
\* at a time, and suspends before each.
Takes(k) ==
  /\ \/ /\ NewHere(k)
        /\ queue' = Append(queue, k)
        /\ consumer' = Woken(consumer)
     \/ ~NewHere(k) /\ UNCHANGED <<queue, consumer>>
  /\ arrived' = arrived \cup {k}
  /\ UNCHANGED <<centreVars, steering, known, late, receipts, past, budget>>

\* The next message of the log, live or fetched
ReadsLog ==
  /\ cursor < Len(log)
  /\ cursor' = cursor + 1
  /\ Takes(log[cursor + 1])
  /\ UNCHANGED recovery

\* Once, with its first fetch, a process asks for the commands left unclaimed ...
AsksForPending ==
  /\ recovery.at = "due"
  /\ recovery' = [at |-> "answered", found |-> PendingCommands]
  /\ UNCHANGED <<centreVars, waiting, consumer, known, late, cursor, told, past,
                 budget>>

PendingComes ==
  /\ recovery.at = "answered"
  /\ recovery' = [recovery EXCEPT !.at = "taking"]
  /\ UNCHANGED <<centreVars, waiting, consumer, known, late, cursor, told, past,
                 budget>>

\* ... and takes them in the order of the log.
TakesPending(i) ==
  /\ recovery.at = "taking"
  /\ i \in recovery.found /\ \A j \in recovery.found : i <= j
  /\ recovery' = [recovery EXCEPT !.found = @ \ {i}]
  /\ Takes(log[i])
  /\ UNCHANGED cursor

\* The fetch is repeated.
PendingFails ==
  /\ recovery.at = "answered"
  /\ recovery' = [at |-> "due", found |-> {}]
  /\ Fault
  /\ UNCHANGED <<centreVars, waiting, consumer, known, late, cursor, told, past>>

-----------------------------------------------------------------------------
(* The consumer: waitForMessagesAndGetAsString.                            *)

\* Where the guard of a prompt begins: the permission of a lent device is
\* asked for every prompt, the claim only for a shared one not yet claimed.
Guard(k) ==
  LET suspended(site, allowed) == [at |-> site, head |-> k, allowed |-> allowed]
  IN IF k \in admitted THEN suspended("answered", TRUE)
     ELSE IF SharedRuntime THEN suspended("asking", FALSE)
     ELSE IF k \in Shared THEN suspended("claiming", FALSE)
     ELSE suspended("answered", TRUE)

LooksAtHead ==
  /\ consumer.at = "top"
  /\ queue # <<>>
  /\ consumer' = Guard(Head(queue))
  /\ UNCHANGED <<centreVars, waiting, known, late, feed, told, past, budget>>

FallsAsleep ==
  /\ consumer.at = "top"
  /\ queue = <<>>
  /\ consumer' = At("asleep")
  /\ UNCHANGED <<centreVars, waiting, known, late, feed, told, past, budget>>

\* Not allowed: wherever the prompt is by now, it is removed.
Discards(k) ==
  /\ consumer' = At("top")
  /\ queue' = RemoveFirst(queue, k)
  /\ receipts' = Told({k}, "withdrawn")
  /\ UNCHANGED <<centreVars, steering, known, feed, arrived, past>>

\* runtime/authorize is answered ...
DeviceAuthorizes ==
  /\ consumer.at = "asking"
  /\ device
  /\ consumer' = IF consumer.head \in Shared
                 THEN [consumer EXCEPT !.at = "claiming"]
                 ELSE [consumer EXCEPT !.at = "answered", !.allowed = TRUE]
  /\ UNCHANGED <<centreVars, waiting, known, late, feed, told, past, budget>>

DeviceRefuses ==
  /\ consumer.at = "asking"
  /\ ~device
  /\ Discards(consumer.head)
  /\ UNCHANGED <<late, budget>>

\* ... or fails, or times out.
DeviceUnknown ==
  /\ consumer.at = "asking"
  /\ Fault
  /\ Discards(consumer.head)
  /\ UNCHANGED late

\* commands/claim is carried out at the centre, for the consumer ...
ClaimServed ==
  /\ consumer.at = "claiming"
  /\ consumer' = [consumer EXCEPT !.at = "answered",
                                  !.allowed = ClaimAllowed(consumer.head)]
  /\ RecordClaim(consumer.head)
  /\ UNCHANGED <<waiting, known, late, feed, told, past, budget>>

\* ... or, if ever, for nobody any more.
LateClaimServed(k) ==
  /\ k \in late
  /\ late' = late \ {k}
  /\ RecordClaim(k)
  /\ UNCHANGED <<waiting, consumer, known, feed, told, past, budget>>

ClaimRefused ==
  /\ consumer.at = "answered" /\ ~consumer.allowed
  /\ Discards(consumer.head)
  /\ UNCHANGED <<late, budget>>

\* The claim times out before or after the centre has carried it out:
\* "Unknown delivery or lost authority must never execute."
ClaimTimesOut ==
  /\ \/ consumer.at = "claiming" /\ late' = late \cup {consumer.head}
     \/ consumer.at = "answered" /\ consumer.head \in Shared \ admitted
        /\ UNCHANGED late
  /\ Fault
  /\ Discards(consumer.head)

\* Mutant: a shared command may be joined with others.
OnlyClears(k) == k \in Clears

\* isolate: a turn of its own
Isolated(k) == k \in Shared \cup Clears

\* How many prompts a turn may take: the queue's mode and the prompts' own
\* modes decide among them.
BatchSizes ==
  {n \in 1..Len(queue) :
     n = 1 \/ \A i \in 1..n : ~Isolated(queue[i])}

\* A claim granted is remembered even if its prompt cannot run now.
Admits == admitted' = admitted \cup ({consumer.head} \cap Shared)

\* Mutant: what has become of the head meanwhile is not looked at.
SomethingWaits == consumer.allowed /\ queue # <<>>

\* The guard has allowed the prompt, and it is still at the head.
HeadMayRun == consumer.allowed /\ queue # <<>> /\ Head(queue) = consumer.head

\* collectBatch: the receipt precedes the removal, without a suspension.
HandsOver(n) ==
  /\ consumer.at = "answered"
  /\ HeadMayRun
  /\ n \in BatchSizes
  /\ LET batch == ToSet(SubSeq(queue, 1, n)) IN
     /\ receipts' = Told(batch, "released")
     /\ ran' = [k \in Keys |-> IF k \in batch THEN ran[k] + 1 ELSE ran[k]]
  /\ queue' = SubSeq(queue, n + 1, Len(queue))
  /\ consumer' = At("turn")
  /\ Admits
  /\ UNCHANGED <<centreVars, steering, reviewed, late, feed, arrived, restored,
                 lost, budget>>

LooksAgain ==
  /\ consumer.at = "answered" /\ consumer.allowed
  /\ ~HeadMayRun
  /\ consumer' = At("top")
  /\ Admits
  /\ UNCHANGED <<centreVars, waiting, reviewed, late, feed, told, past, budget>>

\* The turn completes, fails, or is interrupted.
TurnEnds ==
  /\ consumer.at = "turn"
  /\ consumer' = At("top")
  /\ UNCHANGED <<centreVars, waiting, known, late, feed, told, past, budget>>

-----------------------------------------------------------------------------
(* The app's buttons, and the hub's review of a report.                    *)

\* dequeue
Withdraws(k) ==
  /\ Waits(k)
  /\ receipts' = Told({k}, "withdrawn")
  /\ queue' = RemoveFirst(queue, k)
  /\ UNCHANGED <<centreVars, steering, consumer, known, late, feed, arrived,
                 past, budget>>

\* promote; the interruption of a running turn is TurnEnds
GoesNext(k) ==
  /\ Waits(k)
  /\ queue' = <<k>> \o RemoveFirst(queue, k)
  /\ Press
  /\ UNCHANGED <<centreVars, steering, consumer, known, late, feed, told, past>>

\* steer: "A shared prompt never joins another person's active turn."
Steers(k) ==
  /\ consumer.at = "turn"
  /\ k \in Own /\ Waits(k)
  /\ \E i \in DOMAIN queue :
       /\ queue[i] = k
       /\ steering' = steering \cup {[key |-> k, index |-> i]}
  /\ queue' = RemoveFirst(queue, k)
  /\ Press
  /\ UNCHANGED <<centreVars, consumer, known, late, feed, told, past>>

\* The engine took it into its turn ...
Steered(s) ==
  /\ s.key \notin Clears
  /\ steering' = steering \ {s}
  /\ receipts' = Told({s.key}, "released")
  /\ ran' = [ran EXCEPT ![s.key] = @ + 1]
  /\ UNCHANGED <<centreVars, queue, consumer, known, late, feed, arrived,
                 restored, lost, budget>>

\* ... or refused it: back where it was, whatever the consumer does by now.
SteerRefused(s) ==
  /\ steering' = steering \ {s}
  /\ queue' = InsertAt(queue, IF s.index <= Len(queue) THEN s.index
                                                     ELSE Len(queue) + 1, s.key)
  /\ restored' = restored \cup {s.key}
  /\ UNCHANGED <<centreVars, consumer, known, late, feed, told, lost, ran, budget>>

\* No answer: it may have been taken or not, and is not put back.
SteerUnconfirmed(s) ==
  /\ s.key \notin Clears
  /\ steering' = steering \ {s}
  /\ receipts' = Told({s.key}, "released")
  /\ \/ ran' = [ran EXCEPT ![s.key] = @ + 1]
     \/ UNCHANGED ran
  /\ Fault
  /\ UNCHANGED <<centreVars, queue, consumer, known, late, feed, arrived,
                 restored, lost>>

\* bindQueuedReportConsumer (await_report, review_report): the hub's turn has dealt with the report.
Reviews(r) ==
  /\ consumer.at = "turn"
  /\ r \in Reports \ reviewed
  /\ reviewed' = reviewed \cup {r}
  /\ receipts' = IF Waits(r) THEN Told({r}, "released") ELSE receipts
  /\ queue' = RemoveFirst(queue, r)
  /\ UNCHANGED <<centreVars, steering, consumer, admitted, late, feed, arrived,
                 past, budget>>

\* The process ends and another takes over, its cursor kept or further
\* on in the log; a device run may be resumed, under the device's current sharing.
Restart(resumed) ==
  /\ Fault
  /\ queue' = <<>> /\ steering' = {} /\ consumer' = At("top")
  /\ admitted' = {} /\ reviewed' = {} /\ restored' = {}
  /\ late' = IF consumer.at = "claiming" THEN late \cup {consumer.head} ELSE late
  /\ cursor' \in cursor..Len(log)
  /\ recovery' = [at |-> "due", found |-> {}]
  /\ arrived' = arrived \cap Own
  /\ receipts' = [k \in Keys |-> IF k \in Shared THEN {} ELSE receipts[k]]
  /\ lost' = lost \cup ((ToSet(queue) \cup Lifted) \cap Own)
  /\ IF resumed THEN SharedRuntime /\ ResumeRun ELSE UNCHANGED centreVars
  /\ UNCHANGED ran

-----------------------------------------------------------------------------

Reader == ReadsLog
Recoverer ==
  \/ AsksForPending \/ PendingComes
  \/ \E i \in recovery.found : TakesPending(i)
Consumer ==
  \/ LooksAtHead \/ FallsAsleep \/ LooksAgain
  \/ DeviceAuthorizes \/ DeviceRefuses
  \/ ClaimServed \/ ClaimRefused
  \/ \E n \in 1..Len(queue) : HandsOver(n)
  \/ TurnEnds
SteerAnswered == \E s \in steering : Steered(s) \/ SteerRefused(s)

\* What the centre does for others
Sharing ==
  /\ \/ \E k \in Shared : QueueCommand(k)
     \/ \E granted \in BOOLEAN : ChangeSharing(granted)
     \/ ChangeDeviceSharing
  /\ UNCHANGED <<waiting, consumer, known, late, feed, told, past, budget>>

Buttons ==
  \/ \E k \in Keys : Withdraws(k) \/ GoesNext(k) \/ Steers(k)
  \/ \E r \in Reports : Reviews(r)

Faults ==
  \/ PendingFails \/ DeviceUnknown \/ ClaimTimesOut
  \/ \E k \in Shared : LateClaimServed(k)
  \/ \E s \in steering : SteerUnconfirmed(s)
  \/ \E resumed \in BOOLEAN : Restart(resumed)

Next ==
  \/ \E k \in Own, interrupts \in BOOLEAN : Arrives(k, interrupts)
  \/ Reader \/ Recoverer \/ Consumer \/ SteerAnswered
  \/ Sharing \/ Buttons \/ Faults

Spec == Init /\ [][Next]_vars

\* The loops of a process keep running, requests are answered or time out,
\* turns end, the engine answers.  Nobody has to press, send or change anything.
Fairness ==
  /\ WF_vars(Reader) /\ WF_vars(Recoverer) /\ WF_vars(Consumer)
  /\ WF_vars(SteerAnswered)

FairSpec == Spec /\ Fairness

-----------------------------------------------------------------------------
(* Properties.                                                             *)

\* No prompt is handed to the engine twice: not over a timed-out claim, a
\* second delivery, a restart, or a steer whose answer was lost.
AtMostOnce == \A k \in Keys : ran[k] <= 1

\* What has arrived is waiting, or lifted out, or the app was told what became
\* of it, or its process has ended; and of a prompt of the owner the app is
\* told one thing, and only once it no longer waits (the queue's receipts).  A
\* report the hub has dealt with in a turn does not wait for one of its own, save
\* one that steering put back.
Accounted ==
  /\ ToSet(queue) \cap reviewed \subseteq restored
  /\ \A k \in arrived :
       Waits(k) \/ k \in Lifted \/ receipts[k] # {} \/ k \in lost
  /\ \A k \in Own :
       /\ Waits(k) \/ k \in Lifted => receipts[k] = {}
       /\ Waits(k) => k \notin Lifted
       /\ receipts[k] # {"released", "withdrawn"}
       /\ "withdrawn" \in receipts[k] => ran[k] = 0

\* A command that was waiting when the session's sharing changed is never run
\* afterwards, even if the same permission is granted again (policyVersion).
OutdatedNeverRuns ==
  \A k \in outdated : ran[k] = 0

\* The turn of a shared command is its own.
SharedRunsAlone ==
  [][\A k \in Shared, j \in Keys :
       ran'[k] # ran[k] /\ ran'[j] # ran[j] => j = k]_vars

\* The centre's record, and what runs, keep the promise made of shared commands.
Promise == INSTANCE CommandPromise WITH ran <- [k \in Shared |-> ran[k]]
KeepsPromise == Promise!Spec

\* A prompt that waits is handed over, withdrawn, consumed or lost, unless
\* steering has put it back.
LeavesQueue ==
  \A k \in Keys : Waits(k) ~> ~Waits(k) \/ k \in restored

\* A command stored at the centre is started or cancelled, or its sender is
\* told that it was not run, even if the process that should have read it ended.
Settles ==
  \A k \in Shared :
    command[k] = "queued" ~> command[k] # "queued" \/ receipts[k] # {}

\* "How queued prompts are handed to the engine once it is free": no prompt
\* waits for ever.  The code does not keep this: see LeavesQueue.
HandedOnceFree == \A k \in Keys : Waits(k) ~> ~Waits(k)
=============================================================================
