--------------------------- MODULE Presence_proofs ---------------------------
(***************************************************************************)
(* Proofs about Presence, for all times, bounds and ways to stop.          *)
(***************************************************************************)
EXTENDS Presence, TLAPS

\* A written stop is either not yet cleared or being observed.
DownWhileStopped == down => archiving \/ IsStopped

OnlyArchives == archiving => "archive" \in Stops

IInv == TypeOK /\ StoppedNotCached /\ DownWhileStopped /\ OnlyArchives

-----------------------------------------------------------------------------

LEMMA InitInv == Init => IInv
<1> SUFFICES ASSUME Init PROVE IInv
  OBVIOUS
<1>1. 1 \in Times /\ 0 \in 0..MaxClock /\ 0 \in Nat
  BY ConstantsAssumption DEF ConstantsAssumption, Times
<1>2. NoEntry \in Entries
  BY <1>1 DEF NoEntry, Entries
<1>3. row \in [active : BOOLEAN, at : Times]
  BY <1>1 DEF Init
<1>4. TypeOK
  BY <1>1, <1>2, <1>3 DEF Init, TypeOK
<1> QED
  BY <1>4 DEF Init, IInv, StoppedNotCached, DownWhileStopped, OnlyArchives, IsStopped

LEMMA QueuedType ==
  ASSUME NEW e \in Entries, NEW t \in Times
  PROVE  Queued(e, t) \in Entries
BY ConstantsAssumption DEF ConstantsAssumption, Queued, Entries, Times

\* Handling a heartbeat.
LEMMA BeatInv ==
  ASSUME IInv, NEW t \in Reported, Hit(t) \/ Miss(t)
  PROVE  IInv'
<1> USE ConstantsAssumption
    DEF ConstantsAssumption, IInv, TypeOK, StoppedNotCached, DownWhileStopped,
        OnlyArchives, IsStopped
<1>t. t \in Times
  BY DEF Reported
<1>1. CASE Hit(t)
  <2>1. cache' \in Entries
    BY <1>1, <1>t, QueuedType DEF Hit
  <2> QED BY <1>1, <2>1 DEF Hit
<1>2. CASE Miss(t)
  <2>1. [t |-> t, until |-> clock + CacheTTL, at |-> 0] \in Beats
    BY <1>t DEF Beats, Times
  <2> QED BY <1>2, <2>1 DEF Miss
<1> QED BY <1>1, <1>2

\* Ending a look-up.
LEMMA LookupInv ==
  ASSUME IInv, NEW b \in beats, Read(b) \/ Answer(b) \/ LookupFails(b)
  PROVE  IInv'
<1> USE ConstantsAssumption
    DEF ConstantsAssumption, IInv, TypeOK, StoppedNotCached, DownWhileStopped,
        OnlyArchives, IsStopped
<1>b. b \in Beats
  OBVIOUS
<1>1. CASE Read(b)
  <2>1. [b EXCEPT !.at = row.at] \in Beats
    BY <1>b DEF Beats, Times
  <2> QED BY <1>1, <2>1 DEF Read
<1>2. CASE Answer(b)
  <2>1. [until |-> b.until, sent |-> b.at, pending |-> 0] \in Entries
    BY <1>b DEF Beats, Entries
  <2>2. Queued([until |-> b.until, sent |-> b.at, pending |-> 0], b.t) \in Entries
    BY <1>b, <2>1, QueuedType DEF Beats
  <2>3. cache' \in Entries
    BY <1>2, <2>2 DEF Answer
  <2>4. StoppedNotCached'
    BY <1>2 DEF Answer, Accepted
  <2> QED BY <1>2, <2>3, <2>4 DEF Answer
<1>3. CASE LookupFails(b)
  BY <1>3 DEF LookupFails
<1> QED BY <1>1, <1>2, <1>3

\* The batches.
LEMMA FlushInv ==
  ASSUME IInv,
         Collect \/ Cleanup \/ \E t \in flushes : Flush(t) \/ FlushFails(t)
  PROVE  IInv'
<1> USE ConstantsAssumption
    DEF ConstantsAssumption, IInv, TypeOK, StoppedNotCached, DownWhileStopped,
        OnlyArchives, IsStopped
<1>1. CASE Collect
  <2>1. cache.pending \in 0..MaxClock /\ cache.pending # 0
    BY <1>1 DEF Collect, Entries
  <2>2. cache.pending \in Times
    BY <2>1 DEF Times
  <2>3. 0 \in 0..MaxClock
    OBVIOUS
  <2>4. cache' \in Entries
    BY <1>1, <2>1, <2>3 DEF Collect, Entries
  <2>5. cache # NoEntry
    BY <2>1 DEF NoEntry
  <2> QED BY <1>1, <2>2, <2>4, <2>5 DEF Collect
<1>2. CASE Cleanup
  <2>1. NoEntry \in Entries
    BY DEF NoEntry, Entries
  <2> QED BY <1>2, <2>1 DEF Cleanup
<1>3. ASSUME NEW t \in flushes, Flush(t)
      PROVE  IInv'
  BY <1>3 DEF Flush
<1>4. ASSUME NEW t \in flushes, FlushFails(t)
      PROVE  IInv'
  BY <1>4 DEF FlushFails
<1> QED BY <1>1, <1>2, <1>3, <1>4

LEMMA ClearStops ==
  ASSUME TypeOK, Clear
  PROVE  /\ cache' = NoEntry /\ cache' \in Entries
         /\ stopped' \in Nat /\ stopped' > clock
BY ConstantsAssumption DEF ConstantsAssumption, TypeOK, Clear, NoEntry, Entries, Times

\* The stops and what lifts them.
LEMMA StopInv ==
  ASSUME IInv,
         \/ \E t \in Reported : End(t)
         \/ \E t \in endings : EndWritten(t) \/ EndFails(t)
         \/ ArchiveWritten \/ ArchiveCleared \/ Resume \/ Tick
  PROVE  IInv'
<1> USE DEF IInv, TypeOK, StoppedNotCached, DownWhileStopped, OnlyArchives,
            IsStopped
<1>1. ASSUME NEW t \in Reported, End(t)
      PROVE  IInv'
  BY <1>1, ClearStops DEF End, Reported
<1>2. ASSUME NEW t \in endings, EndWritten(t)
      PROVE  IInv'
  BY <1>2 DEF EndWritten
<1>3. ASSUME NEW t \in endings, EndFails(t)
      PROVE  IInv'
  BY <1>3 DEF EndFails
<1>4. CASE ArchiveWritten
  BY <1>4 DEF ArchiveWritten
<1>5. CASE ArchiveCleared
  BY <1>5, ClearStops DEF ArchiveCleared
<1>6. CASE Resume
  <2>1. clock \in Nat /\ clock > 0
    BY ConstantsAssumption DEF ConstantsAssumption, Times
  <2>2. TypeOK'
    BY <1>6 DEF Resume
  <2>3. StoppedNotCached'
    BY <1>6, <2>1 DEF Resume
  <2> QED BY <1>6, <2>2, <2>3 DEF Resume
<1>7. CASE Tick
  BY <1>7, ConstantsAssumption DEF ConstantsAssumption, Tick, Times
<1> QED BY <1>1, <1>2, <1>3, <1>4, <1>5, <1>6, <1>7

LEMMA SweepInv ==
  ASSUME IInv, SweepRead \/ SweepWritten \/ SweepFails
  PROVE  IInv'
<1> USE DEF IInv, TypeOK, StoppedNotCached, DownWhileStopped, OnlyArchives, IsStopped
<1>1. row.at \in Times /\ row.at \in 0..MaxClock /\ 0 \in 0..MaxClock
  BY ConstantsAssumption DEF ConstantsAssumption, Times
<1>2. CASE SweepRead
  BY <1>1, <1>2 DEF SweepRead
<1>3. CASE SweepWritten
  <2>1. row' \in [active : BOOLEAN, at : Times]
    BY <1>3 DEF SweepWritten
  <2> QED BY <1>1, <1>3, <2>1 DEF SweepWritten
<1>4. CASE SweepFails
  BY <1>1, <1>4 DEF SweepFails
<1> QED BY <1>2, <1>3, <1>4

\* A restart forgets the stops and what they suppress.
LEMMA RestartInv ==
  ASSUME IInv, Restart
  PROVE  IInv'
<1>1. clock \in Nat /\ clock > 0 /\ 0 \in 0..MaxClock
  BY ConstantsAssumption DEF ConstantsAssumption, IInv, TypeOK, Times
<1>2. NoEntry \in Entries
  BY <1>1 DEF NoEntry, Entries
<1>3. TypeOK'
  BY <1>1, <1>2 DEF IInv, TypeOK, Restart
<1> QED
  BY <1>3 DEF Restart, IInv, StoppedNotCached, DownWhileStopped, OnlyArchives

LEMMA StepInv == IInv /\ [Next]_vars => IInv'
<1> SUFFICES ASSUME IInv, [Next]_vars PROVE IInv'
  OBVIOUS
<1>1. CASE UNCHANGED vars
  BY <1>1 DEF vars, IInv, TypeOK, StoppedNotCached, DownWhileStopped,
              OnlyArchives, IsStopped
<1>2. CASE Next
  BY <1>2, BeatInv, LookupInv, FlushInv, StopInv, SweepInv, RestartInv DEF Next
<1> QED BY <1>1, <1>2

THEOREM InvCorrect == Spec => []IInv
BY InitInv, StepInv, PTL DEF Spec

-----------------------------------------------------------------------------

\* Every variable of Presence always has its type.
THEOREM TypeCorrect == Spec => []TypeOK
BY InvCorrect, PTL DEF IInv

\* However look-ups, clears and expiry interleave, a session whose heartbeats
\* are ignored has no entry in the cache.
THEOREM StoppedIsNotCached == Spec => []StoppedNotCached
BY InvCorrect, PTL DEF IInv

\* Collecting needs an entry, and a session that is being suppressed has none.
LEMMA CollectNotStopped == IInv /\ Collect => ~IsStopped
<1> SUFFICES ASSUME IInv, Collect PROVE ~IsStopped
  OBVIOUS
<1>1. cache # NoEntry
  BY DEF Collect, NoEntry
<1> QED BY <1>1 DEF IInv, StoppedNotCached

\* No flush collects a heartbeat of a session whose stop has been written and
\* cleared, however the stop came about.
THEOREM NothingIsCollectedOnceStopped == Spec => NothingCollectedOnceStopped
<1>1. IInv /\ [Next]_vars => [Collect => ~down \/ archiving]_vars
  BY CollectNotStopped DEF IInv, DownWhileStopped
<1> QED
  BY <1>1, InvCorrect, PTL DEF Spec, NothingCollectedOnceStopped

\* If every stop clears before it writes, as session-end does, nothing is
\* collected once a stop has been written.  The archive route, which writes
\* first, is what the assumption excludes.
THEOREM NothingIsCollectedWhileDown ==
  ASSUME "archive" \notin Stops
  PROVE  Spec => NothingCollectedWhileDown
<1>1. IInv /\ [Next]_vars => [Collect => ~down]_vars
  BY CollectNotStopped DEF IInv, DownWhileStopped, OnlyArchives
<1> QED
  BY <1>1, InvCorrect, PTL DEF Spec, NothingCollectedWhileDown

\* The sweep deactivates only a session that has been silent for the timeout:
\* the row it writes is still the one it has judged.
SweepJudged == sweep # 0 => sweep + TimeoutAfter <= clock

LEMMA SweepJudgedStep == IInv /\ SweepJudged /\ [Next]_vars => SweepJudged'
<1> SUFFICES ASSUME IInv, SweepJudged, [Next]_vars PROVE SweepJudged'
  OBVIOUS
<1> USE ConstantsAssumption DEF ConstantsAssumption, IInv, TypeOK, SweepJudged, Times
<1>1. CASE SweepRead
  BY <1>1 DEF SweepRead
<1>2. CASE SweepWritten
  BY <1>2 DEF SweepWritten
<1>3. CASE Tick
  BY <1>3 DEF Tick
<1>4. CASE SweepFails \/ Restart
  BY <1>4 DEF SweepFails, Restart
<1>5. CASE ~(SweepRead \/ SweepWritten \/ Tick \/ SweepFails \/ Restart)
  <2>1. UNCHANGED <<sweep, clock>>
    BY <1>5 DEF Next, vars, Hit, Miss, End, Read, Answer, LookupFails, Collect,
                Cleanup, Flush, FlushFails, EndWritten, EndFails,
                ArchiveWritten, ArchiveCleared, Resume
  <2> QED BY <2>1
<1> QED BY <1>1, <1>2, <1>3, <1>4, <1>5

THEOREM SweepIsRight == Spec => TimedOutOnlyWhenSilent
<1>1. Init => SweepJudged
  BY DEF Init, SweepJudged
<1>2. IInv /\ SweepJudged /\ [Next]_vars
        => [SweepWritten /\ row' # row => row.at + TimeoutAfter <= clock]_vars
  <2> SUFFICES ASSUME SweepJudged, SweepWritten, row' # row
               PROVE  row.at + TimeoutAfter <= clock
    OBVIOUS
  <2> QED BY DEF SweepJudged, SweepWritten, SweepHits
<1> QED
  BY <1>1, <1>2, InvCorrect, SweepJudgedStep, PTL DEF Spec, TimedOutOnlyWhenSilent
=============================================================================
