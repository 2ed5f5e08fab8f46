------------------------------ MODULE Presence ------------------------------
(***************************************************************************)
(* Whether a session is shown as active (app/presence at the centre): its  *)
(* heartbeats are checked against a cache, written to the database in       *)
(* batches, ignored for a while after the session was stopped, and missed  *)
(* by a sweep that times sessions out.                                     *)
(*                                                                         *)
(* One action is the code between two awaits, or one database statement.   *)
(* Times are multiples of half a minute and begin at 1.                    *)
(***************************************************************************)
EXTENDS Naturals, FiniteSets

CONSTANTS
  Threshold,      \* UPDATE_THRESHOLD
  CacheTTL,       \* CACHE_TTL
  StoppedTTL,     \* STOPPED_TTL
  TimeoutAfter,   \* after what silence a session is timed out
  Stops,          \* how the session is stopped: by "end", by "archive"
  MaxClock,       \* bound on time
  MaxUnderWay     \* bound on heartbeats, and on writes, under way

ASSUME ConstantsAssumption ==
  /\ Threshold \in Nat /\ CacheTTL \in Nat /\ StoppedTTL \in Nat \ {0}
  /\ TimeoutAfter \in Nat
  /\ Stops \subseteq {"end", "archive"}
  /\ MaxClock \in Nat \ {0} /\ MaxUnderWay \in Nat

VARIABLES
  clock,
  row,         \* the session in the database: active, lastActiveAt
  cache,       \* its entry in the cache, if any
  stopped,     \* until when its heartbeats are ignored, 0 if they are not
  beats,       \* heartbeats whose session is being looked up
  flushes,     \* collected heartbeats whose write is under way
  endings,     \* writes under way of session-end
  archiving,   \* the archive route has written, but not cleared the cache
  sweep,       \* lastActiveAt the sweep has read, 0 if none
  down         \* history: stopped, and nothing has happened to lift it

vars == <<clock, row, cache, stopped, beats, flushes, endings, archiving,
          sweep, down>>

Times == 1..MaxClock
NoEntry == [until |-> 0, sent |-> 0, pending |-> 0]
Entries == [until : Nat, sent : 0..MaxClock, pending : 0..MaxClock]

Init ==
  /\ clock = 1
  /\ row = [active |-> TRUE, at |-> 1]
  /\ cache = NoEntry
  /\ stopped = 0
  /\ beats = {} /\ flushes = {} /\ endings = {}
  /\ archiving = FALSE
  /\ sweep = 0
  /\ down = FALSE

IsStopped == stopped > clock

\* Mutant: a client's clock may be ahead.
ReportedAhead == {t \in 1..MaxClock + 1 : t <= clock + 1 /\ clock <= t + 1}

\* A time a client reports: now or a little earlier.
Reported == {t \in Times : t <= clock /\ clock <= t + 1}

\* Time lifts a stop once the clearing that belongs to it has been done.
Tick ==
  /\ clock < MaxClock
  /\ clock' = clock + 1
  /\ down' = (down /\ (archiving \/ stopped > clock + 1))
  /\ UNCHANGED <<row, cache, stopped, beats, flushes, endings, archiving, sweep>>

-----------------------------------------------------------------------------

Significant(t, sent) == t > sent + Threshold \/ sent > t + Threshold

\* queueSessionUpdate, unless the session is stopped or not cached
Queued(entry, t) ==
  IF Significant(t, entry.sent) THEN [entry EXCEPT !.pending = t] ELSE entry

\* session-alive: a valid entry is used at once, ...
Hit(t) ==
  /\ ~IsStopped
  /\ cache # NoEntry /\ cache.until > clock
  /\ cache' = Queued(cache, t)
  /\ UNCHANGED <<clock, row, stopped, beats, flushes, endings, archiving, sweep,
                 down>>

\* ... otherwise the database is asked.
Miss(t) ==
  /\ ~IsStopped
  /\ cache = NoEntry \/ cache.until <= clock
  /\ Cardinality(beats) < MaxUnderWay
  /\ beats' = beats \cup {[t |-> t, until |-> clock + CacheTTL, at |-> 0]}
  /\ UNCHANGED <<clock, row, cache, stopped, flushes, endings, archiving, sweep,
                 down>>

Read(b) ==
  /\ b.at = 0
  /\ beats' = (beats \ {b}) \cup {[b EXCEPT !.at = row.at]}
  /\ UNCHANGED <<clock, row, cache, stopped, flushes, endings, archiving, sweep,
                 down>>

\* Mutant: a stop during the look-up goes unnoticed.
AcceptedAnyhow(b) == TRUE

\* The session may have been stopped while it was looked up.
Accepted(b) == ~IsStopped

Answer(b) ==
  /\ b.at # 0
  /\ beats' = beats \ {b}
  /\ cache' = IF Accepted(b)
              THEN Queued([until |-> b.until, sent |-> b.at, pending |-> 0], b.t)
              ELSE cache
  /\ UNCHANGED <<clock, row, stopped, flushes, endings, archiving, sweep, down>>

LookupFails(b) ==
  /\ beats' = beats \ {b}
  /\ UNCHANGED <<clock, row, cache, stopped, flushes, endings, archiving, sweep,
                 down>>

\* flushPendingUpdates up to its first await
Collect ==
  /\ cache.pending # 0
  /\ Cardinality(flushes) < MaxUnderWay
  /\ flushes' = flushes \cup {cache.pending}
  /\ cache' = [cache EXCEPT !.sent = cache.pending, !.pending = 0]
  /\ UNCHANGED <<clock, row, stopped, beats, endings, archiving, sweep, down>>

Flush(t) ==
  /\ row' = [active |-> TRUE, at |-> t]
  /\ flushes' = flushes \ {t}
  /\ UNCHANGED <<clock, cache, stopped, beats, endings, archiving, sweep, down>>

FlushFails(t) ==
  /\ flushes' = flushes \ {t}
  /\ UNCHANGED <<clock, row, cache, stopped, beats, endings, archiving, sweep,
                 down>>

Cleanup ==
  /\ cache.until < clock
  /\ cache' = NoEntry
  /\ UNCHANGED <<clock, row, stopped, beats, flushes, endings, archiving, sweep,
                 down>>

-----------------------------------------------------------------------------

\* Mutant: later heartbeats are ignored, what earlier ones queued is not dropped.
ClearKeepingEntry ==
  /\ cache' = cache
  /\ stopped' = clock + StoppedTTL

\* clearSessionUpdates
Clear ==
  /\ cache' = NoEntry
  /\ stopped' = clock + StoppedTTL

\* session-end clears and then writes.
End(t) ==
  /\ "end" \in Stops
  /\ Cardinality(endings) < MaxUnderWay
  /\ Clear
  /\ endings' = endings \cup {t}
  /\ UNCHANGED <<clock, row, beats, flushes, archiving, sweep, down>>

\* It counts as a stop unless the clearing that came before it has expired
\* or been lifted meanwhile.
EndWritten(t) ==
  /\ row' = [active |-> FALSE, at |-> t]
  /\ endings' = endings \ {t}
  /\ down' = (down \/ IsStopped)
  /\ UNCHANGED <<clock, cache, stopped, beats, flushes, archiving, sweep>>

EndFails(t) ==
  /\ endings' = endings \ {t}
  /\ UNCHANGED <<clock, row, cache, stopped, beats, flushes, archiving, sweep,
                 down>>

\* The archive route writes and then clears.
ArchiveWritten ==
  /\ "archive" \in Stops
  /\ ~archiving
  /\ row' = [active |-> FALSE, at |-> clock]
  /\ archiving' = TRUE
  /\ down' = TRUE
  /\ UNCHANGED <<clock, cache, stopped, beats, flushes, endings, sweep>>

ArchiveCleared ==
  /\ archiving
  /\ Clear
  /\ archiving' = FALSE
  /\ UNCHANGED <<clock, row, beats, flushes, endings, sweep, down>>

\* POST /v1/sessions: the session starts up again.
Resume ==
  /\ stopped' = 0
  /\ down' = FALSE
  /\ UNCHANGED <<clock, row, cache, beats, flushes, endings, archiving, sweep>>

\* startTimeout: what is read is written only if nothing changed meanwhile.
SweepRead ==
  /\ sweep = 0
  /\ row.active /\ row.at + TimeoutAfter <= clock
  /\ sweep' = row.at
  /\ UNCHANGED <<clock, row, cache, stopped, beats, flushes, endings, archiving,
                 down>>

\* Mutant: the row may have changed since it was read.
SweepHitsAnyhow == row.active

SweepHits == row.active /\ row.at = sweep

SweepWritten ==
  /\ sweep # 0
  /\ row' = IF SweepHits THEN [row EXCEPT !.active = FALSE] ELSE row
  /\ sweep' = 0
  /\ UNCHANGED <<clock, cache, stopped, beats, flushes, endings, archiving, down>>

SweepFails ==
  /\ sweep # 0
  /\ sweep' = 0
  /\ UNCHANGED <<clock, row, cache, stopped, beats, flushes, endings, archiving,
                 down>>

\* The centre restarts: all but the database is forgotten, stops included.
\* (A shutdown collects and flushes first, which are steps of their own.)
Restart ==
  /\ cache' = NoEntry /\ stopped' = 0 /\ sweep' = 0
  /\ beats' = {} /\ flushes' = {} /\ endings' = {}
  /\ archiving' = FALSE /\ down' = FALSE
  /\ UNCHANGED <<clock, row>>

Next ==
  \/ Tick
  \/ \E t \in Reported : Hit(t) \/ Miss(t) \/ End(t)
  \/ \E b \in beats : Read(b) \/ Answer(b) \/ LookupFails(b)
  \/ Collect \/ Cleanup
  \/ \E t \in flushes : Flush(t) \/ FlushFails(t)
  \/ \E t \in endings : EndWritten(t) \/ EndFails(t)
  \/ ArchiveWritten \/ ArchiveCleared \/ Resume
  \/ SweepRead \/ SweepWritten \/ SweepFails
  \/ Restart

Spec == Init /\ [][Next]_vars

-----------------------------------------------------------------------------

Beats == [t : Times, until : Nat, at : 0..MaxClock]

\* Every variable holds what the code can put there.
TypeOK ==
  /\ clock \in Times
  /\ row \in [active : BOOLEAN, at : Times]
  /\ cache \in Entries
  /\ stopped \in Nat
  /\ beats \subseteq Beats
  /\ flushes \subseteq Times /\ endings \subseteq Times
  /\ archiving \in BOOLEAN /\ down \in BOOLEAN
  /\ sweep \in 0..MaxClock

\* While the heartbeats of a session are ignored it has no entry that a flush
\* could collect, although look-ups begun before the stop end after it.
StoppedNotCached == IsStopped => cache = NoEntry

\* A flush collects nothing of a session whose stop has been written and
\* cleared, until the stop is lifted, whatever was under way when it was stopped.
NothingCollectedOnceStopped == [][Collect => ~down \/ archiving]_vars

\* Nor does it between the two ("Call this before the deactivating write").
NothingCollectedWhileDown == [][Collect => ~down]_vars

\* A session that has been stopped stays inactive until the stop is lifted.
StaysDown == down => ~row.active

\* The sweep deactivates only a session from which nothing has been written
\* for as long as the timeout, although it decides on what it read earlier.
TimedOutOnlyWhenSilent ==
  [][SweepWritten /\ row' # row => row.at + TimeoutAfter <= clock]_vars
=============================================================================
