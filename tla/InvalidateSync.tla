--------------------------- MODULE InvalidateSync ---------------------------
(***************************************************************************)
(* The protocol by which background work is asked for and repeated         *)
(* (utils/sync.ts), as operators on its state: a request made while the    *)
(* command runs causes one more run, a failing command is repeated after a *)
(* pause, and whoever waits is told after the last run.                    *)
(***************************************************************************)
EXTENDS Naturals

\* Whether runs are asked for (_invalidated), and one more (_invalidatedDouble)
Idle == [invalidated |-> FALSE, again |-> FALSE]
SyncStates == [invalidated : BOOLEAN, again : BOOLEAN]

\* Mutant: a request during a run is taken to be served by that run.
InvalidatedOnce(s) == [s EXCEPT !.invalidated = TRUE]

\* invalidate
Invalidated(s) ==
  IF s.invalidated THEN [s EXCEPT !.again = TRUE]
                   ELSE [invalidated |-> TRUE, again |-> FALSE]

\* The command starts at once if none was asked for.
Starts(s) == ~s.invalidated

\* Mutant: the state is not reset when no run follows.
NeverIdle(s) == [s EXCEPT !.again = FALSE]

\* _doSync, after the command has succeeded
Completed(s) == IF s.again THEN [s EXCEPT !.again = FALSE] ELSE Idle

RunsAgain(s) == s.again

\* Those who wait are told only if no run follows.
TellsWaiters(s) == ~s.again
=============================================================================
