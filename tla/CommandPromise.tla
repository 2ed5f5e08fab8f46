--------------------------- MODULE CommandPromise ---------------------------
(***************************************************************************)
(* What is promised of a prompt that somebody else sends to a session      *)
(* shared with them (a shared command): it waits at the centre, its        *)
(* permission is checked once, when a process claims it, and only then, at *)
(* most once and in a turn of its own, is it handed to the engine.         *)
(***************************************************************************)
EXTENDS Naturals

CONSTANT Shared     \* shared commands

VARIABLES
  command,   \* what the centre has recorded of each
  ran        \* how often each was handed to an engine

vars == <<command, ran>>

Init ==
  /\ command = [k \in Shared |-> "none"]
  /\ ran = [k \in Shared |-> 0]

Record(k, from, to) ==
  /\ command[k] = from
  /\ command' = [command EXCEPT ![k] = to]
  /\ UNCHANGED ran

\* A command claimed may be lost with its process: it then never runs.
Run(k) ==
  /\ command[k] = "started" /\ ran[k] = 0
  /\ ran' = [ran EXCEPT ![k] = 1]
  /\ UNCHANGED command

Next ==
  \E k \in Shared :
    \/ Record(k, "none", "queued")
    \/ Record(k, "queued", "started")
    \/ Record(k, "queued", "cancelled")
    \/ Run(k)

Spec == Init /\ [][Next]_vars
=============================================================================
