----------------------------- MODULE LogPromise -----------------------------
(***************************************************************************)
(* What a session's message log promises to the process that works on the  *)
(* session, with no request, page or cursor in sight: the log only grows,  *)
(* and its messages reach the process once each, in the order of the log.  *)
(***************************************************************************)
EXTENDS Naturals, Sequences

CONSTANT Messages

VARIABLES
  log,     \* the messages of the session, in their order
  routed   \* those the process has been given, in that order

vars == <<log, routed>>

IsPrefixOf(s, t) == Len(s) <= Len(t) /\ s = SubSeq(t, 1, Len(s))

Init ==
  /\ log = <<>>
  /\ routed = <<>>

\* One request may store several messages, and no message is stored twice.
Store ==
  /\ log' \in Seq(Messages)
  /\ IsPrefixOf(log, log')
  /\ \A i, j \in DOMAIN log' : log'[i] = log'[j] => i = j
  /\ UNCHANGED routed

\* One page may carry several messages.
Route ==
  /\ routed' \in Seq(Messages)
  /\ IsPrefixOf(routed, routed')
  /\ IsPrefixOf(routed', log)
  /\ UNCHANGED log

Next == Store \/ Route

Spec == Init /\ [][Next]_vars
=============================================================================
