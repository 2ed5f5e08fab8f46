--------------------------- MODULE MetadataPromise ---------------------------
(***************************************************************************)
(* What the centre promises to those who change one session's metadata     *)
(* together, with no versions, requests or copies in sight: a change that  *)
(* was taken is never undone by somebody else's, and whoever is told that  *)
(* a change was taken is told the truth.                                   *)
(***************************************************************************)
CONSTANT Updates     \* changes, each to a part of the metadata of its own

VARIABLES
  value,   \* the changes the metadata shows
  told     \* those whose authors know that they were taken

vars == <<value, told>>

Init ==
  /\ value = {}
  /\ told = {}

Take(u) ==
  /\ value' = value \cup {u}
  /\ UNCHANGED told

Tell(u) ==
  /\ u \in value
  /\ told' = told \cup {u}
  /\ UNCHANGED value

Next == \E u \in Updates : Take(u) \/ Tell(u)

Spec == Init /\ [][Next]_vars
=============================================================================
