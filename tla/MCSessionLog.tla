---------------------------- MODULE MCSessionLog ----------------------------
(* Instances of SessionLog for TLC.                                         *)
EXTENDS SessionLog

CONSTANTS cli, app, s1
=============================================================================
