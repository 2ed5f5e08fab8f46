-------------------------- MODULE MCSessionMetadata --------------------------
EXTENDS SessionMetadata, TLC
CONSTANTS cli, app, plain, strict, first, second

MCCaller == (plain :> cli) @@ (strict :> cli) @@ (first :> app) @@ (second :> app)
=============================================================================
