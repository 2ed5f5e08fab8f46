--------------------------- MODULE MCPromptQueue ---------------------------
EXTENDS PromptQueue, TLC
CONSTANTS p, r, c, s

MCOwn == {p, c, r}
MCPlain == {p}
MCClears == {c}
MCReports == {r}
MCShared == {s}
=============================================================================
