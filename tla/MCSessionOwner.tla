--------------------------- MODULE MCSessionOwner ---------------------------
EXTENDS SessionOwner
=============================================================================
