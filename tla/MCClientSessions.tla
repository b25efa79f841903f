--------------------------- MODULE MCClientSessions ---------------------------
EXTENDS ClientSessions
=============================================================================
