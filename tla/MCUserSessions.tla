--------------------------- MODULE MCUserSessions ---------------------------
EXTENDS UserSessions
=============================================================================
