--------------------------- MODULE MCLinkSessions ---------------------------
(* Small instances of LinkSessions for TLC. *)
EXTENDS LinkSessions

\* An inbound session of a client is kept longer than any other, and both
\* longer than a handshake that has not got to its LIMs.
SomeAliveTimeout == [s \in Sides |-> IF s = "in" THEN 3 ELSE 2]
=============================================================================
