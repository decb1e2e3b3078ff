------------------------ MODULE MCOutboundSessions -------------------------
EXTENDS OutboundSessions, TLC

SessionSymmetry == Permutations(Messages) \cup Permutations(Routers)
=============================================================================
