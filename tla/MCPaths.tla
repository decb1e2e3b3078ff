------------------------------ MODULE MCPaths -------------------------------
\* Paths, for TLC.
EXTENDS Paths
=============================================================================
