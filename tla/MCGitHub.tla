------------------------------ MODULE MCGitHub ------------------------------
EXTENDS GitHub
CONSTANTS pull, job, other
MCPrOf   == [r \in Rows |-> pull]
MCTaskOf == [r \in Rows |-> CASE r = 1 -> job [] r = 2 -> None [] r = 3 -> other]
=============================================================================
