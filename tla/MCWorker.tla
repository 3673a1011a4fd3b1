------------------------------- MODULE MCWorker -------------------------------
EXTENDS Worker, TLC
CONSTANTS p1, p2, w1, w2

MCPaths    == {p1, p2}
MCWorkers  == {w1, w2}
Symmetries == Permutations(MCPaths) \cup Permutations(MCWorkers)
=============================================================================
