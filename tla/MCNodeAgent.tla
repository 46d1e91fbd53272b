---------------------------- MODULE MCNodeAgent ----------------------------
EXTENDS NodeAgent, TLC

\* A connection is only compared with itself.
Interchangeable == Permutations(Conns)
============================================================================
