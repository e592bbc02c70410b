-------------------------- MODULE MCTransportCalls --------------------------
EXTENDS TransportCalls, TLC

Symmetry == Permutations(Threads)
=============================================================================
