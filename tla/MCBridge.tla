------------------------------ MODULE MCBridge ------------------------------
EXTENDS Bridge, TLC

CONSTANTS t1, t2

Interchangeable == Permutations(Transfers)
=============================================================================
