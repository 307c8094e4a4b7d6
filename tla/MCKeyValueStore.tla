---------------------------- MODULE MCKeyValueStore ----------------------------
EXTENDS KeyValueStore, TLC

CONSTANTS c1, c2, k1

Symmetry == Permutations(Clients)
=============================================================================
