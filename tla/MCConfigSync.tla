---------------------------- MODULE MCConfigSync ----------------------------
\* Small instances of ConfigSync.
EXTENDS ConfigSync, TLC

Alike == Permutations(Paths) \cup Permutations(Posts) \cup Permutations(Terminals)
=============================================================================
