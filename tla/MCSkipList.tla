----------------------------- MODULE MCSkipList -----------------------------
EXTENDS SkipList, TLC

Interchangeable == Permutations(Nodes)
=============================================================================
