------------------------------ MODULE MCSpgRef ------------------------------
EXTENDS SpgRef, TLC

Interchangeable == Permutations(Reference)
=============================================================================
