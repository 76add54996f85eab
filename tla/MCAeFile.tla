------------------------------ MODULE MCAeFile ------------------------------
(* Instances of AeFile for TLC.                                            *)
EXTENDS AeFile, TLC

\* Handlers are only compared with each other.
Interchangeable == Permutations(Proc)
=============================================================================
