------------------------------ MODULE MCWrFile ------------------------------
(* Instances of WrFile for TLC.                                            *)
EXTENDS WrFile

\* One chunk before the end, and the beginning.
EndOrBegin == {-2, 0}

\* Objects and files are only told apart.
Interchangeable == Permutations(Handle) \cup Permutations(Inode)
=============================================================================
