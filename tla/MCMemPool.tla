----------------------------- MODULE MCMemPool -----------------------------
(* Finite instances of MemPool for TLC.                                    *)
EXTENDS MemPool, TLC

\* Clients and nodes are interchangeable: no action or property of MemPool
\* names one.
Interchangeable == Permutations(Client) \cup Permutations(Node)

\* TLC checks the states in which a cleaning has strayed and goes no further:
\* a node then has two owners, and what the program does with it after that
\* is undefined.
NotStrayed == ~strayed
=============================================================================
