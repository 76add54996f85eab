------------------------------ MODULE MCVector ------------------------------
(* Instances of Vector for TLC.                                            *)
EXTENDS Vector

CONSTANTS a, b

\* Two elements that compare equal, and one that does not.
TwoAlike == {[key |-> 1, tag |-> a], [key |-> 1, tag |-> b],
             [key |-> 2, tag |-> a]}
=============================================================================
