------------------------------- MODULE MCUtil -------------------------------
(* The models that have no variable in common, in one run: a behaviour uses *)
(* one of them at a time, and another one only when what was used is as it  *)
(* was at first.  Each so takes every step that its own specification       *)
(* allows, and none that it does not.                                       *)
EXTENDS LinkedList, SkipList, Checksums, ZMalloc, TLC

\* The bytes 0x01 and 0x82.
TwoBytes == { {0}, {1, 7} }

Interchangeable == Permutations(Lists) \cup Permutations(Entries) \cup Permutations(Blocks)

UtilInit == Init /\ SklInit /\ SumInit /\ ZmallocInit

UtilNext ==
    \/ SklInit /\ SumInit /\ ZmallocInit /\ Next /\ UNCHANGED <<sklVars, sumVars, zmallocVars>>
    \/ Init /\ SumInit /\ ZmallocInit /\ SklNext /\ UNCHANGED <<vars, sumVars, zmallocVars>>
    \/ Init /\ SklInit /\ ZmallocInit /\ SumNext /\ UNCHANGED <<vars, sklVars, zmallocVars>>
    \/ Init /\ SklInit /\ SumInit /\ ZmallocNext /\ UNCHANGED <<vars, sklVars, sumVars>>

UtilSpec == UtilInit /\ [][UtilNext]_<<vars, sklVars, sumVars, zmallocVars>>
=============================================================================
