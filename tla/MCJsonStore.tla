---------------------------- MODULE MCJsonStore ----------------------------
(* Instances of JsonStore for TLC: two threads share an object, a third    *)
(* has one of its own.                                                     *)
EXTENDS JsonStore, TLC

CONSTANTS o1, o2, t1, t2, t3

MCObjects == {o1, o2}
MCThreads == {t1, t2, t3}
MCObjectOf == [t \in MCThreads |-> IF t = t3 THEN o2 ELSE o1]

Interchangeable ==
    Permutations(Inodes) \cup Permutations({t1, t2}) \cup Permutations(Runs)
=============================================================================
