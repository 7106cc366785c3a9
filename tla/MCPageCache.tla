---------------------------- MODULE MCPageCache ----------------------------
(* Instances of PageCache for TLC.                                         *)
EXTENDS PageCache, TLC

(* The second version of the source is longer than the others.             *)
LongThenShort == <<1, 2, 1>>

Symmetry == Permutations(Procs)
=============================================================================
