--------------------------- MODULE MCMemSessions ---------------------------
(* Instances of MemSessions for TLC.                                       *)
EXTENDS MemSessions, TLC

Symmetry == Permutations(Procs) \cup Permutations(Objs)
=============================================================================
