--------------------------- MODULE MCBoltSessions ---------------------------
(* Instances of BoltSessions for TLC.                                      *)
EXTENDS BoltSessions, TLC

Symmetry == Permutations(Procs) \cup Permutations(Names)
=============================================================================
