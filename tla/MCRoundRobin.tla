--------------------------- MODULE MCRoundRobin ---------------------------
(* Instances of RoundRobin for TLC.                                        *)
EXTENDS RoundRobin, TLC

CONSTANTS kExact, kWild, pOther

(* A wildcard key matches every path of the instance.                      *)
MCMatches == {<<p, kWild>> : p \in {kExact, kWild, pOther} \cap Paths}

(* Racing stores can drive the cursor up without end (a reset is lost each *)
(* time); the instances stop at MaxCursor, past every list length.         *)
CONSTANT MaxCursor
CursorBound == \A k \in Keys : actual[k] <= MaxCursor

Symmetric == Permutations(Threads) \cup Permutations(Dests)
=============================================================================
