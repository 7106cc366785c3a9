------------------------------- MODULE Pool -------------------------------
(***************************************************************************)
(* The operations on one address list of router/loadbalance.go (type ips), *)
(* as pure operators on sequences of destinations.  The balancer and the   *)
(* modules that compose it with the proxy chain and the registration share *)
(* them.                                                                   *)
(***************************************************************************)
EXTENDS Integers, Sequences, Functions

(* Variant: the duplicate test is left out.                                *)
AddedBlindly(pool, dst) == Append(pool, dst)

(* AddAddrs (loadbalance.go:95-100): append unless some entry is equal.    *)
AddedTo(pool, dst) == IF dst \in Range(pool) THEN pool ELSE Append(pool, dst)

(* The index at which the loop of Remove stops (loadbalance.go:145-148).   *)
FirstAt(pool, dst) ==
    CHOOSE j \in DOMAIN pool :
        /\ pool[j] = dst
        /\ \A i \in 1 .. j-1 : pool[i] # dst

(* Remove (loadbalance.go:149-157).  The slice expressions keep [:i-1] and *)
(* [i+1:] of a zero-based list, so the entry BEFORE the target goes too    *)
(* unless the target is the first; in one-based indices the four branches  *)
(* are one expression.                                                     *)
RemovedFrom(pool, dst) ==
    IF dst \notin Range(pool) THEN pool
    ELSE LET j == FirstAt(pool, dst)
         IN  SubSeq(pool, 1, j-2) \o SubSeq(pool, j+1, Len(pool))

(* The cursor Next really uses (loadbalance.go:121-123): an index at or    *)
(* past the end restarts at zero.                                          *)
Wrapped(pool, cursor) == IF cursor >= Len(pool) THEN 0 ELSE cursor

(* Each address is listed at most once.                                    *)
NoDuplicates(pool) == IsInjective(pool)
=============================================================================
