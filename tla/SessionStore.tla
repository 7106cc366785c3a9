---------------------------- MODULE SessionStore ----------------------------
(***************************************************************************)
(* What a session store promises its users (the interface Sessions of      *)
(* sessions/interfaces.go, as its tests in sessions/tests.go use it): New  *)
(* makes a session nobody has, Restore hands out one that exists, any      *)
(* number of requests may hold it until they Return it, and it is deleted  *)
(* only while nobody holds it.                                             *)
(***************************************************************************)
CONSTANTS Users, Names

VARIABLES
    live,           \* names that have a session
    held            \* <<u, n>>: user u was handed the session n

vars == <<live, held>>

Init == live = {} /\ held = {}

New(u, n) ==
    /\ n \notin live
    /\ live' = live \cup {n}
    /\ held' = held \cup {<<u, n>>}

Restore(u, n) ==
    /\ n \in live
    /\ held' = held \cup {<<u, n>>}
    /\ UNCHANGED live

Return(u, n) ==
    /\ <<u, n>> \in held
    /\ held' = held \ {<<u, n>>}
    /\ UNCHANGED live

Delete(n) ==
    /\ n \in live
    /\ ~\E u \in Users : <<u, n>> \in held
    /\ live' = live \ {n}
    /\ UNCHANGED held

(* The process dies: its users are gone, and the sessions that are not     *)
(* kept on a disk.                                                         *)
Crash ==
    /\ live' \subseteq live
    /\ held' = {}

Next ==
    \/ Crash
    \/ \E n \in Names :
        \/ Delete(n)
        \/ \E u \in Users : New(u, n) \/ Restore(u, n) \/ Return(u, n)

Spec == Init /\ [][Next]_vars
=============================================================================
