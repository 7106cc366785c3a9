--------------------------- MODULE MCRegistration ---------------------------
(* Instances of Registration for TLC.                                      *)
EXTENDS Registration, TLC

CONSTANTS c1, c2, p1, p2

(* Both clients use the default router; c2 by a name the proxy has not.    *)
SameRouter == (c1 :> Default) @@ (c2 :> "unknown")

(* p2 is p1 with a trailing slash.                                         *)
Slashes == {<<p1, p2>>, <<p2, p1>>}

(* One registration of c2 has a method name that is too short.            *)
ShortMethod == {<<c2, p2>>}

Nothing == {}
=============================================================================
