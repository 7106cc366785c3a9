------------------------------- MODULE MCAccess -------------------------------
(* Instances of Access for TLC.                                            *)
EXTENDS Access, TLC

CONSTANTS i1, i2, f1, f2, r1, r2, r3, a1, a2

(* Each entry matches the address or referrer of its name.                 *)
EntriesMatch ==
    (i1 :> {i1}) @@ (i2 :> {i2}) @@ (f1 :> {f1}) @@ (f2 :> {f2}) @@ (Invalid :> {})

(* i1 is blocked in every usable configuration; f1 moves between the lists.*)
SomeConfigs ==
    [blocked |-> {<<>>, <<i1>>, <<i2, Invalid, i1>>},
     allowed |-> {<<>>, <<f1>>, <<f2>>},
     deny |-> {<<>>, <<f1>>, <<f2, f1>>}]

SomeKinds ==
    {[blocked |-> "text", allowed |-> "text", deny |-> "regexp"],
     [blocked |-> "regexp", allowed |-> "regexp", deny |-> "text"],
     [blocked |-> "nil", allowed |-> "nil", deny |-> "text"]}

TwoSystems == <<a1, a2>>

(* a1 has two routes, the second without a blank line at the end in one of *)
(* its answers; a2 may know nothing, or begin with a remark.               *)
SomeAnswers ==
    (a1 :> {<<r1, "attribute", "blank", r2, "attribute", "blank">>,
            <<r1, "attribute", "blank", r2, "attribute">>}) @@
    (a2 :> {<<"other", r3, "attribute", "blank">>, <<"No entries found">>,
            <<"other", "blank", r3, "blank">>})

RouteCovers == (r1 :> {i1}) @@ (r2 :> {i2}) @@ (r3 :> {i2})
=============================================================================
