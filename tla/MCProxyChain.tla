--------------------------- MODULE MCProxyChain ---------------------------
(* Instances of ProxyChain for TLC.                                        *)
EXTENDS ProxyChain, TLC

Symmetric == Permutations(Requests) \cup Permutations(Dests)
=============================================================================
