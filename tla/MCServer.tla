------------------------------ MODULE MCServer ------------------------------
(* Instances of Server for TLC.                                            *)
EXTENDS Server, TLC

CONSTANTS www, redir

(* The domain of main.go that redirects; its other one has the default     *)
(* router, as localhost has.                                               *)
MainDomains == www :> redir
=============================================================================
