--------------------------- MODULE MCLocalSessions ---------------------------
(* Two apps, one with two models and one with a single one. *)
EXTENDS LocalSessions, TLC

CONSTANTS a1, a2, t1, t2

MCClients == (a1 :> 1) @@ (a2 :> 2)
=============================================================================
