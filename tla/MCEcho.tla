------------------------------- MODULE MCEcho -------------------------------
(* Two robots. *)
EXTENDS Echo

MCClients == 1 .. 2
=============================================================================
