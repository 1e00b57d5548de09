---------------------------- MODULE MCSocketApi -----------------------------
(***************************************************************************)
(* socketapi on a small instance: see the README for the bounds.           *)
(***************************************************************************)
EXTENDS SocketApi
=============================================================================
