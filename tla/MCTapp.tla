------------------------------- MODULE MCTapp -------------------------------
(***************************************************************************)
(* tapp on a small instance: see the README for the bounds.                *)
(***************************************************************************)
EXTENDS Tapp
=============================================================================
