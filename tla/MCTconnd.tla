------------------------------ MODULE MCTconnd ------------------------------
(***************************************************************************)
(* The connection server on small instances: see the README for the bounds.*)
(***************************************************************************)
EXTENDS TconndInv
=============================================================================
