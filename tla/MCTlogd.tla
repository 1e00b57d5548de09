------------------------------- MODULE MCTlogd -------------------------------
(***************************************************************************)
(* tlogd on a small instance: see the README for the bounds.               *)
(***************************************************************************)
EXTENDS Tlogd

(* A short record, one that is longer than a file may be, and one of a     *)
(* level tlogd does not write.                                             *)
MCKinds == {[len |-> 1, level |-> 1], [len |-> 4, level |-> 1],
            [len |-> 1, level |-> 2]}
=============================================================================
