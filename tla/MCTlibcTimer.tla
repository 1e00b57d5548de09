---------------------------- MODULE MCTlibcTimer -----------------------------
(***************************************************************************)
(* The wheel with a first vector of four slots and others of two: 64 ticks *)
(* instead of 2^32.                                                        *)
(***************************************************************************)
EXTENDS TlibcTimer

(* Gone, now, and both sides of every boundary between two vectors and of  *)
(* TLIBC_MAX_TVAL.                                                         *)
Boundaries == {-1, 0, 1, 3, 4, 7, 8, 15, 16, 31, 32, 63, 64, 66}

(* A callback that does not push TVR_SIZE - 1 ticks ahead, into the slot   *)
(* that is being drained: it would be called again at once.                *)
SafeDelays == {-1, 0, 1, 2, 4, 5, 9}
=============================================================================
