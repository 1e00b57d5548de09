------------------------------- MODULE MCTbus -------------------------------
(***************************************************************************)
(* The bus on a small instance: see the README for the bounds.             *)
(***************************************************************************)
EXTENDS TbusInv

(* Messages of one and two cells, one that needs more than a packet, and   *)
(* one whose encoder fails.                                                *)
AllRequests == {[need |-> 1, len |-> 1], [need |-> 2, len |-> 2],
                [need |-> 3, len |-> 3], [need |-> 2, len |-> 0]}

(* Messages that fit in a packet, one of them shorter than it might be.    *)
FitRequests == {[need |-> 1, len |-> 1], [need |-> 2, len |-> 1],
                [need |-> 2, len |-> 2]}

(* tlog_appender_shm on the bus of tutorials/tlog/tbus.sh: it insists on   *)
(* sizeof(tlog_message_t), more than a packet, and then sends what fits.   *)
LogRequests == {[need |-> 3, len |-> 1], [need |-> 3, len |-> 2]}
=============================================================================
