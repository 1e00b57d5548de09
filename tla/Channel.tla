------------------------------ MODULE Channel ------------------------------
(***************************************************************************)
(* What a tbus promises to the two processes that share it: a loss-free    *)
(* FIFO of packets from one sender to one receiver.  The packets are       *)
(* numbered in the order in which the sender completes them, so the        *)
(* contents of the channel are the numbers released .. sent - 1.           *)
(*                                                                         *)
(* The receiver works on a batch: packets of the batch are handed to the   *)
(* application one by one, and the whole batch is released at its end.  A  *)
(* receiver that dies inside a batch forgets how far it had come, and the  *)
(* packets it had not released are handed over again.                      *)
(***************************************************************************)
EXTENDS Integers

CONSTANT MaxSent        \* bound on the number of packets ever sent

VARIABLES
  sent,        \* number of packets completed by the sender
  released,    \* number of packets given back by the receiver
  delivering,  \* number of packets of the current batch handed over so far
  last         \* number of the packet handed over last, -1 before the first

vars == <<sent, released, delivering, last>>

Init ==
  /\ sent = 0
  /\ released = 0
  /\ delivering = 0
  /\ last = -1

Send ==
  /\ sent < MaxSent
  /\ sent' = sent + 1
  /\ UNCHANGED <<released, delivering, last>>

(* The application is given the oldest packet it has not seen.             *)
Deliver ==
  /\ released + delivering < sent
  /\ delivering' = delivering + 1
  /\ last' = released + delivering
  /\ UNCHANGED <<sent, released>>

Release ==
  /\ delivering > 0
  /\ released' = released + delivering
  /\ delivering' = 0
  /\ UNCHANGED <<sent, last>>

ReceiverCrash ==
  /\ delivering > 0
  /\ delivering' = 0
  /\ UNCHANGED <<sent, released, last>>

Next == Send \/ Deliver \/ Release \/ ReceiverCrash

Spec == Init /\ [][Next]_vars
=============================================================================
