----------------------------- MODULE TimerQueue ------------------------------
(***************************************************************************)
(* What a timer queue promises: a tick fires every timer that is due, and  *)
(* no other.  A timer set for a time that has gone is due at the next      *)
(* tick.                                                                   *)
(***************************************************************************)
EXTENDS Integers

CONSTANT Timers

VARIABLES now,      \* the next tick
          due,      \* the tick at which each queued timer is to fire
          ticking   \* whether tick now - 1 is being carried out

vars == <<now, due, ticking>>

None == -1

Init == now = 0 /\ due = [t \in Timers |-> None] /\ ticking = FALSE

Push(t) == /\ due[t] = None
           /\ due'[t] >= now
           /\ due' = [due EXCEPT ![t] = due'[t]]
           /\ UNCHANGED <<now, ticking>>

Pop(t) == /\ due' = [due EXCEPT ![t] = None]
          /\ UNCHANGED <<now, ticking>>

Begin == ~ticking /\ ticking' = TRUE /\ now' = now + 1 /\ UNCHANGED due

Fire(t) == /\ ticking /\ due[t] = now - 1
           /\ due' = [due EXCEPT ![t] = None]
           /\ UNCHANGED <<now, ticking>>

Finish == /\ ticking /\ \A t \in Timers : due[t] # now - 1
          /\ ticking' = FALSE
          /\ UNCHANGED <<now, due>>

Next == Begin \/ Finish \/ \E t \in Timers : Push(t) \/ Pop(t) \/ Fire(t)

Spec == Init /\ [][Next]_vars
=============================================================================
