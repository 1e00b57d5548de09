----------------------------- MODULE TlibcTimer ------------------------------
(***************************************************************************)
(* The timer wheel of tutils.  Five vectors of slots: the first holds the  *)
(* timers of the next ticks, one slot each, and each of the others covers, *)
(* with coarser slots, a longer time.  When the first vector has gone      *)
(* round, a slot of the second is cascaded: its timers are pushed again,   *)
(* and so on upwards.                                                      *)
(*                                                                         *)
(* A tick drains the slot of its time in place: a callback finds a timer   *)
(* off the wheel and may push or pop any timer, into that slot too.  The   *)
(* order of the timers of a slot is left open.                             *)
(***************************************************************************)
EXTENDS Integers, FiniteSets

CONSTANTS
  Timers,
  TVR_SIZE,        \* TLIBC_TVR_SIZE, slots of the first vector
  TVN_SIZE,        \* TLIBC_TVN_SIZE, slots of each of the other four
  Delays,          \* expires - jiffies of the timers pushed between ticks
  CallbackDelays,  \* and of those pushed by callbacks
  MaxJiffies       \* bound: ticks

ASSUME TlibcTimerAssumption ==
  /\ TVR_SIZE \in Nat \ {0, 1} /\ TVN_SIZE \in Nat \ {0, 1}
  /\ Delays \subseteq Int /\ CallbackDelays \subseteq Int
  /\ MaxJiffies \in Nat

VARIABLES
  jiffies,
  slot,      \* the slot that each timer is linked into
  expires,   \* timer->expires of the queued timers
  phase,     \* "out" of a tick, "drain"ing the slot, in a "callback"
  due        \* history: the tick that must fire each queued timer

vars == <<jiffies, slot, expires, phase, due>>

Vectors == 0 .. 4
Size(k)  == IF k = 0 THEN TVR_SIZE ELSE TVN_SIZE
Unit(k)  == CASE k = 0 -> 1              \* the ticks of one slot
              [] k = 1 -> TVR_SIZE
              [] k = 2 -> TVR_SIZE * TVN_SIZE
              [] k = 3 -> TVR_SIZE * TVN_SIZE * TVN_SIZE
              [] k = 4 -> TVR_SIZE * TVN_SIZE * TVN_SIZE * TVN_SIZE
MaxTval  == Unit(4) * Size(4) - 1        \* TLIBC_MAX_TVAL
Idle     == <<"none">>
Slots    == UNION {{k} \X (0 .. Size(k) - 1) : k \in Vectors}

Queued(t) == slot[t] # Idle

Init == /\ jiffies = 0
        /\ slot = [t \in Timers |-> Idle]
        /\ expires = [t \in Timers |-> 0]
        /\ phase = "out"
        /\ due = [t \in Timers |-> -1]

-----------------------------------------------------------------------------
(* Mutant: a distance of TVR_SIZE is taken for the first vector.           *)
VectorOffByOne(distance) ==
  CHOOSE k \in Vectors :
    /\ k = 4 \/ distance <= Unit(k + 1)
    /\ \A l \in Vectors : l < k => distance > Unit(l + 1)

(* The first vector that reaches as far.                                   *)
Vector(distance) ==
  CHOOSE k \in Vectors :
    /\ k = 4 \/ distance < Unit(k + 1)
    /\ \A l \in Vectors : l < k => distance >= Unit(l + 1)

(* The shift and the mask of TLIBC_TVR_BITS and TLIBC_TVN_BITS.            *)
Index(k, time) == (time \div Unit(k)) % Size(k)

(* The slot into which tlibc_timer_push links a timer.                     *)
PushSlot(exp) ==
  IF exp <= jiffies THEN <<0, Index(0, jiffies)>>
  ELSE LET k == Vector(exp - jiffies)
           e == IF exp - jiffies > MaxTval THEN jiffies + MaxTval ELSE exp
       IN  <<k, Index(k, e)>>

(* Called between ticks, and by the callback of a timer that has fired.    *)
Calling == phase \in {"out", "callback"}

Push(t) ==
  /\ Calling /\ ~Queued(t)
  /\ \E d \in IF phase = "out" THEN Delays ELSE CallbackDelays :
       /\ jiffies + d \in 0 .. MaxJiffies
       /\ slot' = [slot EXCEPT ![t] = PushSlot(jiffies + d)]
       /\ expires' = [expires EXCEPT ![t] = jiffies + d]
       /\ due' = [due EXCEPT ![t] = IF d > 0 THEN jiffies + d ELSE jiffies]
  /\ UNCHANGED <<jiffies, phase>>

Remove(t) == /\ slot' = [slot EXCEPT ![t] = Idle]
             /\ expires' = [expires EXCEPT ![t] = 0]
             /\ due' = [due EXCEPT ![t] = -1]
             /\ UNCHANGED jiffies

Pop(t) == Calling /\ Queued(t) /\ Remove(t) /\ UNCHANGED phase

-----------------------------------------------------------------------------
(* Mutant: the third vector waits for the second to be full.               *)
CascadesLate(k) == jiffies % (Unit(k) * Size(k)) = 0

(* Vector k is cascaded when those before it have gone round.              *)
Cascades(k) == k > 0 /\ jiffies % Unit(k) = 0

(* tlibc_timer_tick up to the loop.                                        *)
TickBegin ==
  /\ phase = "out" /\ jiffies < MaxJiffies
  /\ slot' = [t \in Timers |->
       IF Queued(t) /\ \E k \in Vectors : /\ Cascades(k)
                                          /\ slot[t] = <<k, Index(k, jiffies)>>
       THEN PushSlot(expires[t]) ELSE slot[t]]
  /\ jiffies' = jiffies + 1
  /\ phase' = "drain"
  /\ UNCHANGED <<expires, due>>

Drained == <<0, Index(0, jiffies - 1)>>

(* The timer comes off the wheel, and its callback is called.              *)
Fire(t) == /\ phase # "out" /\ slot[t] = Drained
           /\ Remove(t)
           /\ phase' = "callback"

TickEnd == /\ phase # "out" /\ \A t \in Timers : slot[t] # Drained
           /\ phase' = "out"
           /\ UNCHANGED <<jiffies, slot, expires, due>>

Next == \/ TickBegin \/ TickEnd
        \/ \E t \in Timers : Push(t) \/ Pop(t) \/ Fire(t)

Spec == Init /\ [][Next]_vars

-----------------------------------------------------------------------------
(* Safety: whatever lies in the slot that a tick drains is due at that     *)
(* tick, and nothing else is: no timer fires early, and none late.         *)
DrainsWhatIsDue ==
  phase # "out" => \A t \in Timers : slot[t] = Drained <=> due[t] = jiffies - 1

(* Refinement: the wheel is a queue of timers that fires each in its tick. *)
Queue == INSTANCE TimerQueue WITH now <- jiffies, ticking <- phase # "out"

IsTimerQueue == Queue!Spec
=============================================================================
