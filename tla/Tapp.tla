-------------------------------- MODULE Tapp --------------------------------
(***************************************************************************)
(* tapp.c: tapp_spawn, which starts workers and joins them, tapp_loop,     *)
(* which a worker (or main() of a daemon, the case of one worker) runs     *)
(* until it is told to stop, and g_tapp_sigterm, which tells it.           *)
(*                                                                         *)
(* The flag is shared by all threads and the signal handler and protected  *)
(* by nothing.  It is read and written as a whole, so a step of a thread   *)
(* is one call of a function of its loop, or what lies between two calls.  *)
(***************************************************************************)
EXTENDS Integers

CONSTANTS
  TAPP_THREADS,  \* tapp_spawn takes fewer threads than this
  MaxThreads,    \* the largest number of threads asked for
  Funcs,         \* functions a worker gives to tapp_loop
  IdleLimit,     \* idle_limit
  Plain          \* workers that do not call tapp_loop, but return of their own

ASSUME TappAssumption ==
  /\ TAPP_THREADS \in Nat \ {0} /\ MaxThreads \in Nat
  /\ Funcs \in Nat \ {0} /\ IdleLimit \in Nat \ {0}
  /\ Plain \subseteq Nat

Workers == 0 .. MaxThreads - 1

VARIABLES
  g_tapp_sigterm,
  (* tapp_spawn: its argument, where it is, i of its loops, the result     *)
  threads, pc, i, tid_vec_num, ret,
  (* each worker: where it is, the next function of the pass, and the      *)
  (* local variables of tapp_loop; what it has returned                    *)
  state, func, proc_ret, idle_count, result

main   == <<threads, pc, i, tid_vec_num, ret>>
locals == <<func, proc_ret, idle_count>>
vars   == <<g_tapp_sigterm, main, state, locals, result>>

Init ==
  /\ g_tapp_sigterm = FALSE
  /\ threads \in 0 .. MaxThreads
  /\ pc = "create" /\ i = 0 /\ tid_vec_num = 0 /\ ret = "noerror"
  /\ state = [w \in Workers |-> "none"]
  /\ func = [w \in Workers |-> 0]
  /\ proc_ret = [w \in Workers |-> "noerror"]
  /\ idle_count = func
  /\ result = [w \in Workers |-> "noerror"]

-----------------------------------------------------------------------------
(***************************************************************************)
(* tapp_spawn.                                                             *)
(***************************************************************************)
WorkersGoOn == UNCHANGED <<locals, result>>

SpawnTooMany ==
  /\ pc = "create" /\ threads >= TAPP_THREADS
  /\ pc' = "returned" /\ ret' = "out_of_memory"
  /\ UNCHANGED <<g_tapp_sigterm, threads, i, tid_vec_num, state>>
  /\ WorkersGoOn

Creating == pc = "create" /\ threads < TAPP_THREADS

Create ==
  /\ Creating /\ i < threads
  /\ tid_vec_num' = tid_vec_num + 1
  /\ state' = [state EXCEPT ![i] = "pass"]
  /\ i' = i + 1
  /\ UNCHANGED <<g_tapp_sigterm, threads, pc, ret>>
  /\ WorkersGoOn

(* Mutant: tid_vec_num is one too small for those created.                 *)
CreateFailsForgets ==
  /\ Creating /\ i < threads
  /\ tid_vec_num' = IF i = 0 THEN 0 ELSE tid_vec_num - 1
  /\ ret' = "errno" /\ g_tapp_sigterm' = TRUE
  /\ pc' = "cancel" /\ i' = 0
  /\ UNCHANGED <<threads, state>>
  /\ WorkersGoOn

(* pthread_create() fails.  The thread that was not created has been       *)
(* counted already.                                                        *)
CreateFails ==
  /\ Creating /\ i < threads
  /\ tid_vec_num' = tid_vec_num + 1
  /\ ret' = "errno" /\ g_tapp_sigterm' = TRUE
  /\ pc' = "cancel" /\ i' = 0
  /\ UNCHANGED <<threads, state>>
  /\ WorkersGoOn

Created ==
  /\ Creating /\ i = threads
  /\ pc' = "join" /\ i' = 0
  /\ UNCHANGED <<g_tapp_sigterm, threads, tid_vec_num, ret, state>>
  /\ WorkersGoOn

(* Mutant: every result is taken, not only an error.                       *)
JoinTakesAny ==
  /\ pc = "join" /\ i < tid_vec_num /\ state[i] = "ended"
  /\ ret' = result[i]
  /\ g_tapp_sigterm' = (g_tapp_sigterm \/ result[i] # "noerror")
  /\ i' = i + 1
  /\ UNCHANGED <<threads, pc, tid_vec_num, state>>
  /\ WorkersGoOn

(* Mutant: the other workers are not told of an error.                     *)
JoinTellsNobody ==
  /\ pc = "join" /\ i < tid_vec_num /\ state[i] = "ended"
  /\ ret' = IF result[i] # "noerror" THEN result[i] ELSE ret
  /\ i' = i + 1
  /\ UNCHANGED <<g_tapp_sigterm, threads, pc, tid_vec_num, state>>
  /\ WorkersGoOn

(* The workers are joined in their order, whoever ends first.              *)
Join ==
  /\ pc = "join" /\ i < tid_vec_num /\ state[i] = "ended"
  /\ ret' = IF result[i] # "noerror" THEN result[i] ELSE ret
  /\ g_tapp_sigterm' = (g_tapp_sigterm \/ result[i] # "noerror")
  /\ i' = i + 1
  /\ UNCHANGED <<threads, pc, tid_vec_num, state>>
  /\ WorkersGoOn

CancelJoin ==
  /\ pc = "cancel" /\ i < tid_vec_num /\ state[i] = "ended"
  /\ i' = i + 1
  /\ UNCHANGED <<g_tapp_sigterm, threads, pc, tid_vec_num, ret, state>>
  /\ WorkersGoOn

(* The thread that was not created is joined as well: tid_vec[i] is        *)
(* whatever the stack held.  pthread_join() fails, the process dies, or    *)
(* some other thread is waited for, that may never end.                    *)
CancelUninitialised ==
  /\ pc = "cancel" /\ i < tid_vec_num /\ state[i] = "none"
  /\ \/ i' = i + 1 /\ UNCHANGED pc
     \/ pc' \in {"died", "hung"} /\ UNCHANGED i
  /\ UNCHANGED <<g_tapp_sigterm, threads, tid_vec_num, ret, state>>
  /\ WorkersGoOn

AllDone ==
  /\ pc \in {"join", "cancel"} /\ i = tid_vec_num
  /\ pc' = "returned"
  /\ UNCHANGED <<g_tapp_sigterm, threads, i, tid_vec_num, ret, state>>
  /\ WorkersGoOn

Spawn == \/ SpawnTooMany \/ Create \/ CreateFails \/ Created
         \/ Join \/ CancelJoin \/ CancelUninitialised \/ AllDone

-----------------------------------------------------------------------------
(***************************************************************************)
(* tapp_loop in worker w.                                                  *)
(***************************************************************************)
Looping(w, where) == pc # "died" /\ w \notin Plain /\ state[w] = where

(* The worker returns r.  tapp_loop sets the flag however it ends.         *)
LoopReturns(w, r) ==
  /\ state' = [state EXCEPT ![w] = "ended"]
  /\ result' = [result EXCEPT ![w] = r]
  /\ g_tapp_sigterm' = TRUE

LoopEnds(w) ==
  /\ Looping(w, "pass") /\ g_tapp_sigterm
  /\ LoopReturns(w, "noerror")
  /\ UNCHANGED <<main, locals>>

PassBegins(w) ==
  /\ Looping(w, "pass") /\ ~g_tapp_sigterm
  /\ state' = [state EXCEPT ![w] = "call"]
  /\ proc_ret' = [proc_ret EXCEPT ![w] = "would_block"]
  /\ func' = [func EXCEPT ![w] = 0]
  /\ UNCHANGED <<g_tapp_sigterm, main, idle_count, result>>

(* Mutant: the first function that finds work ends the pass.               *)
CallStopsAtWork(w, r) ==
  /\ Looping(w, "call") /\ func[w] < Funcs
  /\ proc_ret' = IF r = "would_block" THEN proc_ret
                                      ELSE [proc_ret EXCEPT ![w] = r]
  /\ func' = [func EXCEPT ![w] = IF r # "would_block" THEN Funcs ELSE @ + 1]
  /\ UNCHANGED <<g_tapp_sigterm, main, state, idle_count, result>>

(* One function is called and returns r.  An error ends the pass.          *)
Call(w, r) ==
  /\ Looping(w, "call") /\ func[w] < Funcs
  /\ proc_ret' = IF r = "would_block" THEN proc_ret
                                      ELSE [proc_ret EXCEPT ![w] = r]
  /\ func' = [func EXCEPT ![w] = IF r = "error" THEN Funcs ELSE @ + 1]
  /\ UNCHANGED <<g_tapp_sigterm, main, state, idle_count, result>>

PassEnds(w) == Looping(w, "call") /\ func[w] = Funcs

PassFoundWork(w) ==
  /\ PassEnds(w) /\ proc_ret[w] = "noerror"
  /\ state' = [state EXCEPT ![w] = "pass"]
  /\ idle_count' = [idle_count EXCEPT ![w] = 0]
  /\ UNCHANGED <<g_tapp_sigterm, main, func, proc_ret, result>>

PassFoundNothing(w) ==
  /\ PassEnds(w) /\ proc_ret[w] = "would_block"
  /\ idle_count' = [idle_count EXCEPT ![w] = @ + 1]
  /\ state' = [state EXCEPT ![w] =
                 IF idle_count'[w] >= IdleLimit THEN "usleep" ELSE "pass"]
  /\ UNCHANGED <<g_tapp_sigterm, main, func, proc_ret, result>>

PassFailed(w) ==
  /\ PassEnds(w) /\ proc_ret[w] = "error"
  /\ LoopReturns(w, "error")
  /\ UNCHANGED <<main, locals>>

(* usleep() returns 0, or is interrupted by a signal.                      *)
Usleep(w) ==
  /\ Looping(w, "usleep")
  /\ state' = [state EXCEPT ![w] = "pass"]
  /\ idle_count' = [idle_count EXCEPT ![w] = 0]
  /\ UNCHANGED <<g_tapp_sigterm, main, func, proc_ret, result>>

UsleepFails(w) ==
  /\ Looping(w, "usleep")
  /\ LoopReturns(w, "errno")
  /\ UNCHANGED <<main, locals>>

(* A worker that does not call tapp_loop returns.                          *)
PlainReturns(w, r) ==
  /\ pc # "died" /\ w \in Plain /\ state[w] = "pass"
  /\ state' = [state EXCEPT ![w] = "ended"]
  /\ result' = [result EXCEPT ![w] = r]
  /\ UNCHANGED <<g_tapp_sigterm, main, locals>>

Worker(w) ==
  \/ LoopEnds(w) \/ PassBegins(w)
  \/ \E r \in {"noerror", "would_block", "error"} : Call(w, r)
  \/ PassFoundWork(w) \/ PassFoundNothing(w) \/ PassFailed(w)
  \/ Usleep(w) \/ UsleepFails(w)
  \/ \E r \in {"noerror", "error"} : PlainReturns(w, r)

-----------------------------------------------------------------------------
(* tapp_spawn goes no further.                                             *)
Over == pc \in {"returned", "died", "hung"}

(* SIGINT or SIGTERM: on_signal.                                           *)
OnSignal ==
  /\ ~Over
  /\ g_tapp_sigterm' = TRUE
  /\ UNCHANGED <<main, state, locals, result>>

(* The end: nothing is left to do.                                         *)
Ended == Over /\ UNCHANGED vars

Next == Spawn \/ (\E w \in Workers : Worker(w)) \/ OnSignal \/ Ended

Spec == Init /\ [][Next]_vars

(* The system runs every thread; the functions of a loop do not block, and *)
(* a worker that does not call tapp_loop returns in the end.               *)
Fairness == WF_vars(Spawn) /\ \A w \in Workers : WF_vars(Worker(w))

FairSpec == Spec /\ Fairness

-----------------------------------------------------------------------------
(* Type invariant.                                                         *)
Results == {"noerror", "error", "errno"}

SpawnTypeOK ==
  /\ threads \in 0 .. MaxThreads /\ i \in 0 .. threads
  /\ pc \in {"create", "join", "cancel", "returned", "died", "hung"}
  /\ tid_vec_num \in 0 .. threads
  /\ ret \in Results \union {"out_of_memory"}

WorkersTypeOK ==
  /\ state \in [Workers -> {"none", "pass", "call", "usleep", "ended"}]
  /\ func \in [Workers -> 0 .. Funcs]
  /\ proc_ret \in [Workers -> {"noerror", "would_block", "error"}]
  /\ idle_count \in [Workers -> 0 .. IdleLimit]
  /\ result \in [Workers -> Results]

TypeOK == g_tapp_sigterm \in BOOLEAN /\ SpawnTypeOK /\ WorkersTypeOK

(* Safety: no worker is left behind: tid_arg and tid_vec, on the stack of  *)
(* tapp_spawn, are used by nobody when it returns, also when creating a    *)
(* worker failed (or when it waits for ever for the one not created).      *)
AllJoined ==
  pc \in {"returned", "hung"} => \A w \in Workers : state[w] \in {"none", "ended"}

(* Safety: tapp_spawn reports success exactly if every worker was started  *)
(* and none of them failed, in whatever order they ended.                  *)
Verdict ==
  pc = "returned" =>
    (ret = "noerror" <=> \A w \in 0 .. threads - 1 :
                           state[w] = "ended" /\ result[w] = "noerror")

(* Liveness: after a signal, and after the failure of a worker that runs   *)
(* tapp_loop, all workers stop and tapp_spawn returns (unless it is lost   *)
(* in joining the thread that was not created).                            *)
Stops ==
  (g_tapp_sigterm \/ \E w \in Workers : result[w] # "noerror") ~> Over

(* Liveness: as long as a loop runs, each of its functions is called again *)
(* and again: none is starved by one that always finds work.  The fairness *)
(* of the daemons' specifications rests on it.                             *)
EveryFunctionCalled ==
  \A w \in Workers \ Plain, f \in 0 .. Funcs - 1 :
    []<>(\/ state[w] \in {"none", "ended"}
         \/ pc = "died"
         \/ state[w] = "call" /\ func[w] = f)
=============================================================================
