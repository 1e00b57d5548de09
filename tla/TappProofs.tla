----------------------------- MODULE TappProofs -----------------------------
(***************************************************************************)
(* Proofs about tapp_spawn and tapp_loop for any number of threads, any    *)
(* number of functions of a loop and any idle limit.                       *)
(***************************************************************************)
EXTENDS Tapp, TLAPS

(* Who has been started, and how far the loops of tapp_spawn are.          *)
Started(n) == \A w \in Workers : state[w] = "none" <=> w >= n

Creation ==
  pc = "create" =>
    /\ tid_vec_num = i /\ ret = "noerror" /\ Started(i)
    /\ threads >= TAPP_THREADS => i = 0

Joining ==
  pc = "join" =>
    /\ tid_vec_num = threads /\ Started(threads)
    /\ \A w \in 0 .. i - 1 : state[w] = "ended"
    /\ ret = "noerror" <=> \A w \in 0 .. i - 1 : result[w] = "noerror"

(* The last of those counted was not created.                              *)
Cancelling ==
  pc = "cancel" =>
    /\ tid_vec_num > 0 /\ Started(tid_vec_num - 1) /\ ret = "errno"
    /\ \A w \in 0 .. i - 1 : state[w] \in {"none", "ended"}

(* A worker that counts idle passes has not reached idle_limit.            *)
IdleCounts ==
  \A w \in Workers :
    state[w] \in {"none", "pass", "call"} => idle_count[w] < IdleLimit

IInv ==
  TypeOK /\ IdleCounts /\ Creation /\ Joining /\ Cancelling
    /\ AllJoined /\ Verdict

-----------------------------------------------------------------------------
(* The constants.                                                          *)
LEMMA Constants ==
  /\ TAPP_THREADS \in Nat /\ TAPP_THREADS > 0 /\ MaxThreads \in Nat
  /\ Funcs \in Nat /\ Funcs > 0 /\ IdleLimit \in Nat /\ IdleLimit > 0
BY TappAssumption

(* The initial states.                                                     *)
LEMMA InitHolds == Init => IInv
<1> SUFFICES ASSUME Init
             PROVE  IInv
  OBVIOUS
<1>1. func = [w \in Workers |-> 0] /\ idle_count = func
  BY DEF Init
<1>2. TypeOK
  <2>1. g_tapp_sigterm \in BOOLEAN
    BY DEF Init
  <2>2. SpawnTypeOK /\ WorkersTypeOK
    BY <1>1, Constants DEF Init, SpawnTypeOK, WorkersTypeOK, Results
  <2> QED
    BY <2>1, <2>2 DEF TypeOK
<1>3. IdleCounts
  BY <1>1, Constants DEF Init, IdleCounts
<1>4. Creation /\ Joining /\ Cancelling /\ AllJoined /\ Verdict
  BY Constants DEF Init, Creation, Joining, Cancelling, AllJoined, Verdict,
                   Started, Workers
<1> QED
  BY <1>2, <1>3, <1>4 DEF IInv

(* A step of tapp_spawn.                                                   *)
LEMMA SpawnTypes ==
  ASSUME TypeOK, Creation, Spawn
  PROVE  TypeOK'
<1> USE Constants DEF TypeOK, SpawnTypeOK, WorkersTypeOK, Workers, Results,
                      WorkersGoOn, locals
<1>1. g_tapp_sigterm' \in BOOLEAN
  BY Zenon DEF Spawn, SpawnTooMany, Create, CreateFails, Created, Join,
               CancelJoin, CancelUninitialised, AllDone
<1>2. SpawnTypeOK' /\ WorkersTypeOK'
  <2>1. CASE SpawnTooMany
    BY <2>1 DEF SpawnTooMany
  <2>2. CASE Create
    BY <2>2 DEF Create, Creating, Creation
  <2>3. CASE CreateFails
    BY <2>3 DEF CreateFails, Creating, Creation
  <2>4. CASE Created
    BY <2>4 DEF Created, Creating
  <2>5. CASE Join
    BY <2>5 DEF Join
  <2>6. CASE CancelJoin
    BY <2>6 DEF CancelJoin
  <2>7. CASE CancelUninitialised
    BY <2>7 DEF CancelUninitialised
  <2>8. CASE AllDone
    BY <2>8 DEF AllDone
  <2> QED
    BY <2>1, <2>2, <2>3, <2>4, <2>5, <2>6, <2>7, <2>8 DEF Spawn
<1> QED
  BY <1>1, <1>2 DEF TypeOK

LEMMA SpawnKeeps == IInv /\ Spawn => IInv'
<1> SUFFICES ASSUME IInv, Spawn
             PROVE  IInv'
  OBVIOUS
<1>1. TypeOK'
  BY SpawnTypes DEF IInv
<1>4. IdleCounts'
  <2>1. idle_count' = idle_count
    BY DEF Spawn, SpawnTooMany, Create, CreateFails, Created, Join, CancelJoin,
           CancelUninitialised, AllDone, WorkersGoOn, locals
  <2>2. CASE Create
    <3>1. state[i] = "none" /\ i \in Workers
      BY <2>2, Constants DEF Create, Creating, IInv, Creation, Started, TypeOK,
         SpawnTypeOK, Workers
    <3>2. \A w \in Workers : state'[w] = state[w] \/ w = i
      BY <2>2 DEF Create, IInv, TypeOK, WorkersTypeOK
    <3> QED
      BY <2>1, <3>1, <3>2 DEF IInv, IdleCounts
  <2>3. CASE ~Create
    BY <2>1, <2>3 DEF IInv, IdleCounts, Spawn, SpawnTooMany, CreateFails,
       Created, Join, CancelJoin, CancelUninitialised, AllDone
  <2> QED
    BY <2>2, <2>3
<1> DEFINE Rest == Creation /\ Joining /\ Cancelling /\ AllJoined /\ Verdict
<1>2. SpawnTypeOK /\ WorkersTypeOK /\ Rest
  BY DEF IInv, TypeOK
<1>3. Rest'
  <2> HIDE DEF IInv
  <2> USE <1>2, Constants
      DEF SpawnTypeOK, WorkersTypeOK, Creation, Joining, Cancelling,
          AllJoined, Verdict, Started, Workers, Results, WorkersGoOn, locals
  <2>1. CASE SpawnTooMany
    BY <2>1 DEF SpawnTooMany
  <2>2. CASE Create
    BY <2>2 DEF Create, Creating
  <2>3. CASE CreateFails
    BY <2>3 DEF CreateFails, Creating
  <2>4. CASE Created
    BY <2>4 DEF Created, Creating
  <2>5. CASE Join
    <3>1. \A v : v \in 0 .. i' - 1 <=> v \in 0 .. i - 1 \/ v = i
      BY <2>5 DEF Join
    <3>2. i \in Workers /\ result[i] \in Results
      BY <2>5 DEF Join
    <3>3. Joining'
      BY <2>5, <3>1, <3>2 DEF Join
    <3> QED
      BY <2>5, <3>3 DEF Join
  <2>6. CASE CancelJoin
    <3>1. \A v : v \in 0 .. i' - 1 <=> v \in 0 .. i - 1 \/ v = i
      BY <2>6 DEF CancelJoin
    <3>2. Cancelling'
      BY <2>6, <3>1 DEF CancelJoin
    <3> QED
      BY <2>6, <3>2 DEF CancelJoin
  <2>7. CASE CancelUninitialised
    BY <2>7 DEF CancelUninitialised
  <2>8. CASE AllDone
    <3>1. CASE pc = "join"
      <4>1. \A w \in 0 .. threads - 1 : w \in Workers /\ state[w] = "ended"
        BY <2>8, <3>1 DEF AllDone
      <4>2. \A w \in Workers : w \in 0 .. threads - 1 \/ state[w] = "none"
        BY <3>1
      <4>3. ret = "noerror" <=>
              \A w \in 0 .. threads - 1 : result[w] = "noerror"
        BY <2>8, <3>1 DEF AllDone
      <4> QED
        BY <2>8, <4>1, <4>2, <4>3 DEF AllDone
    <3>2. CASE pc = "cancel"
      <4>1. tid_vec_num - 1 \in 0 .. threads - 1 /\ tid_vec_num - 1 \in Workers
        BY <3>2
      <4>2. state[tid_vec_num - 1] = "none" /\ ret = "errno"
        BY <3>2, <4>1
      <4>3. \A w \in Workers : w \in 0 .. tid_vec_num - 1 \/ state[w] = "none"
        BY <3>2
      <4>4. \A w \in Workers : state[w] \in {"none", "ended"}
        BY <2>8, <3>2, <4>3 DEF AllDone
      <4> QED
        BY <2>8, <4>1, <4>2, <4>4 DEF AllDone
    <3> QED
      BY <2>8, <3>1, <3>2 DEF AllDone
  <2> QED
    BY <2>1, <2>2, <2>3, <2>4, <2>5, <2>6, <2>7, <2>8 DEF Spawn
<1> QED
  BY <1>1, <1>3, <1>4 DEF IInv

(* A step of worker w: nobody but itself is disturbed, and it has been     *)
(* started and has not ended.                                              *)
LEMMA WorkerMoves ==
  ASSUME TypeOK, IdleCounts, NEW w \in Workers, Worker(w)
  PROVE  /\ UNCHANGED main /\ pc # "died" /\ WorkersTypeOK' /\ IdleCounts'
         /\ state[w] \notin {"none", "ended"} /\ state'[w] # "none"
         /\ \A v \in Workers : v # w => /\ state'[v] = state[v]
                                        /\ result'[v] = result[v]
<1>1. WorkersTypeOK
  BY DEF TypeOK
<1> USE <1>1, Constants DEF WorkersTypeOK, IdleCounts, Results, main, locals
<1>2. CASE LoopEnds(w)
  BY <1>2 DEF LoopEnds, Looping, LoopReturns
<1>3. CASE PassBegins(w)
  BY <1>3 DEF PassBegins, Looping
<1>4. CASE \E r \in {"noerror", "would_block", "error"} : Call(w, r)
  BY <1>4 DEF Call, Looping
<1>5. CASE PassFoundWork(w)
  BY <1>5 DEF PassFoundWork, PassEnds, Looping
<1>6. CASE PassFoundNothing(w)
  BY <1>6 DEF PassFoundNothing, PassEnds, Looping
<1>7. CASE PassFailed(w)
  BY <1>7 DEF PassFailed, PassEnds, Looping, LoopReturns
<1>8. CASE Usleep(w)
  BY <1>8 DEF Usleep, Looping
<1>9. CASE UsleepFails(w)
  BY <1>9 DEF UsleepFails, Looping, LoopReturns
<1>10. CASE \E r \in {"noerror", "error"} : PlainReturns(w, r)
  BY <1>10 DEF PlainReturns
<1> QED
  BY <1>2, <1>3, <1>4, <1>5, <1>6, <1>7, <1>8, <1>9, <1>10 DEF Worker

LEMMA WorkerTypes ==
  ASSUME TypeOK, IdleCounts, NEW w \in Workers, Worker(w)
  PROVE  TypeOK' /\ IdleCounts'
<1>1. g_tapp_sigterm' \in BOOLEAN
  BY Zenon DEF TypeOK, Worker, LoopEnds, PassBegins, Call, PassFoundWork,
       PassFoundNothing, PassFailed, Usleep, UsleepFails, PlainReturns,
       LoopReturns
<1>2. SpawnTypeOK'
  BY WorkerMoves DEF TypeOK, SpawnTypeOK, main
<1> QED
  BY <1>1, <1>2, WorkerMoves DEF TypeOK

(* It keeps what tapp_spawn knows.                                         *)
LEMMA WorkerKeeps ==
  ASSUME IInv, NEW w \in Workers, Worker(w)
  PROVE  IInv'
<1> DEFINE Apart == \A v \in Workers : v # w => /\ state'[v] = state[v]
                                                /\ result'[v] = result[v]
<1>1. /\ TypeOK' /\ IdleCounts' /\ UNCHANGED main /\ Apart
      /\ state[w] \notin {"none", "ended"} /\ state'[w] # "none"
  BY WorkerMoves, WorkerTypes DEF IInv
<1>2. pc' = pc /\ i' = i /\ threads' = threads /\ ret' = ret
      /\ tid_vec_num' = tid_vec_num
  BY <1>1 DEF main
<1>3. \A n : Started(n) => Started(n)'
  BY <1>1 DEF Started
<1>4. Creation'
  BY <1>2, <1>3 DEF IInv, Creation
<1>5. i \in Nat /\ threads \in Nat /\ threads <= MaxThreads /\ i <= threads
  BY Constants DEF IInv, TypeOK, SpawnTypeOK
<1>6. Joining'
  <2> SUFFICES ASSUME pc = "join"
               PROVE  Joining'
    BY <1>2 DEF Joining
  <2>1. \A v \in 0 .. i - 1 : v \in Workers /\ v # w
    BY <1>1, <1>5, Constants DEF IInv, Joining, Workers
  <2> QED
    BY <1>1, <1>2, <1>3, <2>1 DEF IInv, Joining
<1>7. Cancelling'
  <2> SUFFICES ASSUME pc = "cancel"
               PROVE  Cancelling'
    BY <1>2 DEF Cancelling
  <2>1. \A v \in 0 .. i - 1 : v \in Workers /\ v # w
    BY <1>1, <1>5, Constants DEF IInv, Cancelling, Workers
  <2>2. tid_vec_num \in Nat
    BY <1>5, Constants DEF IInv, TypeOK, SpawnTypeOK
  <2> QED
    BY <1>1, <1>2, <1>3, <2>1, <2>2 DEF IInv, Cancelling
<1>8. pc # "returned"
  BY <1>1 DEF IInv, AllJoined
<1> QED
  BY <1>1, <1>2, <1>4, <1>6, <1>7, <1>8 DEF IInv, AllJoined, Verdict

(* A signal, and the end.                                                  *)
LEMMA OthersKeep == IInv /\ (OnSignal \/ UNCHANGED vars) => IInv'
<1> SUFFICES ASSUME IInv, OnSignal \/ UNCHANGED vars
             PROVE  IInv'
  OBVIOUS
<1>1. UNCHANGED <<main, state, locals, result>>
  BY DEF OnSignal, vars
<1>2. g_tapp_sigterm' \in BOOLEAN
  BY Zenon DEF OnSignal, vars, IInv, TypeOK
<1>3. SpawnTypeOK' /\ WorkersTypeOK'
  BY <1>1 DEF IInv, TypeOK, SpawnTypeOK, WorkersTypeOK, main, locals
<1> QED
  BY <1>1, <1>2, <1>3 DEF IInv, TypeOK, IdleCounts, Creation, Joining, Cancelling, AllJoined,
              Verdict, Started, main, locals

-----------------------------------------------------------------------------
(* tapp_spawn knows at every point who has been started, who has ended and *)
(* what those have returned.                                               *)
THEOREM Invariance == Spec => []IInv
<1>1. IInv /\ [Next]_vars => IInv'
  BY SpawnKeeps, WorkerKeeps, OthersKeep DEF Next, Ended
<1> QED
  BY InitHolds, <1>1, PTL DEF Spec

(* Every variable has its type; a thread sleeps or loops with a count of   *)
(* idle passes within idle_limit.                                          *)
THEOREM TypeCorrect == Spec => []TypeOK
<1>1. IInv => TypeOK
  BY DEF IInv
<1> QED
  BY Invariance, <1>1, PTL

(* When tapp_spawn returns no worker runs, also when creating one failed:  *)
(* nobody uses tid_arg and tid_vec on its stack any more.                  *)
THEOREM NobodyLeftBehind == Spec => []AllJoined
<1>1. IInv => AllJoined
  BY DEF IInv
<1> QED
  BY Invariance, <1>1, PTL

(* What tapp_spawn returns is success exactly if all workers were started  *)
(* and none failed.                                                        *)
THEOREM VerdictRight == Spec => []Verdict
<1>1. IInv => Verdict
  BY DEF IInv
<1> QED
  BY Invariance, <1>1, PTL
=============================================================================
