-------------------------- MODULE WorkerPoolProofs --------------------------
(***************************************************************************)
(* Proofs about WorkerPool for any number of workers, jobs, callbacks and  *)
(* calling threads. In every scenario: types, that no job is lost or run   *)
(* twice, that the pool implements JobPool, that worker k of the vector    *)
(* has id k and that a callback that was removed is not called. In a       *)
(* steady pool: that no job or callback is left with a thread that is      *)
(* gone, that the vector is filled before a worker is selected, and when   *)
(* stop() returns 0.                                                       *)
(***************************************************************************)
EXTENDS WorkerPool, TLAPS

\* A thread has a job in its hand exactly while it runs or moves one.
HandInv ==
  \A w \in Workers :
    IF pc[w] \in {"job", "move"} THEN held[w] \in Jobs ELSE held[w] = None

\* What a call in progress carries. A job on its way in is not accepted yet,
\* and only one caller has it.
CallInv ==
  \A c \in Clients :
    /\ cop[c] = "spawn" =>
         /\ carg[c] \in Jobs
         /\ carg[c] \notin accepted
         /\ \A d \in Clients : cop[d] = "spawn" /\ carg[d] = carg[c] => d = c
    /\ cop[c] \in {"add", "remove"} =>
         /\ carg[c] \in Handles
         /\ cpc[c] = "apply" => csel[c] \in Workers

\* The places a job can be in hold accepted jobs only.
PlacesInv ==
  /\ shared_jobs \subseteq accepted
  /\ done \subseteq accepted
  /\ \A w \in Workers : private_jobs[w] \subseteq accepted
  /\ \A w \in Workers : held[w] # None => held[w] \in accepted

TypeInv == TypeOK /\ HandInv /\ CallInv

JobInv == PlacesInv /\ NoJobLost /\ NoJobTwice

-----------------------------------------------------------------------------
(* Types. *)

LEMMA InitTypeInv == ASSUME Init PROVE TypeInv
<1> USE DEF Init
<1>1. TypeOK
  <2>1. workers \in Seq(Workers)
    OBVIOUS
  <2>2. need_scaling_up \in BOOLEAN /\ closing \in BOOLEAN /\ cleaning \in BOOLEAN
    OBVIOUS
  <2> QED BY <2>1, <2>2 DEF TypeOK, ThreadPCs, MainPCs, ClientPCs, Operations
<1>2. HandInv BY PoolAssumption DEF HandInv
<1>3. CallInv BY DEF CallInv
<1> QED BY <1>1, <1>2, <1>3 DEF TypeInv

\* Steps of a worker thread.
LEMMA ThreadTypeInv ==
  ASSUME TypeInv, NEW w \in Workers, ThreadStep(w) \/ CreatedTooLong(w)
  PROVE  TypeInv'
<1> USE PoolAssumption DEF TypeInv, TypeOK, HandInv, CallInv, ThreadPCs,
                           threadVars, setVars, mainVars, callVars, jobVars
<1>1. CASE ThreadStart(w) BY <1>1 DEF ThreadStart
<1>2. CASE CreatedTooLong(w) BY <1>2 DEF CreatedTooLong
<1>3. CASE LoopTop(w) BY <1>3 DEF LoopTop
<1>4. CASE PopJob(w) BY <1>4 DEF PopJob
<1>5. CASE FinishJob(w)
  <2>1. /\ pc[w] = "job"
        /\ done' = done \cup {held[w]}
        /\ held' = [held EXCEPT ![w] = None]
        /\ UNCHANGED <<private_jobs, tick_handles, stalled, accepted>>
        /\ UNCHANGED <<setVars, mainVars, callVars>>
    BY <1>5 DEF FinishJob
  <2>2. \/ pc' = [pc EXCEPT ![w] = "tick"]
        \/ pc' = [pc EXCEPT ![w] = "top"]
        \/ pc' = [pc EXCEPT ![w] = "callback"]
    <3>1. CASE tick_handles[w] = {} BY <1>5, <3>1 DEF FinishJob, BeginCallbacks
    <3>2. CASE tick_handles[w] # {} BY <1>5, <3>2 DEF FinishJob, BeginCallbacks
    <3> QED BY <3>1, <3>2
  <2>3. \/ UNCHANGED calling
        \/ calling' = [calling EXCEPT ![w] = tick_handles[w]]
    BY <1>5, Zenon DEF FinishJob, BeginCallbacks
  <2>4. calling' \in [Workers -> SUBSET Handles]
    <3>1. CASE UNCHANGED calling BY <3>1
    <3>2. CASE calling' = [calling EXCEPT ![w] = tick_handles[w]] BY <3>2
    <3> QED BY <2>3, <3>1, <3>2
  <2>5. TypeOK'
    <3>1. pc' \in [Workers -> ThreadPCs] BY <2>2
    <3>2. held' \in [Workers -> Jobs \cup {None}] /\ done' \in SUBSET Jobs
      BY <2>1
    <3> QED BY <2>1, <2>4, <3>1, <3>2
  <2>6. HandInv' BY <2>1, <2>2
  <2>7. CallInv' BY <2>1
  <2> QED BY <2>5, <2>6, <2>7
<1>6. CASE NoMoreJobs(w) BY <1>6 DEF NoMoreJobs, BeginCallbacks
<1>7. CASE EndCallbacks(w) BY <1>7 DEF EndCallbacks
<1>8. CASE MarkExiting(w) BY <1>8 DEF MarkExiting
<1>9. CASE DrainPop(w) BY <1>9 DEF DrainPop
<1>10. CASE DrainPush(w) BY <1>10 DEF DrainPush
<1>11. CASE MarkExited(w) BY <1>11 DEF MarkExited
<1> QED
  BY <1>1, <1>2, <1>3, <1>4, <1>5, <1>6, <1>7, <1>8, <1>9, <1>10, <1>11
  DEF ThreadStep

\* do_scaling_up keeps the types of what it changes, and no thread with a job
\* is among the fresh ones.
LEMMA FillVectorTypes ==
  ASSUME TypeInv, FillVector
  PROVE  /\ workers' \in Seq(Workers)
         /\ worker_id' \in [Workers -> Nat]
         /\ pc' \in [Workers -> ThreadPCs]
         /\ \A w \in Workers :
              pc'[w] = pc[w] \/ (pc[w] = "none" /\ pc'[w] = "created")
<1> DEFINE size == Len(workers)
           n == IF size < current_expect_workers
                THEN current_expect_workers - size ELSE 0
           fresh == {w \in Workers : pc[w] = "none"}
<1>1. size \in Nat /\ n \in Nat /\ workers \in Seq(Workers)
      /\ pc \in [Workers -> ThreadPCs] /\ worker_id \in [Workers -> Nat]
  BY DEF TypeInv, TypeOK
<1>2. PICK f \in [1..n -> fresh] :
        /\ workers' = [i \in 1..(size + n) |->
                         IF i <= size THEN workers[i] ELSE f[i - size]]
        /\ worker_id' = [w \in Workers |->
             IF \E i \in 1..n : f[i] = w
             THEN size + (CHOOSE i \in 1..n : f[i] = w) ELSE worker_id[w]]
        /\ pc' = [w \in Workers |->
             IF \E i \in 1..n : f[i] = w THEN "created" ELSE pc[w]]
  BY DEF FillVector
<1> HIDE DEF n, size
<1>3. workers' \in Seq(Workers)
  <2>1. \A i \in 1..(size + n) : i > size => i - size \in 1..n
    BY <1>1
  <2>2. \A i \in 1..(size + n) : i <= size => workers[i] \in Workers
    BY <1>1 DEF size
  <2>3. \A i \in 1..(size + n) :
          (IF i <= size THEN workers[i] ELSE f[i - size]) \in Workers
    BY <1>1, <1>2, <2>1, <2>2
  <2> QED BY <1>1, <1>2, <2>3
<1>4. worker_id' \in [Workers -> Nat]
  <2> SUFFICES ASSUME NEW w \in Workers PROVE worker_id'[w] \in Nat
    BY <1>2
  <2>1. CASE \E i \in 1..n : f[i] = w
    <3>1. (CHOOSE i \in 1..n : f[i] = w) \in 1..n
      BY <2>1, Zenon
    <3>2. worker_id'[w] = size + (CHOOSE i \in 1..n : f[i] = w)
      BY <1>2, <2>1
    <3> QED BY <1>1, <3>1, <3>2
  <2>2. CASE ~ \E i \in 1..n : f[i] = w
    BY <1>1, <1>2, <2>2
  <2> QED BY <2>1, <2>2
<1>5. pc' \in [Workers -> ThreadPCs]
  BY <1>1, <1>2 DEF ThreadPCs
<1>6. \A w \in Workers :
        pc'[w] = pc[w] \/ (pc[w] = "none" /\ pc'[w] = "created")
  BY <1>2
<1> QED BY <1>3, <1>4, <1>5, <1>6

\* A call begins: the guard of BeginCall keeps a job in one hand only.
LEMMA BeginCallTypeInv ==
  ASSUME TypeInv, NEW c \in Clients, NEW op \in Operations \ {"none"}, NEW arg,
         NEW id \in Nat, BeginCall(c, op, arg, id),
         op = "spawn" => arg \in Jobs \ accepted,
         op \in {"add", "remove"} => arg \in Handles
  PROVE  TypeInv'
<1> USE DEF TypeInv, BeginCall, threadVars, mainVars, jobVars, CallerIdle
<1>1. TypeOK'
  <2>1. cpc' \in [Clients -> ClientPCs]
    BY DEF TypeOK, AfterFlag, ClientPCs
  <2>2. need_scaling_up' \in BOOLEAN
    BY DEF TakeScalingFlag
  <2>3. carg' \in [Clients -> Jobs \cup Handles \cup {None}]
    BY DEF TypeOK, Operations
  <2> QED BY <2>1, <2>2, <2>3 DEF TypeOK
<1>2. HandInv' BY DEF HandInv
<1>3. CallInv'
  <2>1. \A d \in Clients : d # c =>
          cop'[d] = cop[d] /\ carg'[d] = carg[d] /\ cpc'[d] = cpc[d]
    BY DEF TypeOK
  <2>2. cop'[c] = op /\ carg'[c] = arg /\ cpc'[c] # "apply"
    BY DEF TypeOK, AfterFlag
  <2> QED BY <2>1, <2>2 DEF CallInv, TypeOK
<1> QED BY <1>1, <1>2, <1>3

\* What EndCall leaves of a call.
LEMMA EndCallTypes ==
  ASSUME TypeOK, NEW c \in Clients, EndCall(c)
  PROVE  /\ cpc' \in [Clients -> ClientPCs]
         /\ cop' \in [Clients -> Operations]
         /\ carg' \in [Clients -> Jobs \cup Handles \cup {None}]
         /\ ctarget' \in [Clients -> Nat]
         /\ csel' \in [Clients -> Workers \cup {None}]
         /\ cop'[c] = "none"
         /\ \A d \in Clients : d # c =>
              /\ cpc'[d] = cpc[d]
              /\ cop'[d] = cop[d]
              /\ carg'[d] = carg[d]
              /\ csel'[d] = csel[d]
  BY DEF TypeOK, EndCall, ClientPCs, Operations

\* select_worker() has answered, with a worker or with none.
LEMMA SelectingTypeInv ==
  ASSUME TypeInv, NEW c \in Clients, Selecting(c),
         \/ EndCall(c)
         \/ \E w \in Workers \cup {None} :
              /\ Selected(c, w)
              /\ cop[c] \in {"add", "remove"} => w \in Workers
  PROVE  TypeInv'
<1> USE DEF TypeInv, Selecting, threadVars, setVars, mainVars, jobVars
<1>1. HandInv' BY DEF HandInv
<1>2. CASE EndCall(c)
  <2>1. TypeOK' BY <1>2, EndCallTypes DEF TypeOK
  <2>2. CallInv' BY <1>2, EndCallTypes DEF CallInv
  <2> QED BY <1>1, <2>1, <2>2
<1>3. ASSUME NEW w \in Workers \cup {None}, Selected(c, w),
             cop[c] \in {"add", "remove"} => w \in Workers
      PROVE  TypeInv'
  <2>1. TypeOK' BY <1>3 DEF Selected, TypeOK, ClientPCs
  <2>2. CallInv' BY <1>3 DEF Selected, CallInv, TypeOK
  <2> QED BY <1>1, <2>1, <2>2
<1> QED BY <1>2, <1>3

\* A call goes on.
LEMMA CallTypeInv ==
  ASSUME TypeInv, NEW c \in Clients, CallStep(c)
  PROVE  TypeInv'
<1> USE PoolAssumption DEF TypeInv, threadVars, setVars, mainVars, callVars,
                           jobVars
<1>1. CASE ScaleUp(c)
  <2>1. FillVector /\ UNCHANGED held BY <1>1 DEF ScaleUp
  <2>2. TypeOK'
    BY <1>1, <2>1, FillVectorTypes DEF ScaleUp, TypeOK, ClientPCs
  <2>3. HandInv' BY <2>1, FillVectorTypes DEF HandInv, TypeOK
  <2>4. CallInv' BY <1>1 DEF ScaleUp, CallInv, TypeOK
  <2> QED BY <2>2, <2>3, <2>4
<1>2. CASE SpawnSelect(c)
  <2>1. \/ \E w \in Workers : Selected(c, w)
        \/ Selected(c, None)
        \/ EndCall(c)
    BY <1>2, Zenon DEF SpawnSelect, LeastLoaded, Addressed, Eligible
  <2>2. Selecting(c) /\ cop[c] = "spawn" BY <1>2 DEF SpawnSelect
  <2> QED BY <2>1, <2>2, SelectingTypeInv
<1>3. CASE SpawnPush(c)
  <2>1. carg[c] \in Jobs /\ carg[c] \notin accepted
        /\ \A d \in Clients : cop[d] = "spawn" /\ carg[d] = carg[c] => d = c
    BY <1>3 DEF SpawnPush, CallInv
  <2>2. EndCall(c) BY <1>3 DEF SpawnPush
  <2>3. TypeOK'
    <3>1. private_jobs' \in [Workers -> SUBSET Jobs]
      <4>1. CASE csel[c] # None
        <5>1. private_jobs' = [private_jobs EXCEPT ![csel[c]] =
                                 private_jobs[csel[c]] \cup {carg[c]}]
          BY <1>3, <4>1, Zenon DEF SpawnPush
        <5> QED BY <2>1, <5>1 DEF TypeOK
      <4>2. CASE csel[c] = None
        BY <1>3, <2>1, <4>2 DEF SpawnPush, TypeOK
      <4> QED BY <4>1, <4>2
    <3>2. accepted' \in SUBSET Jobs /\ shared_jobs' \in SUBSET Jobs
      BY <1>3, <2>1 DEF SpawnPush, TypeOK
    <3> QED BY <1>3, <2>2, <3>1, <3>2, EndCallTypes DEF SpawnPush, TypeOK
  <2>4. HandInv' BY <1>3 DEF SpawnPush, HandInv
  <2>5. CallInv'
    BY <1>3, <2>1, <2>2, EndCallTypes DEF SpawnPush, CallInv
  <2> QED BY <2>3, <2>4, <2>5
<1>4. CASE TickSelect(c)
  <2>1. \/ \E w \in Workers : Selected(c, w)
        \/ EndCall(c)
    BY <1>4, Zenon DEF TickSelect, Addressed, Eligible
  <2>2. Selecting(c) BY <1>4 DEF TickSelect
  <2> QED BY <2>1, <2>2, SelectingTypeInv
<1>5. CASE AddTick(c)
  <2>1. carg[c] \in Handles /\ csel[c] \in Workers /\ EndCall(c)
    BY <1>5 DEF AddTick, CallInv
  <2>2. TypeOK'
    BY <1>5, <2>1, EndCallTypes DEF AddTick, TypeOK
  <2>3. HandInv' BY <1>5 DEF AddTick, HandInv
  <2>4. CallInv' BY <1>5, <2>1, EndCallTypes DEF AddTick, CallInv
  <2> QED BY <2>2, <2>3, <2>4
<1>6. CASE RemoveTick(c)
  <2>1. carg[c] \in Handles /\ csel[c] \in Workers /\ EndCall(c)
    BY <1>6 DEF RemoveTick, CallInv
  <2>2. TypeOK'
    BY <1>6, <2>1, EndCallTypes DEF RemoveTick, TypeOK
  <2>3. HandInv' BY <1>6 DEF RemoveTick, HandInv
  <2>4. CallInv' BY <1>6, <2>1, EndCallTypes DEF RemoveTick, CallInv
  <2> QED BY <2>2, <2>3, <2>4
<1> QED BY <1>1, <1>2, <1>3, <1>4, <1>5, <1>6 DEF CallStep

\* Shortening the vector, from its end or anywhere.
LEMMA ReduceToTypes ==
  ASSUME TypeOK, NEW limit \in Nat, ReduceTo(limit)
  PROVE  workers' \in Seq(Workers) /\ UNCHANGED worker_id
  BY DEF ReduceTo, TypeOK

LEMMA AutofixTypes ==
  ASSUME TypeOK, Autofix
  PROVE  workers' \in Seq(Workers) /\ worker_id' \in [Workers -> Nat]
<1>1. CASE ~NeedAutofix BY <1>1 DEF Autofix, TypeOK
<1>2. CASE NeedAutofix
  <2>0. PICK n \in 0..Len(workers) : \E f \in [1..n -> 1..Len(workers)] :
          /\ workers' = [i \in 1..n |-> workers[f[i]]]
          /\ worker_id' = [w \in Workers |->
               IF \E i \in 1..n : workers[f[i]] = w
               THEN CHOOSE i \in 1..n : workers[f[i]] = w
               ELSE worker_id[w]]
    BY <1>2, Zenon DEF Autofix
  <2>1. PICK f \in [1..n -> 1..Len(workers)] :
          /\ workers' = [i \in 1..n |-> workers[f[i]]]
          /\ worker_id' = [w \in Workers |->
               IF \E i \in 1..n : workers[f[i]] = w
               THEN CHOOSE i \in 1..n : workers[f[i]] = w
               ELSE worker_id[w]]
    BY <2>0, Zenon
  <2>2. workers' \in Seq(Workers)
    BY <2>1 DEF TypeOK
  <2>3. ASSUME NEW w \in Workers PROVE worker_id'[w] \in Nat
    <3>1. CASE \E i \in 1..n : workers[f[i]] = w
      <4>1. (CHOOSE i \in 1..n : workers[f[i]] = w) \in 1..n
        BY <3>1, Zenon
      <4>2. worker_id'[w] = CHOOSE i \in 1..n : workers[f[i]] = w
        BY <2>1, <3>1
      <4> QED BY <4>1, <4>2
    <3>2. CASE ~ \E i \in 1..n : workers[f[i]] = w
      BY <2>1, <3>2 DEF TypeOK
    <3> QED BY <3>1, <3>2
  <2> QED BY <2>1, <2>2, <2>3
<1> QED BY <1>1, <1>2

\* What tick(), stop() and cleanup() change besides the queues.
LEMMA MainTypeInv ==
  ASSUME TypeInv,
         \/ MainStep
         \/ TickBegin
         \/ StopBegin
         \/ AppTimeout
         \/ CleanupBegin
  PROVE  TypeInv'
<1> USE PoolAssumption DEF TypeInv, TypeOK, HandInv, CallInv, MainPCs,
                           threadVars, setVars, mainVars, callVars, jobVars
<1>1. CASE TickReduce
  <2>1. workers' \in Seq(Workers) /\ worker_id' \in [Workers -> Nat]
    <3>1. CASE ReduceTo(IF closing THEN 0 ELSE current_expect_workers)
      BY <3>1, ReduceToTypes
    <3>2. CASE Autofix BY <3>2, AutofixTypes
    <3> QED BY <1>1, <3>1, <3>2 DEF TickReduce
  <2> QED BY <1>1, <2>1 DEF TickReduce
<1>2. CASE RebalanceBegin
  BY <1>2 DEF RebalanceBegin, AfterRebalance, AfterFlag, TakeScalingFlag
<1>3. CASE RebalanceScaleUp
  <2>1. FillVector BY <1>3 DEF RebalanceScaleUp
  <2> QED BY <1>3, <2>1, FillVectorTypes DEF RebalanceScaleUp
<1>4. CASE RebalanceGather
  BY <1>4 DEF RebalanceGather, AfterRebalance, Eligible
<1>5. CASE RebalanceMove BY <1>5 DEF RebalanceMove
<1>6. CASE RebalanceEnd BY <1>6 DEF RebalanceEnd, AfterRebalance
<1>7. CASE SharedJob BY <1>7 DEF SharedJob
<1>8. CASE SharedEnd BY <1>8 DEF SharedEnd
<1>9. CASE StopCheckWorkers
  <2>1. ReduceTo(0) BY <1>9 DEF StopCheckWorkers
  <2> QED BY <1>9, <2>1, ReduceToTypes DEF StopCheckWorkers
<1>10. CASE StopCheckShared BY <1>10 DEF StopCheckShared
<1>11. CASE CleanupLoop
  <2>1. ReduceTo(0) BY <1>11 DEF CleanupLoop
  <2> QED BY <1>11, <2>1, ReduceToTypes DEF CleanupLoop
<1>12. CASE TickBegin
  <2>1. ScalingTargets \subseteq Nat BY DEF ScalingTargets
  <2>2. /\ current_expect_workers' \in Nat
        /\ need_scaling_up' \in BOOLEAN
        /\ scalings' \in Nat
    <3>1. CASE closing BY <1>12, <3>1 DEF TickBegin
    <3>2. CASE ~closing
      <4>1. PICK e \in ScalingTargets :
              /\ current_expect_workers' = e
              /\ \/ UNCHANGED <<need_scaling_up, scalings>>
                 \/ scalings' = scalings + 1 /\ need_scaling_up' = TRUE
        BY <1>12, <3>2, Zenon DEF TickBegin
      <4>2. need_scaling_up' \in BOOLEAN BY <4>1, Zenon
      <4>3. scalings' \in Nat
        <5>1. scalings' = scalings \/ scalings' = scalings + 1 BY <4>1
        <5> QED BY <5>1
      <4> QED BY <2>1, <4>1, <4>2, <4>3
    <3> QED BY <3>1, <3>2
  <2>3. /\ mpc' = "reduce"
        /\ UNCHANGED <<workers, worker_id, shared_jobs, closing, cleaning>>
        /\ UNCHANGED <<phase, candidates, threadVars, callVars, jobVars>>
    BY <1>12 DEF TickBegin
  <2> QED BY <2>2, <2>3
<1>13. CASE StopBegin BY <1>13 DEF StopBegin
<1>14. CASE AppTimeout BY <1>14 DEF AppTimeout
<1>15. CASE CleanupBegin BY <1>15 DEF CleanupBegin
<1> QED
  BY <1>1, <1>2, <1>3, <1>4, <1>5, <1>6, <1>7, <1>8, <1>9, <1>10, <1>11,
     <1>12, <1>13, <1>14, <1>15
  DEF MainStep

LEMMA StepTypeInv ==
  ASSUME TypeInv, [Next]_vars
  PROVE  TypeInv'
<1>1. CASE UNCHANGED vars
  BY <1>1 DEF vars, threadVars, setVars, mainVars, callVars, jobVars, TypeInv,
              TypeOK, HandInv, CallInv
<1>2. CASE \E w \in Workers : ThreadStep(w) \/ CreatedTooLong(w)
  BY <1>2, ThreadTypeInv
<1>3. ASSUME NEW c \in Clients, NEW id \in 0..MaxWorkers, NEW j \in Jobs,
             SpawnBegin(c, j, id)
      PROVE  TypeInv'
  BY <1>3, BeginCallTypeInv, PoolAssumption DEF SpawnBegin, Operations
<1>4. ASSUME NEW c \in Clients, NEW id \in 0..MaxWorkers, NEW h \in Handles,
             AddBegin(c, h, id)
      PROVE  TypeInv'
  BY <1>4, BeginCallTypeInv, PoolAssumption DEF AddBegin, Operations
<1>5. ASSUME NEW c \in Clients, NEW h \in Handles, RemoveBegin(c, h)
      PROVE  TypeInv'
  <2>1. specify_worker[h] \in Nat BY DEF TypeInv, TypeOK
  <2> QED BY <1>5, <2>1, BeginCallTypeInv DEF RemoveBegin, Operations
<1>6. CASE \E c \in Clients : CallStep(c)
  BY <1>6, CallTypeInv
<1>7. CASE TickBegin \/ MainStep \/ StopBegin \/ AppTimeout \/ CleanupBegin
  BY <1>7, MainTypeInv
<1> QED BY <1>1, <1>2, <1>3, <1>4, <1>5, <1>6, <1>7 DEF Next

\* The variables keep their types whatever the threads do; in particular no
\* thread runs or moves a job it does not have.
THEOREM PoolTypes == Spec => []TypeOK
<1>1. Init => TypeInv BY InitTypeInv
<1>2. TypeInv /\ [Next]_vars => TypeInv' BY StepTypeInv
<1>3. TypeInv => TypeOK BY DEF TypeInv
<1> QED BY <1>1, <1>2, <1>3, PTL DEF Spec

-----------------------------------------------------------------------------
(* Jobs. Most steps touch no queue and no hand; the seven that do each move *)
(* one job from one place to another.                                      *)

Places == <<private_jobs, held, shared_jobs, accepted, done>>

LEMMA QuietJobInv ==
  ASSUME JobInv, UNCHANGED Places
  PROVE  JobInv'
  BY DEF Places, JobInv, PlacesInv, NoJobLost, NoJobTwice

\* A worker thread takes a job from its queue into its hand.
LEMMA PopJobInv ==
  ASSUME TypeInv, JobInv, NEW w \in Workers, NEW j \in private_jobs[w],
         held[w] = None,
         private_jobs' = [private_jobs EXCEPT ![w] = private_jobs[w] \ {j}],
         held' = [held EXCEPT ![w] = j],
         UNCHANGED <<shared_jobs, accepted, done>>
  PROVE  JobInv'
<1> USE DEF TypeInv, TypeOK, JobInv
<1>1. /\ held'[w] = j
      /\ \A v \in Workers : v # w => held'[v] = held[v]
      /\ private_jobs'[w] = private_jobs[w] \ {j}
      /\ \A v \in Workers : v # w => private_jobs'[v] = private_jobs[v]
  OBVIOUS
<1>2. j \in Jobs OBVIOUS
<1>3. PlacesInv' BY <1>1 DEF PlacesInv
<1>4. NoJobLost'
  <2> SUFFICES ASSUME NEW k \in accepted
               PROVE  \/ k \in done \/ k \in shared_jobs
                      \/ \E v \in Workers : k \in private_jobs'[v] \/ held'[v] = k
    BY DEF NoJobLost
  <2>1. CASE k = j BY <1>1, <2>1
  <2>2. CASE k \in done \/ k \in shared_jobs BY <2>2
  <2>3. ASSUME k # j, NEW v \in Workers, k \in private_jobs[v] \/ held[v] = k
        PROVE  k \in private_jobs'[v] \/ held'[v] = k
    BY <1>1, <2>3, PoolAssumption
  <2> QED BY <2>1, <2>2, <2>3 DEF NoJobLost
<1>5. NoJobTwice' BY <1>1, <1>2 DEF NoJobTwice
<1> QED BY <1>3, <1>4, <1>5

\* The job in the hand of a worker thread is done or goes to shared_jobs.
LEMMA ReleaseJobInv ==
  ASSUME TypeInv, JobInv, NEW w \in Workers, held[w] # None,
         held' = [held EXCEPT ![w] = None],
         UNCHANGED <<private_jobs, accepted>>,
         \/ done' = done \cup {held[w]} /\ UNCHANGED shared_jobs
         \/ shared_jobs' = shared_jobs \cup {held[w]} /\ UNCHANGED done
  PROVE  JobInv'
<1> USE DEF TypeInv, TypeOK, JobInv
<1>1. /\ held'[w] = None
      /\ \A v \in Workers : v # w => held'[v] = held[v]
  OBVIOUS
<1>3. PlacesInv' BY <1>1 DEF PlacesInv
<1>4. NoJobLost'
  <2> SUFFICES ASSUME NEW k \in accepted
               PROVE  \/ k \in done' \/ k \in shared_jobs'
                      \/ \E v \in Workers : k \in private_jobs[v] \/ held'[v] = k
    BY DEF NoJobLost
  <2>1. CASE k = held[w] \/ k \in done \/ k \in shared_jobs BY <2>1
  <2>2. ASSUME k # held[w], NEW v \in Workers, k \in private_jobs[v] \/ held[v] = k
        PROVE  k \in private_jobs[v] \/ held'[v] = k
    BY <1>1, <2>2
  <2> QED BY <2>1, <2>2 DEF NoJobLost
<1>5. NoJobTwice'
  <2>1. CASE done' = done \cup {held[w]} /\ UNCHANGED shared_jobs
    BY <1>1, <2>1, PoolAssumption DEF NoJobTwice
  <2>2. CASE shared_jobs' = shared_jobs \cup {held[w]} /\ UNCHANGED done
    BY <1>1, <2>2, PoolAssumption DEF NoJobTwice
  <2> QED BY <2>1, <2>2
<1> QED BY <1>3, <1>4, <1>5

\* A job that is new, or has just left shared_jobs, enters a private queue.
LEMMA RebalanceMoveJobInv ==
  ASSUME TypeInv, JobInv, RebalanceMove
  PROVE  JobInv'
<1> USE DEF TypeInv, TypeOK, JobInv
<1>0. PICK j \in shared_jobs, w \in candidates :
        /\ shared_jobs' = shared_jobs \ {j}
        /\ private_jobs' = [private_jobs EXCEPT ![w] = private_jobs[w] \cup {j}]
  BY DEF RebalanceMove
<1>1. UNCHANGED <<held, accepted, done>>
  BY DEF RebalanceMove, jobVars
<1>2. /\ w \in Workers
      /\ private_jobs'[w] = private_jobs[w] \cup {j}
      /\ \A v \in Workers : v # w => private_jobs'[v] = private_jobs[v]
  BY <1>0
<1>3. PlacesInv' BY <1>0, <1>1, <1>2 DEF PlacesInv
<1>4. NoJobLost' BY <1>0, <1>1, <1>2 DEF NoJobLost
<1>5. NoJobTwice' BY <1>0, <1>1, <1>2 DEF NoJobTwice
<1> QED BY <1>3, <1>4, <1>5

LEMMA SharedJobJobInv ==
  ASSUME TypeInv, JobInv, SharedJob
  PROVE  JobInv'
<1> USE DEF TypeInv, TypeOK, JobInv
<1>0. PICK j \in shared_jobs :
        shared_jobs' = shared_jobs \ {j} /\ done' = done \cup {j}
  BY DEF SharedJob
<1>1. UNCHANGED <<held, accepted, private_jobs>>
  BY DEF SharedJob, threadVars
<1>3. PlacesInv' BY <1>0, <1>1 DEF PlacesInv
<1>4. NoJobLost' BY <1>0, <1>1 DEF NoJobLost
<1>5. NoJobTwice' BY <1>0, <1>1 DEF NoJobTwice
<1> QED BY <1>3, <1>4, <1>5

LEMMA SpawnPushJobInv ==
  ASSUME TypeInv, JobInv, NEW c \in Clients, SpawnPush(c)
  PROVE  JobInv'
<1> USE DEF TypeInv, TypeOK, JobInv
<1> DEFINE j == carg[c]
<1>1. j \in Jobs /\ j \notin accepted
  BY DEF SpawnPush, CallInv
<1>2. accepted' = accepted \cup {j} /\ UNCHANGED <<held, done>>
  BY DEF SpawnPush
<1>3. j \notin shared_jobs /\ j \notin done
      /\ \A w \in Workers : j \notin private_jobs[w] /\ held[w] # j
  BY <1>1, PoolAssumption DEF PlacesInv
<1>4. CASE csel[c] = None
  <2>1. shared_jobs' = shared_jobs \cup {j} /\ UNCHANGED private_jobs
    BY <1>4, Zenon DEF SpawnPush
  <2>3. PlacesInv' BY <1>2, <2>1 DEF PlacesInv
  <2>4. NoJobLost' BY <1>2, <2>1 DEF NoJobLost
  <2>5. NoJobTwice' BY <1>2, <1>3, <2>1 DEF NoJobTwice
  <2> QED BY <2>3, <2>4, <2>5
<1>5. CASE csel[c] # None
  <2> DEFINE w == csel[c]
  <2>1. /\ private_jobs' = [private_jobs EXCEPT ![w] = private_jobs[w] \cup {j}]
        /\ UNCHANGED shared_jobs
    BY <1>5, Zenon DEF SpawnPush
  <2>2. /\ w \in Workers
        /\ private_jobs'[w] = private_jobs[w] \cup {j}
        /\ \A v \in Workers : v # w => private_jobs'[v] = private_jobs[v]
    BY <1>5, <2>1
  <2> HIDE DEF w, j
  <2>3. PlacesInv' BY <1>2, <2>1, <2>2 DEF PlacesInv
  <2>4. NoJobLost' BY <1>2, <2>1, <2>2 DEF NoJobLost
  <2>5. NoJobTwice' BY <1>2, <1>3, <2>1, <2>2 DEF NoJobTwice
  <2> QED BY <2>3, <2>4, <2>5
<1> QED BY <1>4, <1>5

LEMMA StepJobInv ==
  ASSUME TypeInv, JobInv, [Next]_vars
  PROVE  JobInv'
<1> USE DEF threadVars, setVars, mainVars, callVars, jobVars
<1>1. CASE UNCHANGED vars
  BY <1>1, QuietJobInv DEF vars, Places
<1>2. ASSUME NEW w \in Workers, ThreadStep(w) \/ CreatedTooLong(w)
      PROVE  JobInv'
  <2>1. CASE PopJob(w) \/ DrainPop(w)
    <3>1. held[w] = None
      BY <2>1 DEF PopJob, DrainPop, TypeInv, HandInv
    <3>2. PICK j \in private_jobs[w] :
            /\ private_jobs' = [private_jobs EXCEPT ![w] = private_jobs[w] \ {j}]
            /\ held' = [held EXCEPT ![w] = j]
      BY <2>1 DEF PopJob, DrainPop
    <3>3. UNCHANGED <<shared_jobs, accepted, done>>
      BY <2>1 DEF PopJob, DrainPop
    <3> QED BY <3>1, <3>2, <3>3, PopJobInv
  <2>2. CASE FinishJob(w)
    <3>1. held[w] # None
      BY <2>2, PoolAssumption DEF FinishJob, TypeInv, HandInv
    <3>2. /\ done' = done \cup {held[w]}
          /\ held' = [held EXCEPT ![w] = None]
          /\ UNCHANGED <<private_jobs, accepted, shared_jobs>>
      BY <2>2 DEF FinishJob
    <3> QED BY <3>1, <3>2, ReleaseJobInv
  <2>3. CASE DrainPush(w)
    <3>1. held[w] # None
      BY <2>3, PoolAssumption DEF DrainPush, TypeInv, HandInv
    <3>2. /\ shared_jobs' = shared_jobs \cup {held[w]}
          /\ held' = [held EXCEPT ![w] = None]
          /\ UNCHANGED <<private_jobs, accepted, done>>
      BY <2>3 DEF DrainPush
    <3> QED BY <3>1, <3>2, ReleaseJobInv
  <2>4. CASE \/ ThreadStart(w) \/ CreatedTooLong(w) \/ LoopTop(w)
             \/ NoMoreJobs(w) \/ EndCallbacks(w) \/ MarkExiting(w)
             \/ MarkExited(w)
    <3>1. UNCHANGED Places
      BY <2>4 DEF ThreadStart, CreatedTooLong, LoopTop, NoMoreJobs, EndCallbacks,
                  MarkExiting, MarkExited, Places
    <3> QED BY <3>1, QuietJobInv
  <2> QED BY <1>2, <2>1, <2>2, <2>3, <2>4 DEF ThreadStep
<1>3. ASSUME NEW c \in Clients, NEW op, NEW arg, NEW id, BeginCall(c, op, arg, id)
      PROVE  JobInv'
  BY <1>3, QuietJobInv DEF BeginCall, Places
<1>4. ASSUME NEW c \in Clients, CallStep(c)
      PROVE  JobInv'
  <2>1. CASE SpawnPush(c) BY <2>1, SpawnPushJobInv
  <2>2. CASE ScaleUp(c) BY <2>2, QuietJobInv DEF ScaleUp, Places
  <2>3. CASE SpawnSelect(c) BY <2>3, QuietJobInv DEF SpawnSelect, Selecting, Places
  <2>4. CASE TickSelect(c) BY <2>4, QuietJobInv DEF TickSelect, Selecting, Places
  <2>5. CASE AddTick(c) BY <2>5, QuietJobInv DEF AddTick, Places
  <2>6. CASE RemoveTick(c) BY <2>6, QuietJobInv DEF RemoveTick, Places
  <2> QED BY <1>4, <2>1, <2>2, <2>3, <2>4, <2>5, <2>6 DEF CallStep
<1>5. CASE MainStep
  <2>1. CASE RebalanceMove BY <2>1, RebalanceMoveJobInv
  <2>2. CASE SharedJob BY <2>2, SharedJobJobInv
  <2>3. CASE TickReduce BY <2>3, QuietJobInv DEF TickReduce, Places
  <2>4. CASE RebalanceBegin BY <2>4, QuietJobInv DEF RebalanceBegin, Places
  <2>5. CASE RebalanceScaleUp BY <2>5, QuietJobInv DEF RebalanceScaleUp, Places
  <2>6. CASE RebalanceGather BY <2>6, QuietJobInv DEF RebalanceGather, Places
  <2>7. CASE RebalanceEnd BY <2>7, QuietJobInv DEF RebalanceEnd, Places
  <2>8. CASE SharedEnd BY <2>8, QuietJobInv DEF SharedEnd, Places
  <2>9. CASE StopCheckWorkers BY <2>9, QuietJobInv DEF StopCheckWorkers, Places
  <2>10. CASE StopCheckShared BY <2>10, QuietJobInv DEF StopCheckShared, Places
  <2>11. CASE CleanupLoop BY <2>11, QuietJobInv DEF CleanupLoop, Places
  <2> QED
    BY <1>5, <2>1, <2>2, <2>3, <2>4, <2>5, <2>6, <2>7, <2>8, <2>9, <2>10, <2>11
    DEF MainStep
<1>6. CASE TickBegin BY <1>6, QuietJobInv DEF TickBegin, Places
<1>7. CASE StopBegin BY <1>7, QuietJobInv DEF StopBegin, Places
<1>8. CASE AppTimeout BY <1>8, QuietJobInv DEF AppTimeout, Places
<1>9. CASE CleanupBegin BY <1>9, QuietJobInv DEF CleanupBegin, Places
<1> QED
  BY <1>1, <1>2, <1>3, <1>4, <1>5, <1>6, <1>7, <1>8, <1>9
  DEF Next, SpawnBegin, AddBegin, RemoveBegin

\* No accepted job is ever lost, and none is in two places, for any number of
\* threads and through scaling, stop(), cleanup() and stalled threads.
THEOREM JobsConserved == Spec => [](NoJobLost /\ NoJobTwice)
<1>1. Init => TypeInv /\ JobInv
  <2>1. ASSUME Init PROVE JobInv
    BY <2>1 DEF Init, JobInv, PlacesInv, NoJobLost, NoJobTwice
  <2> QED BY <2>1, InitTypeInv
<1>2. TypeInv /\ JobInv /\ [Next]_vars => TypeInv' /\ JobInv'
  BY StepTypeInv, StepJobInv
<1>3. JobInv => NoJobLost /\ NoJobTwice BY DEF JobInv
<1> QED BY <1>1, <1>2, <1>3, PTL DEF Spec

\* In particular no job is ever in two queues, hands or the done list at once:
\* neither the drain of a leaving thread nor rebalance_jobs() copies a job.
THEOREM NoJobDoubled == Spec => []NoJobTwice
  BY JobsConserved, PTL

-----------------------------------------------------------------------------
(* The pool implements JobPool: a step that touches a queue or a hand      *)
(* accepts, takes or finishes one job or leaves its abstract place alone,  *)
(* and every other step changes nothing JobPool can see.                   *)

\* Steps that move no job, as JobPool sees them.
LEMMA QuietStutters ==
  ASSUME UNCHANGED Places,
         \A w \in Workers : /\ pc'[w] = "job" <=> pc[w] = "job"
                            /\ pc'[w] = "move" <=> pc[w] = "move"
  PROVE  UNCHANGED Promise!poolVars
<1>1. Waiting' = Waiting BY DEF Waiting, Places
<1>2. Running' = Running BY DEF Running, Places
<1> QED BY <1>1, <1>2 DEF Promise!poolVars, Places

LEMMA PopTakes ==
  ASSUME TypeInv, JobInv, NEW w \in Workers, PopJob(w)
  PROVE  \E j \in Jobs : Promise!Take(j)
<1> USE DEF TypeInv, TypeOK
<1>1. PICK j \in private_jobs[w] :
        /\ private_jobs' = [private_jobs EXCEPT ![w] = private_jobs[w] \ {j}]
        /\ held' = [held EXCEPT ![w] = j]
  BY DEF PopJob
<1>2. /\ pc[w] = "tick" /\ pc' = [pc EXCEPT ![w] = "job"]
      /\ UNCHANGED <<shared_jobs, done>>
  BY DEF PopJob, setVars, jobVars
<1>3. j \in Jobs /\ j \notin shared_jobs
      /\ \A v \in Workers : held[v] # j /\ (v # w => j \notin private_jobs[v])
  BY DEF JobInv, NoJobTwice
<1>4. /\ pc'[w] = "job" /\ held'[w] = j /\ private_jobs'[w] = private_jobs[w] \ {j}
      /\ \A v \in Workers : v # w =>
           pc'[v] = pc[v] /\ held'[v] = held[v] /\ private_jobs'[v] = private_jobs[v]
  BY <1>1, <1>2
<1>5. Waiting' = Waiting \ {j}
  <2>1. ASSUME NEW k \in Jobs PROVE k \in Waiting' <=> k \in Waiting /\ k # j
    BY <1>2, <1>3, <1>4, ZenonT(30) DEF Waiting
  <2> QED BY <2>1, ZenonT(30) DEF Waiting
<1>6. Running' = Running \cup {j}
  <2>1. ASSUME NEW k \in Jobs PROVE k \in Running' <=> k \in Running \/ k = j
    BY <1>2, <1>4 DEF Running
  <2> QED BY <1>3, <2>1, ZenonT(30) DEF Running
<1>7. j \in Waiting BY <1>3 DEF Waiting
<1> QED BY <1>2, <1>3, <1>5, <1>6, <1>7 DEF Promise!Take

LEMMA FinishFinishes ==
  ASSUME TypeInv, JobInv, NEW w \in Workers, FinishJob(w)
  PROVE  \E j \in Jobs : Promise!Finish(j)
<1> USE DEF TypeInv, TypeOK
<1> DEFINE j == held[w]
<1>1. j \in Jobs BY DEF FinishJob, HandInv
<1>2. /\ pc[w] = "job" /\ done' = done \cup {j}
      /\ held' = [held EXCEPT ![w] = None]
      /\ UNCHANGED <<private_jobs, shared_jobs>>
  BY DEF FinishJob, setVars
<1>3. /\ pc'[w] \notin {"job", "move"}
      /\ \A v \in Workers : v # w => pc'[v] = pc[v] /\ held'[v] = held[v]
  <2>1. PICK x \in {"tick", "top", "callback"} : pc' = [pc EXCEPT ![w] = x]
    <3>1. CASE tick_handles[w] = {} BY <3>1 DEF FinishJob, BeginCallbacks
    <3>2. CASE tick_handles[w] # {} BY <3>2 DEF FinishJob, BeginCallbacks
    <3> QED BY <3>1, <3>2
  <2> QED BY <1>2, <2>1
<1>4. \A v \in Workers : held[v] = j => v = w
  BY <1>1, PoolAssumption, ZenonT(30) DEF JobInv, NoJobTwice
<1>5. Waiting' = Waiting
  <2>1. ASSUME NEW k \in Jobs PROVE k \in Waiting' <=> k \in Waiting
    BY <1>2, <1>3 DEF Waiting
  <2> QED BY <2>1 DEF Waiting
<1>6. Running' = Running \ {j}
  <2>1. ASSUME NEW k \in Jobs PROVE k \in Running' <=> k \in Running /\ k # j
    BY <1>2, <1>3, <1>4 DEF Running
  <2> QED BY <2>1 DEF Running
<1>7. j \in Running BY <1>1, <1>2 DEF Running
<1> QED BY <1>1, <1>2, <1>5, <1>6, <1>7 DEF Promise!Finish

\* A leaving worker takes a job out of its queue, and puts it into shared_jobs.
LEMMA DrainStutters ==
  ASSUME TypeInv, JobInv, NEW w \in Workers, DrainPop(w) \/ DrainPush(w)
  PROVE  UNCHANGED Promise!poolVars
<1> USE DEF TypeInv, TypeOK
<1>1. CASE DrainPop(w)
  <2>1. PICK j \in private_jobs[w] :
          /\ private_jobs' = [private_jobs EXCEPT ![w] = private_jobs[w] \ {j}]
          /\ held' = [held EXCEPT ![w] = j]
    BY <1>1 DEF DrainPop
  <2>2. /\ pc[w] = "drain" /\ pc' = [pc EXCEPT ![w] = "move"]
        /\ UNCHANGED <<shared_jobs, done>>
    BY <1>1 DEF DrainPop, setVars, jobVars
  <2>3. /\ pc'[w] = "move" /\ held'[w] = j /\ private_jobs'[w] = private_jobs[w] \ {j}
        /\ \A v \in Workers : v # w =>
             pc'[v] = pc[v] /\ held'[v] = held[v] /\ private_jobs'[v] = private_jobs[v]
    BY <2>1, <2>2
  <2>4. ASSUME NEW k \in Jobs
        PROVE  (k \in Waiting' <=> k \in Waiting) /\ (k \in Running' <=> k \in Running)
    <3>1. k \in Running' <=> k \in Running BY <2>2, <2>3 DEF Running
    <3>2. CASE k = j BY <2>2, <2>3, <3>1, <3>2 DEF Waiting
    <3>3. CASE k # j
      <4>1. \A v \in Workers : k \in private_jobs'[v] <=> k \in private_jobs[v]
        BY <2>3, <3>3
      <4>2. \A v \in Workers : pc'[v] = "move" /\ held'[v] = k
                                 <=> pc[v] = "move" /\ held[v] = k
        BY <2>2, <2>3, <3>3
      <4> QED BY <2>2, <3>1, <4>1, <4>2 DEF Waiting
    <3> QED BY <3>2, <3>3
  <2>5. Waiting' = Waiting /\ Running' = Running BY <2>4, ZenonT(30) DEF Waiting, Running
  <2> QED BY <2>2, <2>5 DEF Promise!poolVars
<1>2. CASE DrainPush(w)
  <2>1. /\ pc[w] = "move" /\ pc' = [pc EXCEPT ![w] = "drain"]
        /\ held' = [held EXCEPT ![w] = None]
        /\ shared_jobs' = shared_jobs \cup {held[w]}
        /\ UNCHANGED <<private_jobs, done>>
    BY <1>2 DEF DrainPush, jobVars
  <2>2. /\ pc'[w] = "drain"
        /\ \A v \in Workers : v # w => pc'[v] = pc[v] /\ held'[v] = held[v]
    BY <2>1
  <2>3. ASSUME NEW k \in Jobs
        PROVE  (k \in Waiting' <=> k \in Waiting) /\ (k \in Running' <=> k \in Running)
    BY <2>1, <2>2 DEF Waiting, Running
  <2>4. Waiting' = Waiting /\ Running' = Running BY <2>3, ZenonT(30) DEF Waiting, Running
  <2> QED BY <2>1, <2>4 DEF Promise!poolVars
<1> QED BY <1>1, <1>2

LEMMA PushAccepts ==
  ASSUME TypeInv, JobInv, NEW c \in Clients, SpawnPush(c)
  PROVE  \E j \in Jobs : Promise!Accept(j)
<1> USE DEF TypeInv, TypeOK
<1> DEFINE j == carg[c]
<1>1. j \in Jobs /\ j \notin accepted BY DEF SpawnPush, CallInv
<1>2. UNCHANGED <<pc, held, done>> BY DEF SpawnPush
<1>3. \/ csel[c] = None /\ shared_jobs' = shared_jobs \cup {j} /\ UNCHANGED private_jobs
      \/ /\ csel[c] \in Workers
         /\ private_jobs' = [private_jobs EXCEPT ![csel[c]] =
                               private_jobs[csel[c]] \cup {j}]
         /\ UNCHANGED shared_jobs
  BY Zenon DEF SpawnPush
<1>4. j \notin Waiting /\ j \notin Running /\ j \notin done
  BY <1>1, PoolAssumption DEF JobInv, PlacesInv, Waiting, Running
<1>5. Waiting' = Waiting \cup {j}
  <2>1. ASSUME NEW k \in Jobs PROVE k \in Waiting' <=> k \in Waiting \/ k = j
    <3>1. CASE shared_jobs' = shared_jobs \cup {j} /\ UNCHANGED private_jobs
      BY <1>2, <3>1 DEF Waiting
    <3>2. CASE /\ csel[c] \in Workers
               /\ private_jobs' = [private_jobs EXCEPT ![csel[c]] =
                                     private_jobs[csel[c]] \cup {j}]
               /\ UNCHANGED shared_jobs
      <4>1. /\ private_jobs'[csel[c]] = private_jobs[csel[c]] \cup {j}
            /\ \A v \in Workers : v # csel[c] => private_jobs'[v] = private_jobs[v]
        BY <3>2
      <4> QED BY <1>2, <3>2, <4>1 DEF Waiting
    <3> QED BY <1>3, <3>1, <3>2
  <2> QED BY <1>1, <2>1 DEF Waiting
<1>6. Running' = Running BY <1>2 DEF Running
<1> QED BY <1>1, <1>2, <1>4, <1>5, <1>6 DEF Promise!Accept

LEMMA MoveStutters ==
  ASSUME TypeInv, RebalanceMove
  PROVE  UNCHANGED Promise!poolVars
<1> USE DEF TypeInv, TypeOK
<1>1. PICK j \in shared_jobs, w \in candidates :
        /\ shared_jobs' = shared_jobs \ {j}
        /\ private_jobs' = [private_jobs EXCEPT ![w] = private_jobs[w] \cup {j}]
  BY DEF RebalanceMove
<1>2. UNCHANGED <<pc, held, done>> BY DEF RebalanceMove, jobVars
<1>3. ASSUME NEW k \in Jobs PROVE k \in Waiting' <=> k \in Waiting
  BY <1>1, <1>2 DEF Waiting
<1>4. Waiting' = Waiting BY <1>3 DEF Waiting
<1>5. Running' = Running BY <1>2 DEF Running
<1> QED BY <1>2, <1>4, <1>5 DEF Promise!poolVars

LEMMA SharedRunsInPlace ==
  ASSUME TypeInv, JobInv, SharedJob
  PROVE  \E j \in Jobs : Promise!RunInPlace(j)
<1> USE DEF TypeInv, TypeOK
<1>1. PICK j \in shared_jobs :
        shared_jobs' = shared_jobs \ {j} /\ done' = done \cup {j}
  BY DEF SharedJob
<1>2. UNCHANGED <<pc, held, private_jobs>> BY DEF SharedJob, threadVars
<1>3. j \in Jobs /\ \A w \in Workers : j \notin private_jobs[w] /\ held[w] # j
  BY DEF JobInv, NoJobTwice
<1>4. Waiting' = Waiting \ {j}
  <2>1. ASSUME NEW k \in Jobs PROVE k \in Waiting' <=> k \in Waiting /\ k # j
    BY <1>1, <1>2, <1>3 DEF Waiting
  <2> QED BY <2>1 DEF Waiting
<1>5. Running' = Running BY <1>2 DEF Running
<1>6. j \in Waiting BY <1>3 DEF Waiting
<1> QED BY <1>1, <1>3, <1>4, <1>5, <1>6 DEF Promise!RunInPlace

LEMMA StepSimulates ==
  ASSUME TypeInv, JobInv, [Next]_vars
  PROVE  [Promise!PoolNext]_(Promise!poolVars)
<1> USE DEF threadVars, setVars, mainVars, callVars, jobVars
<1>1. CASE UNCHANGED vars
  BY <1>1, QuietStutters DEF vars, Places
<1>2. ASSUME NEW w \in Workers, ThreadStep(w) \/ CreatedTooLong(w)
      PROVE  [Promise!PoolNext]_(Promise!poolVars)
  <2>1. CASE PopJob(w) BY <2>1, PopTakes DEF Promise!PoolNext
  <2>2. CASE FinishJob(w) BY <2>2, FinishFinishes DEF Promise!PoolNext
  <2>3. CASE DrainPop(w) \/ DrainPush(w) BY <2>3, DrainStutters
  <2>4. CASE \/ ThreadStart(w) \/ CreatedTooLong(w) \/ LoopTop(w)
             \/ NoMoreJobs(w) \/ EndCallbacks(w) \/ MarkExiting(w)
             \/ MarkExited(w)
    <3>1. UNCHANGED Places
      BY <2>4 DEF ThreadStart, CreatedTooLong, LoopTop, NoMoreJobs, EndCallbacks,
                  MarkExiting, MarkExited, Places
    <3>2. /\ pc[w] \notin {"job", "move"} /\ pc'[w] \notin {"job", "move"}
          /\ \A v \in Workers : v # w => pc'[v] = pc[v]
      BY <2>4 DEF ThreadStart, CreatedTooLong, LoopTop, NoMoreJobs, EndCallbacks,
                  MarkExiting, MarkExited, BeginCallbacks, TypeInv, TypeOK
    <3> QED BY <3>1, <3>2, QuietStutters
  <2> QED BY <1>2, <2>1, <2>2, <2>3, <2>4 DEF ThreadStep
<1>3. ASSUME NEW c \in Clients, NEW op, NEW arg, NEW id, BeginCall(c, op, arg, id)
      PROVE  UNCHANGED Promise!poolVars
  BY <1>3, QuietStutters DEF BeginCall, Places
<1>4. ASSUME FillVector, UNCHANGED Places
      PROVE  UNCHANGED Promise!poolVars
  BY <1>4, FillVectorTypes, QuietStutters
<1>5. ASSUME NEW c \in Clients, CallStep(c)
      PROVE  [Promise!PoolNext]_(Promise!poolVars)
  <2>1. CASE SpawnPush(c) BY <2>1, PushAccepts DEF Promise!PoolNext
  <2>2. CASE ScaleUp(c) BY <2>2, <1>4 DEF ScaleUp, Places
  <2>3. CASE SpawnSelect(c) BY <2>3, QuietStutters DEF SpawnSelect, Selecting, Places
  <2>4. CASE TickSelect(c) BY <2>4, QuietStutters DEF TickSelect, Selecting, Places
  <2>5. CASE AddTick(c) BY <2>5, QuietStutters DEF AddTick, Places
  <2>6. CASE RemoveTick(c) BY <2>6, QuietStutters DEF RemoveTick, Places
  <2> QED BY <1>5, <2>1, <2>2, <2>3, <2>4, <2>5, <2>6 DEF CallStep
<1>6. CASE MainStep
  <2>1. CASE RebalanceMove BY <2>1, MoveStutters
  <2>2. CASE SharedJob BY <2>2, SharedRunsInPlace DEF Promise!PoolNext
  <2>3. CASE TickReduce BY <2>3, QuietStutters DEF TickReduce, Places
  <2>4. CASE RebalanceBegin BY <2>4, QuietStutters DEF RebalanceBegin, Places
  <2>5. CASE RebalanceScaleUp BY <2>5, <1>4 DEF RebalanceScaleUp, Places
  <2>6. CASE RebalanceGather BY <2>6, QuietStutters DEF RebalanceGather, Places
  <2>7. CASE RebalanceEnd BY <2>7, QuietStutters DEF RebalanceEnd, Places
  <2>8. CASE SharedEnd BY <2>8, QuietStutters DEF SharedEnd, Places
  <2>9. CASE StopCheckWorkers BY <2>9, QuietStutters DEF StopCheckWorkers, Places
  <2>10. CASE StopCheckShared BY <2>10, QuietStutters DEF StopCheckShared, Places
  <2>11. CASE CleanupLoop BY <2>11, QuietStutters DEF CleanupLoop, Places
  <2> QED
    BY <1>6, <2>1, <2>2, <2>3, <2>4, <2>5, <2>6, <2>7, <2>8, <2>9, <2>10, <2>11
    DEF MainStep
<1>7. CASE TickBegin BY <1>7, QuietStutters DEF TickBegin, Places
<1>8. CASE StopBegin BY <1>8, QuietStutters DEF StopBegin, Places
<1>9. CASE AppTimeout BY <1>9, QuietStutters DEF AppTimeout, Places
<1>10. CASE CleanupBegin BY <1>10, QuietStutters DEF CleanupBegin, Places
<1> QED
  BY <1>1, <1>2, <1>3, <1>5, <1>6, <1>7, <1>8, <1>9, <1>10
  DEF Next, SpawnBegin, AddBegin, RemoveBegin

\* The pool implements JobPool: whatever the threads do, an accepted job is
\* taken and finished once and never disappears.
THEOREM PoolImplementsJobPool == Spec => ImplementsJobPool
<1>1. Init => Promise!PoolInit
  BY DEF Init, Promise!PoolInit, Waiting, Running
<1>2. Spec => [](TypeInv /\ JobInv)
  <2>1. Init => TypeInv /\ JobInv
    <3>1. ASSUME Init PROVE JobInv
      BY <3>1 DEF Init, JobInv, PlacesInv, NoJobLost, NoJobTwice
    <3> QED BY <3>1, InitTypeInv
  <2>2. TypeInv /\ JobInv /\ [Next]_vars => TypeInv' /\ JobInv'
    BY StepTypeInv, StepJobInv
  <2> QED BY <2>1, <2>2, PTL DEF Spec
<1>3. TypeInv /\ JobInv /\ [Next]_vars => [Promise!PoolNext]_(Promise!poolVars)
  BY StepSimulates
<1> QED BY <1>1, <1>2, <1>3, PTL DEF Spec, ImplementsJobPool, Promise!PoolSpec

-----------------------------------------------------------------------------
(* What needs more than the types and the places of jobs: numbering, owners, *)
(* the loss of what a thread that is gone had, the calls and stop().         *)

\* One thread, the app's, calls the pool, which only scales down, is stopped
\* before it is cleaned up and whose threads start in time. Every one of these
\* is needed: without it a run of WorkerPool strands a job.
Steady == Clients = {Main} /\ ~MayRaise /\ ~MayAbort /\ ~MayStall

-----------------------------------------------------------------------------
(* The invariants that hold in every scenario. *)

\* A worker in the vector has a thread.
VectorStarted == \A i \in 1..Len(workers) : pc[workers[i]] # "none"

VectorInv == VectorNumbered /\ VectorStarted

\* A thread only goes through callbacks of its list, which is locked then.
CallingInv ==
  \A w \in Workers :
    /\ calling[w] \subseteq tick_handles[w]
    /\ pc[w] # "callback" => calling[w] = {}

\* A handle is in the list of its owner only; while it is being added nobody
\* owns it, and a removal has found the owner.
OwnerInv ==
  /\ \A w \in Workers : \A h \in tick_handles[w] : owner[h] = w
  /\ \A h \in removed : owner[h] # None
  /\ \A c, d \in Clients : carg[c] = carg[d] /\ carg[c] # None => c = d
  /\ \A c \in Clients :
       /\ cop[c] = "none" => carg[c] = None
       /\ cop[c] = "add" => owner[carg[c]] = None
       /\ cop[c] = "remove" => owner[carg[c]] # None
       /\ cop[c] = "remove" /\ cpc[c] = "apply" => csel[c] = owner[carg[c]]

HandleInv == CallingInv /\ OwnerInv /\ RemovedNotCalled

-----------------------------------------------------------------------------
(* The invariant of a steady pool. *)

Leaving == {"leave", "drain", "move", "exited"}

\* The app stops a pool once, for good.
ClosingInv ==
  /\ cpc[Main] # "idle" => mpc = "idle"
  /\ phase # "enabled" => closing
  /\ mpc \in {"check_workers", "check_shared", "cleanup", "shared"} => closing
  /\ mpc \in {"check_workers", "check_shared"} => phase = "enabled"
  /\ cleaning => closing
  /\ closing => current_expect_workers = 0
  /\ stalled = {}

\* Threads leave when their id is too big, what is not gone is in the vector,
\* and nobody gives a job to an object that has no thread yet.
LeavingInv ==
  /\ \A w \in Workers : pc[w] # "none" => worker_id[w] >= 1
  /\ \A w \in Workers : pc[w] \in Leaving => worker_id[w] > current_expect_workers
  /\ \A w \in Workers : pc[w] \notin {"none", "exited"} => InVector(w)
  /\ \A w \in Workers : pc[w] = "none" => private_jobs[w] = {}

ThreadsInv == LeavingInv /\ NoJobStranded /\ HandleKeepsWorker

\* Who is about to get a job or a callback does not leave.
Staying(w) == pc[w] # "none" /\ worker_id[w] <= current_expect_workers

TargetInv ==
  /\ cpc[Main] = "apply" /\ csel[Main] # None => Staying(csel[Main])
  /\ mpc = "distribute" => \A w \in candidates : Staying(w)

\* The vector is full, or somebody is about to fill it.
FilledInv ==
  \/ need_scaling_up \/ mpc = "scale" \/ cpc[Main] = "scale"
  \/ Len(workers) >= current_expect_workers

\* While stop() goes on to look at shared_jobs nobody gets a private job.
StopInv ==
  mpc = "check_shared" =>
    \A w \in Workers : private_jobs[w] # {} => pc[w] \in {"drain", "move", "exited"}

ControlInv ==
  ClosingInv /\ TargetInv /\ FilledInv /\ SpawnFindsWorkers /\ StopInv

SteadyInv == ThreadsInv /\ ControlInv

-----------------------------------------------------------------------------
(* The vector. *)

\* do_scaling_up appends fresh workers, numbered by their place.
LEMMA FillVectorFacts ==
  ASSUME TypeInv, FillVector
  PROVE  /\ Len(workers') >= Len(workers) /\ Len(workers') \in Nat
         /\ Len(workers') >= current_expect_workers
         /\ \A i \in 1..Len(workers) : workers'[i] = workers[i]
         /\ \A i \in 1..Len(workers') : i > Len(workers) =>
              /\ workers'[i] \in Workers
              /\ pc[workers'[i]] = "none" /\ pc'[workers'[i]] = "created"
              /\ worker_id'[workers'[i]] = i
         /\ \A w \in Workers : pc[w] # "none" =>
              pc'[w] = pc[w] /\ worker_id'[w] = worker_id[w]
         /\ \A w \in Workers : pc[w] = "none" =>
              \/ pc'[w] = "none"
              \/ /\ pc'[w] = "created"
                 /\ \E i \in 1..Len(workers') : workers'[i] = w /\ worker_id'[w] = i
<1> DEFINE size == Len(workers)
           n == IF size < current_expect_workers
                THEN current_expect_workers - size ELSE 0
           fresh == {w \in Workers : pc[w] = "none"}
<1>1. /\ size \in Nat /\ n \in Nat /\ workers \in Seq(Workers)
      /\ size + n >= size /\ size + n >= current_expect_workers
      /\ pc \in [Workers -> ThreadPCs] /\ worker_id \in [Workers -> Nat]
  BY DEF TypeInv, TypeOK
<1>2. PICK f \in [1..n -> fresh] :
        /\ \A i, j \in 1..n : f[i] = f[j] => i = j
        /\ workers' = [i \in 1..(size + n) |->
                         IF i <= size THEN workers[i] ELSE f[i - size]]
        /\ worker_id' = [w \in Workers |->
             IF \E i \in 1..n : f[i] = w
             THEN size + (CHOOSE i \in 1..n : f[i] = w) ELSE worker_id[w]]
        /\ pc' = [w \in Workers |->
             IF \E i \in 1..n : f[i] = w THEN "created" ELSE pc[w]]
  BY DEF FillVector
<1> HIDE DEF n, size
<1>3. workers' \in Seq(Workers) /\ DOMAIN workers' = 1..(size + n)
  BY <1>2, FillVectorTypes
<1>4. Len(workers') = size + n BY <1>1, <1>3
<1>5. \A i \in 1..n : /\ size + i \in 1..(size + n) /\ ~(size + i <= size)
                       /\ (size + i) - size = i
  BY <1>1
<1>6. \A i \in 1..n : workers'[size + i] = f[i] BY <1>2, <1>5
<1>7. ASSUME NEW i \in 1..n
      PROVE  /\ f[i] \in Workers /\ pc[f[i]] = "none" /\ pc'[f[i]] = "created"
             /\ worker_id'[f[i]] = size + i
  <2>1. f[i] \in fresh BY <1>2
  <2>2. (CHOOSE j \in 1..n : f[j] = f[i]) = i
    <3>1. \E j \in 1..n : f[j] = f[i] OBVIOUS
    <3>2. /\ (CHOOSE j \in 1..n : f[j] = f[i]) \in 1..n
          /\ f[CHOOSE j \in 1..n : f[j] = f[i]] = f[i]
      BY <3>1, Zenon
    <3> QED BY <1>2, <3>2
  <2> QED BY <1>2, <2>1, <2>2
<1>8. \A i \in 1..size : workers'[i] = workers[i]
  <2>1. \A i \in 1..size : i \in 1..(size + n) /\ i <= size BY <1>1
  <2> QED BY <1>2, <2>1
<1>9. ASSUME NEW i \in 1..(size + n), i > size
      PROVE  /\ workers'[i] \in Workers
             /\ pc[workers'[i]] = "none" /\ pc'[workers'[i]] = "created"
             /\ worker_id'[workers'[i]] = i
  <2>1. i - size \in 1..n /\ size + (i - size) = i BY <1>1, <1>9
  <2> QED BY <1>6, <1>7, <2>1
<1>10. ASSUME NEW w \in Workers, pc[w] # "none"
       PROVE  pc'[w] = pc[w] /\ worker_id'[w] = worker_id[w]
  <2>1. ~ \E i \in 1..n : f[i] = w BY <1>7, <1>10
  <2> QED BY <1>2, <2>1
<1>11. ASSUME NEW w \in Workers, pc[w] = "none"
       PROVE  \/ pc'[w] = "none"
              \/ /\ pc'[w] = "created"
                 /\ \E i \in 1..(size + n) : workers'[i] = w /\ worker_id'[w] = i
  <2>1. CASE \E i \in 1..n : f[i] = w BY <1>5, <1>6, <1>7, <2>1
  <2>2. CASE ~ \E i \in 1..n : f[i] = w BY <1>2, <1>11, <2>2
  <2> QED BY <2>1, <2>2
<1> QED BY <1>1, <1>4, <1>8, <1>9, <1>10, <1>11 DEF size

LEMMA FillVectorInv == ASSUME TypeInv, VectorInv, FillVector PROVE VectorInv'
<1> SUFFICES ASSUME NEW i \in 1..Len(workers')
             PROVE  worker_id'[workers'[i]] = i /\ pc'[workers'[i]] # "none"
  BY DEF VectorInv, VectorNumbered, VectorStarted
<1>1. Len(workers) \in Nat /\ workers \in Seq(Workers) BY DEF TypeInv, TypeOK
<1>2. CASE i > Len(workers) BY <1>2, FillVectorFacts
<1>3. CASE ~(i > Len(workers))
  <2>1. i \in 1..Len(workers) BY <1>1, <1>3, FillVectorFacts
  <2>2. workers[i] \in Workers /\ pc[workers[i]] # "none" /\ worker_id[workers[i]] = i
    BY <1>1, <2>1 DEF VectorInv, VectorNumbered, VectorStarted
  <2> QED BY <2>1, <2>2, FillVectorFacts
<1> QED BY <1>2, <1>3

\* A prefix of the vector.
LEMMA ReduceToFacts ==
  ASSUME TypeOK, NEW limit \in Nat, ReduceTo(limit)
  PROVE  /\ Len(workers') \in 0..Len(workers) /\ UNCHANGED worker_id
         /\ \A i \in 1..Len(workers') : workers'[i] = workers[i]
         /\ \A i \in 1..Len(workers) : i > Len(workers') =>
              i > limit /\ IsExited(workers[i])
         /\ Len(workers) >= limit => Len(workers') >= limit
<1>1. PICK n \in 0..Len(workers) :
        /\ \A i \in (n + 1)..Len(workers) : i > limit /\ IsExited(workers[i])
        /\ workers' = [i \in 1..n |-> workers[i]]
        /\ UNCHANGED worker_id
  BY DEF ReduceTo
<1>2. Len(workers) \in Nat BY DEF TypeOK
<1>3. workers' \in Seq(Workers) /\ DOMAIN workers' = 1..n BY <1>1, ReduceToTypes
<1>4. Len(workers') = n BY <1>2, <1>3
<1>5. \A i \in 1..Len(workers) : i > n => i \in (n + 1)..Len(workers) BY <1>2
<1>6. Len(workers) >= limit => n >= limit
  <2>1. CASE n = Len(workers) BY <2>1
  <2>2. CASE n # Len(workers)
    <3>1. n + 1 \in (n + 1)..Len(workers) BY <1>2, <2>2
    <3>2. n + 1 > limit BY <1>1, <3>1
    <3> QED BY <1>2, <3>2
  <2> QED BY <2>1, <2>2
<1> QED BY <1>1, <1>4, <1>5, <1>6

LEMMA ReduceToVectorInv ==
  ASSUME TypeOK, VectorInv, NEW limit \in Nat, ReduceTo(limit), UNCHANGED pc
  PROVE  VectorInv'
<1>1. \A i \in 1..Len(workers') : i \in 1..Len(workers)
  <2>1. Len(workers) \in Nat BY DEF TypeOK
  <2> QED BY <2>1, ReduceToFacts
<1> QED BY <1>1, ReduceToFacts DEF VectorInv, VectorNumbered, VectorStarted

\* internal_autofix_workers numbers what stays by its new place.
LEMMA AutofixVectorInv ==
  ASSUME TypeOK, VectorInv, Autofix, UNCHANGED pc
  PROVE  VectorInv'
<1>1. CASE ~NeedAutofix
  BY <1>1 DEF Autofix, VectorInv, VectorNumbered, VectorStarted
<1>2. CASE NeedAutofix
  <2>0. PICK n \in 0..Len(workers) : \E f \in [1..n -> 1..Len(workers)] :
          /\ \A i, j \in 1..n : i < j => f[i] < f[j]
          /\ workers' = [i \in 1..n |-> workers[f[i]]]
          /\ worker_id' = [w \in Workers |->
               IF \E i \in 1..n : workers[f[i]] = w
               THEN CHOOSE i \in 1..n : workers[f[i]] = w
               ELSE worker_id[w]]
    BY <1>2, Zenon DEF Autofix
  <2>1. PICK f \in [1..n -> 1..Len(workers)] :
          /\ \A i, j \in 1..n : i < j => f[i] < f[j]
          /\ workers' = [i \in 1..n |-> workers[f[i]]]
          /\ worker_id' = [w \in Workers |->
               IF \E i \in 1..n : workers[f[i]] = w
               THEN CHOOSE i \in 1..n : workers[f[i]] = w
               ELSE worker_id[w]]
    BY <2>0, Zenon
  <2>2. workers \in Seq(Workers) /\ Len(workers) \in Nat BY DEF TypeOK
  <2>3. Len(workers') = n
    <3>1. workers' \in Seq(Workers) /\ DOMAIN workers' = 1..n BY <2>1, AutofixTypes
    <3> QED BY <2>2, <3>1
  <2>4. \A i, j \in 1..n : workers[f[i]] = workers[f[j]] => i = j
    <3> SUFFICES ASSUME NEW i \in 1..n, NEW j \in 1..n, workers[f[i]] = workers[f[j]]
                 PROVE  i = j
      OBVIOUS
    <3>1. f[i] \in 1..Len(workers) /\ f[j] \in 1..Len(workers) BY <2>1
    <3>2. f[i] = f[j] BY <3>1 DEF VectorInv, VectorNumbered
    <3>3. ~(i < j) /\ ~(j < i) BY <2>1, <3>1, <3>2
    <3> QED BY <2>2, <3>3
  <2>5. ASSUME NEW i \in 1..n
        PROVE  worker_id'[workers'[i]] = i /\ pc'[workers'[i]] # "none"
    <3> DEFINE w == workers[f[i]]
    <3>1. f[i] \in 1..Len(workers) /\ workers'[i] = w BY <2>1
    <3>2. w \in Workers /\ pc[w] # "none" BY <2>2, <3>1 DEF VectorInv, VectorStarted
    <3>3. \E j \in 1..n : workers[f[j]] = w OBVIOUS
    <3>4. /\ (CHOOSE j \in 1..n : workers[f[j]] = w) \in 1..n
          /\ workers[f[CHOOSE j \in 1..n : workers[f[j]] = w]] = w
      BY <3>3, Zenon
    <3>5. (CHOOSE j \in 1..n : workers[f[j]] = w) = i BY <2>4, <3>4
    <3>6. worker_id'[w] = CHOOSE j \in 1..n : workers[f[j]] = w BY <2>1, <3>2, <3>3
    <3> QED BY <3>1, <3>2, <3>5, <3>6
  <2> QED BY <2>3, <2>5 DEF VectorInv, VectorNumbered, VectorStarted
<1> QED BY <1>1, <1>2

LEMMA QuietVectorInv ==
  ASSUME TypeOK, VectorInv, UNCHANGED <<workers, worker_id>>,
         \A w \in Workers : pc[w] # "none" => pc'[w] # "none"
  PROVE  VectorInv'
<1>1. \A i \in 1..Len(workers) : workers[i] \in Workers BY DEF TypeOK
<1> QED BY <1>1 DEF VectorInv, VectorNumbered, VectorStarted

\* A worker thread moves itself only, and the pool's set not at all.
LEMMA ThreadFacts ==
  ASSUME TypeInv, NEW w \in Workers, ThreadStep(w) \/ CreatedTooLong(w)
  PROVE  /\ UNCHANGED <<workers, worker_id, current_expect_workers, need_scaling_up>>
         /\ UNCHANGED <<closing, cleaning, tick_handles, mainVars, callVars>>
         /\ \A v \in Workers : v # w =>
              /\ pc'[v] = pc[v]
              /\ calling'[v] = calling[v]
              /\ private_jobs'[v] = private_jobs[v]
         /\ private_jobs'[w] \subseteq private_jobs[w]
         /\ pc[w] # "none" /\ pc'[w] # "none"
         /\ pc'[w] = "callback" => calling'[w] = tick_handles[w]
         /\ pc'[w] # "callback" =>
              \/ calling'[w] = {}
              \/ pc[w] # "callback" /\ calling'[w] = calling[w]
         /\ pc'[w] = "leave" => pc[w] = "top" /\ MustLeave(w)
         /\ pc'[w] \in {"drain", "move", "exited"} => pc[w] \in {"leave", "drain", "move"}
         /\ pc[w] \in {"drain", "move"} => pc'[w] \in {"drain", "move", "exited"}
         /\ pc'[w] = "exited" => private_jobs'[w] = {}
         /\ pc[w] # "exited"
         /\ MayStall \/ stalled' \subseteq stalled
<1> USE DEF TypeInv, TypeOK, ThreadPCs, threadVars, setVars, mainVars, callVars, jobVars
<1>1. CASE ThreadStart(w) BY <1>1 DEF ThreadStart
<1>2. CASE LoopTop(w) BY <1>2 DEF LoopTop
<1>3. CASE PopJob(w) BY <1>3 DEF PopJob
<1>4. CASE FinishJob(w) BY <1>4 DEF FinishJob, BeginCallbacks
<1>5. CASE NoMoreJobs(w) BY <1>5 DEF NoMoreJobs, BeginCallbacks
<1>6. CASE EndCallbacks(w) BY <1>6 DEF EndCallbacks
<1>7. CASE MarkExiting(w) BY <1>7 DEF MarkExiting
<1>8. CASE DrainPop(w) BY <1>8 DEF DrainPop
<1>9. CASE DrainPush(w) BY <1>9 DEF DrainPush
<1>10. CASE MarkExited(w) BY <1>10 DEF MarkExited
<1>11. CASE CreatedTooLong(w) BY <1>11 DEF CreatedTooLong
<1> QED
  BY <1>1, <1>2, <1>3, <1>4, <1>5, <1>6, <1>7, <1>8, <1>9, <1>10, <1>11 DEF ThreadStep

LEMMA StepVectorInv ==
  ASSUME TypeInv, VectorInv, [Next]_vars
  PROVE  VectorInv'
<1> USE DEF TypeInv, threadVars, setVars, mainVars, callVars, jobVars
<1>0. \A v \in Workers : UNCHANGED pc => (pc[v] # "none" => pc'[v] # "none")
  OBVIOUS
<1>1. CASE UNCHANGED vars BY <1>0, <1>1, QuietVectorInv DEF vars
<1>2. ASSUME NEW w \in Workers, ThreadStep(w) \/ CreatedTooLong(w)
      PROVE  VectorInv'
  BY <1>2, ThreadFacts, QuietVectorInv
<1>3. ASSUME NEW c \in Clients, NEW op, NEW arg, NEW id, BeginCall(c, op, arg, id)
      PROVE  VectorInv'
  BY <1>0, <1>3, QuietVectorInv DEF BeginCall
<1>4. ASSUME NEW c \in Clients, CallStep(c)
      PROVE  VectorInv'
  <2>1. CASE ScaleUp(c) BY <2>1, FillVectorInv DEF ScaleUp
  <2>2. CASE SpawnSelect(c) BY <1>0, <2>2, QuietVectorInv DEF SpawnSelect, Selecting
  <2>3. CASE SpawnPush(c) BY <1>0, <2>3, QuietVectorInv DEF SpawnPush
  <2>4. CASE TickSelect(c) BY <1>0, <2>4, QuietVectorInv DEF TickSelect, Selecting
  <2>5. CASE AddTick(c) BY <1>0, <2>5, QuietVectorInv DEF AddTick
  <2>6. CASE RemoveTick(c) BY <1>0, <2>6, QuietVectorInv DEF RemoveTick
  <2> QED BY <1>4, <2>1, <2>2, <2>3, <2>4, <2>5, <2>6 DEF CallStep
<1>5. CASE MainStep
  <2>1. CASE TickReduce
    <3> DEFINE limit == IF closing THEN 0 ELSE current_expect_workers
    <3>1. limit \in Nat /\ UNCHANGED pc BY <2>1 DEF TypeOK, TickReduce
    <3>2. CASE ReduceTo(limit)
      <4> HIDE DEF limit
      <4> QED BY <3>1, <3>2, ReduceToVectorInv
    <3>3. CASE Autofix BY <3>1, <3>3, AutofixVectorInv
    <3> QED BY <2>1, <3>2, <3>3 DEF TickReduce
  <2>2. CASE RebalanceScaleUp BY <2>2, FillVectorInv DEF RebalanceScaleUp
  <2>3. CASE StopCheckWorkers BY <2>3, ReduceToVectorInv DEF StopCheckWorkers
  <2>4. CASE CleanupLoop BY <2>4, ReduceToVectorInv DEF CleanupLoop
  <2>5. CASE RebalanceBegin BY <1>0, <2>5, QuietVectorInv DEF RebalanceBegin
  <2>6. CASE RebalanceGather BY <1>0, <2>6, QuietVectorInv DEF RebalanceGather
  <2>7. CASE RebalanceMove BY <1>0, <2>7, QuietVectorInv DEF RebalanceMove
  <2>8. CASE RebalanceEnd BY <1>0, <2>8, QuietVectorInv DEF RebalanceEnd
  <2>9. CASE SharedJob BY <1>0, <2>9, QuietVectorInv DEF SharedJob
  <2>10. CASE SharedEnd BY <1>0, <2>10, QuietVectorInv DEF SharedEnd
  <2>11. CASE StopCheckShared BY <1>0, <2>11, QuietVectorInv DEF StopCheckShared
  <2> QED
    BY <1>5, <2>1, <2>2, <2>3, <2>4, <2>5, <2>6, <2>7, <2>8, <2>9, <2>10, <2>11
    DEF MainStep
<1>6. CASE TickBegin BY <1>0, <1>6, QuietVectorInv DEF TickBegin
<1>7. CASE StopBegin BY <1>0, <1>7, QuietVectorInv DEF StopBegin
<1>8. CASE AppTimeout BY <1>0, <1>8, QuietVectorInv DEF AppTimeout
<1>9. CASE CleanupBegin BY <1>0, <1>9, QuietVectorInv DEF CleanupBegin
<1> QED
  BY <1>1, <1>2, <1>3, <1>4, <1>5, <1>6, <1>7, <1>8, <1>9
  DEF Next, SpawnBegin, AddBegin, RemoveBegin

-----------------------------------------------------------------------------
(* The callbacks. *)

Calls == <<cpc, cop, carg, csel>>
Callbacks == <<tick_handles, owner, removed>>

\* Steps that change no list of callbacks and move no thread but a fresh one.
LEMMA QuietCallingInv ==
  ASSUME CallingInv, RemovedNotCalled, UNCHANGED <<Callbacks, calling>>,
         \A w \in Workers : pc'[w] = pc[w] \/ (pc[w] = "none" /\ pc'[w] = "created")
  PROVE  CallingInv' /\ RemovedNotCalled'
  BY DEF Callbacks, CallingInv, RemovedNotCalled

LEMMA QuietOwnerInv ==
  ASSUME OwnerInv, UNCHANGED <<Callbacks, Calls>>
  PROVE  OwnerInv'
  BY DEF Callbacks, Calls, OwnerInv

\* A caller's part of OwnerInv when it has no callback in its hand.
LEMMA EndCallOwnerInv ==
  ASSUME TypeOK, OwnerInv, NEW c \in Clients, EndCall(c), UNCHANGED Callbacks
  PROVE  OwnerInv'
<1>1. /\ cop'[c] = "none" /\ carg'[c] = None
      /\ \A d \in Clients : d # c =>
           /\ cpc'[d] = cpc[d] /\ cop'[d] = cop[d]
           /\ carg'[d] = carg[d] /\ csel'[d] = csel[d]
  BY DEF TypeOK, EndCall
<1> QED BY <1>1 DEF OwnerInv, Callbacks

LEMMA BeginCallHandleInv ==
  ASSUME TypeOK, HandleInv, NEW c \in Clients, NEW op \in Operations \ {"none"},
         NEW arg, NEW id, BeginCall(c, op, arg, id),
         op = "add" => owner[arg] = None, op = "remove" => owner[arg] # None
  PROVE  HandleInv'
<1> USE DEF HandleInv
<1>1. UNCHANGED <<Callbacks, calling, pc>>
  BY DEF BeginCall, Callbacks, threadVars
<1>2. CallingInv' /\ RemovedNotCalled' BY <1>1, QuietCallingInv
<1>3. /\ cop'[c] = op /\ carg'[c] = arg /\ cpc'[c] # "apply"
      /\ \A d \in Clients : d # c =>
           /\ cpc'[d] = cpc[d] /\ cop'[d] = cop[d]
           /\ carg'[d] = carg[d] /\ csel'[d] = csel[d]
  BY DEF TypeOK, BeginCall, AfterFlag
<1>4. \A d \in Clients : carg[d] # arg BY DEF BeginCall
<1>5. OwnerInv' BY <1>1, <1>3, <1>4 DEF OwnerInv, Callbacks
<1> QED BY <1>2, <1>5

\* select_worker() answers; a removal goes on with the owner only.
LEMMA SelectingHandleInv ==
  ASSUME TypeOK, HandleInv, NEW c \in Clients, Selecting(c),
         \/ EndCall(c)
         \/ \E w : Selected(c, w) /\ (cop[c] = "remove" => owner[carg[c]] = w)
  PROVE  HandleInv'
<1> USE DEF HandleInv
<1>1. UNCHANGED <<Callbacks, calling, pc>>
  BY DEF Selecting, Callbacks, threadVars
<1>2. CallingInv' /\ RemovedNotCalled' BY <1>1, QuietCallingInv
<1>3. CASE EndCall(c) BY <1>1, <1>2, <1>3, EndCallOwnerInv
<1>4. ASSUME NEW w, Selected(c, w), cop[c] = "remove" => owner[carg[c]] = w
      PROVE  HandleInv'
  <2>1. /\ csel'[c] = w /\ UNCHANGED <<cop, carg>>
        /\ \A d \in Clients : d # c => cpc'[d] = cpc[d] /\ csel'[d] = csel[d]
    BY <1>4 DEF TypeOK, Selected
  <2>2. OwnerInv' BY <1>1, <1>4, <2>1 DEF OwnerInv, Callbacks
  <2> QED BY <1>2, <2>2
<1> QED BY <1>3, <1>4

\* add_tick_callback: the list is not being gone through and nobody owns the
\* handle, so it was never removed.
LEMMA AddTickHandleInv ==
  ASSUME TypeInv, HandleInv, NEW c \in Clients, AddTick(c)
  PROVE  HandleInv'
<1> USE DEF HandleInv, TypeInv
<1> DEFINE h == carg[c]
           w == csel[c]
<1>1. /\ h \in Handles /\ w \in Workers /\ owner[h] = None /\ h # None
      /\ pc[w] # "callback" /\ UNCHANGED <<pc, calling, removed>> /\ EndCall(c)
      /\ owner' = [owner EXCEPT ![h] = w]
      /\ tick_handles' = [tick_handles EXCEPT ![w] = tick_handles[w] \cup {h}]
  BY PoolAssumption DEF AddTick, TickLockFree, CallInv, OwnerInv
<1>2. /\ owner'[h] = w
      /\ \A k \in Handles : k # h => owner'[k] = owner[k]
      /\ tick_handles'[w] = tick_handles[w] \cup {h}
      /\ \A v \in Workers : v # w => tick_handles'[v] = tick_handles[v]
      /\ \A v \in Workers : tick_handles[v] \subseteq Handles
      /\ removed \subseteq Handles /\ w # None
  BY <1>1, PoolAssumption DEF TypeOK
<1>3. h \notin removed BY <1>1 DEF OwnerInv
<1>4. /\ cop'[c] = "none" /\ carg'[c] = None
      /\ \A d \in Clients : d # c =>
           /\ cpc'[d] = cpc[d] /\ cop'[d] = cop[d]
           /\ carg'[d] = carg[d] /\ csel'[d] = csel[d]
  BY <1>1 DEF TypeOK, EndCall
<1>5. \A d \in Clients :
        d # c /\ cop[d] \in {"add", "remove"} => carg[d] # h /\ carg[d] \in Handles
  BY <1>1 DEF OwnerInv, CallInv
<1> HIDE DEF h, w
<1>6. CallingInv' BY <1>1, <1>2 DEF CallingInv
<1>7. RemovedNotCalled' BY <1>1, <1>2, <1>3 DEF RemovedNotCalled
<1>8. OwnerInv'
  <2>1. \A v \in Workers : \A k \in tick_handles'[v] : owner'[k] = v
    <3> SUFFICES ASSUME NEW v \in Workers, NEW k \in tick_handles'[v]
                 PROVE  owner'[k] = v
      OBVIOUS
    <3>1. CASE v = w /\ k = h BY <1>2, <3>1
    <3>2. CASE k \in tick_handles[v]
      <4>1. owner[k] = v /\ v # None BY <3>2, PoolAssumption DEF OwnerInv
      <4>2. k # h /\ k \in Handles BY <1>1, <1>2, <3>2, <4>1
      <4> QED BY <1>2, <4>1, <4>2
    <3> QED BY <1>2, <3>1, <3>2
  <2>2. \A k \in removed : owner'[k] # None BY <1>2, <1>3 DEF OwnerInv
  <2>3. \A d \in Clients :
          /\ cop'[d] = "add" => owner'[carg'[d]] = None
          /\ cop'[d] = "remove" => owner'[carg'[d]] # None
          /\ cop'[d] = "remove" /\ cpc'[d] = "apply" => csel'[d] = owner'[carg'[d]]
    <3> SUFFICES ASSUME NEW d \in Clients, d # c, cop[d] \in {"add", "remove"}
                 PROVE  owner'[carg[d]] = owner[carg[d]]
      BY <1>4 DEF OwnerInv
    <3>1. carg[d] \in Handles /\ carg[d] # h BY <1>5
    <3> QED BY <1>2, <3>1
  <2> QED BY <1>1, <1>4, <2>1, <2>2, <2>3 DEF OwnerInv
<1> QED BY <1>6, <1>7, <1>8

\* remove_tick_callback: the handle is in the list of its owner only, whose
\* thread is not going through it.
LEMMA RemoveTickHandleInv ==
  ASSUME TypeInv, HandleInv, NEW c \in Clients, RemoveTick(c)
  PROVE  HandleInv'
<1> USE DEF HandleInv, TypeInv
<1> DEFINE h == carg[c]
           w == csel[c]
<1>1. /\ h \in Handles /\ w \in Workers /\ owner[h] = w
      /\ pc[w] # "callback" /\ UNCHANGED <<pc, calling, owner>> /\ EndCall(c)
      /\ removed' = removed \cup {h}
      /\ tick_handles' = [tick_handles EXCEPT ![w] = tick_handles[w] \ {h}]
  BY DEF RemoveTick, TickLockFree, CallInv, OwnerInv
<1>2. /\ tick_handles'[w] = tick_handles[w] \ {h}
      /\ \A v \in Workers : v # w => tick_handles'[v] = tick_handles[v]
      /\ w # None
  BY <1>1, PoolAssumption DEF TypeOK
<1>3. \A v \in Workers : h \notin tick_handles'[v] BY <1>1, <1>2 DEF OwnerInv
<1>4. \A v \in Workers : h \notin calling[v]
  BY <1>1, <1>2, <1>3 DEF CallingInv
<1>5. /\ cop'[c] = "none" /\ carg'[c] = None
      /\ \A d \in Clients : d # c =>
           /\ cpc'[d] = cpc[d] /\ cop'[d] = cop[d]
           /\ carg'[d] = carg[d] /\ csel'[d] = csel[d]
  BY <1>1 DEF TypeOK, EndCall
<1> HIDE DEF h, w
<1>6. CallingInv' BY <1>1, <1>2, <1>4 DEF CallingInv
<1>7. RemovedNotCalled' BY <1>1, <1>2, <1>3, <1>4 DEF RemovedNotCalled
<1>8. OwnerInv' BY <1>1, <1>2, <1>5 DEF OwnerInv
<1> QED BY <1>6, <1>7, <1>8

LEMMA QuietHandleInv ==
  ASSUME HandleInv, UNCHANGED <<Callbacks, calling, Calls>>,
         \A w \in Workers : pc'[w] = pc[w] \/ (pc[w] = "none" /\ pc'[w] = "created")
  PROVE  HandleInv'
  BY QuietCallingInv, QuietOwnerInv DEF HandleInv

LEMMA CallHandleInv ==
  ASSUME TypeInv, HandleInv, NEW c \in Clients, CallStep(c)
  PROVE  HandleInv'
<1> USE DEF TypeInv, threadVars, setVars, mainVars, callVars, jobVars, Callbacks, Calls
<1>1. CASE ScaleUp(c)
  <2>1. /\ UNCHANGED <<Callbacks, calling, cop, carg, csel>> /\ FillVector
        /\ cpc[c] = "scale" /\ cpc' = [cpc EXCEPT ![c] = "select"]
    BY <1>1 DEF ScaleUp
  <2>2. CallingInv' /\ RemovedNotCalled'
    BY <2>1, FillVectorTypes, QuietCallingInv DEF HandleInv
  <2>3. \A d \in Clients : cpc'[d] = "apply" => cpc[d] = "apply"
    BY <2>1 DEF TypeOK
  <2>4. OwnerInv' BY <2>1, <2>3 DEF HandleInv, OwnerInv
  <2> QED BY <2>2, <2>4 DEF HandleInv
<1>2. CASE SpawnSelect(c)
  <2>1. EndCall(c) \/ \E w : Selected(c, w) BY <1>2, Zenon DEF SpawnSelect
  <2>2. Selecting(c) /\ cop[c] = "spawn" BY <1>2 DEF SpawnSelect
  <2> QED BY <2>1, <2>2, SelectingHandleInv
<1>3. CASE TickSelect(c)
  <2>1. \/ EndCall(c)
        \/ \E w : Selected(c, w) /\ (cop[c] = "remove" => owner[carg[c]] = w)
    BY <1>3, Zenon DEF TickSelect
  <2>2. Selecting(c) BY <1>3 DEF TickSelect
  <2> QED BY <2>1, <2>2, SelectingHandleInv
<1>4. CASE SpawnPush(c)
  <2>1. UNCHANGED <<Callbacks, calling, pc>> /\ EndCall(c) BY <1>4 DEF SpawnPush
  <2>2. CallingInv' /\ RemovedNotCalled' BY <2>1, QuietCallingInv DEF HandleInv
  <2> QED BY <2>1, <2>2, EndCallOwnerInv DEF HandleInv
<1>5. CASE AddTick(c) BY <1>5, AddTickHandleInv
<1>6. CASE RemoveTick(c) BY <1>6, RemoveTickHandleInv
<1> QED BY <1>1, <1>2, <1>3, <1>4, <1>5, <1>6 DEF CallStep

LEMMA StepHandleInv ==
  ASSUME TypeInv, HandleInv, [Next]_vars
  PROVE  HandleInv'
<1> USE DEF threadVars, setVars, mainVars, callVars, jobVars, Callbacks, Calls
<1>1. CASE UNCHANGED vars BY <1>1, QuietHandleInv DEF vars
<1>2. ASSUME NEW w \in Workers, ThreadStep(w) \/ CreatedTooLong(w)
      PROVE  HandleInv'
  <2>1. UNCHANGED <<Callbacks, Calls>> BY <1>2, ThreadFacts
  <2>2. OwnerInv' BY <2>1, QuietOwnerInv DEF HandleInv
  <2>3. CallingInv'
    <3>1. \A v \in Workers : v # w => pc'[v] = pc[v] /\ calling'[v] = calling[v]
      BY <1>2, ThreadFacts
    <3>2. /\ calling'[w] \subseteq tick_handles[w]
          /\ pc'[w] # "callback" => calling'[w] = {}
      BY <1>2, ThreadFacts DEF HandleInv, CallingInv
    <3> QED BY <2>1, <3>1, <3>2 DEF HandleInv, CallingInv
  <2>4. RemovedNotCalled'
    BY <2>1, <2>3 DEF HandleInv, CallingInv, RemovedNotCalled
  <2> QED BY <2>2, <2>3, <2>4 DEF HandleInv
<1>3. ASSUME NEW c \in Clients, NEW id \in 0..MaxWorkers, NEW j \in Jobs,
             SpawnBegin(c, j, id)
      PROVE  HandleInv'
  BY <1>3, BeginCallHandleInv DEF SpawnBegin, Operations, TypeInv
<1>4. ASSUME NEW c \in Clients, NEW id \in 0..MaxWorkers, NEW h \in Handles,
             AddBegin(c, h, id)
      PROVE  HandleInv'
  BY <1>4, BeginCallHandleInv DEF AddBegin, Operations, TypeInv
<1>5. ASSUME NEW c \in Clients, NEW h \in Handles, RemoveBegin(c, h)
      PROVE  HandleInv'
  BY <1>5, BeginCallHandleInv DEF RemoveBegin, Operations, TypeInv
<1>6. CASE \E c \in Clients : CallStep(c) BY <1>6, CallHandleInv
<1>7. CASE MainStep
  <2>1. CASE RebalanceScaleUp
    <3>1. FillVector /\ UNCHANGED <<Callbacks, calling, Calls>>
      BY <2>1 DEF RebalanceScaleUp
    <3> QED BY <3>1, FillVectorTypes, QuietHandleInv
  <2>2. CASE TickReduce BY <2>2, QuietHandleInv DEF TickReduce
  <2>3. CASE StopCheckWorkers BY <2>3, QuietHandleInv DEF StopCheckWorkers
  <2>4. CASE CleanupLoop BY <2>4, QuietHandleInv DEF CleanupLoop
  <2>5. CASE RebalanceBegin BY <2>5, QuietHandleInv DEF RebalanceBegin
  <2>6. CASE RebalanceGather BY <2>6, QuietHandleInv DEF RebalanceGather
  <2>7. CASE RebalanceMove BY <2>7, QuietHandleInv DEF RebalanceMove
  <2>8. CASE RebalanceEnd BY <2>8, QuietHandleInv DEF RebalanceEnd
  <2>9. CASE SharedJob BY <2>9, QuietHandleInv DEF SharedJob
  <2>10. CASE SharedEnd BY <2>10, QuietHandleInv DEF SharedEnd
  <2>11. CASE StopCheckShared BY <2>11, QuietHandleInv DEF StopCheckShared
  <2> QED
    BY <1>7, <2>1, <2>2, <2>3, <2>4, <2>5, <2>6, <2>7, <2>8, <2>9, <2>10, <2>11
    DEF MainStep
<1>8. CASE TickBegin BY <1>8, QuietHandleInv DEF TickBegin
<1>9. CASE StopBegin BY <1>9, QuietHandleInv DEF StopBegin
<1>10. CASE AppTimeout BY <1>10, QuietHandleInv DEF AppTimeout
<1>11. CASE CleanupBegin BY <1>11, QuietHandleInv DEF CleanupBegin
<1> QED
  BY <1>1, <1>2, <1>3, <1>4, <1>5, <1>6, <1>7, <1>8, <1>9, <1>10, <1>11 DEF Next

\* The invariant of every scenario.
PoolInv == TypeInv /\ JobInv /\ VectorInv /\ HandleInv

LEMMA InitPoolInv == ASSUME Init PROVE PoolInv
<1>1. TypeInv BY InitTypeInv
<1>2. JobInv BY DEF Init, JobInv, PlacesInv, NoJobLost, NoJobTwice
<1>3. VectorInv
  <2>1. Len(workers) = 0 BY DEF Init
  <2> QED BY <2>1 DEF VectorInv, VectorNumbered, VectorStarted
<1>4. HandleInv
  BY DEF Init, HandleInv, CallingInv, OwnerInv, RemovedNotCalled
<1> QED BY <1>1, <1>2, <1>3, <1>4 DEF PoolInv

LEMMA StepPoolInv == ASSUME PoolInv, [Next]_vars PROVE PoolInv'
  BY StepTypeInv, StepJobInv, StepVectorInv, StepHandleInv DEF PoolInv

\* Worker k of the vector always has id k, whatever the threads do and through
\* every do_scaling_up, internal_reduce_workers and internal_autofix_workers:
\* select_worker() by index finds the worker with that id.
THEOREM VectorStaysNumbered == Spec => []VectorNumbered
<1>1. Init => PoolInv BY InitPoolInv
<1>2. PoolInv /\ [Next]_vars => PoolInv' BY StepPoolInv
<1>3. PoolInv => VectorNumbered BY DEF PoolInv, VectorInv
<1> QED BY <1>1, <1>2, <1>3, PTL DEF Spec

\* In every scenario, with any number of threads adding and removing callbacks:
\* after remove_tick_callback() has returned true no worker thread calls the
\* callback, or ever will. CallbacksSafe says this and that a worker with
\* callbacks stays, which needs the hypotheses of the next section.
THEOREM RemovedStaysRemoved == Spec => []RemovedNotCalled
<1>1. Init => PoolInv BY InitPoolInv
<1>2. PoolInv /\ [Next]_vars => PoolInv' BY StepPoolInv
<1>3. PoolInv => RemovedNotCalled BY DEF PoolInv, HandleInv
<1> QED BY <1>1, <1>2, <1>3, PTL DEF Spec

-----------------------------------------------------------------------------
(* The threads of a steady pool. *)

LEMMA QuietThreadsInv ==
  ASSUME TypeOK, ThreadsInv, UNCHANGED <<workers, worker_id, pc>>,
         UNCHANGED <<private_jobs, tick_handles>>,
         current_expect_workers' \in Nat,
         current_expect_workers' <= current_expect_workers, cleaning => cleaning'
  PROVE  ThreadsInv'
<1> USE DEF ThreadsInv
<1>1. \A w \in Workers : worker_id[w] \in Nat BY DEF TypeOK
<1>2. LeavingInv' BY <1>1 DEF LeavingInv, InVector, TypeOK
<1>3. NoJobStranded' /\ HandleKeepsWorker' BY DEF NoJobStranded, HandleKeepsWorker
<1> QED BY <1>2, <1>3

\* Whoever stays may get a job.
LEMMA PushThreadsInv ==
  ASSUME TypeOK, ThreadsInv, NEW w \in Workers, Staying(w), NEW j,
         private_jobs' = [private_jobs EXCEPT ![w] = private_jobs[w] \cup {j}],
         UNCHANGED <<workers, worker_id, pc, tick_handles>>,
         UNCHANGED <<current_expect_workers, cleaning>>
  PROVE  ThreadsInv'
<1> USE DEF ThreadsInv
<1>1. pc[w] \notin Leaving /\ pc[w] # "none"
  BY DEF Staying, LeavingInv, TypeOK
<1>2. \A v \in Workers : v # w => private_jobs'[v] = private_jobs[v]
  BY DEF TypeOK
<1>3. LeavingInv' BY <1>1, <1>2 DEF LeavingInv, InVector
<1>4. NoJobStranded' BY <1>1, <1>2 DEF NoJobStranded, Leaving
<1>5. HandleKeepsWorker' BY DEF HandleKeepsWorker
<1> QED BY <1>3, <1>4, <1>5

\* ... or a callback.
LEMMA CallbackThreadsInv ==
  ASSUME TypeOK, ThreadsInv, NEW w \in Workers, Staying(w),
         \A v \in Workers : v # w => tick_handles'[v] = tick_handles[v],
         UNCHANGED <<workers, worker_id, pc, private_jobs>>,
         UNCHANGED <<current_expect_workers, cleaning>>
  PROVE  ThreadsInv'
<1> USE DEF ThreadsInv
<1>1. pc[w] \notin Leaving BY DEF Staying, LeavingInv, TypeOK
<1>2. LeavingInv' BY DEF LeavingInv, InVector
<1>3. NoJobStranded' BY DEF NoJobStranded
<1>4. HandleKeepsWorker' BY <1>1 DEF HandleKeepsWorker, Leaving
<1> QED BY <1>2, <1>3, <1>4

LEMMA FillThreadsInv ==
  ASSUME TypeInv, ThreadsInv, FillVector, UNCHANGED <<private_jobs, tick_handles>>,
         UNCHANGED <<current_expect_workers, cleaning>>
  PROVE  ThreadsInv'
<1> USE DEF ThreadsInv
<1>1. Len(workers) \in Nat /\ Len(workers') \in Nat /\ Len(workers') >= Len(workers)
      /\ \A i \in 1..Len(workers) : workers'[i] = workers[i]
  BY FillVectorFacts DEF TypeInv, TypeOK
<1>2. \A i \in 1..Len(workers) : i \in 1..Len(workers') BY <1>1
<1>3. \A w \in Workers : InVector(w) => InVector(w)' BY <1>1, <1>2 DEF InVector
<1>4. ASSUME NEW w \in Workers, pc'[w] # pc[w]
      PROVE  /\ pc[w] = "none" /\ pc'[w] = "created"
             /\ worker_id'[w] >= 1 /\ InVector(w)'
  <2>1. pc[w] = "none" /\ pc'[w] = "created" BY <1>4, FillVectorFacts
  <2>2. PICK i \in 1..Len(workers') : workers'[i] = w /\ worker_id'[w] = i
    BY <2>1, FillVectorFacts
  <2> QED BY <1>1, <2>1, <2>2 DEF InVector
<1>5. \A w \in Workers : pc[w] # "none" => worker_id'[w] = worker_id[w]
  BY FillVectorFacts
<1>6. LeavingInv'
  <2>1. \A w \in Workers : pc'[w] # "none" => worker_id'[w] >= 1
    BY <1>4, <1>5 DEF LeavingInv
  <2>2. \A w \in Workers : pc'[w] \in Leaving => worker_id'[w] > current_expect_workers
    <3>1. \A w \in Workers : pc'[w] \in Leaving => pc'[w] = pc[w] /\ pc[w] # "none"
      BY <1>4 DEF Leaving
    <3> QED BY <1>5, <3>1 DEF LeavingInv
  <2>3. \A w \in Workers : pc'[w] \notin {"none", "exited"} => InVector(w)'
    BY <1>3, <1>4 DEF LeavingInv
  <2>4. \A w \in Workers : pc'[w] = "none" => private_jobs[w] = {}
    BY <1>4 DEF LeavingInv
  <2> QED BY <2>1, <2>2, <2>3, <2>4 DEF LeavingInv
<1>7. NoJobStranded' BY <1>4 DEF NoJobStranded
<1>8. HandleKeepsWorker' BY <1>4 DEF HandleKeepsWorker
<1> QED BY <1>6, <1>7, <1>8

LEMMA ReduceThreadsInv ==
  ASSUME TypeOK, ThreadsInv, stalled = {}, NEW limit \in Nat, ReduceTo(limit),
         UNCHANGED <<pc, private_jobs, tick_handles>>,
         UNCHANGED <<current_expect_workers, cleaning>>
  PROVE  ThreadsInv'
<1> USE DEF ThreadsInv
<1>1. \A w \in Workers : InVector(w) /\ pc[w] # "exited" => InVector(w)'
  <2> SUFFICES ASSUME NEW i \in 1..Len(workers), pc[workers[i]] # "exited"
               PROVE  i \in 1..Len(workers') /\ workers'[i] = workers[i]
    BY DEF InVector
  <2>1. ~IsExited(workers[i]) BY DEF IsExited
  <2>2. ~(i > Len(workers')) BY <2>1, ReduceToFacts
  <2>3. Len(workers) \in Nat /\ Len(workers') \in 0..Len(workers)
    BY ReduceToFacts DEF TypeOK
  <2>4. i \in 1..Len(workers') BY <2>2, <2>3
  <2> QED BY <2>4, ReduceToFacts
<1>2. UNCHANGED worker_id BY ReduceToFacts
<1>3. LeavingInv' BY <1>1, <1>2 DEF LeavingInv
<1>4. NoJobStranded' /\ HandleKeepsWorker' BY DEF NoJobStranded, HandleKeepsWorker
<1> QED BY <1>3, <1>4

\* A worker thread of a steady pool.
LEMMA ThreadSteadyInv ==
  ASSUME Steady, TypeInv, SteadyInv, NEW w \in Workers,
         ThreadStep(w) \/ CreatedTooLong(w)
  PROVE  SteadyInv'
<1> USE DEF SteadyInv, threadVars, mainVars, callVars
<1>1. /\ UNCHANGED <<workers, worker_id, current_expect_workers, need_scaling_up>>
      /\ UNCHANGED <<closing, cleaning, tick_handles, mainVars, callVars>>
      /\ \A v \in Workers : v # w =>
           pc'[v] = pc[v] /\ private_jobs'[v] = private_jobs[v]
      /\ private_jobs'[w] \subseteq private_jobs[w]
      /\ pc[w] # "none" /\ pc'[w] # "none" /\ pc[w] # "exited"
      /\ pc'[w] = "exited" => private_jobs'[w] = {}
  BY ThreadFacts
<1>2. /\ pc'[w] = "leave" => pc[w] = "top" /\ MustLeave(w)
      /\ pc'[w] \in {"drain", "move", "exited"} => pc[w] \in {"leave", "drain", "move"}
      /\ pc[w] \in {"drain", "move"} => pc'[w] \in {"drain", "move", "exited"}
  BY ThreadFacts
<1>3. stalled' = {}
  <2>1. stalled' \subseteq stalled BY ThreadFacts DEF Steady
  <2> QED BY <2>1 DEF ControlInv, ClosingInv
<1>4. LeavingInv'
  <2>1. worker_id[w] >= 1 /\ InVector(w) BY <1>1 DEF ThreadsInv, LeavingInv
  <2>2. pc'[w] \in Leaving => worker_id[w] > current_expect_workers
    <3>1. CASE pc'[w] = "leave"
      <4>1. closing => worker_id[w] > current_expect_workers
        BY <2>1 DEF ControlInv, ClosingInv, TypeInv, TypeOK
      <4> QED BY <1>2, <3>1, <4>1 DEF MustLeave, ControlInv, ClosingInv
    <3>2. CASE pc'[w] # "leave"
      BY <1>2, <3>2 DEF Leaving, ThreadsInv, LeavingInv
    <3> QED BY <3>1, <3>2
  <2> QED BY <1>1, <2>1, <2>2 DEF ThreadsInv, LeavingInv, InVector
<1>5. NoJobStranded' BY <1>1 DEF ThreadsInv, NoJobStranded
<1>6. HandleKeepsWorker'
  <2>1. tick_handles[w] # {} /\ ~cleaning => pc'[w] \notin Leaving
    BY <1>2 DEF ThreadsInv, HandleKeepsWorker, MustLeave, Leaving
  <2> QED BY <1>1, <2>1 DEF ThreadsInv, HandleKeepsWorker, Leaving
<1>7. ClosingInv' BY <1>1, <1>3 DEF ControlInv, ClosingInv
<1>8. TargetInv'
  <2>1. \A v \in Workers : Staying(v) => Staying(v)' BY <1>1 DEF Staying
  <2>2. csel[Main] # None => csel[Main] \in Workers
    BY PoolAssumption DEF TypeInv, TypeOK
  <2>3. candidates \subseteq Workers BY DEF TypeInv, TypeOK
  <2> QED BY <1>1, <2>1, <2>2, <2>3 DEF ControlInv, TargetInv
<1>9. FilledInv' /\ SpawnFindsWorkers'
  BY <1>1 DEF ControlInv, FilledInv, SpawnFindsWorkers
<1>10. StopInv' BY <1>1, <1>2 DEF ControlInv, StopInv
<1> QED BY <1>4, <1>5, <1>6, <1>7, <1>8, <1>9, <1>10 DEF ThreadsInv, ControlInv

-----------------------------------------------------------------------------
(* The calls of the app's thread. *)

\* While it is in a call it is not in tick(), stop() or cleanup().
LEMMA CallControlInv ==
  ASSUME Steady, ControlInv, mpc = "idle",
         UNCHANGED <<phase, mpc, closing, cleaning, current_expect_workers, stalled>>,
         cpc'[Main] = "apply" /\ csel'[Main] # None => Staying(csel[Main])',
         FilledInv', cpc'[Main] = "select" => Len(workers') >= current_expect_workers
  PROVE  ControlInv'
<1> USE DEF ControlInv
<1>1. ClosingInv' BY DEF ClosingInv
<1>2. TargetInv' BY DEF TargetInv
<1>3. SpawnFindsWorkers' BY DEF Steady, SpawnFindsWorkers
<1>4. StopInv' BY DEF StopInv
<1> QED BY <1>1, <1>2, <1>3, <1>4

LEMMA BeginCallSteadyInv ==
  ASSUME Steady, TypeOK, SteadyInv, NEW op, NEW arg, NEW id,
         BeginCall(Main, op, arg, id)
  PROVE  SteadyInv'
<1> USE PoolAssumption DEF SteadyInv
<1>1. /\ UNCHANGED <<workers, worker_id, pc, private_jobs, tick_handles, stalled>>
      /\ UNCHANGED <<phase, mpc, closing, cleaning, current_expect_workers>>
      /\ mpc = "idle" /\ cpc[Main] = "idle"
  BY DEF BeginCall, CallerIdle, threadVars, mainVars
<1>2. cpc'[Main] = IF need_scaling_up THEN "scale" ELSE "select"
  BY DEF BeginCall, AfterFlag, TypeOK
<1>3. ThreadsInv' BY <1>1, QuietThreadsInv DEF TypeOK
<1>4. ~need_scaling_up => Len(workers) >= current_expect_workers
  BY <1>1 DEF ControlInv, FilledInv
<1>5. FilledInv' BY <1>1, <1>2, <1>4 DEF FilledInv
<1>6. ControlInv' BY <1>1, <1>2, <1>4, <1>5, CallControlInv
<1> QED BY <1>3, <1>6

LEMMA ScaleUpSteadyInv ==
  ASSUME Steady, TypeInv, SteadyInv, ScaleUp(Main)
  PROVE  SteadyInv'
<1> USE PoolAssumption DEF SteadyInv
<1>1. /\ FillVector /\ UNCHANGED <<private_jobs, tick_handles, stalled>>
      /\ UNCHANGED <<phase, mpc, closing, cleaning, current_expect_workers>>
      /\ cpc[Main] = "scale" /\ cpc'[Main] = "select"
  BY DEF ScaleUp, mainVars, TypeInv, TypeOK
<1>2. mpc = "idle" BY <1>1 DEF ControlInv, ClosingInv
<1>3. ThreadsInv' BY <1>1, FillThreadsInv
<1>4. Len(workers') >= current_expect_workers BY <1>1, FillVectorFacts
<1>5. FilledInv' BY <1>1, <1>4 DEF FilledInv
<1>6. ControlInv' BY <1>1, <1>2, <1>4, <1>5, CallControlInv
<1> QED BY <1>3, <1>6

\* What is selected is in the vector, so it has a thread, and its id is not too
\* big.
LEMMA EligibleStays ==
  ASSUME TypeOK, VectorInv, NEW w \in Eligible
  PROVE  w \in Workers /\ Staying(w)
  BY DEF Eligible, InVector, VectorInv, VectorStarted, Staying

LEMMA SelectingSteadyInv ==
  ASSUME Steady, TypeOK, VectorInv, SteadyInv, Selecting(Main),
         \/ EndCall(Main)
         \/ Selected(Main, None)
         \/ \E w \in Eligible : Selected(Main, w)
  PROVE  SteadyInv'
<1> USE PoolAssumption DEF SteadyInv
<1>1. /\ UNCHANGED <<workers, worker_id, pc, private_jobs, tick_handles, stalled>>
      /\ UNCHANGED <<phase, mpc, closing, cleaning, current_expect_workers>>
      /\ UNCHANGED need_scaling_up /\ cpc[Main] = "select"
  BY DEF Selecting, threadVars, setVars, mainVars
<1>2. mpc = "idle" /\ Len(workers) >= current_expect_workers
  BY <1>1 DEF ControlInv, ClosingInv, SpawnFindsWorkers
<1>3. ThreadsInv' BY <1>1, QuietThreadsInv DEF TypeOK
<1>4. FilledInv' BY <1>1, <1>2 DEF FilledInv
<1>5. cpc'[Main] = "apply" /\ csel'[Main] # None => Staying(csel[Main])'
  <2>1. CASE EndCall(Main) BY <2>1 DEF EndCall, TypeOK
  <2>2. CASE Selected(Main, None) BY <2>2 DEF Selected, TypeOK
  <2>3. ASSUME NEW w \in Eligible, Selected(Main, w)
        PROVE  Staying(csel[Main])'
    <3>1. csel'[Main] = w BY <2>3 DEF Selected, TypeOK
    <3> QED BY <1>1, <3>1, EligibleStays DEF Staying
  <2> QED BY <2>1, <2>2, <2>3
<1>6. ControlInv' BY <1>1, <1>2, <1>4, <1>5, CallControlInv
<1> QED BY <1>3, <1>6

\* The job or the callback gets to who was selected.
LEMMA ApplySteadyInv ==
  ASSUME Steady, TypeInv, SteadyInv,
         SpawnPush(Main) \/ AddTick(Main) \/ RemoveTick(Main)
  PROVE  SteadyInv'
<1> USE PoolAssumption DEF SteadyInv, TypeInv
<1>1. /\ UNCHANGED <<workers, worker_id, pc, stalled, need_scaling_up>>
      /\ UNCHANGED <<phase, mpc, closing, cleaning, current_expect_workers>>
      /\ cpc[Main] = "apply" /\ EndCall(Main)
  BY DEF SpawnPush, AddTick, RemoveTick, setVars, mainVars
<1>2. mpc = "idle" BY <1>1 DEF ControlInv, ClosingInv
<1>3. cpc'[Main] = "idle" BY <1>1 DEF EndCall, TypeOK
<1>4. FilledInv' BY <1>1 DEF ControlInv, FilledInv
<1>5. ControlInv' BY <1>1, <1>2, <1>3, <1>4, CallControlInv
<1>6. csel[Main] # None => csel[Main] \in Workers /\ Staying(csel[Main])
  BY <1>1 DEF ControlInv, TargetInv, TypeOK
<1>7. CASE SpawnPush(Main)
  <2>1. CASE csel[Main] = None
    <3>1. UNCHANGED <<private_jobs, tick_handles>>
      BY <1>7, <2>1 DEF SpawnPush
    <3> QED BY <1>1, <1>5, <3>1, QuietThreadsInv DEF TypeOK
  <2>2. CASE csel[Main] # None
    <3>1. /\ private_jobs' = [private_jobs EXCEPT ![csel[Main]] =
                                private_jobs[csel[Main]] \cup {carg[Main]}]
          /\ UNCHANGED tick_handles
      BY <1>7, <2>2, Zenon DEF SpawnPush
    <3> QED BY <1>1, <1>5, <1>6, <2>2, <3>1, PushThreadsInv
  <2> QED BY <2>1, <2>2
<1>8. CASE AddTick(Main) \/ RemoveTick(Main)
  <2>1. csel[Main] \in Workers /\ csel[Main] # None /\ UNCHANGED private_jobs
    BY <1>8 DEF AddTick, RemoveTick, CallInv
  <2>2. \A v \in Workers : v # csel[Main] => tick_handles'[v] = tick_handles[v]
    BY <1>8, <2>1 DEF AddTick, RemoveTick, TypeOK
  <2> QED BY <1>1, <1>5, <1>6, <2>1, <2>2, CallbackThreadsInv
<1> QED BY <1>7, <1>8

LEMMA CallSteadyInv ==
  ASSUME Steady, TypeInv, VectorInv, SteadyInv, CallStep(Main)
  PROVE  SteadyInv'
<1>1. CASE ScaleUp(Main) BY <1>1, ScaleUpSteadyInv
<1>2. CASE SpawnSelect(Main)
  <2>1. LeastLoaded \subseteq Eligible /\ Addressed(ctarget[Main]) \subseteq Eligible
    BY DEF LeastLoaded, Addressed
  <2>2. \/ EndCall(Main) \/ Selected(Main, None)
        \/ \E w \in LeastLoaded \cup Addressed(ctarget[Main]) : Selected(Main, w)
    BY <1>2, Zenon DEF SpawnSelect
  <2>3. \/ EndCall(Main) \/ Selected(Main, None)
        \/ \E w \in Eligible : Selected(Main, w)
    BY <2>1, <2>2
  <2>4. Selecting(Main) BY <1>2 DEF SpawnSelect
  <2> QED BY <2>3, <2>4, SelectingSteadyInv DEF TypeInv
<1>3. CASE TickSelect(Main)
  <2>1. \/ EndCall(Main)
        \/ \E w \in Eligible : Selected(Main, w)
    BY <1>3, Zenon DEF TickSelect, Addressed
  <2>2. Selecting(Main) BY <1>3 DEF TickSelect
  <2> QED BY <2>1, <2>2, SelectingSteadyInv DEF TypeInv
<1>4. CASE SpawnPush(Main) \/ AddTick(Main) \/ RemoveTick(Main)
  BY <1>4, ApplySteadyInv
<1> QED BY <1>1, <1>2, <1>3, <1>4 DEF CallStep

-----------------------------------------------------------------------------
(* tick(), stop() and cleanup() on the app's thread. *)

\* While it is in one of them it is in no call of the pool.
LEMMA MainControlInv ==
  ASSUME Steady, ControlInv, cpc'[Main] = "idle",
         phase' # "enabled" => closing',
         mpc' \in {"check_workers", "check_shared", "cleanup", "shared"} => closing',
         mpc' \in {"check_workers", "check_shared"} => phase' = "enabled",
         cleaning' => closing', closing' => current_expect_workers' = 0,
         UNCHANGED stalled,
         mpc' = "distribute" => \A w \in candidates' : Staying(w)',
         FilledInv', StopInv'
  PROVE  ControlInv'
<1> USE DEF ControlInv
<1>1. ClosingInv' BY DEF ClosingInv
<1>2. TargetInv' BY DEF TargetInv
<1>3. SpawnFindsWorkers' BY DEF Steady, SpawnFindsWorkers
<1> QED BY <1>1, <1>2, <1>3

\* A worker whose id is not too big does not leave, so a leak scan finds none.
LEMMA NoAutofix ==
  ASSUME TypeOK, VectorInv, SteadyInv PROVE ~NeedAutofix
<1> SUFFICES ASSUME NEW i \in 1..Len(workers), i <= current_expect_workers,
                    IsExited(workers[i])
             PROVE  FALSE
  BY DEF NeedAutofix
<1>1. workers[i] \in Workers /\ worker_id[workers[i]] = i
  BY DEF TypeOK, VectorInv, VectorNumbered
<1>2. pc[workers[i]] = "exited"
  BY DEF IsExited, SteadyInv, ControlInv, ClosingInv
<1>3. i > current_expect_workers
  BY <1>1, <1>2 DEF SteadyInv, ThreadsInv, LeavingInv, Leaving
<1> QED BY <1>3 DEF TypeOK

\* Shortening the vector leaves as many workers as are expected.
LEMMA ReduceSteady ==
  ASSUME TypeOK, SteadyInv, mpc # "scale", cpc[Main] # "scale",
         ReduceTo(current_expect_workers),
         UNCHANGED <<threadVars, need_scaling_up, current_expect_workers, cleaning>>
  PROVE  ThreadsInv' /\ FilledInv'
<1>1. ThreadsInv'
  BY ReduceThreadsInv DEF TypeOK, SteadyInv, ControlInv, ClosingInv, threadVars
<1>2. FilledInv'
  <2>1. CASE need_scaling_up BY <2>1 DEF FilledInv
  <2>2. CASE ~need_scaling_up
    <3>1. Len(workers) >= current_expect_workers
      BY <2>2 DEF SteadyInv, ControlInv, FilledInv
    <3>2. current_expect_workers \in Nat BY DEF TypeOK
    <3>3. Len(workers') >= current_expect_workers BY <3>1, <3>2, ReduceToFacts
    <3> QED BY <3>3 DEF FilledInv
  <2> QED BY <2>1, <2>2
<1> QED BY <1>1, <1>2

LEMMA TickReduceSteadyInv ==
  ASSUME Steady, TypeInv, VectorInv, SteadyInv, TickReduce
  PROVE  SteadyInv'
<1> USE DEF SteadyInv, TypeInv
<1>1. /\ UNCHANGED <<threadVars, need_scaling_up, current_expect_workers, closing>>
      /\ UNCHANGED <<cleaning, phase, candidates, cpc>>
      /\ mpc = "reduce" /\ mpc' = "rebalance"
  BY DEF TickReduce, callVars
<1>2. cpc[Main] = "idle" BY <1>1 DEF ControlInv, ClosingInv
<1>3. ThreadsInv' /\ FilledInv'
  <2>1. CASE Autofix
    <3>1. UNCHANGED <<workers, worker_id>> BY <2>1, NoAutofix DEF Autofix
    <3>2. ThreadsInv' BY <1>1, <3>1, QuietThreadsInv DEF TypeOK, threadVars
    <3>3. FilledInv' BY <1>1, <1>2, <3>1 DEF ControlInv, FilledInv
    <3> QED BY <3>2, <3>3
  <2>2. CASE ReduceTo(IF closing THEN 0 ELSE current_expect_workers)
    <3>1. ReduceTo(current_expect_workers)
      <4>1. CASE closing
        <5>1. current_expect_workers = 0 BY <4>1 DEF ControlInv, ClosingInv
        <5> QED BY <2>2, <4>1, <5>1
      <4>2. CASE ~closing BY <2>2, <4>2
      <4> QED BY <4>1, <4>2
    <3> QED BY <1>1, <1>2, <3>1, ReduceSteady
  <2> QED BY <2>1, <2>2 DEF TickReduce
<1>4. StopInv' BY <1>1 DEF StopInv
<1>5. ControlInv'
  BY <1>1, <1>2, <1>3, <1>4, MainControlInv DEF ControlInv, ClosingInv, threadVars
<1> QED BY <1>3, <1>5

LEMMA StopCheckWorkersSteadyInv ==
  ASSUME Steady, TypeInv, SteadyInv, StopCheckWorkers
  PROVE  SteadyInv'
<1> USE DEF SteadyInv, TypeInv
<1>1. /\ UNCHANGED <<threadVars, need_scaling_up, current_expect_workers, closing>>
      /\ UNCHANGED <<cleaning, phase, candidates, cpc>>
      /\ mpc = "check_workers" /\ mpc' \in {"idle", "check_shared"} /\ ReduceTo(0)
  BY DEF StopCheckWorkers, callVars
<1>2. cpc[Main] = "idle" /\ closing /\ current_expect_workers = 0
  BY <1>1 DEF ControlInv, ClosingInv
<1>3. ThreadsInv' /\ FilledInv' BY <1>1, <1>2, ReduceSteady
<1>4. StopInv'
  <2> SUFFICES ASSUME mpc' = "check_shared", NEW w \in Workers, private_jobs[w] # {}
               PROVE  pc[w] \in {"drain", "move", "exited"}
    BY <1>1 DEF StopInv, threadVars
  <2>1. ~(InVector(w) /\ ~IsExiting(w)) BY DEF StopCheckWorkers
  <2>2. pc[w] # "none" BY DEF ThreadsInv, LeavingInv
  <2>3. CASE ~InVector(w) BY <2>2, <2>3 DEF ThreadsInv, LeavingInv
  <2>4. CASE IsExiting(w) BY <2>4 DEF IsExiting, ControlInv, ClosingInv
  <2> QED BY <2>1, <2>3, <2>4
<1>5. ControlInv'
  BY <1>1, <1>2, <1>3, <1>4, MainControlInv DEF ControlInv, ClosingInv, threadVars
<1> QED BY <1>3, <1>5

LEMMA CleanupLoopSteadyInv ==
  ASSUME Steady, TypeInv, SteadyInv, CleanupLoop
  PROVE  SteadyInv'
<1> USE DEF SteadyInv, TypeInv
<1>1. /\ UNCHANGED <<threadVars, need_scaling_up, current_expect_workers, closing>>
      /\ UNCHANGED <<cleaning, candidates, cpc>>
      /\ mpc = "cleanup" /\ mpc' \in {"idle", "cleanup"} /\ ReduceTo(0)
  BY DEF CleanupLoop, callVars
<1>2. cpc[Main] = "idle" /\ closing /\ current_expect_workers = 0
  BY <1>1 DEF ControlInv, ClosingInv
<1>3. ThreadsInv' /\ FilledInv' BY <1>1, <1>2, ReduceSteady
<1>4. StopInv' BY <1>1 DEF StopInv
<1>5. ControlInv'
  BY <1>1, <1>2, <1>3, <1>4, MainControlInv DEF threadVars
<1> QED BY <1>3, <1>5

LEMMA RebalanceScaleUpSteadyInv ==
  ASSUME Steady, TypeInv, SteadyInv, RebalanceScaleUp
  PROVE  SteadyInv'
<1> USE DEF SteadyInv
<1>1. /\ FillVector /\ UNCHANGED <<private_jobs, tick_handles, stalled>>
      /\ UNCHANGED <<phase, closing, cleaning, current_expect_workers, cpc>>
      /\ mpc = "scale" /\ mpc' = "gather"
  BY DEF RebalanceScaleUp, callVars
<1>2. cpc[Main] = "idle" BY <1>1 DEF ControlInv, ClosingInv
<1>3. ThreadsInv' BY <1>1, FillThreadsInv
<1>4. Len(workers') >= current_expect_workers BY <1>1, FillVectorFacts
<1>5. FilledInv' /\ StopInv' BY <1>1, <1>4 DEF FilledInv, StopInv
<1>6. ControlInv'
  BY <1>1, <1>2, <1>5, MainControlInv DEF ControlInv, ClosingInv
<1> QED BY <1>3, <1>6

LEMMA RebalanceMoveSteadyInv ==
  ASSUME Steady, TypeInv, SteadyInv, RebalanceMove
  PROVE  SteadyInv'
<1> USE DEF SteadyInv, TypeInv
<1>1. /\ UNCHANGED <<workers, worker_id, pc, tick_handles, stalled>>
      /\ UNCHANGED <<current_expect_workers, need_scaling_up, closing, cleaning>>
      /\ UNCHANGED <<phase, mpc, candidates, cpc>> /\ mpc = "distribute"
  BY DEF RebalanceMove, mainVars, callVars
<1>2. PICK j \in shared_jobs, w \in candidates :
        private_jobs' = [private_jobs EXCEPT ![w] = private_jobs[w] \cup {j}]
  BY DEF RebalanceMove
<1>3. w \in Workers /\ \A v \in candidates : Staying(v)
  BY <1>1 DEF TypeOK, ControlInv, TargetInv
<1>4. ThreadsInv' BY <1>1, <1>2, <1>3, PushThreadsInv
<1>5. cpc[Main] = "idle" BY <1>1 DEF ControlInv, ClosingInv
<1>6. \A v \in candidates : Staying(v)' BY <1>1, <1>3 DEF Staying
<1>7. FilledInv' /\ StopInv' BY <1>1 DEF ControlInv, FilledInv, StopInv
<1>8. ControlInv'
  BY <1>1, <1>5, <1>6, <1>7, MainControlInv DEF ControlInv, ClosingInv
<1> QED BY <1>4, <1>8

\* E, the number of workers expected, only falls.
LEMMA TickBeginSteadyInv ==
  ASSUME Steady, TypeInv, SteadyInv, TickBegin
  PROVE  SteadyInv'
<1> USE DEF SteadyInv, TypeInv
<1>1. /\ UNCHANGED <<workers, worker_id, closing, cleaning, phase, threadVars, cpc>>
      /\ mpc = "idle" /\ cpc[Main] = "idle" /\ mpc' = "reduce"
  BY DEF TickBegin, MainIdle, callVars
<1>2. /\ current_expect_workers' \in Nat
      /\ current_expect_workers' <= current_expect_workers
      /\ closing => UNCHANGED current_expect_workers
      /\ \/ need_scaling_up'
         \/ UNCHANGED <<need_scaling_up, current_expect_workers>>
  <2>1. CASE closing BY <2>1 DEF TickBegin, TypeOK
  <2>2. CASE ~closing
    <3>1. PICK e \in ScalingTargets :
            /\ current_expect_workers' = e
            /\ \/ need_scaling_up'
               \/ UNCHANGED need_scaling_up /\ e = current_expect_workers
      BY <2>2 DEF TickBegin
    <3>2. e \in Nat /\ e <= current_expect_workers
      BY PoolAssumption DEF Steady, ScalingTargets, TypeOK
    <3> QED BY <2>2, <3>1, <3>2
  <2> QED BY <2>1, <2>2
<1>3. ThreadsInv' BY <1>1, <1>2, QuietThreadsInv DEF threadVars
<1>4. FilledInv' BY <1>1, <1>2 DEF ControlInv, FilledInv
<1>5. StopInv' BY <1>1 DEF StopInv
<1>6. closing => current_expect_workers' = 0
  BY <1>2 DEF ControlInv, ClosingInv
<1>7. ControlInv'
  BY <1>1, <1>4, <1>5, <1>6, MainControlInv DEF ControlInv, ClosingInv, threadVars
<1> QED BY <1>3, <1>7

LEMMA StopBeginSteadyInv ==
  ASSUME Steady, TypeInv, SteadyInv, StopBegin
  PROVE  SteadyInv'
<1> USE DEF SteadyInv, TypeInv
<1>1. /\ UNCHANGED <<workers, worker_id, cleaning, phase, threadVars, cpc>>
      /\ cpc[Main] = "idle" /\ mpc' = "check_workers" /\ closing' /\ phase = "enabled"
  BY DEF StopBegin, MainIdle, callVars
<1>2. current_expect_workers' = 0 BY DEF StopBegin, ControlInv, ClosingInv
<1>3. ThreadsInv' BY <1>1, <1>2, QuietThreadsInv DEF threadVars, TypeOK
<1>4. FilledInv'
  <2>1. Len(workers) >= 0 BY DEF TypeOK
  <2> QED BY <1>1, <1>2, <2>1 DEF FilledInv
<1>5. StopInv' BY <1>1 DEF StopInv
<1>6. ControlInv' BY <1>1, <1>2, <1>4, <1>5, MainControlInv DEF threadVars
<1> QED BY <1>3, <1>6

\* The steps that change where the app's thread is and nothing of the workers.
LEMMA RestSteadyInv ==
  ASSUME Steady, TypeInv, VectorInv, SteadyInv,
         \/ RebalanceBegin \/ RebalanceGather \/ RebalanceEnd
         \/ SharedJob \/ SharedEnd
         \/ StopCheckShared \/ AppTimeout \/ CleanupBegin
  PROVE  SteadyInv'
<1> USE DEF SteadyInv, TypeInv, threadVars, setVars, mainVars, callVars
<1>1. /\ UNCHANGED <<workers, worker_id, pc, private_jobs, tick_handles, stalled>>
      /\ UNCHANGED <<current_expect_workers, cpc>>
      /\ (closing => closing') /\ (cleaning => cleaning')
  BY DEF RebalanceBegin, RebalanceGather, RebalanceEnd, SharedJob, SharedEnd,
         StopCheckShared, AppTimeout, CleanupBegin
<1>2. ThreadsInv' BY <1>1, QuietThreadsInv DEF TypeOK
<1>3. cpc[Main] = "idle"
  BY DEF RebalanceBegin, RebalanceGather, RebalanceEnd, SharedJob, SharedEnd,
         StopCheckShared, AppTimeout, CleanupBegin, MainIdle, ControlInv, ClosingInv
<1>4. mpc' # "check_shared" /\ StopInv'
  BY DEF RebalanceBegin, RebalanceGather, RebalanceEnd, SharedJob, SharedEnd,
         StopCheckShared, AppTimeout, CleanupBegin, MainIdle, AfterRebalance,
         AfterFlag, StopInv
<1>5. CASE RebalanceBegin
  <2>1. /\ mpc = "rebalance" /\ UNCHANGED <<closing, cleaning, phase>>
        /\ mpc' \in {"idle", "scale", "gather", "shared"}
        /\ mpc' = "shared" => closing
    BY <1>5 DEF RebalanceBegin, AfterRebalance, AfterFlag
  <2>2. FilledInv'
    <3>1. CASE need_scaling_up
      BY <1>5, <3>1 DEF RebalanceBegin, AfterFlag, FilledInv
    <3>2. CASE ~need_scaling_up
      BY <1>1, <1>3, <2>1, <3>2 DEF ControlInv, FilledInv
    <3> QED BY <3>1, <3>2
  <2> QED BY <1>1, <1>2, <1>3, <1>4, <2>1, <2>2, MainControlInv
          DEF ControlInv, ClosingInv
<1>6. CASE \/ RebalanceGather \/ RebalanceEnd \/ SharedJob \/ SharedEnd
           \/ StopCheckShared \/ AppTimeout \/ CleanupBegin
  <2>1. mpc # "scale" /\ UNCHANGED need_scaling_up
    BY <1>6 DEF RebalanceGather, RebalanceEnd, SharedJob, SharedEnd,
                StopCheckShared, AppTimeout, CleanupBegin, MainIdle
  <2>2. FilledInv' BY <1>1, <1>3, <2>1 DEF ControlInv, FilledInv
  <2>3. CASE RebalanceGather
    <3>1. /\ UNCHANGED <<closing, cleaning, phase>> /\ candidates' = Eligible
          /\ mpc' \in {"idle", "shared", "distribute"} /\ (mpc' = "shared" => closing)
      BY <2>3 DEF RebalanceGather, AfterRebalance
    <3>2. \A w \in candidates' : Staying(w)'
      BY <1>1, <3>1, EligibleStays DEF Staying
    <3> QED BY <1>1, <1>2, <1>3, <1>4, <2>2, <3>1, <3>2, MainControlInv
            DEF ControlInv, ClosingInv
  <2>4. CASE RebalanceEnd \/ SharedJob \/ SharedEnd
    <3>1. /\ UNCHANGED <<closing, cleaning, phase>>
          /\ mpc' \in {"idle", "shared"} /\ (mpc' = "shared" => closing)
      BY <2>4 DEF RebalanceEnd, SharedJob, SharedEnd, AfterRebalance, ControlInv,
                  ClosingInv
    <3> QED BY <1>1, <1>2, <1>3, <1>4, <2>2, <3>1, MainControlInv
            DEF ControlInv, ClosingInv
  <2>5. CASE StopCheckShared \/ AppTimeout
    <3>1. UNCHANGED <<closing, cleaning>> /\ mpc' = "idle" /\ closing
      BY <2>5 DEF StopCheckShared, AppTimeout, MainIdle, Steady, ControlInv, ClosingInv
    <3> QED BY <1>1, <1>2, <1>3, <1>4, <2>2, <3>1, MainControlInv
            DEF ControlInv, ClosingInv
  <2>6. CASE CleanupBegin
    <3>1. closing /\ closing' /\ mpc' = "cleanup"
      BY <2>6 DEF CleanupBegin, ControlInv, ClosingInv
    <3> QED BY <1>1, <1>2, <1>3, <1>4, <2>2, <3>1, MainControlInv
            DEF ControlInv, ClosingInv
  <2> QED BY <1>6, <2>3, <2>4, <2>5, <2>6
<1> QED BY <1>5, <1>6

LEMMA StepSteadyInv ==
  ASSUME Steady, TypeInv, VectorInv, SteadyInv, [Next]_vars
  PROVE  SteadyInv'
<1>1. CASE UNCHANGED vars
  BY <1>1 DEF vars, threadVars, setVars, mainVars, callVars, jobVars, SteadyInv,
              ThreadsInv, LeavingInv, InVector, NoJobStranded, HandleKeepsWorker,
              ControlInv, ClosingInv, TargetInv, Staying, FilledInv,
              SpawnFindsWorkers, StopInv
<1>2. CASE \E w \in Workers : ThreadStep(w) \/ CreatedTooLong(w)
  BY <1>2, ThreadSteadyInv
<1>3. ASSUME NEW c \in Clients, NEW op, NEW arg, NEW id, BeginCall(c, op, arg, id)
      PROVE  SteadyInv'
  <2>1. c = Main BY DEF Steady
  <2> QED BY <1>3, <2>1, BeginCallSteadyInv DEF TypeInv
<1>4. ASSUME NEW c \in Clients, CallStep(c)
      PROVE  SteadyInv'
  <2>1. c = Main BY DEF Steady
  <2> QED BY <1>4, <2>1, CallSteadyInv
<1>5. CASE TickBegin BY <1>5, TickBeginSteadyInv
<1>6. CASE StopBegin BY <1>6, StopBeginSteadyInv
<1>7. CASE MainStep
  <2>1. CASE TickReduce BY <2>1, TickReduceSteadyInv
  <2>2. CASE RebalanceScaleUp BY <2>2, RebalanceScaleUpSteadyInv
  <2>3. CASE RebalanceMove BY <2>3, RebalanceMoveSteadyInv
  <2>4. CASE StopCheckWorkers BY <2>4, StopCheckWorkersSteadyInv
  <2>5. CASE CleanupLoop BY <2>5, CleanupLoopSteadyInv
  <2>6. CASE \/ RebalanceBegin \/ RebalanceGather \/ RebalanceEnd
             \/ SharedJob \/ SharedEnd \/ StopCheckShared
    BY <2>6, RestSteadyInv
  <2> QED BY <1>7, <2>1, <2>2, <2>3, <2>4, <2>5, <2>6 DEF MainStep
<1>8. CASE AppTimeout \/ CleanupBegin BY <1>8, RestSteadyInv
<1> QED
  BY <1>1, <1>2, <1>3, <1>4, <1>5, <1>6, <1>7, <1>8
  DEF Next, SpawnBegin, AddBegin, RemoveBegin

LEMMA InitSteadyInv == ASSUME Init PROVE SteadyInv
<1> USE PoolAssumption DEF Init
<1>1. ThreadsInv
  BY DEF ThreadsInv, LeavingInv, Leaving, NoJobStranded, HandleKeepsWorker
<1>2. ControlInv
  BY DEF ControlInv, ClosingInv, TargetInv, FilledInv, SpawnFindsWorkers, StopInv
<1> QED BY <1>1, <1>2 DEF SteadyInv

\* The invariant of a steady pool, for any number of workers, jobs and callbacks:
\* tick() only lowers current_expect_workers, so whoever leaves has an id above
\* it and whoever is selected has not.
THEOREM SteadyPool == ASSUME Steady PROVE Spec => [](PoolInv /\ SteadyInv)
<1>1. Init => PoolInv /\ SteadyInv BY InitPoolInv, InitSteadyInv
<1>2. (PoolInv /\ SteadyInv) /\ [Next]_vars => (PoolInv /\ SteadyInv)'
  BY StepPoolInv, StepSteadyInv DEF PoolInv
<1> QED BY <1>1, <1>2, PTL DEF Spec

\* In a steady pool a thread that is gone has left no job in its private queue:
\* who is selected by spawn() or gathered by rebalance_jobs() is never a worker
\* that leaves.
THEOREM NobodyStrandsJobs == ASSUME Steady PROVE Spec => []NoJobStranded
<1>1. PoolInv /\ SteadyInv => NoJobStranded BY DEF SteadyInv, ThreadsInv
<1> QED BY <1>1, SteadyPool, PTL

\* In a steady pool spawn() and add_tick_callback() select among at least as
\* many workers as are expected, whatever tick() has done to the vector.
THEOREM SpawnsFindWorkers == ASSUME Steady PROVE Spec => []SpawnFindsWorkers
<1>1. PoolInv /\ SteadyInv => SpawnFindsWorkers BY DEF SteadyInv, ControlInv
<1> QED BY <1>1, SteadyPool, PTL

\* In a steady pool a worker with tick callbacks stays until cleanup(), and a
\* callback that was removed is not called again.
THEOREM CallbacksStaySafe == ASSUME Steady PROVE Spec => []CallbacksSafe
<1>1. PoolInv /\ SteadyInv => CallbacksSafe
  BY DEF PoolInv, HandleInv, SteadyInv, ThreadsInv, CallbacksSafe
<1> QED BY <1>1, SteadyPool, PTL

\* In a steady pool stop() returns 0 only when every job accepted is done, in
\* the hand of a thread or with a worker that is leaving: no thread gets a job
\* between the two checks of stop().
THEOREM StopWaitsForJobs == ASSUME Steady PROVE Spec => StopLeavesNoWaitingJob
<1>1. ASSUME PoolInv, SteadyInv, Next, mpc = "check_shared", phase' = "disabled",
             NEW j \in accepted \ done
      PROVE  \E w \in Workers : held[w] = j \/ (IsExiting(w) /\ j \in private_jobs[w])
  <2>1. StopCheckShared /\ phase # "disabled"
    <3>1. phase # "disabled" /\ cpc[Main] = "idle"
      BY <1>1 DEF SteadyInv, ControlInv, ClosingInv
    <3>2. phase' # phase BY <1>1, <3>1
    <3>3. ~ \E w \in Workers : ThreadStep(w) \/ CreatedTooLong(w)
      BY <1>1, <3>2, ThreadFacts DEF PoolInv, mainVars
    <3>4. ~ \E c \in Clients : CallStep(c)
      BY <3>2 DEF CallStep, ScaleUp, SpawnSelect, TickSelect, Selecting, SpawnPush,
                  AddTick, RemoveTick, mainVars
    <3>5. \A c, op, arg, id : ~BeginCall(c, op, arg, id)
      BY <3>2 DEF BeginCall, mainVars
    <3>6. ~(TickBegin \/ StopBegin \/ AppTimeout \/ CleanupBegin)
      BY <1>1 DEF TickBegin, StopBegin, AppTimeout, CleanupBegin, MainIdle
    <3>7. MainStep
      BY <1>1, <3>3, <3>4, <3>5, <3>6 DEF Next, SpawnBegin, AddBegin, RemoveBegin
    <3>8. StopCheckShared
      BY <1>1, <3>7 DEF MainStep, TickReduce, RebalanceBegin, RebalanceScaleUp,
            RebalanceGather, RebalanceMove, RebalanceEnd, SharedJob, SharedEnd,
            StopCheckWorkers, CleanupLoop
    <3> QED BY <3>1, <3>8
  <2>2. shared_jobs = {} BY <1>1, <2>1 DEF StopCheckShared
  <2>3. PICK w \in Workers : j \in private_jobs[w] \/ held[w] = j
    BY <1>1, <2>2 DEF PoolInv, JobInv, NoJobLost
  <2>4. j \in private_jobs[w] => IsExiting(w)
    BY <1>1 DEF SteadyInv, ControlInv, StopInv, IsExiting
  <2> QED BY <2>3, <2>4
<1>2. PoolInv /\ SteadyInv /\ [Next]_vars =>
        [mpc = "check_shared" /\ phase' = "disabled" =>
           \A j \in accepted \ done : \E w \in Workers :
             held[w] = j \/ (IsExiting(w) /\ j \in private_jobs[w])]_vars
  BY <1>1
<1> QED BY <1>2, SteadyPool, PTL DEF Spec, StopLeavesNoWaitingJob
=============================================================================
