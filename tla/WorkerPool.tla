----------------------------- MODULE WorkerPool -----------------------------
(***************************************************************************)
(* The worker pool module of libatapp (worker_pool_module.cpp): the worker *)
(* threads and their private job queues, the shared queue, the calls of    *)
(* the main thread (tick, stop, cleanup) and the thread-safe calls any     *)
(* thread may make (spawn, add_tick_callback, remove_tick_callback).       *)
(*                                                                         *)
(* A step is what runs between two points where another thread can         *)
(* observe or change the pool: an atomic load that decides a branch, a     *)
(* push to or a pop from a concurrent queue, a section under a lock.       *)
(* Queues are sets of jobs: no property here depends on their order.       *)
(***************************************************************************)
EXTENDS Integers, Sequences, FiniteSets

CONSTANTS
  Workers,       \* worker objects; do_scaling_up takes a fresh one each time
  Jobs,          \* the actions callers pass to spawn
  Handles,       \* the tick callbacks callers pass to add_tick_callback
  Clients,       \* the threads that call into the pool
  Main,          \* the thread that runs app::tick and the module's callbacks
  None,          \* no job, no worker
  MinWorkers,    \* scaling_configure::min_workers
  MaxWorkers,    \* scaling_configure::max_workers
  QueueLimit,    \* scaling_configure::queue_size_limit
  MaxScalings,   \* bound: how often tick may change current_expect_workers
  MayRaise,      \* scenario: tick may scale up after it has scaled down
  MayStop,       \* scenario: the app stops
  MayAbort,      \* scenario: init times out, cleanup() without stop()
  MayStall       \* scenario: a thread may need over 30s to start

ASSUME PoolAssumption ==
  /\ Main \in Clients
  /\ None \notin Workers \cup Jobs \cup Handles
  /\ MinWorkers \in Nat \ {0}
  /\ MaxWorkers \in Nat
  /\ MinWorkers <= MaxWorkers
  /\ QueueLimit \in Nat
  /\ MaxScalings \in Nat
  /\ {MayRaise, MayStop, MayAbort, MayStall} \subseteq BOOLEAN

VARIABLES
  workers,                 \* worker_set::workers, the vector
  worker_id,               \* context_.worker_id of every worker object
  pc,                      \* where the thread of a worker object is
  private_jobs,            \* worker::private_jobs
  held,                    \* the job a worker thread has popped
  tick_handles,            \* worker::tick_handles_
  calling,                 \* the callbacks a thread is going through
  stalled,                 \* objects kCreated for more than 30 seconds
  shared_jobs,             \* worker_set::shared_jobs
  current_expect_workers,  \* worker_set::current_expect_workers
  need_scaling_up,         \* worker_set::need_scaling_up
  closing,                 \* worker_set::closing
  cleaning,                \* worker_set::cleaning
  scalings,                \* number of changes of current_expect_workers
  phase,                   \* how the app treats the module
  mpc,                     \* where the main thread is in tick, stop, cleanup
  candidates,              \* the map rebalance_jobs builds
  cpc,                     \* where a caller is in its call
  cop,                     \* the call: spawn, add_ or remove_tick_callback
  carg,                    \* the job or the handle of the call
  ctarget,                 \* the worker id asked for, 0 for any worker
  csel,                    \* what select_worker returned
  owner,                   \* handle->owner of every tick handle
  specify_worker,          \* handle->specify_worker
  removed,                 \* handles whose removal returned true
  accepted,                \* jobs for which spawn returned success
  done                     \* jobs that have been executed

threadVars == <<pc, private_jobs, held, tick_handles, calling, stalled>>
setVars == <<workers, worker_id, shared_jobs, current_expect_workers,
             need_scaling_up, closing, cleaning, scalings>>
mainVars == <<phase, mpc, candidates>>
callVars == <<cpc, cop, carg, ctarget, csel, owner, specify_worker, removed>>
jobVars == <<accepted, done>>
vars == <<threadVars, setVars, mainVars, callVars, jobVars>>

\* "top" stands for kRunning and for kSleeping: waker_cv_ is only waited on
\* with wait_for and no predicate, so a wakeup just ends the wait earlier.
ThreadPCs == {"none", "created", "top", "tick", "job", "callback", "leave",
              "drain", "move", "exited"}
MainPCs == {"idle", "reduce", "rebalance", "scale", "gather", "distribute",
            "shared", "check_workers", "check_shared", "cleanup"}
ClientPCs == {"idle", "scale", "select", "apply"}
Operations == {"none", "spawn", "add", "remove"}

TypeOK ==
  /\ workers \in Seq(Workers)
  /\ worker_id \in [Workers -> Nat]
  /\ pc \in [Workers -> ThreadPCs]
  /\ private_jobs \in [Workers -> SUBSET Jobs]
  /\ held \in [Workers -> Jobs \cup {None}]
  /\ tick_handles \in [Workers -> SUBSET Handles]
  /\ calling \in [Workers -> SUBSET Handles]
  /\ stalled \in SUBSET Workers
  /\ shared_jobs \in SUBSET Jobs
  /\ current_expect_workers \in Nat
  /\ need_scaling_up \in BOOLEAN
  /\ closing \in BOOLEAN
  /\ cleaning \in BOOLEAN
  /\ scalings \in Nat
  /\ phase \in {"enabled", "disabled", "cleaned"}
  /\ mpc \in MainPCs
  /\ candidates \in SUBSET Workers
  /\ cpc \in [Clients -> ClientPCs]
  /\ cop \in [Clients -> Operations]
  /\ carg \in [Clients -> Jobs \cup Handles \cup {None}]
  /\ ctarget \in [Clients -> Nat]
  /\ csel \in [Clients -> Workers \cup {None}]
  /\ owner \in [Handles -> Workers \cup {None}]
  /\ specify_worker \in [Handles -> Nat]
  /\ removed \in SUBSET Handles
  /\ accepted \in SUBSET Jobs
  /\ done \in SUBSET Jobs

\* worker_set() and the reload() that app::init makes before the module is
\* active: two workers expected, none created, need_scaling_up set.
Init ==
  /\ workers = <<>>
  /\ worker_id = [w \in Workers |-> 0]
  /\ pc = [w \in Workers |-> "none"]
  /\ private_jobs = [w \in Workers |-> {}]
  /\ held = [w \in Workers |-> None]
  /\ tick_handles = [w \in Workers |-> {}]
  /\ calling = [w \in Workers |-> {}]
  /\ stalled = {}
  /\ shared_jobs = {}
  /\ current_expect_workers = 2
  /\ need_scaling_up = TRUE
  /\ closing = FALSE
  /\ cleaning = FALSE
  /\ scalings = 0
  /\ phase = "enabled"
  /\ mpc = "idle"
  /\ candidates = {}
  /\ cpc = [c \in Clients |-> "idle"]
  /\ cop = [c \in Clients |-> "none"]
  /\ carg = [c \in Clients |-> None]
  /\ ctarget = [c \in Clients |-> 0]
  /\ csel = [c \in Clients |-> None]
  /\ owner = [h \in Handles |-> None]
  /\ specify_worker = [h \in Handles |-> 0]
  /\ removed = {}
  /\ accepted = {}
  /\ done = {}

-----------------------------------------------------------------------------
(* What the pool asks of a worker object. *)

IsExiting(w) == pc[w] \in {"drain", "move", "exited"} \/ w \in stalled

IsExited(w) == pc[w] = "exited" \/ w \in stalled

InVector(w) == \E i \in 1..Len(workers) : workers[i] = w

\* select_worker() and rebalance_jobs() stop at the first id that is too big.
Eligible == {w \in Workers : /\ InVector(w)
                             /\ ~IsExiting(w)
                             /\ worker_id[w] <= current_expect_workers}

\* make_compare_key orders by pending jobs first; cpu times break ties freely.
LeastLoaded == {w \in Eligible : \A v \in Eligible :
                  Cardinality(private_jobs[w]) <= Cardinality(private_jobs[v])}

\* select_worker(context, output): by index, or by scanning, the same worker.
Addressed(id) == {w \in Eligible : worker_id[w] = id}

-----------------------------------------------------------------------------
(* The thread of worker w: the lambda of worker::start.                    *)

ThreadStart(w) ==
  /\ pc[w] = "created"
  /\ pc' = [pc EXCEPT ![w] = "top"]
  /\ stalled' = stalled \ {w}
  /\ UNCHANGED <<private_jobs, held, tick_handles, calling>>
  /\ UNCHANGED <<setVars, mainVars, callVars, jobVars>>

\* is_exiting and is_exited take a thread that is kCreated for 30s as leaked.
CreatedTooLong(w) ==
  /\ MayStall
  /\ pc[w] = "created"
  /\ w \notin stalled
  /\ stalled' = stalled \cup {w}
  /\ UNCHANGED <<pc, private_jobs, held, tick_handles, calling>>
  /\ UNCHANGED <<setVars, mainVars, callVars, jobVars>>

MustLeave(w) ==
  \/ cleaning
  \/ /\ worker_id[w] > current_expect_workers \/ closing
     /\ tick_handles[w] = {}

LoopTop(w) ==
  /\ pc[w] = "top"
  /\ pc' = [pc EXCEPT ![w] = IF MustLeave(w) THEN "leave" ELSE "tick"]
  /\ UNCHANGED <<private_jobs, held, tick_handles, calling, stalled>>
  /\ UNCHANGED <<setVars, mainVars, callVars, jobVars>>

\* Slip: the job is copied out of the queue and stays there.
PeekJob(w) ==
  /\ pc[w] = "tick"
  /\ \E j \in private_jobs[w] : held' = [held EXCEPT ![w] = j]
  /\ pc' = [pc EXCEPT ![w] = "job"]
  /\ UNCHANGED <<private_jobs, tick_handles, calling, stalled>>
  /\ UNCHANGED <<setVars, mainVars, callVars, jobVars>>

PopJob(w) ==
  /\ pc[w] = "tick"
  /\ \E j \in private_jobs[w] :
       /\ private_jobs' = [private_jobs EXCEPT ![w] = @ \ {j}]
       /\ held' = [held EXCEPT ![w] = j]
  /\ pc' = [pc EXCEPT ![w] = "job"]
  /\ UNCHANGED <<tick_handles, calling, stalled>>
  /\ UNCHANGED <<setVars, mainVars, callVars, jobVars>>

\* background_job_tick goes on to its callbacks: with tick_handle_lock_ held
\* until the last one returns, or past them when there is none.
BeginCallbacks(w) ==
  /\ pc' = [pc EXCEPT ![w] = IF tick_handles[w] = {} THEN "top" ELSE "callback"]
  /\ calling' = [calling EXCEPT ![w] = tick_handles[w]]

\* The job returns; the loop pops the next one or its time is used up.
FinishJob(w) ==
  /\ pc[w] = "job"
  /\ done' = done \cup {held[w]}
  /\ held' = [held EXCEPT ![w] = None]
  /\ \/ pc' = [pc EXCEPT ![w] = "tick"] /\ UNCHANGED calling
     \/ BeginCallbacks(w)
  /\ UNCHANGED <<private_jobs, tick_handles, stalled, accepted>>
  /\ UNCHANGED <<setVars, mainVars, callVars>>

NoMoreJobs(w) ==
  /\ pc[w] = "tick"
  /\ private_jobs[w] = {}
  /\ BeginCallbacks(w)
  /\ UNCHANGED <<private_jobs, held, tick_handles, stalled>>
  /\ UNCHANGED <<setVars, mainVars, callVars, jobVars>>

EndCallbacks(w) ==
  /\ pc[w] = "callback"
  /\ pc' = [pc EXCEPT ![w] = "top"]
  /\ calling' = [calling EXCEPT ![w] = {}]
  /\ UNCHANGED <<private_jobs, held, tick_handles, stalled>>
  /\ UNCHANGED <<setVars, mainVars, callVars, jobVars>>

MarkExiting(w) ==
  /\ pc[w] = "leave"
  /\ pc' = [pc EXCEPT ![w] = "drain"]
  /\ UNCHANGED <<private_jobs, held, tick_handles, calling, stalled>>
  /\ UNCHANGED <<setVars, mainVars, callVars, jobVars>>

\* Slip: what try_pop returns is ignored.
DrainPopUnchecked(w) ==
  /\ pc[w] = "drain"
  /\ pc' = [pc EXCEPT ![w] = "move"]
  /\ UNCHANGED <<private_jobs, held, tick_handles, calling, stalled>>
  /\ UNCHANGED <<setVars, mainVars, callVars, jobVars>>

DrainPop(w) ==
  /\ pc[w] = "drain"
  /\ \E j \in private_jobs[w] :
       /\ private_jobs' = [private_jobs EXCEPT ![w] = @ \ {j}]
       /\ held' = [held EXCEPT ![w] = j]
  /\ pc' = [pc EXCEPT ![w] = "move"]
  /\ UNCHANGED <<tick_handles, calling, stalled>>
  /\ UNCHANGED <<setVars, mainVars, callVars, jobVars>>

\* Slip: the job is popped and not moved to shared_jobs.
DrainDrop(w) ==
  /\ pc[w] = "move"
  /\ held' = [held EXCEPT ![w] = None]
  /\ pc' = [pc EXCEPT ![w] = "drain"]
  /\ UNCHANGED <<private_jobs, tick_handles, calling, stalled>>
  /\ UNCHANGED <<setVars, mainVars, callVars, jobVars>>

DrainPush(w) ==
  /\ pc[w] = "move"
  /\ shared_jobs' = shared_jobs \cup {held[w]}
  /\ held' = [held EXCEPT ![w] = None]
  /\ pc' = [pc EXCEPT ![w] = "drain"]
  /\ UNCHANGED <<private_jobs, tick_handles, calling, stalled>>
  /\ UNCHANGED <<workers, worker_id, current_expect_workers, need_scaling_up,
                 closing, cleaning, scalings>>
  /\ UNCHANGED <<mainVars, callVars, jobVars>>

\* Slip: the thread exits without moving its jobs.
MarkExitedAtOnce(w) ==
  /\ pc[w] = "drain"
  /\ pc' = [pc EXCEPT ![w] = "exited"]
  /\ UNCHANGED <<private_jobs, held, tick_handles, calling, stalled>>
  /\ UNCHANGED <<setVars, mainVars, callVars, jobVars>>

MarkExited(w) ==
  /\ pc[w] = "drain"
  /\ private_jobs[w] = {}
  /\ pc' = [pc EXCEPT ![w] = "exited"]
  /\ UNCHANGED <<private_jobs, held, tick_handles, calling, stalled>>
  /\ UNCHANGED <<setVars, mainVars, callVars, jobVars>>

ThreadStep(w) ==
  \/ ThreadStart(w)
  \/ LoopTop(w)
  \/ PopJob(w)
  \/ FinishJob(w)
  \/ NoMoreJobs(w)
  \/ EndCallbacks(w)
  \/ MarkExiting(w)
  \/ DrainPop(w)
  \/ DrainPush(w)
  \/ MarkExited(w)

-----------------------------------------------------------------------------
(* Calls any thread may make. c is the calling thread; the main thread is  *)
(* not in the middle of tick, stop or cleanup when it calls.               *)

CallerIdle(c) == cpc[c] = "idle" /\ (c = Main => mpc = "idle")

\* rebalance_jobs holds worker_lock for as long as it moves jobs; every other
\* section under worker_lock is one step.
WorkerLockFree == mpc # "distribute"

\* The head of do_scaling_up: the caller that finds the flag clears it and
\* goes on to "scale", any other goes on at once.
TakeScalingFlag == need_scaling_up' = FALSE

\* Slip: the flag is cleared and no worker created.
AfterFlagNoScaling(next) == next

AfterFlag(next) == IF need_scaling_up THEN "scale" ELSE next

\* The rest of do_scaling_up: fresh workers f fill the vector.
FillVector ==
  LET size  == Len(workers)
      n     == IF size < current_expect_workers
               THEN current_expect_workers - size ELSE 0
      fresh == {w \in Workers : pc[w] = "none"}
  IN \E f \in [1..n -> fresh] :
       /\ \A i, j \in 1..n : f[i] = f[j] => i = j
       /\ workers' = [i \in 1..(size + n) |->
                        IF i <= size THEN workers[i] ELSE f[i - size]]
       /\ worker_id' = [w \in Workers |->
            IF \E i \in 1..n : f[i] = w
            THEN size + (CHOOSE i \in 1..n : f[i] = w) ELSE worker_id[w]]
       /\ pc' = [w \in Workers |->
            IF \E i \in 1..n : f[i] = w THEN "created" ELSE pc[w]]

EndCall(c) ==
  /\ cpc' = [cpc EXCEPT ![c] = "idle"]
  /\ cop' = [cop EXCEPT ![c] = "none"]
  /\ carg' = [carg EXCEPT ![c] = None]
  /\ ctarget' = [ctarget EXCEPT ![c] = 0]
  /\ csel' = [csel EXCEPT ![c] = None]

BeginCall(c, op, arg, id) ==
  /\ CallerIdle(c)
  /\ \A d \in Clients : carg[d] # arg
  /\ TakeScalingFlag
  /\ cpc' = [cpc EXCEPT ![c] = AfterFlag("select")]
  /\ cop' = [cop EXCEPT ![c] = op]
  /\ carg' = [carg EXCEPT ![c] = arg]
  /\ ctarget' = [ctarget EXCEPT ![c] = id]
  /\ UNCHANGED <<workers, worker_id, shared_jobs, current_expect_workers,
                 closing, cleaning, scalings>>
  /\ UNCHANGED <<csel, owner, specify_worker, removed>>
  /\ UNCHANGED <<threadVars, mainVars, jobVars>>

\* spawn(action) with id = 0, spawn(action, context) with the context's id.
SpawnBegin(c, j, id) ==
  /\ j \notin accepted
  /\ BeginCall(c, "spawn", j, id)

AddBegin(c, h, id) ==
  /\ owner[h] = None
  /\ id # 0
  /\ BeginCall(c, "add", h, id)

\* A removal addresses the worker by the id it had when the handle was made.
RemoveBegin(c, h) ==
  /\ owner[h] # None
  /\ BeginCall(c, "remove", h, specify_worker[h])

ScaleUp(c) ==
  /\ cpc[c] = "scale"
  /\ WorkerLockFree
  /\ FillVector
  /\ cpc' = [cpc EXCEPT ![c] = "select"]
  /\ UNCHANGED <<private_jobs, held, tick_handles, calling, stalled>>
  /\ UNCHANGED <<shared_jobs, current_expect_workers, need_scaling_up,
                 closing, cleaning, scalings>>
  /\ UNCHANGED <<cop, carg, ctarget, csel, owner, specify_worker, removed>>
  /\ UNCHANGED <<mainVars, jobVars>>

Selected(c, w) ==
  /\ csel' = [csel EXCEPT ![c] = w]
  /\ cpc' = [cpc EXCEPT ![c] = "apply"]
  /\ UNCHANGED <<cop, carg, ctarget>>

Selecting(c) ==
  /\ cpc[c] = "select"
  /\ WorkerLockFree
  /\ UNCHANGED <<owner, specify_worker, removed>>
  /\ UNCHANGED <<threadVars, setVars, mainVars, jobVars>>

\* What select_worker finds; spawn refuses a full queue (BUSY), and uses the
\* shared queue when there is no worker unless the pool is cleaned (CLOSED).
SpawnSelect(c) ==
  LET pool == IF ctarget[c] = 0 THEN LeastLoaded ELSE Addressed(ctarget[c])
      Full(w) == Cardinality(private_jobs[w]) >= QueueLimit
      toShared == pool = {} /\ ctarget[c] = 0 /\ ~cleaning
  IN /\ Selecting(c)
     /\ cop[c] = "spawn"
     /\ \/ \E w \in pool : ~Full(w) /\ Selected(c, w)
        \/ toShared /\ Selected(c, None)
        \/ (\E w \in pool : Full(w)) /\ EndCall(c)
        \/ pool = {} /\ ~toShared /\ EndCall(c)

\* emplace into the worker selected before, whatever has become of it since.
SpawnPush(c) ==
  /\ cpc[c] = "apply"
  /\ cop[c] = "spawn"
  /\ \/ /\ csel[c] # None
        /\ private_jobs' = [private_jobs EXCEPT ![csel[c]] = @ \cup {carg[c]}]
        /\ UNCHANGED shared_jobs
     \/ /\ csel[c] = None
        /\ shared_jobs' = shared_jobs \cup {carg[c]}
        /\ UNCHANGED private_jobs
  /\ accepted' = accepted \cup {carg[c]}
  /\ EndCall(c)
  /\ UNCHANGED <<pc, held, tick_handles, calling, stalled, done>>
  /\ UNCHANGED <<workers, worker_id, current_expect_workers, need_scaling_up,
                 closing, cleaning, scalings>>
  /\ UNCHANGED <<owner, specify_worker, removed, mainVars>>

\* No worker: nullptr or false. Another worker than the owner: false.
TickSelect(c) ==
  LET usable == {w \in Addressed(ctarget[c]) :
                   cop[c] = "remove" => owner[carg[c]] = w}
  IN /\ Selecting(c)
     /\ cop[c] \in {"add", "remove"}
     /\ \/ \E w \in usable : Selected(c, w)
        \/ usable = {} /\ EndCall(c)

\* Slip: the list of callbacks is changed without the lock.
TickLockIgnored(w) == TRUE

\* tick_handle_lock_ is free: the thread is not going through its callbacks.
TickLockFree(w) == pc[w] # "callback"

\* The handle keeps the context read before the lock was taken.
AddTick(c) ==
  LET h == carg[c]
      w == csel[c]
  IN /\ cpc[c] = "apply"
     /\ cop[c] = "add"
     /\ TickLockFree(w)
     /\ tick_handles' = [tick_handles EXCEPT ![w] = @ \cup {h}]
     /\ owner' = [owner EXCEPT ![h] = w]
     /\ specify_worker' = [specify_worker EXCEPT ![h] = ctarget[c]]
     /\ EndCall(c)
     /\ UNCHANGED <<pc, private_jobs, held, calling, stalled, removed>>
     /\ UNCHANGED <<setVars, mainVars, jobVars>>

\* True the first time; a handle removed before is not in the list any more
\* and a second removal changes nothing.
RemoveTick(c) ==
  LET h == carg[c]
      w == csel[c]
  IN /\ cpc[c] = "apply"
     /\ cop[c] = "remove"
     /\ TickLockFree(w)
     /\ tick_handles' = [tick_handles EXCEPT ![w] = @ \ {h}]
     /\ removed' = removed \cup {h}
     /\ EndCall(c)
     /\ UNCHANGED <<pc, private_jobs, held, calling, stalled>>
     /\ UNCHANGED <<owner, specify_worker>>
     /\ UNCHANGED <<setVars, mainVars, jobVars>>

CallStep(c) ==
  \/ ScaleUp(c)
  \/ SpawnSelect(c)
  \/ SpawnPush(c)
  \/ TickSelect(c)
  \/ AddTick(c)
  \/ RemoveTick(c)

-----------------------------------------------------------------------------
(* The main thread: tick, stop and cleanup as the app calls them.          *)

MainIdle == mpc = "idle" /\ cpc[Main] = "idle"

\* The tail of the vector goes while it is exited and above the limit.
ReduceTo(limit) ==
  \E n \in 0..Len(workers) :
    /\ \A i \in (n + 1)..Len(workers) : i > limit /\ IsExited(workers[i])
    /\ n > limit => ~IsExited(workers[n])
    /\ workers' = [i \in 1..n |-> workers[i]]
    /\ UNCHANGED worker_id

NeedAutofix == \E i \in 1..Len(workers) :
                 i <= current_expect_workers /\ IsExited(workers[i])

\* Slip: the workers that stay keep their old ids.
AutofixOldIds ==
  \/ /\ NeedAutofix
     /\ \E n \in 0..Len(workers) : \E f \in [1..n -> 1..Len(workers)] :
          /\ \A i, j \in 1..n : i < j => f[i] < f[j]
          /\ \A k \in 1..Len(workers) :
               ~IsExited(workers[k]) <=> \E i \in 1..n : f[i] = k
          /\ workers' = [i \in 1..n |-> workers[f[i]]]
          /\ UNCHANGED worker_id
  \/ /\ ~NeedAutofix
     /\ UNCHANGED <<workers, worker_id>>

\* Exited workers leave the vector wherever they are; the rest is numbered
\* from 1 again. f lists the positions that stay, in order.
Autofix ==
  \/ /\ NeedAutofix
     /\ \E n \in 0..Len(workers) : \E f \in [1..n -> 1..Len(workers)] :
          /\ \A i, j \in 1..n : i < j => f[i] < f[j]
          /\ \A k \in 1..Len(workers) :
               ~IsExited(workers[k]) <=> \E i \in 1..n : f[i] = k
          /\ workers' = [i \in 1..n |-> workers[f[i]]]
          /\ worker_id' = [w \in Workers |->
               IF \E i \in 1..n : workers[f[i]] = w
               THEN CHOOSE i \in 1..n : workers[f[i]] = w
               ELSE worker_id[w]]
  \/ /\ ~NeedAutofix
     /\ UNCHANGED <<workers, worker_id>>

\* The counts the two scaling rules of tick can arrive at: up to max_workers,
\* down to min_workers, or no change.
ScalingTargets ==
  {current_expect_workers}
    \cup {e \in 1..MaxWorkers : MayRaise /\ e > current_expect_workers}
    \cup {e \in MinWorkers..current_expect_workers : TRUE}

TickBegin ==
  /\ phase = "enabled"
  /\ MainIdle
  /\ \/ /\ closing
        /\ UNCHANGED <<current_expect_workers, need_scaling_up, scalings>>
     \/ /\ ~closing
        /\ \E e \in ScalingTargets :
             /\ current_expect_workers' = e
             /\ \/ /\ e = current_expect_workers
                   /\ UNCHANGED <<need_scaling_up, scalings>>
                \/ /\ e # current_expect_workers
                   /\ scalings < MaxScalings
                   /\ scalings' = scalings + 1
                   /\ need_scaling_up' = TRUE
  /\ mpc' = "reduce"
  /\ UNCHANGED <<workers, worker_id, shared_jobs, closing, cleaning>>
  /\ UNCHANGED <<phase, candidates, threadVars, callVars, jobVars>>

\* internal_reduce_workers, or internal_autofix_workers on a leak scan.
TickReduce ==
  /\ mpc = "reduce"
  /\ \/ ReduceTo(IF closing THEN 0 ELSE current_expect_workers)
     \/ ~closing /\ Autofix
  /\ mpc' = "rebalance"
  /\ UNCHANGED <<shared_jobs, current_expect_workers, need_scaling_up,
                 closing, cleaning, scalings>>
  /\ UNCHANGED <<phase, candidates, threadVars, callVars, jobVars>>

AfterRebalance == IF closing THEN "shared" ELSE "idle"

RebalanceBegin ==
  /\ mpc = "rebalance"
  /\ \/ /\ shared_jobs = {}
        /\ mpc' = AfterRebalance
        /\ UNCHANGED need_scaling_up
     \/ /\ shared_jobs # {}
        /\ mpc' = AfterFlag("gather")
        /\ TakeScalingFlag
  /\ UNCHANGED <<workers, worker_id, shared_jobs, current_expect_workers,
                 closing, cleaning, scalings>>
  /\ UNCHANGED <<phase, candidates, threadVars, callVars, jobVars>>

RebalanceScaleUp ==
  /\ mpc = "scale"
  /\ FillVector
  /\ mpc' = "gather"
  /\ UNCHANGED <<private_jobs, held, tick_handles, calling, stalled>>
  /\ UNCHANGED <<shared_jobs, current_expect_workers, need_scaling_up,
                 closing, cleaning, scalings>>
  /\ UNCHANGED <<phase, candidates, callVars, jobVars>>

\* Slip: no worker is ever gathered.
RebalanceGatherNone ==
  /\ mpc = "gather"
  /\ candidates' = {}
  /\ mpc' = AfterRebalance
  /\ UNCHANGED <<phase, threadVars, setVars, callVars, jobVars>>

RebalanceGather ==
  /\ mpc = "gather"
  /\ candidates' = Eligible
  /\ mpc' = IF Eligible = {} THEN AfterRebalance ELSE "distribute"
  /\ UNCHANGED <<phase, threadVars, setVars, callVars, jobVars>>

\* The map's keys are refreshed for the worker just served only, so any of
\* the gathered workers may come first.
RebalanceMove ==
  /\ mpc = "distribute"
  /\ \E j \in shared_jobs, w \in candidates :
       /\ shared_jobs' = shared_jobs \ {j}
       /\ private_jobs' = [private_jobs EXCEPT ![w] = @ \cup {j}]
  /\ UNCHANGED <<pc, held, tick_handles, calling, stalled>>
  /\ UNCHANGED <<workers, worker_id, current_expect_workers, need_scaling_up,
                 closing, cleaning, scalings>>
  /\ UNCHANGED <<mainVars, callVars, jobVars>>

RebalanceEnd ==
  /\ mpc = "distribute"
  /\ shared_jobs = {}
  /\ candidates' = {}
  /\ mpc' = AfterRebalance
  /\ UNCHANGED <<phase, threadVars, setVars, callVars, jobVars>>

\* Slip: the job is run and left in the queue.
SharedJobPeek ==
  /\ mpc = "shared"
  /\ \E j \in shared_jobs : done' = done \cup {j}
  /\ mpc' = "idle"
  /\ UNCHANGED <<phase, candidates, accepted, threadVars, setVars, callVars>>

\* do_shared_job_on_main_thread: until the queue is empty, or the time of
\* one tick is used up after some job.
SharedJob ==
  /\ mpc = "shared"
  /\ \E j \in shared_jobs :
       /\ shared_jobs' = shared_jobs \ {j}
       /\ done' = done \cup {j}
  /\ mpc' \in {"shared", "idle"}
  /\ UNCHANGED <<workers, worker_id, current_expect_workers, need_scaling_up,
                 closing, cleaning, scalings>>
  /\ UNCHANGED <<phase, candidates, accepted, threadVars, callVars>>

SharedEnd ==
  /\ mpc = "shared"
  /\ shared_jobs = {}
  /\ mpc' = "idle"
  /\ UNCHANGED <<phase, candidates, threadVars, setVars, callVars, jobVars>>

StopBegin ==
  /\ MayStop
  /\ phase = "enabled"
  /\ MainIdle
  /\ closing' = TRUE
  /\ current_expect_workers' = IF closing THEN current_expect_workers ELSE 0
  /\ mpc' = "check_workers"
  /\ UNCHANGED <<workers, worker_id, shared_jobs, need_scaling_up, cleaning,
                 scalings>>
  /\ UNCHANGED <<phase, candidates, threadVars, callVars, jobVars>>

\* Returns 1 while a worker that is not exiting has pending jobs.
StopCheckWorkers ==
  /\ mpc = "check_workers"
  /\ ReduceTo(0)
  /\ mpc' = IF \E w \in Workers : /\ InVector(w)
                                  /\ ~IsExiting(w)
                                  /\ private_jobs[w] # {}
            THEN "idle" ELSE "check_shared"
  /\ UNCHANGED <<shared_jobs, current_expect_workers, need_scaling_up,
                 closing, cleaning, scalings>>
  /\ UNCHANGED <<phase, candidates, threadVars, callVars, jobVars>>

\* Slip: stop() does not look at shared_jobs.
StopIgnoresShared ==
  /\ mpc = "check_shared"
  /\ mpc' = "idle"
  /\ phase' = "disabled"
  /\ UNCHANGED <<candidates, threadVars, setVars, callVars, jobVars>>

\* Returns 1 while a job is shared; on 0 the app disables the module.
StopCheckShared ==
  /\ mpc = "check_shared"
  /\ mpc' = "idle"
  /\ phase' = IF shared_jobs = {} THEN "disabled" ELSE phase
  /\ UNCHANGED <<candidates, threadVars, setVars, callVars, jobVars>>

\* app::run_ev_loop and init_failed_cleanup give up waiting: timeout() and
\* disable(). When init itself has timed out stop() is never called.
AppTimeout ==
  /\ closing \/ MayAbort
  /\ phase = "enabled"
  /\ MainIdle
  /\ phase' = "disabled"
  /\ UNCHANGED <<mpc, candidates, threadVars, setVars, callVars, jobVars>>

\* Slip: internal_cleanup does not set cleaning.
CleanupWithoutFlag ==
  /\ phase = "disabled"
  /\ MainIdle
  /\ closing' = TRUE
  /\ mpc' = "cleanup"
  /\ UNCHANGED <<workers, worker_id, shared_jobs, current_expect_workers,
                 need_scaling_up, cleaning, scalings>>
  /\ UNCHANGED <<phase, candidates, threadVars, callVars, jobVars>>

CleanupBegin ==
  /\ phase = "disabled"
  /\ MainIdle
  /\ closing' = TRUE
  /\ cleaning' = TRUE
  /\ mpc' = "cleanup"
  /\ UNCHANGED <<workers, worker_id, shared_jobs, current_expect_workers,
                 need_scaling_up, scalings>>
  /\ UNCHANGED <<phase, candidates, threadVars, callVars, jobVars>>

CleanupLoop ==
  /\ mpc = "cleanup"
  /\ ReduceTo(0)
  /\ \/ workers' # <<>> /\ UNCHANGED <<mpc, phase>>
     \/ workers' = <<>> /\ mpc' = "idle" /\ phase' = "cleaned"
  /\ UNCHANGED <<shared_jobs, current_expect_workers, need_scaling_up,
                 closing, cleaning, scalings>>
  /\ UNCHANGED <<candidates, threadVars, callVars, jobVars>>

MainStep ==
  \/ TickReduce
  \/ RebalanceBegin
  \/ RebalanceScaleUp
  \/ RebalanceGather
  \/ RebalanceMove
  \/ RebalanceEnd
  \/ SharedJob
  \/ SharedEnd
  \/ StopCheckWorkers
  \/ StopCheckShared
  \/ CleanupLoop

Next ==
  \/ \E w \in Workers : ThreadStep(w) \/ CreatedTooLong(w)
  \/ \E c \in Clients, id \in 0..MaxWorkers :
       \/ \E j \in Jobs : SpawnBegin(c, j, id)
       \/ \E h \in Handles : AddBegin(c, h, id)
  \/ \E c \in Clients, h \in Handles : RemoveBegin(c, h)
  \/ \E c \in Clients : CallStep(c)
  \/ TickBegin
  \/ MainStep
  \/ StopBegin
  \/ AppTimeout
  \/ CleanupBegin

Spec == Init /\ [][Next]_vars

\* Threads are scheduled and calls return. The app's loop ticks the module
\* and, once it is stopping, calls stop() again and again: neither waits for
\* the other, so each happens whenever it is possible infinitely often.
Fairness ==
  /\ \A w \in Workers : WF_vars(ThreadStep(w))
  /\ \A c \in Clients : SF_vars(CallStep(c))
  /\ WF_vars(MainStep)
  /\ SF_vars(TickBegin)
  /\ SF_vars(closing /\ StopBegin)
  /\ SF_vars(CleanupBegin)

FairSpec == Spec /\ Fairness

-----------------------------------------------------------------------------
(* Safety. *)

\* spawn() returned success: from then on the job is in a queue, in the hand
\* of a thread or done, through every move between private_jobs, a leaving
\* worker, shared_jobs and rebalance_jobs.
NoJobLost ==
  \A j \in accepted :
    \/ j \in done
    \/ j \in shared_jobs
    \/ \E w \in Workers : j \in private_jobs[w] \/ held[w] = j

\* A job is in one place only, so no two threads ever run it and none runs it
\* again: the pop and the push of a move never leave a second copy.
NoJobTwice ==
  /\ \A j \in shared_jobs :
       /\ j \notin done
       /\ \A w \in Workers : j \notin private_jobs[w] /\ held[w] # j
  /\ \A w \in Workers : \A j \in private_jobs[w] :
       /\ j \notin done
       /\ \A v \in Workers :
            held[v] # j /\ (v # w => j \notin private_jobs[v])
  /\ \A w \in Workers : held[w] # None =>
       /\ held[w] \notin done
       /\ \A v \in Workers : held[v] = held[w] => v = w

\* A worker thread that is gone leaves no job behind in its private queue,
\* which nobody would ever read again ("Move unfinished jobs into shared
\* jobs" in worker::start).
NoJobStranded ==
  \A w \in Workers : pc[w] = "exited" => private_jobs[w] = {}

\* Worker k of the vector has id k, which select_worker() and rebalance_jobs()
\* rely on when they stop at the first id above current_expect_workers; the
\* renumbering of internal_autofix_workers keeps it.
VectorNumbered ==
  \A i \in 1..Len(workers) : worker_id[workers[i]] = i

\* A caller chooses among as many workers as are expected: whoever changes
\* current_expect_workers or shortens the vector has do_scaling_up refill it
\* (the test basic_spawn expects except_count = current_worker_count).
SpawnFindsWorkers ==
  \A c \in Clients :
    cpc[c] = "select" => Len(workers) >= current_expect_workers

\* "If there are tick handle, can not exit": a thread with tick callbacks goes
\* only when the pool is cleaned up.
HandleKeepsWorker ==
  \A w \in Workers :
    tick_handles[w] # {} /\ ~cleaning =>
      pc[w] \notin {"leave", "drain", "move", "exited"}

\* Once remove_tick_callback() has returned true no thread is calling the
\* callback, nor will one: the owner of what it captured may free it.
RemovedNotCalled ==
  \A h \in removed, w \in Workers :
    h \notin calling[w] /\ h \notin tick_handles[w]

\* A tick callback that was added has a thread that calls it, and one that was
\* removed has none.
CallbacksSafe == HandleKeepsWorker /\ RemovedNotCalled

\* stop() returns 0, and the app never ticks the module again, only when every
\* unfinished job is being run or belongs to a worker that is on its way out.
StopLeavesNoWaitingJob ==
  [][mpc = "check_shared" /\ phase' = "disabled" =>
       \A j \in accepted \ done : \E w \in Workers :
         held[w] = j \/ (IsExiting(w) /\ j \in private_jobs[w])]_vars

-----------------------------------------------------------------------------
(* Liveness. *)

\* Every job spawn() has accepted is executed, unless the app stops first.
EveryJobRuns ==
  \A j \in Jobs : j \in accepted ~> j \in done \/ closing

\* Once stop() has been called, the module is eventually disabled: the app
\* does not wait for the pool forever.
StopEnds == closing ~> phase # "enabled"

\* cleanup() returns: every thread still in the vector exits.
CleanupEnds == mpc = "cleanup" ~> phase = "cleaned"

\* The pool lets the app close: stop() stops being called, cleanup() returns.
ShutdownEnds == StopEnds /\ CleanupEnds

-----------------------------------------------------------------------------
(* The pool implements JobPool: jobs wait in a queue or on the way from one *)
(* queue to another, and run in the hand of a worker thread.               *)

Waiting ==
  {j \in Jobs : \/ j \in shared_jobs
                \/ \E w \in Workers : j \in private_jobs[w]
                \/ \E w \in Workers : pc[w] = "move" /\ held[w] = j}

Running == {j \in Jobs : \E w \in Workers : pc[w] = "job" /\ held[w] = j}

Promise == INSTANCE JobPool
             WITH waiting <- Waiting, running <- Running, finished <- done

\* What every thread does to a job is a step JobPool allows.
ImplementsJobPool == Promise!PoolSpec

=============================================================================
