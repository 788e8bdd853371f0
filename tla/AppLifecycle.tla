---------------------------- MODULE AppLifecycle ----------------------------
(* The life of an app object (src/src/atframe/atapp.cpp): init() with its   *)
(* failure path, the event loop, stop(), closing, the destructor, and the   *)
(* callbacks the modules get meanwhile. One thread runs all of it; SIGTERM  *)
(* arrives between any two of its steps, timers and messages only inside    *)
(* uv_run.                                                                  *)
EXTENDS Integers

CONSTANTS
    NumModules,    \* modules are numbered in registration order
    SignalSlots,   \* length of pending_signals_ (32 in the code)
    MayPump,       \* some init() runs the libuv loop itself (etcd_module.cpp:183)
    MayNest,       \* some init() calls app::run_once() (atapp_setup_test.cpp:38)
    MayLosePid,    \* the pid file may be unwritable
    MayDestroy     \* the app object may be destroyed while it is running

ASSUME LifeAssumption ==
    /\ NumModules \in Nat \ {0}
    /\ SignalSlots \in Nat \ {0}
    /\ {MayPump, MayNest, MayLosePid, MayDestroy} \subseteq BOOLEAN

Modules == 1..NumModules

VARIABLES
    flags,        \* app::flags_
    setupFailed,  \* setup_result_ < 0
    pc,           \* where the thread is
    api,          \* the outermost call of the user's code: init, run or none
    caller,       \* who entered the event loop
    idx,          \* position of the loop over modules_
    endIdx,       \* init_failed_cleanup: modules 1..endIdx were reached
    failedIdx,    \* init_failed_mod_idx, 0 when no init() failed
    need,         \* init_failed_need_stop
    more,         \* more_event
    enabled,      \* module_impl::enabled_
    actived,      \* module_impl::actived_
    suspended,    \* a stop_suspend_callback is set
    timer,        \* tick_timer_.timeout_timer: none, armed, fired
    holdTimer,    \* hold_timeout_timer
    bus,          \* bus_node_: none, up, shutdown
    loopStop,     \* stop_flag of the libuv loop
    pending,      \* used entries of pending_signals_
    copied,       \* the copy process_signals works on
    stage         \* history: the last life cycle callback each module got

modVars == <<enabled, actived, suspended, stage>>
failVars == <<endIdx, failedIdx, need, more>>
timerVars == <<timer, holdTimer>>
sigVars == <<pending, copied>>
callVars == <<api, caller>>
vars == <<flags, setupFailed, pc, idx, bus, loopStop, modVars, failVars, timerVars,
          sigVars, callVars>>

Flags == {"Running", "Stoping", "Timeout", "Initialized", "Initializing", "Stopped",
          "Destroying"}
InitPCs == {"setup", "bus", "upstream", "reload", "initmod"}
FailPCs == {"fbegin", "fhead", "fstop", "ffailed", "ftimeout", "fown", "fclean"}
LoopPCs == {"loop", "signals", "clear", "handle", "check", "mstop", "mtimeout", "settle",
            "inner", "cleanup"}
PCs == {"user", "destroy", "unbind", "dead"} \cup InitPCs \cup FailPCs \cup LoopPCs
Callers == {"none", "run", "once", "pump", "nest", "failed", "destroy"}

Has(f) == f \in flags

Init ==
    /\ flags = {} /\ setupFailed = FALSE
    /\ pc = "user" /\ api = "none" /\ caller = "none"
    /\ idx = 0 /\ endIdx = 0 /\ failedIdx = 0 /\ need = FALSE /\ more = FALSE
    /\ enabled = [m \in Modules |-> TRUE]
    /\ actived = [m \in Modules |-> FALSE]
    /\ suspended \in [Modules -> BOOLEAN]
    /\ timer = "none" /\ holdTimer = FALSE
    /\ bus = "none" /\ loopStop = FALSE
    /\ pending = 0 /\ copied = 0
    /\ stage = [m \in Modules |-> "new"]

-----------------------------------------------------------------------------
(* app::stop(): a flag, and uv_stop once there is a bus node.               *)
StopApp == /\ flags' = flags \cup {"Stoping"}
           /\ loopStop' = (loopStop \/ bus # "none")

(* module_impl::disable() also deactivates.                                 *)
Disable(m) == /\ enabled' = [enabled EXCEPT ![m] = FALSE]
              /\ actived' = [actived EXCEPT ![m] = FALSE]

(* The history of a module; a second init() or cleanup() shows as "again".  *)
Reaches(m, s) ==
    stage' = [stage EXCEPT ![m] = IF s \in {"inited", "cleaned"} /\ stage[m] = s
                                  THEN "again" ELSE s]

(* check_suspend_stop() keeps the callback, or drops it (its answer was     *)
(* FALSE or its time is over) and lets stop() be called.                    *)
StaysSuspended(m) == suspended[m] /\ UNCHANGED modVars

(* module_impl::stop() answers 0 or less and is disabled ...                *)
StopDone(m) == /\ suspended' = [suspended EXCEPT ![m] = FALSE]
               /\ Disable(m)
               /\ Reaches(m, "stopped")

(* ... or more than 0, possibly after another suspend_stop().               *)
StopPending(m) == /\ \E b \in BOOLEAN : suspended' = [suspended EXCEPT ![m] = b]
                  /\ Reaches(m, "stopping")
                  /\ UNCHANGED <<enabled, actived>>

TimeoutModule(m) == /\ Disable(m)
                    /\ Reaches(m, "stopped")
                    /\ UNCHANGED suspended

CleanupModule(m) == Reaches(m, "cleaned") /\ UNCHANGED <<enabled, actived, suspended>>

-----------------------------------------------------------------------------
(* init()                                                                   *)

(* The guards that return init()'s timeout timer, and the initializing flag.*)
TimerAfterInitKept == timer
TimerAfterInit == IF holdTimer THEN "none" ELSE timer

(* init() returns an error, with or without recording it in setup_result_.  *)
InitReturns(recorded) ==
    /\ setupFailed' = recorded
    /\ flags' = flags \ {"Initializing"}
    /\ timer' = TimerAfterInit /\ holdTimer' = FALSE
    /\ pc' = "user" /\ api' = "none"

(* The user calls init() or run() on an app that has not been initialised.  *)
CallInit ==
    /\ pc = "user" /\ ~Has("Initialized") /\ ~Has("Stopped") /\ ~setupFailed
    /\ api' \in {"init", "run"}
    /\ flags' = flags \cup {"Initializing"}
    /\ pc' = "setup"
    /\ UNCHANGED <<setupFailed, caller, idx, bus, loopStop, modVars, failVars, timerVars, sigVars>>

(* Options, signals, configuration and the modules' setup(), in which a     *)
(* module may disable itself; then the timer that bounds initialisation.    *)
InitSetup ==
    /\ pc = "setup"
    /\ \/ /\ InitReturns(TRUE)
          /\ UNCHANGED <<caller, idx, bus, loopStop, modVars, failVars, sigVars>>
       \/ \E D \in SUBSET Modules :
          /\ enabled' = [m \in Modules |-> enabled[m] /\ m \notin D]
          /\ actived' = [m \in Modules |-> actived[m] /\ m \notin D]
          /\ timer' = IF timer = "none" THEN "armed" ELSE timer
          /\ holdTimer' = (timer = "none")
          /\ pc' = "bus"
          /\ UNCHANGED <<flags, setupFailed, callVars, idx, bus, loopStop, suspended, stage,
                         failVars, sigVars>>

(* Logs, the tick timer, the bus node and curl: any of them may fail, and   *)
(* with an upstream configured the bus first waits for it.                  *)
InitBus ==
    /\ pc = "bus"
    /\ \/ /\ InitReturns(TRUE) /\ bus' \in {"none", bus}
          /\ UNCHANGED <<caller, idx, loopStop, modVars, failVars, sigVars>>
       \/ /\ ~Has("Timeout")
          /\ bus' = "up" /\ pc' \in {"reload", "upstream"}
          /\ UNCHANGED <<flags, setupFailed, callVars, idx, loopStop, modVars, failVars,
                         timerVars, sigVars>>

(* The loop that waits for the upstream ends with it or at the timeout.     *)
UpstreamReady ==
    /\ pc = "upstream"
    /\ pc' = "reload" /\ loopStop' = FALSE
    /\ UNCHANGED <<flags, setupFailed, callVars, idx, bus, modVars, failVars, timerVars, sigVars>>

UpstreamTimeout ==
    /\ pc = "upstream" /\ Has("Timeout")
    /\ InitReturns(TRUE) /\ bus' = "none" /\ loopStop' = FALSE
    /\ UNCHANGED <<caller, idx, modVars, failVars, sigVars>>

(* The modules' first reload(); a failure leaves the bus node where it is.  *)
InitReload ==
    /\ pc = "reload"
    /\ \/ /\ InitReturns(TRUE)
          /\ UNCHANGED <<caller, idx, failVars>>
       \/ /\ ~Has("Timeout")
          /\ pc' = "initmod" /\ idx' = 1 /\ failedIdx' = 0
          /\ UNCHANGED <<flags, setupFailed, callVars, endIdx, need, more, timerVars>>
    /\ UNCHANGED <<bus, loopStop, modVars, sigVars>>

(* A module's init(), or the all-inited event, waits in the event loop.     *)
InitPump ==
    /\ pc = "initmod" /\ (idx \in Modules => enabled[idx])
    /\ \/ MayPump /\ caller' = "pump"
       \/ MayNest /\ caller' = "nest"
    /\ pc' = "loop"
    /\ UNCHANGED <<flags, setupFailed, api, idx, bus, loopStop, modVars, failVars, timerVars,
                   sigVars>>

(* modules_[idx]->init() fails: it and the modules before it are rolled     *)
(* back.                                                                    *)
InitModuleFails ==
    /\ pc = "initmod" /\ idx \in Modules /\ enabled[idx]
    /\ Reaches(idx, "failed")
    /\ failedIdx' = idx /\ endIdx' = idx - 1
    /\ pc' = "fbegin"
    /\ UNCHANGED <<flags, setupFailed, callVars, idx, bus, loopStop, enabled, actived, suspended,
                   need, more, timerVars, sigVars>>

(* It succeeds; when the time is over it still has to be rolled back, which *)
(* the code finds out from is_actived().                                    *)
LastInitedForgotten(m) == m - 1
LastInited(m) == m

InitModule ==
    /\ pc = "initmod" /\ idx \in Modules
    /\ IF enabled[idx]
       THEN /\ Reaches(idx, "inited")
            /\ actived' = [actived EXCEPT ![idx] = TRUE]
       ELSE UNCHANGED <<stage, actived>>
    /\ IF enabled[idx] /\ Has("Timeout")
       THEN pc' = "fbegin" /\ endIdx' = LastInited(idx) /\ UNCHANGED idx
       ELSE idx' = idx + 1 /\ UNCHANGED <<pc, endIdx>>
    /\ UNCHANGED <<flags, setupFailed, callVars, bus, loopStop, enabled, suspended, failedIdx,
                   need, more, timerVars, sigVars>>

(* The all-inited event took too long.                                      *)
AllInitedLate ==
    /\ pc = "initmod" /\ idx > NumModules /\ Has("Timeout")
    /\ endIdx' = NumModules /\ pc' = "fbegin"
    /\ UNCHANGED <<flags, setupFailed, callVars, idx, bus, loopStop, modVars, failedIdx, need,
                   more, timerVars, sigVars>>

(* Without a pid file init() returns; setup_result_ keeps its 0.            *)
PidFileFails ==
    /\ pc = "initmod" /\ idx > NumModules /\ ~Has("Timeout") /\ MayLosePid
    /\ InitReturns(FALSE)
    /\ UNCHANGED <<caller, idx, bus, loopStop, modVars, failVars, sigVars>>

(* Success: the flags, then ready() of every module, which may call stop(). *)
InitSucceeds ==
    /\ pc = "initmod" /\ idx > NumModules /\ ~Has("Timeout")
    /\ \E stops \in BOOLEAN :
       /\ flags' = (flags \ {"Stopped", "Stoping", "Initializing"})
                      \cup {"Initialized", "Running"}
                      \cup (IF stops THEN {"Stoping"} ELSE {})
       /\ loopStop' = (loopStop \/ (stops /\ bus # "none"))
    /\ timer' = TimerAfterInit /\ holdTimer' = FALSE
    /\ IF api = "run" THEN pc' = "loop" /\ caller' = "run" /\ UNCHANGED api
                      ELSE pc' = "user" /\ api' = "none" /\ UNCHANGED caller
    /\ UNCHANGED <<setupFailed, idx, bus, modVars, failVars, sigVars>>

-----------------------------------------------------------------------------
(* init_failed_cleanup()                                                    *)

FailedBegin ==
    /\ pc = "fbegin"
    /\ StopApp
    /\ need' = (failedIdx # 0)
    /\ pc' = "fhead"
    /\ UNCHANGED <<setupFailed, callVars, idx, bus, modVars, endIdx, failedIdx, more, timerVars,
                   sigVars>>

(* while (!check_flag(kTimeout))                                            *)
FailedHeadNoTimeout ==
    /\ pc = "fhead" /\ idx' = 1 /\ more' = FALSE
    /\ pc' = "fstop"
    /\ UNCHANGED <<flags, setupFailed, callVars, bus, loopStop, modVars, endIdx, failedIdx, need,
                   timerVars, sigVars>>

FailedHead ==
    /\ pc = "fhead" /\ idx' = 1 /\ more' = FALSE
    /\ pc' = IF Has("Timeout") THEN "ftimeout" ELSE "fstop"
    /\ UNCHANGED <<flags, setupFailed, callVars, bus, loopStop, modVars, endIdx, failedIdx, need,
                   timerVars, sigVars>>

(* stop_inited_modules: one module.                                         *)
FailedStopForgets ==
    /\ pc = "fstop" /\ idx <= endIdx
    /\ \/ ~enabled[idx] /\ UNCHANGED <<modVars, more>>
       \/ enabled[idx] /\ StaysSuspended(idx) /\ ~Has("Timeout") /\ more' = TRUE
       \/ enabled[idx] /\ StopDone(idx) /\ UNCHANGED more
       \/ enabled[idx] /\ StopPending(idx) /\ UNCHANGED more
    /\ idx' = idx + 1
    /\ UNCHANGED <<flags, setupFailed, pc, callVars, bus, loopStop, endIdx, failedIdx, need,
                   timerVars, sigVars>>

FailedStop ==
    /\ pc = "fstop" /\ idx <= endIdx
    /\ \/ ~enabled[idx] /\ UNCHANGED <<modVars, more>>
       \/ enabled[idx] /\ StaysSuspended(idx) /\ ~Has("Timeout") /\ more' = TRUE
       \/ enabled[idx] /\ StopDone(idx) /\ UNCHANGED more
       \/ enabled[idx] /\ StopPending(idx) /\ more' = TRUE
    /\ idx' = idx + 1
    /\ UNCHANGED <<flags, setupFailed, pc, callVars, bus, loopStop, endIdx, failedIdx, need,
                   timerVars, sigVars>>

FailedStopEnd ==
    /\ pc = "fstop" /\ idx > endIdx
    /\ pc' = "ffailed"
    /\ UNCHANGED <<flags, setupFailed, callVars, idx, bus, loopStop, modVars, failVars, timerVars,
                   sigVars>>

(* init_failed_stop() of the module that failed, then either all is done or *)
(* the loop runs once without stopping modules.                             *)
FailedOwnStop ==
    /\ pc = "ffailed"
    /\ \E busy \in BOOLEAN :
       /\ busy => need
       /\ need' = busy
       /\ more' = (more \/ busy)
       /\ IF more \/ busy
          THEN pc' = "loop" /\ caller' = "failed" /\ UNCHANGED idx
          ELSE pc' = "ftimeout" /\ idx' = 1 /\ UNCHANGED caller
    /\ UNCHANGED <<flags, setupFailed, api, bus, loopStop, modVars, endIdx, failedIdx, timerVars,
                   sigVars>>

FailedTimeout ==
    /\ pc = "ftimeout" /\ idx <= endIdx
    /\ IF Has("Timeout") /\ enabled[idx] THEN TimeoutModule(idx) ELSE UNCHANGED modVars
    /\ idx' = idx + 1
    /\ UNCHANGED <<flags, setupFailed, pc, callVars, bus, loopStop, failVars, timerVars, sigVars>>

(* init_failed_timeout() when it is still needed, and init_failed_cleanup().*)
FailedOwnCleanup ==
    /\ pc = "ftimeout" /\ idx > endIdx
    /\ IF failedIdx # 0 THEN Reaches(failedIdx, "released") ELSE UNCHANGED stage
    /\ pc' = "fclean" /\ idx' = endIdx
    /\ UNCHANGED <<flags, setupFailed, callVars, bus, loopStop, enabled, actived, suspended,
                   failVars, timerVars, sigVars>>

FailedCleanup ==
    /\ pc = "fclean" /\ idx > 0
    /\ CleanupModule(idx)
    /\ idx' = idx - 1
    /\ UNCHANGED <<flags, setupFailed, pc, callVars, bus, loopStop, failVars, timerVars, sigVars>>

FailedEnd ==
    /\ pc = "fclean" /\ idx = 0
    /\ InitReturns(TRUE)
    /\ UNCHANGED <<caller, idx, bus, loopStop, modVars, failVars, sigVars>>

-----------------------------------------------------------------------------
(* The event loop: run(), run_once(), run_inner(), run_ev_loop()            *)

CallRun ==
    /\ pc = "user" /\ Has("Initialized")
    /\ \/ ~setupFailed /\ ~Has("Stopped") /\ caller' = "run"
       \/ caller' = "once"
    /\ api' = caller' /\ pc' = "loop"
    /\ UNCHANGED <<flags, setupFailed, idx, bus, loopStop, modVars, failVars, timerVars, sigVars>>

InLoop == pc \in {"loop", "upstream"}

(* The timeout timer fires once: kTimeout, and the loop is left.            *)
TimeoutFires ==
    /\ InLoop /\ timer = "armed"
    /\ timer' = "fired"
    /\ flags' = flags \cup {"Timeout"} /\ loopStop' = TRUE
    /\ UNCHANGED <<setupFailed, pc, callVars, idx, bus, modVars, failVars, holdTimer, sigVars>>

(* tick() leaves the loop: every stop_interval when stopping, at the break  *)
(* point of run_once, and once a minute.                                    *)
TickBreaks ==
    /\ InLoop
    /\ loopStop' = TRUE
    /\ UNCHANGED <<flags, setupFailed, pc, callVars, idx, bus, modVars, failVars, timerVars,
                   sigVars>>

(* A stop command, the shutdown of the bus or a module's tick() calls       *)
(* stop().                                                                  *)
EventStops ==
    /\ InLoop /\ bus = "up"
    /\ StopApp
    /\ UNCHANGED <<setupFailed, pc, callVars, idx, bus, modVars, failVars, timerVars, sigVars>>

(* uv_run returns: in run() only because of uv_stop.                        *)
LeaveLoop ==
    /\ pc = "loop" /\ (loopStop \/ caller # "run")
    /\ loopStop' = FALSE
    /\ pc' = IF caller = "pump" THEN "initmod" ELSE "signals"
    /\ UNCHANGED <<flags, setupFailed, callVars, idx, bus, modVars, failVars, timerVars, sigVars>>

(* The signal handler: the first free entry, and uv_stop.                   *)
SigTerm ==
    /\ flags \cap {"Initializing", "Initialized"} # {} /\ pc # "setup"
    /\ pending' = IF pending < SignalSlots THEN pending + 1 ELSE pending
    /\ loopStop' = TRUE
    /\ UNCHANGED <<flags, setupFailed, pc, callVars, idx, bus, modVars, failVars, timerVars, copied>>

AfterSignals == IF caller = "failed" THEN "fhead" ELSE "check"

(* process_signals: memcpy, memset, then each entry of the copy.            *)
CopySignalsLate ==
    /\ pc = "signals"
    /\ copied' = 0 /\ pending' = 0
    /\ pc' = IF pending = 0 THEN AfterSignals ELSE "clear"
    /\ UNCHANGED <<flags, setupFailed, callVars, idx, bus, loopStop, modVars, failVars, timerVars>>

CopySignals ==
    /\ pc = "signals"
    /\ copied' = pending
    /\ pc' = IF pending = 0 THEN AfterSignals ELSE "clear"
    /\ UNCHANGED <<flags, setupFailed, callVars, idx, bus, loopStop, modVars, failVars, timerVars,
                   pending>>

ClearSignals ==
    /\ pc = "clear"
    /\ pending' = 0 /\ pc' = "handle"
    /\ UNCHANGED <<flags, setupFailed, callVars, idx, bus, loopStop, modVars, failVars, timerVars,
                   copied>>

HandleSignals ==
    /\ pc = "handle"
    /\ IF copied > 0 THEN StopApp ELSE UNCHANGED <<flags, loopStop>>
    /\ copied' = 0 /\ pc' = AfterSignals
    /\ UNCHANGED <<setupFailed, callVars, idx, bus, modVars, failVars, timerVars, pending>>

(* When stopping, the app counts as closed until a module objects.          *)
CheckStop ==
    /\ pc = "check"
    /\ IF Has("Stoping")
       THEN /\ flags' = flags \cup {"Stopped"} /\ idx' = 1
            /\ pc' = IF Has("Timeout") THEN "mtimeout" ELSE "mstop"
       ELSE pc' = "inner" /\ UNCHANGED <<flags, idx>>
    /\ UNCHANGED <<setupFailed, callVars, bus, loopStop, modVars, failVars, timerVars, sigVars>>

StopModule ==
    /\ pc = "mstop" /\ idx \in Modules
    /\ \/ ~enabled[idx] /\ UNCHANGED <<modVars, flags>>
       \/ enabled[idx] /\ StaysSuspended(idx) /\ flags' = flags \ {"Stopped"}
       \/ enabled[idx] /\ StopDone(idx) /\ UNCHANGED flags
       \/ enabled[idx] /\ StopPending(idx) /\ flags' = flags \ {"Stopped"}
    /\ idx' = idx + 1
    /\ UNCHANGED <<setupFailed, pc, callVars, bus, loopStop, failVars, timerVars, sigVars>>

StopModulesEnd ==
    /\ pc = "mstop" /\ idx > NumModules
    /\ timer' = IF timer = "none" THEN "armed" ELSE timer
    /\ pc' = "settle"
    /\ UNCHANGED <<flags, setupFailed, callVars, idx, bus, loopStop, modVars, failVars, holdTimer,
                   sigVars>>

TimeoutModules ==
    /\ pc = "mtimeout"
    /\ IF idx \in Modules
       THEN /\ IF enabled[idx] THEN TimeoutModule(idx) ELSE UNCHANGED modVars
            /\ idx' = idx + 1 /\ UNCHANGED pc
       ELSE pc' = "settle" /\ UNCHANGED <<modVars, idx>>
    /\ UNCHANGED <<flags, setupFailed, callVars, bus, loopStop, failVars, timerVars, sigVars>>

(* The bus is shut down last; its shutdown callback calls stop() again.     *)
Settle ==
    /\ pc = "settle" /\ pc' = "inner"
    /\ IF Has("Stopped") /\ bus = "up" THEN bus' = "shutdown" /\ StopApp
                                       ELSE UNCHANGED <<bus, flags, loopStop>>
    /\ UNCHANGED <<setupFailed, callVars, idx, modVars, failVars, timerVars, sigVars>>

(* Where run_inner returns to.                                              *)
InnerReturns ==
    /\ pc' = CASE caller = "run" -> IF Has("Stopped") THEN "user" ELSE "loop"
               [] caller = "nest" -> "initmod"
               [] caller = "destroy" -> "destroy"
               [] OTHER -> "user"
    /\ api' = IF caller \in {"run", "once"} /\ pc' = "user" THEN "none" ELSE api

(* A closed app that was initialised is cleaned up, otherwise run_inner     *)
(* returns.                                                                 *)
InnerEnd ==
    /\ pc = "inner"
    /\ IF Has("Stopped") /\ Has("Initialized")
       THEN /\ timer' = "none" /\ pc' = "cleanup" /\ idx' = NumModules
            /\ UNCHANGED api
       ELSE InnerReturns /\ UNCHANGED <<timer, idx>>
    /\ UNCHANGED <<flags, setupFailed, caller, bus, loopStop, modVars, failVars, holdTimer, sigVars>>

CloseModule ==
    /\ pc = "cleanup" /\ idx > 0
    /\ CleanupModule(idx) /\ idx' = idx - 1
    /\ UNCHANGED <<flags, setupFailed, pc, callVars, bus, loopStop, failVars, timerVars, sigVars>>

CloseApp ==
    /\ pc = "cleanup" /\ idx = 0
    /\ flags' = flags \ {"Initialized", "Running"}
    /\ InnerReturns
    /\ UNCHANGED <<setupFailed, caller, idx, bus, loopStop, modVars, failVars, timerVars, sigVars>>

(* The user's code may ask for a stop itself.                               *)
CallStop ==
    /\ pc = "user" /\ Has("Initialized")
    /\ StopApp
    /\ UNCHANGED <<setupFailed, pc, callVars, idx, bus, modVars, failVars, timerVars, sigVars>>

-----------------------------------------------------------------------------
(* ~app()                                                                   *)

CallDestroy ==
    /\ pc = "user" /\ MayDestroy
    /\ IF Has("Initialized") /\ ~Has("Stopped")
       THEN /\ pc' = "loop" /\ caller' = "destroy"
            /\ flags' = flags \cup {"Destroying", "Stoping"}
            /\ loopStop' = (loopStop \/ (~Has("Stoping") /\ bus # "none"))
       ELSE /\ pc' = "unbind" /\ flags' = flags \cup {"Destroying"}
            /\ UNCHANGED <<loopStop, caller>>
    /\ UNCHANGED <<setupFailed, api, idx, bus, modVars, failVars, timerVars, sigVars>>

(* while (!is_closed() && timeout > now) run_once(...), after the first     *)
(* round: go on while the deadline has not passed.                          *)
DestroyLoop ==
    /\ pc = "destroy"
    /\ \/ ~Has("Stopped") /\ pc' = "loop" /\ caller' = "destroy"
       \/ pc' = "unbind" /\ UNCHANGED caller
    /\ UNCHANGED <<flags, setupFailed, api, idx, bus, loopStop, modVars, failVars, timerVars,
                   sigVars>>

Unbind ==
    /\ pc = "unbind" /\ pc' = "dead"
    /\ actived' = [m \in Modules |-> FALSE]
    /\ bus' = "none" /\ timer' = "none"
    /\ UNCHANGED <<flags, setupFailed, callVars, idx, loopStop, enabled, suspended, stage,
                   failVars, holdTimer, sigVars>>

-----------------------------------------------------------------------------
InitSteps == \/ InitSetup \/ InitBus \/ InitReload \/ InitModuleFails \/ InitModule
             \/ AllInitedLate \/ PidFileFails \/ InitSucceeds \/ UpstreamTimeout
FailSteps == \/ FailedBegin \/ FailedHead \/ FailedStop \/ FailedStopEnd \/ FailedOwnStop
             \/ FailedTimeout \/ FailedOwnCleanup \/ FailedCleanup \/ FailedEnd
LoopSteps == \/ LeaveLoop \/ CopySignals \/ ClearSignals \/ HandleSignals \/ CheckStop
             \/ StopModule \/ StopModulesEnd \/ TimeoutModules \/ Settle \/ InnerEnd
             \/ CloseModule \/ CloseApp
DestroySteps == DestroyLoop \/ Unbind
UserSteps == CallInit \/ CallRun \/ CallStop \/ CallDestroy
Environment == UpstreamReady \/ InitPump \/ TimeoutFires \/ TickBreaks \/ EventStops \/ SigTerm

Next == InitSteps \/ FailSteps \/ LoopSteps \/ DestroySteps \/ UserSteps \/ Environment

Spec == Init /\ [][Next]_vars

(* The thread goes on, and an init() that waits in the event loop returns   *)
(* one day; a due timer fires in a pass of the loop, and there are passes   *)
(* for as long as somebody runs the app.                                    *)
Fairness == /\ WF_vars(FailSteps \/ LoopSteps)
            /\ SF_vars(InitSteps)
            /\ WF_vars(CallRun)
            /\ SF_vars(TimeoutFires)
            /\ SF_vars(TickBreaks)

FairSpec == Spec /\ Fairness

-----------------------------------------------------------------------------
Stages == {"new", "inited", "stopping", "stopped", "cleaned", "failed", "released", "again"}

(* Every variable keeps its type; the loops over modules_ stay in range.    *)
TypeOK ==
    /\ flags \subseteq Flags /\ setupFailed \in BOOLEAN
    /\ pc \in PCs /\ api \in {"none", "init", "run", "once"} /\ caller \in Callers
    /\ idx \in 0..NumModules + 1
    /\ endIdx \in 0..NumModules /\ failedIdx \in 0..NumModules
    /\ need \in BOOLEAN /\ more \in BOOLEAN
    /\ enabled \in [Modules -> BOOLEAN] /\ actived \in [Modules -> BOOLEAN]
    /\ suspended \in [Modules -> BOOLEAN]
    /\ timer \in {"none", "armed", "fired"} /\ holdTimer \in BOOLEAN
    /\ bus \in {"none", "up", "shutdown"} /\ loopStop \in BOOLEAN
    /\ pending \in 0..SignalSlots /\ copied \in 0..SignalSlots
    /\ stage \in [Modules -> Stages]

(* What atapp_module_impl.h promises every module about the order of its    *)
(* callbacks holds for init(), its failure path, stop() and the timeouts.   *)
Contract == INSTANCE ModuleContract
KeepsContract == Contract!ContractSpec

Unclean == {"inited", "stopping", "stopped"}

(* When the user's code has control and the app is not initialised, no      *)
(* module is left between init() and cleanup(): init() rolled back what it  *)
(* had done, and closing reached every module.                              *)
NothingLeftBehind ==
    pc = "user" /\ ~Has("Initialized") => \A m \in Modules : stage[m] \notin Unclean

(* An initialised app has kTimeout only while it is stopping: the timer of  *)
(* init() never fires in the running app, where it would turn the next      *)
(* stop() into a forced one.                                                *)
TimeoutOnlyWhenStopping ==
    Has("Initialized") /\ Has("Timeout") => Has("Stoping")

(* The state is well formed, the loops over modules_ stay in range and the  *)
(* flags of an initialised app fit together.                                *)
FlagsConsistent == TypeOK /\ TimeoutOnlyWhenStopping

(* A stopping app closes, even when a module never finishes its stop(); so  *)
(* does one with a SIGTERM pending, however many arrive while the array is  *)
(* copied and cleared.                                                      *)
StopCloses == (Has("Stoping") \/ pending > 0) /\ Has("Initialized") ~> ~Has("Initialized")

(* init() returns, even when the upstream never answers or a module never   *)
(* finishes its stop().                                                     *)
InitEnds == Has("Initializing") ~> ~Has("Initializing")
=============================================================================
