--------------------------- MODULE ModuleContract ---------------------------
(* What an application module may rely on (the comments of                  *)
(* include/atframe/atapp_module_impl.h): the order in which the app calls   *)
(* its callbacks, whatever fails, times out or is asked to stop meanwhile.  *)
EXTENDS Integers

CONSTANT Modules

VARIABLE stage

(* new: no callback that needs init(); inited: init() succeeded; stopping:  *)
(* stop() answered "not yet"; stopped: stop() or timeout() was the last     *)
(* one; failed: init() failed; released: init_failed_cleanup() was called;  *)
(* cleaned: cleanup() was called; again: init() or cleanup() called twice.  *)
Stages == {"new", "inited", "stopping", "stopped", "cleaned", "failed", "released", "again"}

(* No module is between a successful init() and its last stop().            *)
AllStopped == \A m \in Modules : stage[m] \notin {"inited", "stopping"}

ContractInit == stage = [m \in Modules |-> "new"]

Initialize(m) ==
    /\ stage[m] = "new"
    /\ \E s \in {"inited", "failed"} : stage' = [stage EXCEPT ![m] = s]

(* stop() may be called more than once; timeout() ends it at once.          *)
StopCall(m) ==
    /\ stage[m] \in {"inited", "stopping"}
    /\ \E s \in {"stopping", "stopped"} : stage' = [stage EXCEPT ![m] = s]

(* cleanup() comes once, after all modules have stopped. A module that was  *)
(* never initialised (disabled by its own setup()) also gets it.            *)
CleanupCall(m) ==
    /\ AllStopped
    /\ stage[m] \in {"stopped", "new"}
    /\ stage' = [stage EXCEPT ![m] = "cleaned"]

(* A module whose init() failed gets init_failed_cleanup() instead.         *)
ReleaseFailed(m) ==
    /\ AllStopped
    /\ stage[m] = "failed"
    /\ stage' = [stage EXCEPT ![m] = "released"]

ContractNext == \E m \in Modules : \/ Initialize(m)
                                   \/ StopCall(m)
                                   \/ CleanupCall(m)
                                   \/ ReleaseFailed(m)

ContractSpec == ContractInit /\ [][ContractNext]_stage
=============================================================================
