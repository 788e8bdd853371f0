------------------------ MODULE AppLifecycleProofs --------------------------
(***************************************************************************)
(* Proofs about AppLifecycle for any number of modules and signal slots:   *)
(* types and flags in every scenario, the contract with the modules and    *)
(* what init() leaves behind in the scenarios of OrderlyInit.              *)
(***************************************************************************)
EXTENDS AppLifecycle, TLAPS

\* The thread is inside init(), which may have entered the event loop.
InInit == \/ pc \in InitPCs \cup FailPCs
          \/ pc \in LoopPCs /\ caller \in {"pump", "nest", "failed"}

\* What is known from where the thread is: an app is not initialised inside
\* init(), and is initialised while somebody runs it.
PlaceInv ==
  /\ InInit => ~Has("Initialized")
  /\ pc \in LoopPCs => caller # "none"
  /\ pc \in LoopPCs /\ caller = "pump" => pc = "loop"
  /\ pc \in LoopPCs /\ caller = "failed" => pc \in {"loop", "signals", "clear", "handle"}
  /\ pc \in LoopPCs /\ caller \in {"run", "once", "destroy"} => Has("Initialized")
  /\ pc = "cleanup" => Has("Initialized") /\ Has("Stopped")
  /\ pc = "destroy" => Has("Initialized") \/ Has("Stopped")
  /\ pc = "mstop" => Has("Stoping")

\* An app whose init() may be called, or was called and failed to write the pid
\* file.
Untouched == pc = "user" /\ ~Has("Initialized") /\ ~Has("Stopped") /\ ~setupFailed

\* The timer: init() starts without one, so that it always holds the one it
\* arms and takes it away when it succeeds.
TimerInv ==
  /\ Untouched \/ pc = "setup" => timer = "none"
  /\ InInit /\ pc # "setup" => holdTimer
  /\ Has("Initialized") /\ timer = "armed" => Has("Stoping")

FlagsFit == PlaceInv /\ TimerInv /\ TimeoutOnlyWhenStopping

FlagInv == TypeOK /\ FlagsFit

-----------------------------------------------------------------------------
(* Types. *)

\* The types of what a callback of a module may change.
ModTypes ==
  /\ enabled \in [Modules -> BOOLEAN] /\ actived \in [Modules -> BOOLEAN]
  /\ suspended \in [Modules -> BOOLEAN] /\ stage \in [Modules -> Stages]

LEMMA ModuleCallTypes ==
  ASSUME ModTypes, NEW m,
         \/ StopDone(m) \/ StopPending(m) \/ TimeoutModule(m) \/ CleanupModule(m)
         \/ StaysSuspended(m) \/ UNCHANGED modVars
  PROVE  ModTypes'
<1> USE DEF ModTypes, Disable, Reaches, Stages
<1>1. CASE StopDone(m) BY <1>1 DEF StopDone
<1>2. CASE StopPending(m)
  <2>1. suspended' \in [Modules -> BOOLEAN] BY <1>2 DEF StopPending
  <2>2. UNCHANGED <<enabled, actived>> /\ Reaches(m, "stopping")
    BY <1>2 DEF StopPending
  <2> QED BY <2>1, <2>2
<1>3. CASE TimeoutModule(m) BY <1>3 DEF TimeoutModule
<1>4. CASE CleanupModule(m) BY <1>4 DEF CleanupModule
<1>5. CASE UNCHANGED modVars BY <1>5 DEF modVars
<1> QED BY <1>1, <1>2, <1>3, <1>4, <1>5, Zenon DEF StaysSuspended

LEMMA InitTypeOK == ASSUME Init PROVE TypeOK
<1>1. /\ NumModules \in Nat /\ 0 \in 0..NumModules /\ 0 \in 0..NumModules + 1
      /\ 0 \in 0..SignalSlots
  BY LifeAssumption
<1>2. enabled \in [Modules -> BOOLEAN] /\ actived \in [Modules -> BOOLEAN]
  BY DEF Init
<1>3. stage \in [Modules -> Stages] BY DEF Init, Stages
<1> QED BY <1>1, <1>2, <1>3 DEF Init, TypeOK, PCs, Callers

LEMMA InitStepsTypeOK == ASSUME TypeOK, InitSteps PROVE TypeOK'
<1> USE LifeAssumption DEF TypeOK, PCs, InitPCs, FailPCs, LoopPCs, Callers, Flags,
    Modules, Has, failVars, timerVars, sigVars, callVars
<1>1. CASE InitSetup
  <2>1. CASE /\ InitReturns(TRUE)
             /\ UNCHANGED <<caller, idx, bus, loopStop, modVars, failVars, sigVars>>
    BY <2>1 DEF InitReturns, TimerAfterInit, modVars, Stages
  <2>2. ASSUME NEW D \in SUBSET Modules,
               enabled' = [m \in Modules |-> enabled[m] /\ m \notin D],
               actived' = [m \in Modules |-> actived[m] /\ m \notin D],
               timer' = IF timer = "none" THEN "armed" ELSE timer,
               holdTimer' = (timer = "none"), pc' = "bus",
               UNCHANGED <<flags, setupFailed, callVars, idx, bus, loopStop, suspended,
                           stage, failVars, sigVars>>
        PROVE  TypeOK'
    <3>1. /\ enabled' \in [Modules -> BOOLEAN] /\ actived' \in [Modules -> BOOLEAN]
          /\ holdTimer' \in BOOLEAN
      BY <2>2
    <3>2. timer' \in {"none", "armed", "fired"} BY <2>2
    <3> QED BY <2>2, <3>1, <3>2
  <2> QED BY <1>1, <2>1, <2>2, Zenon DEF InitSetup
<1>2. CASE InitBus
  <2>1. CASE /\ InitReturns(TRUE) /\ bus' \in {"none", bus}
             /\ UNCHANGED <<caller, idx, loopStop, modVars, failVars, sigVars>>
    BY <2>1 DEF InitReturns, TimerAfterInit, modVars, Stages
  <2>2. CASE /\ bus' = "up" /\ pc' \in {"reload", "upstream"}
             /\ UNCHANGED <<flags, setupFailed, callVars, idx, loopStop, modVars, failVars,
                            timerVars, sigVars>>
    BY <2>2 DEF modVars, Stages
  <2> QED BY <1>2, <2>1, <2>2, Zenon DEF InitBus
<1>3. CASE InitReload
  <2>1. UNCHANGED <<bus, loopStop, modVars, sigVars>> BY <1>3 DEF InitReload
  <2>2. CASE InitReturns(TRUE) /\ UNCHANGED <<caller, idx, failVars>>
    BY <2>1, <2>2 DEF InitReturns, TimerAfterInit, modVars, Stages
  <2>3. CASE /\ pc' = "initmod" /\ idx' = 1 /\ failedIdx' = 0
             /\ UNCHANGED <<flags, setupFailed, callVars, endIdx, need, more, timerVars>>
    BY <2>1, <2>3 DEF modVars, Stages
  <2> QED BY <1>3, <2>2, <2>3, Zenon DEF InitReload
<1>4. CASE InitModuleFails
  BY <1>4 DEF InitModuleFails, Reaches, modVars, Stages
<1>5. CASE InitModule
  <2>1. stage' \in [Modules -> Stages] /\ actived' \in [Modules -> BOOLEAN]
    BY <1>5 DEF InitModule, Reaches, Stages
  <2>2. pc' \in PCs BY <1>5 DEF InitModule
  <2>3. idx' \in 0..NumModules + 1 /\ endIdx' \in 0..NumModules
    BY <1>5 DEF InitModule, LastInited
  <2>4. UNCHANGED <<flags, setupFailed, callVars, bus, loopStop, enabled,
        suspended, failedIdx, need, more, timerVars, sigVars>>
    BY <1>5 DEF InitModule
  <2> QED BY <2>1, <2>2, <2>3, <2>4
<1>6. CASE AllInitedLate BY <1>6 DEF AllInitedLate, modVars, Stages
<1>7. CASE PidFileFails
  BY <1>7 DEF PidFileFails, TimerAfterInit, InitReturns, modVars, Stages
<1>8. CASE InitSucceeds
  <2>1. pc' \in PCs BY <1>8 DEF InitSucceeds, TimerAfterInit
  <2>2. flags' \subseteq Flags BY <1>8 DEF InitSucceeds, TimerAfterInit
  <2>3. loopStop' \in BOOLEAN BY <1>8 DEF InitSucceeds, TimerAfterInit
  <2>4. timer' \in {"none", "armed", "fired"} /\ holdTimer' = FALSE
    BY <1>8 DEF InitSucceeds, TimerAfterInit
  <2>5. caller' = "run" \/ caller' = caller BY <1>8 DEF InitSucceeds
  <2>6. api' = "none" \/ api' = api BY <1>8 DEF InitSucceeds
  <2>7. UNCHANGED <<setupFailed, idx, bus, modVars, failVars, sigVars>>
    BY <1>8 DEF InitSucceeds
  <2> QED BY <2>1, <2>2, <2>3, <2>4, <2>5, <2>6, <2>7, ZenonT(30) DEF modVars, Stages
<1>9. CASE UpstreamTimeout
  BY <1>9 DEF UpstreamTimeout, TimerAfterInit, InitReturns, modVars, Stages
<1> QED BY <1>1, <1>2, <1>3, <1>4, <1>5, <1>6, <1>7, <1>8, <1>9, Zenon
  DEF InitSteps

LEMMA FailStepsTypeOK == ASSUME TypeOK, FailSteps PROVE TypeOK'
<1> USE LifeAssumption DEF TypeOK, PCs, InitPCs, FailPCs, LoopPCs, Callers, Flags,
    Modules, Has, failVars, timerVars, sigVars, callVars
<1>1. CASE FailedBegin BY <1>1 DEF FailedBegin, StopApp, modVars, Stages
<1>2. CASE FailedHead
  <2>1. pc' \in PCs BY <1>2 DEF FailedHead
  <2>2. idx' = 1 /\ more' \in BOOLEAN BY <1>2 DEF FailedHead
  <2>3. UNCHANGED <<flags, setupFailed, callVars, bus, loopStop, modVars,
        endIdx, failedIdx, need, timerVars, sigVars>>
    BY <1>2 DEF FailedHead
  <2> QED BY <2>1, <2>2, <2>3 DEF modVars, Stages
<1>3. CASE FailedStop
  <2>1. ModTypes' BY <1>3, ModuleCallTypes, Zenon DEF FailedStop, ModTypes
  <2>2. more' \in BOOLEAN BY <1>3 DEF FailedStop
  <2>3. idx <= endIdx /\ idx' = idx + 1 BY <1>3 DEF FailedStop
  <2>4. UNCHANGED <<flags, setupFailed, pc, callVars, bus, loopStop, endIdx,
        failedIdx, need, timerVars, sigVars>>
    BY <1>3 DEF FailedStop
  <2> QED BY <2>1, <2>2, <2>3, <2>4 DEF ModTypes
<1>4. CASE FailedStopEnd BY <1>4 DEF FailedStopEnd, modVars, Stages
<1>5. CASE FailedOwnStop BY <1>5 DEF FailedOwnStop, modVars, Stages
<1>6. CASE FailedTimeout
  <2>1. ModTypes' BY <1>6, ModuleCallTypes, Zenon DEF FailedTimeout, ModTypes
  <2>2. idx <= endIdx /\ idx' = idx + 1 BY <1>6 DEF FailedTimeout
  <2>3. UNCHANGED <<flags, setupFailed, pc, callVars, bus, loopStop, failVars,
        timerVars, sigVars>>
    BY <1>6 DEF FailedTimeout
  <2> QED BY <2>1, <2>2, <2>3 DEF ModTypes
<1>7. CASE FailedOwnCleanup
  BY <1>7 DEF FailedOwnCleanup, Reaches, modVars, Stages
<1>8. CASE FailedCleanup
  <2>1. ModTypes' BY <1>8, ModuleCallTypes, Zenon DEF FailedCleanup, ModTypes
  <2>2. idx > 0 /\ idx' = idx - 1 BY <1>8 DEF FailedCleanup
  <2>3. UNCHANGED <<flags, setupFailed, pc, callVars, bus, loopStop, failVars,
        timerVars, sigVars>>
    BY <1>8 DEF FailedCleanup
  <2> QED BY <2>1, <2>2, <2>3 DEF ModTypes
<1>9. CASE FailedEnd
  BY <1>9 DEF FailedEnd, TimerAfterInit, InitReturns, modVars, Stages
<1> QED BY <1>1, <1>2, <1>3, <1>4, <1>5, <1>6, <1>7, <1>8, <1>9, Zenon
  DEF FailSteps

LEMMA LoopStepsTypeOK == ASSUME TypeOK, LoopSteps PROVE TypeOK'
<1> USE LifeAssumption DEF TypeOK, PCs, InitPCs, FailPCs, LoopPCs, Callers, Flags,
    Modules, Has, failVars, timerVars, sigVars, callVars
<1>1. CASE LeaveLoop
  <2>1. pc' \in PCs BY <1>1 DEF LeaveLoop
  <2>2. loopStop' \in BOOLEAN BY <1>1 DEF LeaveLoop
  <2>3. UNCHANGED <<flags, setupFailed, callVars, idx, bus, modVars, failVars,
        timerVars, sigVars>>
    BY <1>1 DEF LeaveLoop
  <2> QED BY <2>1, <2>2, <2>3 DEF modVars, Stages
<1>2. CASE CopySignals BY <1>2 DEF CopySignals, AfterSignals, modVars, Stages
<1>3. CASE ClearSignals BY <1>3 DEF ClearSignals, modVars, Stages
<1>4. CASE HandleSignals
  <2>1. pc' \in PCs BY <1>4 DEF HandleSignals, StopApp, AfterSignals
  <2>2. copied' = 0 BY <1>4 DEF HandleSignals
  <2>3. flags' \subseteq Flags BY <1>4 DEF HandleSignals, StopApp, AfterSignals
  <2>4. loopStop' \in BOOLEAN BY <1>4 DEF HandleSignals, StopApp, AfterSignals
  <2>5. UNCHANGED <<setupFailed, callVars, idx, bus, modVars, failVars,
        timerVars, pending>>
    BY <1>4 DEF HandleSignals
  <2> QED BY <2>1, <2>2, <2>3, <2>4, <2>5 DEF modVars, Stages
<1>5. CASE CheckStop
  <2>1. pc' \in PCs BY <1>5 DEF CheckStop
  <2>2. idx' = 1 \/ idx' = idx BY <1>5 DEF CheckStop
  <2>3. flags' \subseteq Flags BY <1>5 DEF CheckStop
  <2>4. UNCHANGED <<setupFailed, callVars, bus, loopStop, modVars, failVars,
        timerVars, sigVars>>
    BY <1>5 DEF CheckStop
  <2> QED BY <2>1, <2>2, <2>3, <2>4 DEF modVars, Stages
<1>6. CASE StopModule
  <2>1. ModTypes' BY <1>6, ModuleCallTypes, Zenon DEF StopModule, ModTypes
  <2>2. flags' \subseteq flags BY <1>6 DEF StopModule
  <2>3. idx \in Modules /\ idx' = idx + 1 BY <1>6 DEF StopModule
  <2>4. UNCHANGED <<setupFailed, pc, callVars, bus, loopStop, failVars,
        timerVars, sigVars>>
    BY <1>6 DEF StopModule
  <2> QED BY <2>1, <2>2, <2>3, <2>4 DEF ModTypes
<1>7. CASE StopModulesEnd BY <1>7 DEF StopModulesEnd, modVars, Stages
<1>8. CASE TimeoutModules
  <2>1. ModTypes' BY <1>8, ModuleCallTypes, Zenon DEF TimeoutModules, ModTypes
  <2>2. pc' \in PCs BY <1>8 DEF TimeoutModules
  <2>3. (idx \in Modules /\ idx' = idx + 1) \/ idx' = idx BY <1>8 DEF TimeoutModules
  <2>4. UNCHANGED <<flags, setupFailed, callVars, bus, loopStop, failVars,
        timerVars, sigVars>>
    BY <1>8 DEF TimeoutModules
  <2> QED BY <2>1, <2>2, <2>3, <2>4 DEF ModTypes
<1>9. CASE Settle
  <2>1. pc' \in PCs BY <1>9 DEF Settle, StopApp
  <2>2. bus' = bus \/ bus' = "shutdown" BY <1>9 DEF Settle
  <2>3. flags' \subseteq Flags BY <1>9 DEF Settle, StopApp
  <2>4. loopStop' \in BOOLEAN BY <1>9 DEF Settle, StopApp
  <2>5. UNCHANGED <<setupFailed, callVars, idx, modVars, failVars, timerVars,
        sigVars>>
    BY <1>9 DEF Settle
  <2> QED BY <2>1, <2>2, <2>3, <2>4, <2>5 DEF modVars, Stages
<1>10. CASE InnerEnd BY <1>10 DEF InnerEnd, InnerReturns, modVars, Stages
<1>11. CASE CloseModule
  <2>1. ModTypes' BY <1>11, ModuleCallTypes, Zenon DEF CloseModule, ModTypes
  <2>2. idx > 0 /\ idx' = idx - 1 BY <1>11 DEF CloseModule
  <2>3. UNCHANGED <<flags, setupFailed, pc, callVars, bus, loopStop, failVars,
        timerVars, sigVars>>
    BY <1>11 DEF CloseModule
  <2> QED BY <2>1, <2>2, <2>3 DEF ModTypes
<1>12. CASE CloseApp BY <1>12 DEF CloseApp, InnerReturns, modVars, Stages
<1> QED BY <1>1, <1>2, <1>3, <1>4, <1>5, <1>6, <1>7, <1>8, <1>9, <1>10, <1>11,
  <1>12, Zenon DEF LoopSteps

LEMMA OtherStepsTypeOK ==
  ASSUME TypeOK, DestroySteps \/ UserSteps \/ Environment
  PROVE  TypeOK'
<1> USE LifeAssumption DEF TypeOK, PCs, InitPCs, FailPCs, LoopPCs, Callers, Flags,
    Modules, Has, failVars, timerVars, sigVars, callVars
<1>1. CASE DestroyLoop BY <1>1 DEF DestroyLoop, modVars, Stages
<1>2. CASE Unbind BY <1>2 DEF Unbind, modVars, Stages
<1>3. CASE CallInit BY <1>3 DEF CallInit, modVars, Stages
<1>4. CASE CallRun BY <1>4 DEF CallRun, modVars, Stages
<1>5. CASE CallStop BY <1>5 DEF CallStop, StopApp, modVars, Stages
<1>6. CASE CallDestroy
  <2>1. pc' \in PCs BY <1>6 DEF CallDestroy
  <2>2. flags' \subseteq Flags BY <1>6 DEF CallDestroy
  <2>3. loopStop' \in BOOLEAN BY <1>6 DEF CallDestroy
  <2>4. caller' = caller \/ caller' = "destroy" BY <1>6 DEF CallDestroy
  <2>5. UNCHANGED <<setupFailed, api, idx, bus, modVars, failVars, timerVars,
        sigVars>>
    BY <1>6 DEF CallDestroy
  <2> QED BY <2>1, <2>2, <2>3, <2>4, <2>5 DEF modVars, Stages
<1>7. CASE UpstreamReady
  <2>1. pc' \in PCs BY <1>7 DEF UpstreamReady
  <2>2. loopStop' \in BOOLEAN BY <1>7 DEF UpstreamReady
  <2>3. UNCHANGED <<flags, setupFailed, callVars, idx, bus, modVars, failVars,
        timerVars, sigVars>>
    BY <1>7 DEF UpstreamReady
  <2> QED BY <2>1, <2>2, <2>3 DEF modVars, Stages
<1>8. CASE InitPump BY <1>8 DEF InitPump, modVars, Stages
<1>9. CASE TimeoutFires BY <1>9 DEF TimeoutFires, InLoop, modVars, Stages
<1>10. CASE TickBreaks BY <1>10 DEF TickBreaks, InLoop, modVars, Stages
<1>11. CASE EventStops
  BY <1>11 DEF EventStops, StopApp, InLoop, modVars, Stages
<1>12. CASE SigTerm BY <1>12 DEF SigTerm, modVars, Stages
<1> QED BY <1>1, <1>2, <1>3, <1>4, <1>5, <1>6, <1>7, <1>8, <1>9, <1>10, <1>11,
  <1>12, Zenon DEF DestroySteps, UserSteps, Environment

LEMMA NextTypeOK == ASSUME TypeOK, [Next]_vars PROVE TypeOK'
<1>1. CASE UNCHANGED vars
  BY <1>1 DEF vars, TypeOK, modVars, failVars, timerVars, sigVars, callVars
<1> QED
  BY <1>1, InitStepsTypeOK, FailStepsTypeOK, LoopStepsTypeOK,
     OtherStepsTypeOK, Zenon DEF Next

-----------------------------------------------------------------------------
(* Flags and the timer of init(). *)

LEMMA InitStepsFlagsFit == ASSUME FlagInv, InitSteps PROVE FlagsFit'
<1> USE DEF FlagsFit, FlagInv, PlaceInv, TimerInv, TimeoutOnlyWhenStopping, InInit,
    Untouched, InitPCs, FailPCs, LoopPCs, Has, failVars, timerVars, sigVars, callVars
<1>1. CASE InitSetup BY <1>1 DEF InitSetup, TimerAfterInit, InitReturns
<1>2. CASE InitBus BY <1>2 DEF InitBus, TimerAfterInit, InitReturns
<1>3. CASE InitReload BY <1>3 DEF InitReload, TimerAfterInit, InitReturns
<1>4. CASE InitModuleFails BY <1>4 DEF InitModuleFails
<1>5. CASE InitModule BY <1>5 DEF InitModule
<1>6. CASE AllInitedLate BY <1>6 DEF AllInitedLate
<1>7. CASE PidFileFails BY <1>7 DEF PidFileFails, TimerAfterInit, InitReturns
<1>8. CASE InitSucceeds BY <1>8 DEF InitSucceeds, TimerAfterInit
<1>9. CASE UpstreamTimeout
  BY <1>9 DEF UpstreamTimeout, TimerAfterInit, InitReturns
<1> QED BY <1>1, <1>2, <1>3, <1>4, <1>5, <1>6, <1>7, <1>8, <1>9, Zenon
  DEF InitSteps

LEMMA FailStepsFlagsFit == ASSUME FlagInv, FailSteps PROVE FlagsFit'
<1> USE DEF FlagsFit, FlagInv, PlaceInv, TimerInv, TimeoutOnlyWhenStopping, InInit,
    Untouched, InitPCs, FailPCs, LoopPCs, Has, failVars, timerVars, sigVars, callVars
<1>1. CASE FailedBegin BY <1>1 DEF FailedBegin, StopApp
<1>2. CASE FailedHead BY <1>2 DEF FailedHead
<1>3. CASE FailedStop BY <1>3 DEF FailedStop
<1>4. CASE FailedStopEnd BY <1>4 DEF FailedStopEnd
<1>5. CASE FailedOwnStop BY <1>5 DEF FailedOwnStop
<1>6. CASE FailedTimeout BY <1>6 DEF FailedTimeout
<1>7. CASE FailedOwnCleanup BY <1>7 DEF FailedOwnCleanup
<1>8. CASE FailedCleanup BY <1>8 DEF FailedCleanup
<1>9. CASE FailedEnd BY <1>9 DEF FailedEnd, TimerAfterInit, InitReturns
<1> QED BY <1>1, <1>2, <1>3, <1>4, <1>5, <1>6, <1>7, <1>8, <1>9, Zenon
  DEF FailSteps

LEMMA LoopStepsFlagsFit == ASSUME FlagInv, LoopSteps PROVE FlagsFit'
<1> USE DEF FlagsFit, FlagInv, PlaceInv, TimerInv, TimeoutOnlyWhenStopping, InInit,
    Untouched, InitPCs, FailPCs, LoopPCs, Has, failVars, timerVars, sigVars, callVars
<1>1. CASE LeaveLoop BY <1>1 DEF LeaveLoop
<1>2. CASE CopySignals BY <1>2 DEF CopySignals, AfterSignals
<1>3. CASE ClearSignals BY <1>3 DEF ClearSignals
<1>4. CASE HandleSignals BY <1>4 DEF HandleSignals, StopApp, AfterSignals
<1>5. CASE CheckStop BY <1>5 DEF CheckStop
<1>6. CASE StopModule BY <1>6 DEF StopModule
<1>7. CASE StopModulesEnd BY <1>7 DEF StopModulesEnd
<1>8. CASE TimeoutModules BY <1>8 DEF TimeoutModules
<1>9. CASE Settle BY <1>9 DEF Settle, StopApp
<1>10. CASE InnerEnd
  <2>1. pc = "inner" /\ UNCHANGED <<flags, setupFailed, caller, holdTimer>>
    BY <1>10 DEF InnerEnd
  <2>2. CASE Has("Stopped") /\ Has("Initialized")
    BY <1>10, <2>1, <2>2 DEF InnerEnd
  <2>3. CASE ~(Has("Stopped") /\ Has("Initialized"))
    <3>1. UNCHANGED timer BY <1>10, <2>3 DEF InnerEnd
    <3>2. caller \in {"run", "once", "destroy", "nest"}
      BY <2>1 DEF TypeOK, Callers
    <3>3. /\ caller = "run" => pc' \in {"user", "loop"}
          /\ caller = "once" => pc' = "user"
          /\ caller = "nest" => pc' = "initmod"
          /\ caller = "destroy" => pc' = "destroy"
      BY <1>10, <2>3 DEF InnerEnd, InnerReturns
    <3> QED BY <2>1, <3>1, <3>2, <3>3
  <2> QED BY <2>2, <2>3
<1>11. CASE CloseModule BY <1>11 DEF CloseModule
<1>12. CASE CloseApp BY <1>12 DEF CloseApp, InnerReturns
<1> QED BY <1>1, <1>2, <1>3, <1>4, <1>5, <1>6, <1>7, <1>8, <1>9, <1>10, <1>11,
  <1>12, Zenon DEF LoopSteps

LEMMA OtherStepsFlagsFit ==
  ASSUME FlagInv, DestroySteps \/ UserSteps \/ Environment
  PROVE  FlagsFit'
<1> USE DEF FlagsFit, FlagInv, PlaceInv, TimerInv, TimeoutOnlyWhenStopping, InInit,
    Untouched, InitPCs, FailPCs, LoopPCs, Has, failVars, timerVars, sigVars, callVars
<1>1. CASE DestroyLoop BY <1>1 DEF DestroyLoop
<1>2. CASE Unbind BY <1>2 DEF Unbind
<1>3. CASE CallInit BY <1>3 DEF CallInit
<1>4. CASE CallRun BY <1>4 DEF CallRun
<1>5. CASE CallStop BY <1>5 DEF CallStop, StopApp
<1>6. CASE CallDestroy BY <1>6 DEF CallDestroy
<1>7. CASE UpstreamReady BY <1>7 DEF UpstreamReady
<1>8. CASE InitPump BY <1>8 DEF InitPump
<1>9. CASE TimeoutFires BY <1>9 DEF TimeoutFires, InLoop
<1>10. CASE TickBreaks BY <1>10 DEF TickBreaks, InLoop
<1>11. CASE EventStops BY <1>11 DEF EventStops, StopApp, InLoop
<1>12. CASE SigTerm BY <1>12 DEF SigTerm
<1> QED BY <1>1, <1>2, <1>3, <1>4, <1>5, <1>6, <1>7, <1>8, <1>9, <1>10, <1>11,
  <1>12, Zenon DEF DestroySteps, UserSteps, Environment

LEMMA NextFlagInv == ASSUME FlagInv, [Next]_vars PROVE FlagInv'
<1>1. TypeOK' BY NextTypeOK DEF FlagInv
<1>2. CASE UNCHANGED vars
  BY <1>1, <1>2 DEF FlagInv, FlagsFit, PlaceInv, TimerInv, TimeoutOnlyWhenStopping,
     InInit, Untouched, Has, vars, timerVars, callVars
<1> QED
  BY <1>1, <1>2, InitStepsFlagsFit, FailStepsFlagsFit, LoopStepsFlagsFit,
     OtherStepsFlagsFit, Zenon DEF Next, FlagInv

LEMMA InitFlagInv == ASSUME Init PROVE FlagInv
<1>1. FlagsFit
  BY DEF Init, FlagsFit, PlaceInv, TimerInv, TimeoutOnlyWhenStopping, InInit,
     Untouched, Has, InitPCs, FailPCs, LoopPCs
<1> QED BY <1>1, InitTypeOK DEF FlagInv

LEMMA SpecFlagInv == Spec => []FlagInv
<1>1. FlagInv /\ [Next]_vars => FlagInv' BY NextFlagInv
<1> QED BY InitFlagInv, <1>1, PTL DEF Spec

\* Whatever init(), run(), stop(), a signal or the destructor does: every
\* variable keeps its type, and kTimeout is set in an initialised app only while
\* it is stopping, because init() takes its timer away when it succeeds.
THEOREM AppFlagsConsistent == Spec => []FlagsConsistent
<1>1. FlagInv => FlagsConsistent
  BY DEF FlagInv, FlagsFit, FlagsConsistent
<1> QED BY SpecFlagInv, <1>1, PTL

-----------------------------------------------------------------------------
(* The contract with the modules: the callbacks come in the order of       *)
(* ModuleContract, and nothing is left initialised when init() failed or   *)
(* the app closed.                                                         *)

\* The scenarios in which that is so (see the README for the two others): no
\* module's init() calls app::run_once(), and the pid file can be written.
OrderlyInit == ~MayNest /\ ~MayLosePid

-----------------------------------------------------------------------------
(* The invariant: the stage of every module follows from where the thread   *)
(* is and which modules are enabled.                                        *)

\* While its app is initialised, or its init() is being rolled back, a module
\* that is enabled awaits its stop() and one that is disabled had it or was
\* never initialised.
Running(m) ==
  stage[m] \in (IF enabled[m] THEN {"inited", "stopping"} ELSE {"new", "stopped"})

\* Modules 1..n were initialised if they are enabled, the others not at all.
InitedUpTo(n) ==
  \A m \in Modules : stage[m] = IF m <= n /\ enabled[m] THEN "inited" ELSE "new"

\* The loop over the modules in init(), and what it may call.
Initing == pc = "initmod" \/ (pc = "loop" /\ caller = "pump")

\* init_failed_cleanup() until all have stopped.
FailLoop == \/ pc \in {"fbegin", "fhead", "fstop", "ffailed", "ftimeout"}
            \/ pc \in LoopPCs /\ caller = "failed"

\* The module whose init() failed, if there is one, is the one after endIdx.
FailedAt == failedIdx # 0 => failedIdx = endIdx + 1

\* Modules after endIdx, except the one whose init() failed, were not reached.
Unreached(s) ==
  \A m \in Modules : m > endIdx => stage[m] = IF m = failedIdx THEN s ELSE "new"

\* init() and its roll back.
InitStageInv ==
  /\ Untouched \/ pc \in {"setup", "bus", "upstream", "reload"} => InitedUpTo(0)
  /\ Initing => idx > 0 /\ failedIdx = 0 /\ InitedUpTo(idx - 1)
  /\ FailLoop => FailedAt /\ Unreached("failed")
  /\ FailLoop => \A m \in Modules : m <= endIdx => Running(m)
  /\ pc = "fstop" =>
       /\ idx > 0
       /\ more \/ \A m \in Modules : m < idx /\ m <= endIdx => ~enabled[m]
  /\ pc = "ffailed" => more \/ \A m \in Modules : m <= endIdx => ~enabled[m]
  /\ pc = "ftimeout" =>
       /\ idx > 0
       /\ Has("Timeout") \/ \A m \in Modules : m <= endIdx => ~enabled[m]
       /\ \A m \in Modules : m < idx /\ m <= endIdx => ~enabled[m]
  /\ pc = "fclean" =>
       /\ FailedAt /\ Unreached("released") /\ idx <= endIdx
       /\ \A m \in Modules : m <= endIdx =>
            stage[m] \in (IF m <= idx THEN {"new", "stopped"} ELSE {"cleaned"})

\* The running app: kStopped stands only between the stop() of all modules and
\* their cleanup().
RunStageInv ==
  /\ Has("Initialized") /\ Has("Stopped") =>
       pc \in {"mstop", "mtimeout", "settle", "inner", "cleanup"}
  /\ Has("Initialized") /\ pc # "cleanup" => \A m \in Modules : Running(m)
  /\ pc \in {"mstop", "mtimeout"} => idx > 0
  /\ pc = "mtimeout" \/ (pc = "mstop" /\ Has("Stopped")) =>
       \A m \in Modules : m < idx => ~enabled[m]
  /\ pc \in {"settle", "inner"} /\ Has("Stopped") => \A m \in Modules : ~enabled[m]
  /\ pc = "mtimeout" => Has("Stopped")
  /\ pc = "cleanup" => idx <= NumModules
  /\ pc = "cleanup" => \A m \in Modules :
       stage[m] \in (IF m <= idx THEN {"new", "stopped"} ELSE {"cleaned"})

StagesFit == caller # "nest" /\ InitStageInv /\ RunStageInv /\ NothingLeftBehind

StageInv == FlagInv /\ StagesFit

-----------------------------------------------------------------------------
(* Each step keeps it. *)

LEMMA InitStepsStagesFit ==
  ASSUME OrderlyInit, StageInv, InitSteps
  PROVE  StagesFit'
<1> USE LifeAssumption DEF OrderlyInit, StageInv, StagesFit, InitStageInv, RunStageInv,
    NothingLeftBehind, Running, InitedUpTo, Initing, FailLoop, FailedAt, Unreached, Unclean, Modules,
    FlagInv, FlagsFit, PlaceInv, TypeOK, InInit, Untouched, InitPCs, FailPCs,
    LoopPCs, Has, modVars, failVars, timerVars, sigVars, callVars
<1>1. CASE InitSetup BY <1>1 DEF InitSetup, TimerAfterInit, InitReturns
<1>2. CASE InitBus BY <1>2 DEF InitBus, TimerAfterInit, InitReturns
<1>3. CASE InitReload BY <1>3 DEF InitReload, TimerAfterInit, InitReturns
<1>4. CASE InitModuleFails BY <1>4 DEF InitModuleFails, Reaches
<1>5. CASE InitModule BY <1>5 DEF InitModule, Reaches, LastInited
<1>6. CASE AllInitedLate BY <1>6 DEF AllInitedLate
<1>7. CASE PidFileFails BY <1>7 DEF PidFileFails, TimerAfterInit, InitReturns
<1>8. CASE InitSucceeds BY <1>8 DEF InitSucceeds, TimerAfterInit
<1>9. CASE UpstreamTimeout
  BY <1>9 DEF UpstreamTimeout, TimerAfterInit,
    InitReturns
<1> QED BY <1>1, <1>2, <1>3, <1>4, <1>5, <1>6, <1>7, <1>8, <1>9, Zenon
  DEF InitSteps

LEMMA FailStepsStagesFit ==
  ASSUME OrderlyInit, StageInv, FailSteps
  PROVE  StagesFit'
<1> USE LifeAssumption DEF OrderlyInit, StageInv, StagesFit, InitStageInv, RunStageInv,
    NothingLeftBehind, Running, InitedUpTo, Initing, FailLoop, FailedAt, Unreached, Unclean, Modules,
    FlagInv, FlagsFit, PlaceInv, TypeOK, InInit, Untouched, InitPCs, FailPCs,
    LoopPCs, Has, modVars, failVars, timerVars, sigVars, callVars
<1>1. CASE FailedBegin BY <1>1 DEF FailedBegin, StopApp
<1>2. CASE FailedHead BY <1>2 DEF FailedHead
<1>3. CASE FailedStop
  BY <1>3, SMTT(30) DEF FailedStop, Disable, Reaches,
    StaysSuspended, StopDone, StopPending
<1>4. CASE FailedStopEnd BY <1>4 DEF FailedStopEnd
<1>5. CASE FailedOwnStop BY <1>5 DEF FailedOwnStop
<1>6. CASE FailedTimeout
  BY <1>6 DEF FailedTimeout, Disable, Reaches,
    TimeoutModule
<1>7. CASE FailedOwnCleanup BY <1>7 DEF FailedOwnCleanup, Reaches
<1>8. CASE FailedCleanup BY <1>8 DEF FailedCleanup, Reaches, CleanupModule
<1>9. CASE FailedEnd BY <1>9 DEF FailedEnd, TimerAfterInit, InitReturns
<1> QED BY <1>1, <1>2, <1>3, <1>4, <1>5, <1>6, <1>7, <1>8, <1>9, Zenon
  DEF FailSteps

LEMMA LoopStepsStagesFit ==
  ASSUME OrderlyInit, StageInv, LoopSteps
  PROVE  StagesFit'
<1> USE LifeAssumption DEF OrderlyInit, StageInv, StagesFit, InitStageInv, RunStageInv,
    NothingLeftBehind, Running, InitedUpTo, Initing, FailLoop, FailedAt, Unreached, Unclean, Modules,
    FlagInv, FlagsFit, PlaceInv, TypeOK, InInit, Untouched, InitPCs, FailPCs,
    LoopPCs, Has, modVars, failVars, timerVars, sigVars, callVars
<1>1. CASE LeaveLoop BY <1>1 DEF LeaveLoop
<1>2. CASE CopySignals BY <1>2 DEF CopySignals, AfterSignals
<1>3. CASE ClearSignals BY <1>3 DEF ClearSignals
<1>4. CASE HandleSignals BY <1>4 DEF HandleSignals, StopApp, AfterSignals
<1>5. CASE CheckStop
  <2>1. CASE Has("Stoping") BY <1>5, <2>1 DEF CheckStop
  <2>2. CASE ~Has("Stoping")
    <3>1. pc = "check" /\ pc' = "inner"
          /\ UNCHANGED <<flags, setupFailed, caller, idx, enabled, stage>>
      BY <1>5, <2>2 DEF CheckStop
    <3>2. Has("Initialized") BY <1>5 DEF CheckStop, Callers
    <3>3. ~Has("Stopped") BY <1>5, <3>2 DEF CheckStop
    <3> QED BY <3>1, <3>2, <3>3
  <2> QED BY <2>1, <2>2
<1>6. CASE StopModule
  BY <1>6 DEF StopModule, Disable, Reaches,
    StaysSuspended, StopDone, StopPending
<1>7. CASE StopModulesEnd BY <1>7 DEF StopModulesEnd
<1>8. CASE TimeoutModules
  <2>1. CASE idx \in Modules
    BY <1>8, <2>1 DEF TimeoutModules, Disable, Reaches, TimeoutModule
  <2>2. CASE idx \notin Modules
    BY <1>8, <2>2 DEF TimeoutModules
  <2> QED BY <2>1, <2>2
<1>9. CASE Settle BY <1>9 DEF Settle, StopApp
<1>10. CASE InnerEnd
  <2>1. /\ pc = "inner"
        /\ UNCHANGED <<flags, setupFailed, caller, enabled, stage, endIdx, failedIdx, more>>
    BY <1>10 DEF InnerEnd
  <2>2. CASE Has("Stopped") /\ Has("Initialized")
    BY <1>10, <2>1, <2>2 DEF InnerEnd
  <2>3. CASE ~(Has("Stopped") /\ Has("Initialized"))
    <3>1. caller \in {"run", "once", "destroy"}
      BY <2>1 DEF Callers
    <3>2. /\ caller = "run" => pc' \in {"user", "loop"}
          /\ caller = "once" => pc' = "user"
          /\ caller = "destroy" => pc' = "destroy"
      BY <1>10, <2>3 DEF InnerEnd, InnerReturns
    <3> QED BY <2>1, <2>3, <3>1, <3>2
  <2> QED BY <2>2, <2>3
<1>11. CASE CloseModule BY <1>11 DEF CloseModule, Reaches, CleanupModule
<1>12. CASE CloseApp BY <1>12 DEF CloseApp, InnerReturns
<1> QED BY <1>1, <1>2, <1>3, <1>4, <1>5, <1>6, <1>7, <1>8, <1>9, <1>10, <1>11,
  <1>12, Zenon DEF LoopSteps

LEMMA OtherStepsStagesFit ==
  ASSUME OrderlyInit, StageInv, DestroySteps \/ UserSteps \/ Environment
  PROVE  StagesFit'
<1> USE LifeAssumption DEF OrderlyInit, StageInv, StagesFit, InitStageInv, RunStageInv,
    NothingLeftBehind, Running, InitedUpTo, Initing, FailLoop, FailedAt, Unreached, Unclean, Modules,
    FlagInv, FlagsFit, PlaceInv, TypeOK, InInit, Untouched, InitPCs, FailPCs,
    LoopPCs, Has, modVars, failVars, timerVars, sigVars, callVars
<1>1. CASE DestroyLoop BY <1>1 DEF DestroyLoop
<1>2. CASE Unbind BY <1>2 DEF Unbind
<1>3. CASE CallInit BY <1>3 DEF CallInit
<1>4. CASE CallRun BY <1>4 DEF CallRun
<1>5. CASE CallStop BY <1>5 DEF CallStop, StopApp
<1>6. CASE CallDestroy BY <1>6 DEF CallDestroy
<1>7. CASE UpstreamReady BY <1>7 DEF UpstreamReady
<1>8. CASE InitPump BY <1>8 DEF InitPump
<1>9. CASE TimeoutFires BY <1>9 DEF TimeoutFires, InLoop
<1>10. CASE TickBreaks BY <1>10 DEF TickBreaks, InLoop
<1>11. CASE EventStops BY <1>11 DEF EventStops, StopApp, InLoop
<1>12. CASE SigTerm BY <1>12 DEF SigTerm
<1> QED BY <1>1, <1>2, <1>3, <1>4, <1>5, <1>6, <1>7, <1>8, <1>9, <1>10, <1>11,
  <1>12, Zenon DEF DestroySteps, UserSteps, Environment

LEMMA NextStageInv == ASSUME OrderlyInit, StageInv, [Next]_vars PROVE StageInv'
<1>1. FlagInv' BY NextFlagInv DEF StageInv
<1>2. CASE UNCHANGED vars
  BY <1>1, <1>2 DEF StageInv, StagesFit, InitStageInv, RunStageInv, NothingLeftBehind,
     Running, InitedUpTo, Initing, FailLoop, FailedAt, Unreached, Untouched, Has, vars,
     modVars, failVars, callVars
<1> QED
  BY <1>1, <1>2, InitStepsStagesFit, FailStepsStagesFit, LoopStepsStagesFit,
     OtherStepsStagesFit, Zenon DEF Next, StageInv

LEMMA InitStageInvHolds == ASSUME Init PROVE StageInv
<1>1. StagesFit
  BY LifeAssumption
  DEF Init, StagesFit, InitStageInv, RunStageInv, NothingLeftBehind, Unclean,
      InitedUpTo, Initing, FailLoop, LoopPCs, Untouched, Has, Modules
<1> QED BY <1>1, InitFlagInv DEF StageInv

LEMMA SpecStageInv == ASSUME OrderlyInit PROVE Spec => []StageInv
<1>1. StageInv /\ [Next]_vars => StageInv' BY NextStageInv
<1> QED BY InitStageInvHolds, <1>1, PTL DEF Spec

\* init_failed_cleanup() and closing: when the user's code has control and the
\* app is not initialised, no module is left between init() and cleanup(),
\* whichever init() failed, timed out or was interrupted by a stop.
THEOREM NobodyLeftBehind == ASSUME OrderlyInit PROVE Spec => []NothingLeftBehind
<1>1. StageInv => NothingLeftBehind BY DEF StageInv, StagesFit
<1> QED BY SpecStageInv, <1>1, PTL

-----------------------------------------------------------------------------
(* Refinement. *)

\* What the history does when a module that awaits its stop() gets one.
LEMMA StopMaps ==
  ASSUME NEW m \in Modules, stage[m] \in {"inited", "stopping"},
         StopDone(m) \/ StopPending(m) \/ TimeoutModule(m)
  PROVE  Contract!StopCall(m)
  BY DEF StopDone, StopPending, TimeoutModule, Reaches, Contract!StopCall

\* And when all have stopped and one is cleaned up.
LEMMA CleanupMaps ==
  ASSUME NEW m \in Modules, stage[m] \in {"new", "stopped"}, Contract!AllStopped,
         CleanupModule(m)
  PROVE  Contract!CleanupCall(m)
  BY DEF CleanupModule, Reaches, Contract!CleanupCall

LEMMA NextKeepsContract ==
  ASSUME OrderlyInit, StageInv, [Next]_vars
  PROVE  [Contract!ContractNext]_stage
<1> DEFINE Kept == [Contract!ContractNext]_stage
<1> USE LifeAssumption DEF StageInv, StagesFit, Modules, FlagInv, TypeOK
<1>1. CASE InitModuleFails
  <2>1. idx \in Modules /\ stage[idx] = "new"
    BY <1>1 DEF InitModuleFails, InitStageInv, Initing, InitedUpTo
  <2>2. Contract!Initialize(idx)
    BY <1>1, <2>1 DEF InitModuleFails, Reaches, Contract!Initialize
  <2> QED BY <2>1, <2>2 DEF Contract!ContractNext
<1>2. CASE InitModule
  <2>1. idx \in Modules /\ stage[idx] = "new"
    BY <1>2 DEF InitModule, InitStageInv, Initing, InitedUpTo
  <2>2. CASE enabled[idx]
    <3>1. Contract!Initialize(idx)
      BY <1>2, <2>1, <2>2 DEF InitModule, Reaches, Contract!Initialize
    <3> QED BY <2>1, <3>1 DEF Contract!ContractNext
  <2>3. CASE ~enabled[idx] BY <1>2, <2>3 DEF InitModule
  <2> QED BY <2>2, <2>3
<1>3. CASE FailedStop
  <2>1. idx \in Modules /\ (enabled[idx] => stage[idx] \in {"inited", "stopping"})
    BY <1>3 DEF FailedStop, InitStageInv, FailLoop, Running
  <2>2. UNCHANGED stage \/ (enabled[idx] /\ (StopDone(idx) \/ StopPending(idx)))
    <3>1. CASE UNCHANGED <<modVars, more>> BY <3>1 DEF modVars
    <3>2. CASE StaysSuspended(idx) BY <3>2 DEF StaysSuspended, modVars
    <3> QED BY <1>3, <3>1, <3>2, Zenon DEF FailedStop
  <2> QED BY <2>1, <2>2, StopMaps DEF Contract!ContractNext
<1>4. CASE FailedTimeout
  <2>1. idx \in Modules /\ (enabled[idx] => stage[idx] \in {"inited", "stopping"})
    BY <1>4 DEF FailedTimeout, InitStageInv, FailLoop, Running
  <2>2. UNCHANGED stage \/ (enabled[idx] /\ TimeoutModule(idx))
    <3>1. CASE UNCHANGED modVars BY <3>1 DEF modVars
    <3> QED BY <1>4, <3>1, Zenon DEF FailedTimeout
  <2> QED BY <2>1, <2>2, StopMaps DEF Contract!ContractNext
<1>5. CASE FailedOwnCleanup
  <2>1. CASE failedIdx = 0 BY <1>5, <2>1 DEF FailedOwnCleanup
  <2>2. CASE failedIdx # 0
    <3>1. failedIdx \in Modules /\ stage[failedIdx] = "failed"
      BY <1>5, <2>2 DEF FailedOwnCleanup, InitStageInv, FailLoop, FailedAt, Unreached
    <3>2. Contract!AllStopped
      BY <1>5 DEF FailedOwnCleanup, InitStageInv, FailLoop, Unreached, Running,
                  Contract!AllStopped
    <3>3. Contract!ReleaseFailed(failedIdx)
      BY <1>5, <2>2, <3>1, <3>2 DEF FailedOwnCleanup, Reaches, Contract!ReleaseFailed
    <3> QED BY <3>1, <3>3 DEF Contract!ContractNext
  <2> QED BY <2>1, <2>2
<1>6. CASE FailedCleanup
  <2>1. idx \in Modules /\ stage[idx] \in {"new", "stopped"}
    BY <1>6 DEF FailedCleanup, InitStageInv
  <2>2. Contract!AllStopped
    <3>1. /\ Unreached("released")
          /\ \A m \in Modules : m <= endIdx =>
               stage[m] \in (IF m <= idx THEN {"new", "stopped"} ELSE {"cleaned"})
      BY <1>6 DEF FailedCleanup, InitStageInv
    <3>2. \A m \in Modules : m <= endIdx \/ m > endIdx BY DEF Modules
    <3> QED BY <3>1, <3>2 DEF Unreached, Contract!AllStopped
  <2> QED
    BY <1>6, <2>1, <2>2, CleanupMaps DEF FailedCleanup, Contract!ContractNext
<1>7. CASE StopModule
  <2>1. idx \in Modules /\ (enabled[idx] => stage[idx] \in {"inited", "stopping"})
    BY <1>7 DEF StopModule, RunStageInv, Running, FlagsFit, PlaceInv, LoopPCs, Callers
  <2>2. UNCHANGED stage \/ (enabled[idx] /\ (StopDone(idx) \/ StopPending(idx)))
    <3>1. CASE UNCHANGED <<modVars, flags>> BY <3>1 DEF modVars
    <3>2. CASE StaysSuspended(idx) BY <3>2 DEF StaysSuspended, modVars
    <3> QED BY <1>7, <3>1, <3>2, Zenon DEF StopModule
  <2> QED BY <2>1, <2>2, StopMaps DEF Contract!ContractNext
<1>8. CASE TimeoutModules
  <2>1. CASE idx \in Modules
    <3>1. enabled[idx] => stage[idx] \in {"inited", "stopping"}
      BY <1>8, <2>1 DEF TimeoutModules, RunStageInv, Running, FlagsFit, PlaceInv,
                        LoopPCs, Callers
    <3>2. UNCHANGED stage \/ (enabled[idx] /\ TimeoutModule(idx))
      <4>1. CASE UNCHANGED modVars BY <4>1 DEF modVars
      <4> QED BY <1>8, <2>1, <4>1, Zenon DEF TimeoutModules
    <3> QED BY <2>1, <3>1, <3>2, StopMaps DEF Contract!ContractNext
  <2>2. CASE idx \notin Modules BY <1>8, <2>2 DEF TimeoutModules, modVars
  <2> QED BY <2>1, <2>2
<1>9. CASE CloseModule
  <2>1. idx \in Modules /\ stage[idx] \in {"new", "stopped"}
    BY <1>9 DEF CloseModule, RunStageInv
  <2>2. Contract!AllStopped
    BY <1>9 DEF CloseModule, RunStageInv, Contract!AllStopped
  <2> QED BY <1>9, <2>1, <2>2, CleanupMaps DEF CloseModule, Contract!ContractNext
<1>10. CASE UNCHANGED vars BY <1>10 DEF vars, modVars
<1>11. CASE InitSteps
  BY <1>1, <1>2, <1>11
  DEF InitSteps, InitSetup, InitBus, InitReload, AllInitedLate, PidFileFails,
      InitSucceeds, UpstreamTimeout, modVars
<1>12. CASE FailSteps
  BY <1>3, <1>4, <1>5, <1>6, <1>12
  DEF FailSteps, FailedBegin, FailedHead, FailedStopEnd, FailedOwnStop, FailedEnd,
      modVars
<1>13. CASE LoopSteps
  BY <1>7, <1>8, <1>9, <1>13
  DEF LoopSteps, LeaveLoop, CopySignals, ClearSignals, HandleSignals, CheckStop,
      StopModulesEnd, Settle, InnerEnd, CloseApp, modVars
<1>14. CASE DestroySteps \/ UserSteps \/ Environment
  BY <1>14
  DEF DestroySteps, DestroyLoop, Unbind, UserSteps, CallInit, CallRun, CallStop,
      CallDestroy, Environment, UpstreamReady, InitPump, TimeoutFires, TickBreaks,
      EventStops, SigTerm, modVars
<1> QED BY <1>10, <1>11, <1>12, <1>13, <1>14, Zenon DEF Next

\* The comments of atapp_module_impl.h: every module gets init() once, stop()
\* until it is done or its time is over, and cleanup() once, after all modules
\* have stopped; one whose init() failed gets init_failed_cleanup() instead.
THEOREM AppKeepsContract == ASSUME OrderlyInit PROVE Spec => KeepsContract
<1>1. Init => Contract!ContractInit BY DEF Init, Contract!ContractInit
<1>2. StageInv /\ [Next]_vars => [Contract!ContractNext]_stage
  BY NextKeepsContract
<1> QED
  BY SpecStageInv, <1>1, <1>2, PTL DEF Spec, KeepsContract, Contract!ContractSpec
=============================================================================
