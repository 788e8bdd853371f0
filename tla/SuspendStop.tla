---------------------------- MODULE SuspendStop -----------------------------
(* module_impl::suspend_stop() and check_suspend_stop()                     *)
(* (src/src/atframe/atapp_module_impl.cpp): a module delays its own stop()  *)
(* with a callback and a duration. The app, once stopping, asks             *)
(* check_suspend_stop() in every round and calls stop() when it is FALSE.   *)
EXTENDS Integers

CONSTANTS
    MaxTime,      \* the clock stops here
    Durations,    \* durations a module asks for
    MaxSuspends   \* how often the module calls suspend_stop()

ASSUME SuspendAssumption ==
    /\ MaxTime \in Nat /\ MaxSuspends \in Nat
    /\ Durations \subseteq Nat \ {0}

NoTime == -1

VARIABLES
    now,       \* app::get_sys_now()
    callback,  \* stop_suspend_callback is set
    duration,  \* stop_suspend_duration
    timeout,   \* stop_suspend_timeout, NoTime for time_point::min()
    suspends,  \* calls of suspend_stop()
    running,   \* stop() has not answered 0 yet
    looked,    \* history: when a suspension was checked for the first time
    granted,   \* history: the duration that was asked for then
    outcome    \* history: what the last round did

vars == <<now, callback, duration, timeout, suspends, running, looked, granted, outcome>>

Init ==
    /\ now = 0 /\ callback = FALSE
    /\ duration = 5 /\ timeout = NoTime   \* the constructor's five seconds
    /\ suspends = 0 /\ running = TRUE
    /\ looked = NoTime /\ granted = 0 /\ outcome = "none"

(* suspend_stop(d, fn), before the app stops or from inside stop().         *)
SuspendCall(d) ==
    /\ suspends < MaxSuspends /\ running
    /\ callback' = TRUE /\ duration' = d
    /\ suspends' = suspends + 1
    /\ outcome' = "none"
    /\ UNCHANGED <<now, timeout, running, looked, granted>>

Pass == /\ now < MaxTime
        /\ now' = now + 1
        /\ outcome' = "none"
        /\ UNCHANGED <<callback, duration, timeout, suspends, running, looked, granted>>

(* The deadline is fixed by the first check after construction.             *)
DeadlineWithoutDuration == IF timeout = NoTime THEN now ELSE timeout
Deadline == IF timeout = NoTime THEN now + duration ELSE timeout

ExpiredNever == FALSE
Expired == now >= Deadline

(* History: when and with which duration a suspension was first checked.    *)
FirstLook == IF looked = NoTime /\ callback
             THEN looked' = now /\ granted' = duration
             ELSE UNCHANGED <<looked, granted>>

(* check_suspend_stop(): the callback still answers TRUE.                   *)
StillSuspended ==
    /\ running /\ callback /\ ~Expired
    /\ timeout' = Deadline /\ outcome' = "suspended"
    /\ FirstLook
    /\ UNCHANGED <<now, callback, duration, suspends, running>>

(* It is dropped, because its time is over or its answer is FALSE, and      *)
(* stop() is called; stop() answers "done" or asks to be called again.      *)
StopCalled ==
    /\ running
    /\ \/ ~callback /\ outcome' = "stop" /\ UNCHANGED timeout
       \/ callback /\ Expired /\ outcome' = "expired" /\ timeout' = Deadline
       \/ callback /\ ~Expired /\ outcome' = "stop" /\ timeout' = Deadline
    /\ callback' = FALSE
    /\ FirstLook
    /\ running' \in BOOLEAN
    /\ UNCHANGED <<now, duration, suspends>>

Next == (\E d \in Durations : SuspendCall(d)) \/ Pass \/ StillSuspended \/ StopCalled

Spec == Init /\ [][Next]_vars

(* The suspension of a module that suspends once only expires after the     *)
(* duration it asked for, counted from the first time the stopping app      *)
(* looked at it. (A second one has no time of its own: see the README.)     *)
SuspensionGranted ==
    outcome = "expired" /\ suspends = 1 => now >= looked + duration

(* However often a module suspends its stop(), before or during the stop,   *)
(* it delays it no longer than the duration first granted.                  *)
SuspensionsBounded ==
    [][outcome' = "suspended" => now < looked' + granted']_vars
=============================================================================
