------------------------- MODULE SuspendStopProofs --------------------------
(***************************************************************************)
(* Proofs about SuspendStop for every clock bound, every set of durations  *)
(* and any number of suspensions.                                          *)
(***************************************************************************)
EXTENDS SuspendStop, TLAPS

\* The types the arithmetic of the deadline needs.
ClockInv ==
  /\ now \in Nat /\ suspends \in Nat
  /\ callback \in BOOLEAN
  /\ duration \in Nat /\ granted \in Nat
  /\ timeout \in Nat \cup {NoTime}
  /\ looked \in Nat \cup {NoTime}

\* stop_suspend_timeout is written by the first check that finds a callback
\* and never again: it stays the first look plus the duration of then.
DeadlineInv ==
  /\ timeout = NoTime <=> looked = NoTime
  /\ looked # NoTime => timeout = looked + granted

\* A module that suspended once still has the duration it was granted.
OnceInv ==
  /\ callback \/ looked # NoTime => suspends > 0
  /\ looked # NoTime /\ suspends = 1 => granted = duration
  /\ outcome = "expired" => looked # NoTime /\ now >= looked + granted

SuspendInv == ClockInv /\ DeadlineInv /\ OnceInv

LEMMA InitSuspendInv == ASSUME Init PROVE SuspendInv
  BY DEF Init, SuspendInv, ClockInv, DeadlineInv, OnceInv, NoTime

\* A check that finds a callback leaves a deadline that belongs to the first
\* look, whether this check is the first or not.
LEMMA CheckFixesDeadline ==
  ASSUME ClockInv, DeadlineInv, OnceInv, callback,
         timeout' = Deadline, FirstLook, UNCHANGED <<duration, suspends>>
  PROVE  \E first, length \in Nat :
           /\ looked' = first /\ granted' = length
           /\ timeout' = first + length /\ Deadline = first + length
           /\ suspends' = 1 => length = duration'
<1>1. CASE looked = NoTime
  <2>1. /\ looked' = now /\ granted' = duration
        /\ timeout' = now + duration /\ Deadline = now + duration
    BY <1>1 DEF ClockInv, DeadlineInv, Deadline, FirstLook, NoTime
  <2> QED BY <2>1 DEF ClockInv
<1>2. CASE looked # NoTime
  <2>1. /\ looked' = looked /\ granted' = granted
        /\ timeout' = looked + granted /\ Deadline = looked + granted
        /\ suspends' = 1 => granted = duration'
    BY <1>2 DEF ClockInv, DeadlineInv, OnceInv, Deadline, FirstLook, NoTime
  <2> QED BY <1>2, <2>1 DEF ClockInv
<1> QED BY <1>1, <1>2

LEMMA NextSuspendInv == ASSUME SuspendInv, [Next]_vars PROVE SuspendInv'
<1> USE DEF SuspendInv
<1>1. ASSUME NEW d \in Durations, SuspendCall(d) PROVE SuspendInv'
  BY <1>1, SuspendAssumption
  DEF SuspendCall, ClockInv, DeadlineInv, OnceInv, NoTime
<1>2. CASE Pass
  BY <1>2 DEF Pass, ClockInv, DeadlineInv, OnceInv, NoTime
<1>3. CASE StillSuspended
  <2>1. PICK first, length \in Nat :
          /\ looked' = first /\ granted' = length
          /\ timeout' = first + length
          /\ suspends' = 1 => length = duration'
    BY <1>3, CheckFixesDeadline DEF StillSuspended
  <2>2. /\ UNCHANGED <<now, callback, duration, suspends>>
        /\ callback /\ outcome' # "expired"
    BY <1>3 DEF StillSuspended
  <2> QED BY <2>1, <2>2 DEF ClockInv, DeadlineInv, OnceInv, NoTime
<1>4. CASE StopCalled
  <2>1. CASE ~callback
    <3>1. /\ outcome' = "stop" /\ callback' = FALSE
          /\ UNCHANGED <<now, duration, timeout, suspends, looked, granted>>
      BY <1>4, <2>1 DEF StopCalled, FirstLook
    <3> QED BY <3>1 DEF ClockInv, DeadlineInv, OnceInv, NoTime
  <2>2. CASE callback
    <3>1. /\ timeout' = Deadline /\ FirstLook /\ callback' = FALSE
          /\ UNCHANGED <<now, duration, suspends>>
          /\ outcome' = "expired" => now >= Deadline
      BY <1>4, <2>2 DEF StopCalled, Expired
    <3>2. PICK first, length \in Nat :
            /\ looked' = first /\ granted' = length
            /\ timeout' = first + length /\ Deadline = first + length
            /\ suspends' = 1 => length = duration'
      BY <2>2, <3>1, CheckFixesDeadline
    <3>3. outcome' = "expired" => now >= first + length
      BY <3>1, <3>2
    <3>4. ClockInv'
      <4>1. now' \in Nat /\ suspends' \in Nat /\ duration' \in Nat
        BY <3>1 DEF ClockInv
      <4>2. looked' \in Nat /\ granted' \in Nat /\ timeout' \in Nat
        BY <3>2
      <4> QED BY <3>1, <4>1, <4>2 DEF ClockInv
    <3>5. DeadlineInv'
      BY <3>2 DEF DeadlineInv, NoTime
    <3>6. suspends' > 0
      BY <2>2, <3>1 DEF OnceInv
    <3>7. outcome' = "expired" => looked' # NoTime /\ now' >= looked' + granted'
      BY <3>1, <3>2, <3>3 DEF NoTime
    <3>8. OnceInv'
      BY <3>1, <3>2, <3>6, <3>7 DEF OnceInv
    <3> QED BY <3>4, <3>8, <3>5
  <2> QED BY <2>1, <2>2 DEF ClockInv
<1>5. CASE UNCHANGED vars
  BY <1>5 DEF vars, ClockInv, DeadlineInv, OnceInv, NoTime
<1> QED BY <1>1, <1>2, <1>3, <1>4, <1>5 DEF Next

LEMMA SpecSuspendInv == Spec => []SuspendInv
<1>1. SuspendInv /\ [Next]_vars => SuspendInv' BY NextSuspendInv
<1> QED BY InitSuspendInv, <1>1, PTL DEF Spec

\* check_suspend_stop(): the suspension of a module that calls suspend_stop()
\* once expires no sooner than the duration it asked for after the first check.
THEOREM SuspensionIsGranted == Spec => []SuspensionGranted
<1>1. SuspendInv => SuspensionGranted
  BY DEF SuspendInv, OnceInv, ClockInv, SuspensionGranted
<1> QED BY SpecSuspendInv, <1>1, PTL

\* check_suspend_stop(): whatever a module asks for later, no check after the
\* duration first granted answers that the stop is suspended.
THEOREM SuspensionsAreBounded == Spec => SuspensionsBounded
<1>1. SuspendInv /\ [Next]_vars
        => [outcome' = "suspended" => now < looked' + granted']_vars
  <2> SUFFICES ASSUME SuspendInv, Next, outcome' = "suspended"
               PROVE  now < looked' + granted'
    OBVIOUS
  <2>1. StillSuspended
    BY DEF Next, SuspendCall, Pass, StopCalled
  <2>2. PICK first, length \in Nat :
          looked' = first /\ granted' = length /\ Deadline = first + length
    BY <2>1, CheckFixesDeadline DEF StillSuspended, SuspendInv
  <2>3. ~(now >= Deadline) /\ now \in Nat
    BY <2>1 DEF StillSuspended, Expired, SuspendInv, ClockInv
  <2> QED BY <2>2, <2>3
<1> QED BY SpecSuspendInv, <1>1, PTL DEF Spec, SuspensionsBounded
=============================================================================
