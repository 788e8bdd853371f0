------------------------------ MODULE JobPool -------------------------------
(***************************************************************************)
(* What the worker pool promises its callers about a job, whatever threads *)
(* and queues it uses: a job spawn has accepted waits until some thread    *)
(* takes it, runs there once and is finished. No accepted job disappears,  *)
(* and none is run twice.                                                  *)
(***************************************************************************)
EXTENDS Naturals

CONSTANT Jobs

VARIABLES
  waiting,   \* accepted and not taken yet
  running,   \* taken by a thread
  finished   \* the action has returned

poolVars == <<waiting, running, finished>>

PoolInit ==
  /\ waiting = {}
  /\ running = {}
  /\ finished = {}

Accept(j) ==
  /\ j \notin waiting \cup running \cup finished
  /\ waiting' = waiting \cup {j}
  /\ UNCHANGED <<running, finished>>

Take(j) ==
  /\ j \in waiting
  /\ waiting' = waiting \ {j}
  /\ running' = running \cup {j}
  /\ UNCHANGED finished

Finish(j) ==
  /\ j \in running
  /\ running' = running \ {j}
  /\ finished' = finished \cup {j}
  /\ UNCHANGED waiting

\* The main thread takes and finishes a shared job within one step.
RunInPlace(j) ==
  /\ j \in waiting
  /\ waiting' = waiting \ {j}
  /\ finished' = finished \cup {j}
  /\ UNCHANGED running

PoolNext == \E j \in Jobs : Accept(j) \/ Take(j) \/ Finish(j) \/ RunInPlace(j)

PoolSpec == PoolInit /\ [][PoolNext]_poolVars

=============================================================================
