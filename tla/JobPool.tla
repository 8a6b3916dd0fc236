------------------------------- MODULE JobPool -------------------------------
(****************************************************************************)
(* What util.Dispatcher promises the sessions that hand it jobs: a job that *)
(* was accepted is run at most once, by one of a fixed number of workers,   *)
(* and a job is never run that was not accepted.                            *)
(****************************************************************************)
EXTENDS Naturals, FiniteSets

CONSTANTS Jobs,      \* the jobs
          PoolSize   \* the number of workers

VARIABLES waiting,   \* accepted, not started
          running,   \* handed to a worker
          finished   \* returned or panicked

vars == <<waiting, running, finished>>

Init == waiting = {} /\ running = {} /\ finished = {}

Accept(j) ==
  /\ j \notin waiting \cup running \cup finished
  /\ waiting' = waiting \cup {j}
  /\ UNCHANGED <<running, finished>>

\* One round of assignmentTask starts several jobs at once.
Start(J) ==
  /\ J # {} /\ J \subseteq waiting
  /\ Cardinality(running \cup J) <= PoolSize
  /\ waiting' = waiting \ J
  /\ running' = running \cup J
  /\ UNCHANGED finished

Finish(j) ==
  /\ j \in running
  /\ running' = running \ {j}
  /\ finished' = finished \cup {j}
  /\ UNCHANGED waiting

Next == \/ \E j \in Jobs : Accept(j) \/ Finish(j)
        \/ \E J \in SUBSET Jobs : Start(J)

Spec == Init /\ [][Next]_vars
=============================================================================
