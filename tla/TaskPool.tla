------------------------------ MODULE TaskPool ------------------------------
(***************************************************************************)
(* What a thread pool promises to the code that inserts tasks into it,     *)
(* without threads, mutex, condition variable or time:                     *)
(*   - a task is claimed in the order of insertion, by at most N claimants *)
(*     at a time, and never twice;                                         *)
(*   - a claimed task begins only while the pool is not stopped, and is    *)
(*     given up only once the pool is stopped;                             *)
(*   - a stopped pool never starts again.                                  *)
(* An insertion that loses the race against stop() is still accepted, and  *)
(* a task may be accepted before it is in reach of the claimants, or never *)
(* come in their reach: the promise is at most once, not exactly once.     *)
(***************************************************************************)
EXTENDS Naturals, Sequences, FiniteSets, Functions

CONSTANTS N,     \* number of workers
          Tasks  \* the tasks that may be submitted, each at most once

VARIABLES stopped,  \* the pool was told to stop
          adrift,   \* accepted tasks that are out of reach
          pending,  \* tasks in the order in which they came in reach
          claimed,  \* tasks taken by a worker and not begun
          running,  \* tasks being executed
          done,     \* tasks whose execution ended
          dropped   \* tasks given up because the pool had stopped

vars == <<stopped, adrift, pending, claimed, running, done, dropped>>

Init == /\ stopped = FALSE
        /\ adrift = {} /\ pending = << >>
        /\ claimed = {} /\ running = {} /\ done = {} /\ dropped = {}

\* Tasks that were accepted, whatever became of them.
Accepted == adrift \cup Range(pending) \cup claimed \cup running \cup done \cup dropped

Submit(t) == /\ t \notin Accepted
             /\ pending' = Append(pending, t)
             /\ UNCHANGED <<stopped, adrift, claimed, running, done, dropped>>

Accept(t) == /\ t \notin Accepted
             /\ adrift' = adrift \cup {t}
             /\ UNCHANGED <<stopped, pending, claimed, running, done, dropped>>

Reach(t) == /\ t \in adrift
            /\ adrift' = adrift \ {t}
            /\ pending' = Append(pending, t)
            /\ UNCHANGED <<stopped, claimed, running, done, dropped>>

Claim == /\ pending # << >>
         /\ Cardinality(claimed \cup running) < N
         /\ claimed' = claimed \cup {Head(pending)}
         /\ pending' = Tail(pending)
         /\ UNCHANGED <<stopped, adrift, running, done, dropped>>

Begin(t) == /\ t \in claimed
            /\ ~stopped
            /\ claimed' = claimed \ {t}
            /\ running' = running \cup {t}
            /\ UNCHANGED <<stopped, adrift, pending, done, dropped>>

Drop(t) == /\ t \in claimed
           /\ stopped
           /\ claimed' = claimed \ {t}
           /\ dropped' = dropped \cup {t}
           /\ UNCHANGED <<stopped, adrift, pending, running, done>>

Finish(t) == /\ t \in running
             /\ running' = running \ {t}
             /\ done' = done \cup {t}
             /\ UNCHANGED <<stopped, adrift, pending, claimed, dropped>>

Stop == /\ stopped' = TRUE
        /\ UNCHANGED <<adrift, pending, claimed, running, done, dropped>>

Next == \/ \E t \in Tasks : Submit(t) \/ Accept(t) \/ Reach(t)
        \/ \E t \in Tasks : Begin(t) \/ Drop(t) \/ Finish(t)
        \/ Claim
        \/ Stop

Spec == Init /\ [][Next]_vars
=============================================================================
