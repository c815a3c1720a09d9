----------------------------- MODULE ThreadPool -----------------------------
(***************************************************************************)
(* thread_pool_base<queue_wrap<>> of core/threadpool/thread_pool.h: worker *)
(* threads that wait on a condition variable with a time limit, callers    *)
(* that insert tasks and stop the pool, tasks that do the same from inside *)
(* a worker, and the owner that joins the workers in wait() or in the      *)
(* destructor.                                                             *)
(*                                                                         *)
(* A critical section of m_queue_mtx is one step: everything it reads and  *)
(* writes except m_stop is only touched under the mutex, and it never      *)
(* touches m_stop.  A wait on m_condition ends the critical section.  The  *)
(* accesses to the atomic m_stop are steps of their own.                   *)
(***************************************************************************)
EXTENDS Naturals, Sequences, FiniteSets, Functions

CONSTANTS PoolSize,  \* pool_size, the number of worker threads
          Callers,   \* threads outside the pool that hold a reference to it
          Owner,     \* the caller that waits for and destroys the pool
          Tasks,     \* distinct std::function objects, each inserted once
          NoTask     \* a default constructed Item

Workers == 1 .. PoolSize
Agents == Callers \cup Workers

ASSUME PoolSizeAssumption == PoolSize \in Nat
ASSUME CallersAssumption == Owner \in Callers /\ Callers \cap Workers = {}
ASSUME TasksAssumption == NoTask \notin Tasks

VARIABLES
  m_stop,   \* std::atomic<bool> m_stop
  m_tasks,  \* the queue_wrap's std::queue
  pc,       \* where each worker is in its loop
  task,     \* the local Item task of each worker
  op,       \* the pool operation an agent is in the middle of
  arg,      \* the task an agent in insert() is about to push
  owner,    \* where the owner is in wait() or in the destructor
  next,     \* position of the owner's join loop in m_workers
  joined,   \* workers whose std::thread is no longer joinable
  used,     \* tasks that were given to insert()
  pushed,   \* history: tasks in the order of push_item
  begun,    \* history: tasks in the order of task()
  done,     \* tasks whose task() returned or threw
  dropped   \* tasks popped and destroyed without having run

vars == <<m_stop, m_tasks, pc, task, op, arg, owner, next, joined,
          used, pushed, begun, done, dropped>>

workerVars == <<pc, task, begun, done, dropped>>
callVars == <<op, arg, used, pushed>>
ownerVars == <<owner, next, joined>>

Init == /\ m_stop = FALSE
        /\ m_tasks = << >>
        /\ pc = [w \in Workers |-> "loop"]
        /\ task = [w \in Workers |-> NoTask]
        /\ op = [a \in Agents |-> "none"]
        /\ arg = [a \in Agents |-> NoTask]
        /\ owner = "open" /\ next = 1 /\ joined = {}
        /\ used = {} /\ pushed = << >> /\ begun = << >>
        /\ done = {} /\ dropped = {}

-----------------------------------------------------------------------------
(* m_condition: Waiting threads and the effect of the notifications. *)

Waiting == {w \in Workers : pc[w] = "wait"}

\* Mutant: the notification is forgotten.
NotifyOne_Lost(f) == f = pc

\* notify_one wakes one waiting thread, if there is any.
NotifyOne(f) == IF Waiting = {} THEN f = pc
                ELSE \E w \in Waiting : f = [pc EXCEPT ![w] = "notified"]

\* notify_all wakes every waiting thread.
NotifyAll == [w \in Workers |-> IF pc[w] = "wait" THEN "notified" ELSE pc[w]]

-----------------------------------------------------------------------------
(* The worker's loop. *)

\* while (!m_stop)
LoopTest(w) == /\ pc[w] = "loop"
               /\ pc' = [pc EXCEPT ![w] = IF m_stop THEN "exit" ELSE "pop"]
               /\ UNCHANGED <<m_stop, m_tasks, task, begun, done, dropped>>
               /\ UNCHANGED <<callVars, ownerVars>>

\* Mutants: front() read after pop(); no pop().
TakeFront_PopFirst(w) ==
  /\ m_tasks # << >>
  /\ task' = [task EXCEPT ![w] = IF Len(m_tasks) = 1 THEN NoTask ELSE m_tasks[2]]
  /\ m_tasks' = Tail(m_tasks)
  /\ pc' = [pc EXCEPT ![w] = "test"]
TakeFront_NoPop(w) == /\ m_tasks # << >>
                      /\ task' = [task EXCEPT ![w] = Head(m_tasks)]
                      /\ pc' = [pc EXCEPT ![w] = "test"]
                      /\ UNCHANGED m_tasks

\* task = std::move(front()); pop(): the worker goes on to test m_stop again.
TakeFront(w) == /\ m_tasks # << >>
                /\ task' = [task EXCEPT ![w] = Head(m_tasks)]
                /\ m_tasks' = Tail(m_tasks)
                /\ pc' = [pc EXCEPT ![w] = "test"]

\* block_pop_item up to its first wait: the predicate is tested under the lock.
BlockPop(w) == /\ pc[w] = "pop"
               /\ \/ TakeFront(w)
                  \/ /\ m_tasks = << >>
                     /\ pc' = [pc EXCEPT ![w] = "wait"]
                     /\ UNCHANGED <<m_tasks, task>>
               /\ UNCHANGED <<m_stop, begun, done, dropped, callVars, ownerVars>>

\* A notified worker gets the lock back; wait_for tests the predicate, which
\* knows nothing of m_stop, and waits again while the queue is empty.
Wake(w) == /\ pc[w] = "notified"
           /\ \/ TakeFront(w)
              \/ /\ m_tasks = << >>
                 /\ pc' = [pc EXCEPT ![w] = "wait"]
                 /\ UNCHANGED <<m_tasks, task>>
           /\ UNCHANGED <<m_stop, begun, done, dropped, callVars, ownerVars>>

\* A wait may return without a notification.
SpuriousWake(w) == /\ pc[w] = "wait"
                   /\ pc' = [pc EXCEPT ![w] = "notified"]
                   /\ UNCHANGED <<m_stop, m_tasks, task, begun, done, dropped>>
                   /\ UNCHANGED <<callVars, ownerVars>>

\* The time limit of wait_for passes; the thread competes for the lock.
Timeout(w) == /\ pc[w] = "wait"
              /\ pc' = [pc EXCEPT ![w] = "timeout"]
              /\ UNCHANGED <<m_stop, m_tasks, task, begun, done, dropped>>
              /\ UNCHANGED <<callVars, ownerVars>>

\* Mutant: a worker whose time limit passed goes on waiting.
WakeTimedOut_Again(w) == /\ pc[w] = "timeout"
                         /\ \/ TakeFront(w)
                            \/ /\ m_tasks = << >>
                               /\ pc' = [pc EXCEPT ![w] = "wait"]
                               /\ UNCHANGED <<m_tasks, task>>
                         /\ UNCHANGED <<m_stop, begun, done, dropped>>
                         /\ UNCHANGED <<callVars, ownerVars>>

\* After the time limit wait_for returns the predicate; block_pop_item
\* returns false on an empty queue.
WakeTimedOut(w) == /\ pc[w] = "timeout"
                   /\ \/ TakeFront(w)
                      \/ /\ m_tasks = << >>
                         /\ pc' = [pc EXCEPT ![w] = "loop"]
                         /\ UNCHANGED <<m_tasks, task>>
                   /\ UNCHANGED <<m_stop, begun, done, dropped>>
                   /\ UNCHANGED <<callVars, ownerVars>>

\* Mutant: m_stop is not tested between the pop and the call.
BeginTask_NoTest(w) == /\ pc[w] = "test"
                       /\ pc' = [pc EXCEPT ![w] = "run"]
                       /\ begun' = Append(begun, task[w])
                       /\ UNCHANGED <<m_stop, m_tasks, task, done, dropped>>
                       /\ UNCHANGED <<callVars, ownerVars>>

\* if (!m_stop) task(): otherwise the popped task is destroyed unrun.
BeginTask(w) == /\ pc[w] = "test" /\ ~m_stop
                /\ pc' = [pc EXCEPT ![w] = "run"]
                /\ begun' = Append(begun, task[w])
                /\ UNCHANGED <<m_stop, m_tasks, task, done, dropped>>
                /\ UNCHANGED <<callVars, ownerVars>>

DropTask(w) == /\ pc[w] = "test" /\ m_stop
               /\ pc' = [pc EXCEPT ![w] = "loop"]
               /\ dropped' = dropped \cup {task[w]}
               /\ task' = [task EXCEPT ![w] = NoTask]
               /\ UNCHANGED <<m_stop, m_tasks, begun, done, callVars, ownerVars>>

\* Mutant: an exception of the task ends the worker's loop.
EndTask_Uncaught(w) == /\ pc[w] = "run" /\ op[w] = "none"
                       /\ pc' = [pc EXCEPT ![w] = "exit"]
                       /\ done' = done \cup {task[w]}
                       /\ task' = [task EXCEPT ![w] = NoTask]
                       /\ UNCHANGED <<m_stop, m_tasks, begun, dropped>>
                       /\ UNCHANGED <<callVars, ownerVars>>

\* task() returns, or throws a std::exception that the worker catches.
EndTask(w) == /\ pc[w] = "run" /\ op[w] = "none"
              /\ pc' = [pc EXCEPT ![w] = "loop"]
              /\ done' = done \cup {task[w]}
              /\ task' = [task EXCEPT ![w] = NoTask]
              /\ UNCHANGED <<m_stop, m_tasks, begun, dropped, callVars, ownerVars>>

-----------------------------------------------------------------------------
(* insert() and stop(), called by a thread outside or by a running task. *)

\* Agents that may call the pool: the pool object is alive for threads
\* outside it until the destructor begins, and for a task while it runs.
MayCall(a) == /\ op[a] = "none"
              /\ \/ a \in Workers /\ pc[a] = "run"
                 \/ a = Owner /\ owner = "open"
                 \/ a \in Callers \ {Owner} /\ owner \in {"open", "wait"}

\* insert() up to the test of m_stop: it throws on a stopped pool.
InsertTest(a, t) ==
  /\ MayCall(a) /\ t \notin used
  /\ used' = used \cup {t}
  /\ IF m_stop THEN UNCHANGED <<op, arg>>
     ELSE /\ op' = [op EXCEPT ![a] = "insert"]
          /\ arg' = [arg EXCEPT ![a] = t]
  /\ UNCHANGED <<m_stop, m_tasks, pushed, workerVars, ownerVars>>

\* push_item: emplace and notify_one under the lock.
PushItem(a) == /\ op[a] = "insert"
               /\ m_tasks' = Append(m_tasks, arg[a])
               /\ NotifyOne(pc')
               /\ pushed' = Append(pushed, arg[a])
               /\ op' = [op EXCEPT ![a] = "none"]
               /\ arg' = [arg EXCEPT ![a] = NoTask]
               /\ UNCHANGED <<m_stop, task, begun, done, dropped, used, ownerVars>>

\* stop() on a pool that is not stopped; on a stopped one it does nothing.
StopTest(a) == /\ MayCall(a) /\ ~m_stop
               /\ op' = [op EXCEPT ![a] = "stop"]
               /\ UNCHANGED <<m_stop, m_tasks, arg, used, pushed>>
               /\ UNCHANGED <<workerVars, ownerVars>>

SetStop(a) == /\ op[a] = "stop"
              /\ m_stop' = TRUE
              /\ op' = [op EXCEPT ![a] = "exit_block"]
              /\ UNCHANGED <<m_tasks, arg, used, pushed, workerVars, ownerVars>>

ExitBlock(a) == /\ op[a] = "exit_block"
                /\ pc' = NotifyAll
                /\ op' = [op EXCEPT ![a] = "none"]
                /\ UNCHANGED <<m_stop, m_tasks, task, begun, done, dropped>>
                /\ UNCHANGED <<arg, used, pushed, ownerVars>>

-----------------------------------------------------------------------------
(* wait() and the destructor, called by the owner. *)

OwnerUnchanged == UNCHANGED <<m_tasks, callVars, workerVars>>

WaitCall == /\ owner = "open" /\ op[Owner] = "none"
            /\ owner' = "wait" /\ next' = 1
            /\ UNCHANGED <<m_stop, joined>> /\ OwnerUnchanged

\* join() of the next worker; it throws if that worker was joined before.
WaitJoin == /\ owner = "wait" /\ next \in Workers
            /\ \/ /\ next \in joined
                  /\ owner' = "open"
                  /\ UNCHANGED <<next, joined>>
               \/ /\ next \notin joined /\ pc[next] = "exit"
                  /\ joined' = joined \cup {next}
                  /\ next' = next + 1
                  /\ UNCHANGED owner
            /\ UNCHANGED m_stop /\ OwnerUnchanged

WaitReturn == /\ owner = "wait" /\ next \notin Workers
              /\ owner' = "open"
              /\ UNCHANGED <<m_stop, next, joined>> /\ OwnerUnchanged

\* Mutant: the destructor joins without having stopped the pool.
DtorTest_NoStop == /\ owner = "open" /\ \A c \in Callers : op[c] = "none"
                   /\ owner' = "join" /\ next' = 1
                   /\ UNCHANGED <<m_stop, joined>> /\ OwnerUnchanged

\* The destructor begins when no thread outside is inside the pool any more.
DtorTest == /\ owner = "open" /\ \A c \in Callers : op[c] = "none"
            /\ owner' = IF m_stop THEN "join" ELSE "set_stop"
            /\ next' = 1
            /\ UNCHANGED <<m_stop, joined>> /\ OwnerUnchanged

DtorSetStop == /\ owner = "set_stop"
               /\ m_stop' = TRUE
               /\ owner' = "exit_block"
               /\ UNCHANGED <<next, joined>> /\ OwnerUnchanged

DtorExitBlock == /\ owner = "exit_block"
                 /\ pc' = NotifyAll
                 /\ owner' = "join"
                 /\ UNCHANGED <<m_stop, next, joined, m_tasks, callVars>>
                 /\ UNCHANGED <<task, begun, done, dropped>>

\* Mutant: the destructor detaches the workers.
DtorJoin_Detach == /\ owner = "join" /\ next \in Workers
                   /\ joined' = joined \cup {next}
                   /\ next' = next + 1
                   /\ UNCHANGED <<m_stop, owner>> /\ OwnerUnchanged

\* Workers that are joinable are joined, one after the other.
DtorJoin == /\ owner = "join" /\ next \in Workers
            /\ next \in joined \/ pc[next] = "exit"
            /\ joined' = joined \cup {next}
            /\ next' = next + 1
            /\ UNCHANGED <<m_stop, owner>> /\ OwnerUnchanged

DtorReturn == /\ owner = "join" /\ next \notin Workers
              /\ owner' = "destroyed"
              /\ UNCHANGED <<m_stop, next, joined>> /\ OwnerUnchanged

\* After the destructor nothing happens any more.
Destroyed == owner = "destroyed" /\ UNCHANGED vars

-----------------------------------------------------------------------------
WorkerStep(w) == \/ LoopTest(w) \/ BlockPop(w) \/ Wake(w) \/ WakeTimedOut(w)
                 \/ BeginTask(w) \/ DropTask(w) \/ EndTask(w)

CallStep(a) == PushItem(a) \/ SetStop(a) \/ ExitBlock(a)

Join == WaitJoin \/ WaitReturn \/ DtorSetStop \/ DtorExitBlock
        \/ DtorJoin \/ DtorReturn

Next == \/ \E w \in Workers : WorkerStep(w) \/ SpuriousWake(w) \/ Timeout(w)
        \/ \E a \in Agents : CallStep(a) \/ StopTest(a)
        \/ \E a \in Agents, t \in Tasks : InsertTest(a, t)
        \/ WaitCall \/ DtorTest \/ Join \/ Destroyed

Spec == Init /\ [][Next]_vars

\* Threads are scheduled, tasks end, and the absolute time limit of wait_for
\* is reached however often a waiting worker is notified in between.
Fairness == /\ \A w \in Workers : WF_vars(WorkerStep(w)) /\ SF_vars(Timeout(w))
            /\ \A a \in Agents : WF_vars(CallStep(a))
            /\ WF_vars(Join)

FairSpec == Spec /\ Fairness

-----------------------------------------------------------------------------
(* Correctness. *)

Idle == {"none", "insert", "stop", "exit_block"}
Holding == {w \in Workers : pc[w] \in {"test", "run"}}
Held == {task[w] : w \in Holding}

\* Types; a worker has a task between the pop and the end of its execution,
\* an agent in push_item has the task it pushes (thread_pool.h:50-67, 105-114).
TypeOK ==
  /\ m_stop \in BOOLEAN
  /\ m_tasks \in Seq(Tasks)
  /\ pc \in [Workers -> {"loop", "pop", "wait", "notified", "timeout",
                         "test", "run", "exit"}]
  /\ task \in [Workers -> Tasks \cup {NoTask}]
  /\ \A w \in Workers : task[w] \in Tasks <=> w \in Holding
  /\ op \in [Agents -> Idle]
  /\ arg \in [Agents -> Tasks \cup {NoTask}]
  /\ \A a \in Agents : arg[a] \in Tasks <=> op[a] = "insert"
  /\ owner \in {"open", "wait", "set_stop", "exit_block", "join", "destroyed"}
  /\ next \in 1 .. PoolSize + 1
  /\ joined \subseteq Workers
  /\ used \subseteq Tasks /\ done \subseteq Tasks /\ dropped \subseteq Tasks
  /\ pushed \in Seq(Tasks) /\ begun \in Seq(Tasks)

\* Every task that push_item accepted is in exactly one place: the queue, the
\* hands of one worker, or among the finished or the dropped ones.  No task is
\* lost, none is in the hands of two workers, none is queued twice
\* (front/pop under the lock, thread_pool.h:159-167).
TasksConserved ==
  /\ Range(pushed) = Range(m_tasks) \cup Held \cup done \cup dropped
  /\ IsInjective(m_tasks)
  /\ \A v, w \in Holding : v # w => task[v] # task[w]
  /\ Range(m_tasks) \cap (Held \cup done \cup dropped) = {}
  /\ Held \cap (done \cup dropped) = {}
  /\ done \cap dropped = {}

\* No lost wake-up: while some worker sleeps un-notified, there is a notified
\* worker on its way to every queued task, so that no task waits for the time
\* limit (notify_one in push_item, predicate of wait_for, thread_pool.h:160, 175).
NoLostWakeup ==
  Waiting # {} => Len(m_tasks) <= Cardinality({w \in Workers : pc[w] = "notified"})

\* When the destructor has returned, no worker and no task can touch the pool's
\* members any more (join loop, thread_pool.h:79-85).
DestroyedQuiescent ==
  owner = "destroyed" => /\ \A w \in Workers : pc[w] = "exit"
                         /\ \A a \in Agents : op[a] = "none"

\* Once the pool is stopped, every worker leaves its loop, although the
\* predicate of the wait ignores m_stop (thread_pool.h:50, 160).
StopQuiesces == m_stop ~> \A w \in Workers : pc[w] = "exit"

\* A task that was accepted is executed unless the pool is stopped.
AcceptedRuns == PoolSize > 0 =>
  \A t \in Tasks : (t \in Range(m_tasks)) ~> (t \in done \/ m_stop)

\* The destructor returns, whatever tasks do while it joins.
DtorReturns == (owner \in {"set_stop", "join"}) ~> (owner = "destroyed")

TP == INSTANCE TaskPool WITH
        N <- PoolSize, stopped <- m_stop, adrift <- {}, pending <- m_tasks,
        claimed <- {task[w] : w \in {v \in Workers : pc[v] = "test"}},
        running <- {task[w] : w \in {v \in Workers : pc[v] = "run"}}

\* The pool implements the abstract task pool: tasks are claimed first in first
\* out, begin at most once and never after stop(), and are dropped only after it.
RefinesTaskPool == TP!Spec
=============================================================================
