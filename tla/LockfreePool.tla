---------------------------- MODULE LockfreePool ----------------------------
(***************************************************************************)
(* lockfree_thread_pool: thread_pool_base over lockfree_queue_wrap.  The   *)
(* pool is the one of ThreadPool; what differs is its queue.  push_item    *)
(* links a task without the mutex and takes the mutex only to notify;      *)
(* block_pop_item tests the queue under the mutex and pops after it has    *)
(* released it.                                                            *)
(*                                                                         *)
(* The queue is the one LockfreeQueue models step by step, here with one   *)
(* step for each load of m_head or m_tail that may be stale when it is     *)
(* used, and one for each exchange that takes effect.  Nodes are told by   *)
(* their position, which the tags of m_head and m_tail count (not wrapping *)
(* around).  A node that m_head has passed is freed and used again: what a *)
(* caller links behind it is lost, or comes into the queue with the task   *)
(* of another caller that has got the node.                                *)
(***************************************************************************)
EXTENDS ThreadPool

CONSTANT Nobody  \* of m_queue_mtx: it is free; of linked nodes: they are in the queue

ASSUME NobodyAssumption == Nobody \notin Agents

\* The tasks up to m_tail are m_tasks, and pushed those that m_tail ever came to.
VARIABLES
  mtx,       \* the worker that evaluates the predicate and so holds m_queue_mtx
  at,        \* position of the m_head or m_tail that an agent has loaded
  linked,    \* tasks linked behind m_tail, and behind the node a caller is to link
  lost,      \* tasks linked behind a node that is free
  accepted,  \* history: tasks that emplace has linked
  stale      \* history: some task was linked behind a node that m_head had passed

queueVars == <<mtx, at, linked, lost, accepted, stale>>
lfVars == <<vars, queueVars>>

LfInit == /\ Init
          /\ mtx = Nobody /\ at = [a \in Agents |-> 0]
          /\ linked = [x \in Agents \cup {Nobody} |-> << >>]
          /\ lost = {} /\ accepted = {} /\ stale = FALSE

-----------------------------------------------------------------------------
(* lockfree_queue as its callers see it *)

\* Positions of m_head and m_tail.
HeadPos == Len(pushed) - Len(m_tasks)
TailPos == Len(pushed)

\* m_tail is moved to the next node.
MoveTail == /\ m_tasks' = Append(m_tasks, Head(linked[Nobody]))
            /\ pushed' = Append(pushed, Head(linked[Nobody]))
            /\ linked' = [linked EXCEPT ![Nobody] = Tail(@)]

TailStays == UNCHANGED <<m_tasks, pushed, linked>>

-----------------------------------------------------------------------------
(* lockfree_queue_wrap::push_item *)

\* What the steps of emplace leave alone.
CallUnchanged == UNCHANGED <<m_stop, arg, used, workerVars, ownerVars, mtx>>

\* emplace: m_tail is loaded, again if it has moved on since or a weak exchange has
\* failed.
LfTail(a) == /\ \/ op[a] = "insert"
                \/ op[a] = "link" /\ at[a] # TailPos
             /\ op' = [op EXCEPT ![a] = "link"]
             /\ at' = [at EXCEPT ![a] = TailPos]
             /\ TailStays /\ CallUnchanged /\ UNCHANGED <<lost, accepted, stale>>

\* emplace: the node loaded has a next, to which m_tail is moved for the caller that
\* linked it.
LfHelp(a) == /\ op[a] = "link" /\ at[a] = TailPos /\ linked[Nobody] # << >>
             /\ MoveTail
             /\ op' = [op EXCEPT ![a] = "insert"] /\ at' = [at EXCEPT ![a] = 0]
             /\ CallUnchanged /\ UNCHANGED <<lost, accepted, stale>>

\* The node of a caller, with those that others have linked behind it.
Chain(a) == <<arg[a]>> \o linked[a]

\* emplace: the exchange of next.  If m_head has passed the node loaded, the node is
\* free, or is the last of the queue again, or of what another caller is to link.
LfLink(a) ==
  /\ op[a] = "link"
  /\ \/ /\ at[a] = TailPos /\ linked[Nobody] = << >>
        /\ linked' = [linked EXCEPT ![Nobody] = Chain(a), ![a] = << >>]
        /\ UNCHANGED <<lost, stale>>
     \/ /\ at[a] < HeadPos
        /\ stale' = TRUE
        /\ \/ \E x \in Agents \cup {Nobody} :
                /\ x # a /\ (x # Nobody => op[x] \in {"insert", "link"})
                /\ linked' = [linked EXCEPT ![x] = @ \o Chain(a), ![a] = << >>]
                /\ UNCHANGED lost
           \/ /\ linked' = [linked EXCEPT ![a] = << >>]
              /\ lost' = lost \cup Range(Chain(a))
  /\ accepted' = accepted \cup {arg[a]}
  /\ op' = [op EXCEPT ![a] = "swing"]
  /\ UNCHANGED <<m_tasks, pushed, at>> /\ CallUnchanged

\* Mutant: a push whose exchange of m_tail fails begins anew.
LfSwing_Anew(a) ==
  /\ op[a] = "swing"
  /\ \/ at[a] = TailPos /\ MoveTail /\ op' = [op EXCEPT ![a] = "notify"]
     \/ at[a] # TailPos /\ TailStays /\ op' = [op EXCEPT ![a] = "insert"]
  /\ at' = [at EXCEPT ![a] = 0]
  /\ CallUnchanged /\ UNCHANGED <<lost, accepted, stale>>

\* emplace: the exchange of m_tail, which fails if another call was faster.
LfSwing(a) == /\ op[a] = "swing"
              /\ \/ at[a] = TailPos /\ MoveTail
                 \/ at[a] # TailPos /\ TailStays
              /\ op' = [op EXCEPT ![a] = "notify"] /\ at' = [at EXCEPT ![a] = 0]
              /\ CallUnchanged /\ UNCHANGED <<lost, accepted, stale>>

\* Mutant: nobody is notified.
LfNotify_Lost(a) == /\ op[a] = "notify" /\ mtx = Nobody
                    /\ op' = [op EXCEPT ![a] = "none"]
                    /\ arg' = [arg EXCEPT ![a] = NoTask]
                    /\ UNCHANGED <<m_stop, m_tasks, used, pushed, workerVars>>
                    /\ UNCHANGED <<ownerVars, queueVars>>

\* notify_one under the lock.
LfNotify(a) == /\ op[a] = "notify" /\ mtx = Nobody
               /\ NotifyOne(pc')
               /\ op' = [op EXCEPT ![a] = "none"]
               /\ arg' = [arg EXCEPT ![a] = NoTask]
               /\ UNCHANGED <<m_stop, m_tasks, task, begun, done, dropped>>
               /\ UNCHANGED <<used, pushed, ownerVars, queueVars>>

-----------------------------------------------------------------------------
(* lockfree_queue_wrap::block_pop_item *)

\* What the steps of block_pop_item leave alone until a task is taken.
LfUnchanged == UNCHANGED <<m_stop, task, begun, done, dropped, op, arg, used, ownerVars,
                           lost, accepted, stale>>

\* The worker gets the lock, for the first time or after a notification, and
\* the predicate loads m_head.
LfLoadHead(w) == /\ pc[w] \in {"pop", "notified"} /\ mtx = Nobody
                 /\ pc' = [pc EXCEPT ![w] = "pred"]
                 /\ mtx' = w /\ at' = [at EXCEPT ![w] = HeadPos]
                 /\ LfUnchanged /\ TailStays

\* The predicate loads m_tail: with head == tail the worker waits and releases
\* the lock; otherwise it unlocks and goes to pop_front.
LfLoadTail(w) == /\ mtx = w
                 /\ pc' = [pc EXCEPT ![w] = IF at[w] = TailPos THEN "wait" ELSE "take"]
                 /\ mtx' = Nobody /\ at' = [at EXCEPT ![w] = 0]
                 /\ LfUnchanged /\ TailStays

\* Mutant: a worker whose time limit passed waits again on an empty queue.
LfTimedOut_Again(w) == /\ pc[w] = "timeout" /\ mtx = Nobody
                       /\ pc' = [pc EXCEPT ![w] = IF HeadPos = TailPos THEN "wait"
                                                  ELSE "take"]
                       /\ LfUnchanged /\ TailStays /\ UNCHANGED <<mtx, at>>

\* After the time limit the worker pops whatever the predicate says.
LfTimedOut(w) == /\ pc[w] = "timeout" /\ mtx = Nobody
                 /\ pc' = [pc EXCEPT ![w] = "take"]
                 /\ LfUnchanged /\ TailStays /\ UNCHANGED <<mtx, at>>

\* Mutant: the pop trusts the predicate, which was tested under the lock.
LfPop_Trusting(w) ==
  /\ pc[w] = "take"
  /\ pc' = [pc EXCEPT ![w] = "test"]
  /\ task' = [task EXCEPT ![w] = IF m_tasks = << >> THEN NoTask ELSE Head(m_tasks)]
  /\ m_tasks' = IF m_tasks = << >> THEN m_tasks ELSE Tail(m_tasks)
  /\ UNCHANGED <<m_stop, begun, done, dropped, callVars, ownerVars, queueVars>>

\* pop_front after the unlock: the exchange of m_head, or head == tail.
LfPop(w) == /\ pc[w] = "take"
            /\ \/ TakeFront(w) /\ UNCHANGED at
               \/ /\ m_tasks = << >>
                  /\ pc' = [pc EXCEPT ![w] = "take_next"]
                  /\ at' = [at EXCEPT ![w] = HeadPos]
                  /\ UNCHANGED <<m_tasks, task>>
            /\ UNCHANGED <<m_stop, begun, done, dropped, callVars, ownerVars>>
            /\ UNCHANGED <<mtx, linked, lost, accepted, stale>>

\* pop_front has found head == tail and loads the next of that node: there is none,
\* and the call returns false; or there is one, to which m_tail is moved if it is
\* still at the node.  If m_head has passed the node, it may have been used again and
\* have no next, whatever the queue holds.
LfPopNext(w) ==
  /\ pc[w] = "take_next"
  /\ \/ /\ at[w] < HeadPos \/ (m_tasks = << >> /\ linked[Nobody] = << >>)
        /\ pc' = [pc EXCEPT ![w] = "loop"] /\ TailStays
     \/ /\ pc' = [pc EXCEPT ![w] = "take"]
        /\ \/ at[w] = TailPos /\ linked[Nobody] # << >> /\ MoveTail
           \/ at[w] # TailPos /\ TailStays
  /\ at' = [at EXCEPT ![w] = 0]
  /\ LfUnchanged /\ UNCHANGED mtx

-----------------------------------------------------------------------------
(* The pool itself is ThreadPool's; exit_block needs the lock. *)

\* The function objects are alike: which one is inserted next is of no account.
LfInsertTest(a) == /\ Tasks \ used # {}
                   /\ InsertTest(a, CHOOSE t \in Tasks \ used : TRUE)

LfWorkerStep(w) ==
  \/ /\ LoopTest(w) \/ BeginTask(w) \/ DropTask(w) \/ EndTask(w)
     /\ UNCHANGED queueVars
  \/ LfLoadHead(w) \/ LfLoadTail(w) \/ LfTimedOut(w) \/ LfPop(w) \/ LfPopNext(w)

LfCallStep(a) == \/ LfTail(a) \/ LfHelp(a) \/ LfLink(a) \/ LfSwing(a) \/ LfNotify(a)
                 \/ SetStop(a) /\ UNCHANGED queueVars
                 \/ mtx = Nobody /\ ExitBlock(a) /\ UNCHANGED queueVars

LfJoin == /\ \/ WaitJoin \/ WaitReturn \/ DtorSetStop \/ DtorJoin \/ DtorReturn
             \/ mtx = Nobody /\ DtorExitBlock
          /\ UNCHANGED queueVars

LfNext == \/ \E w \in Workers : LfWorkerStep(w)
          \/ \E w \in Workers : (SpuriousWake(w) \/ Timeout(w)) /\ UNCHANGED queueVars
          \/ \E a \in Agents : LfCallStep(a)
          \/ \E a \in Agents : StopTest(a) /\ UNCHANGED queueVars
          \/ \E a \in Agents : LfInsertTest(a) /\ UNCHANGED queueVars
          \/ (WaitCall \/ DtorTest \/ Destroyed) /\ UNCHANGED queueVars
          \/ LfJoin

LfSpec == LfInit /\ [][LfNext]_lfVars

\* As for ThreadPool; a caller gets the mutex however often workers have it.
LfFairness == /\ \A w \in Workers : /\ WF_lfVars(LfWorkerStep(w))
                                    /\ SF_lfVars(Timeout(w) /\ UNCHANGED queueVars)
              /\ \A a \in Agents : SF_lfVars(LfCallStep(a))
              /\ WF_lfVars(LfJoin)

LfFairSpec == LfSpec /\ LfFairness

-----------------------------------------------------------------------------
(* Correctness.  DestroyedQuiescent and the liveness properties of         *)
(* ThreadPool hold as well.                                                *)

\* Types: a worker that goes to run a task has one (thread_pool.h:50-67,
\* 459), one worker at a time evaluates the predicate, and no position loaded is
\* ahead of the queue (lockfree_queue.h:46-128).
LfTypeOK ==
  /\ m_tasks \in Seq(Tasks) /\ pushed \in Seq(Tasks) /\ begun \in Seq(Tasks)
  /\ linked \in [Agents \cup {Nobody} -> Seq(Tasks)]
  /\ lost \subseteq accepted /\ accepted \subseteq Tasks /\ stale \in BOOLEAN
  /\ pc \in [Workers -> {"loop", "pop", "pred", "wait", "notified", "timeout",
                         "take", "take_next", "test", "run", "exit"}]
  /\ op \in [Agents -> Idle \cup {"link", "swing", "notify"}]
  /\ \A w \in Workers : /\ task[w] \in Tasks <=> w \in Holding
                        /\ pc[w] = "pred" <=> mtx = w
                        /\ pc[w] \in {"pred", "take_next"} => at[w] <= HeadPos
  /\ \A a \in Agents : /\ arg[a] \in Tasks <=> op[a] \in {"insert", "link", "swing", "notify"}
                       /\ at[a] \in 0 .. TailPos

\* Workers that will look at the queue before they wait, and callers between the
\* link and the notification.
Coming == {w \in Workers : pc[w] \in {"loop", "pop", "pred", "notified", "timeout", "take",
                                      "take_next"}}
Notifying == {a \in Agents : op[a] \in {"swing", "notify"}}

\* No lost wake-up: as long as no task was linked behind a node that m_head had
\* passed, while some worker sleeps un-notified every queued task has a worker on its
\* way to pop_front or a caller that is still to notify, although neither links nor
\* pops hold the mutex (thread_pool.h:456-459, 464-468).
LfNoLostWakeup ==
  Waiting # {} /\ ~m_stop /\ ~stale =>
    Len(m_tasks) + Len(linked[Nobody]) <= Cardinality(Coming) + Cardinality(Notifying)

\* The pool comes to rest again and again: in a running pool every accepted task has
\* been executed but for those that were linked behind a free node, in a stopped one
\* every worker has left its loop, although no wait knows of m_stop and pop_front may
\* find nothing in a queue that is not empty (thread_pool.h:50-55, 457-459,
\* lockfree_queue.h:58-66, 110).
LfSettles == []<>(IF m_stop THEN \A w \in Workers : pc[w] = "exit"
                  ELSE accepted = done \cup lost)

\* Accepted tasks that m_tail has not come to.
Adrift == lost \cup UNION {Range(linked[x]) : x \in Agents \cup {Nobody}}

\* Every task that emplace has linked is in one place only: behind m_tail, with a
\* caller, lost, or where ThreadPool has it; and only a node that was loaded before
\* m_head passed it makes a task get lost (lockfree_queue.h:46-128).
LfTasksConserved ==
  /\ TasksConserved
  /\ accepted = Range(pushed) \cup Adrift
  /\ Range(pushed) \cap Adrift = {}
  /\ lost # {} => stale

LfTP == INSTANCE TaskPool WITH
          N <- PoolSize, stopped <- m_stop, adrift <- Adrift, pending <- m_tasks,
          claimed <- {task[w] : w \in {v \in Workers : pc[v] = "test"}},
          running <- {task[w] : w \in {v \in Workers : pc[v] = "run"}}

\* The lock-free pool implements the abstract task pool: a task that m_tail has come
\* to is claimed first in first out, begins at most once and never after stop(), and
\* is dropped only after it, even if tasks were linked behind nodes that were freed.
LfRefinesTaskPool == LfTP!Spec
=============================================================================
