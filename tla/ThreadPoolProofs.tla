-------------------------- MODULE ThreadPoolProofs --------------------------
(***************************************************************************)
(* Proofs about the thread pool for any number of workers, callers and     *)
(* tasks.                                                                  *)
(***************************************************************************)
EXTENDS ThreadPool, FiniteSetTheorems, SequenceTheorems, TLAPS

USE PoolSizeAssumption, CallersAssumption, TasksAssumption

-----------------------------------------------------------------------------
(* Type correctness. *)

\* The initial state is well typed (members of thread_pool_base).
LEMMA TypeInit == Init => TypeOK
  <1> SUFFICES ASSUME Init PROVE TypeOK
    OBVIOUS
  <1>1. next \in 1 .. PoolSize + 1
    BY DEF Init
  <1>2. m_tasks \in Seq(Tasks) /\ pushed \in Seq(Tasks) /\ begun \in Seq(Tasks)
    BY DEF Init
  <1> QED
    BY <1>1, <1>2 DEF Init, TypeOK, Holding, Idle

\* What block_pop_item's front/pop does to the types, from each of the three
\* program points it is reached from.
LEMMA TypeTakeFront ==
  ASSUME TypeOK, NEW w \in Workers, pc[w] \notin {"test", "run"}, TakeFront(w),
         UNCHANGED <<m_stop, begun, done, dropped, callVars, ownerVars>>
  PROVE  TypeOK'
  <1>1. Head(m_tasks) \in Tasks /\ Tail(m_tasks) \in Seq(Tasks)
    BY DEF TypeOK, TakeFront
  <1> QED
    BY <1>1 DEF TypeOK, TakeFront, Holding, callVars, ownerVars

\* Every step keeps the types.
LEMMA TypeNext == TypeOK /\ [Next]_vars => TypeOK'
  <1> SUFFICES ASSUME TypeOK, [Next]_vars PROVE TypeOK'
    OBVIOUS
  <1>1. CASE \E w \in Workers : LoopTest(w) \/ SpuriousWake(w) \/ Timeout(w)
                                \/ BeginTask(w) \/ DropTask(w) \/ EndTask(w)
    <2>1. PICK w \in Workers : LoopTest(w) \/ SpuriousWake(w) \/ Timeout(w)
                               \/ BeginTask(w) \/ DropTask(w) \/ EndTask(w)
      BY <1>1
    <2>2. CASE LoopTest(w)
      BY <2>2 DEF TypeOK, LoopTest, Holding, callVars, ownerVars
    <2>3. CASE SpuriousWake(w)
      BY <2>3 DEF TypeOK, SpuriousWake, Holding, callVars, ownerVars
    <2>4. CASE Timeout(w)
      BY <2>4 DEF TypeOK, Timeout, Holding, callVars, ownerVars
    <2>5. CASE BeginTask(w)
      BY <2>5 DEF TypeOK, BeginTask, Holding, callVars, ownerVars
    <2>6. CASE DropTask(w)
      BY <2>6 DEF TypeOK, DropTask, Holding, callVars, ownerVars
    <2>7. CASE EndTask(w)
      BY <2>7 DEF TypeOK, EndTask, Holding, callVars, ownerVars
    <2> QED
      BY <2>1, <2>2, <2>3, <2>4, <2>5, <2>6, <2>7
  <1>2. CASE \E w \in Workers : BlockPop(w) \/ Wake(w) \/ WakeTimedOut(w)
    <2>1. PICK w \in Workers : BlockPop(w) \/ Wake(w) \/ WakeTimedOut(w)
      BY <1>2
    <2>2. CASE TakeFront(w)
      BY <2>1, <2>2, TypeTakeFront DEF BlockPop, Wake, WakeTimedOut
    <2>3. CASE ~TakeFront(w)
      BY <2>1, <2>3
      DEF BlockPop, Wake, WakeTimedOut, TypeOK, Holding, callVars, ownerVars
    <2> QED
      BY <2>2, <2>3
  <1>3. CASE \E a \in Agents : PushItem(a)
    <2>1. PICK a \in Agents : PushItem(a)
      BY <1>3
    <2>2. arg[a] \in Tasks
      BY <2>1 DEF PushItem, TypeOK
    <2>3. m_tasks' \in Seq(Tasks) /\ pushed' \in Seq(Tasks)
      BY <2>1, <2>2 DEF PushItem, TypeOK
    <2>4. /\ pc' \in [Workers -> {"loop", "pop", "wait", "notified", "timeout",
                                  "test", "run", "exit"}]
          /\ Holding' = Holding
      BY <2>1 DEF PushItem, NotifyOne, Waiting, Holding, TypeOK
    <2> QED
      BY <2>1, <2>2, <2>3, <2>4 DEF PushItem, TypeOK, ownerVars, Idle
  <1>4. CASE \E a \in Agents : SetStop(a) \/ ExitBlock(a) \/ StopTest(a)
    <2>1. PICK a \in Agents : SetStop(a) \/ ExitBlock(a) \/ StopTest(a)
      BY <1>4
    <2>2. CASE SetStop(a)
      BY <2>2 DEF SetStop, TypeOK, Holding, Idle, workerVars, ownerVars
    <2>3. CASE ExitBlock(a)
      BY <2>3 DEF ExitBlock, NotifyAll, TypeOK, Holding, Idle, ownerVars
    <2>4. CASE StopTest(a)
      BY <2>4 DEF StopTest, MayCall, TypeOK, Holding, Idle, workerVars, ownerVars
    <2> QED
      BY <2>1, <2>2, <2>3, <2>4
  <1>5. CASE \E a \in Agents, t \in Tasks : InsertTest(a, t)
    <2>1. PICK a \in Agents, t \in Tasks : InsertTest(a, t)
      BY <1>5
    <2>2. CASE m_stop
      BY <2>1, <2>2 DEF InsertTest, TypeOK, Holding, workerVars, ownerVars
    <2>3. CASE ~m_stop
      <3>1. /\ op' = [op EXCEPT ![a] = "insert"] /\ arg' = [arg EXCEPT ![a] = t]
            /\ used' = used \cup {t}
            /\ UNCHANGED <<m_stop, m_tasks, pushed, workerVars, ownerVars>>
        BY <2>1, <2>3 DEF InsertTest
      <3>2. /\ op' \in [Agents -> Idle] /\ arg' \in [Agents -> Tasks \cup {NoTask}]
            /\ \A b \in Agents : arg'[b] \in Tasks <=> op'[b] = "insert"
        BY <3>1 DEF TypeOK, Idle
      <3> QED
        BY <3>1, <3>2 DEF TypeOK, Holding, workerVars, ownerVars
    <2> QED
      BY <2>2, <2>3
  <1>6. CASE WaitCall \/ DtorTest \/ Join
    <2>1. next' \in 1 .. PoolSize + 1 /\ joined' \subseteq Workers
      <3>1. \/ next' = 1 /\ joined' = joined
            \/ next' = next /\ joined' = joined
            \/ next \in Workers /\ next' = next + 1 /\ joined' = joined \cup {next}
        BY <1>6 DEF Join, WaitCall, WaitJoin, WaitReturn, DtorTest, DtorSetStop,
                    DtorExitBlock, DtorJoin, DtorReturn
      <3>2. next' \in 1 .. PoolSize + 1
        BY <3>1 DEF TypeOK, Workers
      <3>3. joined' \subseteq Workers
        BY <3>1 DEF TypeOK
      <3> QED
        BY <3>2, <3>3
    <2>2. CASE WaitCall \/ WaitReturn
      BY <2>1, <2>2 DEF WaitCall, WaitReturn, OwnerUnchanged, TypeOK,
                        Holding, workerVars, callVars
    <2>3. CASE WaitJoin
      BY <2>1, <2>3 DEF WaitJoin, OwnerUnchanged, TypeOK,
                        Holding, workerVars, callVars
    <2>5. CASE DtorTest
      BY <2>1, <2>5 DEF DtorTest, OwnerUnchanged, TypeOK, Holding,
                        workerVars, callVars
    <2>6. CASE DtorSetStop \/ DtorReturn
      BY <2>1, <2>6 DEF DtorSetStop, DtorReturn,
                        OwnerUnchanged, TypeOK, Holding, workerVars, callVars
    <2>7. CASE DtorJoin
      BY <2>1, <2>7 DEF DtorJoin, OwnerUnchanged, TypeOK, Holding,
                        workerVars, callVars
    <2>4. CASE DtorExitBlock
      BY <2>1, <2>4 DEF DtorExitBlock, NotifyAll, TypeOK, Holding, callVars
    <2> QED
      BY <1>6, <2>2, <2>3, <2>4, <2>5, <2>6, <2>7 DEF Join
  <1>7. CASE Destroyed \/ UNCHANGED vars
    BY <1>7 DEF Destroyed, vars, TypeOK, Holding
  <1> QED
    BY <1>1, <1>2, <1>3, <1>4, <1>5, <1>6, <1>7 DEF Next, WorkerStep, CallStep

\* The pool's state is well typed in every reachable state; in particular a
\* worker executes a task it popped and push_item pushes the task of insert().
THEOREM TypeCorrect == Spec => []TypeOK
  BY TypeInit, TypeNext, PTL DEF Spec

-----------------------------------------------------------------------------
(* Facts about the queue's std::deque as a sequence. *)

\* emplace adds one element to the elements of the queue.
LEMMA RangeAppend ==
  ASSUME NEW S, NEW s \in Seq(S), NEW e \in S
  PROVE  Range(Append(s, e)) = Range(s) \cup {e}
  <1>1. Append(s, e) \in Seq(S) /\ Len(Append(s, e)) = Len(s) + 1
    OBVIOUS
  <1>2. /\ \A i \in 1 .. Len(s) : Append(s, e)[i] = s[i]
        /\ Append(s, e)[Len(s) + 1] = e
    OBVIOUS
  <1>3. /\ DOMAIN s = 1 .. Len(s) /\ Len(s) \in Nat
        /\ DOMAIN Append(s, e) = 1 .. Len(s) + 1
    BY <1>1
  <1> QED
    BY <1>2, <1>3 DEF Range

\* emplace of a new element keeps the elements distinct.
LEMMA InjectiveAppend ==
  ASSUME NEW S, NEW s \in Seq(S), NEW e \in S, IsInjective(s), e \notin Range(s)
  PROVE  IsInjective(Append(s, e))
  <1>1. /\ \A i \in 1 .. Len(s) : Append(s, e)[i] = s[i]
        /\ Append(s, e)[Len(s) + 1] = e
    OBVIOUS
  <1>2. /\ DOMAIN s = 1 .. Len(s) /\ Len(s) \in Nat
        /\ DOMAIN Append(s, e) = 1 .. Len(s) + 1
    OBVIOUS
  <1>3. \A i \in 1 .. Len(s) : s[i] # e
    BY <1>2 DEF Range
  <1> QED
    BY <1>1, <1>2, <1>3 DEF IsInjective

\* front and pop split the elements of the queue.
LEMMA RangeTail ==
  ASSUME NEW S, NEW s \in Seq(S), s # << >>
  PROVE  Range(s) = {Head(s)} \cup Range(Tail(s))
  <1>1. /\ DOMAIN s = 1 .. Len(s) /\ Len(s) \in Nat /\ Len(s) # 0
        /\ DOMAIN Tail(s) = 1 .. Len(s) - 1
        /\ Head(s) = s[1]
        /\ \A i \in 1 .. Len(s) - 1 : Tail(s)[i] = s[i + 1]
    OBVIOUS
  <1>2. ASSUME NEW x \in Range(s) PROVE x \in {Head(s)} \cup Range(Tail(s))
    <2>1. PICK i \in 1 .. Len(s) : x = s[i]
      BY <1>1, <1>2 DEF Range
    <2>2. CASE i = 1
      BY <1>1, <2>1, <2>2
    <2>3. CASE i # 1
      <3>1. i - 1 \in 1 .. Len(s) - 1 /\ Tail(s)[i - 1] = s[i]
        BY <1>1, <2>3
      <3> QED
        BY <1>1, <2>1, <3>1 DEF Range
    <2> QED
      BY <2>2, <2>3
  <1>3. ASSUME NEW x \in {Head(s)} \cup Range(Tail(s)) PROVE x \in Range(s)
    BY <1>1, <1>3 DEF Range
  <1> QED
    BY <1>2, <1>3

\* pop of distinct elements leaves distinct elements, none of them the front.
LEMMA InjectiveTail ==
  ASSUME NEW S, NEW s \in Seq(S), s # << >>, IsInjective(s)
  PROVE  IsInjective(Tail(s)) /\ Head(s) \notin Range(Tail(s))
  <1>1. /\ DOMAIN s = 1 .. Len(s) /\ Len(s) \in Nat /\ Len(s) # 0
        /\ DOMAIN Tail(s) = 1 .. Len(s) - 1
        /\ Head(s) = s[1]
        /\ \A i \in 1 .. Len(s) - 1 : Tail(s)[i] = s[i + 1]
    OBVIOUS
  <1>2. IsInjective(Tail(s))
    BY <1>1 DEF IsInjective
  <1>3. ASSUME NEW i \in 1 .. Len(s) - 1, Tail(s)[i] = Head(s) PROVE FALSE
    BY <1>1, <1>3 DEF IsInjective
  <1> QED
    BY <1>1, <1>2, <1>3 DEF Range

-----------------------------------------------------------------------------
(* Conservation of tasks. *)

\* The strengthening that makes TasksConserved inductive: a task on its way
\* into push_item was given to one insert() only and was not pushed before.
Unpushed ==
  /\ Range(pushed) \subseteq used
  /\ \A a \in Agents : op[a] = "insert" => arg[a] \in used \ Range(pushed)
  /\ \A a, b \in Agents : op[a] = "insert" /\ op[b] = "insert" /\ a # b
                            => arg[a] # arg[b]

ConservationInv == TypeOK /\ Unpushed /\ TasksConserved

\* What the lemmas about single steps need of the types.  It allows for the
\* places that only lockfree_thread_pool has, so that they serve both pools.
PoolTypes ==
  /\ m_stop \in BOOLEAN
  /\ m_tasks \in Seq(Tasks) /\ pushed \in Seq(Tasks) /\ begun \in Seq(Tasks)
  /\ pc \in [Workers -> {"loop", "pop", "pred", "wait", "notified", "timeout", "take",
                         "take_next", "test", "run", "exit"}]
  /\ task \in [Workers -> Tasks \cup {NoTask}]
  /\ \A w \in Workers : task[w] \in Tasks <=> w \in Holding
  /\ op \in [Agents -> Idle \cup {"link", "swing", "notify"}]
  /\ arg \in [Agents -> Tasks \cup {NoTask}]
  /\ \A a \in Agents : arg[a] \in Tasks <=> op[a] \in {"insert", "link", "swing", "notify"}
  /\ owner \in {"open", "wait", "set_stop", "exit_block", "join", "destroyed"}
  /\ next \in 1 .. PoolSize + 1
  /\ joined \subseteq Workers
  /\ used \subseteq Tasks /\ done \subseteq Tasks /\ dropped \subseteq Tasks

SharedInv == PoolTypes /\ Unpushed /\ TasksConserved

conservationVars == <<m_tasks, task, Holding, op, arg, used, pushed, done, dropped>>

\* The invariant of the pool with the mutex implies the shared one.
LEMMA ConservationIsShared == ASSUME ConservationInv PROVE SharedInv
  <1>1. TypeOK => PoolTypes
    BY DEF TypeOK, PoolTypes, Idle
  <1> QED
    BY <1>1 DEF ConservationInv, SharedInv

\* The steps that the two pools have in common: all but push_item and
\* block_pop_item.
PoolStep ==
  \/ \E w \in Workers : \/ LoopTest(w) \/ SpuriousWake(w) \/ Timeout(w)
                         \/ BeginTask(w) \/ DropTask(w) \/ EndTask(w)
  \/ \E a \in Agents : SetStop(a) \/ ExitBlock(a) \/ StopTest(a)
  \/ \E a \in Agents, t \in Tasks : InsertTest(a, t)
  \/ WaitCall \/ DtorTest \/ Join \/ Destroyed

\* A task comes to the end of the queue, and no worker goes to or from a task.
Adds(t) == /\ m_tasks' = Append(m_tasks, t) /\ pushed' = Append(pushed, t)
           /\ \A w \in Workers : /\ (pc'[w] = "test") <=> (pc[w] = "test")
                                 /\ (pc'[w] = "run") <=> (pc[w] = "run")
           /\ UNCHANGED <<m_stop, task, used, done, dropped>>

\* The initial state conserves tasks.
LEMMA ConservationInit == Init => ConservationInv
  <1> SUFFICES ASSUME Init PROVE ConservationInv
    OBVIOUS
  <1>1. Range(m_tasks) = {} /\ Range(pushed) = {} /\ IsInjective(m_tasks)
    BY DEF Init, Range, IsInjective
  <1>2. Holding = {}
    BY DEF Init, Holding
  <1>3. Unpushed
    BY <1>1 DEF Init, Unpushed
  <1>4. TasksConserved
    BY <1>1, <1>2 DEF Init, TasksConserved, Held
  <1> QED
    BY <1>3, <1>4, TypeInit DEF ConservationInv

\* Taking the front moves one task from the queue into one worker's hands.
LEMMA ConservationTakeFront ==
  ASSUME SharedInv, NEW w \in Workers, pc[w] \notin {"test", "run"},
         TakeFront(w), UNCHANGED <<op, arg, used, pushed, done, dropped>>
  PROVE  (Unpushed /\ TasksConserved)'
  <1> DEFINE h == Head(m_tasks)
  <1>1. m_tasks \in Seq(Tasks) /\ m_tasks # << >> /\ IsInjective(m_tasks)
    BY DEF SharedInv, PoolTypes, TasksConserved, TakeFront
  <1>2. Range(m_tasks) = {h} \cup Range(m_tasks')
    BY <1>1, RangeTail DEF TakeFront
  <1>3. IsInjective(m_tasks') /\ h \notin Range(m_tasks')
    BY <1>1, InjectiveTail DEF TakeFront
  <1>4. /\ Holding' = Holding \cup {w} /\ w \notin Holding
        /\ task'[w] = h /\ \A v \in Workers \ {w} : task'[v] = task[v]
    BY DEF TakeFront, Holding, SharedInv, PoolTypes
  <1>5. Held' = Held \cup {h}
    BY <1>4 DEF Held, Holding
  <1>6. h \notin Held /\ h \notin done /\ h \notin dropped
    BY <1>2 DEF SharedInv, TasksConserved
  <1>7. \A v, u \in Holding' : v # u => task'[v] # task'[u]
    BY <1>4, <1>6 DEF SharedInv, TasksConserved, Held, Holding
  <1>8. TasksConserved'
    BY <1>2, <1>3, <1>5, <1>6, <1>7 DEF SharedInv, TasksConserved
  <1>9. Unpushed'
    BY DEF SharedInv, Unpushed
  <1> QED
    BY <1>8, <1>9

\* A task that was in no place comes into the queue and is in no other place.
LEMMA ConservationAdd ==
  ASSUME PoolTypes, TasksConserved, NEW t \in Tasks, t \notin Range(pushed), Adds(t)
  PROVE  TasksConserved' /\ Range(pushed') = Range(pushed) \cup {t}
  <1>1. m_tasks \in Seq(Tasks) /\ pushed \in Seq(Tasks) /\ IsInjective(m_tasks)
    BY DEF PoolTypes, TasksConserved
  <1>2. /\ Range(m_tasks') = Range(m_tasks) \cup {t}
        /\ Range(pushed') = Range(pushed) \cup {t}
    BY <1>1, RangeAppend DEF Adds
  <1>3. t \notin Range(m_tasks) \cup Held \cup done \cup dropped
    BY DEF TasksConserved
  <1>4. IsInjective(m_tasks')
    BY <1>1, <1>3, InjectiveAppend DEF Adds
  <1>5. Holding' = Holding /\ Held' = Held
    BY DEF Adds, Holding, Held
  <1> QED
    BY <1>2, <1>3, <1>4, <1>5 DEF TasksConserved, Adds, Holding

\* A task leaves a worker's hands for one of the two final places.
LEMMA ConservationLeave ==
  ASSUME SharedInv, NEW w \in Workers, DropTask(w) \/ EndTask(w)
  PROVE  (Unpushed /\ TasksConserved)'
  <1>1. w \in Holding /\ Holding' = Holding \ {w}
    BY DEF DropTask, EndTask, Holding, SharedInv, PoolTypes
  <1>2. \A v \in Holding' : task'[v] = task[v] /\ v \in Holding /\ task[v] # task[w]
    BY <1>1 DEF DropTask, EndTask, Holding, SharedInv, PoolTypes, TasksConserved
  <1>3. Held' = Held \ {task[w]} /\ task[w] \in Held
    BY <1>1, <1>2 DEF Held
  <1>4. /\ UNCHANGED <<m_tasks, op, arg, used, pushed>>
        /\ \/ done' = done \cup {task[w]} /\ dropped' = dropped
           \/ done' = done /\ dropped' = dropped \cup {task[w]}
    BY DEF DropTask, EndTask, callVars
  <1>5. TasksConserved'
    BY <1>2, <1>3, <1>4 DEF SharedInv, TasksConserved
  <1>6. Unpushed'
    BY <1>4 DEF SharedInv, Unpushed
  <1> QED
    BY <1>5, <1>6

\* The steps that the pools have in common conserve tasks.
LEMMA ConservationPool ==
  ASSUME SharedInv, PoolStep
  PROVE  (Unpushed /\ TasksConserved)'
  <1>1. CASE UNCHANGED conservationVars
    BY <1>1 DEF SharedInv, Unpushed, TasksConserved, Held, conservationVars
  <1>2. ASSUME NEW w \in Workers, LoopTest(w) \/ SpuriousWake(w) \/ Timeout(w)
                                  \/ BeginTask(w)
        PROVE  UNCHANGED conservationVars
    BY <1>2 DEF LoopTest, SpuriousWake, Timeout, BeginTask, conservationVars,
                callVars, Holding, SharedInv, PoolTypes
  <1>3. ASSUME NEW a \in Agents, SetStop(a) \/ ExitBlock(a) \/ StopTest(a)
        PROVE  (Unpushed /\ TasksConserved)'
    <2>1. /\ UNCHANGED <<m_tasks, task, Holding, arg, used, pushed, done, dropped>>
          /\ \A b \in Agents : op'[b] = "insert" => op[b] = "insert"
      BY <1>3 DEF SetStop, ExitBlock, StopTest, MayCall, NotifyAll, workerVars,
                  Holding, SharedInv, PoolTypes
    <2> QED
      BY <2>1 DEF SharedInv, Unpushed, TasksConserved, Held
  <1>4. ASSUME NEW a \in Agents, NEW t \in Tasks, InsertTest(a, t)
        PROVE  (Unpushed /\ TasksConserved)'
    <2>1. /\ UNCHANGED <<m_tasks, task, Holding, pushed, done, dropped>>
          /\ used' = used \cup {t} /\ t \notin used
          /\ \A b \in Agents : op'[b] = "insert" =>
                \/ b # a /\ op[b] = "insert" /\ arg'[b] = arg[b]
                \/ b = a /\ arg'[b] = t
                \/ b = a /\ op[b] = "insert" /\ UNCHANGED <<op, arg>>
      BY <1>4 DEF InsertTest, MayCall, workerVars, Holding, SharedInv, PoolTypes
    <2>2. TasksConserved'
      BY <2>1 DEF SharedInv, TasksConserved, Held
    <2>3. Unpushed'
      BY <2>1 DEF SharedInv, Unpushed
    <2> QED
      BY <2>2, <2>3
  <1>5. CASE WaitCall \/ DtorTest \/ Join \/ Destroyed
    <2>1. DtorExitBlock => UNCHANGED conservationVars
      BY DEF DtorExitBlock, NotifyAll, conservationVars, callVars, Holding,
             SharedInv, PoolTypes
    <2>2. ~DtorExitBlock => UNCHANGED conservationVars
      BY <1>5 DEF WaitCall, DtorTest, Join, Destroyed, vars, WaitJoin,
         WaitReturn, DtorSetStop, DtorJoin, DtorReturn, OwnerUnchanged,
         workerVars, conservationVars, callVars, Holding
    <2> QED
      BY <1>1, <2>1, <2>2
  <1> QED
    BY <1>1, <1>2, <1>3, <1>4, <1>5, ConservationLeave DEF PoolStep

\* push_item, under the mutex, adds the task of its caller (thread_pool.h:171-176).
LEMMA PushItemAdds ==
  ASSUME TypeOK, NEW a \in Agents, PushItem(a)
  PROVE  Adds(arg[a])
  <1>1. \A w \in Workers : /\ (pc'[w] = "test") <=> (pc[w] = "test")
                           /\ (pc'[w] = "run") <=> (pc[w] = "run")
    BY DEF PushItem, NotifyOne, Waiting, TypeOK
  <1> QED
    BY <1>1 DEF PushItem, Adds

\* push_item moves a task that was in no place into the queue (thread_pool.h:171-176).
LEMMA ConservationPush ==
  ASSUME ConservationInv, NEW a \in Agents, PushItem(a)
  PROVE  (Unpushed /\ TasksConserved)'
  <1>1. Adds(arg[a])
    BY PushItemAdds DEF ConservationInv
  <1>2. arg[a] \in Tasks /\ arg[a] \in used \ Range(pushed)
    BY DEF ConservationInv, TypeOK, Unpushed, PushItem
  <1>3. TasksConserved' /\ Range(pushed') = Range(pushed) \cup {arg[a]}
    BY <1>1, <1>2, ConservationIsShared, ConservationAdd DEF SharedInv
  <1>4. \A b \in Agents : op'[b] = "insert" => b # a /\ op[b] = "insert" /\ arg'[b] = arg[b]
    BY DEF PushItem, ConservationInv, TypeOK
  <1>5. Unpushed'
    BY <1>2, <1>3, <1>4 DEF ConservationInv, Unpushed, PushItem
  <1> QED
    BY <1>3, <1>5

\* Every step conserves tasks.
LEMMA ConservationNext == ConservationInv /\ [Next]_vars => ConservationInv'
  <1> SUFFICES ASSUME ConservationInv, [Next]_vars
               PROVE  (Unpushed /\ TasksConserved)'
    BY TypeNext DEF ConservationInv
  <1>1. SharedInv
    BY ConservationIsShared
  <1>2. CASE UNCHANGED vars \/ UNCHANGED conservationVars
    BY <1>2 DEF ConservationInv, Unpushed, TasksConserved, Held, Holding, conservationVars, vars
  <1>3. CASE PoolStep
    BY <1>1, <1>3, ConservationPool
  <1>4. ASSUME NEW w \in Workers, BlockPop(w) \/ Wake(w) \/ WakeTimedOut(w)
        PROVE  (Unpushed /\ TasksConserved)'
    <2>1. CASE TakeFront(w)
      BY <1>1, <1>4, <2>1, ConservationTakeFront
      DEF BlockPop, Wake, WakeTimedOut, callVars
    <2>2. CASE ~TakeFront(w)
      <3>1. UNCHANGED conservationVars
        BY <1>4, <2>2 DEF BlockPop, Wake, WakeTimedOut, conservationVars, callVars,
                          Holding, ConservationInv, TypeOK
      <3> QED
        BY <1>2, <3>1
    <2> QED
      BY <2>1, <2>2
  <1>5. ASSUME NEW a \in Agents, PushItem(a)
        PROVE  (Unpushed /\ TasksConserved)'
    BY <1>5, ConservationPush
  <1> QED
    BY <1>2, <1>3, <1>4, <1>5 DEF Next, WorkerStep, CallStep, PoolStep

\* No task that push_item accepted is ever lost, duplicated, or in the hands of
\* two workers, for any number of workers, callers and tasks.
THEOREM TasksAreConserved == Spec => []TasksConserved
  <1>1. Init => ConservationInv
    BY ConservationInit
  <1>2. ConservationInv /\ [Next]_vars => ConservationInv'
    BY ConservationNext
  <1>3. ConservationInv => TasksConserved
    BY DEF ConservationInv
  <1> QED
    BY <1>1, <1>2, <1>3, PTL DEF Spec

-----------------------------------------------------------------------------
(* Wake-ups. *)

Notified == {w \in Workers : pc[w] = "notified"}

WakeupInv == TypeOK /\ NoLostWakeup

\* Counting the notified workers: m_workers is finite.
LEMMA NotifiedCount ==
  ASSUME NEW S \in SUBSET Workers, NEW w \in Workers
  PROVE  /\ IsFiniteSet(S) /\ Cardinality(S) \in Nat
         /\ w \notin S => Cardinality(S \cup {w}) = Cardinality(S) + 1
         /\ w \in S => Cardinality(S \ {w}) = Cardinality(S) - 1
  <1>1. IsFiniteSet(Workers)
    BY FS_Interval DEF Workers
  <1>2. IsFiniteSet(S)
    BY <1>1, FS_Subset
  <1> QED
    BY <1>2, FS_CardinalityType, FS_AddElement, FS_RemoveElement

\* A step that neither notifies nor adds a task: at most one worker changes its
\* place, and one that stops being notified takes a task or leaves none behind.
LEMMA WakeupPop ==
  ASSUME TypeOK, NoLostWakeup, NEW w \in Workers,
         BlockPop(w) \/ Wake(w) \/ WakeTimedOut(w)
  PROVE  NoLostWakeup'
  <1>1. CASE TakeFront(w)
    <2>1. Waiting' = Waiting /\ Notified' = Notified \ {w}
      BY <1>1 DEF TakeFront, BlockPop, Wake, WakeTimedOut, Waiting, Notified, TypeOK
    <2>2. Len(m_tasks') = Len(m_tasks) - 1 /\ Len(m_tasks) \in Nat
      BY <1>1 DEF TakeFront, TypeOK
    <2>3. Cardinality(Notified') >= Cardinality(Notified) - 1
      <3>1. Notified \in SUBSET Workers /\ (w \notin Notified => Notified' = Notified)
        BY <2>1 DEF Notified
      <3>2. Cardinality(Notified) \in Nat
        BY <3>1, NotifiedCount
      <3>3. CASE w \in Notified
        BY <2>1, <3>1, <3>2, <3>3, NotifiedCount
      <3>4. CASE w \notin Notified
        BY <3>1, <3>2, <3>4
      <3> QED
        BY <3>3, <3>4
    <2>4. Cardinality(Notified) \in Nat /\ Cardinality(Notified') \in Nat
      BY NotifiedCount DEF Notified
    <2> QED
      BY <2>1, <2>2, <2>3, <2>4 DEF NoLostWakeup, Notified
  <1>2. CASE ~TakeFront(w)
    <2>1. m_tasks' = << >>
      BY <1>2 DEF BlockPop, Wake, WakeTimedOut
    <2>2. Cardinality(Notified') \in Nat
      BY NotifiedCount DEF Notified
    <2> QED
      BY <2>1, <2>2 DEF NoLostWakeup, Notified
  <1> QED
    BY <1>1, <1>2

\* push_item notifies a waiting worker for the task it adds.
LEMMA WakeupPush ==
  ASSUME TypeOK, NoLostWakeup, NEW a \in Agents, PushItem(a)
  PROVE  NoLostWakeup'
  <1>1. CASE Waiting = {}
    BY <1>1 DEF NoLostWakeup, PushItem, NotifyOne, Waiting
  <1>2. CASE Waiting # {}
    <2>1. PICK w \in Waiting : pc' = [pc EXCEPT ![w] = "notified"]
      BY <1>2 DEF PushItem, NotifyOne
    <2>2. w \in Workers /\ w \notin Notified /\ Notified' = Notified \cup {w}
      BY <2>1 DEF Waiting, Notified, TypeOK
    <2>3. Cardinality(Notified') = Cardinality(Notified) + 1
      BY <2>2, NotifiedCount DEF Notified
    <2>4. Len(m_tasks') = Len(m_tasks) + 1 /\ Len(m_tasks) \in Nat
      BY DEF PushItem, TypeOK
    <2>5. Cardinality(Notified) \in Nat /\ Len(m_tasks) <= Cardinality(Notified)
      BY <1>2, <2>1, NotifiedCount DEF NoLostWakeup, Notified, Waiting
    <2> QED
      BY <2>3, <2>4, <2>5 DEF NoLostWakeup, Notified
  <1> QED
    BY <1>1, <1>2

\* The notification of exit_block leaves no worker waiting.
LEMMA WakeupAll ==
  ASSUME TypeOK, pc' = NotifyAll
  PROVE  NoLostWakeup'
  BY DEF NotifyAll, NoLostWakeup, Waiting

\* No step loses a wake-up.
LEMMA WakeupNext == WakeupInv /\ [Next]_vars => WakeupInv'
  <1> SUFFICES ASSUME TypeOK, NoLostWakeup, [Next]_vars PROVE NoLostWakeup'
    BY TypeNext DEF WakeupInv
  <1>1. ASSUME m_tasks' = m_tasks, Waiting' \subseteq Waiting, Notified' = Notified
        PROVE  NoLostWakeup'
    BY <1>1 DEF NoLostWakeup, Notified
  <1>2. ASSUME NEW w \in Workers, LoopTest(w) \/ Timeout(w) \/ BeginTask(w)
                                  \/ DropTask(w) \/ EndTask(w)
        PROVE  NoLostWakeup'
    BY <1>1, <1>2 DEF LoopTest, Timeout, BeginTask, DropTask, EndTask, Waiting,
                      Notified, TypeOK
  <1>3. ASSUME NEW w \in Workers, SpuriousWake(w)
        PROVE  NoLostWakeup'
    <2>1. /\ Notified' = Notified \cup {w} /\ w \notin Notified
          /\ Waiting # {} /\ m_tasks' = m_tasks
      BY <1>3 DEF SpuriousWake, Notified, Waiting, TypeOK
    <2>2. Len(m_tasks) \in Nat /\ Notified \in SUBSET Workers
      BY DEF TypeOK, Notified
    <2>3. /\ Cardinality(Notified') = Cardinality(Notified) + 1
          /\ Cardinality(Notified) \in Nat
      BY <2>1, <2>2, NotifiedCount
    <2> QED
      BY <2>1, <2>2, <2>3 DEF NoLostWakeup, Notified
  <1>4. ASSUME NEW a \in Agents, SetStop(a) \/ ExitBlock(a) \/ StopTest(a)
        PROVE  NoLostWakeup'
    BY <1>1, <1>4, WakeupAll
    DEF SetStop, ExitBlock, StopTest, workerVars, Waiting, Notified
  <1>5. ASSUME NEW a \in Agents, NEW t \in Tasks, InsertTest(a, t)
        PROVE  NoLostWakeup'
    BY <1>1, <1>5 DEF InsertTest, workerVars, Waiting, Notified
  <1>6. CASE WaitCall \/ DtorTest \/ Join \/ Destroyed \/ UNCHANGED vars
    BY <1>1, <1>6, WakeupAll
    DEF WaitCall, DtorTest, Join, Destroyed, vars, WaitJoin, WaitReturn,
        DtorSetStop, DtorExitBlock, DtorJoin, DtorReturn, OwnerUnchanged,
        workerVars, Waiting, Notified
  <1> QED
    BY <1>2, <1>3, <1>4, <1>5, <1>6, WakeupPop, WakeupPush
    DEF Next, WorkerStep, CallStep

\* No wake-up is lost: while a worker sleeps, every queued task has a notified
\* worker on its way, whatever the number of workers and of pushes.
THEOREM NoWakeupIsLost == Spec => []NoLostWakeup
  <1>1. Init => WakeupInv
    BY TypeInit DEF Init, WakeupInv, NoLostWakeup, Waiting
  <1>2. WakeupInv /\ [Next]_vars => WakeupInv'
    BY WakeupNext
  <1>3. WakeupInv => NoLostWakeup
    BY DEF WakeupInv
  <1> QED
    BY <1>1, <1>2, <1>3, PTL DEF Spec

-----------------------------------------------------------------------------
(* The destructor. *)

Destructing == owner \notin {"open", "wait"}

\* The strengthening of DestroyedQuiescent: a worker is only inside the pool's
\* operations while it runs a task, threads outside have left the pool when the
\* destructor begins, and the join loop leaves only exited workers behind it.
JoinInv == /\ \A w \in Workers : op[w] # "none" => pc[w] = "run"
           /\ Destructing => \A c \in Callers : op[c] = "none"
           /\ \A w \in joined : pc[w] = "exit"
           /\ owner \in {"set_stop", "exit_block"} => next = 1
           /\ owner = "join" => 1 .. next - 1 \subseteq joined
           /\ owner = "destroyed" => joined = Workers

DestructorInv == TypeOK /\ JoinInv

\* A step of a worker that has not exited, and is not inside a call, keeps
\* JoinInv whatever it does (thread_pool.h:50-67).
LEMMA JoinByWorker ==
  ASSUME JoinInv, joined \subseteq Workers, NEW w \in Workers,
         UNCHANGED <<op, owner, next, joined>>,
         pc[w] # "exit", pc[w] = "run" => op[w] = "none",
         \A v \in Workers \ {w} : pc'[v] = pc[v]
  PROVE  JoinInv'
  BY DEF JoinInv, Destructing

\* A step of a call keeps JoinInv when the call may be made: by a running task,
\* or from outside before the destructor (thread_pool.h:96-114).
LEMMA JoinByCall ==
  ASSUME JoinInv, joined \subseteq Workers, NEW a \in Agents,
         UNCHANGED <<owner, next, joined>>,
         op[a] # "none" \/ MayCall(a),
         \A w \in Workers : pc[w] \in {"run", "exit"} => pc'[w] = pc[w],
         \A b \in Agents \ {a} : op'[b] = op[b]
  PROVE  JoinInv'
  <1>1. a \in Workers => pc[a] = "run"
    BY DEF MayCall, JoinInv
  <1>2. a \in Callers => ~Destructing
    BY DEF MayCall, Destructing, JoinInv
  <1> QED
    BY <1>1, <1>2 DEF JoinInv, Destructing, Agents

\* A worker's step keeps JoinInv: an exited worker takes no step.
LEMMA JoinWorker ==
  ASSUME DestructorInv, NEW w \in Workers,
         WorkerStep(w) \/ SpuriousWake(w) \/ Timeout(w)
  PROVE  JoinInv'
  <1>1. UNCHANGED <<op, owner, next, joined>>
    BY DEF WorkerStep, SpuriousWake, Timeout, LoopTest, BlockPop, Wake,
           WakeTimedOut, BeginTask, DropTask, EndTask, callVars, ownerVars
  <1>2. pc[w] # "exit" /\ (pc[w] = "run" => op[w] = "none")
    BY DEF WorkerStep, SpuriousWake, Timeout, LoopTest, BlockPop, Wake,
           WakeTimedOut, BeginTask, DropTask, EndTask
  <1>3. \A v \in Workers \ {w} : pc'[v] = pc[v]
    BY DEF WorkerStep, SpuriousWake, Timeout, LoopTest, BlockPop, Wake, TakeFront,
           WakeTimedOut, BeginTask, DropTask, EndTask, DestructorInv, TypeOK
  <1>4. joined \subseteq Workers
    BY DEF DestructorInv, TypeOK
  <1> QED
    BY <1>1, <1>2, <1>3, <1>4, JoinByWorker DEF DestructorInv

\* A call of the pool keeps JoinInv: it comes from a running task once the
\* destructor has begun, and notifications do not reach an exited worker.
LEMMA JoinCall ==
  ASSUME DestructorInv, NEW a \in Agents,
         CallStep(a) \/ StopTest(a) \/ \E t \in Tasks : InsertTest(a, t)
  PROVE  JoinInv'
  <1>1. UNCHANGED <<owner, next, joined>>
    BY DEF CallStep, PushItem, SetStop, ExitBlock, StopTest, InsertTest, ownerVars
  <1>2. \A w \in Workers : pc[w] \in {"run", "exit"} => pc'[w] = pc[w]
    BY DEF CallStep, PushItem, NotifyOne, Waiting, SetStop, ExitBlock, NotifyAll,
           StopTest, InsertTest, workerVars, DestructorInv, TypeOK
  <1>3. \A b \in Agents \ {a} : op'[b] = op[b]
    BY DEF CallStep, PushItem, SetStop, ExitBlock, StopTest, InsertTest,
           DestructorInv, TypeOK
  <1>4. op[a] # "none" \/ MayCall(a)
    BY DEF CallStep, PushItem, SetStop, ExitBlock, StopTest, InsertTest
  <1>5. joined \subseteq Workers
    BY DEF DestructorInv, TypeOK
  <1> QED
    BY <1>1, <1>2, <1>3, <1>4, <1>5, JoinByCall DEF DestructorInv

\* The owner's own steps keep JoinInv.
LEMMA JoinOwner ==
  ASSUME PoolTypes, JoinInv, WaitCall \/ DtorTest \/ Join
  PROVE  JoinInv'
  <1>1. op' = op
    BY DEF WaitCall, DtorTest, Join, WaitJoin, WaitReturn, DtorSetStop,
           DtorExitBlock, DtorJoin, DtorReturn, OwnerUnchanged, callVars
  <1>2. \A w \in Workers : pc[w] \in {"run", "exit"} => pc'[w] = pc[w]
    BY DEF WaitCall, DtorTest, Join, WaitJoin, WaitReturn, DtorSetStop,
           DtorExitBlock, DtorJoin, DtorReturn, OwnerUnchanged, workerVars,
           NotifyAll
  <1>3. joined \subseteq Workers /\ next \in 1 .. PoolSize + 1
    BY DEF PoolTypes
  <1>4. Destructing' => \A c \in Callers : op[c] = "none"
    BY DEF WaitCall, DtorTest, Join, WaitJoin, WaitReturn, DtorSetStop,
           DtorExitBlock, DtorJoin, DtorReturn, Destructing, JoinInv
  <1>5. \A w \in joined' : pc[w] = "exit"
    BY DEF WaitCall, DtorTest, Join, WaitJoin, WaitReturn, DtorSetStop,
           DtorExitBlock, DtorJoin, DtorReturn, JoinInv
  <1>6. owner' = "join" => 1 .. next' - 1 \subseteq joined'
    <2>1. CASE DtorJoin
      <3>1. 1 .. next \subseteq joined \cup {next}
        <4>1. 1 .. next - 1 \subseteq joined
          BY <2>1 DEF DtorJoin, JoinInv
        <4>2. \A i \in 1 .. next : i = next \/ i \in 1 .. next - 1
          BY <1>3
        <4> QED
          BY <4>1, <4>2
      <3>2. next' - 1 = next /\ joined' = joined \cup {next}
        BY <1>3, <2>1 DEF DtorJoin
      <3> QED
        BY <3>1, <3>2
    <2>2. CASE DtorExitBlock \/ DtorTest
      <3>1. next' = 1
        BY <2>2
        DEF DtorExitBlock, DtorTest, JoinInv
      <3> QED
        BY <3>1
    <2>3. CASE WaitCall \/ WaitJoin \/ WaitReturn \/ DtorSetStop \/ DtorReturn
      BY <2>3 DEF WaitCall, WaitJoin, WaitReturn, DtorSetStop, DtorReturn
    <2> QED
      BY <2>1, <2>2, <2>3 DEF Join
  <1>7. owner' \in {"set_stop", "exit_block"} => next' = 1
    BY DEF WaitCall, DtorTest, Join, WaitJoin, WaitReturn, DtorSetStop,
           DtorExitBlock, DtorJoin, DtorReturn, JoinInv
  <1>8. owner' = "destroyed" => joined' = Workers
    <2>1. CASE DtorReturn
      <3>1. next = PoolSize + 1
        BY <1>3, <2>1 DEF DtorReturn, Workers
      <3>2. Workers \subseteq joined
        BY <2>1, <3>1 DEF DtorReturn, JoinInv, Workers
      <3> QED
        BY <1>3, <2>1, <3>2 DEF DtorReturn
    <2>2. CASE ~DtorReturn
      BY <2>2 DEF WaitCall, DtorTest, Join, WaitJoin, WaitReturn, DtorSetStop,
                  DtorExitBlock, DtorJoin
    <2> QED
      BY <2>1, <2>2
  <1>9. joined' \subseteq Workers
    BY <1>3 DEF WaitCall, DtorTest, Join, WaitJoin, WaitReturn, DtorSetStop,
           DtorExitBlock, DtorJoin, DtorReturn
  <1> QED
    BY <1>1, <1>2, <1>3, <1>4, <1>5, <1>6, <1>7, <1>8, <1>9
    DEF JoinInv

\* The destructor returns only when no worker and no task can reach the pool.
THEOREM DestructorIsSafe == Spec => []DestroyedQuiescent
  <1>1. Init => DestructorInv
    BY TypeInit DEF Init, DestructorInv, JoinInv, Destructing, Agents
  <1>2. DestructorInv /\ [Next]_vars => DestructorInv'
    <2> SUFFICES ASSUME DestructorInv, [Next]_vars PROVE JoinInv'
      BY TypeNext DEF DestructorInv
    <2>1. CASE Destroyed \/ UNCHANGED vars
      BY <2>1 DEF Destroyed, vars, DestructorInv, JoinInv, Destructing
    <2>2. TypeOK => PoolTypes
      BY DEF TypeOK, PoolTypes, Idle
    <2> QED
      BY <2>1, <2>2, JoinWorker, JoinCall, JoinOwner DEF Next, DestructorInv
  <1>3. DestructorInv => DestroyedQuiescent
    BY DEF DestructorInv, JoinInv, DestroyedQuiescent, Destructing, Agents
  <1> QED
    BY <1>1, <1>2, <1>3, PTL DEF Spec

-----------------------------------------------------------------------------
(* Refinement of the abstract task pool. *)

Claimed == {task[w] : w \in {v \in Workers : pc[v] = "test"}}
Running == {task[w] : w \in {v \in Workers : pc[v] = "run"}}

poolVars == <<m_stop, m_tasks, Claimed, Running, done, dropped>>

\* Taking the front of the queue is the abstract Claim: a worker that takes a
\* task has none, so that fewer than PoolSize tasks are held.
LEMMA RefineClaim ==
  ASSUME SharedInv, NEW w \in Workers, pc[w] \notin {"test", "run"},
         TakeFront(w), UNCHANGED <<m_stop, done, dropped>>
  PROVE  TP!Claim
  <1> DEFINE S == Workers \ {w}
  <1>1. IsFiniteSet(S) /\ Cardinality(S) = PoolSize - 1
    <2>1. IsFiniteSet(Workers) /\ Cardinality(Workers) = PoolSize
      BY FS_Interval DEF Workers
    <2> QED
      BY <2>1, FS_RemoveElement
  <1>2. Holding \subseteq S
    BY DEF Holding
  <1>3. IsFiniteSet(Holding) /\ Cardinality(Holding) <= PoolSize - 1
    BY <1>1, <1>2, FS_Subset
  <1>4. Held = Claimed \cup Running
    BY DEF Held, Claimed, Running, Holding
  <1>5. Cardinality(Held) <= Cardinality(Holding) /\ Cardinality(Held) \in Nat
    <2> DEFINE f == [v \in Holding |-> task[v]]
    <2>1. f \in Surjection(Holding, Held)
      BY DEF Surjection, Held
    <2> QED
      BY <1>3, <2>1, FS_Surjection, FS_CardinalityType
  <1>6. Cardinality(Claimed \cup Running) < PoolSize
    BY <1>1, <1>3, <1>4, <1>5, FS_CardinalityType
  <1>7. Claimed' = Claimed \cup {Head(m_tasks)} /\ Running' = Running
    BY DEF Claimed, Running, TakeFront, SharedInv, PoolTypes
  <1>8. TP!Claim <=> /\ m_tasks # << >> /\ Cardinality(Claimed \cup Running) < PoolSize
                     /\ Claimed' = Claimed \cup {Head(m_tasks)}
                     /\ m_tasks' = Tail(m_tasks)
                     /\ UNCHANGED <<m_stop, Running, done, dropped>>
    BY DEF TP!Claim, TP!Cardinality, Cardinality, TP!IsFiniteSet, IsFiniteSet, Claimed, Running
  <1> QED
    BY <1>6, <1>7, <1>8 DEF TakeFront

\* push_item is the abstract Submit of a task that was never accepted before.
LEMMA RefineSubmit ==
  ASSUME ConservationInv, NEW a \in Agents, PushItem(a)
  PROVE  \E t \in Tasks : TP!Submit(t)
  <1>1. arg[a] \in Tasks /\ arg[a] \notin Range(pushed)
    BY DEF ConservationInv, TypeOK, Unpushed, PushItem
  <1>2. Held = Claimed \cup Running
    BY DEF Held, Claimed, Running, Holding
  <1>3. arg[a] \notin Range(m_tasks) \cup Claimed \cup Running \cup done \cup dropped
    BY <1>1, <1>2 DEF ConservationInv, TasksConserved
  <1>4. Adds(arg[a])
    BY PushItemAdds DEF ConservationInv
  <1>5. Claimed' = Claimed /\ Running' = Running
    BY <1>4 DEF Claimed, Running, Adds
  <1>6. TP!Submit(arg[a]) <=>
          /\ arg[a] \notin Range(m_tasks) \cup Claimed \cup Running \cup done \cup dropped
          /\ m_tasks' = Append(m_tasks, arg[a])
          /\ UNCHANGED <<m_stop, Claimed, Running, done, dropped>>
    BY DEF TP!Submit, TP!Accepted, TP!Range, Range, Claimed, Running
  <1>7. TP!Submit(arg[a])
    BY <1>3, <1>4, <1>5, <1>6 DEF Adds
  <1> QED
    BY <1>1, <1>7

\* What a worker does with the task it took.
LEMMA RefineTask ==
  ASSUME SharedInv, NEW w \in Workers,
         BeginTask(w) \/ DropTask(w) \/ EndTask(w)
  PROVE  \E t \in Tasks : TP!Begin(t) \/ TP!Drop(t) \/ TP!Finish(t)
  <1>1. w \in Holding /\ task[w] \in Tasks
    BY DEF SharedInv, PoolTypes, Holding, BeginTask, DropTask, EndTask
  <1>2. \A v \in Workers \ {w} : v \in Holding => task[v] # task[w]
    BY <1>1 DEF SharedInv, TasksConserved
  <1>3. CASE BeginTask(w)
    <2>1. Claimed' = Claimed \ {task[w]} /\ Running' = Running \cup {task[w]}
      BY <1>2, <1>3 DEF Claimed, Running, BeginTask, Holding, SharedInv, PoolTypes
    <2>2. task[w] \in Claimed
      BY <1>3 DEF Claimed, BeginTask
    <2> QED
      BY <1>1, <1>3, <2>1, <2>2 DEF TP!Begin, Claimed, Running, BeginTask
  <1>4. CASE DropTask(w)
    <2>1. Claimed' = Claimed \ {task[w]} /\ Running' = Running
      BY <1>2, <1>4 DEF Claimed, Running, DropTask, Holding, SharedInv, PoolTypes
    <2>2. task[w] \in Claimed
      BY <1>4 DEF Claimed, DropTask
    <2> QED
      BY <1>1, <1>4, <2>1, <2>2 DEF TP!Drop, Claimed, Running, DropTask
  <1>5. CASE EndTask(w)
    <2>1. Running' = Running \ {task[w]} /\ Claimed' = Claimed
      BY <1>2, <1>5 DEF Claimed, Running, EndTask, Holding, SharedInv, PoolTypes
    <2>2. task[w] \in Running
      BY <1>5 DEF Running, EndTask
    <2> QED
      BY <1>1, <1>5, <2>1, <2>2 DEF TP!Finish, Claimed, Running, EndTask
  <1> QED
    BY <1>3, <1>4, <1>5

\* The steps that the pools have in common are steps of the abstract task pool
\* or stutter.
LEMMA RefinePool ==
  ASSUME SharedInv, PoolStep
  PROVE  \/ \E t \in Tasks : TP!Begin(t) \/ TP!Drop(t) \/ TP!Finish(t)
         \/ TP!Stop \/ UNCHANGED poolVars
  <1>1. ASSUME NEW w \in Workers, LoopTest(w) \/ SpuriousWake(w) \/ Timeout(w)
        PROVE  UNCHANGED poolVars
    BY <1>1 DEF LoopTest, SpuriousWake, Timeout, poolVars, Claimed, Running,
                SharedInv, PoolTypes
  <1>2. ASSUME NEW a \in Agents, SetStop(a) \/ ExitBlock(a) \/ StopTest(a)
        PROVE  TP!Stop \/ UNCHANGED poolVars
    <2>1. SetStop(a) => TP!Stop
      BY DEF SetStop, TP!Stop, workerVars
    <2>2. ExitBlock(a) => UNCHANGED poolVars
      <3> SUFFICES ASSUME ExitBlock(a) PROVE UNCHANGED poolVars
        OBVIOUS
      <3>1. \A v \in Workers : /\ (pc'[v] = "test") <=> (pc[v] = "test")
                               /\ (pc'[v] = "run") <=> (pc[v] = "run")
        BY DEF ExitBlock, NotifyAll
      <3>2. UNCHANGED <<m_stop, m_tasks, task, done, dropped>>
        BY DEF ExitBlock
      <3> QED
        BY <3>1, <3>2 DEF poolVars, Claimed, Running
    <2>3. StopTest(a) => UNCHANGED poolVars
      BY DEF StopTest, workerVars, poolVars, Claimed, Running
    <2> QED
      BY <1>2, <2>1, <2>2, <2>3
  <1>3. ASSUME NEW a \in Agents, NEW t \in Tasks, InsertTest(a, t)
        PROVE  UNCHANGED poolVars
    BY <1>3 DEF InsertTest, workerVars, poolVars, Claimed, Running
  <1>4. CASE WaitCall \/ DtorTest \/ Join \/ Destroyed
    <2>1. DtorSetStop => TP!Stop
      BY DEF DtorSetStop, TP!Stop, OwnerUnchanged, workerVars
    <2>2. DtorExitBlock => UNCHANGED poolVars
      BY DEF DtorExitBlock, NotifyAll, poolVars, Claimed, Running, SharedInv, PoolTypes
    <2>3. ~DtorSetStop /\ ~DtorExitBlock => UNCHANGED poolVars
      BY <1>4 DEF WaitCall, DtorTest, Join, Destroyed, vars, WaitJoin, WaitReturn,
                  DtorJoin, DtorReturn, OwnerUnchanged, workerVars, poolVars,
                  Claimed, Running
    <2> QED
      BY <2>1, <2>2, <2>3
  <1>5. ASSUME NEW w \in Workers, BeginTask(w) \/ DropTask(w) \/ EndTask(w)
        PROVE  \E t \in Tasks : TP!Begin(t) \/ TP!Drop(t) \/ TP!Finish(t)
    BY <1>5, RefineTask
  <1> QED
    BY <1>1, <1>2, <1>3, <1>4, <1>5 DEF PoolStep

\* Every step of the pool is a step of the abstract task pool or a stutter.
LEMMA RefineNext == ConservationInv /\ [Next]_vars => [TP!Next]_(TP!vars)
  <1> SUFFICES ASSUME ConservationInv, [Next]_vars
               PROVE  TP!Next \/ UNCHANGED poolVars
    BY DEF TP!vars, poolVars, Claimed, Running
  <1>1. SharedInv
    BY ConservationIsShared
  <1>2. CASE PoolStep
    BY <1>1, <1>2, RefinePool DEF TP!Next
  <1>3. ASSUME NEW w \in Workers, BlockPop(w) \/ Wake(w) \/ WakeTimedOut(w)
        PROVE  TP!Next \/ UNCHANGED poolVars
    <2>1. CASE TakeFront(w)
      BY <1>1, <1>3, <2>1, RefineClaim DEF BlockPop, Wake, WakeTimedOut, TP!Next
    <2>2. ~TakeFront(w) => UNCHANGED poolVars
      BY <1>3 DEF BlockPop, Wake, WakeTimedOut, poolVars, Claimed, Running,
                  ConservationInv, TypeOK
    <2> QED
      BY <2>1, <2>2
  <1>4. ASSUME NEW a \in Agents, PushItem(a)
        PROVE  TP!Next
    BY <1>4, RefineSubmit DEF TP!Next
  <1>5. CASE UNCHANGED vars
    BY <1>5 DEF vars, poolVars, Claimed, Running
  <1> QED
    BY <1>2, <1>3, <1>4, <1>5 DEF Next, WorkerStep, CallStep, PoolStep

\* The thread pool implements the abstract task pool for any number of workers:
\* first in first out claims, at most one execution per task, none after stop().
THEOREM ImplementsTaskPool == Spec => RefinesTaskPool
  <1>1. Init => TP!Init
    BY DEF Init, TP!Init
  <1>2. Init => ConservationInv
    BY ConservationInit
  <1>3. ConservationInv /\ [Next]_vars => ConservationInv'
    BY ConservationNext
  <1>4. ConservationInv /\ [Next]_vars => [TP!Next]_(TP!vars)
    BY RefineNext
  <1> QED
    BY <1>1, <1>2, <1>3, <1>4, PTL DEF Spec, RefinesTaskPool, TP!Spec
=============================================================================
