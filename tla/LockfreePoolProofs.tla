------------------------- MODULE LockfreePoolProofs -------------------------
(***************************************************************************)
(* Proofs about lockfree_thread_pool for any number of workers, callers    *)
(* and tasks.  The lemmas of ThreadPoolProofs about the steps that the two *)
(* pools have in common, and about taking and adding a task, are used; new *)
(* are the steps of push_item and block_pop_item without the mutex.        *)
(***************************************************************************)
EXTENDS LockfreePool, ThreadPoolProofs

USE PoolSizeAssumption, CallersAssumption, TasksAssumption, NobodyAssumption

-----------------------------------------------------------------------------
(* The inductive invariant. *)

\* Where a task that is linked may be: behind m_tail, or behind the node of a caller.
Places == Agents \cup {Nobody}

\* Types; one worker at a time evaluates the predicate, and it holds the mutex.
QueueTypes ==
  /\ mtx \in Workers \cup {Nobody}
  /\ \A w \in Workers : pc[w] = "pred" <=> mtx = w
  /\ at \in [Agents -> Nat]
  /\ linked \in [Places -> Seq(Tasks)]
  /\ lost \subseteq Tasks /\ accepted \subseteq Tasks /\ stale \in BOOLEAN

\* m_head and m_tail move forward only, and m_head does not pass m_tail.
Positions ==
  /\ Len(m_tasks) <= Len(pushed)
  /\ \A a \in Agents : at[a] <= TailPos
  /\ \A w \in Workers : pc[w] \in {"pred", "take_next"} => at[w] <= HeadPos

\* A caller in emplace has a task of its own, which nobody has linked.
Unaccepted ==
  /\ accepted \subseteq used
  /\ \A a \in Agents : op[a] \in {"insert", "link"} => arg[a] \in used \ accepted
  /\ \A a, b \in Agents :
       op[a] \in {"insert", "link"} /\ op[b] \in {"insert", "link"} /\ a # b
         => arg[a] # arg[b]

\* A task that is linked is in one place.
Apart ==
  /\ \A x \in Places : IsInjective(linked[x]) /\ Range(linked[x]) \cap lost = {}
  /\ \A x, y \in Places : x # y => Range(linked[x]) \cap Range(linked[y]) = {}
  /\ accepted = Range(pushed) \cup Adrift
  /\ Range(pushed) \cap Adrift = {}
  /\ lost # {} => stale

\* The caller that linked a node behind the last one is to move m_tail to it, unless
\* another has moved it.  As long as no node was linked to a free one, m_tail lags
\* behind the last node only.
Lagging ==
  /\ \A a \in Agents : op[a] = "swing" /\ at[a] = TailPos => linked[Nobody] # << >>
  /\ ~stale => /\ \A a \in Agents : linked[a] = << >>
               /\ Len(linked[Nobody]) <= 1
               /\ linked[Nobody] # << >> => \E a \in Agents : op[a] = "swing" /\ at[a] = TailPos

LfInv == /\ PoolTypes /\ QueueTypes /\ JoinInv /\ Positions /\ Unaccepted /\ TasksConserved
         /\ Apart /\ Lagging /\ IsFiniteSet(Notifying) /\ LfNoLostWakeup

\* The steps that only the lock-free pool has.
PopStep(w) == LfLoadHead(w) \/ LfLoadTail(w) \/ LfTimedOut(w) \/ LfPop(w) \/ LfPopNext(w)
PushStep(a) == LfTail(a) \/ LfHelp(a) \/ LfLink(a) \/ LfSwing(a) \/ LfNotify(a)

\* What they do to the queue when they neither take nor link a task: nothing, or
\* m_tail is moved to the next node.
QueueKept == UNCHANGED <<m_tasks, pushed, linked, lost, accepted, stale>>
Moving == linked[Nobody] # << >> /\ MoveTail /\ UNCHANGED <<lost, accepted, stale>>

\* No worker takes a task, begins it or leaves it, and the pool is not stopped.
TasksKept == /\ \A w \in Workers : /\ (pc'[w] = "test") <=> (pc[w] = "test")
                                   /\ (pc'[w] = "run") <=> (pc[w] = "run")
             /\ UNCHANGED <<m_stop, task, used, done, dropped>>

\* A step is one of the pool with the mutex, or one of push_item or
\* block_pop_item.
LEMMA LfStepKinds ==
  ASSUME LfNext
  PROVE  \/ PoolStep /\ UNCHANGED queueVars
         \/ \E w \in Workers : PopStep(w)
         \/ \E a \in Agents : PushStep(a)
  <1>1. CASE \E w \in Workers : LfWorkerStep(w)
    BY <1>1 DEF LfWorkerStep, PoolStep, PopStep
  <1>2. CASE \E w \in Workers : (SpuriousWake(w) \/ Timeout(w)) /\ UNCHANGED queueVars
    BY <1>2 DEF PoolStep
  <1>3. CASE \E a \in Agents : LfCallStep(a) \/ (StopTest(a) /\ UNCHANGED queueVars)
    BY <1>3 DEF LfCallStep, PoolStep, PushStep
  <1>4. CASE \E a \in Agents : LfInsertTest(a) /\ UNCHANGED queueVars
    <2>1. PICK a \in Agents : LfInsertTest(a) /\ UNCHANGED queueVars
      BY <1>4
    <2>2. \E t \in Tasks : InsertTest(a, t)
      BY <2>1 DEF LfInsertTest
    <2> QED
      BY <2>1, <2>2 DEF PoolStep
  <1>5. CASE LfJoin \/ ((WaitCall \/ DtorTest \/ Destroyed) /\ UNCHANGED queueVars)
    BY <1>5 DEF LfJoin, PoolStep, Join
  <1> QED
    BY <1>1, <1>2, <1>3, <1>4, <1>5 DEF LfNext

\* The initial state satisfies the invariant.
LEMMA LfInvInit == LfInit => LfInv
  <1> SUFFICES ASSUME LfInit PROVE LfInv
    OBVIOUS
  <1>1. SharedInv /\ Range(pushed) = {}
    BY ConservationInit, ConservationIsShared DEF LfInit, Init, Range
  <1>2. QueueTypes /\ Unaccepted
    <2>1. linked \in [Places -> Seq(Tasks)]
      BY DEF LfInit, Places
    <2>2. \A w \in Workers : pc[w] # "pred" /\ mtx # w
      BY DEF LfInit, Init, Agents
    <2>3. at \in [Agents -> Nat] /\ mtx = Nobody /\ lost = {} /\ accepted = {} /\ stale = FALSE
      BY DEF LfInit
    <2>4. Unaccepted
      BY <2>3 DEF LfInit, Init, Unaccepted
    <2> QED
      BY <2>1, <2>2, <2>3, <2>4 DEF QueueTypes
  <1>9. Positions
    <2>1. Len(m_tasks) = 0 /\ Len(pushed) = 0
      BY DEF LfInit, Init
    <2> QED
      BY <2>1 DEF LfInit, Init, Positions, HeadPos, TailPos
  <1>3. JoinInv
    BY DEF LfInit, Init, JoinInv, Destructing, Agents
  <1>4. \A x \in Places : IsInjective(linked[x]) /\ Range(linked[x]) = {}
    BY DEF LfInit, Places, IsInjective, Range
  <1>5. Adrift = {}
    BY <1>4 DEF Adrift, LfInit, Places
  <1>6. Apart
    BY <1>1, <1>4, <1>5 DEF Apart, LfInit
  <1>7. Lagging
    BY DEF Lagging, LfInit, Init
  <1>8. Notifying = {} /\ Waiting = {}
    BY DEF LfInit, Init, Notifying, Waiting
  <1> QED
    BY <1>1, <1>2, <1>3, <1>6, <1>7, <1>8, <1>9, FS_EmptySet DEF LfInv, SharedInv, LfNoLostWakeup

\* The invariant implies the one that the lemmas about both pools need.
LEMMA LfShared ==
  ASSUME PoolTypes, Unaccepted, TasksConserved, Apart
  PROVE  SharedInv
  BY DEF SharedInv, Unpushed, Unaccepted, Apart

-----------------------------------------------------------------------------
(* Facts about chains of nodes. *)

\* Nodes linked behind others: the tasks are those of both.
LEMMA RangeConcat ==
  ASSUME NEW S, NEW s \in Seq(S), NEW t \in Seq(S)
  PROVE  s \o t \in Seq(S) /\ Range(s \o t) = Range(s) \cup Range(t)
  <1>1. s \o t \in Seq(S) /\ Len(s \o t) = Len(s) + Len(t)
    OBVIOUS
  <1>2. /\ DOMAIN s = 1 .. Len(s) /\ DOMAIN t = 1 .. Len(t) /\ Len(s) \in Nat /\ Len(t) \in Nat
        /\ DOMAIN (s \o t) = 1 .. Len(s) + Len(t)
    BY <1>1
  <1>3. /\ \A i \in 1 .. Len(s) : (s \o t)[i] = s[i]
        /\ \A i \in 1 .. Len(t) : (s \o t)[Len(s) + i] = t[i]
    OBVIOUS
  <1>4. ASSUME NEW e \in Range(s \o t) PROVE e \in Range(s) \cup Range(t)
    <2>1. PICK i \in 1 .. Len(s) + Len(t) : e = (s \o t)[i]
      BY <1>2, <1>4 DEF Range
    <2>2. CASE i <= Len(s)
      BY <1>2, <1>3, <2>1, <2>2 DEF Range
    <2>3. CASE i > Len(s)
      <3>1. i - Len(s) \in 1 .. Len(t) /\ i = Len(s) + (i - Len(s))
        BY <1>2, <2>3
      <3> QED
        BY <1>2, <1>3, <2>1, <3>1 DEF Range
    <2> QED
      BY <1>2, <2>2, <2>3
  <1>5. ASSUME NEW e \in Range(s) PROVE e \in Range(s \o t)
    <2>1. PICK i \in 1 .. Len(s) : e = s[i]
      BY <1>2, <1>5 DEF Range
    <2> QED
      BY <1>2, <1>3, <2>1 DEF Range
  <1>6. ASSUME NEW e \in Range(t) PROVE e \in Range(s \o t)
    <2>1. PICK i \in 1 .. Len(t) : e = t[i]
      BY <1>2, <1>6 DEF Range
    <2>2. Len(s) + i \in 1 .. Len(s) + Len(t)
      BY <1>2
    <2> QED
      BY <1>2, <1>3, <2>1, <2>2 DEF Range
  <1> QED
    BY <1>1, <1>4, <1>5, <1>6

\* Chains without a task in common, each without a task twice, make one such chain.
LEMMA InjectiveConcat ==
  ASSUME NEW S, NEW s \in Seq(S), NEW t \in Seq(S),
         IsInjective(s), IsInjective(t), Range(s) \cap Range(t) = {}
  PROVE  IsInjective(s \o t)
  <1> DEFINE u == s \o t
  <1>1. Len(u) = Len(s) + Len(t) /\ Len(s) \in Nat /\ Len(t) \in Nat
    OBVIOUS
  <1>2. /\ DOMAIN s = 1 .. Len(s) /\ DOMAIN t = 1 .. Len(t)
        /\ DOMAIN u = 1 .. Len(s) + Len(t)
    BY <1>1
  <1>3. /\ \A i \in 1 .. Len(s) : u[i] = s[i] /\ s[i] \in Range(s)
        /\ \A i \in 1 .. Len(s) + Len(t) : i > Len(s) =>
              /\ i - Len(s) \in 1 .. Len(t) /\ u[i] = t[i - Len(s)]
              /\ t[i - Len(s)] \in Range(t)
    BY <1>1, <1>2 DEF Range
  <1> HIDE DEF u
  <1>4. ASSUME NEW i \in 1 .. Len(s) + Len(t), NEW j \in 1 .. Len(s) + Len(t), u[i] = u[j]
        PROVE  i = j
    <2>1. CASE i <= Len(s) /\ j <= Len(s)
      BY <1>1, <1>2, <1>3, <1>4, <2>1 DEF IsInjective
    <2>2. CASE i > Len(s) /\ j > Len(s)
      <3>1. i - Len(s) = j - Len(s)
        BY <1>2, <1>3, <1>4, <2>2 DEF IsInjective
      <3> QED
        BY <1>1, <3>1
    <2>3. CASE i <= Len(s) /\ j > Len(s)
      BY <1>1, <1>3, <1>4, <2>3
    <2>4. CASE i > Len(s) /\ j <= Len(s)
      BY <1>1, <1>3, <1>4, <2>4
    <2> QED
      BY <1>1, <2>1, <2>2, <2>3, <2>4
  <1>5. IsInjective(u)
    BY <1>2, <1>4 DEF IsInjective
  <1> QED
    BY <1>5 DEF u

\* What a caller links: its own task first, then those linked behind its node.
LEMMA ChainIs ==
  ASSUME PoolTypes, QueueTypes, Unaccepted, Apart, NEW a \in Agents, op[a] \in {"insert", "link"}
  PROVE  /\ Chain(a) \in Seq(Tasks) /\ IsInjective(Chain(a))
         /\ Range(Chain(a)) = {arg[a]} \cup Range(linked[a])
         /\ arg[a] \in Tasks /\ arg[a] \notin accepted
         /\ Chain(a) # << >> /\ (linked[a] = << >> => Len(Chain(a)) = 1)
  <1>1. arg[a] \in Tasks /\ arg[a] \notin accepted /\ linked[a] \in Seq(Tasks) /\ a \in Places
    BY DEF PoolTypes, QueueTypes, Unaccepted, Places
  <1>2. Range(linked[a]) \subseteq accepted /\ IsInjective(linked[a])
    BY <1>1 DEF Apart, Adrift, Places
  <1>3. <<arg[a]>> \in Seq(Tasks) /\ Range(<<arg[a]>>) = {arg[a]} /\ IsInjective(<<arg[a]>>)
    BY <1>1 DEF Range, IsInjective
  <1>4. Range(<<arg[a]>>) \cap Range(linked[a]) = {}
    BY <1>1, <1>2, <1>3
  <1>5. Len(Chain(a)) = 1 + Len(linked[a]) /\ Len(linked[a]) \in Nat
    BY <1>1, <1>3 DEF Chain
  <1>6. Chain(a) # << >> /\ (linked[a] = << >> => Len(Chain(a)) = 1)
    BY <1>5
  <1>7. Chain(a) \in Seq(Tasks) /\ Range(Chain(a)) = {arg[a]} \cup Range(linked[a])
    <2> DEFINE s == <<arg[a]>>
    <2>1. s \in Seq(Tasks) /\ Range(s) = {arg[a]} /\ Chain(a) = s \o linked[a]
      BY <1>3 DEF Chain
    <2> HIDE DEF s
    <2>2. s \o linked[a] \in Seq(Tasks) /\ Range(s \o linked[a]) = Range(s) \cup Range(linked[a])
      BY <1>1, <2>1, RangeConcat
    <2> QED
      BY <2>1, <2>2
  <1>8. IsInjective(Chain(a))
    BY <1>1, <1>2, <1>3, <1>4, InjectiveConcat DEF Chain
  <1> QED
    BY <1>1, <1>6, <1>7, <1>8

-----------------------------------------------------------------------------
(* What the steps do to the queue. *)

\* block_pop_item takes a task, moves m_tail or leaves the queue alone
\* (lockfree_queue.h:46-94, thread_pool.h:453-460).
LEMMA PopEffect ==
  ASSUME PoolTypes, QueueTypes, NEW w \in Workers, PopStep(w)
  PROVE  /\ UNCHANGED <<m_stop, begun, done, dropped, op, arg, used>>
         /\ UNCHANGED <<owner, next, joined, lost, accepted, stale>>
         /\ pc[w] \in {"pop", "notified", "pred", "timeout", "take", "take_next"}
         /\ \A v \in Workers \ {w} : pc'[v] = pc[v]
         /\ \/ TasksKept /\ (QueueKept \/ Moving)
            \/ TakeFront(w) /\ UNCHANGED <<pushed, linked>>
  <1> USE DEF PoolTypes, callVars, ownerVars, LfUnchanged, TailStays, TasksKept, QueueKept
  <1>1. CASE LfLoadHead(w) \/ LfTimedOut(w)
    BY <1>1 DEF LfLoadHead, LfTimedOut
  <1>2. CASE LfLoadTail(w)
    <2>1. pc[w] = "pred"
      BY <1>2 DEF LfLoadTail, QueueTypes
    <2> QED
      BY <1>2, <2>1 DEF LfLoadTail
  <1>3. CASE LfPop(w)
    BY <1>3 DEF LfPop, TakeFront
  <1>4. CASE LfPopNext(w)
    <2>1. \/ TailStays
          \/ Moving
      BY <1>4 DEF LfPopNext, Moving
    <2>2. pc[w] = "take_next" /\ \E p \in {"loop", "take"} : pc' = [pc EXCEPT ![w] = p]
      BY <1>4 DEF LfPopNext
    <2>3. TasksKept
      BY <1>4, <2>2 DEF LfPopNext
    <2> QED
      BY <1>4, <2>1, <2>2, <2>3 DEF LfPopNext
  <1> QED
    BY <1>1, <1>2, <1>3, <1>4 DEF PopStep

\* push_item links its task, moves m_tail or leaves the queue alone
\* (lockfree_queue.h:96-129, thread_pool.h:461-471).
LEMMA PushEffect ==
  ASSUME PoolTypes, Lagging, NEW a \in Agents, PushStep(a)
  PROVE  /\ UNCHANGED <<begun, owner, next, joined>> /\ TasksKept
         /\ op[a] \in {"insert", "link", "swing", "notify"}
         /\ \A b \in Agents \ {a} : op'[b] = op[b] /\ arg'[b] = arg[b]
         /\ \A w \in Workers : pc'[w] = pc[w] \/ (pc[w] = "wait" /\ pc'[w] = "notified")
         /\ QueueKept \/ Moving \/ LfLink(a)
  <1> USE DEF PoolTypes, workerVars, ownerVars, CallUnchanged, TailStays, TasksKept, QueueKept
  <1>1. CASE LfTail(a)
    BY <1>1 DEF LfTail
  <1>2. CASE LfHelp(a)
    BY <1>2 DEF LfHelp, Moving
  <1>3. CASE LfLink(a)
    BY <1>3 DEF LfLink
  <1>4. CASE LfSwing(a)
    BY <1>4 DEF LfSwing, Moving, Lagging
  <1>5. CASE LfNotify(a)
    <2>1. \A w \in Workers : pc'[w] = pc[w] \/ (pc[w] = "wait" /\ pc'[w] = "notified")
      BY <1>5 DEF LfNotify, NotifyOne, Waiting
    <2> QED
      BY <1>5, <2>1 DEF LfNotify, queueVars
  <1> QED
    BY <1>1, <1>2, <1>3, <1>4, <1>5 DEF PushStep

\* Accepted tasks that m_tail has not come to, one by one.
LEMMA AdriftIs ==
  /\ \A t : t \in Adrift <=> t \in lost \/ \E x \in Places : t \in Range(linked[x])
  /\ \A t : t \in Adrift' <=> t \in lost' \/ \E x \in Places : t \in Range(linked'[x])
  BY DEF Adrift, Places

\* m_tail comes to a task that was behind it and is nowhere else then
\* (lockfree_queue.h:67, 115, 124).
LEMMA MovingIs ==
  ASSUME PoolTypes, QueueTypes, Apart, Moving
  PROVE  /\ \E t \in Adrift \cap Tasks : /\ t \notin Range(pushed)
                                         /\ m_tasks' = Append(m_tasks, t)
                                         /\ pushed' = Append(pushed, t)
                                         /\ Adrift' = Adrift \ {t}
         /\ m_tasks' \in Seq(Tasks) /\ Len(m_tasks') = Len(m_tasks) + 1
         /\ pushed' \in Seq(Tasks) /\ Len(pushed') = Len(pushed) + 1
         /\ Len(linked'[Nobody]) = Len(linked[Nobody]) - 1
         /\ \A a \in Agents : linked'[a] = linked[a]
         /\ linked' \in [Places -> Seq(Tasks)]
         /\ Apart'
  <1> DEFINE s == linked[Nobody]
             t == Head(s)
  <1>1. /\ Nobody \in Places /\ linked \in [Places -> Seq(Tasks)] /\ s \in Seq(Tasks) /\ s # << >>
        /\ linked' = [linked EXCEPT ![Nobody] = Tail(s)]
        /\ m_tasks' = Append(m_tasks, t) /\ pushed' = Append(pushed, t)
        /\ UNCHANGED <<lost, accepted, stale>>
    BY DEF QueueTypes, Moving, MoveTail, Places
  <1>2. t \in Tasks /\ Tail(s) \in Seq(Tasks) /\ Len(Tail(s)) = Len(s) - 1
    BY <1>1
  <1>3. Range(s) = {t} \cup Range(Tail(s))
    BY <1>1, RangeTail
  <1>4. IsInjective(Tail(s)) /\ t \notin Range(Tail(s))
    BY <1>1, InjectiveTail DEF Apart
  <1>5. /\ linked'[Nobody] = Tail(s) /\ \A x \in Places \ {Nobody} : linked'[x] = linked[x]
        /\ linked' \in [Places -> Seq(Tasks)]
    BY <1>1, <1>2
  <1>6. t \in Adrift /\ t \notin Range(pushed) /\ t \notin lost
    BY <1>1, <1>3, AdriftIs DEF Apart
  <1>7. \A x \in Places \ {Nobody} : t \notin Range(linked[x])
    BY <1>1, <1>3 DEF Apart
  <1>8. Adrift' = Adrift \ {t}
    <2>1. ASSUME NEW u \in Adrift' PROVE u \in Adrift /\ u # t
      BY <1>1, <1>3, <1>4, <1>5, <1>6, <1>7, <2>1, AdriftIs
    <2>2. ASSUME NEW u \in Adrift, u # t PROVE u \in Adrift'
      BY <1>1, <1>3, <1>5, <2>2, AdriftIs
    <2> QED
      BY <2>1, <2>2
  <1>9. Range(pushed') = Range(pushed) \cup {t}
    BY <1>1, <1>2, RangeAppend DEF PoolTypes
  <1>10. Apart'
    <2>1. \A x \in Places : IsInjective(linked'[x]) /\ Range(linked'[x]) \cap lost' = {}
      BY <1>1, <1>3, <1>4, <1>5 DEF Apart
    <2>2. \A x, y \in Places : x # y => Range(linked'[x]) \cap Range(linked'[y]) = {}
      BY <1>1, <1>3, <1>5 DEF Apart
    <2>3. accepted' = Range(pushed') \cup Adrift' /\ Range(pushed') \cap Adrift' = {}
      BY <1>1, <1>6, <1>8, <1>9 DEF Apart
    <2> QED
      BY <1>1, <2>1, <2>2, <2>3 DEF Apart
  <1>11. /\ m_tasks' \in Seq(Tasks) /\ Len(m_tasks') = Len(m_tasks) + 1
         /\ pushed' \in Seq(Tasks) /\ Len(pushed') = Len(pushed) + 1
    BY <1>1, <1>2 DEF PoolTypes
  <1>12. \A a \in Agents : linked'[a] = linked[a]
    BY <1>5 DEF Places
  <1> QED
    BY <1>1, <1>2, <1>5, <1>6, <1>8, <1>10, <1>11, <1>12

\* A link adds the task of the caller to those that m_tail has not come to
\* (lockfree_queue.h:110-114).
LEMMA LinkIs ==
  ASSUME PoolTypes, QueueTypes, Unaccepted, Apart, NEW a \in Agents, LfLink(a)
  PROVE  /\ arg[a] \in Tasks \ accepted /\ accepted' = accepted \cup {arg[a]}
         /\ Adrift' = Adrift \cup {arg[a]} /\ lost' \subseteq Tasks
         /\ linked' \in [Places -> Seq(Tasks)] /\ Apart'
  <1> DEFINE c == Chain(a)
             t == arg[a]
  <1>1. /\ c \in Seq(Tasks) /\ IsInjective(c) /\ Range(c) = {t} \cup Range(linked[a])
        /\ t \in Tasks /\ t \notin accepted
    BY ChainIs DEF LfLink
  <1>2. /\ accepted' = accepted \cup {t} /\ UNCHANGED <<m_tasks, pushed>>
        /\ linked \in [Places -> Seq(Tasks)] /\ a \in Places
    BY DEF LfLink, QueueTypes, Places
  <1>3. t \notin Range(pushed) /\ t \notin Adrift
    BY <1>1 DEF Apart
  <1>4. /\ t \notin lost /\ \A x \in Places : t \notin Range(linked[x])
        /\ Range(linked[a]) \subseteq Adrift
    BY <1>2, <1>3, AdriftIs
  <1> HIDE DEF c
  <1>5. ASSUME NEW x \in Places, x # a, lost' = lost,
               linked' = [linked EXCEPT ![x] = linked[x] \o c, ![a] = << >>]
        PROVE  /\ linked' \in [Places -> Seq(Tasks)]
               /\ Adrift' = Adrift \cup {t}
               /\ \A y \in Places : IsInjective(linked'[y]) /\ Range(linked'[y]) \cap lost' = {}
               /\ \A y, z \in Places : y # z => Range(linked'[y]) \cap Range(linked'[z]) = {}
    <2>1. linked[x] \in Seq(Tasks)
      BY <1>2
    <2>2. linked[x] \o c \in Seq(Tasks) /\ Range(linked[x] \o c) = Range(linked[x]) \cup Range(c)
      BY <1>1, <2>1, RangeConcat
    <2>3. Range(linked[x]) \cap Range(c) = {}
      BY <1>1, <1>2, <1>4, <1>5 DEF Apart
    <2>4. IsInjective(linked[x] \o c)
      BY <1>1, <2>1, <2>3, InjectiveConcat DEF Apart
    <2>5. << >> \in Seq(Tasks) /\ Range(<< >>) = {} /\ IsInjective(<< >>)
      BY DEF Range, IsInjective
    <2>6. /\ linked'[x] = linked[x] \o c /\ linked'[a] = << >>
          /\ \A y \in Places \ {x, a} : linked'[y] = linked[y]
      BY <1>2, <1>5
    <2>7. linked' \in [Places -> Seq(Tasks)]
      BY <1>2, <1>5, <2>2, <2>5
    <2>8. ASSUME NEW u \in Adrift' PROVE u \in Adrift \cup {t}
      BY <1>1, <1>2, <1>5, <2>2, <2>5, <2>6, <2>8, AdriftIs
    <2>9. ASSUME NEW u \in Adrift \cup {t} PROVE u \in Adrift'
      <3>1. CASE u \in lost
        BY <1>5, <3>1, AdriftIs
      <3>2. CASE u = t
        BY <1>1, <2>2, <2>6, <3>2, AdriftIs
      <3>3. ASSUME NEW y \in Places, u \in Range(linked[y]) PROVE u \in Adrift'
        <4>1. CASE y = a \/ y = x
          BY <1>1, <2>2, <2>6, <3>3, <4>1, AdriftIs
        <4>2. CASE y # a /\ y # x
          BY <2>6, <3>3, <4>2, AdriftIs
        <4> QED
          BY <4>1, <4>2
      <3> QED
        BY <2>9, <3>1, <3>2, <3>3, AdriftIs
    <2>10. \A y \in Places : IsInjective(linked'[y]) /\ Range(linked'[y]) \cap lost' = {}
      <3>1. Range(linked'[x]) \cap lost' = {} /\ Range(linked'[a]) \cap lost' = {}
        <4>1. Range(linked[x]) \cap lost = {} /\ Range(linked[a]) \cap lost = {}
          BY <1>2 DEF Apart
        <4> QED
          BY <1>1, <1>4, <1>5, <2>2, <2>5, <2>6, <4>1
      <3>2. IsInjective(linked'[x])
        BY <2>4, <2>6
      <3>3. IsInjective(linked'[a])
        BY <2>5, <2>6
      <3>4. ASSUME NEW y \in Places \ {x, a}
            PROVE  IsInjective(linked'[y]) /\ Range(linked'[y]) \cap lost' = {}
        <4>1. linked'[y] = linked[y] /\ lost' = lost
          BY <1>5, <2>6, <3>4
        <4> QED
          BY <3>4, <4>1 DEF Apart
      <3> QED
        BY <3>1, <3>2, <3>3, <3>4
    <2>11. \A y, z \in Places : y # z => Range(linked'[y]) \cap Range(linked'[z]) = {}
      <3>1. ASSUME NEW y \in Places, y # x PROVE Range(linked'[y]) \cap Range(linked'[x]) = {}
        BY <1>1, <1>2, <1>4, <2>2, <2>5, <2>6, <3>1 DEF Apart
      <3>2. ASSUME NEW y \in Places, NEW z \in Places, y # x, z # x, y # z
            PROVE  Range(linked'[y]) \cap Range(linked'[z]) = {}
        BY <2>5, <2>6, <3>2 DEF Apart
      <3> QED
        BY <3>1, <3>2
    <2> QED
      BY <2>7, <2>8, <2>9, <2>10, <2>11
  <1>6. ASSUME linked' = [linked EXCEPT ![a] = << >>], lost' = lost \cup Range(c)
        PROVE  /\ linked' \in [Places -> Seq(Tasks)]
               /\ Adrift' = Adrift \cup {t}
               /\ \A y \in Places : IsInjective(linked'[y]) /\ Range(linked'[y]) \cap lost' = {}
               /\ \A y, z \in Places : y # z => Range(linked'[y]) \cap Range(linked'[z]) = {}
    <2>1. << >> \in Seq(Tasks) /\ Range(<< >>) = {} /\ IsInjective(<< >>)
      BY DEF Range, IsInjective
    <2>2. /\ linked'[a] = << >> /\ \A y \in Places \ {a} : linked'[y] = linked[y]
          /\ linked' \in [Places -> Seq(Tasks)]
      BY <1>2, <1>6, <2>1
    <2>3. Adrift' = Adrift \cup {t}
      <3>1. ASSUME NEW u \in Adrift' PROVE u \in Adrift \cup {t}
        BY <1>1, <1>2, <1>6, <2>1, <2>2, <3>1, AdriftIs
      <3>2. ASSUME NEW u \in Adrift \cup {t} PROVE u \in Adrift'
        BY <1>1, <1>2, <1>6, <2>1, <2>2, <3>2, AdriftIs
      <3> QED
        BY <3>1, <3>2
    <2>4. \A y \in Places : IsInjective(linked'[y]) /\ Range(linked'[y]) \cap lost' = {}
      BY <1>1, <1>2, <1>4, <1>6, <2>1, <2>2 DEF Apart
    <2>5. \A y, z \in Places : y # z => Range(linked'[y]) \cap Range(linked'[z]) = {}
      BY <2>1, <2>2 DEF Apart
    <2> QED
      BY <2>2, <2>3, <2>4, <2>5
  <1>7. \/ \E x \in Places : /\ x # a /\ lost' = lost
                             /\ linked' = [linked EXCEPT ![x] = linked[x] \o c, ![a] = << >>]
        \/ linked' = [linked EXCEPT ![a] = << >>] /\ lost' = lost \cup Range(c)
    <2>1. CASE linked[Nobody] = << >> /\ linked' = [linked EXCEPT ![Nobody] = Chain(a), ![a] = << >>]
               /\ lost' = lost
      <3>1. linked[Nobody] \o c = c /\ Nobody \in Places /\ Nobody # a
        BY <1>1, <2>1 DEF Places
      <3> QED
        BY <2>1, <3>1 DEF c
    <2> QED
      BY <2>1 DEF LfLink, Places, c
  <1>8. /\ linked' \in [Places -> Seq(Tasks)] /\ Adrift' = Adrift \cup {t}
        /\ \A y \in Places : IsInjective(linked'[y]) /\ Range(linked'[y]) \cap lost' = {}
        /\ \A y, z \in Places : y # z => Range(linked'[y]) \cap Range(linked'[z]) = {}
    BY <1>5, <1>6, <1>7
  <1>9. accepted' = Range(pushed') \cup Adrift' /\ Range(pushed') \cap Adrift' = {}
    BY <1>2, <1>3, <1>8 DEF Apart
  <1>10. lost' # {} => stale'
    BY DEF LfLink, Apart
  <1>11. Apart'
    BY <1>8, <1>9, <1>10 DEF Apart
  <1>12. lost' \subseteq Tasks
    <2>1. Range(c) \subseteq Tasks
      BY <1>1 DEF Range
    <2> QED
      BY <1>7, <2>1 DEF QueueTypes
  <1> QED
    BY <1>1, <1>2, <1>8, <1>11, <1>12

-----------------------------------------------------------------------------
(* Types. *)

\* The steps that the pools have in common keep the types.
LEMMA PoolTypesKept ==
  ASSUME PoolTypes, PoolStep
  PROVE  PoolTypes'
  <1> USE DEF PoolTypes, Holding, callVars, ownerVars, workerVars
  <1>1. ASSUME NEW w \in Workers, LoopTest(w) \/ SpuriousWake(w) \/ Timeout(w)
        PROVE  PoolTypes'
    BY <1>1 DEF LoopTest, SpuriousWake, Timeout
  <1>2. ASSUME NEW w \in Workers, BeginTask(w) PROVE PoolTypes'
    BY <1>2 DEF BeginTask
  <1>3. ASSUME NEW w \in Workers, DropTask(w) \/ EndTask(w) PROVE PoolTypes'
    BY <1>3 DEF DropTask, EndTask
  <1>4. ASSUME NEW a \in Agents, SetStop(a) \/ StopTest(a) PROVE PoolTypes'
    BY <1>4 DEF SetStop, StopTest, MayCall, Idle
  <1>5. ASSUME NEW a \in Agents, ExitBlock(a) PROVE PoolTypes'
    BY <1>5 DEF ExitBlock, NotifyAll, Idle
  <1>6. ASSUME NEW a \in Agents, NEW t \in Tasks, InsertTest(a, t) PROVE PoolTypes'
    <2>1. CASE m_stop
      BY <1>6, <2>1 DEF InsertTest
    <2>2. CASE ~m_stop
      <3>1. /\ op' = [op EXCEPT ![a] = "insert"] /\ arg' = [arg EXCEPT ![a] = t]
            /\ used' = used \cup {t}
            /\ UNCHANGED <<m_stop, m_tasks, pushed, workerVars, ownerVars>>
        BY <1>6, <2>2 DEF InsertTest
      <3>2. /\ op' \in [Agents -> Idle \cup {"link", "swing", "notify"}]
            /\ arg' \in [Agents -> Tasks \cup {NoTask}]
            /\ \A b \in Agents : arg'[b] \in Tasks
                                   <=> op'[b] \in {"insert", "link", "swing", "notify"}
        BY <3>1 DEF Idle
      <3> QED
        BY <3>1, <3>2
    <2> QED
      BY <2>1, <2>2
  <1>7. CASE DtorExitBlock
    BY <1>7 DEF DtorExitBlock, NotifyAll
  <1>8. CASE WaitCall \/ DtorTest \/ (Join /\ ~DtorExitBlock) \/ Destroyed
    <2>1. UNCHANGED <<m_tasks, callVars, workerVars>> /\ m_stop' \in BOOLEAN
      BY <1>8 DEF WaitCall, DtorTest, Join, WaitJoin, WaitReturn, DtorSetStop, DtorJoin,
                  DtorReturn, OwnerUnchanged, Destroyed, vars
    <2>2. owner' \in {"open", "wait", "set_stop", "exit_block", "join", "destroyed"}
      BY <1>8 DEF WaitCall, DtorTest, Join, WaitJoin, WaitReturn, DtorSetStop, DtorJoin,
                  DtorReturn, Destroyed, vars
    <2>3. \/ next' = 1 /\ joined' = joined
          \/ next' = next /\ joined' = joined
          \/ next \in Workers /\ next' = next + 1 /\ joined' = joined \cup {next}
      BY <1>8 DEF WaitCall, DtorTest, Join, WaitJoin, WaitReturn, DtorSetStop, DtorJoin,
                  DtorReturn, Destroyed, vars
    <2>4. next' \in 1 .. PoolSize + 1
      BY <2>3 DEF Workers
    <2>5. joined' \subseteq Workers
      BY <2>3
    <2> QED
      BY <2>1, <2>2, <2>4, <2>5
  <1> QED
    BY <1>1, <1>2, <1>3, <1>4, <1>5, <1>6, <1>7, <1>8 DEF PoolStep, Join

\* block_pop_item keeps the types (thread_pool.h:453-460).
LEMMA PopTypes ==
  ASSUME PoolTypes, QueueTypes, Apart, NEW w \in Workers, PopStep(w)
  PROVE  PoolTypes'
  <1> USE DEF PoolTypes, Holding, callVars, ownerVars, LfUnchanged, TailStays
  <1>1. CASE LfLoadHead(w) \/ LfLoadTail(w) \/ LfTimedOut(w)
    <2>1. /\ pc[w] \in {"pop", "notified", "pred", "timeout"}
          /\ \E p \in {"pred", "wait", "take"} : pc' = [pc EXCEPT ![w] = p]
      BY <1>1 DEF LfLoadHead, LfLoadTail, LfTimedOut, QueueTypes
    <2>2. /\ pc' \in [Workers -> {"loop", "pop", "pred", "wait", "notified", "timeout", "take",
                                  "take_next", "test", "run", "exit"}]
          /\ Holding' = Holding
      BY <2>1
    <2>3. UNCHANGED <<m_stop, m_tasks, pushed, task, begun, done, dropped, op, arg, used,
                      ownerVars>>
      BY <1>1 DEF LfLoadHead, LfLoadTail, LfTimedOut
    <2> QED
      BY <2>2, <2>3
  <1>2. CASE LfPop(w) /\ TakeFront(w)
    <2>1. Head(m_tasks) \in Tasks /\ Tail(m_tasks) \in Seq(Tasks)
      BY <1>2 DEF TakeFront
    <2> QED
      BY <1>2, <2>1 DEF LfPop, TakeFront
  <1>3. CASE LfPop(w) /\ ~TakeFront(w)
    BY <1>3 DEF LfPop
  <1>4. CASE LfPopNext(w)
    <2>1. m_tasks' \in Seq(Tasks) /\ pushed' \in Seq(Tasks)
      <3>1. CASE Moving
        BY <3>1, MovingIs
      <3>2. CASE UNCHANGED <<m_tasks, pushed>>
        BY <3>2
      <3> QED
        BY <1>4, <3>1, <3>2 DEF LfPopNext, Moving
    <2>2. pc[w] = "take_next" /\ \E p \in {"loop", "take"} : pc' = [pc EXCEPT ![w] = p]
      BY <1>4 DEF LfPopNext
    <2>3. /\ pc' \in [Workers -> {"loop", "pop", "pred", "wait", "notified", "timeout", "take",
                                  "take_next", "test", "run", "exit"}]
          /\ Holding' = Holding
      BY <2>2
    <2>4. UNCHANGED <<m_stop, task, begun, done, dropped, op, arg, used, ownerVars>>
      BY <1>4 DEF LfPopNext
    <2> QED
      BY <2>1, <2>3, <2>4
  <1> QED
    BY <1>1, <1>2, <1>3, <1>4 DEF PopStep

\* push_item keeps the types (thread_pool.h:461-471).
LEMMA PushTypes ==
  ASSUME PoolTypes, QueueTypes, Lagging, Apart, NEW a \in Agents, PushStep(a)
  PROVE  PoolTypes'
  <1>1. /\ m_tasks' \in Seq(Tasks) /\ pushed' \in Seq(Tasks) /\ begun' \in Seq(Tasks)
    <2>1. CASE Moving
      BY <2>1, MovingIs, PushEffect DEF PoolTypes
    <2>2. CASE QueueKept \/ LfLink(a)
      BY <2>2, PushEffect DEF PoolTypes, QueueKept, LfLink
    <2> QED
      BY <2>1, <2>2, PushEffect
  <1>2. /\ op' \in [Agents -> Idle \cup {"link", "swing", "notify"}]
        /\ arg' \in [Agents -> Tasks \cup {NoTask}]
        /\ \A b \in Agents : arg'[b] \in Tasks
                               <=> op'[b] \in {"insert", "link", "swing", "notify"}
    <2> USE DEF PoolTypes, Idle, CallUnchanged
    <2>1. CASE LfTail(a) \/ LfHelp(a) \/ LfLink(a) \/ LfSwing(a)
      <3>1. /\ arg' = arg /\ op[a] \in {"insert", "link", "swing"}
            /\ \E o \in {"insert", "link", "swing", "notify"} : op' = [op EXCEPT ![a] = o]
        BY <2>1 DEF LfTail, LfHelp, LfLink, LfSwing
      <3> QED
        BY <3>1
    <2>2. CASE LfNotify(a)
      BY <2>2 DEF LfNotify
    <2> QED
      BY <2>1, <2>2 DEF PushStep
  <1>3. pc' \in [Workers -> {"loop", "pop", "pred", "wait", "notified", "timeout", "take",
                             "take_next", "test", "run", "exit"}]
    BY DEF PushStep, LfTail, LfHelp, LfLink, LfSwing, LfNotify, NotifyOne, Waiting, CallUnchanged,
           workerVars, PoolTypes
  <1>4. Holding' = Holding /\ UNCHANGED <<task, m_stop, used, done, dropped, owner, next, joined>>
    BY PushEffect DEF TasksKept, Holding
  <1> QED
    BY <1>1, <1>2, <1>3, <1>4 DEF PoolTypes

\* The steps that the pools have in common touch neither the queue, nor the
\* worker in the predicate, nor a caller between the link and the notification.
LEMMA PoolStepKeeps ==
  ASSUME PoolTypes, PoolStep
  PROVE  /\ UNCHANGED <<m_tasks, pushed>>
         /\ \A w \in Workers : /\ pc'[w] = "pred" <=> pc[w] = "pred"
                               /\ pc'[w] = "take_next" <=> pc[w] = "take_next"
         /\ \A a \in Agents : /\ op'[a] = "swing" <=> op[a] = "swing"
                              /\ op'[a] = "notify" <=> op[a] = "notify"
                              /\ op'[a] = "link" <=> op[a] = "link"
  <1> USE DEF PoolTypes, callVars, workerVars
  <1>1. ASSUME NEW w \in Workers, \/ LoopTest(w) \/ SpuriousWake(w) \/ Timeout(w)
                                  \/ BeginTask(w) \/ DropTask(w) \/ EndTask(w)
        PROVE  /\ UNCHANGED <<m_tasks, callVars>>
               /\ \A v \in Workers : pc'[v] = "pred" <=> pc[v] = "pred"
               /\ \A v \in Workers : pc'[v] = "take_next" <=> pc[v] = "take_next"
    BY <1>1 DEF LoopTest, SpuriousWake, Timeout, BeginTask, DropTask, EndTask
  <1>2. ASSUME NEW a \in Agents, SetStop(a) \/ StopTest(a)
        PROVE  /\ UNCHANGED <<m_tasks, pushed, pc, arg>>
               /\ \A b \in Agents : /\ op'[b] = "swing" <=> op[b] = "swing"
                                    /\ op'[b] = "notify" <=> op[b] = "notify"
                                    /\ op'[b] = "link" <=> op[b] = "link"
    BY <1>2 DEF SetStop, StopTest, MayCall
  <1>3. ASSUME NEW a \in Agents, ExitBlock(a)
        PROVE  /\ UNCHANGED <<m_tasks, pushed, arg>>
               /\ \A v \in Workers : pc'[v] = "pred" <=> pc[v] = "pred"
               /\ \A v \in Workers : pc'[v] = "take_next" <=> pc[v] = "take_next"
               /\ \A b \in Agents : /\ op'[b] = "swing" <=> op[b] = "swing"
                                    /\ op'[b] = "notify" <=> op[b] = "notify"
                                    /\ op'[b] = "link" <=> op[b] = "link"
    BY <1>3 DEF ExitBlock, NotifyAll
  <1>4. ASSUME NEW a \in Agents, NEW t \in Tasks, InsertTest(a, t)
        PROVE  /\ UNCHANGED <<m_tasks, pushed, pc>>
               /\ \A b \in Agents : /\ op'[b] = "swing" <=> op[b] = "swing"
                                    /\ op'[b] = "notify" <=> op[b] = "notify"
                                    /\ op'[b] = "link" <=> op[b] = "link"
    <2>1. CASE m_stop
      BY <1>4, <2>1 DEF InsertTest
    <2>2. CASE ~m_stop
      BY <1>4, <2>2 DEF InsertTest, MayCall
    <2> QED
      BY <2>1, <2>2
  <1>5. CASE WaitCall \/ DtorTest \/ Join \/ Destroyed
    <2>1. DtorExitBlock => \A v \in Workers : /\ pc'[v] = "pred" <=> pc[v] = "pred"
                                              /\ pc'[v] = "take_next" <=> pc[v] = "take_next"
      BY DEF DtorExitBlock, NotifyAll
    <2>2. UNCHANGED <<m_tasks, callVars>> /\ (DtorExitBlock \/ UNCHANGED pc)
      BY <1>5 DEF WaitCall, DtorTest, Join, WaitJoin, WaitReturn, DtorSetStop, DtorJoin,
                  DtorReturn, DtorExitBlock, OwnerUnchanged, Destroyed, vars
    <2>3. \A v \in Workers : /\ pc'[v] = "pred" <=> pc[v] = "pred"
                             /\ pc'[v] = "take_next" <=> pc[v] = "take_next"
      BY <2>1, <2>2
    <2>4. UNCHANGED <<m_tasks, pushed, op>>
      BY <2>2
    <2> QED
      BY <2>3, <2>4
  <1> QED
    BY <1>1, <1>2, <1>3, <1>4, <1>5 DEF PoolStep

\* Only a worker that has got the mutex evaluates the predicate, and it keeps it until it
\* has loaded both ends (thread_pool.h:453-460).
LEMMA QueueTypesNext ==
  ASSUME LfInv, LfNext
  PROVE  QueueTypes'
  <1> USE DEF LfInv, QueueTypes
  <1>1. Len(m_tasks) \in Nat /\ Len(pushed) \in Nat /\ TailPos \in Nat /\ HeadPos \in Nat
    BY DEF PoolTypes, TailPos, HeadPos, Positions
  <1>2. CASE PoolStep /\ UNCHANGED queueVars
    BY <1>2, PoolStepKeeps DEF queueVars
  <1>3. ASSUME NEW w \in Workers, PopStep(w)
        PROVE  QueueTypes'
    <2>1. linked' \in [Places -> Seq(Tasks)] /\ UNCHANGED <<lost, accepted, stale>>
      BY <1>3, PopEffect, MovingIs DEF QueueKept
    <2>2. at' \in [Agents -> Nat]
      BY <1>1, <1>3 DEF PopStep, LfLoadHead, LfLoadTail, LfTimedOut, LfPop, LfPopNext, Agents
    <2>3. mtx' \in Workers \cup {Nobody} /\ \A v \in Workers : pc'[v] = "pred" <=> mtx' = v
      <3> USE DEF PoolTypes, Agents, LfUnchanged
      <3>1. CASE LfLoadHead(w) \/ LfLoadTail(w)
        BY <3>1 DEF LfLoadHead, LfLoadTail
      <3>2. CASE LfTimedOut(w) \/ LfPop(w) \/ LfPopNext(w)
        BY <3>2 DEF LfTimedOut, LfPop, TakeFront, LfPopNext
      <3> QED
        BY <1>3, <3>1, <3>2 DEF PopStep
    <2> QED
      BY <2>1, <2>2, <2>3
  <1>4. ASSUME NEW a \in Agents, PushStep(a)
        PROVE  QueueTypes'
    <2>1. linked' \in [Places -> Seq(Tasks)]
      BY <1>4, PushEffect, MovingIs, LinkIs DEF QueueKept
    <2>2. lost' \subseteq Tasks /\ accepted' \subseteq Tasks /\ stale' \in BOOLEAN
      <3>1. CASE LfLink(a)
        <4>1. lost' \subseteq Tasks /\ accepted' \subseteq Tasks
          BY <3>1, LinkIs
        <4>2. stale' \in BOOLEAN
          BY <3>1 DEF LfLink
        <4> QED
          BY <4>1, <4>2
      <3>2. CASE QueueKept \/ Moving
        BY <3>2 DEF QueueKept, Moving
      <3> QED
        BY <1>4, <3>1, <3>2, PushEffect
    <2>3. at' \in [Agents -> Nat] /\ mtx' = mtx
      BY <1>1, <1>4 DEF PushStep, LfTail, LfHelp, LfLink, LfSwing, LfNotify, CallUnchanged, queueVars
    <2>4. \A v \in Workers : pc'[v] = "pred" <=> pc[v] = "pred"
      BY <1>4, PushEffect
    <2> QED
      BY <2>1, <2>2, <2>3, <2>4
  <1> QED
    BY <1>2, <1>3, <1>4, LfStepKinds

-----------------------------------------------------------------------------
(* The tasks of callers in emplace, and the positions loaded. *)

\* A caller that comes to emplace has a task of its own that was never linked
\* (thread_pool.h:105-114, lockfree_queue.h:96-128).
LEMMA UnacceptedNext ==
  ASSUME LfInv, LfNext
  PROVE  Unaccepted'
  <1> USE DEF LfInv, Unaccepted
  <1>1. ASSUME UNCHANGED <<used, accepted>>,
               \A a \in Agents : op'[a] \in {"insert", "link"} =>
                                   op[a] \in {"insert", "link"} /\ arg'[a] = arg[a]
        PROVE  Unaccepted'
    BY <1>1
  <1>2. ASSUME NEW w \in Workers, \/ LoopTest(w) \/ SpuriousWake(w) \/ Timeout(w)
                                  \/ BeginTask(w) \/ DropTask(w) \/ EndTask(w)
        PROVE  UNCHANGED <<used, op, arg>>
    BY <1>2 DEF LoopTest, SpuriousWake, Timeout, BeginTask, DropTask, EndTask, callVars
  <1>3. ASSUME NEW a \in Agents, SetStop(a) \/ ExitBlock(a) \/ StopTest(a)
        PROVE  /\ UNCHANGED <<used, arg>>
               /\ \A b \in Agents : op'[b] \in {"insert", "link"} => op[b] \in {"insert", "link"}
    BY <1>3 DEF SetStop, ExitBlock, StopTest, PoolTypes
  <1>4. ASSUME NEW a \in Agents, NEW t \in Tasks, InsertTest(a, t), UNCHANGED accepted
        PROVE  Unaccepted'
    <2>1. /\ used' = used \cup {t} /\ t \notin used
          /\ \A b \in Agents \ {a} : op'[b] = op[b] /\ arg'[b] = arg[b]
          /\ op'[a] \in {"insert", "link"} => arg'[a] = t
      BY <1>4 DEF InsertTest, MayCall, PoolTypes
    <2> QED
      BY <1>4, <2>1
  <1>5. CASE PoolStep /\ UNCHANGED queueVars
    <2>1. UNCHANGED accepted
      BY <1>5 DEF queueVars
    <2>2. CASE WaitCall \/ DtorTest \/ Join \/ Destroyed
      <3>1. UNCHANGED <<used, op, arg>>
        BY <2>2 DEF WaitCall, DtorTest, Join, WaitJoin, WaitReturn, DtorSetStop, DtorExitBlock,
                    DtorJoin, DtorReturn, OwnerUnchanged, callVars, Destroyed, vars
      <3> QED
        BY <1>1, <2>1, <3>1
    <2> QED
      BY <1>1, <1>2, <1>3, <1>4, <1>5, <2>1, <2>2 DEF PoolStep
  <1>6. ASSUME NEW w \in Workers, PopStep(w)
        PROVE  Unaccepted'
    BY <1>1, <1>6, PopEffect
  <1>7. ASSUME NEW a \in Agents, PushStep(a)
        PROVE  Unaccepted'
    <2>1. UNCHANGED used /\ \A b \in Agents \ {a} : op'[b] = op[b] /\ arg'[b] = arg[b]
      BY <1>7, PushEffect DEF TasksKept
    <2>2. CASE LfTail(a) \/ LfHelp(a)
      <3>1. op[a] \in {"insert", "link"} /\ UNCHANGED <<arg, accepted>>
        BY <2>2 DEF LfTail, LfHelp, CallUnchanged
      <3> QED
        BY <1>1, <2>1, <3>1
    <2>3. CASE LfLink(a)
      <3>1. op[a] = "link" /\ op'[a] = "swing"
        BY <2>3 DEF LfLink, PoolTypes
      <3>2. accepted' = accepted \cup {arg[a]}
        BY <2>3 DEF LfLink
      <3> QED
        BY <2>1, <3>1, <3>2
    <2>4. CASE LfSwing(a) \/ LfNotify(a)
      <3>1. op'[a] \notin {"insert", "link"} /\ UNCHANGED accepted
        BY <2>4 DEF LfSwing, LfNotify, PoolTypes, queueVars
      <3> QED
        BY <1>1, <2>1, <3>1
    <2> QED
      BY <1>7, <2>2, <2>3, <2>4 DEF PushStep
  <1> QED
    BY <1>5, <1>6, <1>7, LfStepKinds

\* No position that was loaded is ahead of m_tail, nor what a worker has loaded of m_head
\* ahead of it (lockfree_queue.h:46-128).
LEMMA PositionsNext ==
  ASSUME LfInv, LfNext
  PROVE  Positions'
  <1> USE DEF LfInv
  <1>1. Len(m_tasks) \in Nat /\ Len(pushed) \in Nat
    BY DEF PoolTypes
  <1>2. at \in [Agents -> Nat]
    BY DEF QueueTypes
  <1>3. CASE PoolStep /\ UNCHANGED queueVars
    BY <1>3, PoolStepKeeps DEF Positions, HeadPos, TailPos, queueVars
  <1>4. ASSUME QueueKept \/ Moving
        PROVE  /\ HeadPos' = HeadPos /\ TailPos \in Nat /\ TailPos' \in Nat /\ TailPos' >= TailPos
               /\ Len(m_tasks') <= Len(pushed') /\ HeadPos \in Nat
    <2>1. CASE Moving
      <3>1. Len(m_tasks') = Len(m_tasks) + 1 /\ Len(pushed') = Len(pushed) + 1
        BY <2>1, MovingIs
      <3> QED
        BY <1>1, <3>1 DEF Positions, HeadPos, TailPos
    <2>2. CASE QueueKept
      BY <1>1, <2>2 DEF QueueKept, Positions, HeadPos, TailPos
    <2> QED
      BY <1>4, <2>1, <2>2
  <1>5. ASSUME NEW w \in Workers, PopStep(w)
        PROVE  Positions'
    <2>1. \A v \in Workers \ {w} : pc'[v] = pc[v]
      BY <1>5, PopEffect
    <2>2. CASE LfPop(w) /\ TakeFront(w)
      <3>1. /\ Len(m_tasks') = Len(m_tasks) - 1 /\ Len(m_tasks) # 0
            /\ UNCHANGED <<pushed, at>> /\ pc'[w] = "test"
        BY <1>1, <2>2 DEF LfPop, TakeFront, callVars, PoolTypes
      <3> QED
        BY <1>1, <1>2, <2>1, <3>1 DEF Positions, HeadPos, TailPos, Agents
    <2>3. CASE ~(LfPop(w) /\ TakeFront(w))
      <3>1. QueueKept \/ Moving
        BY <1>5, <2>3, PopEffect
        DEF PopStep, LfPop, LfLoadHead, LfLoadTail, LfTimedOut, LfPopNext, TakeFront, PoolTypes,
            QueueKept, callVars, TailStays, LfUnchanged, Moving
      <3>2. \/ at' = [at EXCEPT ![w] = 0]
            \/ at' = [at EXCEPT ![w] = HeadPos]
            \/ at' = at /\ pc'[w] \notin {"pred", "take_next"}
        BY <1>5, <2>3 DEF PopStep, LfPop, LfLoadHead, LfLoadTail, LfTimedOut, LfPopNext, PoolTypes
      <3>3. HeadPos <= TailPos
        BY <1>1 DEF HeadPos, TailPos, Positions
      <3>4. w \in Agents
        BY DEF Agents
      <3> QED
        BY <1>2, <1>4, <2>1, <3>1, <3>2, <3>3, <3>4 DEF Positions, Agents
    <2> QED
      BY <2>2, <2>3
  <1>6. ASSUME NEW a \in Agents, PushStep(a)
        PROVE  Positions'
    <2>1. \A w \in Workers : pc'[w] \in {"pred", "take_next"} => pc[w] = pc'[w] /\ w # a
      BY <1>6, PushEffect DEF JoinInv
    <2>2. at' = [at EXCEPT ![a] = 0] \/ at' = [at EXCEPT ![a] = TailPos] \/ at' = at
      BY <1>6 DEF PushStep, LfTail, LfHelp, LfLink, LfSwing, LfNotify, queueVars
    <2>3. CASE QueueKept \/ Moving
      BY <1>2, <1>4, <2>1, <2>2, <2>3 DEF Positions, Agents
    <2>4. CASE LfLink(a)
      <3>1. UNCHANGED <<m_tasks, pushed, at>>
        BY <2>4 DEF LfLink
      <3> QED
        BY <2>1, <3>1 DEF Positions, HeadPos, TailPos
    <2> QED
      BY <1>6, <2>3, <2>4, PushEffect
  <1> QED
    BY <1>3, <1>5, <1>6, LfStepKinds

\* The next node of the last one is there as long as the caller that linked it is to move
\* m_tail, which lags behind by one node unless a free node was linked to
\* (lockfree_queue.h:110-126).
LEMMA LaggingNext ==
  ASSUME LfInv, LfNext
  PROVE  Lagging'
  <1> USE DEF LfInv
  <1>1. /\ TailPos \in Nat /\ HeadPos \in Nat /\ HeadPos <= TailPos
        /\ \A a \in Agents : at[a] \in Nat /\ at[a] <= TailPos
    BY DEF PoolTypes, TailPos, HeadPos, Positions, QueueTypes
  <1>2. /\ linked \in [Places -> Seq(Tasks)] /\ linked[Nobody] \in Seq(Tasks)
        /\ Len(linked[Nobody]) \in Nat
    BY DEF QueueTypes, Places
  <1>3. CASE PoolStep /\ UNCHANGED queueVars
    <2>1. UNCHANGED <<linked, stale, at, pushed>>
      BY <1>3, PoolStepKeeps DEF queueVars
    <2>2. \A a \in Agents : op'[a] = "swing" <=> op[a] = "swing"
      BY <1>3, PoolStepKeeps
    <2> QED
      BY <2>1, <2>2 DEF Lagging, TailPos
  \* m_tail has moved: nobody is at the last node, and nothing lags behind any more.
  <1>4. ASSUME Moving, \A a \in Agents : op'[a] = "swing" => op[a] = "swing" /\ at'[a] = at[a]
        PROVE  Lagging'
    <2>1. TailPos' = TailPos + 1
      BY <1>4, MovingIs DEF TailPos
    <2>2. \A a \in Agents : ~(op'[a] = "swing" /\ at'[a] = TailPos')
      BY <1>1, <1>4, <2>1
    <2>3. /\ \A a \in Agents : linked'[a] = linked[a]
          /\ Len(linked'[Nobody]) = Len(linked[Nobody]) - 1 /\ stale' = stale
          /\ linked'[Nobody] \in Seq(Tasks)
      BY <1>4, MovingIs DEF Moving, Places
    <2>4. ~stale => linked'[Nobody] = << >> /\ Len(linked'[Nobody]) <= 1
      BY <1>2, <2>3 DEF Lagging
    <2> QED
      BY <2>2, <2>3, <2>4 DEF Lagging
  \* The queue is as it was.
  <1>5. ASSUME UNCHANGED <<pushed, linked, stale>>,
               \A a \in Agents : \/ op'[a] = "swing" <=> op[a] = "swing"
                                 \/ op[a] = "swing" /\ at[a] # TailPos /\ op'[a] # "swing",
               \A a \in Agents : op[a] = "swing" => at'[a] = at[a] \/ op'[a] # "swing"
        PROVE  Lagging'
    BY <1>5 DEF Lagging, TailPos
  <1>6. ASSUME NEW w \in Workers, PopStep(w)
        PROVE  Lagging'
    <2>1. UNCHANGED op /\ pc[w] # "run"
      BY <1>6, PopEffect
    <2>2. op[w] = "none"
      BY <2>1 DEF JoinInv
    <2>3. \A a \in Agents \ {w} : at'[a] = at[a]
      BY <1>6 DEF PopStep, LfLoadHead, LfLoadTail, LfTimedOut, LfPop, LfPopNext, QueueTypes
    <2>4. CASE Moving
      BY <1>4, <2>1, <2>2, <2>3, <2>4
    <2>5. CASE UNCHANGED <<pushed, linked, stale>>
      BY <1>5, <2>1, <2>2, <2>3, <2>5
    <2> QED
      BY <1>6, <2>4, <2>5, PopEffect DEF QueueKept
  <1>7. ASSUME NEW a \in Agents, PushStep(a), ~LfLink(a)
        PROVE  Lagging'
    <2>1. \A b \in Agents \ {a} : op'[b] = op[b] /\ at'[b] = at[b]
      BY <1>7, PushEffect DEF PushStep, LfTail, LfHelp, LfSwing, LfNotify, QueueTypes, queueVars
    <2>2. op'[a] # "swing"
      BY <1>7 DEF PushStep, LfTail, LfHelp, LfSwing, LfNotify, PoolTypes
    <2>3. CASE Moving
      BY <1>4, <2>1, <2>2, <2>3
    <2>4. CASE QueueKept
      <3>1. op[a] = "swing" => at[a] # TailPos
        <4>1. SUFFICES ASSUME LfSwing(a), at[a] = TailPos PROVE FALSE
          BY <1>7 DEF PushStep, LfTail, LfHelp, LfNotify
        <4>2. Moving
          BY <4>1 DEF LfSwing, Moving, Lagging
        <4> QED
          BY <2>4, <4>2, MovingIs DEF QueueKept
      <3> QED
        BY <1>5, <2>1, <2>2, <2>4, <3>1 DEF QueueKept
    <2> QED
      BY <1>7, <2>3, <2>4, PushEffect
  <1>8. ASSUME NEW a \in Agents, LfLink(a)
        PROVE  Lagging'
    <2>1. /\ UNCHANGED <<pushed, at>> /\ op[a] = "link" /\ op' = [op EXCEPT ![a] = "swing"]
          /\ op'[a] = "swing" /\ \A b \in Agents \ {a} : op'[b] = op[b]
      BY <1>8 DEF LfLink, PoolTypes
    <2>2. /\ Chain(a) # << >> /\ Chain(a) \in Seq(Tasks) /\ (linked[a] = << >> => Len(Chain(a)) = 1)
      BY <1>8, ChainIs DEF LfLink
    <2>3. a \in Places /\ Nobody \in Places /\ a # Nobody
      BY DEF Places
    <2>4. CASE at[a] < HeadPos
      <3>1. stale' = TRUE
        BY <1>1, <1>8, <2>4 DEF LfLink
      <3>2. at[a] # TailPos
        BY <1>1, <2>4
      <3>3. linked[Nobody] # << >> => linked'[Nobody] # << >>
        <4>1. linked[Nobody] \o Chain(a) = << >> => linked[Nobody] = << >>
          <5>1. Len(linked[Nobody] \o Chain(a)) = Len(linked[Nobody]) + Len(Chain(a))
            BY <1>2, <2>2
          <5>2. Len(Chain(a)) \in Nat
            BY <2>2
          <5> QED
            BY <1>2, <5>1, <5>2
        <4>2. linked'[Nobody] \in {linked[Nobody], linked[Nobody] \o Chain(a), Chain(a)}
          BY <1>2, <1>8, <2>3 DEF LfLink
        <4> QED
          BY <2>2, <4>1, <4>2
      <3> QED
        BY <2>1, <3>1, <3>2, <3>3 DEF Lagging, TailPos
    <2>5. CASE ~(at[a] < HeadPos)
      <3>1. /\ at[a] = TailPos /\ linked[Nobody] = << >> /\ stale' = stale
            /\ linked' = [linked EXCEPT ![Nobody] = Chain(a), ![a] = << >>]
        BY <1>8, <2>5 DEF LfLink
      <3>2. linked'[Nobody] = Chain(a) /\ linked'[a] = << >>
            /\ \A b \in Agents \ {a} : linked'[b] = linked[b]
        BY <1>2, <2>3, <3>1 DEF Places
      <3>3. ~stale => /\ \A b \in Agents : linked'[b] = << >>
                      /\ Len(linked'[Nobody]) <= 1
        <4>1. SUFFICES ASSUME ~stale
                       PROVE  /\ \A b \in Agents : linked'[b] = << >>
                              /\ Len(linked'[Nobody]) <= 1
          OBVIOUS
        <4>2. \A b \in Agents : linked[b] = << >>
          BY <4>1 DEF Lagging
        <4>3. Len(linked'[Nobody]) = 1
          BY <2>2, <3>2, <4>2
        <4> QED
          BY <3>2, <4>2, <4>3
      <3>4. op'[a] = "swing" /\ at'[a] = TailPos'
        BY <2>1, <3>1 DEF TailPos
      <3> QED
        BY <2>2, <3>1, <3>2, <3>3, <3>4 DEF Lagging
    <2> QED
      BY <2>4, <2>5
  <1> QED
    BY <1>3, <1>6, <1>7, <1>8, LfStepKinds DEF PushStep

-----------------------------------------------------------------------------
(* Conservation of tasks. *)

\* Every task is in one place only, although nothing but atomic exchanges guards the queue
\* (lockfree_queue.h:46-129).
LEMMA LfConservation ==
  ASSUME LfInv, LfNext
  PROVE  (TasksConserved /\ Apart)'
  <1>1. SharedInv
    BY LfShared DEF LfInv
  <1> USE DEF LfInv
  \* A step that adds no task and moves none among the workers.
  <1>2. ASSUME UNCHANGED <<m_tasks, pushed>>, TasksKept
        PROVE  TasksConserved'
    BY <1>2 DEF TasksKept, TasksConserved, Held, Holding
  <1>3. ASSUME Moving, TasksKept
        PROVE  (TasksConserved /\ Apart)'
    <2>1. PICK t \in Tasks : /\ t \notin Range(pushed) /\ m_tasks' = Append(m_tasks, t)
                             /\ pushed' = Append(pushed, t)
      BY <1>3, MovingIs
    <2>2. Adds(t)
      BY <1>3, <2>1 DEF Adds, TasksKept
    <2>3. TasksConserved'
      BY <2>1, <2>2, ConservationAdd
    <2> QED
      BY <1>3, <2>3, MovingIs
  <1>4. ASSUME UNCHANGED <<pushed, linked, lost, accepted, stale>>
        PROVE  Apart'
    BY <1>4 DEF Apart, Adrift
  <1>5. CASE PoolStep /\ UNCHANGED queueVars
    <2>1. UNCHANGED <<pushed, linked, lost, accepted, stale>>
      BY <1>5, PoolStepKeeps DEF queueVars
    <2> QED
      BY <1>1, <1>4, <1>5, <2>1, ConservationPool
  <1>6. ASSUME NEW w \in Workers, PopStep(w)
        PROVE  (TasksConserved /\ Apart)'
    <2>1. CASE TakeFront(w) /\ UNCHANGED <<pushed, linked>>
      <3>1. /\ UNCHANGED <<op, arg, used, done, dropped, lost, accepted, stale>>
            /\ pc[w] \notin {"test", "run"}
        BY <1>6, PopEffect
      <3> QED
        BY <1>1, <1>4, <2>1, <3>1, ConservationTakeFront
    <2>2. CASE TasksKept /\ QueueKept
      BY <1>2, <1>4, <2>2 DEF QueueKept
    <2>3. CASE TasksKept /\ Moving
      BY <1>3, <2>3
    <2> QED
      BY <1>6, <2>1, <2>2, <2>3, PopEffect
  <1>7. ASSUME NEW a \in Agents, PushStep(a)
        PROVE  (TasksConserved /\ Apart)'
    <2>1. TasksKept
      BY <1>7, PushEffect
    <2>2. CASE QueueKept
      BY <1>2, <1>4, <2>1, <2>2 DEF QueueKept
    <2>3. CASE Moving
      BY <1>3, <2>1, <2>3
    <2>4. CASE LfLink(a)
      <3>1. UNCHANGED <<m_tasks, pushed>>
        BY <2>4 DEF LfLink
      <3> QED
        BY <1>2, <2>1, <2>4, <3>1, LinkIs
    <2> QED
      BY <1>7, <2>2, <2>3, <2>4, PushEffect
  <1> QED
    BY <1>5, <1>6, <1>7, LfStepKinds

-----------------------------------------------------------------------------
(* Wake-ups. *)

\* Workers on their way are counted: the workers are finitely many.
LEMMA ComingCount ==
  /\ IsFiniteSet(Coming) /\ Cardinality(Coming) \in Nat
  /\ IsFiniteSet(Coming') /\ Cardinality(Coming') \in Nat
  /\ Coming \subseteq Coming' => Cardinality(Coming) <= Cardinality(Coming')
  <1>1. IsFiniteSet(Workers)
    BY FS_Interval DEF Workers
  <1>2. Coming \subseteq Workers /\ Coming' \subseteq Workers
    BY DEF Coming
  <1>3. IsFiniteSet(Coming) /\ IsFiniteSet(Coming')
    BY <1>1, <1>2, FS_Subset
  <1> QED
    BY <1>3, FS_CardinalityType, FS_Subset

\* Tasks that somebody is to look after.
Load == Len(m_tasks) + Len(linked[Nobody])

\* The load is a number, and so are those that look after it.
LEMMA LoadType ==
  ASSUME LfInv
  PROVE  /\ Load \in Nat /\ Len(m_tasks) \in Nat /\ Len(linked[Nobody]) \in Nat
         /\ IsFiniteSet(Notifying) /\ Cardinality(Notifying) \in Nat
         /\ Cardinality(Coming) \in Nat /\ Cardinality(Coming') \in Nat
  <1>1. linked[Nobody] \in Seq(Tasks) /\ m_tasks \in Seq(Tasks)
    BY DEF LfInv, QueueTypes, PoolTypes, Places
  <1> QED
    BY <1>1, ComingCount, FS_CardinalityType DEF LfInv, Load

\* The tasks behind m_tail and before it are as many after it was moved.
LEMMA LoadKept ==
  ASSUME LfInv, QueueKept \/ Moving
  PROVE  Load' = Load /\ stale' = stale
  <1>1. CASE QueueKept
    BY <1>1 DEF QueueKept, Load
  <1>2. CASE Moving
    <2>1. /\ Len(m_tasks') = Len(m_tasks) + 1 /\ stale' = stale
          /\ Len(linked'[Nobody]) = Len(linked[Nobody]) - 1
      BY <1>2, MovingIs DEF LfInv, Moving
    <2>2. Len(m_tasks) \in Nat /\ Len(linked[Nobody]) \in Nat
      BY LoadType
    <2>3. Load' = (Len(m_tasks) + 1) + (Len(linked[Nobody]) - 1)
      BY <2>1 DEF Load
    <2>4. \A i, j \in Nat : (i + 1) + (j - 1) = i + j
      OBVIOUS
    <2> QED
      BY <2>1, <2>2, <2>3, <2>4, Zenon DEF Load
  <1> QED
    BY <1>1, <1>2

\* A common step lets no worker on its way go to sleep, unless it stops the pool
\* or wakes everyone (thread_pool.h:50-67, 96-103, 148-155).
LEMMA WakeupPool ==
  ASSUME LfInv, PoolStep, UNCHANGED queueVars
  PROVE  LfNoLostWakeup' /\ IsFiniteSet(Notifying')
  <1> USE DEF LfInv
  <1>1. m_stop' \/ Waiting' = {} \/ (~m_stop /\ Waiting' \subseteq Waiting /\ Coming \subseteq Coming')
    <2> USE DEF PoolTypes, Waiting, Coming, workerVars
    <2>1. ASSUME NEW w \in Workers, \/ LoopTest(w) \/ SpuriousWake(w) \/ Timeout(w)
                                    \/ BeginTask(w) \/ DropTask(w) \/ EndTask(w)
          PROVE  m_stop' \/ (~m_stop /\ Waiting' \subseteq Waiting /\ Coming \subseteq Coming')
      BY <2>1 DEF LoopTest, SpuriousWake, Timeout, BeginTask, DropTask, EndTask
    <2>2. ASSUME NEW a \in Agents, SetStop(a) \/ StopTest(a)
          PROVE  m_stop' \/ (~m_stop /\ UNCHANGED pc)
      BY <2>2 DEF SetStop, StopTest
    <2>3. ASSUME NEW a \in Agents, NEW t \in Tasks, InsertTest(a, t)
          PROVE  UNCHANGED <<m_stop, pc>>
      BY <2>3 DEF InsertTest
    <2>4. CASE DtorExitBlock \/ \E a \in Agents : ExitBlock(a)
      BY <2>4 DEF DtorExitBlock, ExitBlock, NotifyAll
    <2>5. CASE (WaitCall \/ DtorTest \/ Join \/ Destroyed) /\ ~DtorExitBlock
      BY <2>5 DEF WaitCall, DtorTest, Join, WaitJoin, WaitReturn, DtorSetStop, DtorJoin,
                  DtorReturn, OwnerUnchanged, Destroyed, vars
    <2> QED
      BY <2>1, <2>2, <2>3, <2>4, <2>5 DEF PoolStep, Join
  <1>2. UNCHANGED <<m_tasks, linked, stale>>
    BY PoolStepKeeps DEF queueVars
  <1>3. Notifying' = Notifying
    BY PoolStepKeeps DEF Notifying
  <1>4. ASSUME ~m_stop, Waiting' \subseteq Waiting, Coming \subseteq Coming'
        PROVE  LfNoLostWakeup'
    <2>1. Cardinality(Coming) <= Cardinality(Coming')
      BY <1>4, ComingCount
    <2>2. Waiting' # {} => Waiting # {}
      BY <1>4
    <2> HIDE DEF LfInv
    <2>3. /\ Len(m_tasks) \in Nat /\ Len(linked[Nobody]) \in Nat /\ Cardinality(Notifying) \in Nat
          /\ Cardinality(Coming) \in Nat /\ Cardinality(Coming') \in Nat
      BY LoadType
    <2>4. LfNoLostWakeup
      BY DEF LfInv
    <2> QED
      BY <1>2, <1>3, <1>4, <2>1, <2>2, <2>3, <2>4 DEF LfNoLostWakeup
  <1>5. m_stop' \/ Waiting' = {} => LfNoLostWakeup'
    BY DEF LfNoLostWakeup
  <1> QED
    BY <1>1, <1>3, <1>4, <1>5

\* A worker that goes to sleep has found m_head at m_tail: what is linked behind is the
\* node of a caller that is still to notify, unless a free node was linked to
\* (thread_pool.h:456-459).
LEMMA WakeupSleep ==
  ASSUME LfInv, NEW w \in Workers, pc[w] = "pred", at[w] = TailPos, ~stale
  PROVE  Load <= Cardinality(Notifying)
  <1>1. Len(m_tasks) \in Nat /\ Len(pushed) \in Nat /\ at[w] <= HeadPos
    BY DEF LfInv, PoolTypes, Positions
  <1>2. Len(m_tasks) = 0
    BY <1>1 DEF HeadPos, TailPos
  <1>3. Len(linked[Nobody]) <= 1
    BY DEF LfInv, Lagging
  <1>4. CASE linked[Nobody] = << >>
    <2>1. Len(linked[Nobody]) = 0
      BY <1>4
    <2> QED
      BY <1>2, <2>1, LoadType DEF Load
  <1>5. CASE linked[Nobody] # << >>
    <2>1. Notifying # {}
      BY <1>5 DEF LfInv, Lagging, Notifying
    <2>2. Cardinality(Notifying) # 0
      BY <2>1, LoadType, FS_EmptySet
    <2> QED
      BY <1>2, <1>3, <2>2, LoadType DEF Load
  <1> QED
    BY <1>4, <1>5

\* block_pop_item loses no wake-up, although it pops after it has released the
\* mutex (thread_pool.h:453-460).
LEMMA WakeupPopStep ==
  ASSUME LfInv, NEW w \in Workers, PopStep(w)
  PROVE  LfNoLostWakeup' /\ IsFiniteSet(Notifying')
  <1>1. /\ Notifying' = Notifying /\ UNCHANGED <<m_stop, stale>>
        /\ \A v \in Workers \ {w} : pc'[v] = pc[v]
    BY PopEffect DEF LfInv, Notifying
  <1>2. IsFiniteSet(Notifying')
    BY <1>1 DEF LfInv
  <1>3. CASE QueueKept \/ Moving
    <2>1. Load' = Load
      BY <1>3, LoadKept
    <2>2. CASE LfLoadTail(w) /\ at[w] = TailPos
      <3>1. pc[w] = "pred"
        BY <2>2 DEF LfLoadTail, LfInv, QueueTypes
      <3>2. ~stale => Load <= Cardinality(Notifying)
        BY <2>2, <3>1, WakeupSleep
      <3> QED
        BY <1>1, <1>2, <2>1, <3>2, LoadType DEF LfNoLostWakeup, Load
    <2>3. CASE ~(LfLoadTail(w) /\ at[w] = TailPos) /\ ~TakeFront(w)
      <3>1. Waiting' = Waiting /\ Coming' = Coming
        BY <1>1, <2>3 DEF PopStep, LfLoadHead, LfLoadTail, LfTimedOut, LfPop, LfPopNext, Waiting, Coming,
             LfInv, PoolTypes, QueueTypes
      <3> QED
        BY <1>1, <1>2, <2>1, <3>1 DEF LfNoLostWakeup, Load, LfInv
    <2>4. CASE TakeFront(w)
      <3>1. /\ m_tasks \in Seq(Tasks) /\ m_tasks # << >> /\ m_tasks' = Tail(m_tasks)
            /\ Len(m_tasks') = Len(m_tasks) - 1
        BY <2>4 DEF TakeFront, LfInv, PoolTypes
      <3>2. Len(m_tasks') >= Len(m_tasks)
        BY <1>3, LoadType, MovingIs DEF QueueKept, LfInv
      <3> QED
        BY <3>1, <3>2, LoadType
    <2> QED
      BY <2>2, <2>3, <2>4
  <1>4. CASE TakeFront(w) /\ UNCHANGED linked
    <2>1. /\ pc[w] \in {"pop", "notified", "pred", "timeout", "take", "take_next"}
          /\ pc' = [pc EXCEPT ![w] = "test"]
      BY <1>4, PopEffect DEF TakeFront, LfInv
    <2>2. Waiting' = Waiting /\ Coming' = Coming \ {w} /\ w \in Coming
      BY <2>1 DEF Waiting, Coming, LfInv, PoolTypes
    <2>3. Len(m_tasks') = Len(m_tasks) - 1
      BY <1>4 DEF TakeFront, LfInv, PoolTypes
    <2>4. Cardinality(Coming') = Cardinality(Coming) - 1
      BY <2>2, ComingCount, FS_RemoveElement
    <2> QED
      BY <1>1, <1>2, <1>4, <2>2, <2>3, <2>4, LoadType DEF LfNoLostWakeup, LfInv
  <1> QED
    BY <1>3, <1>4, PopEffect DEF LfInv

\* push_item loses no wake-up, although it links without the mutex: the caller
\* counts until it has notified, and then a worker does (thread_pool.h:461-471).
LEMMA WakeupPushStep ==
  ASSUME LfInv, NEW a \in Agents, PushStep(a)
  PROVE  IsFiniteSet(Notifying') /\ LfNoLostWakeup'
  <1>1. m_stop' = m_stop
    BY PushEffect DEF TasksKept, LfInv
  <1>2. CASE LfTail(a) \/ LfHelp(a) \/ LfSwing(a)
    <2>1. Notifying' = Notifying /\ UNCHANGED pc
      BY <1>2 DEF LfTail, LfHelp, LfSwing, CallUnchanged, Notifying, LfInv, PoolTypes, workerVars
    <2>2. ~LfLink(a)
      BY <2>1 DEF LfLink, Notifying, LfInv, PoolTypes
    <2>3. Load' = Load /\ stale' = stale
      BY <2>2, PushEffect, LoadKept DEF LfInv
    <2> QED
      BY <1>1, <2>1, <2>3 DEF LfNoLostWakeup, Load, Waiting, Coming, LfInv
  <1>3. CASE LfLink(a)
    <2>1. a \notin Notifying /\ Notifying' = Notifying \cup {a} /\ UNCHANGED <<pc, m_tasks>>
      BY <1>3 DEF LfLink, CallUnchanged, Notifying, LfInv, PoolTypes, workerVars
    <2>2. IsFiniteSet(Notifying') /\ Cardinality(Notifying') = Cardinality(Notifying) + 1
      BY <2>1, LoadType, FS_AddElement
    <2>3. ~stale' => Len(linked'[Nobody]) = 1 /\ linked[Nobody] = << >> /\ ~stale
      <3>1. SUFFICES ASSUME ~stale'
                     PROVE  Len(linked'[Nobody]) = 1 /\ linked[Nobody] = << >> /\ ~stale
        OBVIOUS
      <3>2. /\ linked[Nobody] = << >> /\ stale' = stale
            /\ linked' = [linked EXCEPT ![Nobody] = Chain(a), ![a] = << >>]
        BY <1>3, <3>1 DEF LfLink
      <3>3. linked[a] = << >>
        BY <3>1, <3>2 DEF LfInv, Lagging
      <3>4. Len(Chain(a)) = 1
        BY <1>3, <3>3, ChainIs DEF LfLink, LfInv
      <3>5. linked'[Nobody] = Chain(a)
        BY <3>2 DEF LfInv, QueueTypes, Places
      <3> QED
        BY <3>1, <3>2, <3>4, <3>5
    <2>4. ~stale' => Load' = Load + 1
      <3>1. SUFFICES ASSUME ~stale' PROVE Load' = Load + 1
        OBVIOUS
      <3>2. Len(linked'[Nobody]) = 1 /\ Len(linked[Nobody]) = 0
        BY <2>3, <3>1
      <3>3. Len(m_tasks) \in Nat /\ m_tasks' = m_tasks
        BY <2>1, LoadType
      <3>4. Load = Len(m_tasks) + 0 /\ Load' = Len(m_tasks) + 1
        BY <3>2, <3>3 DEF Load
      <3> QED
        BY <3>3, <3>4
    <2>5. Coming' = Coming /\ Waiting' = Waiting
      BY <2>1 DEF Coming, Waiting
    <2> QED
      BY <1>1, <2>2, <2>3, <2>4, <2>5, LoadType DEF LfNoLostWakeup, Load, LfInv
  <1>4. CASE LfNotify(a)
    <2>1. /\ a \in Notifying /\ Notifying' = Notifying \ {a}
          /\ UNCHANGED <<m_tasks, linked, stale>>
      BY <1>4 DEF LfNotify, Notifying, LfInv, PoolTypes, queueVars
    <2>2. IsFiniteSet(Notifying') /\ Cardinality(Notifying') = Cardinality(Notifying) - 1
      BY <2>1, LoadType, FS_RemoveElement
    <2>3. CASE Waiting = {}
      BY <1>4, <2>2, <2>3 DEF LfNotify, NotifyOne, LfNoLostWakeup, Waiting
    <2>4. CASE Waiting # {}
      <3>1. PICK w \in Waiting : pc' = [pc EXCEPT ![w] = "notified"]
        BY <1>4, <2>4 DEF LfNotify, NotifyOne
      <3>2. w \notin Coming /\ Coming' = Coming \cup {w}
        BY <3>1 DEF Waiting, Coming, LfInv, PoolTypes
      <3>3. Cardinality(Coming') = Cardinality(Coming) + 1
        BY <3>2, ComingCount, FS_AddElement
      <3> QED
        BY <1>1, <2>1, <2>2, <2>4, <3>3, LoadType DEF LfNoLostWakeup, LfInv
    <2> QED
      BY <2>3, <2>4
  <1> QED
    BY <1>2, <1>3, <1>4 DEF PushStep

-----------------------------------------------------------------------------
(* The destructor. *)

\* Every step of the lock-free pool keeps what the destructor relies on: a task
\* that calls the pool stays inside it until its call has notified, so its
\* worker does not exit before that (thread_pool.h:50-67, 72-86, 461-471).
LEMMA LfJoinNext ==
  ASSUME LfInv, LfNext
  PROVE  JoinInv'
  <1> USE DEF LfInv
  <1>1. joined \subseteq Workers
    BY DEF PoolTypes
  <1>2. ASSUME NEW w \in Workers,
               \/ LoopTest(w) \/ SpuriousWake(w) \/ Timeout(w)
               \/ BeginTask(w) \/ DropTask(w) \/ EndTask(w)
        PROVE  JoinInv'
    <2>1. /\ UNCHANGED <<op, owner, next, joined>>
          /\ pc[w] # "exit" /\ (pc[w] = "run" => op[w] = "none")
      BY <1>2 DEF LoopTest, SpuriousWake, Timeout, BeginTask, DropTask, EndTask,
                  callVars, ownerVars
    <2>2. \A v \in Workers \ {w} : pc'[v] = pc[v]
      BY <1>2 DEF LoopTest, SpuriousWake, Timeout, BeginTask, DropTask, EndTask, PoolTypes
    <2> QED
      BY <1>1, <2>1, <2>2, JoinByWorker
  <1>3. ASSUME NEW w \in Workers, PopStep(w)
        PROVE  JoinInv'
    <2>1. UNCHANGED <<op, owner, next, joined>> /\ pc[w] \notin {"exit", "run"}
      BY <1>3, PopEffect
    <2>2. \A v \in Workers \ {w} : pc'[v] = pc[v]
      BY <1>3, PopEffect
    <2> QED
      BY <1>1, <2>1, <2>2, JoinByWorker
  <1>4. ASSUME NEW a \in Agents, SetStop(a) \/ ExitBlock(a) \/ StopTest(a)
        PROVE  JoinInv'
    <2>1. UNCHANGED <<owner, next, joined>> /\ (op[a] # "none" \/ MayCall(a))
      BY <1>4 DEF SetStop, ExitBlock, StopTest, ownerVars
    <2>2. /\ \A w \in Workers : pc[w] \in {"run", "exit"} => pc'[w] = pc[w]
          /\ \A b \in Agents \ {a} : op'[b] = op[b]
      BY <1>4 DEF SetStop, ExitBlock, NotifyAll, StopTest, workerVars, PoolTypes
    <2> QED
      BY <1>1, <2>1, <2>2, JoinByCall
  <1>5. ASSUME NEW a \in Agents, NEW t \in Tasks, InsertTest(a, t)
        PROVE  JoinInv'
    <2>1. /\ UNCHANGED <<owner, next, joined, pc>> /\ MayCall(a)
          /\ \A b \in Agents \ {a} : op'[b] = op[b]
      BY <1>5 DEF InsertTest, workerVars, ownerVars, PoolTypes
    <2> QED
      BY <1>1, <2>1, JoinByCall
  <1>6. ASSUME NEW a \in Agents, PushStep(a)
        PROVE  JoinInv'
    <2>1. UNCHANGED <<owner, next, joined>> /\ op[a] # "none"
      BY <1>6, PushEffect
    <2>2. /\ \A w \in Workers : pc[w] \in {"run", "exit"} => pc'[w] = pc[w]
          /\ \A b \in Agents \ {a} : op'[b] = op[b]
      BY <1>6, PushEffect
    <2> QED
      BY <1>1, <2>1, <2>2, JoinByCall
  <1>7. CASE WaitCall \/ DtorTest \/ Join
    BY <1>7, JoinOwner
  <1>8. CASE Destroyed
    BY <1>8 DEF Destroyed, vars, JoinInv, Destructing
  <1> QED
    BY <1>2, <1>3, <1>4, <1>5, <1>6, <1>7, <1>8, LfStepKinds DEF PoolStep

-----------------------------------------------------------------------------
(* Every step keeps the invariant. *)

\* Every step of the pool keeps the invariant.
LEMMA LfInvNext == LfInv /\ [LfNext]_lfVars => LfInv'
  <1> SUFFICES ASSUME LfInv, [LfNext]_lfVars PROVE LfInv'
    OBVIOUS
  <1>1. CASE UNCHANGED lfVars
    <2>1. UNCHANGED <<vars, mtx, at, linked, lost, accepted, stale>>
      BY <1>1 DEF lfVars, queueVars
    <2> USE <2>1 DEF LfInv, vars
    <2>2. (PoolTypes /\ QueueTypes /\ JoinInv)'
      BY DEF PoolTypes, Holding, QueueTypes, JoinInv, Destructing
    <2>3. (Positions /\ Unaccepted /\ TasksConserved)'
      BY DEF Positions, HeadPos, TailPos, Unaccepted, TasksConserved, Held, Holding
    <2>4. (Apart /\ Lagging)'
      BY DEF Apart, Adrift, Lagging, TailPos
    <2>5. (IsFiniteSet(Notifying) /\ LfNoLostWakeup)'
      BY DEF Notifying, LfNoLostWakeup, Waiting, Coming
    <2> QED
      BY <2>2, <2>3, <2>4, <2>5
  <1>2. CASE LfNext
    <2>1. QueueTypes' /\ JoinInv' /\ Positions' /\ Unaccepted' /\ (TasksConserved /\ Apart)' /\ Lagging'
      BY <1>2, QueueTypesNext, LfJoinNext, PositionsNext, UnacceptedNext, LfConservation, LaggingNext
    <2>2. CASE PoolStep /\ UNCHANGED queueVars
      <3>1. PoolTypes'
        BY <2>2, PoolTypesKept DEF LfInv
      <3> QED
        BY <2>1, <2>2, <3>1, WakeupPool DEF LfInv
    <2>3. ASSUME NEW w \in Workers, PopStep(w) PROVE LfInv'
      <3>1. PoolTypes'
        BY <2>3, PopTypes DEF LfInv
      <3> QED
        BY <2>1, <2>3, <3>1, WakeupPopStep DEF LfInv
    <2>4. ASSUME NEW a \in Agents, PushStep(a) PROVE LfInv'
      <3>1. PoolTypes'
        BY <2>4, PushTypes DEF LfInv
      <3> QED
        BY <2>1, <2>4, <3>1, WakeupPushStep DEF LfInv
    <2> QED
      BY <1>2, <2>2, <2>3, <2>4, LfStepKinds
  <1> QED
    BY <1>1, <1>2

\* The invariant holds in every state of the pool.
LEMMA LfInvariant == LfSpec => []LfInv
  BY LfInvInit, LfInvNext, PTL DEF LfSpec

\* In every state the predicate of one worker at most runs, under the mutex, a
\* worker that goes to run a task has one, and no position that was loaded is ahead of
\* the queue (thread_pool.h:50-67, 453-471, lockfree_queue.h:46-128).
THEOREM LfTypeCorrect == LfSpec => []LfTypeOK
  <1>1. LfInv => LfTypeOK
    <2> SUFFICES ASSUME LfInv PROVE LfTypeOK
      OBVIOUS
    <2>1. TailPos \in Nat /\ \A a \in Agents : at[a] \in 0 .. TailPos
      BY DEF LfInv, PoolTypes, QueueTypes, Positions, TailPos
    <2>2. lost \subseteq accepted
      BY DEF LfInv, Apart, Adrift
    <2> QED
      BY <2>1, <2>2 DEF LfInv, PoolTypes, QueueTypes, Positions, LfTypeOK, Places
  <1> QED
    BY <1>1, LfInvariant, PTL

\* A task that emplace has linked is in one place only: behind m_tail, behind the node of
\* a caller, lost, in the queue, with one worker, executed or dropped; and one gets lost
\* only if some task was linked behind a node that m_head had passed
\* (lockfree_queue.h:46-128, thread_pool.h:50-67, 453-471).
THEOREM LfTasksAreConserved == LfSpec => []LfTasksConserved
  <1>1. LfInv => LfTasksConserved
    BY DEF LfInv, Apart, LfTasksConserved
  <1> QED
    BY <1>1, LfInvariant, PTL

\* A worker does not sleep un-notified while more tasks are linked than workers
\* and notifying callers look after, although push_item links without the mutex
\* and block_pop_item pops without it, unless some task was linked behind a node that
\* m_head had passed (thread_pool.h:453-471, lockfree_queue.h:110).
THEOREM LfNoWakeupIsLost == LfSpec => []LfNoLostWakeup
  <1>1. LfInv => LfNoLostWakeup
    BY DEF LfInv
  <1> QED
    BY <1>1, LfInvariant, PTL

\* The destructor of the lock-free pool too returns only when no worker and no
\* task can reach the pool (thread_pool.h:72-86).
THEOREM LfDestructorIsSafe == LfSpec => []DestroyedQuiescent
  <1>1. LfInv => DestroyedQuiescent
    BY DEF LfInv, JoinInv, DestroyedQuiescent, Destructing, Agents
  <1> QED
    BY <1>1, LfInvariant, PTL

-----------------------------------------------------------------------------
(* The lock-free pool implements TaskPool. *)

\* The abstract steps that do not touch the tasks adrift are those of the pool with the
\* mutex, which has none.
LEMMA SameSteps ==
  ASSUME Adrift' = Adrift
  PROVE  /\ \A t : /\ TP!Begin(t) => LfTP!Begin(t)
                   /\ TP!Drop(t) => LfTP!Drop(t)
                   /\ TP!Finish(t) => LfTP!Finish(t)
         /\ TP!Stop => LfTP!Stop
         /\ TP!Claim => LfTP!Claim
  <1>1. \A t : TP!Begin(t) => LfTP!Begin(t)
    BY DEF TP!Begin, LfTP!Begin
  <1>2. \A t : TP!Drop(t) => LfTP!Drop(t)
    BY DEF TP!Drop, LfTP!Drop
  <1>3. \A t : TP!Finish(t) => LfTP!Finish(t)
    BY DEF TP!Finish, LfTP!Finish
  <1>4. TP!Stop => LfTP!Stop
    BY DEF TP!Stop, LfTP!Stop
  <1>5. TP!Claim => LfTP!Claim
    BY DEF TP!Claim, LfTP!Claim, TP!Cardinality, LfTP!Cardinality, TP!IsFiniteSet,
           LfTP!IsFiniteSet
  <1> QED
    BY <1>1, <1>2, <1>3, <1>4, <1>5

\* When m_tail comes to a task, the abstract pool has it in reach
\* (lockfree_queue.h:67, 115, 124).
LEMMA RefineReach ==
  ASSUME LfInv, Moving, TasksKept
  PROVE  \E t \in Tasks : LfTP!Reach(t)
  <1>1. PICK t \in Tasks : /\ t \in Adrift /\ m_tasks' = Append(m_tasks, t)
                           /\ Adrift' = Adrift \ {t}
    BY MovingIs DEF LfInv
  <1>2. Claimed' = Claimed /\ Running' = Running
    BY DEF TasksKept, Claimed, Running
  <1>3. LfTP!Reach(t) <=> /\ t \in Adrift /\ Adrift' = Adrift \ {t}
                          /\ m_tasks' = Append(m_tasks, t)
                          /\ UNCHANGED <<m_stop, Claimed, Running, done, dropped>>
    BY DEF LfTP!Reach, Claimed, Running
  <1> QED
    BY <1>1, <1>2, <1>3 DEF TasksKept

\* When a caller links its task, the abstract pool accepts it; it never was accepted
\* before (lockfree_queue.h:110-114).
LEMMA RefineAccept ==
  ASSUME LfInv, NEW a \in Agents, LfLink(a), TasksKept
  PROVE  \E t \in Tasks : LfTP!Accept(t)
  <1>1. /\ arg[a] \in Tasks \ accepted /\ Adrift' = Adrift \cup {arg[a]}
        /\ UNCHANGED m_tasks
    BY LinkIs DEF LfInv, LfLink
  <1>2. Held = Claimed \cup Running
    BY DEF Held, Claimed, Running, Holding
  <1>3. arg[a] \notin Adrift \cup Range(m_tasks) \cup Claimed \cup Running \cup done \cup dropped
    BY <1>1, <1>2 DEF LfInv, TasksConserved, Apart
  <1>4. Claimed' = Claimed /\ Running' = Running
    BY DEF TasksKept, Claimed, Running
  <1>5. LfTP!Accept(arg[a]) <=>
          /\ arg[a] \notin Adrift \cup Range(m_tasks) \cup Claimed \cup Running \cup done
                             \cup dropped
          /\ Adrift' = Adrift \cup {arg[a]}
          /\ UNCHANGED <<m_stop, m_tasks, Claimed, Running, done, dropped>>
    BY DEF LfTP!Accept, LfTP!Accepted, LfTP!Range, Range, Claimed, Running
  <1>6. LfTP!Accept(arg[a])
    BY <1>1, <1>3, <1>4, <1>5 DEF TasksKept
  <1> QED
    BY <1>1, <1>6

\* Every step of the pool is a step of TaskPool or leaves it as it is: a task
\* is accepted at the link, in reach when m_tail comes to it, and claimed at the exchange
\* of m_head (lockfree_queue.h:84, 110-124).
LEMMA LfRefineNext == LfInv /\ [LfNext]_lfVars => [LfTP!Next]_(LfTP!vars)
  <1> SUFFICES ASSUME LfInv, [LfNext]_lfVars
               PROVE  LfTP!Next \/ UNCHANGED <<poolVars, Adrift>>
    BY DEF LfTP!vars, poolVars, Claimed, Running
  <1>1. SharedInv
    BY LfShared DEF LfInv
  <1>2. CASE PoolStep /\ UNCHANGED queueVars
    <2>1. Adrift' = Adrift
      BY <1>2 DEF Adrift, queueVars
    <2>2. \/ \E t \in Tasks : TP!Begin(t) \/ TP!Drop(t) \/ TP!Finish(t)
          \/ TP!Stop \/ UNCHANGED poolVars
      BY <1>1, <1>2, RefinePool
    <2>3. \/ \E t \in Tasks : LfTP!Begin(t) \/ LfTP!Drop(t) \/ LfTP!Finish(t)
          \/ LfTP!Stop \/ UNCHANGED poolVars
      BY <2>1, <2>2, SameSteps
    <2> QED
      BY <2>1, <2>3 DEF LfTP!Next
  <1>3. ASSUME QueueKept, TasksKept
        PROVE  UNCHANGED <<poolVars, Adrift>>
    BY <1>3 DEF QueueKept, TasksKept, poolVars, Claimed, Running, Adrift
  <1>4. ASSUME NEW w \in Workers, PopStep(w)
        PROVE  LfTP!Next \/ UNCHANGED <<poolVars, Adrift>>
    <2>1. CASE TakeFront(w) /\ UNCHANGED <<pushed, linked>>
      <3>1. UNCHANGED <<m_stop, done, dropped, lost>> /\ pc[w] \notin {"test", "run"}
        BY <1>4, PopEffect DEF LfInv
      <3>2. TP!Claim
        BY <1>1, <2>1, <3>1, RefineClaim
      <3>3. Adrift' = Adrift
        BY <2>1, <3>1 DEF Adrift
      <3>4. LfTP!Claim
        BY <3>2, <3>3, SameSteps
      <3> QED
        BY <3>4 DEF LfTP!Next
    <2>2. CASE TasksKept /\ QueueKept
      BY <1>3, <2>2
    <2>3. CASE TasksKept /\ Moving
      BY <2>3, RefineReach DEF LfTP!Next
    <2> QED
      BY <1>4, <2>1, <2>2, <2>3, PopEffect DEF LfInv
  <1>5. ASSUME NEW a \in Agents, PushStep(a)
        PROVE  LfTP!Next \/ UNCHANGED <<poolVars, Adrift>>
    <2>1. TasksKept
      BY <1>5, PushEffect DEF LfInv
    <2>2. CASE QueueKept
      BY <1>3, <2>1, <2>2
    <2>3. CASE Moving
      BY <2>1, <2>3, RefineReach DEF LfTP!Next
    <2>4. CASE LfLink(a)
      BY <2>1, <2>4, RefineAccept DEF LfTP!Next
    <2> QED
      BY <1>5, <2>2, <2>3, <2>4, PushEffect DEF LfInv
  <1>6. CASE UNCHANGED lfVars
    BY <1>6 DEF poolVars, Claimed, Running, lfVars, vars, queueVars, Adrift
  <1> QED
    BY <1>2, <1>4, <1>5, <1>6, LfStepKinds

\* lockfree_thread_pool implements the same TaskPool as the pools with a mutex, with the
\* loss that its queue may incur: a task is accepted at its link and may stay out of
\* reach, those in reach are claimed in the order in which m_tail came to them, run once,
\* and are dropped only after stop() (thread_pool.h:36-114, 448-481,
\* lockfree_queue.h:46-128).
THEOREM LfImplementsTaskPool == LfSpec => LfRefinesTaskPool
  <1>1. LfInit => LfTP!Init
    <2>1. LfInit => Adrift = {}
      BY DEF LfInit, Adrift, Range
    <2> QED
      BY <2>1 DEF LfInit, Init, LfTP!Init
  <1> QED
    BY <1>1, LfInvariant, LfRefineNext, PTL DEF LfSpec, LfRefinesTaskPool, LfTP!Spec
=============================================================================
