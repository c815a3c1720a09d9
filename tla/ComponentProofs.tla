--------------------------- MODULE ComponentProofs ---------------------------
(***************************************************************************)
(* Proofs about the components that do not meet each other: wish::event,   *)
(* the account of easy_exchange, the stable priority queues, the linked    *)
(* list of memory/ and quick_sort of practice/, for any number of threads, *)
(* items, calls and nodes and any array.                                   *)
(***************************************************************************)
EXTENDS PriorityQueues, Event, Account, LinkedList, Exercises, WellFoundedInduction,
        FiniteSetTheorems, SequenceTheorems, TLAPS

-----------------------------------------------------------------------------
(* wish::event. *)

\* Where writers and readers are, and what is in the queue: items of writers.
EventTypeOK ==
  /\ m_setted \in BOOLEAN
  /\ ev_writer \in [Writers -> {"emplace", "set"}]
  /\ ev_round \in [Writers -> 0 .. Rounds]
  /\ ev_reader \in [Readers -> {"idle", "blocked", "notified", "expired", "drain"}]
  /\ ev_queue \subseteq Writers \X (0 .. Rounds - 1)

EventInv == EventTypeOK /\ NoLostEvent

\* A reader that will look at the queue, in event::wait or after it.
OnItsWay(r) == ev_reader[r] \in {"notified", "drain"}

\* The initial state is well typed and has nothing to announce.
LEMMA EventInvInit == EventInit => EventInv
  <1> SUFFICES ASSUME EventInit PROVE EventInv
    OBVIOUS
  <1>0. 0 \in 0 .. Rounds
    BY EventAssumption
  <1>1. EventTypeOK
    BY <1>0 DEF EventInit, EventTypeOK
  <1>2. Announced = {}
    BY DEF EventInit, Announced
  <1> QED
    BY <1>1, <1>2 DEF EventInv, NoLostEvent

\* emplace and set() of a writer (event.h:11-19): emplacing announces nothing, and
\* set() raises the flag.
LEMMA EventInvWriter ==
  ASSUME EventInv, NEW w \in Writers, WriterStep(w)
  PROVE  EventInv'
  <1>1. CASE EventEmplace(w)
    <2>1. EventTypeOK'
      BY <1>1, EventAssumption DEF EventInv, EventTypeOK, EventEmplace
    <2>2. Announced' \subseteq Announced
      <3> SUFFICES ASSUME NEW x \in Announced' PROVE x \in Announced
        OBVIOUS
      <3>1. x \in Writers \X (0 .. Rounds - 1) /\ x \in ev_queue'
        BY <2>1 DEF EventTypeOK, Announced
      <3>2. CASE x[1] = w
        <4>1. ev_writer'[w] = "set" /\ ev_round'[w] = ev_round[w] + 1
          BY <1>1 DEF EventEmplace, EventInv, EventTypeOK
        <4>2. x # <<w, ev_round[w]>>
          BY <3>2, <4>1 DEF Announced
        <4> QED
          BY <1>1, <3>1, <3>2, <4>2 DEF EventEmplace, Announced
      <3>3. CASE x[1] # w
        <4>1. x \in ev_queue
          BY <1>1, <3>1, <3>3 DEF EventEmplace
        <4>2. ev_writer'[x[1]] = ev_writer[x[1]] /\ ev_round'[x[1]] = ev_round[x[1]]
          BY <1>1, <3>1, <3>3 DEF EventEmplace, EventInv, EventTypeOK
        <4> QED
          BY <4>1, <4>2 DEF Announced
      <3> QED
        BY <3>2, <3>3
    <2> QED
      BY <1>1, <2>1, <2>2 DEF EventEmplace, EventInv, NoLostEvent
  <1>2. CASE Set(w)
    <2>1. EventTypeOK'
      BY <1>2 DEF EventInv, EventTypeOK, Set, NotifyOne
    <2> QED
      BY <1>2, <2>1 DEF Set, EventInv, NoLostEvent
  <1> QED
    BY <1>1, <1>2 DEF WriterStep

\* wait() in all its outcomes and the loop of the reader (event.h:20-43): whoever
\* clears the flag goes to the queue, and the loop ends on an empty queue only.
LEMMA EventInvReader ==
  ASSUME EventInv, NEW r \in Readers,
         ReaderStep(r) \/ TimeOut(r) \/ SpuriousWakeup(r)
  PROVE  EventInv'
  <1>1. EventTypeOK'
    BY DEF EventInv, EventTypeOK, ReaderStep, Wait, Notified, Expired, Drain,
           TimeOut, SpuriousWakeup, Reader
  <1>2. CASE Wait(r) \/ Notified(r) \/ Expired(r) \/ TimeOut(r) \/ SpuriousWakeup(r)
    <2>1. Announced' = Announced
      BY <1>2 DEF Wait, Notified, Expired, TimeOut, SpuriousWakeup, Announced
    <2>2. /\ m_setted => m_setted' \/ OnItsWay(r)'
          /\ \A s \in Readers : OnItsWay(s) => OnItsWay(s)'
      BY <1>2 DEF Wait, Notified, Expired, TimeOut, SpuriousWakeup, Reader, OnItsWay,
                  EventInv, EventTypeOK
    <2> QED
      BY <1>1, <2>1, <2>2 DEF EventInv, NoLostEvent, OnItsWay
  <1>3. CASE Drain(r)
    <2>1. CASE ev_queue = {}
      <3>1. Announced' = {}
        BY <1>3, <2>1 DEF Drain, Announced
      <3> QED
        BY <1>1, <3>1 DEF EventInv, NoLostEvent
    <2>2. CASE ev_queue # {}
      <3>1. ev_reader'[r] = "drain"
        BY <1>3, <2>2 DEF Drain, Reader, EventInv, EventTypeOK
      <3> QED
        BY <1>1, <3>1 DEF EventInv, NoLostEvent
    <2> QED
      BY <2>1, <2>2
  <1> QED
    BY <1>2, <1>3 DEF ReaderStep

\* Every step keeps the invariant.
LEMMA EventInvNext == EventInv /\ [EventNext]_evVars => EventInv'
  <1> SUFFICES ASSUME EventInv, [EventNext]_evVars PROVE EventInv'
    OBVIOUS
  <1>1. CASE \E w \in Writers : WriterStep(w)
    BY <1>1, EventInvWriter
  <1>2. CASE \E r \in Readers : ReaderStep(r) \/ TimeOut(r) \/ SpuriousWakeup(r)
    BY <1>2, EventInvReader
  <1>3. CASE UNCHANGED evVars
    BY <1>3 DEF evVars, EventInv, EventTypeOK, NoLostEvent, Announced
  <1> QED
    BY <1>1, <1>2, <1>3 DEF EventNext

\* No event is lost, however many writers share the one flag, readers share the
\* one event and waits give up or end without cause (event.h:24-43).
THEOREM NoEventIsLost == EventSpec => []NoLostEvent
  <1>1. EventInv => NoLostEvent
    BY DEF EventInv
  <1> QED
    BY <1>1, EventInvInit, EventInvNext, PTL DEF EventSpec

-----------------------------------------------------------------------------
(* Induction over finite sets, as a least counterexample. *)

\* A set of natural numbers has a least one.
LEMMA LeastNatural ==
  ASSUME NEW S \in SUBSET Nat, S # {}
  PROVE  \E n \in S : \A m \in S : n <= m
  <1> DEFINE R == OpToRel(<, Nat)
  <1>1. IsWellFoundedOn(R, Nat)
    BY NatLessThanWellFounded
  <1>2. R = {ss \in Nat \X Nat : ss[1] < ss[2]}
    BY DEF OpToRel
  <1> HIDE DEF R
  <1>3. PICK x \in S : \A y \in S : ~(<<y, x>> \in R)
    BY <1>1, WFMin
  <1>4. ASSUME NEW y \in S PROVE x <= y
    <2>1. <<y, x>> \in Nat \X Nat /\ ~(<<y, x>> \in R)
      BY <1>3
    <2>2. ~(y < x)
      BY <1>2, <2>1
    <2> QED
      BY <2>2
  <1> QED
    BY <1>4

\* A family of subsets of a finite set that contains every set whose proper subsets
\* it contains is the family of all of them.
LEMMA FiniteInduction ==
  ASSUME NEW S, IsFiniteSet(S), NEW Good,
         \A s \in SUBSET S : (\A r \in SUBSET s : r # s => r \in Good) => s \in Good
  PROVE  \A s \in SUBSET S : s \in Good
  <1> SUFFICES ASSUME NEW bad \in SUBSET S, bad \notin Good PROVE FALSE
    OBVIOUS
  <1> DEFINE sizes == {Cardinality(s) : s \in {s \in SUBSET S : s \notin Good}}
  <1>1. \A s \in SUBSET S : IsFiniteSet(s) /\ Cardinality(s) \in Nat
    BY FS_Subset, FS_CardinalityType
  <1>2. sizes \in SUBSET Nat /\ sizes # {}
    BY <1>1
  <1>3. PICK n \in sizes : \A m \in sizes : n <= m
    BY <1>2, LeastNatural
  <1>4. PICK s \in SUBSET S : s \notin Good /\ Cardinality(s) = n
    BY <1>3
  <1>5. PICK r \in SUBSET s : r # s /\ r \notin Good
    BY <1>4
  <1>6. Cardinality(r) <= Cardinality(s) /\ Cardinality(r) # Cardinality(s)
    BY <1>1, <1>4, <1>5, FS_Subset
  <1>7. Cardinality(r) \in sizes
    BY <1>5
  <1> QED
    BY <1>1, <1>3, <1>4, <1>5, <1>6, <1>7

-----------------------------------------------------------------------------
(* Sums over finite sets. *)

Sum(f, S) == MapThenSumSet(LAMBDA x : f[x], S)

\* g is the function that MapThenSumSet defines by recursion.
Picked(s) == CHOOSE x \in s : TRUE
IsSum(g, f, S) == g = [s \in SUBSET S |-> IF s = {} THEN 0
                                           ELSE f[Picked(s)] + g[s \ {Picked(s)}]]

\* It exists.
LEMMA SumExists ==
  ASSUME NEW S, IsFiniteSet(S), NEW f
  PROVE  \E g : IsSum(g, f, S)
  <1> DEFINE Good == {s \in SUBSET S : \E g : IsSum(g, f, s)}
  <1> SUFFICES S \in Good
    OBVIOUS
  <1>1. ASSUME NEW s \in SUBSET S, \A r \in SUBSET s : r # s => r \in Good
        PROVE  s \in Good
    <2> DEFINE of(r) == CHOOSE g : IsSum(g, f, r)
    <2>1. \A r \in SUBSET s : r # s => IsSum(of(r), f, r)
      BY <1>1
    <2> HIDE DEF of
    \* The recursive functions of two subsets agree where both are defined.
    <2>2. ASSUME NEW q \in SUBSET s, NEW r \in SUBSET s, q # s, r # s
          PROVE  \A t \in SUBSET (q \cap r) : of(q)[t] = of(r)[t]
      <3> DEFINE Same == {t \in SUBSET (q \cap r) : of(q)[t] = of(r)[t]}
      <3>1. IsFiniteSet(q \cap r)
        BY FS_Subset
      <3>2. ASSUME NEW t \in SUBSET (q \cap r), \A u \in SUBSET t : u # t => u \in Same
            PROVE  t \in Same
        <4>1. t # {} => t \ {Picked(t)} # t
          BY DEF Picked
        <4>2. /\ of(q)[t] = IF t = {} THEN 0 ELSE f[Picked(t)] + of(q)[t \ {Picked(t)}]
              /\ of(r)[t] = IF t = {} THEN 0 ELSE f[Picked(t)] + of(r)[t \ {Picked(t)}]
          BY <2>1, <2>2 DEF IsSum
        <4> QED
          BY <3>2, <4>1, <4>2
      <3> HIDE DEF Same
      <3>3. \A t \in SUBSET (q \cap r) : t \in Same
        BY <3>1, <3>2, FiniteInduction
      <3> QED
        BY <3>3 DEF Same
    <2> DEFINE rest == s \ {Picked(s)}
               g == [r \in SUBSET s |->
                       IF r = {} THEN 0 ELSE f[Picked(r)] + of(r \ {Picked(r)})[r \ {Picked(r)}]]
    <2>3. ASSUME NEW r \in SUBSET s
          PROVE  g[r] = IF r = {} THEN 0 ELSE f[Picked(r)] + g[r \ {Picked(r)}]
      <3>1. CASE r = {}
        BY <3>1
      <3>2. CASE r # {}
        <4> DEFINE t == r \ {Picked(r)}
        <4>1. t \in SUBSET s /\ t # s /\ t # r
          BY <3>2 DEF Picked
        <4>2. g[t] = of(t)[t]
          <5>1. CASE t = {}
            BY <2>1, <4>1, <5>1 DEF IsSum
          <5>2. CASE t # {}
            <6> DEFINE u == t \ {Picked(t)}
            <6>1. u \in SUBSET t /\ u # s /\ u \in SUBSET (u \cap t)
              BY <4>1, <5>2 DEF Picked
            <6>2. of(t)[t] = f[Picked(t)] + of(t)[u]
              <7>1. IsSum(of(t), f, t)
                BY <2>1, <4>1
              <7> QED
                BY <5>2, <7>1 DEF IsSum
            <6>3. of(t)[u] = of(u)[u]
              BY <2>2, <4>1, <6>1
            <6> QED
              BY <4>1, <5>2, <6>2, <6>3
          <5> QED
            BY <5>1, <5>2
        <4>3. g[r] = f[Picked(r)] + of(t)[t]
          BY <3>2
        <4> QED
          BY <3>2, <4>2, <4>3
      <3> QED
        BY <3>1, <3>2
    <2> DEFINE body == [r \in SUBSET s |->
                          IF r = {} THEN 0 ELSE f[Picked(r)] + g[r \ {Picked(r)}]]
    <2>4. g = body
      <3>1. \A r \in SUBSET s : g[r] = body[r]
        BY <2>3
      <3>2. DOMAIN g = SUBSET s /\ DOMAIN body = SUBSET s /\ g = [r \in DOMAIN g |-> g[r]]
            /\ body = [r \in DOMAIN body |-> body[r]]
        OBVIOUS
      <3> HIDE DEF g, body
      <3> QED
        BY <3>1, <3>2
    <2>5. IsSum(g, f, s)
      BY <2>4 DEF IsSum
    <2> HIDE DEF g
    <2> QED
      BY <2>5
  <1> HIDE DEF Good
  <1> QED
    BY <1>1, FiniteInduction

\* It is unique, whatever set it is defined for.
LEMMA SumUnique ==
  ASSUME NEW S, IsFiniteSet(S), NEW T, NEW f, NEW g, NEW h, IsSum(g, f, S), IsSum(h, f, T),
         S \subseteq T
  PROVE  \A s \in SUBSET S : g[s] = h[s]
  <1> DEFINE Good == {s \in SUBSET S : g[s] = h[s]}
  <1>1. ASSUME NEW s \in SUBSET S, \A r \in SUBSET s : r # s => r \in Good
        PROVE  s \in Good
    <2>1. s # {} => s \ {Picked(s)} # s
      BY DEF Picked
    <2>2. /\ g[s] = IF s = {} THEN 0 ELSE f[Picked(s)] + g[s \ {Picked(s)}]
          /\ h[s] = IF s = {} THEN 0 ELSE f[Picked(s)] + h[s \ {Picked(s)}]
      BY DEF IsSum
    <2> QED
      BY <1>1, <2>1, <2>2
  <1> HIDE DEF Good
  <1>2. \A s \in SUBSET S : s \in Good
    BY <1>1, FiniteInduction
  <1> QED
    BY <1>2 DEF Good

\* The sum is its value.
LEMMA SumIs ==
  ASSUME NEW S, IsFiniteSet(S), NEW f, NEW g, NEW T, S \subseteq T, IsSum(g, f, T)
  PROVE  Sum(f, S) = g[S]
  <1> DEFINE h == CHOOSE h : IsSum(h, f, S)
  <1>1. IsSum(h, f, S)
    BY SumExists
  <1>2. Sum(f, S) = h[S]
    BY DEF Sum, MapThenSumSet, MapThenFoldSet, IsSum, Picked
  <1> HIDE DEF h
  <1> QED
    BY <1>1, <1>2, SumUnique

\* Any element can be taken out first, although the definition picks one.
LEMMA SumRemove ==
  ASSUME NEW S, IsFiniteSet(S), NEW f, \A x \in S : f[x] \in Int
  PROVE  /\ Sum(f, S) \in Int
         /\ S = {} => Sum(f, S) = 0
         /\ \A x \in S : Sum(f, S) = f[x] + Sum(f, S \ {x})
  <1>1. PICK g : IsSum(g, f, S)
    BY SumExists
  <1> DEFINE Good == {s \in SUBSET S : /\ g[s] \in Int
                                       /\ \A x \in s : g[s] = f[x] + g[s \ {x}]}
  <1>2. ASSUME NEW s \in SUBSET S, \A r \in SUBSET s : r # s => r \in Good
        PROVE  s \in Good
    <2>1. CASE s = {}
      BY <1>1, <2>1 DEF IsSum
    <2>2. CASE s # {}
      <3> DEFINE p == Picked(s)
                 t == s \ {p}
      <3>1. p \in s
        BY <2>2 DEF Picked
      <3> HIDE DEF p
      <3>2. g[s] = f[p] + g[t]
        BY <1>1, <2>2 DEF IsSum, p
      <3>3. t \in Good /\ g[t] \in Int /\ f[p] \in Int
        BY <1>2, <3>1
      <3>4. ASSUME NEW x \in s, x # p PROVE g[s] = f[x] + g[s \ {x}]
        <4>1. x \in t /\ g[t] = f[x] + g[t \ {x}] /\ f[x] \in Int
          BY <3>3, <3>4
        <4>2. s \ {x} \in Good /\ p \in s \ {x} /\ t \ {x} \in Good
          BY <1>2, <3>1, <3>4
        <4>3. g[s \ {x}] = f[p] + g[(s \ {x}) \ {p}]
          BY <4>2
        <4>4. (s \ {x}) \ {p} = t \ {x} /\ g[t \ {x}] \in Int
          BY <4>2
        <4> DEFINE n == g[t \ {x}]
        <4>5. g[s \ {x}] = f[p] + n /\ g[t] = f[x] + n /\ n \in Int
          BY <4>1, <4>3, <4>4
        <4> HIDE DEF n
        <4> QED
          BY <3>2, <3>3, <4>1, <4>5
      <3>5. g[s] \in Int /\ g[s] = f[p] + g[s \ {p}]
        BY <3>2, <3>3
      <3> QED
        BY <3>4, <3>5
    <2> QED
      BY <2>1, <2>2
  <1> HIDE DEF Good
  <1>3. S \in Good
    BY <1>2, FiniteInduction
  <1>4. \A s \in SUBSET S : Sum(f, s) = g[s]
    BY <1>1, SumIs, FS_Subset
  <1>5. S = {} => g[S] = 0
    BY <1>1 DEF IsSum
  <1> QED
    BY <1>3, <1>4, <1>5 DEF Good

\* It depends on the values at the elements only.
LEMMA SumSame ==
  ASSUME NEW S, IsFiniteSet(S), NEW f, NEW h, \A x \in S : f[x] = h[x]
  PROVE  Sum(f, S) = Sum(h, S)
  <1>1. PICK g : IsSum(g, f, S)
    BY SumExists
  <1>2. IsSum(g, h, S)
    <2>1. \A s \in SUBSET S : s # {} => f[Picked(s)] = h[Picked(s)]
      BY DEF Picked
    <2> QED
      BY <1>1, <2>1 DEF IsSum
  <1> QED
    BY <1>1, <1>2, SumIs

\* x joins or leaves the set, or its value is changed, or nothing of this happens.
LEMMA SumStep ==
  ASSUME NEW S, IsFiniteSet(S), NEW T, NEW x, S \ {x} = T \ {x}, NEW f, NEW h,
         \A y \in S : f[y] \in Int, \A y \in S \ {x} : h[y] = f[y], x \in T => h[x] \in Int
  PROVE  /\ IsFiniteSet(T) /\ Sum(f, S) \in Int
         /\ Sum(h, T) = Sum(f, S) - (IF x \in S THEN f[x] ELSE 0) + (IF x \in T THEN h[x] ELSE 0)
  <1> DEFINE R == S \ {x}
  <1>1. IsFiniteSet(R) /\ IsFiniteSet(T)
    <2>1. T = R \/ T = R \cup {x}
      OBVIOUS
    <2> QED
      BY <2>1, FS_AddElement, FS_RemoveElement
  <1>2. Sum(f, R) = Sum(h, R) /\ Sum(f, R) \in Int /\ Sum(f, S) \in Int
    BY <1>1, SumSame, SumRemove
  <1>3. Sum(f, S) = Sum(f, R) + (IF x \in S THEN f[x] ELSE 0)
    <2>1. CASE x \in S
      BY <1>2, <2>1, SumRemove
    <2>2. CASE x \notin S
      <3>1. R = S
        BY <2>2
      <3> HIDE DEF R
      <3> QED
        BY <1>2, <2>2, <3>1
    <2> QED
      BY <2>1, <2>2
  <1>4. Sum(h, T) = Sum(h, R) + (IF x \in T THEN h[x] ELSE 0)
    <2>1. CASE x \in T
      <3>1. (\A y \in T : h[y] \in Int) /\ R = T \ {x}
        OBVIOUS
      <3>2. Sum(h, T) = h[x] + Sum(h, T \ {x})
        BY <1>1, <2>1, <3>1, SumRemove
      <3> HIDE DEF R
      <3> QED
        BY <1>2, <2>1, <3>1, <3>2
    <2>2. CASE x \notin T
      <3>1. R = T
        BY <2>2
      <3> HIDE DEF R
      <3> QED
        BY <1>2, <2>2, <3>1
    <2> QED
      BY <2>1, <2>2
  <1> HIDE DEF R
  <1>5. (x \in S => f[x] \in Int) /\ (x \in T => h[x] \in Int)
    OBVIOUS
  <1> QED
    BY <1>1, <1>2, <1>3, <1>4, <1>5

-----------------------------------------------------------------------------
(* The account of easy_exchange. *)

\* A call under way: what it buys, sells or asks for, and where it is.
CallRecords == [at : {"pay", "test", "body", "clear", "collect", "sold"},
                op : {"buy", "sell", "query"}, code : Codes, amount : Int, volume : Nat,
                old : Int]

AccountTypes ==
  /\ m_fund \in Int /\ settled \in Int /\ m_position \in Positions
  /\ call \in [Traders -> {NoCall} \cup CallRecords]
  /\ \A t \in Traders : /\ call[t].at = "pay" => call[t].op = "buy"
                        /\ call[t].at \in {"collect", "sold"} => call[t].op = "sell"

\* The purchases that were paid and the sales that were collected, and have not
\* returned; there are finitely many of them although the threads need not be.
Paid == {t \in Traders : call[t].at \in {"test", "body", "clear"} /\ call[t].op = "buy"}
Collected == {t \in Traders : call[t].at = "sold"}
Amounts == [t \in Traders |-> call[t].amount]

AccountInv ==
  /\ AccountTypes /\ IsFiniteSet(Paid) /\ IsFiniteSet(Collected)
  /\ m_fund = settled - Sum(Amounts, Paid) + Sum(Amounts, Collected)

\* What the property calls a sum over the calls is the sum of Amounts.
LEMMA SumOfCalls ==
  ASSUME NEW T \in SUBSET Traders, IsFiniteSet(T)
  PROVE  MapThenSumSet(LAMBDA t : call[t].amount, T) = Sum(Amounts, T)
  <1> DEFINE Is(g) == g = [s \in SUBSET T |->
                             IF s = {} THEN 0 ELSE call[Picked(s)].amount + g[s \ {Picked(s)}]]
             h == CHOOSE g : Is(g)
  <1>1. \A s \in SUBSET T : s # {} => Amounts[Picked(s)] = call[Picked(s)].amount
    BY DEF Amounts, Picked
  <1>2. \E g : Is(g)
    <2>1. PICK g : IsSum(g, Amounts, T)
      BY SumExists
    <2>2. Is(g)
      BY <1>1, <2>1 DEF IsSum
    <2> QED
      BY <2>2
  <1>3. Is(h)
    BY <1>2
  <1>4. MapThenSumSet(LAMBDA t : call[t].amount, T) = h[T]
    BY DEF MapThenSumSet, MapThenFoldSet, Picked
  <1> HIDE DEF h
  <1>5. IsSum(h, Amounts, T)
    BY <1>1, <1>3 DEF IsSum
  <1> QED
    BY <1>4, <1>5, SumIs

\* What a call r that is at l has moved without having returned.
PaidAt(r, l) == IF l \in {"test", "body", "clear"} /\ r.op = "buy" THEN r.amount ELSE 0
CollectedAt(r, l) == IF l = "sold" THEN r.amount ELSE 0
PaidIn(r) == PaidAt(r, r.at)
CollectedIn(r) == CollectedAt(r, r.at)

\* A step of t moves of the fund what it adds to the calls under way and to what
\* was settled.
LEMMA AccountBalance ==
  ASSUME AccountInv, NEW t \in Traders, NEW r \in {NoCall} \cup CallRecords,
         r.at = "pay" => r.op = "buy", r.at \in {"collect", "sold"} => r.op = "sell",
         call' = [call EXCEPT ![t] = r], m_fund' \in Int, settled' \in Int, m_position' \in Positions,
         m_fund' - settled' = m_fund - settled + PaidIn(call[t]) - PaidIn(r)
                                               - CollectedIn(call[t]) + CollectedIn(r)
  PROVE  AccountInv'
  <1>1. /\ AccountTypes' /\ call'[t] = r /\ \A u \in Traders \ {t} : call'[u] = call[u]
        /\ call[t] \in {NoCall} \cup CallRecords
    BY DEF AccountInv, AccountTypes
  <1>2. /\ Paid \ {t} = Paid' \ {t} /\ Collected \ {t} = Collected' \ {t}
        /\ \A u \in Traders \ {t} : Amounts'[u] = Amounts[u]
    BY <1>1 DEF Paid, Collected, Amounts
  <1>3. \A q \in {NoCall} \cup CallRecords : q.at # "idle" => q.amount \in Int
    BY DEF NoCall, CallRecords
  <1>4. \A u \in Paid \cup Collected : u \in Traders /\ Amounts[u] \in Int
    BY <1>3 DEF AccountInv, AccountTypes, Paid, Collected, Amounts
  <1>5. /\ t \in Paid' => Amounts'[t] \in Int
        /\ t \in Collected' => Amounts'[t] \in Int
    BY <1>1, <1>3 DEF Paid, Collected, Amounts
  <1>6. /\ PaidIn(call[t]) = (IF t \in Paid THEN Amounts[t] ELSE 0)
        /\ CollectedIn(call[t]) = (IF t \in Collected THEN Amounts[t] ELSE 0)
    BY DEF PaidIn, PaidAt, CollectedIn, CollectedAt, Paid, Collected, Amounts
  <1>7. /\ PaidIn(r) = (IF t \in Paid' THEN Amounts'[t] ELSE 0)
        /\ CollectedIn(r) = (IF t \in Collected' THEN Amounts'[t] ELSE 0)
    BY <1>1 DEF PaidIn, PaidAt, CollectedIn, CollectedAt, Paid, Collected, Amounts
  <1>8. /\ IsFiniteSet(Paid') /\ Sum(Amounts, Paid) \in Int
        /\ Sum(Amounts', Paid') = Sum(Amounts, Paid) - PaidIn(call[t]) + PaidIn(r)
    <2>1. /\ IsFiniteSet(Paid) /\ \A u \in Paid : Amounts[u] \in Int
          /\ \A u \in Paid \ {t} : Amounts'[u] = Amounts[u]
      BY <1>2, <1>4 DEF AccountInv
    <2> QED
      BY <1>2, <1>5, <1>6, <1>7, <2>1, SumStep
  <1>9. /\ IsFiniteSet(Collected') /\ Sum(Amounts, Collected) \in Int
        /\ Sum(Amounts', Collected') =
             Sum(Amounts, Collected) - CollectedIn(call[t]) + CollectedIn(r)
    <2>1. /\ IsFiniteSet(Collected) /\ \A u \in Collected : Amounts[u] \in Int
          /\ \A u \in Collected \ {t} : Amounts'[u] = Amounts[u]
      BY <1>2, <1>4 DEF AccountInv
    <2> QED
      BY <1>2, <1>5, <1>6, <1>7, <2>1, SumStep
  <1>10. /\ m_fund \in Int /\ settled \in Int
         /\ m_fund = settled - Sum(Amounts, Paid) + Sum(Amounts, Collected)
    BY DEF AccountInv, AccountTypes
  <1>11. /\ PaidIn(call[t]) \in Int /\ PaidIn(r) \in Int
         /\ CollectedIn(call[t]) \in Int /\ CollectedIn(r) \in Int
    BY <1>1, <1>3 DEF PaidIn, PaidAt, CollectedIn, CollectedAt
  <1>12. m_fund' = settled' - Sum(Amounts', Paid') + Sum(Amounts', Collected')
    BY <1>8, <1>9, <1>10, <1>11
  <1> QED
    BY <1>1, <1>8, <1>9, <1>12 DEF AccountInv

\* A call that is under way, and the records that EXCEPT makes of it.
LEMMA CallIs ==
  ASSUME AccountTypes, NEW t \in Traders, call[t].at # "idle"
  PROVE  /\ call[t] \in CallRecords /\ call[t].amount \in Int /\ call[t].old \in Int
         /\ call[t].code \in Codes /\ call[t].volume \in Nat
         /\ call[t].at = "pay" => call[t].op = "buy"
         /\ call[t].at \in {"collect", "sold"} => call[t].op = "sell"
  <1>1. call[t] \in {NoCall} \cup CallRecords
    BY DEF AccountTypes
  <1>2. call[t] \in CallRecords
    BY <1>1 DEF NoCall
  <1> QED
    BY <1>2 DEF AccountTypes, CallRecords

\* A thread leaves, having settled what it has moved.
LEMMA CallReturns ==
  ASSUME AccountInv, NEW t \in Traders, call[t].at # "idle", Leave(t), m_fund' = m_fund,
         settled' \in Int, settled' = settled - PaidIn(call[t]) + CollectedIn(call[t]),
         m_position' \in Positions
  PROVE  AccountInv'
  <1>1. AccountTypes /\ m_fund \in Int /\ settled \in Int
    BY DEF AccountInv, AccountTypes
  <1>2. /\ NoCall \in {NoCall} \cup CallRecords /\ NoCall.at = "idle"
        /\ PaidIn(NoCall) = 0 /\ CollectedIn(NoCall) = 0
    BY DEF NoCall, PaidIn, PaidAt, CollectedIn, CollectedAt
  <1>3. call' = [call EXCEPT ![t] = NoCall]
    BY DEF Leave
  <1>4. PaidIn(call[t]) \in Int /\ CollectedIn(call[t]) \in Int
    BY <1>1, CallIs DEF PaidIn, PaidAt, CollectedIn, CollectedAt
  <1>5. m_fund' - settled' = m_fund - settled + PaidIn(call[t]) - PaidIn(NoCall)
                               - CollectedIn(call[t]) + CollectedIn(NoCall)
    BY <1>1, <1>2, <1>4
  <1>6. NoCall.at # "pay" /\ NoCall.at \notin {"collect", "sold"} /\ m_fund' \in Int
    BY <1>1, <1>2
  <1> QED
    BY <1>2, <1>3, <1>5, <1>6, AccountBalance

\* A call goes on at l, having moved the difference, and with a value loaded from
\* the fund.
LEMMA CallGoesOn ==
  ASSUME AccountInv, NEW t \in Traders, call[t].at # "idle",
         NEW l \in {"pay", "test", "body", "clear", "collect", "sold"}, NEW old \in Int,
         call' = [call EXCEPT ![t] = [call[t] EXCEPT !.at = l, !.old = old]],
         l = "pay" => call[t].op = "buy", l \in {"collect", "sold"} => call[t].op = "sell",
         m_fund' \in Int, settled' = settled, m_position' \in Positions,
         m_fund' = m_fund + PaidIn(call[t]) - PaidAt(call[t], l)
                          - CollectedIn(call[t]) + CollectedAt(call[t], l)
  PROVE  AccountInv'
  <1>1. AccountTypes /\ m_fund \in Int /\ settled \in Int
    BY DEF AccountInv, AccountTypes
  <1> DEFINE q == call[t]
             r == [q EXCEPT !.at = l, !.old = old]
  <1>2. q \in CallRecords /\ q.amount \in Int
    BY <1>1, CallIs
  <1>3. r \in CallRecords /\ r.at = l /\ r.op = q.op /\ r.amount = q.amount
    <2> HIDE DEF q
    <2> QED
      BY <1>2 DEF CallRecords
  <1>4. call' = [call EXCEPT ![t] = r]
    OBVIOUS
  <1> HIDE DEF r
  <1>5. PaidIn(r) = PaidAt(q, l) /\ CollectedIn(r) = CollectedAt(q, l)
    BY <1>3 DEF PaidIn, PaidAt, CollectedIn, CollectedAt
  <1>6. /\ PaidIn(q) \in Int /\ CollectedIn(q) \in Int
        /\ PaidAt(q, l) \in Int /\ CollectedAt(q, l) \in Int
    BY <1>2 DEF PaidIn, PaidAt, CollectedIn, CollectedAt
  <1>7. m_fund' - settled' = m_fund - settled + PaidIn(q) - PaidIn(r)
                               - CollectedIn(q) + CollectedIn(r)
    BY <1>1, <1>5, <1>6
  <1>8. settled' \in Int /\ (r.at = "pay" => r.op = "buy")
        /\ (r.at \in {"collect", "sold"} => r.op = "sell")
    BY <1>1, <1>3
  <1> QED
    BY <1>3, <1>4, <1>7, <1>8, AccountBalance

\* Every step of a thread keeps the balance (asset_def.h:7-76).
LEMMA AccountInvStep ==
  ASSUME AccountInv, NEW t \in Traders, TraderStep(t)
  PROVE  AccountInv'
  <1>1. AccountTypes /\ m_fund \in Int /\ settled \in Int /\ m_position \in Positions
    BY DEF AccountInv, AccountTypes
  <1> DEFINE q == call[t]
  <1>2. ASSUME q.at # "idle" PROVE PaidIn(q) \in Int /\ CollectedIn(q) \in Int
    BY <1>1, <1>2, CallIs DEF PaidIn, PaidAt, CollectedIn, CollectedAt
  <1>3. ASSUME NEW op \in {"buy", "sell", "query"}, NEW c \in Codes, NEW a \in Int,
               NEW v \in Nat, Begin(t, op, c, a, v)
        PROVE  AccountInv'
    <2> DEFINE r == [at |-> IF op = "buy" THEN "pay" ELSE "test", op |-> op,
                     code |-> c, amount |-> a, volume |-> v, old |-> m_fund]
    <2>1. /\ r \in CallRecords /\ r.op = op
          /\ r.at = IF op = "buy" THEN "pay" ELSE "test"
      BY <1>1 DEF CallRecords
    <2>2. /\ call' = [call EXCEPT ![t] = r] /\ q = NoCall
          /\ m_fund' = m_fund /\ settled' = settled /\ m_position' = m_position
      BY <1>3 DEF Begin
    <2> HIDE DEF r
    <2>3. PaidIn(r) = 0 /\ CollectedIn(r) = 0
      BY <2>1 DEF PaidIn, PaidAt, CollectedIn, CollectedAt
    <2>4. PaidIn(q) = 0 /\ CollectedIn(q) = 0
      BY <2>2 DEF NoCall, PaidIn, PaidAt, CollectedIn, CollectedAt
    <2>5. m_fund' - settled' = m_fund - settled + PaidIn(q) - PaidIn(r)
                                 - CollectedIn(q) + CollectedIn(r)
      BY <1>1, <2>2, <2>3, <2>4
    <2>6. (r.at = "pay" => r.op = "buy") /\ (r.at \in {"collect", "sold"} => r.op = "sell")
      BY <2>1
    <2>7. m_fund' \in Int /\ settled' \in Int /\ m_position' \in Positions
      BY <1>1, <2>2
    <2> QED
      BY <2>1, <2>2, <2>5, <2>6, <2>7, AccountBalance
  <1>4. ASSUME q.at # "idle"
        PROVE  /\ q \in CallRecords /\ q.amount \in Int /\ q.old \in Int
               /\ q.code \in Codes /\ q.volume \in Nat
               /\ q.at = "pay" => q.op = "buy"
               /\ q.at \in {"collect", "sold"} => q.op = "sell"
    BY <1>1, <1>4, CallIs
  <1>5. \A l : Proceed(t, l) /\ q \in CallRecords
                => call' = [call EXCEPT ![t] = [q EXCEPT !.at = l, !.old = q.old]]
    <2> SUFFICES ASSUME NEW l, Proceed(t, l), q \in CallRecords
                 PROVE  call' = [call EXCEPT ![t] = [q EXCEPT !.at = l, !.old = q.old]]
      OBVIOUS
    <2>1. call' = [call EXCEPT ![t] = [q EXCEPT !.at = l]]
      BY DEF Proceed
    <2>2. [q EXCEPT !.at = l] = [q EXCEPT !.at = l, !.old = q.old]
      <3> HIDE DEF q
      <3> QED
        BY DEF CallRecords
    <2> QED
      BY <2>1, <2>2
  <1>6. Reload(t) /\ q \in CallRecords
          => /\ call' = [call EXCEPT ![t] = [q EXCEPT !.at = q.at, !.old = m_fund]]
             /\ m_fund' = m_fund
    <2> SUFFICES ASSUME Reload(t), q \in CallRecords
                 PROVE  call' = [call EXCEPT ![t] = [q EXCEPT !.at = q.at, !.old = m_fund]]
      BY DEF Reload
    <2>1. call' = [call EXCEPT ![t] = [q EXCEPT !.old = m_fund]]
      BY DEF Reload
    <2>2. [q EXCEPT !.old = m_fund] = [q EXCEPT !.at = q.at, !.old = m_fund]
      <3> HIDE DEF q
      <3> QED
        BY DEF CallRecords
    <2> QED
      BY <2>1, <2>2
  <1>7. ASSUME Pay(t) PROVE AccountInv'
    <2>1. /\ q.at = "pay" /\ q.op = "buy" /\ q \in CallRecords /\ q.amount \in Int
          /\ q.old \in Int /\ settled' = settled /\ m_position' = m_position
      BY <1>4, <1>7 DEF Pay
    <2>2. PaidIn(q) = 0 /\ CollectedIn(q) = 0 /\ q.at # "idle"
      BY <2>1 DEF PaidIn, PaidAt, CollectedIn, CollectedAt
    <2>3. CASE Exchange(t, q.old - q.amount, "test")
      <3>1. m_fund' = m_fund - q.amount /\ m_fund' \in Int /\ Proceed(t, "test")
        BY <1>1, <2>1, <2>3 DEF Exchange
      <3>2. call' = [call EXCEPT ![t] = [q EXCEPT !.at = "test", !.old = q.old]]
        BY <1>5, <2>1, <3>1
      <3>3. m_fund' = m_fund + PaidIn(q) - PaidAt(q, "test") - CollectedIn(q) + CollectedAt(q, "test")
        BY <1>1, <2>1, <2>2, <3>1 DEF PaidAt, CollectedAt
      <3> QED
        BY <1>1, <2>1, <2>2, <3>1, <3>2, <3>3, CallGoesOn
    <2>4. CASE Leave(t) /\ UNCHANGED m_fund
      <3>1. settled' = settled - PaidIn(q) + CollectedIn(q) /\ settled' \in Int
        BY <1>1, <2>1, <2>2
      <3> QED
        BY <1>1, <2>1, <2>2, <2>4, <3>1, CallReturns
    <2>5. CASE Reload(t)
      <3>1. /\ call' = [call EXCEPT ![t] = [q EXCEPT !.at = "pay", !.old = m_fund]]
            /\ m_fund' = m_fund
        BY <1>6, <2>1, <2>5
      <3>2. m_fund' = m_fund + PaidIn(q) - PaidAt(q, "pay") - CollectedIn(q) + CollectedAt(q, "pay")
            /\ m_fund' \in Int
        BY <1>1, <2>2, <3>1 DEF PaidAt, CollectedAt
      <3> QED
        BY <1>1, <2>1, <2>2, <3>1, <3>2, CallGoesOn
    <2> QED
      BY <1>7, <2>3, <2>4, <2>5 DEF Pay
  <1>8. ASSUME Collect(t) PROVE AccountInv'
    <2>1. /\ q.at = "collect" /\ q.op = "sell" /\ q \in CallRecords /\ q.amount \in Int
          /\ q.old \in Int /\ settled' = settled /\ m_position' = m_position
      BY <1>4, <1>8 DEF Collect
    <2>2. PaidIn(q) = 0 /\ CollectedIn(q) = 0 /\ q.at # "idle"
      BY <2>1 DEF PaidIn, PaidAt, CollectedIn, CollectedAt
    <2>3. CASE Exchange(t, q.old + q.amount, "sold")
      <3>1. m_fund' = m_fund + q.amount /\ m_fund' \in Int /\ Proceed(t, "sold")
        BY <1>1, <2>1, <2>3 DEF Exchange
      <3>2. call' = [call EXCEPT ![t] = [q EXCEPT !.at = "sold", !.old = q.old]]
        BY <1>5, <2>1, <3>1
      <3>3. m_fund' = m_fund + PaidIn(q) - PaidAt(q, "sold") - CollectedIn(q) + CollectedAt(q, "sold")
        BY <1>1, <2>1, <2>2, <3>1 DEF PaidAt, CollectedAt
      <3> QED
        BY <1>1, <2>1, <2>2, <3>1, <3>2, <3>3, CallGoesOn
    <2>4. CASE Reload(t)
      <3>1. /\ call' = [call EXCEPT ![t] = [q EXCEPT !.at = "collect", !.old = m_fund]]
            /\ m_fund' = m_fund
        BY <1>6, <2>1, <2>4
      <3>2. m_fund' = m_fund + PaidIn(q) - PaidAt(q, "collect") - CollectedIn(q) + CollectedAt(q, "collect")
            /\ m_fund' \in Int
        BY <1>1, <2>2, <3>1 DEF PaidAt, CollectedAt
      <3> QED
        BY <1>1, <2>1, <2>2, <3>1, <3>2, CallGoesOn
    <2> QED
      BY <1>8, <2>3, <2>4 DEF Collect
  <1>9. ASSUME Sold(t) PROVE AccountInv'
    <2>1. /\ q.at = "sold" /\ q \in CallRecords /\ q.amount \in Int /\ Leave(t)
          /\ settled' = settled + q.amount /\ m_position' = m_position /\ m_fund' = m_fund
      BY <1>4, <1>9 DEF Sold
    <2>2. PaidIn(q) = 0 /\ CollectedIn(q) = q.amount /\ q.at # "idle"
      BY <2>1 DEF PaidIn, PaidAt, CollectedIn, CollectedAt
    <2>3. settled' = settled - PaidIn(q) + CollectedIn(q) /\ settled' \in Int
      BY <1>1, <2>1, <2>2
    <2> QED
      BY <1>1, <2>1, <2>2, <2>3, CallReturns
  \* In the loop of the flag a purchase has been paid and a sale not collected.
  <1>10. ASSUME NEW l \in {"test", "body", "clear"}, q.at \in {"test", "body", "clear"},
                Proceed(t, l), m_fund' = m_fund, settled' = settled, m_position' \in Positions
         PROVE  AccountInv'
    <2>1. /\ q.at # "idle" /\ q \in CallRecords /\ q.old \in Int
          /\ CollectedIn(q) = 0 /\ PaidIn(q) \in Int
          /\ PaidAt(q, l) = PaidIn(q) /\ CollectedAt(q, l) = 0
      BY <1>2, <1>4, <1>10 DEF PaidIn, PaidAt, CollectedIn, CollectedAt
    <2>2. call' = [call EXCEPT ![t] = [q EXCEPT !.at = l, !.old = q.old]]
      BY <1>5, <1>10, <2>1
    <2>3. /\ m_fund' = m_fund + PaidIn(q) - PaidAt(q, l) - CollectedIn(q) + CollectedAt(q, l)
          /\ m_fund' \in Int
      BY <1>1, <1>10, <2>1
    <2> QED
      BY <1>10, <2>1, <2>2, <2>3, CallGoesOn
  <1>11. ASSUME TestAndSet(t) PROVE AccountInv'
    <2>1. q.at = "test" /\ UNCHANGED <<m_fund, m_position, settled>>
      BY <1>11 DEF TestAndSet
    <2>2. \E l \in {"test", "body", "clear"} : Proceed(t, l)
      BY <1>11 DEF TestAndSet
    <2> QED
      BY <1>1, <1>10, <2>1, <2>2
  <1>12. ASSUME Body(t) PROVE AccountInv'
    <2> DEFINE p == m_position[q.code]
               new == Moved(t, p)
    <2>1. /\ q.at = "body" /\ UNCHANGED <<m_fund, settled>> /\ new <= MaxPosition
          /\ q \in CallRecords /\ q.code \in Codes /\ q.volume \in Nat
          /\ q.op \in {"buy", "sell", "query"}
      BY <1>4, <1>12 DEF Body, CallRecords
    <2>2. p \in Nat /\ MaxPosition \in Nat
      BY <1>1, <2>1, AccountAssumption DEF Positions
    <2>3. new \in Int /\ (new < 0 => q.op = "sell")
      <3> HIDE DEF p
      <3> QED
        BY <2>1, <2>2 DEF Moved
    <2> HIDE DEF new
    <2>4. m_position' \in Positions
      <3>1. \/ m_position' \in Positions \/ m_position' = m_position
            \/ new \in 0 .. MaxPosition /\ m_position' = [m_position EXCEPT ![q.code] = new]
        BY <1>12, <2>1, <2>2, <2>3 DEF Body, new
      <3> QED
        BY <1>1, <3>1 DEF Positions
    <2>5. CASE new < 0
      <3>1. Leave(t) /\ PaidIn(q) = 0 /\ CollectedIn(q) = 0 /\ q.at # "idle"
        BY <1>12, <2>1, <2>3, <2>5 DEF Body, new, PaidIn, PaidAt, CollectedIn, CollectedAt
      <3>2. settled' = settled - PaidIn(q) + CollectedIn(q) /\ settled' \in Int
        BY <1>1, <2>1, <3>1
      <3> QED
        BY <2>1, <2>4, <3>1, <3>2, CallReturns
    <2>6. CASE ~(new < 0)
      <3>1. Proceed(t, "test")
        BY <1>12, <2>6 DEF Body, new
      <3> QED
        BY <1>10, <2>1, <2>4, <3>1
    <2> QED
      BY <2>5, <2>6
  <1>13. ASSUME Clear(t) PROVE AccountInv'
    <2>1. /\ q.at = "clear" /\ UNCHANGED <<m_fund, m_position>> /\ q \in CallRecords
          /\ q.amount \in Int /\ CollectedIn(q) = 0 /\ q.at # "idle"
          /\ PaidIn(q) = IF q.op = "buy" THEN q.amount ELSE 0
      BY <1>4, <1>13 DEF Clear, PaidIn, PaidAt, CollectedIn, CollectedAt
    <2>2. CASE q.op = "sell"
      <3>1. /\ call' = [call EXCEPT ![t] = [q EXCEPT !.at = "collect", !.old = m_fund]]
            /\ settled' = settled
        BY <1>13, <2>2 DEF Clear
      <3>2. m_fund' = m_fund + PaidIn(q) - PaidAt(q, "collect") - CollectedIn(q) + CollectedAt(q, "collect")
            /\ m_fund' \in Int
        BY <1>1, <2>1, <2>2 DEF PaidAt, CollectedAt
      <3> QED
        BY <1>1, <2>1, <2>2, <3>1, <3>2, CallGoesOn
    <2>3. CASE q.op # "sell"
      <3>1. Leave(t) /\ settled' = IF q.op = "buy" THEN settled - q.amount ELSE settled
        BY <1>13, <2>3 DEF Clear
      <3>2. settled' = settled - PaidIn(q) + CollectedIn(q) /\ settled' \in Int
        BY <1>1, <2>1, <3>1
      <3> QED
        BY <1>1, <2>1, <3>1, <3>2, CallReturns
    <2> QED
      BY <2>2, <2>3
  <1>14. ASSUME NEW op \in {"buy", "sell"}, NEW c \in Codes, NEW p \in Prices,
                NEW v \in Volumes, Begin(t, op, c, p * v, v)
         PROVE  AccountInv'
    <2>1. p \in Nat /\ v \in Nat /\ p * v \in Int
      BY AccountAssumption
    <2> QED
      BY <1>3, <1>14, <2>1
  <1> QED
    BY <1>3, <1>7, <1>8, <1>9, <1>11, <1>12, <1>13, <1>14 DEF TraderStep

\* Nothing has been moved and nothing settled when the account is new
\* (asset_def.h:5).
LEMMA AccountInvInit ==
  ASSUME AccountInit
  PROVE  AccountInv
  <1>1. AccountTypes /\ \A t \in Traders : call[t].at = "idle"
    BY AccountAssumption DEF AccountInit, AccountTypes, NoCall, Positions
  <1>2. Paid = {} /\ Collected = {}
    BY <1>1 DEF Paid, Collected
  <1>3. Sum(Amounts, {}) = 0 /\ IsFiniteSet({})
    BY FS_EmptySet, SumRemove
  <1> QED
    BY <1>1, <1>2, <1>3 DEF AccountInit, AccountInv

\* The fund is accounted for, whatever the number of threads, calls and stocks: the
\* flag, which does not keep the bodies apart, cannot touch it
\* (asset_def.h:10-17, 49-66).
THEOREM FundBalances == AccountSpec => []FundIsAccounted
  <1>1. AccountInv /\ [AccountNext]_acVars => AccountInv'
    <2>1. ASSUME AccountInv, UNCHANGED acVars PROVE AccountInv'
      BY <2>1 DEF AccountInv, AccountTypes, acVars, Paid, Collected, Amounts
    <2> QED
      BY <2>1, AccountInvStep DEF AccountNext
  <1>2. AccountInv => FundIsAccounted
    <2> SUFFICES ASSUME AccountInv PROVE FundIsAccounted
      OBVIOUS
    <2>1. /\ IsFiniteSet(Paid) /\ IsFiniteSet(Collected)
          /\ m_fund = settled - Sum(Amounts, Paid) + Sum(Amounts, Collected)
          /\ Paid \in SUBSET Traders /\ Collected \in SUBSET Traders
      BY DEF AccountInv, Paid, Collected
    <2>2. /\ MapThenSumSet(LAMBDA t : call[t].amount, Paid) = Sum(Amounts, Paid)
          /\ MapThenSumSet(LAMBDA t : call[t].amount, Collected) = Sum(Amounts, Collected)
      BY <2>1, SumOfCalls
    <2> QED
      BY <2>1, <2>2 DEF FundIsAccounted, Paid, Collected
  <1> QED
    BY <1>1, <1>2, AccountInvInit, PTL DEF AccountSpec

-----------------------------------------------------------------------------
(* The stable priority queues. *)

PqItems == [func : Nat, score : Scores]

PqTypes ==
  /\ thrown = FALSE /\ used \in Nat /\ m_size \in Int
  /\ inserted \in Seq(PqItems)
  /\ DOMAIN m_sorted_queue \subseteq Scores
  /\ m_sorted_queue \in [DOMAIN m_sorted_queue -> Seq(PqItems)]
  /\ m_array \in [Scores -> Seq(PqItems)]

\* The list and the deques are in the order of insertion.
InOrder(seq) ==
  /\ \A i \in 1 .. Len(seq) : seq[i].func <= used
  /\ \A i, j \in 1 .. Len(seq) : i < j => seq[i].func < seq[j].func

\* The map is the array without its empty deques.
MapIsArray ==
  /\ \A s \in Scores : s \in DOMAIN m_sorted_queue <=> m_array[s] # << >>
  /\ \A s \in DOMAIN m_sorted_queue : m_sorted_queue[s] = m_array[s]

\* The deque of s holds the items of the list that have the score s.
DequeOf(s) ==
  /\ InOrder(m_array[s])
  /\ \A i \in 1 .. Len(m_array[s]) :
       m_array[s][i].score = s /\ \E k \in 1 .. Len(inserted) : inserted[k] = m_array[s][i]
  /\ \A k \in 1 .. Len(inserted) :
       inserted[k].score = s => \E i \in 1 .. Len(m_array[s]) : m_array[s][i] = inserted[k]

Lengths == [s \in Scores |-> Len(m_array[s])]

PqInv ==
  /\ PqTypes /\ InOrder(inserted) /\ MapIsArray
  /\ \A s \in Scores : DequeOf(s)
  /\ m_size = Sum(Lengths, DOMAIN m_sorted_queue)

\* A set of scores is finite and has a greatest one.
LEMMA GreatestScore ==
  ASSUME NEW S \in SUBSET Scores
  PROVE  /\ IsFiniteSet(S)
         /\ S # {} => Max(S) \in S /\ \A s \in S : s <= Max(S)
  <1>1. Size \in Nat /\ S \in SUBSET (0 .. Size - 1)
    BY SizeAssumption DEF Scores
  <1>2. IsFiniteSet(S)
    <2>1. IsFiniteSet(0 .. Size - 1)
      BY <1>1, FS_Interval
    <2> QED
      BY <1>1, <2>1, FS_Subset
  <1>3. ASSUME S # {} PROVE \E s \in S : \A r \in S : s >= r
    <2> DEFINE D == {Size - s : s \in S}
    <2>1. D \in SUBSET Nat /\ D # {}
      <3>1. ASSUME NEW s \in S PROVE Size - s \in Nat
        <4>1. s \in 0 .. Size - 1
          BY <1>1
        <4> QED
          BY <1>1, <4>1
      <3>2. PICK s \in S : TRUE
        BY <1>3
      <3>3. Size - s \in D
        BY <3>2
      <3>4. \A d \in D : d \in Nat
        BY <3>1
      <3> QED
        BY <3>3, <3>4
    <2>2. PICK d \in D : \A e \in D : d <= e
      BY <2>1, LeastNatural
    <2>3. PICK s \in S : d = Size - s
      BY <2>2
    <2>4. \A r \in S : Size - s <= Size - r
      BY <2>2, <2>3
    <2>5. \A r \in S : s >= r
      BY <1>1, <2>4
    <2> QED
      BY <2>5
  <1>4. S # {} => Max(S) \in S /\ \A s \in S : Max(S) >= s
    BY <1>3 DEF Max
  <1> QED
    BY <1>1, <1>2, <1>4

\* The first to come out is the head of the deque of the greatest score, which
\* both pops take (thread_pool.h:301-358).
LEMMA FirstOutIsHead ==
  ASSUME PqInv, DOMAIN m_sorted_queue # {} \/ inserted # << >>
  PROVE  /\ MapBegin \in DOMAIN m_sorted_queue /\ MapBegin \in Scores /\ ArrayLast = MapBegin
         /\ m_array[MapBegin] # << >>
         /\ Len(m_array[MapBegin]) > 0
         /\ FirstOut \in 1 .. Len(inserted)
         /\ inserted[FirstOut] = m_array[MapBegin][1]
  <1> DEFINE M == MapBegin
  <1>1. /\ PqTypes /\ MapIsArray /\ \A s \in Scores : DequeOf(s)
        /\ InOrder(inserted) /\ inserted \in Seq(PqItems) /\ m_array \in [Scores -> Seq(PqItems)]
    BY DEF PqInv, PqTypes
  <1>2. DOMAIN inserted = 1 .. Len(inserted) /\ Len(inserted) \in Nat
        /\ \A k \in 1 .. Len(inserted) : inserted[k] \in PqItems
    BY <1>1, LenProperties, ElementOfSeq
  <1>3. \A s \in Scores : Len(m_array[s]) \in Nat /\ (m_array[s] = << >> => Len(m_array[s]) = 0)
                          /\ (m_array[s] # << >> => Len(m_array[s]) > 0)
    <2> SUFFICES ASSUME NEW s \in Scores
                 PROVE  Len(m_array[s]) \in Nat /\ (m_array[s] = << >> => Len(m_array[s]) = 0)
                          /\ (m_array[s] # << >> => Len(m_array[s]) > 0)
      OBVIOUS
    <2>1. m_array[s] \in Seq(PqItems)
      BY <1>1
    <2> QED
      BY <2>1, LenProperties, EmptySeq
  \* An item of the list is in a deque, so that its deque is in the map.
  <1>4. \A k \in 1 .. Len(inserted) : /\ inserted[k].score \in DOMAIN m_sorted_queue
                                      /\ inserted[k].score \in Scores
                                      /\ inserted[k].func \in Nat
    <2> SUFFICES ASSUME NEW k \in 1 .. Len(inserted)
                 PROVE  /\ inserted[k].score \in DOMAIN m_sorted_queue
                        /\ inserted[k].score \in Scores /\ inserted[k].func \in Nat
      OBVIOUS
    <2>1. inserted[k].score \in Scores /\ inserted[k].func \in Nat
      BY <1>2 DEF PqItems
    <2>2. \E i \in 1 .. Len(m_array[inserted[k].score]) : TRUE
      BY <1>1, <2>1 DEF DequeOf
    <2>3. m_array[inserted[k].score] # << >>
      BY <1>3, <2>1, <2>2
    <2> QED
      BY <1>1, <2>1, <2>3 DEF MapIsArray
  <1>5. DOMAIN m_sorted_queue # {} /\ DOMAIN m_sorted_queue \in SUBSET Scores
    <2>1. inserted # << >> => 1 \in 1 .. Len(inserted)
      BY <1>1, <1>2, EmptySeq
    <2> QED
      BY <1>1, <1>4, <2>1 DEF PqTypes
  <1>6. /\ M \in DOMAIN m_sorted_queue /\ M \in Scores
        /\ \A s \in DOMAIN m_sorted_queue : s <= M
    BY <1>5, GreatestScore DEF MapBegin
  <1>7. {s \in Scores : m_array[s] # << >>} = DOMAIN m_sorted_queue
    BY <1>1, <1>5 DEF MapIsArray
  <1>8. ArrayLast = M
    BY <1>7 DEF ArrayLast, MapBegin
  <1>9. m_array[M] # << >> /\ Len(m_array[M]) > 0 /\ 1 \in 1 .. Len(m_array[M])
        /\ Len(m_array[M]) \in Nat
    BY <1>1, <1>3, <1>6 DEF MapIsArray
  <1> DEFINE h == m_array[M][1]
  <1>10. PICK k \in 1 .. Len(inserted) : inserted[k] = h
    BY <1>1, <1>6, <1>9 DEF DequeOf
  <1>11. h.score = M /\ \A i \in 1 .. Len(m_array[M]) : i > 1 => h.func < m_array[M][i].func
    BY <1>1, <1>6, <1>9 DEF DequeOf, InOrder
  <1> DEFINE First(f) == \A j \in DOMAIN inserted :
                           \/ inserted[j].score < inserted[f].score
                           \/ inserted[j].score = inserted[f].score /\ j >= f
  <1>12. First(k)
    <2> SUFFICES ASSUME NEW j \in 1 .. Len(inserted), ~(inserted[j].score < M)
                 PROVE  inserted[j].score = M /\ j >= k
      BY <1>2, <1>10, <1>11
    <2>1. inserted[j].score = M
      BY <1>4, <1>6, SizeAssumption DEF Scores
    <2>2. PICK i \in 1 .. Len(m_array[M]) : m_array[M][i] = inserted[j]
      BY <1>1, <1>6, <2>1 DEF DequeOf
    <2>3. inserted[j] = h \/ inserted[k].func < inserted[j].func
      BY <1>9, <1>10, <1>11, <2>2
    <2>4. j < k => inserted[j].func < inserted[k].func
      BY <1>1 DEF InOrder
    <2>5. ~(j < k)
      BY <1>4, <1>10, <2>3, <2>4
    <2> QED
      BY <2>1, <2>5
  <1>13. FirstOut = k
    <2>1. FirstOut \in DOMAIN inserted /\ First(FirstOut)
      <3> HIDE DEF h
      <3> QED
        BY <1>2, <1>12 DEF FirstOut
    <2> DEFINE f == FirstOut
    <2> HIDE DEF f
    <2>2. f \in 1 .. Len(inserted) /\ First(f)
      BY <1>2, <2>1 DEF f
    <2>3. inserted[f].score \in Int /\ inserted[k].score \in Int
      BY <1>4, <2>2, SizeAssumption DEF Scores
    <2>4. /\ \/ inserted[k].score < inserted[f].score
             \/ inserted[k].score = inserted[f].score /\ k >= f
          /\ \/ inserted[f].score < inserted[k].score
             \/ inserted[f].score = inserted[k].score /\ f >= k
      BY <1>2, <1>12, <2>2
    <2>5. f = k
      BY <2>2, <2>3, <2>4
    <2> QED
      BY <2>5 DEF f
  <1> QED
    BY <1>6, <1>8, <1>9, <1>10, <1>13

\* The list without its k-th item.
LEMMA WithoutItem ==
  ASSUME NEW T, NEW seq \in Seq(T), NEW k \in 1 .. Len(seq)
  PROVE  /\ Without(seq, k) \in Seq(T) /\ Len(Without(seq, k)) = Len(seq) - 1
         /\ \A i \in 1 .. Len(seq) - 1 :
              Without(seq, k)[i] = IF i < k THEN seq[i] ELSE seq[i + 1]
  <1> DEFINE a == SubSeq(seq, 1, k - 1)
             b == SubSeq(seq, k + 1, Len(seq))
  <1>1. Len(seq) \in Nat /\ \A i \in 1 .. Len(seq) : seq[i] \in T
    BY LenProperties, ElementOfSeq
  <1>2. /\ a \in Seq(T) /\ Len(a) = k - 1 /\ \A i \in 1 .. k - 1 : a[i] = seq[i]
    <2>1. /\ a \in Seq(T) /\ Len(a) = (IF 1 <= k - 1 THEN (k - 1) - 1 + 1 ELSE 0)
          /\ \A i \in 1 .. (k - 1) - 1 + 1 : a[i] = seq[1 + i - 1]
      <3>1. 1 \in Int /\ k - 1 \in Int /\ \A i \in 1 .. k - 1 : seq[i] \in T
        BY <1>1
      <3> HIDE DEF a
      <3> QED
        BY <3>1, SubSeqProperties DEF a
    <2> HIDE DEF a
    <2> QED
      BY <1>1, <2>1
  <1>3. /\ b \in Seq(T) /\ Len(b) = Len(seq) - k
        /\ \A i \in 1 .. Len(seq) - k : b[i] = seq[k + i]
    <2>1. /\ b \in Seq(T)
          /\ Len(b) = (IF k + 1 <= Len(seq) THEN Len(seq) - (k + 1) + 1 ELSE 0)
          /\ \A i \in 1 .. Len(seq) - (k + 1) + 1 : b[i] = seq[(k + 1) + i - 1]
      <3>1. k + 1 \in Int /\ Len(seq) \in Int /\ \A i \in k + 1 .. Len(seq) : seq[i] \in T
        BY <1>1
      <3> HIDE DEF b
      <3> QED
        BY <3>1, SubSeqProperties DEF b
    <2> HIDE DEF b
    <2>2. \A i \in 1 .. Len(seq) - k : (k + 1) + i - 1 = k + i /\ i \in 1 .. Len(seq) - (k + 1) + 1
      BY <1>1
    <2> QED
      BY <1>1, <2>1, <2>2
  <1> HIDE DEF a, b
  <1>4. /\ a \o b \in Seq(T) /\ Len(a \o b) = Len(a) + Len(b)
        /\ \A i \in 1 .. Len(a) + Len(b) :
             (a \o b)[i] = IF i <= Len(a) THEN a[i] ELSE b[i - Len(a)]
    BY <1>2, <1>3, ConcatProperties
  <1>5. ASSUME NEW i \in 1 .. Len(seq) - 1
        PROVE  (a \o b)[i] = IF i < k THEN seq[i] ELSE seq[i + 1]
    <2>1. i \in 1 .. Len(a) + Len(b)
      BY <1>1, <1>2, <1>3
    <2>2. CASE i < k
      BY <1>1, <1>2, <1>4, <2>1, <2>2
    <2>3. CASE ~(i < k)
      <3>1. i - Len(a) \in 1 .. Len(seq) - k /\ k + (i - Len(a)) = i + 1 /\ ~(i <= Len(a))
        BY <1>1, <1>2, <2>3
      <3> QED
        BY <1>3, <1>4, <2>1, <2>3, <3>1
    <2> QED
      BY <2>2, <2>3
  <1>6. Without(seq, k) = a \o b
    BY DEF Without, a, b
  <1> QED
    BY <1>1, <1>2, <1>3, <1>4, <1>5, <1>6

\* What Append and Tail make of a sequence.
LEMMA AppendItem ==
  ASSUME NEW T, NEW seq \in Seq(T), NEW x \in T
  PROVE  /\ Append(seq, x) \in Seq(T) /\ Len(Append(seq, x)) = Len(seq) + 1
         /\ Append(seq, x) # << >> /\ Append(seq, x)[Len(seq) + 1] = x
         /\ \A i \in 1 .. Len(seq) : Append(seq, x)[i] = seq[i]
  BY AppendProperties, LenProperties

\* zinsert puts the new item behind every other (thread_pool.h:282-299, 369-380).
LEMMA PqInvInsert ==
  ASSUME PqInv, NEW s \in Scores, Zinsert(s)
  PROVE  PqInv'
  <1> DEFINE x == Item(used + 1, s)
             q == m_array[s]
  <1>1. /\ PqTypes /\ MapIsArray /\ InOrder(inserted) /\ \A r \in Scores : DequeOf(r)
        /\ inserted \in Seq(PqItems) /\ q \in Seq(PqItems) /\ used \in Nat
        /\ m_array \in [Scores -> Seq(PqItems)] /\ m_size \in Int
        /\ m_sorted_queue \in [DOMAIN m_sorted_queue -> Seq(PqItems)]
        /\ DOMAIN m_sorted_queue \in SUBSET Scores
    BY DEF PqInv, PqTypes
  <1>2. x \in PqItems /\ x.func = used + 1 /\ x.score = s
    BY <1>1 DEF PqItems, Item
  <1>3. /\ used' = used + 1 /\ m_size' = m_size + 1 /\ thrown' = FALSE
        /\ inserted' = Append(inserted, x) /\ m_array' = [m_array EXCEPT ![s] = Append(q, x)]
        /\ m_sorted_queue' = MapEmplace(x)
    BY <1>1, <1>2 DEF Zinsert, ArrayEmplace, PqTypes
  <1> HIDE DEF x
  <1>4. /\ Append(q, x) \in Seq(PqItems) /\ Len(Append(q, x)) = Len(q) + 1
        /\ Append(q, x) # << >> /\ Append(q, x)[Len(q) + 1] = x /\ Len(q) \in Nat
        /\ \A i \in 1 .. Len(q) : Append(q, x)[i] = q[i]
    BY <1>1, <1>2, AppendItem, LenProperties
  <1>5. /\ inserted' \in Seq(PqItems) /\ Len(inserted') = Len(inserted) + 1
        /\ inserted'[Len(inserted) + 1] = x /\ Len(inserted) \in Nat
        /\ \A i \in 1 .. Len(inserted) : inserted'[i] = inserted[i]
    BY <1>1, <1>2, <1>3, AppendItem, LenProperties
  <1>6. /\ m_array' \in [Scores -> Seq(PqItems)] /\ m_array'[s] = Append(q, x)
        /\ \A r \in Scores \ {s} : m_array'[r] = m_array[r]
    BY <1>1, <1>3, <1>4
  <1>7. /\ DOMAIN m_sorted_queue' = DOMAIN m_sorted_queue \cup {s}
        /\ m_sorted_queue'[s] = Append(q, x)
        /\ \A r \in DOMAIN m_sorted_queue \ {s} : m_sorted_queue'[r] = m_sorted_queue[r]
        /\ m_sorted_queue' = [r \in DOMAIN m_sorted_queue' |-> m_sorted_queue'[r]]
    <2>1. CASE s \in DOMAIN m_sorted_queue
      <3>1. m_sorted_queue[s] = q
        BY <1>1, <2>1 DEF MapIsArray
      <3>2. m_sorted_queue' = [m_sorted_queue EXCEPT ![s] = Append(q, x)]
        BY <1>2, <1>3, <2>1, <3>1 DEF MapEmplace
      <3> QED
        BY <1>1, <2>1, <3>2
    <2>2. CASE s \notin DOMAIN m_sorted_queue
      <3>1. q = << >>
        BY <1>1, <2>2 DEF MapIsArray
      <3>2. Append(q, x) = <<x>>
        BY <3>1
      <3>3. m_sorted_queue' = [r \in DOMAIN m_sorted_queue \cup {s} |->
                                 IF r = s THEN <<x>> ELSE m_sorted_queue[r]]
        BY <1>2, <1>3, <2>2 DEF MapEmplace
      <3> QED
        BY <2>2, <3>2, <3>3
    <2> QED
      BY <2>1, <2>2
  <1>8. PqTypes'
    <2>1. DOMAIN m_sorted_queue' \subseteq Scores
      BY <1>1, <1>7
    <2>2. \A r \in DOMAIN m_sorted_queue' : m_sorted_queue'[r] \in Seq(PqItems)
      BY <1>1, <1>4, <1>7
    <2>3. m_sorted_queue' \in [DOMAIN m_sorted_queue' -> Seq(PqItems)]
      BY <1>7, <2>2
    <2> QED
      BY <1>1, <1>3, <1>5, <1>6, <2>1, <2>3 DEF PqTypes
  \* The new item has the greatest name.
  <1>9. ASSUME NEW seq \in Seq(PqItems), InOrder(seq), NEW new \in Seq(PqItems),
               Len(new) = Len(seq) + 1, new[Len(seq) + 1] = x,
               \A i \in 1 .. Len(seq) : new[i] = seq[i]
        PROVE  /\ \A i \in 1 .. Len(new) : new[i].func <= used'
               /\ \A i, j \in 1 .. Len(new) : i < j => new[i].func < new[j].func
    <2>1. Len(seq) \in Nat /\ \A i \in 1 .. Len(seq) : seq[i].func \in Nat /\ seq[i].func <= used
      <3>1. Len(seq) \in Nat /\ \A i \in 1 .. Len(seq) : seq[i] \in PqItems
        BY LenProperties, ElementOfSeq
      <3>2. \A y \in PqItems : y.func \in Nat
        BY DEF PqItems
      <3> QED
        BY <1>9, <3>1, <3>2 DEF InOrder
    <2>2. ASSUME NEW i \in 1 .. Len(new) PROVE new[i].func <= used'
      <3>1. CASE i \in 1 .. Len(seq)
        <4>1. new[i] = seq[i] /\ seq[i].func \in Nat /\ seq[i].func <= used
          BY <1>9, <2>1, <3>1
        <4> QED
          BY <1>1, <1>3, <4>1
      <3>2. CASE i = Len(seq) + 1
        <4>1. new[i].func = used + 1
          BY <1>2, <1>9, <3>2
        <4> QED
          BY <1>1, <1>3, <4>1
      <3> QED
        BY <1>9, <2>1, <3>1, <3>2
    <2>3. ASSUME NEW i \in 1 .. Len(new), NEW j \in 1 .. Len(new), i < j
          PROVE  new[i].func < new[j].func
      <3>1. i \in 1 .. Len(seq)
        BY <1>9, <2>1, <2>3
      <3>2. CASE j \in 1 .. Len(seq)
        BY <1>9, <2>3, <3>1, <3>2 DEF InOrder
      <3>3. CASE j = Len(seq) + 1
        BY <1>1, <1>2, <1>9, <2>1, <3>1, <3>3
      <3> QED
        BY <1>9, <2>1, <3>2, <3>3
    <2> QED
      BY <2>2, <2>3
  <1>10. InOrder(inserted)'
    BY <1>1, <1>5, <1>9 DEF InOrder
  <1>11. MapIsArray'
    <2>1. \A r \in Scores : r \in DOMAIN m_sorted_queue' <=> m_array'[r] # << >>
      BY <1>1, <1>4, <1>6, <1>7 DEF MapIsArray
    <2>2. \A r \in DOMAIN m_sorted_queue' : m_sorted_queue'[r] = m_array'[r]
      BY <1>1, <1>6, <1>7 DEF MapIsArray
    <2> QED
      BY <2>1, <2>2 DEF MapIsArray
  <1>12. ASSUME NEW r \in Scores PROVE DequeOf(r)'
    <2>1. /\ DequeOf(r) /\ m_array[r] \in Seq(PqItems) /\ Len(m_array[r]) \in Nat
          /\ \A i \in 1 .. Len(m_array[r]) : m_array[r][i].func \in Nat
      <3>1. DequeOf(r) /\ m_array[r] \in Seq(PqItems)
        BY <1>1
      <3>2. /\ Len(m_array[r]) \in Nat
            /\ \A i \in 1 .. Len(m_array[r]) : m_array[r][i] \in PqItems
        BY <3>1, LenProperties, ElementOfSeq
      <3>3. \A y \in PqItems : y.func \in Nat
        BY DEF PqItems
      <3> QED
        BY <3>1, <3>2, <3>3
    <2>2. CASE r = s
      <3>1. m_array'[r] = Append(q, x) /\ q = m_array[r] /\ Len(m_array'[r]) = Len(q) + 1
        BY <1>4, <1>6, <2>2
      <3>2. InOrder(m_array[r])'
        <4>1. InOrder(q) /\ q \in Seq(PqItems)
          BY <2>1, <3>1 DEF DequeOf
        <4>2. /\ \A i \in 1 .. Len(Append(q, x)) : Append(q, x)[i].func <= used'
              /\ \A i, j \in 1 .. Len(Append(q, x)) :
                   i < j => Append(q, x)[i].func < Append(q, x)[j].func
          BY <1>4, <1>9, <4>1
        <4> QED
          BY <3>1, <4>2 DEF InOrder
      <3>3. ASSUME NEW i \in 1 .. Len(m_array'[r])
            PROVE  /\ m_array'[r][i].score = r
                   /\ \E k \in 1 .. Len(inserted') : inserted'[k] = m_array'[r][i]
        <4>1. CASE i \in 1 .. Len(q)
          <5>1. m_array'[r][i] = q[i]
            BY <1>4, <3>1, <4>1
          <5>2. PICK k \in 1 .. Len(inserted) : inserted[k] = q[i] /\ q[i].score = r
            BY <2>1, <3>1, <4>1 DEF DequeOf
          <5>3. k \in 1 .. Len(inserted') /\ inserted'[k] = m_array'[r][i]
            BY <1>5, <5>1, <5>2
          <5> QED
            BY <5>1, <5>2, <5>3
        <4>2. CASE i = Len(q) + 1
          <5>1. m_array'[r][i] = x
            BY <1>4, <3>1, <4>2
          <5>2. Len(inserted) + 1 \in 1 .. Len(inserted')
            BY <1>5
          <5> QED
            BY <1>2, <1>5, <2>2, <5>1, <5>2
        <4> QED
          BY <1>4, <3>1, <4>1, <4>2
      <3>4. ASSUME NEW k \in 1 .. Len(inserted'), inserted'[k].score = r
            PROVE  \E i \in 1 .. Len(m_array'[r]) : m_array'[r][i] = inserted'[k]
        <4>1. CASE k \in 1 .. Len(inserted)
          <5>1. PICK i \in 1 .. Len(q) : q[i] = inserted[k]
            BY <1>5, <2>1, <3>1, <3>4, <4>1 DEF DequeOf
          <5>2. i \in 1 .. Len(m_array'[r]) /\ m_array'[r][i] = q[i]
            BY <1>4, <3>1
          <5> QED
            BY <1>5, <4>1, <5>1, <5>2
        <4>2. CASE k = Len(inserted) + 1
          <5>1. Len(q) + 1 \in 1 .. Len(m_array'[r]) /\ m_array'[r][Len(q) + 1] = x
            BY <1>4, <3>1
          <5> QED
            BY <1>5, <4>2, <5>1
        <4> QED
          BY <1>5, <4>1, <4>2
      <3> QED
        BY <3>2, <3>3, <3>4 DEF DequeOf
    <2>3. CASE r # s
      <3>1. m_array'[r] = m_array[r]
        BY <1>6, <2>3
      <3>2. InOrder(m_array[r])'
        <4>1. InOrder(m_array[r])
          BY <2>1 DEF DequeOf
        <4>2. \A i \in 1 .. Len(m_array[r]) : m_array[r][i].func <= used'
          BY <1>1, <1>3, <2>1, <4>1 DEF InOrder
        <4> QED
          BY <3>1, <4>1, <4>2 DEF InOrder
      <3>3. ASSUME NEW i \in 1 .. Len(m_array'[r])
            PROVE  /\ m_array'[r][i].score = r
                   /\ \E k \in 1 .. Len(inserted') : inserted'[k] = m_array'[r][i]
        <4>1. PICK k \in 1 .. Len(inserted) :
                inserted[k] = m_array[r][i] /\ m_array[r][i].score = r
          BY <2>1, <3>1 DEF DequeOf
        <4>2. k \in 1 .. Len(inserted') /\ inserted'[k] = m_array'[r][i]
          BY <1>5, <3>1, <4>1
        <4> QED
          BY <3>1, <4>1, <4>2
      <3>4. ASSUME NEW k \in 1 .. Len(inserted'), inserted'[k].score = r
            PROVE  \E i \in 1 .. Len(m_array'[r]) : m_array'[r][i] = inserted'[k]
        <4>1. k \in 1 .. Len(inserted) /\ inserted'[k] = inserted[k]
          BY <1>2, <1>5, <2>3, <3>4
        <4> QED
          BY <2>1, <3>1, <3>4, <4>1 DEF DequeOf
      <3> QED
        BY <3>2, <3>3, <3>4 DEF DequeOf
    <2> QED
      BY <2>2, <2>3
  <1>13. (m_size = Sum(Lengths, DOMAIN m_sorted_queue))'
    <2> DEFINE D == DOMAIN m_sorted_queue
    <2>1. /\ IsFiniteSet(D) /\ D \ {s} = D' \ {s} /\ s \in D'
          /\ \A r \in D : Lengths[r] \in Int
          /\ \A r \in D \ {s} : Lengths'[r] = Lengths[r]
      BY <1>1, <1>6, <1>7, GreatestScore, LenProperties DEF Lengths
    <2>2. Lengths'[s] = Len(q) + 1 /\ (s \in D => Lengths[s] = Len(q))
      BY <1>4, <1>6 DEF Lengths
    <2>3. s \notin D => Len(q) = 0
      BY <1>1, EmptySeq DEF MapIsArray
    <2>4. /\ Sum(Lengths, D) \in Int
          /\ Sum(Lengths', D') = Sum(Lengths, D) - (IF s \in D THEN Lengths[s] ELSE 0)
                                                 + (IF s \in D' THEN Lengths'[s] ELSE 0)
      <3>1. s \in D' => Lengths'[s] \in Int
        BY <1>4, <2>2
      <3> HIDE DEF D
      <3> QED
        BY <2>1, <3>1, SumStep
    <2>5. Sum(Lengths', D') = Sum(Lengths, D) + 1
      <3> HIDE DEF D
      <3> QED
        BY <1>4, <2>1, <2>2, <2>3, <2>4
    <2> QED
      BY <1>3, <2>4, <2>5 DEF PqInv
  <1> QED
    BY <1>8, <1>10, <1>11, <1>12, <1>13 DEF PqInv

\* block_pop_item takes the same item from the map, the array and the list
\* (thread_pool.h:318-341, 345-367).
LEMMA PqInvPop ==
  ASSUME PqInv, PopItem
  PROVE  PqInv'
  <1> DEFINE M == MapBegin
             q == m_array[M]
             f == FirstOut
             D == DOMAIN m_sorted_queue
  <1>1. /\ PqTypes /\ MapIsArray /\ InOrder(inserted) /\ \A r \in Scores : DequeOf(r)
        /\ inserted \in Seq(PqItems) /\ used \in Nat /\ m_size = Sum(Lengths, D)
        /\ m_array \in [Scores -> Seq(PqItems)] /\ m_size \in Int
        /\ m_sorted_queue \in [D -> Seq(PqItems)] /\ D \in SUBSET Scores
    BY DEF PqInv, PqTypes
  \* The counter is right: no pop meets an empty map.
  <1>2. D # {}
    <2>1. Sum(Lengths, {}) = 0
      BY FS_EmptySet, SumRemove
    <2> QED
      BY <1>1, <2>1 DEF PopItem
  <1>3. /\ M \in D /\ M \in Scores /\ ArrayLast = M /\ q # << >> /\ Len(q) > 0
        /\ f \in 1 .. Len(inserted) /\ inserted[f] = q[1]
    BY <1>2, FirstOutIsHead
  <1>4. /\ used' = used /\ thrown' = FALSE /\ m_size' = m_size - 1
        /\ inserted' = Without(inserted, f) /\ m_array' = [m_array EXCEPT ![M] = Tail(q)]
        /\ m_sorted_queue' = MapPop /\ m_sorted_queue[M] = q
    BY <1>1, <1>2, <1>3 DEF PopItem, ArrayPop, PqTypes, MapIsArray
  <1>5. MapPop = IF Len(q) > 1 THEN [m_sorted_queue EXCEPT ![M] = Tail(q)]
                               ELSE [s \in D \ {M} |-> m_sorted_queue[s]]
    BY <1>4 DEF MapPop
  <1> HIDE DEF f, M, D
  <1>6. /\ q \in Seq(PqItems) /\ Tail(q) \in Seq(PqItems) /\ Len(Tail(q)) = Len(q) - 1
        /\ Len(q) \in Nat /\ \A i \in 1 .. Len(Tail(q)) : Tail(q)[i] = q[i + 1]
    BY <1>1, <1>3, HeadTailProperties, LenProperties
  <1> DEFINE n == Len(q)
  <1>len. /\ n \in Nat /\ n > 0 /\ (n > 1 \/ n = 1) /\ n - 1 \in Int /\ (n - 1 = 0 <=> n = 1)
         /\ ~(1 > 1)
    <2>1. n \in Nat /\ n > 0
      BY <1>3, <1>6
    <2> HIDE DEF n
    <2> QED
      BY <2>1
  <1>7. /\ inserted' \in Seq(PqItems) /\ Len(inserted') = Len(inserted) - 1
        /\ Len(inserted) \in Nat
        /\ \A i \in 1 .. Len(inserted') :
             inserted'[i] = IF i < f THEN inserted[i] ELSE inserted[i + 1]
    <2>1. /\ Without(inserted, f) \in Seq(PqItems)
          /\ Len(Without(inserted, f)) = Len(inserted) - 1
          /\ \A i \in 1 .. Len(inserted) - 1 :
               Without(inserted, f)[i] = IF i < f THEN inserted[i] ELSE inserted[i + 1]
      BY <1>1, <1>3, WithoutItem
    <2> QED
      BY <1>1, <1>4, <2>1, LenProperties
  <1>8. /\ m_array' \in [Scores -> Seq(PqItems)] /\ m_array'[M] = Tail(q)
        /\ \A r \in Scores \ {M} : m_array'[r] = m_array[r]
    BY <1>1, <1>3, <1>4, <1>6
  <1>9. /\ D' = IF Len(q) > 1 THEN D ELSE D \ {M}
        /\ Len(q) > 1 => m_sorted_queue'[M] = Tail(q)
        /\ \A r \in D \ {M} : m_sorted_queue'[r] = m_sorted_queue[r]
        /\ m_sorted_queue' = [r \in D' |-> m_sorted_queue'[r]]
    <2>1. CASE Len(q) > 1
      <3>1. m_sorted_queue' = [m_sorted_queue EXCEPT ![M] = Tail(q)]
        BY <1>4, <1>5, <2>1
      <3>2. DOMAIN m_sorted_queue = D
        BY DEF D
      <3>3. D' = D
        BY <1>1, <3>1, <3>2 DEF D
      <3> QED
        BY <1>1, <1>3, <2>1, <3>1, <3>3
    <2>2. CASE ~(Len(q) > 1)
      <3>1. m_sorted_queue' = [s \in D \ {M} |-> m_sorted_queue[s]]
        BY <1>4, <1>5, <2>2
      <3>2. D' = D \ {M}
        BY <3>1 DEF D
      <3> QED
        BY <2>2, <3>1, <3>2
    <2> QED
      BY <2>1, <2>2
  <1>10. PqTypes'
    <2>1. D' \subseteq Scores /\ \A r \in D' : m_sorted_queue'[r] \in Seq(PqItems)
      BY <1>1, <1>6, <1>9
    <2>2. m_sorted_queue' \in [D' -> Seq(PqItems)]
      BY <1>9, <2>1
    <2> QED
      BY <1>1, <1>4, <1>7, <1>8, <2>1, <2>2 DEF PqTypes, D
  \* The items of a sequence that is in order are distinct.
  <1>11. \A i \in 1 .. Len(inserted) : inserted[i].func \in Nat
    <2>1. \A i \in 1 .. Len(inserted) : inserted[i] \in PqItems
      BY <1>1, ElementOfSeq
    <2> QED
      BY <2>1 DEF PqItems
  <1>12. /\ \A i \in 1 .. Len(inserted) : inserted[i].func <= used
         /\ \A i, j \in 1 .. Len(inserted) : i < j => inserted[i].func < inserted[j].func
         /\ \A i \in 1 .. Len(q) : q[i].func <= used
         /\ \A i, j \in 1 .. Len(q) : i < j => q[i].func < q[j].func
    BY <1>1, <1>3 DEF InOrder, DequeOf
  <1>13. InOrder(inserted)'
    <2>1. ASSUME NEW i \in 1 .. Len(inserted') PROVE inserted'[i].func <= used'
      <3>1. i \in 1 .. Len(inserted) /\ i + 1 \in 1 .. Len(inserted)
        BY <1>7
      <3> QED
        BY <1>4, <1>7, <1>12, <3>1
    <2>2. ASSUME NEW i \in 1 .. Len(inserted'), NEW j \in 1 .. Len(inserted'), i < j
          PROVE  inserted'[i].func < inserted'[j].func
      <3> DEFINE a == IF i < f THEN i ELSE i + 1
                 b == IF j < f THEN j ELSE j + 1
      <3>1. /\ a \in 1 .. Len(inserted) /\ b \in 1 .. Len(inserted) /\ a < b
            /\ inserted'[i] = inserted[a] /\ inserted'[j] = inserted[b]
        BY <1>3, <1>7, <2>2
      <3> HIDE DEF a, b
      <3> QED
        BY <1>12, <3>1
    <2> QED
      BY <2>1, <2>2 DEF InOrder
  <1>14. MapIsArray'
    <2>1. Len(q) > 1 <=> Tail(q) # << >>
      <3>1. Tail(q) # << >> => Len(Tail(q)) \in Nat \ {0}
        BY <1>6, EmptySeq
      <3>2. Tail(q) = << >> => Len(Tail(q)) = 0
        BY EmptySeq
      <3> QED
        BY <1>6, <1>len, <3>1, <3>2
    <2>2. /\ \A r \in Scores : r \in D <=> m_array[r] # << >>
          /\ \A r \in D : m_sorted_queue[r] = m_array[r]
      BY <1>1 DEF MapIsArray, D
    <2>3. ASSUME NEW r \in Scores PROVE r \in D' <=> m_array'[r] # << >>
      BY <1>3, <1>8, <1>9, <2>1, <2>2
    <2>4. ASSUME NEW r \in D' PROVE m_sorted_queue'[r] = m_array'[r]
      BY <1>1, <1>8, <1>9, <2>2
    <2> QED
      BY <2>3, <2>4 DEF MapIsArray, D
  \* Every other item of the list stays there.
  <1>15. \A k \in 1 .. Len(inserted) :
           k # f => \E j \in 1 .. Len(inserted') : inserted'[j] = inserted[k]
    <2> SUFFICES ASSUME NEW k \in 1 .. Len(inserted), k # f
                 PROVE  \E j \in 1 .. Len(inserted') : inserted'[j] = inserted[k]
      OBVIOUS
    <2>1. CASE k < f
      <3>1. k \in 1 .. Len(inserted') /\ inserted'[k] = inserted[k]
        BY <1>3, <1>7, <2>1
      <3> QED
        BY <3>1
    <2>2. CASE k > f
      <3>1. k - 1 \in 1 .. Len(inserted') /\ ~(k - 1 < f) /\ (k - 1) + 1 = k
        BY <1>3, <1>7, <2>2
      <3>2. inserted'[k - 1] = inserted[k]
        BY <1>7, <3>1
      <3> QED
        BY <3>1, <3>2
    <2> QED
      BY <1>3, <2>1, <2>2
  \* And no other comes to it.
  <1>16. \A j \in 1 .. Len(inserted') :
           \E k \in 1 .. Len(inserted) : k # f /\ inserted'[j] = inserted[k]
    <2> SUFFICES ASSUME NEW j \in 1 .. Len(inserted')
                 PROVE  \E k \in 1 .. Len(inserted) : k # f /\ inserted'[j] = inserted[k]
      OBVIOUS
    <2>1. CASE j < f
      <3>1. j \in 1 .. Len(inserted) /\ inserted'[j] = inserted[j]
        BY <1>7, <2>1
      <3> QED
        BY <1>3, <2>1, <3>1
    <2>2. CASE ~(j < f)
      <3>1. j + 1 \in 1 .. Len(inserted) /\ inserted'[j] = inserted[j + 1] /\ j + 1 # f
        BY <1>3, <1>7, <2>2
      <3> QED
        BY <3>1
    <2> QED
      BY <2>1, <2>2
  <1>17. ASSUME NEW r \in Scores PROVE DequeOf(r)'
    <2>1. CASE r = M
      <3>1. m_array'[r] = Tail(q) /\ DequeOf(M) /\ 1 \in 1 .. Len(q)
        BY <1>1, <1>3, <1>6, <1>8, <2>1
      <3>2. \A i \in 1 .. Len(Tail(q)) : i + 1 \in 1 .. Len(q) /\ Tail(q)[i] = q[i + 1]
        BY <1>6
      <3>3. InOrder(m_array[r])'
        <4>1. ASSUME NEW i \in 1 .. Len(Tail(q)) PROVE Tail(q)[i].func <= used'
          BY <1>4, <1>12, <3>2
        <4>2. ASSUME NEW i \in 1 .. Len(Tail(q)), NEW j \in 1 .. Len(Tail(q)), i < j
              PROVE  Tail(q)[i].func < Tail(q)[j].func
          <5>1. i + 1 \in 1 .. Len(q) /\ j + 1 \in 1 .. Len(q) /\ i + 1 < j + 1
            BY <1>6, <4>2
          <5> QED
            BY <1>12, <3>2, <5>1
        <4> QED
          BY <3>1, <4>1, <4>2 DEF InOrder
      <3>4. ASSUME NEW i \in 1 .. Len(m_array'[r])
            PROVE  /\ m_array'[r][i].score = r
                   /\ \E k \in 1 .. Len(inserted') : inserted'[k] = m_array'[r][i]
        <4>1. i + 1 \in 1 .. Len(q) /\ m_array'[r][i] = q[i + 1] /\ 1 < i + 1
          BY <1>6, <3>1, <3>2
        <4>2. PICK k \in 1 .. Len(inserted) : inserted[k] = q[i + 1] /\ q[i + 1].score = r
          BY <2>1, <3>1, <4>1 DEF DequeOf
        <4>3. q[1].func < q[i + 1].func
          BY <1>12, <3>1, <4>1
        <4>4. k # f
          BY <1>3, <1>11, <4>2, <4>3
        <4> QED
          BY <1>15, <4>1, <4>2, <4>4
      <3>5. ASSUME NEW j \in 1 .. Len(inserted'), inserted'[j].score = r
            PROVE  \E i \in 1 .. Len(m_array'[r]) : m_array'[r][i] = inserted'[j]
        <4>1. PICK k \in 1 .. Len(inserted) : k # f /\ inserted'[j] = inserted[k]
          BY <1>16
        <4>2. PICK i \in 1 .. Len(q) : q[i] = inserted[k]
          BY <2>1, <3>1, <3>5, <4>1 DEF DequeOf
        <4>3. i # 1
          <5>1. k < f \/ f < k
            BY <1>3, <4>1
          <5>2. inserted[k].func # inserted[f].func
            BY <1>3, <1>11, <1>12, <5>1
          <5> QED
            BY <1>3, <4>2, <5>2
        <4>4. i - 1 \in 1 .. Len(Tail(q)) /\ (i - 1) + 1 = i
          BY <1>6, <4>3
        <4>5. Tail(q)[i - 1] = inserted'[j]
          BY <3>2, <4>1, <4>2, <4>4
        <4> QED
          BY <3>1, <4>4, <4>5
      <3> QED
        BY <3>3, <3>4, <3>5 DEF DequeOf
    <2>2. CASE r # M
      <3>1. m_array'[r] = m_array[r] /\ DequeOf(r)
        BY <1>1, <1>8, <2>2
      <3>2. inserted[f].score = M
        BY <1>1, <1>3, <1>6 DEF DequeOf
      <3>3. InOrder(m_array[r])'
        BY <1>4, <3>1 DEF InOrder, DequeOf
      <3>4. ASSUME NEW i \in 1 .. Len(m_array'[r])
            PROVE  /\ m_array'[r][i].score = r
                   /\ \E k \in 1 .. Len(inserted') : inserted'[k] = m_array'[r][i]
        <4>1. PICK k \in 1 .. Len(inserted) :
                inserted[k] = m_array[r][i] /\ m_array[r][i].score = r
          BY <3>1 DEF DequeOf
        <4>2. k # f
          BY <2>2, <3>2, <4>1
        <4> QED
          BY <1>15, <3>1, <4>1, <4>2
      <3>5. ASSUME NEW j \in 1 .. Len(inserted'), inserted'[j].score = r
            PROVE  \E i \in 1 .. Len(m_array'[r]) : m_array'[r][i] = inserted'[j]
        <4>1. PICK k \in 1 .. Len(inserted) : inserted'[j] = inserted[k]
          BY <1>16
        <4> QED
          BY <3>1, <3>5, <4>1 DEF DequeOf
      <3> QED
        BY <3>3, <3>4, <3>5 DEF DequeOf
    <2> QED
      BY <2>1, <2>2
  <1>18. (m_size = Sum(Lengths, DOMAIN m_sorted_queue))'
    <2>1. /\ IsFiniteSet(D) /\ D \ {M} = D' \ {M} /\ M \in D
          /\ \A r \in D : Lengths[r] \in Int
          /\ \A r \in D \ {M} : Lengths'[r] = Lengths[r]
      BY <1>1, <1>3, <1>8, <1>9, GreatestScore, LenProperties DEF Lengths
    <2>2. Lengths'[M] = Len(q) - 1 /\ Lengths[M] = Len(q) /\ (M \in D' => Lengths'[M] \in Int)
      BY <1>3, <1>6, <1>8 DEF Lengths
    <2>3. /\ Sum(Lengths, D) \in Int
          /\ Sum(Lengths', D') = Sum(Lengths, D) - (IF M \in D THEN Lengths[M] ELSE 0)
                                                 + (IF M \in D' THEN Lengths'[M] ELSE 0)
      <3>1. /\ \A y \in D : Lengths[y] \in Int
            /\ \A y \in D \ {M} : Lengths'[y] = Lengths[y]
            /\ M \in D' => Lengths'[M] \in Int
        BY <2>1, <2>2
      <3>2. \A T, g : /\ D \ {M} = T \ {M}
                      /\ \A y \in D \ {M} : g[y] = Lengths[y]
                      /\ M \in T => g[M] \in Int
              => /\ Sum(Lengths, D) \in Int
                 /\ Sum(g, T) = Sum(Lengths, D) - (IF M \in D THEN Lengths[M] ELSE 0)
                                                + (IF M \in T THEN g[M] ELSE 0)
        BY <2>1, <3>1, SumStep
      <3> QED
        BY <2>1, <3>1, <3>2
    <2>4. M \notin D' => Len(q) = 1
      BY <1>3, <1>9, <1>len
    <2>5. Sum(Lengths', D') = Sum(Lengths, D) - 1
      <3>1. Sum(Lengths', D') = Sum(Lengths, D) - n + (n - 1)
        BY <1>len, <2>1, <2>2, <2>3, <2>4
      <3> HIDE DEF n
      <3> QED
        BY <1>len, <2>3, <3>1
    <2> QED
      BY <1>1, <1>4, <2>5 DEF D
  <1> QED
    BY <1>10, <1>13, <1>14, <1>17, <1>18 DEF PqInv

\* New queues are empty, and so is the list (thread_pool.h:276-280).
LEMMA PqInvInit ==
  ASSUME PqInit
  PROVE  PqInv
  <1>1. /\ m_sorted_queue = << >> /\ DOMAIN m_sorted_queue = {} /\ inserted = << >>
        /\ Len(inserted) = 0 /\ m_array = [s \in Scores |-> << >>] /\ m_size = 0
        /\ \A s \in Scores : m_array[s] = << >> /\ Len(m_array[s]) = 0
    BY DEF PqInit
  <1>2. m_sorted_queue \in [DOMAIN m_sorted_queue -> Seq(PqItems)]
    <2>1. m_sorted_queue = [s \in DOMAIN m_sorted_queue |-> m_sorted_queue[s]]
      BY <1>1
    <2> QED
      BY <1>1, <2>1
  <1>3. << >> \in Seq(PqItems)
    BY EmptySeq
  <1>4. PqTypes
    BY <1>1, <1>2, <1>3 DEF PqInit, PqTypes
  <1>5. InOrder(inserted) /\ \A s \in Scores : DequeOf(s)
    BY <1>1 DEF InOrder, DequeOf
  <1>6. Sum(Lengths, {}) = 0
    BY FS_EmptySet, SumRemove
  <1> QED
    BY <1>1, <1>4, <1>5, <1>6 DEF PqInv, MapIsArray

\* What the property calls the sum over the map is the sum of Lengths.
LEMMA SumOfMap ==
  ASSUME PqInv
  PROVE  MapThenSumSet(LAMBDA s : Len(m_sorted_queue[s]), DOMAIN m_sorted_queue)
           = Sum(Lengths, DOMAIN m_sorted_queue)
  <1> DEFINE D == DOMAIN m_sorted_queue
             Is(g) == g = [s \in SUBSET D |->
                             IF s = {} THEN 0
                             ELSE Len(m_sorted_queue[Picked(s)]) + g[s \ {Picked(s)}]]
             h == CHOOSE g : Is(g)
  <1>1. IsFiniteSet(D) /\ \A s \in D : Lengths[s] = Len(m_sorted_queue[s])
    BY GreatestScore DEF PqInv, PqTypes, MapIsArray, Lengths
  <1>2. \A s \in SUBSET D : s # {} => Lengths[Picked(s)] = Len(m_sorted_queue[Picked(s)])
    BY <1>1 DEF Picked
  <1>3. Is(h)
    <2>1. PICK g : IsSum(g, Lengths, D)
      BY <1>1, SumExists
    <2>2. Is(g)
      BY <1>2, <2>1 DEF IsSum
    <2> QED
      BY <2>2
  <1>4. MapThenSumSet(LAMBDA s : Len(m_sorted_queue[s]), D) = h[D]
    BY DEF MapThenSumSet, MapThenFoldSet, Picked
  <1> HIDE DEF h
  <1>5. IsSum(h, Lengths, D)
    BY <1>2, <1>3 DEF IsSum
  <1> QED
    BY <1>1, <1>4, <1>5, SumIs

\* Both queues are stable priority queues, for any number of scores and items, and
\* the counter of the map is right, so that top() and pop() never throw
\* (thread_pool.h:276-380).
THEOREM QueuesStayStable == PqSpec => []QueuesAreStable
  <1>1. PqInv /\ [PqNext]_pqVars => PqInv'
    <2>1. ASSUME PqInv, UNCHANGED <<m_sorted_queue, m_size, m_array, m_array_size, inserted, used, thrown>>
          PROVE  PqInv'
      BY <2>1 DEF PqInv, PqTypes, InOrder, MapIsArray, DequeOf, Lengths
    <2> QED
      BY <2>1, PqInvInsert, PqInvPop DEF PqNext, PqStop, pqVars
  <1>2. ASSUME PqInv PROVE QueuesAreStable
    <2>1. MapIsCounted
      BY <1>2, SumOfMap DEF MapIsCounted, PqInv, PqTypes, MapIsArray
    <2>2. ASSUME inserted # << >>
          PROVE  /\ DOMAIN m_sorted_queue # {} /\ MapTop = inserted[FirstOut]
                 /\ ArrayTop = inserted[FirstOut]
      <3>1. /\ MapBegin \in DOMAIN m_sorted_queue /\ ArrayLast = MapBegin
            /\ m_array[MapBegin] # << >> /\ inserted[FirstOut] = m_array[MapBegin][1]
            /\ m_sorted_queue[MapBegin] = m_array[MapBegin]
        BY <1>2, <2>2, FirstOutIsHead DEF PqInv, MapIsArray
      <3>2. Head(m_array[MapBegin]) = m_array[MapBegin][1]
        <4>1. m_array[MapBegin] \in Seq(PqItems)
          BY <1>2, <3>1 DEF PqInv, PqTypes
        <4> QED
          BY <3>1, <4>1
      <3> QED
        BY <3>1, <3>2 DEF MapTop, ArrayTop
    <2> QED
      BY <2>1, <2>2 DEF QueuesAreStable, MapIsStable, ArrayIsStable
  <1> QED
    BY <1>1, <1>2, PqInvInit, PTL DEF PqSpec

-----------------------------------------------------------------------------
(* The linked list. *)

\* What the next of the i-th node has to be, the head being before the first one.
After(i) == IF i < Len(sequence) THEN sequence[i + 1] ELSE 0

InSequence(n) == \E i \in 1 .. Len(sequence) : sequence[i] = n

\* Every node is linked to its successor; a node that is not in the list has a next
\* of 0, which link_insert_tail and link_insert_head rely on.
Linked ==
  /\ nodes \subseteq ListNodes
  /\ next \in [ListNodes \cup {ListHead} -> Nat]
  /\ sequence \in Seq(nodes)
  /\ \A i, j \in 1 .. Len(sequence) : sequence[i] = sequence[j] => i = j
  /\ next[ListHead] = After(0)
  /\ \A i \in 1 .. Len(sequence) : next[sequence[i]] = After(i)
  /\ \A n \in nodes : InSequence(n) \/ next[n] = 0

LlInv == wild \/ Linked

\* The sequence is no longer than there are nodes.
LEMMA SequenceFits ==
  ASSUME Linked
  PROVE  /\ Len(sequence) \in Nat /\ Len(sequence) <= MaxListNodes /\ MaxListNodes \in Nat
         /\ \A i \in 1 .. Len(sequence) :
              /\ sequence[i] \in nodes /\ sequence[i] \in ListNodes
              /\ sequence[i] # 0 /\ sequence[i] # ListHead
         /\ DOMAIN sequence = 1 .. Len(sequence)
  <1>1. /\ Len(sequence) \in Nat /\ \A i \in 1 .. Len(sequence) : sequence[i] \in nodes
        /\ DOMAIN sequence = 1 .. Len(sequence)
    BY LenProperties, ElementOfSeq DEF Linked
  <1>2. /\ MaxListNodes \in Nat /\ \A n \in ListNodes : n # 0 /\ n # ListHead
    BY ListAssumption DEF ListNodes, ListHead
  <1>3. \A i \in 1 .. Len(sequence) : sequence[i] \in ListNodes
    BY <1>1 DEF Linked
  <1>4. Len(sequence) <= MaxListNodes
    <2> DEFINE S == 1 .. Len(sequence)
               g == [i \in S |-> sequence[i]]
    <2>1. IsFiniteSet(S) /\ Cardinality(S) = Len(sequence)
      BY <1>1, FS_Interval
    <2>2. IsFiniteSet(ListNodes) /\ Cardinality(ListNodes) = MaxListNodes
      BY <1>2, FS_Interval DEF ListNodes
    <2>3. g \in [S -> ListNodes] /\ \A i, j \in S : g[i] = g[j] => i = j
      BY <1>3 DEF Linked
    <2> HIDE DEF g, S
    <2>4. ~(Cardinality(ListNodes) < Cardinality(S))
      BY <2>1, <2>2, <2>3, FS_PigeonHole
    <2> QED
      BY <1>1, <1>2, <2>1, <2>2, <2>4
  <1> QED
    BY <1>1, <1>2, <1>3, <1>4

\* The loop over the list meets the nodes of the sequence.
LEMMA WalkIsSequence ==
  ASSUME Linked
  PROVE  Walk = sequence
  <1> DEFINE last(s) == IF s = << >> THEN ListHead ELSE Last(s)
             step(s) == IF next[last(s)] = 0 THEN s ELSE Append(s, next[last(s)])
             K == 0 .. MaxListNodes + 1
             Is(g) == g = [k \in K |-> IF k = 0 THEN << >> ELSE step(g[k - 1])]
             at == CHOOSE g : Is(g)
             L == Len(sequence)
             first(k) == IF k <= L THEN SubSeq(sequence, 1, k) ELSE sequence
  <1>1. /\ L \in Nat /\ L <= MaxListNodes /\ MaxListNodes \in Nat
        /\ \A i \in 1 .. L : sequence[i] \in nodes /\ sequence[i] # 0
        /\ sequence \in Seq(nodes)
    BY SequenceFits DEF Linked
  <1>2. Walk = at[MaxListNodes + 1]
    BY DEF Walk
  <1>3. ASSUME NEW k \in 0 .. L
        PROVE  /\ SubSeq(sequence, 1, k) \in Seq(nodes) /\ Len(SubSeq(sequence, 1, k)) = k
               /\ \A i \in 1 .. k : SubSeq(sequence, 1, k)[i] = sequence[i]
               /\ SubSeq(sequence, 1, k) = << >> <=> k = 0
    <2> DEFINE p == SubSeq(sequence, 1, k)
    <2>1. /\ p \in Seq(nodes) /\ Len(p) = (IF 1 <= k THEN k - 1 + 1 ELSE 0)
          /\ \A i \in 1 .. k - 1 + 1 : p[i] = sequence[1 + i - 1]
      <3>1. 1 \in Int /\ k \in Int /\ \A i \in 1 .. k : sequence[i] \in nodes
        BY <1>1
      <3> HIDE DEF p
      <3> QED
        BY <3>1, SubSeqProperties DEF p
    <2> HIDE DEF p
    <2>2. p \in Seq(nodes) /\ Len(p) = k /\ \A i \in 1 .. k : p[i] = sequence[i]
      BY <1>1, <2>1
    <2>3. p = << >> <=> Len(p) = 0
      BY <2>2, EmptySeq
    <2> QED
      BY <2>2, <2>3 DEF p
  \* One iteration: the next node, or none at the end.
  <1>4. ASSUME NEW k \in 0 .. L
        PROVE  next[last(SubSeq(sequence, 1, k))] = After(k)
    <2>1. CASE k = 0
      BY <1>1, <1>3, <2>1 DEF Linked
    <2>2. CASE k # 0
      <3>1. k \in 1 .. L /\ SubSeq(sequence, 1, k) # << >>
        BY <1>1, <1>3, <2>2
      <3>2. last(SubSeq(sequence, 1, k)) = sequence[k]
        BY <1>1, <1>3, <3>1 DEF Last
      <3> QED
        BY <3>1, <3>2 DEF Linked
    <2> QED
      BY <2>1, <2>2
  <1>5. first(0) = << >> /\ first(L) = sequence /\ first(MaxListNodes + 1) = sequence
    BY <1>1, <1>3, SubSeqFull
  <1>6. ASSUME NEW k \in K, k # 0
        PROVE  step(first(k - 1)) = first(k)
    <2>1. k \in Nat /\ k - 1 \in Nat
      BY <1>1, <1>6
    <2>2. CASE k <= L
      <3> DEFINE p == SubSeq(sequence, 1, k - 1)
                 r == SubSeq(sequence, 1, k)
      <3>1. k - 1 \in 0 .. L /\ k \in 0 .. L /\ k \in 1 .. L
        BY <1>1, <1>6, <2>1, <2>2
      <3>2. next[last(p)] = sequence[k] /\ sequence[k] # 0
        <4>1. next[last(p)] = After(k - 1)
          BY <1>4, <3>1
        <4>2. After(k - 1) = sequence[k] /\ sequence[k] # 0
          <5>1. k - 1 < L /\ (k - 1) + 1 = k
            BY <1>1, <2>1, <2>2
          <5> QED
            BY <1>1, <3>1, <5>1 DEF After
        <4> HIDE DEF p
        <4> QED
          BY <4>1, <4>2
      <3>3. step(p) = Append(p, sequence[k])
        <4> HIDE DEF p
        <4> QED
          BY <3>2
      <3>4. /\ p \in Seq(nodes) /\ Len(p) = k - 1 /\ r \in Seq(nodes) /\ Len(r) = k
            /\ \A i \in 1 .. k - 1 : p[i] = sequence[i]
            /\ \A i \in 1 .. k : r[i] = sequence[i]
        BY <1>3, <3>1
      <3> HIDE DEF p, r
      <3>5. /\ Append(p, sequence[k]) \in Seq(nodes) /\ Len(Append(p, sequence[k])) = k
            /\ Append(p, sequence[k])[k] = sequence[k]
            /\ \A i \in 1 .. k - 1 : Append(p, sequence[k])[i] = p[i]
        <4>1. sequence[k] \in nodes /\ (k - 1) + 1 = k
          BY <1>1, <2>1, <3>1
        <4> QED
          BY <3>4, <4>1, AppendItem
      <3>6. \A i \in 1 .. k : Append(p, sequence[k])[i] = r[i]
        BY <2>1, <3>4, <3>5
      <3>7. Append(p, sequence[k]) = r
        BY <3>4, <3>5, <3>6, SeqEqual
      <3>8. first(k - 1) = p /\ first(k) = r
        BY <1>1, <2>1, <2>2, <3>1 DEF p, r
      <3> QED
        BY <3>3, <3>7, <3>8
    <2>3. CASE ~(k <= L)
      <3>1. first(k - 1) = sequence /\ first(k) = sequence
        <4>1. k - 1 = L \/ ~(k - 1 <= L)
          BY <1>1, <2>1, <2>3
        <4>2. CASE k - 1 = L
          BY <1>5, <2>3, <4>2
        <4>3. CASE ~(k - 1 <= L)
          BY <2>3, <4>3
        <4> QED
          BY <4>1, <4>2, <4>3
      <3>2. next[last(SubSeq(sequence, 1, L))] = 0 /\ SubSeq(sequence, 1, L) = sequence
        BY <1>1, <1>4, SubSeqFull DEF After
      <3> QED
        BY <3>1, <3>2
    <2> QED
      BY <2>2, <2>3
  <1> HIDE DEF first, step
  <1>7. Is(at)
    <2> DEFINE g == [k \in K |-> first(k)]
               body == [k \in K |-> IF k = 0 THEN << >> ELSE step(g[k - 1])]
    <2>1. ASSUME NEW k \in K PROVE g[k] = body[k]
      <3>1. CASE k = 0
        BY <1>5, <3>1
      <3>2. CASE k # 0
        <4>1. k - 1 \in K
          BY <1>1, <3>2
        <4> QED
          BY <1>6, <3>2, <4>1
      <3> QED
        BY <3>1, <3>2
    <2>2. g = body
      BY <2>1
    <2>3. \E f : Is(f)
      BY <2>2
    <2> QED
      BY <2>3
  <1> HIDE DEF at
  <1>8. \A k \in K : at[k] = first(k)
    <2> DEFINE Bad == {k \in K : at[k] # first(k)}
    <2> SUFFICES ASSUME Bad # {} PROVE FALSE
      OBVIOUS
    <2>1. PICK k \in Bad : \A j \in Bad : k <= j
      <3>1. Bad \in SUBSET Nat
        BY <1>1
      <3> HIDE DEF Bad
      <3> QED
        BY <3>1, LeastNatural
    <2>2. k \in K /\ k \in Nat /\ at[k] = IF k = 0 THEN << >> ELSE step(at[k - 1])
      BY <1>1, <1>7
    <2>3. k # 0
      BY <1>5, <2>1, <2>2
    <2>4. k - 1 \in K /\ ~(k <= k - 1)
      BY <1>1, <2>2, <2>3
    <2>5. at[k - 1] = first(k - 1)
      BY <2>1, <2>4
    <2> QED
      BY <1>6, <2>1, <2>2, <2>3, <2>5
  <1>9. MaxListNodes + 1 \in K
    BY <1>1
  <1> QED
    BY <1>2, <1>5, <1>8, <1>9

\* What the searches of a call find, in terms of the sequence.
LEMMA WalkFinds ==
  ASSUME Linked
  PROVE  /\ \A n : LinkIsset(n) <=> InSequence(n)
         /\ \A i \in 1 .. Len(sequence) : Position(sequence[i]) = i
         /\ Range(Walk) = {sequence[i] : i \in 1 .. Len(sequence)}
         /\ Walk = << >> <=> Len(sequence) = 0
         /\ Last(Walk) = sequence[Len(sequence)]
  <1>1. Walk = sequence /\ DOMAIN sequence = 1 .. Len(sequence) /\ sequence \in Seq(nodes)
    BY WalkIsSequence, SequenceFits DEF Linked
  <1>2. \A n : LinkIsset(n) <=> InSequence(n)
    BY <1>1 DEF LinkIsset, InSequence, Range
  <1>3. \A i, j \in 1 .. Len(sequence) : sequence[i] = sequence[j] => i = j
    BY DEF Linked
  <1>4. ASSUME NEW i \in 1 .. Len(sequence) PROVE Position(sequence[i]) = i
    <2> DEFINE k == CHOOSE k \in 1 .. Len(sequence) : sequence[k] = sequence[i]
    <2>1. k \in 1 .. Len(sequence) /\ sequence[k] = sequence[i]
      OBVIOUS
    <2>2. Position(sequence[i]) = k
      BY <1>1 DEF Position
    <2> HIDE DEF k
    <2> QED
      BY <1>3, <2>1, <2>2
  <1>5. Range(Walk) = {sequence[i] : i \in 1 .. Len(sequence)}
    BY <1>1 DEF Range
  <1>6. Walk = << >> <=> Len(sequence) = 0
    BY <1>1, EmptySeq
  <1>7. Last(Walk) = sequence[Len(sequence)]
    BY <1>1 DEF Last
  <1> QED
    BY <1>2, <1>4, <1>5, <1>6, <1>7

\* The sequence t is s with x put behind its k-th element, or with its k-th element
\* taken out.
Grown(s, k, x, t) ==
  /\ Len(t) = Len(s) + 1
  /\ \A i \in 1 .. Len(s) + 1 : t[i] = IF i <= k THEN s[i] ELSE IF i = k + 1 THEN x ELSE s[i - 1]
Shrunk(s, k, t) ==
  /\ Len(t) = Len(s) - 1
  /\ \A i \in 1 .. Len(s) - 1 : t[i] = IF i < k THEN s[i] ELSE s[i + 1]

\* What the operators on sequences make of them.
LEMMA GrownIs ==
  ASSUME NEW T, NEW s \in Seq(T), NEW x \in T
  PROVE  /\ \A k \in 0 .. Len(s) :
              InsertAt(s, k + 1, x) \in Seq(T) /\ Grown(s, k, x, InsertAt(s, k + 1, x))
         /\ Append(s, x) \in Seq(T) /\ Grown(s, Len(s), x, Append(s, x))
         /\ <<x>> \o s \in Seq(T) /\ Grown(s, 0, x, <<x>> \o s)
  <1> DEFINE L == Len(s)
  <1>1. L \in Nat /\ (\A i \in 1 .. L : s[i] \in T) /\ <<x>> \in Seq(T) /\ Len(<<x>>) = 1
        /\ <<x>>[1] = x
    BY LenProperties, ElementOfSeq
  <1>2. ASSUME NEW k \in 0 .. L
        PROVE  InsertAt(s, k + 1, x) \in Seq(T) /\ Grown(s, k, x, InsertAt(s, k + 1, x))
    <2> DEFINE a == SubSeq(s, 1, k)
               b == SubSeq(s, k + 1, L)
               c == a \o <<x>>
    <2>1. a \in Seq(T) /\ Len(a) = k /\ \A i \in 1 .. k : a[i] = s[i]
      <3>1. /\ a \in Seq(T) /\ Len(a) = (IF 1 <= k THEN k - 1 + 1 ELSE 0)
            /\ \A i \in 1 .. k - 1 + 1 : a[i] = s[1 + i - 1]
        <4>1. 1 \in Int /\ k \in Int /\ \A i \in 1 .. k : s[i] \in T
          BY <1>1
        <4> HIDE DEF a
        <4> QED
          BY <4>1, SubSeqProperties DEF a
      <3> HIDE DEF a
      <3> QED
        BY <1>1, <3>1
    <2>2. b \in Seq(T) /\ Len(b) = L - k /\ \A i \in 1 .. L - k : b[i] = s[k + i]
      <3>1. /\ b \in Seq(T) /\ Len(b) = (IF k + 1 <= L THEN L - (k + 1) + 1 ELSE 0)
            /\ \A i \in 1 .. L - (k + 1) + 1 : b[i] = s[(k + 1) + i - 1]
        <4>1. k + 1 \in Int /\ L \in Int /\ \A i \in k + 1 .. L : s[i] \in T
          BY <1>1
        <4> HIDE DEF b
        <4> QED
          BY <4>1, SubSeqProperties DEF b
      <3> HIDE DEF b
      <3>2. \A i \in 1 .. L - k : (k + 1) + i - 1 = k + i /\ i \in 1 .. L - (k + 1) + 1
        BY <1>1
      <3> QED
        BY <1>1, <3>1, <3>2
    <2> HIDE DEF a, b
    <2>3. /\ c \in Seq(T) /\ Len(c) = k + 1
          /\ \A i \in 1 .. k + 1 : c[i] = IF i <= k THEN s[i] ELSE x
      <3>1. /\ a \o <<x>> \in Seq(T) /\ Len(a \o <<x>>) = Len(a) + Len(<<x>>)
            /\ \A i \in 1 .. Len(a) + Len(<<x>>) :
                 (a \o <<x>>)[i] = IF i <= Len(a) THEN a[i] ELSE <<x>>[i - Len(a)]
        BY <1>1, <2>1, ConcatProperties
      <3>2. \A i \in 1 .. k + 1 : i <= k => i \in 1 .. k
        BY <1>1
      <3>3. \A i \in 1 .. k + 1 : ~(i <= k) => i - k = 1
        BY <1>1
      <3> QED
        BY <1>1, <2>1, <3>1, <3>2, <3>3
    <2> HIDE DEF c
    <2>4. /\ c \o b \in Seq(T) /\ Len(c \o b) = L + 1
          /\ \A i \in 1 .. L + 1 : (c \o b)[i] = IF i <= k + 1 THEN c[i] ELSE b[i - (k + 1)]
      <3>1. /\ c \o b \in Seq(T) /\ Len(c \o b) = Len(c) + Len(b)
            /\ \A i \in 1 .. Len(c) + Len(b) :
                 (c \o b)[i] = IF i <= Len(c) THEN c[i] ELSE b[i - Len(c)]
        BY <2>2, <2>3, ConcatProperties
      <3>2. Len(c) + Len(b) = L + 1
        BY <1>1, <2>2, <2>3
      <3> QED
        BY <2>3, <3>1, <3>2
    <2>5. ASSUME NEW i \in 1 .. L + 1
          PROVE  (c \o b)[i] = IF i <= k THEN s[i] ELSE IF i = k + 1 THEN x ELSE s[i - 1]
      <3>1. CASE i <= k + 1
        <4>1. i \in 1 .. k + 1 /\ (c \o b)[i] = c[i]
          BY <2>4, <3>1
        <4>2. i <= k \/ i = k + 1
          BY <3>1
        <4> QED
          BY <2>3, <4>1, <4>2
      <3>2. CASE ~(i <= k + 1)
        <4>1. i - (k + 1) \in 1 .. L - k /\ k + (i - (k + 1)) = i - 1
          BY <1>1, <3>2
        <4>2. (c \o b)[i] = s[i - 1]
          BY <2>2, <2>4, <3>2, <4>1
        <4>3. ~(i <= k) /\ i # k + 1
          BY <3>2
        <4> QED
          BY <4>2, <4>3
      <3> QED
        BY <3>1, <3>2
    <2>6. InsertAt(s, k + 1, x) = c \o b
      <3>1. (k + 1) - 1 = k
        OBVIOUS
      <3> QED
        BY <3>1 DEF InsertAt, a, b, c
    <2>7. Grown(s, k, x, c \o b)
      BY <2>4, <2>5 DEF Grown
    <2> QED
      BY <2>4, <2>6, <2>7
  <1>3. Append(s, x) \in Seq(T) /\ Grown(s, L, x, Append(s, x))
    <2>1. /\ Append(s, x) \in Seq(T) /\ Len(Append(s, x)) = L + 1
          /\ Append(s, x)[L + 1] = x /\ \A i \in 1 .. L : Append(s, x)[i] = s[i]
      BY AppendItem
    <2>2. ASSUME NEW i \in 1 .. L + 1
          PROVE  Append(s, x)[i] = IF i <= L THEN s[i] ELSE IF i = L + 1 THEN x ELSE s[i - 1]
      <3>1. i \in 1 .. L \/ (i = L + 1 /\ ~(i <= L))
        BY <1>1
      <3> QED
        BY <1>1, <2>1, <3>1
    <2> QED
      BY <2>1, <2>2 DEF Grown
  <1>4. <<x>> \o s \in Seq(T) /\ Grown(s, 0, x, <<x>> \o s)
    <2>1. /\ <<x>> \o s \in Seq(T) /\ Len(<<x>> \o s) = Len(<<x>>) + L
          /\ \A i \in 1 .. Len(<<x>>) + L :
               (<<x>> \o s)[i] = IF i <= Len(<<x>>) THEN <<x>>[i] ELSE s[i - Len(<<x>>)]
      BY <1>1, ConcatProperties
    <2> DEFINE t == <<x>> \o s
    <2>2. /\ t \in Seq(T) /\ Len(t) = L + 1
          /\ \A i \in 1 .. L + 1 : t[i] = IF i <= 1 THEN x ELSE s[i - 1]
      <3>1. Len(<<x>>) + L = L + 1
        BY <1>1
      <3>2. \A i \in 1 .. L + 1 : i <= 1 => i = 1
        BY <1>1
      <3> QED
        BY <1>1, <2>1, <3>1, <3>2
    <2> HIDE DEF t
    <2>3. \A i \in 1 .. L + 1 : ~(i <= 0) /\ (i <= 1 <=> i = 0 + 1)
      BY <1>1
    <2>4. Grown(s, 0, x, t)
      BY <2>2, <2>3 DEF Grown
    <2> QED
      BY <2>2, <2>4 DEF t
  <1> QED
    BY <1>2, <1>3, <1>4

\* A node is put behind the k-th one, or in front of all (my_link.c:31-64).
LEMMA LinkedInserted ==
  ASSUME Linked, NEW n \in nodes, ~InSequence(n), NEW k \in 0 .. Len(sequence),
         NEW p, p = (IF k = 0 THEN ListHead ELSE sequence[k]),
         next' = [next EXCEPT ![n] = After(k), ![p] = n],
         sequence' \in Seq(nodes), Grown(sequence, k, n, sequence'), UNCHANGED nodes
  PROVE  Linked'
  <1> DEFINE L == Len(sequence)
  <1>1. /\ L \in Nat /\ \A i \in 1 .. L : /\ sequence[i] \in nodes /\ sequence[i] \in ListNodes
                                          /\ sequence[i] # 0 /\ sequence[i] # ListHead
        /\ next \in [ListNodes \cup {ListHead} -> Nat] /\ nodes \subseteq ListNodes
        /\ n \in ListNodes /\ n # ListHead /\ n \in Nat
        /\ \A m \in ListNodes : m \in Nat /\ m # ListHead
    BY SequenceFits, ListAssumption DEF Linked, ListNodes, ListHead
  <1>2. /\ \A i, j \in 1 .. L : sequence[i] = sequence[j] => i = j
        /\ \A i \in 1 .. L : sequence[i] # n
        /\ next[ListHead] = After(0) /\ \A i \in 1 .. L : next[sequence[i]] = After(i)
        /\ \A m \in nodes : InSequence(m) \/ next[m] = 0
    BY DEF Linked, InSequence
  <1>3. /\ Len(sequence') = L + 1
        /\ \A i \in 1 .. L + 1 :
             sequence'[i] = IF i <= k THEN sequence[i]
                            ELSE IF i = k + 1 THEN n ELSE sequence[i - 1]
    BY DEF Grown
  <1>4. p \in ListNodes \cup {ListHead} /\ p # n
    BY <1>1, <1>2
  <1>5. After(k) \in Nat /\ (After(k) = 0 \/ After(k) \in ListNodes)
    <2>1. k < L => k + 1 \in 1 .. L
      BY <1>1
    <2>2. k < L => sequence[k + 1] \in ListNodes /\ sequence[k + 1] \in Nat
      BY <1>1, <2>1
    <2> QED
      BY <2>2 DEF After
  <1>6. /\ next' \in [ListNodes \cup {ListHead} -> Nat]
        /\ next'[n] = After(k) /\ next'[p] = n
        /\ \A m \in (ListNodes \cup {ListHead}) \ {n, p} : next'[m] = next[m]
    BY <1>1, <1>4, <1>5
  <1>7. ASSUME NEW i \in 1 .. L + 1
        PROVE  /\ i <= k => i \in 1 .. L /\ sequence'[i] = sequence[i]
               /\ i = k + 1 => sequence'[i] = n
               /\ i > k + 1 => i - 1 \in 1 .. L /\ i - 1 > k /\ sequence'[i] = sequence[i - 1]
    BY <1>1, <1>3
  <1>8. ASSUME NEW i \in 1 .. L + 1, NEW j \in 1 .. L + 1, sequence'[i] = sequence'[j]
        PROVE  i = j
    <2> DEFINE of(a) == IF a <= k THEN a ELSE a - 1
    <2>1. i = k + 1 <=> j = k + 1
      <3>1. \A a \in 1 .. L + 1 : a # k + 1 => sequence'[a] # n
        <4> SUFFICES ASSUME NEW a \in 1 .. L + 1, a # k + 1 PROVE sequence'[a] # n
          OBVIOUS
        <4>1. a <= k \/ a > k + 1
          BY <1>1
        <4>2. \/ a \in 1 .. L /\ sequence'[a] = sequence[a]
              \/ a - 1 \in 1 .. L /\ sequence'[a] = sequence[a - 1]
          BY <1>7, <4>1
        <4> QED
          BY <1>2, <4>2
      <3> QED
        BY <1>7, <1>8, <3>1
    <2>2. CASE i # k + 1 /\ j # k + 1
      <3>1. /\ of(i) \in 1 .. L /\ of(j) \in 1 .. L
            /\ sequence[of(i)] = sequence'[i] /\ sequence[of(j)] = sequence'[j]
        BY <1>1, <1>7, <2>2
      <3>2. of(i) = of(j)
        BY <1>2, <1>8, <3>1
      <3> QED
        BY <1>1, <2>2, <3>2
    <2> QED
      BY <1>1, <2>1, <2>2
  \* The successors.
  <1>9. \A i \in 0 .. L + 1 : (After(i))' = IF i < L + 1 THEN sequence'[i + 1] ELSE 0
    BY <1>3 DEF After
  <1>10. next'[ListHead] = (After(0))'
    <2>1. (After(0))' = sequence'[1]
      BY <1>1, <1>9
    <2>2. CASE k = 0
      BY <1>1, <1>3, <1>6, <2>1, <2>2
    <2>3. CASE k # 0
      <3>1. p \in ListNodes /\ next'[ListHead] = next[ListHead]
        <4>1. k \in 1 .. L /\ p = sequence[k]
          BY <1>1, <2>3
        <4>2. p \in ListNodes /\ p # ListHead
          BY <1>1, <4>1
        <4> QED
          BY <1>1, <1>6, <4>2
      <3>2. 0 < L /\ sequence'[1] = sequence[1]
        BY <1>1, <1>7, <2>3
      <3> QED
        BY <1>2, <2>1, <3>1, <3>2 DEF After
    <2> QED
      BY <2>2, <2>3
  <1>11. ASSUME NEW i \in 1 .. L + 1 PROVE next'[sequence'[i]] = (After(i))'
    <2>1. CASE i < k
      <3>1. i \in 1 .. L /\ i + 1 \in 1 .. L + 1 /\ i + 1 <= k /\ i < L /\ i < L + 1
        BY <1>1, <2>1
      <3>2. sequence'[i] = sequence[i] /\ sequence'[i + 1] = sequence[i + 1]
        BY <1>7, <2>1, <3>1
      <3>3. sequence[i] # p /\ sequence[i] # n
        BY <1>1, <1>2, <2>1, <3>1
      <3>4. next'[sequence[i]] = sequence[i + 1]
        BY <1>1, <1>2, <1>6, <3>1, <3>3 DEF After
      <3> QED
        BY <1>9, <3>1, <3>2, <3>4
    <2>2. CASE i = k
      <3>1. sequence'[i] = p /\ sequence'[i + 1] = n /\ i < L + 1
        BY <1>1, <1>7, <2>2
      <3> QED
        BY <1>6, <1>9, <3>1
    <2>3. CASE i = k + 1
      <3>1. sequence'[i] = n
        BY <1>7, <2>3
      <3>2. (After(i))' = After(k)
        <4>1. CASE k < L
          <5>1. i + 1 \in 1 .. L + 1 /\ i + 1 > k + 1 /\ i < L + 1 /\ (i + 1) - 1 = k + 1
            BY <1>1, <2>3, <4>1
          <5> QED
            BY <1>7, <1>9, <4>1, <5>1 DEF After
        <4>2. CASE ~(k < L)
          <5>1. ~(i < L + 1)
            BY <1>1, <2>3, <4>2
          <5> QED
            BY <1>9, <4>2, <5>1 DEF After
        <4> QED
          BY <4>1, <4>2
      <3> QED
        BY <1>6, <3>1, <3>2
    <2>4. CASE i > k + 1
      <3>1. i - 1 \in 1 .. L /\ i - 1 > k /\ sequence'[i] = sequence[i - 1]
        BY <1>7, <2>4
      <3>2. sequence[i - 1] # p /\ sequence[i - 1] # n
        BY <1>1, <1>2, <3>1
      <3>3. next'[sequence'[i]] = After(i - 1)
        BY <1>1, <1>2, <1>6, <3>1, <3>2
      <3>4. (After(i))' = After(i - 1)
        <4>1. CASE i < L + 1
          <5>1. i + 1 \in 1 .. L + 1 /\ i + 1 > k + 1 /\ (i + 1) - 1 = i /\ i - 1 < L
                /\ (i - 1) + 1 = i
            BY <1>1, <2>4, <4>1
          <5>2. sequence'[i + 1] = sequence[i]
            BY <1>7, <5>1
          <5> QED
            BY <1>9, <4>1, <5>1, <5>2 DEF After
        <4>2. CASE ~(i < L + 1)
          <5>1. ~(i - 1 < L)
            BY <1>1, <4>2
          <5> QED
            BY <1>9, <4>2, <5>1 DEF After
        <4> QED
          BY <4>1, <4>2
      <3> QED
        BY <3>3, <3>4
    <2> QED
      BY <1>1, <2>1, <2>2, <2>3, <2>4
  <1>12. ASSUME NEW m \in nodes PROVE InSequence(m)' \/ next'[m] = 0
    <2>1. CASE m = n
      <3>1. k + 1 \in 1 .. L + 1 /\ sequence'[k + 1] = n
        BY <1>1, <1>7
      <3> QED
        BY <1>3, <2>1, <3>1 DEF InSequence
    <2>2. CASE m # n /\ InSequence(m)
      <3>1. PICK i \in 1 .. L : sequence[i] = m
        BY <2>2 DEF InSequence
      <3>2. \/ i \in 1 .. L + 1 /\ i <= k
            \/ i + 1 \in 1 .. L + 1 /\ i + 1 > k + 1 /\ (i + 1) - 1 = i
        BY <1>1
      <3>3. \E j \in 1 .. L + 1 : sequence'[j] = m
        BY <1>7, <3>1, <3>2
      <3> QED
        BY <1>3, <3>3 DEF InSequence
    <2>3. CASE m # n /\ ~InSequence(m)
      <3>1. m # p /\ m \in ListNodes
        <4>1. m \in ListNodes /\ m # ListHead
          BY <1>1
        <4>2. k # 0 => k \in 1 .. L /\ sequence[k] # m
          BY <1>1, <2>3 DEF InSequence
        <4> QED
          BY <4>1, <4>2
      <3> QED
        BY <1>2, <1>6, <2>3, <3>1
    <2> QED
      BY <2>1, <2>2, <2>3
  <1> QED
    BY <1>1, <1>3, <1>6, <1>8, <1>10, <1>11, <1>12 DEF Linked

\* A node that is not the first one is taken out (my_link.c:98-115).
LEMMA LinkedDeleted ==
  ASSUME Linked, NEW n \in nodes, ~wild, LinkDelect(n), ~wild'
  PROVE  Linked'
  <1> DEFINE L == Len(sequence)
  <1>1. /\ L \in Nat /\ \A i \in 1 .. L : /\ sequence[i] \in nodes /\ sequence[i] \in ListNodes
                                          /\ sequence[i] # 0 /\ sequence[i] # ListHead
        /\ next \in [ListNodes \cup {ListHead} -> Nat] /\ nodes \subseteq ListNodes
        /\ sequence \in Seq(nodes) /\ next[ListHead] = After(0)
        /\ \A i, j \in 1 .. L : sequence[i] = sequence[j] => i = j
        /\ \A i \in 1 .. L : next[sequence[i]] = After(i)
        /\ \A m \in nodes : InSequence(m) \/ next[m] = 0
    BY SequenceFits DEF Linked
  <1>2. /\ LinkIsset(n) /\ n # Walk[1] /\ next' = [next EXCEPT ![Walk[Position(n) - 1]] = next[n]]
        /\ nodes' = nodes \ {n} /\ sequence' = RemoveAt(sequence, Position(n))
    BY DEF LinkDelect, GoWild
  <1>3. PICK k \in 1 .. L : sequence[k] = n
    BY <1>2, WalkFinds DEF InSequence
  <1>4. Position(n) = k /\ Walk = sequence
    BY <1>3, WalkFinds, WalkIsSequence
  <1>5. k # 1 /\ k - 1 \in 1 .. L /\ k \in Nat
    BY <1>1, <1>2, <1>3, <1>4
  <1> DEFINE p == sequence[k - 1]
  <1>6. p \in ListNodes /\ p # ListHead /\ p # n /\ n \in ListNodes
    BY <1>1, <1>3, <1>5
  <1>7. /\ next' \in [ListNodes \cup {ListHead} -> Nat] /\ next'[p] = After(k)
        /\ \A m \in (ListNodes \cup {ListHead}) \ {p} : next'[m] = next[m]
    <2>1. next' = [next EXCEPT ![p] = After(k)] /\ After(k) \in Nat
      <3>1. k < L => k + 1 \in 1 .. L
        BY <1>1, <1>5
      <3>2. k < L => sequence[k + 1] \in ListNodes /\ ListNodes \subseteq Nat
        BY <1>1, <3>1 DEF ListNodes
      <3>3. After(k) \in Nat
        BY <3>2 DEF After
      <3>4. next[n] = After(k)
        BY <1>1, <1>3
      <3> QED
        BY <1>2, <1>4, <3>3, <3>4
    <2> HIDE DEF p
    <2> QED
      BY <1>1, <1>6, <2>1
  <1>8. /\ Len(sequence') = L - 1 /\ sequence' \in Seq(nodes)
        /\ \A i \in 1 .. L - 1 : sequence'[i] = IF i < k THEN sequence[i] ELSE sequence[i + 1]
    <2>1. sequence' = Without(sequence, k)
      BY <1>2, <1>4 DEF RemoveAt, Without
    <2> QED
      BY <1>1, <2>1, WithoutItem
  \* Where the elements come from and go to.
  <1> DEFINE of(i) == IF i < k THEN i ELSE i + 1
             to(i) == IF i < k THEN i ELSE i - 1
  <1>9. /\ \A i \in 1 .. L - 1 : /\ of(i) \in 1 .. L /\ of(i) # k
                                 /\ sequence'[i] = sequence[of(i)] /\ sequence'[i] # n
        /\ \A i \in (1 .. L) \ {k} : to(i) \in 1 .. L - 1 /\ sequence'[to(i)] = sequence[i]
    <2>1. ASSUME NEW i \in 1 .. L - 1
          PROVE  of(i) \in 1 .. L /\ of(i) # k /\ sequence'[i] = sequence[of(i)]
      <3>1. CASE i < k
        BY <1>1, <1>5, <1>8, <3>1
      <3>2. CASE ~(i < k)
        <4>1. i + 1 \in 1 .. L /\ i + 1 # k
          BY <1>1, <1>5, <3>2
        <4> QED
          BY <1>8, <3>2, <4>1
      <3> QED
        BY <3>1, <3>2
    <2>2. ASSUME NEW i \in (1 .. L) \ {k}
          PROVE  to(i) \in 1 .. L - 1 /\ sequence'[to(i)] = sequence[i]
      <3>1. CASE i < k
        <4>1. i \in 1 .. L - 1
          BY <1>1, <1>5, <3>1
        <4> QED
          BY <1>8, <3>1, <4>1
      <3>2. CASE ~(i < k)
        <4>1. i - 1 \in 1 .. L - 1 /\ ~(i - 1 < k) /\ (i - 1) + 1 = i
          BY <1>1, <1>5, <3>2
        <4> QED
          BY <1>8, <3>2, <4>1
      <3> QED
        BY <3>1, <3>2
    <2> HIDE DEF of, to
    <2>3. ASSUME NEW i \in 1 .. L - 1 PROVE sequence'[i] # n
      <3>1. of(i) \in 1 .. L /\ of(i) # k /\ sequence'[i] = sequence[of(i)]
        BY <2>1
      <3> QED
        BY <1>1, <1>3, <3>1
    <2> QED
      BY <2>1, <2>2, <2>3
  <1>10. sequence' \in Seq(nodes')
    <2>1. \A i \in 1 .. Len(sequence') : sequence'[i] \in nodes'
      <3>1. \A i \in 1 .. L - 1 : sequence'[i] \in nodes /\ sequence'[i] # n
        BY <1>1, <1>9
      <3> QED
        BY <1>2, <1>8, <3>1
    <2>2. sequence' = [i \in 1 .. Len(sequence') |-> sequence'[i]] /\ Len(sequence') \in Nat
      BY <1>8, LenProperties
    <2>3. sequence' \in [1 .. Len(sequence') -> nodes']
      BY <2>1, <2>2
    <2> QED
      BY <2>2, <2>3, SeqDef
  <1>11. ASSUME NEW i \in 1 .. L - 1, NEW j \in 1 .. L - 1, sequence'[i] = sequence'[j]
         PROVE  i = j
    <2>1. of(i) = of(j)
      <3> HIDE DEF of, to
      <3>1. /\ of(i) \in 1 .. L /\ sequence'[i] = sequence[of(i)]
            /\ of(j) \in 1 .. L /\ sequence'[j] = sequence[of(j)]
        BY <1>9
      <3> QED
        BY <1>1, <1>11, <3>1
    <2> QED
      BY <1>5, <2>1
  <1>12. \A i \in 0 .. L - 1 : (After(i))' = IF i < L - 1 THEN sequence'[i + 1] ELSE 0
    BY <1>8 DEF After
  <1>13. next'[ListHead] = (After(0))'
    <2>1. 0 < L /\ 0 < L - 1 /\ 0 \in 0 .. L - 1 /\ 1 \in 1 .. L - 1 /\ 1 < k
      BY <1>1, <1>5
    <2>2. (After(0))' = sequence'[1] /\ sequence'[1] = sequence[1] /\ After(0) = sequence[1]
      BY <1>8, <1>12, <2>1 DEF After
    <2> QED
      BY <1>1, <1>6, <1>7, <2>2
  <1>14. ASSUME NEW i \in 1 .. L - 1 PROVE next'[sequence'[i]] = (After(i))'
    <2>1. CASE i < k - 1
      <3>1. /\ i \in 1 .. L /\ i + 1 \in 1 .. L - 1 /\ i < k /\ i + 1 < k /\ i < L - 1 /\ i < L
            /\ i # k - 1 /\ i \in 0 .. L - 1
        BY <1>1, <1>5, <2>1
      <3>2. /\ sequence'[i] = sequence[i] /\ sequence[i] # p /\ sequence[i] \in ListNodes
            /\ (After(i))' = sequence[i + 1] /\ After(i) = sequence[i + 1]
        BY <1>1, <1>5, <1>8, <1>12, <3>1 DEF After
      <3> QED
        BY <1>1, <1>7, <3>1, <3>2
    <2>2. CASE i = k - 1
      <3>1. sequence'[i] = p /\ i + 1 = k /\ i < k /\ i \in 0 .. L - 1
        BY <1>5, <1>8, <2>2
      <3>2. (After(i))' = After(k)
        <4>1. CASE k < L
          <5>1. i < L - 1 /\ k \in 1 .. L - 1 /\ ~(k < k)
            BY <1>1, <1>5, <2>2, <4>1
          <5>2. sequence'[k] = sequence[k + 1]
            BY <1>8, <5>1
          <5> QED
            BY <1>12, <3>1, <4>1, <5>1, <5>2 DEF After
        <4>2. CASE ~(k < L)
          <5>1. ~(i < L - 1)
            BY <1>1, <1>5, <2>2, <4>2
          <5> QED
            BY <1>12, <3>1, <4>2, <5>1 DEF After
        <4> QED
          BY <4>1, <4>2
      <3> QED
        BY <1>7, <3>1, <3>2
    <2>3. CASE i > k - 1
      <3>1. ~(i < k) /\ i + 1 \in 1 .. L /\ i + 1 # k - 1 /\ i \in 0 .. L - 1
        BY <1>1, <1>5, <2>3
      <3>2. /\ sequence'[i] = sequence[i + 1] /\ sequence[i + 1] # p
            /\ sequence[i + 1] \in ListNodes
        BY <1>1, <1>5, <1>8, <3>1
      <3>3. next'[sequence'[i]] = After(i + 1)
        BY <1>1, <1>7, <3>1, <3>2
      <3>4. (After(i))' = After(i + 1)
        <4>1. CASE i < L - 1
          <5>1. i + 1 \in 1 .. L - 1 /\ ~(i + 1 < k) /\ i + 1 < L
            BY <1>1, <1>5, <2>3, <4>1
          <5>2. sequence'[i + 1] = sequence[(i + 1) + 1]
            BY <1>8, <5>1
          <5> QED
            BY <1>12, <3>1, <4>1, <5>1, <5>2 DEF After
        <4>2. CASE ~(i < L - 1)
          <5>1. ~(i + 1 < L)
            BY <1>1, <4>2
          <5> QED
            BY <1>12, <3>1, <4>2, <5>1 DEF After
        <4> QED
          BY <4>1, <4>2
      <3> QED
        BY <3>3, <3>4
    <2> QED
      BY <1>5, <2>1, <2>2, <2>3
  <1>15. ASSUME NEW m \in nodes' PROVE InSequence(m)' \/ next'[m] = 0
    <2>1. m \in nodes /\ m # n
      BY <1>2
    <2>2. CASE InSequence(m)
      <3>1. PICK i \in 1 .. L : sequence[i] = m
        BY <2>2 DEF InSequence
      <3>2. i # k
        BY <1>3, <2>1, <3>1
      <3>3. \E j \in 1 .. L - 1 : sequence'[j] = m
        <4> HIDE DEF of, to
        <4> QED
          BY <1>9, <3>1, <3>2
      <3> QED
        BY <1>8, <3>3 DEF InSequence
    <2>3. CASE ~InSequence(m)
      <3>1. m # p
        BY <1>5, <2>3 DEF InSequence
      <3> QED
        BY <1>1, <1>7, <2>1, <2>3, <3>1
    <2> QED
      BY <2>2, <2>3
  <1>16. nodes' \subseteq ListNodes
    BY <1>1, <1>2
  <1> QED
    BY <1>7, <1>8, <1>10, <1>11, <1>13, <1>14, <1>15, <1>16 DEF Linked

\* The reversal of a list of more than one node (my_link.c:137-168).
LEMMA LinkedReversed ==
  ASSUME Linked, LinkReversal
  PROVE  Linked'
  <1> DEFINE L == Len(sequence)
  <1>1. /\ L \in Nat /\ \A i \in 1 .. L : /\ sequence[i] \in nodes /\ sequence[i] \in ListNodes
                                          /\ sequence[i] # 0 /\ sequence[i] # ListHead
        /\ next \in [ListNodes \cup {ListHead} -> Nat] /\ nodes \subseteq ListNodes
        /\ sequence \in Seq(nodes) /\ Walk = sequence
        /\ \A i, j \in 1 .. L : sequence[i] = sequence[j] => i = j
        /\ \A m \in nodes : InSequence(m) \/ next[m] = 0
        /\ \A m \in ListNodes : m \in Nat /\ m # ListHead
    BY SequenceFits, WalkIsSequence, ListAssumption DEF Linked, ListNodes, ListHead
  <1>2. /\ L > 1 /\ nodes' = nodes /\ sequence' = Reverse(sequence)
        /\ next' = [m \in ListNodes \cup {ListHead} |->
                      IF m = ListHead THEN Last(Walk)
                      ELSE IF m = Walk[1] THEN 0
                      ELSE IF LinkIsset(m) THEN Walk[Position(m) - 1] ELSE next[m]]
    BY <1>1 DEF LinkReversal
  <1>3. 1 \in 1 .. L /\ L \in 1 .. L
    BY <1>1, <1>2
  <1>4. /\ \A i \in 1 .. L : LinkIsset(sequence[i]) /\ Position(sequence[i]) = i
        /\ \A m : LinkIsset(m) => InSequence(m)
        /\ Last(Walk) = sequence[L]
    BY WalkFinds DEF InSequence
  <1>5. next'[ListHead] = sequence[L] /\ next'[sequence[1]] = 0
    BY <1>1, <1>2, <1>3, <1>4
  <1>6. ASSUME NEW i \in 2 .. L PROVE next'[sequence[i]] = sequence[i - 1]
    <2>1. i \in 1 .. L /\ i # 1
      BY <1>1
    <2>2. sequence[i] # ListHead /\ sequence[i] # Walk[1] /\ sequence[i] \in ListNodes
      BY <1>1, <1>3, <2>1
    <2> QED
      BY <1>1, <1>2, <1>4, <2>1, <2>2
  <1>7. ASSUME NEW m \in nodes, ~InSequence(m) PROVE next'[m] = 0
    BY <1>1, <1>2, <1>3, <1>4, <1>7 DEF InSequence
  <1>8. /\ sequence' \in Seq(nodes) /\ Len(sequence') = L
        /\ \A i \in 1 .. L : L - i + 1 \in 1 .. L /\ sequence'[i] = sequence[L - i + 1]
    <2>1. sequence' = [i \in 1 .. L |-> sequence[(L - i) + 1]]
      BY <1>2 DEF Reverse
    <2>2. \A i \in 1 .. L : (L - i) + 1 \in 1 .. L
      BY <1>1
    <2>3. sequence' \in [1 .. L -> nodes]
      BY <1>1, <2>1, <2>2
    <2>4. sequence' \in Seq(nodes)
      <3>1. L \in Nat
        BY <1>1
      <3> HIDE DEF L
      <3> QED
        BY <2>3, <3>1, SeqDef
    <2>5. Len(sequence') = L
      <3>1. DOMAIN sequence' = 1 .. L /\ DOMAIN sequence' = 1 .. Len(sequence')
            /\ Len(sequence') \in Nat
        BY <2>1, <2>4, LenProperties
      <3> QED
        BY <1>1, <1>2, <3>1
    <2> QED
      BY <2>1, <2>2, <2>4, <2>5
  <1>9. next' \in [ListNodes \cup {ListHead} -> Nat]
    <2>1. ASSUME NEW m \in ListNodes \cup {ListHead} PROVE next'[m] \in Nat
      <3>1. CASE m = ListHead
        BY <1>1, <1>3, <1>5, <3>1
      <3>2. CASE InSequence(m)
        <4>1. PICK i \in 1 .. L : m = sequence[i]
          BY <3>2 DEF InSequence
        <4>2. CASE i = 1
          BY <1>5, <4>1, <4>2
        <4>3. CASE i # 1
          <5>1. i \in 2 .. L /\ i - 1 \in 1 .. L
            BY <1>1, <4>3
          <5> QED
            BY <1>1, <1>6, <4>1, <5>1
        <4> QED
          BY <4>2, <4>3
      <3>3. CASE m # ListHead /\ ~InSequence(m)
        BY <1>1, <1>2, <1>3, <1>4, <3>3 DEF InSequence
      <3> QED
        BY <3>1, <3>2, <3>3
    <2> QED
      BY <1>2, <2>1
  <1>10. ASSUME NEW i \in 1 .. L, NEW j \in 1 .. L, sequence'[i] = sequence'[j]
         PROVE  i = j
    <2>1. L - i + 1 = L - j + 1
      BY <1>1, <1>8, <1>10
    <2> QED
      BY <1>1, <2>1
  <1>11. \A i \in 0 .. L : (After(i))' = IF i < L THEN sequence'[i + 1] ELSE 0
    BY <1>8 DEF After
  <1>12. next'[ListHead] = (After(0))'
    <2>1. 0 \in 0 .. L /\ 0 < L /\ L - 1 + 1 = L
      BY <1>1, <1>2
    <2> QED
      BY <1>3, <1>5, <1>8, <1>11, <2>1
  <1>13. ASSUME NEW i \in 1 .. L PROVE next'[sequence'[i]] = (After(i))'
    <2>1. i \in 0 .. L
      OBVIOUS
    <2>2. CASE i = L
      <3>1. L - i + 1 = 1 /\ ~(i < L)
        BY <1>1, <2>2
      <3> QED
        BY <1>5, <1>8, <1>11, <2>1, <3>1
    <2>3. CASE i # L
      <3>1. i < L /\ i + 1 \in 1 .. L /\ L - i + 1 \in 2 .. L
            /\ (L - i + 1) - 1 = L - (i + 1) + 1
        BY <1>1, <2>3
      <3>2. sequence'[i + 1] = sequence[(L - i + 1) - 1]
        BY <1>8, <3>1
      <3>3. next'[sequence'[i]] = sequence[(L - i + 1) - 1]
        BY <1>6, <1>8, <3>1
      <3> QED
        BY <1>11, <2>1, <3>1, <3>2, <3>3
    <2> QED
      BY <2>2, <2>3
  <1>14. ASSUME NEW m \in nodes PROVE InSequence(m)' \/ next'[m] = 0
    <2>1. CASE InSequence(m)
      <3>1. PICK i \in 1 .. L : sequence[i] = m
        BY <2>1 DEF InSequence
      <3>2. L - i + 1 \in 1 .. L /\ L - (L - i + 1) + 1 = i
        BY <1>1
      <3>3. sequence'[L - i + 1] = m
        BY <1>8, <3>1, <3>2
      <3> QED
        BY <1>8, <3>2, <3>3 DEF InSequence
    <2> QED
      BY <1>7, <2>1
  <1> QED
    BY <1>1, <1>2, <1>8, <1>9, <1>10, <1>12, <1>13, <1>14 DEF Linked

\* A node is created, apart from the list (my_link.c:22-30).
LEMMA LinkedCreated ==
  ASSUME Linked, NodeCreate
  PROVE  Linked'
  <1> DEFINE n == Min(ListNodes \ nodes)
  <1>1. /\ nodes \subseteq ListNodes /\ nodes # ListNodes /\ nodes' = nodes \cup {n}
        /\ next' = [next EXCEPT ![n] = 0] /\ sequence' = sequence
    BY DEF NodeCreate, Linked
  <1>2. n \in ListNodes \ nodes
    <2> DEFINE S == ListNodes \ nodes
    <2>1. S \in SUBSET Nat /\ S # {}
      <3>1. S # {}
        BY <1>1
      <3>2. ListNodes \subseteq Nat
        BY DEF ListNodes
      <3> QED
        BY <3>1, <3>2
    <2> HIDE DEF S
    <2>2. \E x \in S : \A y \in S : x <= y
      BY <2>1, LeastNatural
    <2>3. Min(S) \in S
      BY <2>2 DEF Min
    <2> QED
      BY <2>3 DEF S
  <1> HIDE DEF n
  <1>3. n # ListHead /\ n \in ListNodes /\ n \notin nodes
    BY <1>2, ListAssumption DEF ListNodes, ListHead
  <1>4. /\ next \in [ListNodes \cup {ListHead} -> Nat] /\ sequence \in Seq(nodes)
        /\ \A i, j \in 1 .. Len(sequence) : sequence[i] = sequence[j] => i = j
        /\ next[ListHead] = After(0)
        /\ \A i \in 1 .. Len(sequence) : next[sequence[i]] = After(i)
        /\ \A m \in nodes : InSequence(m) \/ next[m] = 0
        /\ \A i \in 1 .. Len(sequence) : sequence[i] \in nodes /\ sequence[i] \in ListNodes
    BY SequenceFits DEF Linked
  <1>5. /\ next' \in [ListNodes \cup {ListHead} -> Nat] /\ next'[n] = 0
        /\ \A m \in (ListNodes \cup {ListHead}) \ {n} : next'[m] = next[m]
    BY <1>1, <1>3, <1>4
  <1>6. sequence' \in Seq(nodes') /\ nodes' \subseteq ListNodes
    BY <1>1, <1>3, <1>4, SeqMonotonic
  <1>7. /\ \A i : (After(i))' = After(i)
        /\ \A m : InSequence(m)' <=> InSequence(m)
    BY <1>1 DEF After, InSequence
  <1>8. \A i \in 1 .. Len(sequence) : next'[sequence[i]] = After(i)
    BY <1>3, <1>4, <1>5
  <1>9. next'[ListHead] = After(0)
    BY <1>3, <1>4, <1>5
  <1>10. \A m \in nodes' : InSequence(m) \/ next'[m] = 0
    BY <1>1, <1>3, <1>4, <1>5
  <1> QED
    BY <1>1, <1>4, <1>5, <1>6, <1>7, <1>8, <1>9, <1>10 DEF Linked

\* An empty list is destroyed and a new one made (my_link.c:13-20, 116-135).
LEMMA LinkedDestroyed ==
  ASSUME Linked, LinkDestroy, ~wild'
  PROVE  Linked'
  <1>1. /\ nodes' \subseteq nodes /\ next' = [next EXCEPT ![ListHead] = 0]
        /\ nodes' = nodes \ Range(Walk) /\ sequence' = << >>
    BY DEF LinkDestroy, GoWild
  <1>2. /\ nodes \subseteq ListNodes /\ next \in [ListNodes \cup {ListHead} -> Nat]
        /\ \A m \in nodes : InSequence(m) \/ next[m] = 0
    BY DEF Linked
  <1>3. Len(sequence') = 0 /\ sequence' \in Seq(nodes')
    BY <1>1, EmptySeq
  <1>4. (After(0))' = 0
    BY <1>3 DEF After
  <1>5. ASSUME NEW m \in nodes' PROVE next'[m] = 0
    <2>1. m \in nodes /\ m \notin Range(Walk) /\ m # ListHead
      BY <1>1, <1>2, <1>5, ListAssumption DEF ListNodes, ListHead
    <2>2. ~InSequence(m)
      BY <2>1, WalkFinds DEF InSequence
    <2> QED
      BY <1>1, <1>2, <2>1, <2>2
  <1>6. next'[ListHead] = 0 /\ next' \in [ListNodes \cup {ListHead} -> Nat]
    BY <1>1, <1>2
  <1> QED
    BY <1>1, <1>2, <1>3, <1>4, <1>5, <1>6 DEF Linked

\* Every call on a defined program keeps the links.
LEMMA LlInvNext ==
  ASSUME LlInv, ListNext
  PROVE  LlInv'
  <1> SUFFICES ASSUME ~wild' PROVE Linked'
    BY DEF LlInv
  <1>1. ~wild
    BY DEF ListNext, NodeCreate, LinkReversal, LinkDestroy, LinkInsertTail, LinkInsertHead,
           LinkDelect, LinkInsert
  <1>2. Linked
    BY <1>1 DEF LlInv
  <1> DEFINE L == Len(sequence)
  <1>3. /\ L \in Nat /\ sequence \in Seq(nodes) /\ next[ListHead] = After(0)
        /\ \A i \in 1 .. L : next[sequence[i]] = After(i)
        /\ \A m \in nodes : InSequence(m) \/ next[m] = 0
        /\ next \in [ListNodes \cup {ListHead} -> Nat] /\ nodes \subseteq ListNodes
        /\ \A m \in ListNodes : m # ListHead
    BY <1>2, SequenceFits, ListAssumption DEF Linked, ListNodes, ListHead
  <1>4. CASE NodeCreate
    BY <1>2, <1>4, LinkedCreated
  <1>5. CASE LinkReversal
    BY <1>2, <1>5, LinkedReversed
  <1>6. CASE LinkDestroy
    BY <1>2, <1>6, LinkedDestroyed
  <1>7. ASSUME NEW n \in nodes, LinkDelect(n) PROVE Linked'
    BY <1>1, <1>2, <1>7, LinkedDeleted
  \* At the end: the new node's next is 0 already.
  <1>8. ASSUME NEW n \in nodes, LinkInsertTail(n) PROVE Linked'
    <2> DEFINE p == IF L = 0 THEN ListHead ELSE sequence[L]
    <2>1. ~InSequence(n) /\ next' = [next EXCEPT ![p] = n] /\ nodes' = nodes
          /\ sequence' = Append(sequence, n)
      BY <1>2, <1>8, WalkFinds DEF LinkInsertTail
    <2>2. next[n] = 0 /\ After(L) = 0
      BY <1>3, <2>1 DEF After
    <2>3. n # p
      BY <1>3, <2>1 DEF InSequence
    <2> HIDE DEF p
    <2>4. next' = [next EXCEPT ![n] = After(L), ![p] = n]
      BY <1>3, <2>1, <2>2, <2>3
    <2>5. sequence' \in Seq(nodes) /\ Grown(sequence, L, n, sequence')
      BY <1>3, <2>1, GrownIs
    <2>6. L \in 0 .. L /\ p = (IF L = 0 THEN ListHead ELSE sequence[L])
      BY <1>3 DEF p
    <2> QED
      BY <1>2, <2>1, <2>4, <2>5, <2>6, LinkedInserted
  \* In front: the new node's next stays 0 if the list is empty.
  <1>9. ASSUME NEW n \in nodes, LinkInsertHead(n) PROVE Linked'
    <2>1. ~InSequence(n) /\ nodes' = nodes /\ sequence' = <<n>> \o sequence
          /\ next' = [next EXCEPT ![n] = IF next[ListHead] # 0 THEN next[ListHead] ELSE next[n],
                                  ![ListHead] = n]
      BY <1>2, <1>9, WalkFinds DEF LinkInsertHead
    <2>2. (IF next[ListHead] # 0 THEN next[ListHead] ELSE next[n]) = After(0)
      BY <1>3, <2>1
    <2>3. next' = [next EXCEPT ![n] = After(0), ![ListHead] = n]
      BY <2>1, <2>2
    <2>4. sequence' \in Seq(nodes) /\ Grown(sequence, 0, n, sequence')
      BY <1>3, <2>1, GrownIs
    <2>5. 0 \in 0 .. L /\ ListHead = (IF 0 = 0 THEN ListHead ELSE sequence[0])
      BY <1>3
    <2> DEFINE z == 0
    <2>6. /\ z \in 0 .. L /\ ListHead = (IF z = 0 THEN ListHead ELSE sequence[z])
          /\ next' = [next EXCEPT ![n] = After(z), ![ListHead] = n]
          /\ Grown(sequence, z, n, sequence')
      BY <2>3, <2>4, <2>5
    <2> HIDE DEF z
    <2> QED
      BY <1>2, <2>1, <2>4, <2>6, LinkedInserted
  <1>10. ASSUME NEW n \in nodes, NEW prev \in nodes, LinkInsert(prev, n) PROVE Linked'
    <2>1. /\ ~InSequence(n) /\ InSequence(prev) /\ nodes' = nodes
          /\ next' = [next EXCEPT ![n] = next[prev], ![prev] = n]
          /\ sequence' = InsertAt(sequence, Position(prev) + 1, n)
      BY <1>2, <1>10, WalkFinds DEF LinkInsert
    <2>2. PICK k \in 1 .. L : sequence[k] = prev
      BY <2>1 DEF InSequence
    <2>3. Position(prev) = k /\ next[prev] = After(k) /\ k \in 0 .. L /\ k # 0
      BY <1>2, <1>3, <2>2, WalkFinds
    <2>4. sequence' \in Seq(nodes) /\ Grown(sequence, k, n, sequence')
      BY <1>3, <2>1, <2>3, GrownIs
    <2>5. next' = [next EXCEPT ![n] = After(k), ![prev] = n]
      BY <2>1, <2>3
    <2> QED
      BY <1>2, <2>1, <2>2, <2>3, <2>4, <2>5, LinkedInserted
  <1> QED
    BY <1>4, <1>5, <1>6, <1>7, <1>8, <1>9, <1>10 DEF ListNext

\* A new list is empty (my_link.c:13-20).
LEMMA LlInvInit ==
  ASSUME ListInit
  PROVE  LlInv
  <1>1. sequence = << >> /\ Len(sequence) = 0 /\ nodes = {} /\ sequence \in Seq(nodes)
    BY EmptySeq DEF ListInit
  <1>2. next = [n \in ListNodes \cup {ListHead} |-> 0]
    BY DEF ListInit
  <1>3. next \in [ListNodes \cup {ListHead} -> Nat] /\ next[ListHead] = 0
    BY <1>2
  <1>4. After(0) = 0
    BY <1>1 DEF After
  <1> QED
    BY <1>1, <1>3, <1>4 DEF LlInv, Linked

\* As long as the program is defined its list is the sequence its calls describe, for
\* any number of nodes (my_link.c:31-168).
THEOREM ListStaysSequence == ListSpec => []ListIsSequence
  <1>1. LlInv /\ [ListNext]_llVars => LlInv'
    <2>1. ASSUME LlInv, UNCHANGED llVars PROVE LlInv'
      BY <2>1 DEF LlInv, Linked, After, InSequence, llVars
    <2> QED
      BY <2>1, LlInvNext
  <1>2. ASSUME LlInv PROVE ListIsSequence
    <2> SUFFICES ASSUME ~wild
                 PROVE  Walk = sequence /\ IsInjective(Walk) /\ Range(Walk) \subseteq nodes
      BY DEF ListIsSequence
    <2>1. Linked
      BY <1>2 DEF LlInv
    <2>2. Walk = sequence /\ DOMAIN sequence = 1 .. Len(sequence)
          /\ Range(Walk) = {sequence[i] : i \in 1 .. Len(sequence)}
          /\ \A i \in 1 .. Len(sequence) : sequence[i] \in nodes
      BY <2>1, WalkIsSequence, WalkFinds, SequenceFits
    <2>3. IsInjective(Walk)
      BY <2>1, <2>2 DEF IsInjective, Linked
    <2> QED
      BY <2>2, <2>3
  <1> QED
    BY <1>1, <1>2, LlInvInit, PTL DEF ListSpec

-----------------------------------------------------------------------------
(* quick_sort.  While it sorts, the array stands for an arrangement of the   *)
(* input in which the elements that were cleared are still there.            *)

\* The arrangement v of the elements of s: pi says where they come from.
Arranges(s, N, v, pi) ==
  /\ s \in [1 .. N -> Nat \ {0}] /\ v \in [1 .. N -> Nat \ {0}] /\ pi \in [1 .. N -> 1 .. N]
  /\ \A k \in 1 .. N : v[k] = s[pi[k]]
  /\ \A j, k \in 1 .. N : j # k => pi[j] # pi[k]
  /\ \A i \in 1 .. N : \E k \in 1 .. N : pi[k] = i

\* A part of the array, from its first to its last position.
Within(P, k) == P[1] <= k /\ k <= P[2]

\* Elements in the wrong order are in the same part.
SortedBut(v, N, S) ==
  \A i, j \in 1 .. N : i < j /\ v[i] > v[j] => \E P \in S : Within(P, i) /\ Within(P, j)

\* The array is that arrangement, except for elements that were cleared; they are in no part.
Shows(a, N, v, S) ==
  /\ a \in [1 .. N -> Nat]
  /\ \A k \in 1 .. N : a[k] = v[k] \/ (a[k] = 0 /\ \A P \in S : ~ Within(P, k))

\* The parts whose call has not begun, and the one that is worked on.
Waiting == {stack[i] : i \in 1 .. Len(stack)}
Open == Waiting \cup (IF part = << >> THEN {} ELSE {<<part[1].begin, part[1].end>>})

\* The parts that wait are one behind the other, the first of them not before from.
InLine(N, st, from) ==
  /\ st \in Seq(Int \X Int)
  /\ \A i \in 1 .. Len(st) : /\ from <= st[i][1] /\ st[i][1] <= st[i][2] + 1 /\ st[i][2] <= N
  /\ \A i, j \in 1 .. Len(st) : i < j => st[i][2] < st[j][1]

\* What the scans of a part have passed is on the right side of the pivot.
Scanned(a, N, p) ==
  /\ p \in [begin : Int, end : Int, left : Int, right : Int]
  /\ 1 <= p.begin /\ p.begin < p.left /\ p.left <= p.right /\ p.right <= p.end /\ p.end <= N
  /\ \A k \in p.begin + 1 .. p.left - 1 : a[k] <= a[p.begin]
  /\ \A k \in p.right + 1 .. p.end : a[k] >= a[p.begin]

\* The inductive invariant.
QuickState(N, v, pi) ==
  /\ N \in Nat /\ array = [input |-> array.input, now |-> array.now]
  /\ Arranges(array.input, N, v, pi) /\ Shows(array.now, N, v, Open) /\ SortedBut(v, N, Open)
  /\ IF part = << >> THEN InLine(N, stack, 1)
     ELSE /\ part = <<part[1]>> /\ Scanned(array.now, N, part[1])
          /\ InLine(N, stack, part[1].end + 1)

\* There are such an arrangement and a length.
QuickInv == \E N, v, pi : QuickState(N, v, pi)

\* The arrangement with two elements in each other's place.
Exchanged(v, x, y) == [v EXCEPT ![x] = v[y], ![y] = v[x]]

\* What that is.
IsExchange(N, C, v, x, y, w) ==
  /\ w \in [1 .. N -> C] /\ w[x] = v[y] /\ w[y] = v[x]
  /\ \A k \in 1 .. N : k # x /\ k # y => w[k] = v[k]

\* It is that for any two places.
LEMMA ExchangedIs ==
  ASSUME NEW N, NEW C, NEW v \in [1 .. N -> C], NEW x \in 1 .. N, NEW y \in 1 .. N
  PROVE  IsExchange(N, C, v, x, y, Exchanged(v, x, y))
  BY DEF Exchanged, IsExchange

\* It is an arrangement of the same elements.
LEMMA ExchangeArranges ==
  ASSUME NEW s, NEW N, NEW v, NEW pi, Arranges(s, N, v, pi), NEW x \in 1 .. N, NEW y \in 1 .. N
  PROVE  Arranges(s, N, Exchanged(v, x, y), Exchanged(pi, x, y))
  <1> DEFINE w == Exchanged(v, x, y)
             ro == Exchanged(pi, x, y)
  <1>0. v \in [1 .. N -> Nat \ {0}] /\ pi \in [1 .. N -> 1 .. N]
    BY DEF Arranges
  <1>1. IsExchange(N, Nat \ {0}, v, x, y, w)
    BY <1>0, ExchangedIs
  <1>2. IsExchange(N, 1 .. N, pi, x, y, ro)
    BY <1>0, ExchangedIs
  <1> HIDE DEF w, ro
  <1>3. ASSUME NEW k \in 1 .. N PROVE w[k] = s[ro[k]]
    <2>1. v[x] = s[pi[x]] /\ v[y] = s[pi[y]] /\ v[k] = s[pi[k]]
      BY DEF Arranges
    <2> QED
      BY <1>1, <1>2, <2>1 DEF IsExchange
  <1>4. ASSUME NEW j \in 1 .. N, NEW k \in 1 .. N, j # k, ro[j] = ro[k] PROVE FALSE
    <2>1. \A m \in 1 .. N, l \in 1 .. N : pi[l] = pi[m] => l = m
      BY DEF Arranges
    <2> QED
      BY <1>2, <1>4, <2>1 DEF IsExchange
  <1>5. ASSUME NEW i \in 1 .. N PROVE \E k \in 1 .. N : ro[k] = i
    <2>1. PICK k \in 1 .. N : pi[k] = i
      BY DEF Arranges
    <2> QED
      BY <1>2, <2>1 DEF IsExchange
  <1>6. Arranges(s, N, w, ro)
    <2>1. s \in [1 .. N -> Nat \ {0}] /\ w \in [1 .. N -> Nat \ {0}] /\ ro \in [1 .. N -> 1 .. N]
      BY <1>1, <1>2 DEF Arranges, IsExchange
    <2> QED
      BY <1>3, <1>4, <1>5, <2>1 DEF Arranges
  <1> QED
    BY <1>6 DEF w, ro

\* What is on one side of an element of a part is on that side of all of them.
LEMMA PartIsConvex ==
  ASSUME NEW P \in Int \X Int, NEW i \in Int, NEW j \in Int, NEW k \in Int,
         Within(P, i), Within(P, k), ~ Within(P, j)
  PROVE  (i < j => k < j) /\ (j < i => j < k)
  <1> DEFINE x == P[1]
             y == P[2]
  <1>1. x \in Int /\ y \in Int /\ x <= i /\ k <= y /\ x <= k /\ i <= y /\ ~ (x <= j /\ j <= y)
    BY DEF Within
  <1> HIDE DEF x, y
  <1> QED
    BY <1>1

\* An exchange within a part leaves the order of the others.
LEMMA ExchangeKeepsOrder ==
  ASSUME NEW N \in Nat, NEW v \in [1 .. N -> Nat], NEW S, NEW P \in Int \X Int,
         SortedBut(v, N, S \cup {P}), \A k \in 1 .. N : Within(P, k) => \A Q \in S : ~ Within(Q, k),
         NEW x \in 1 .. N, NEW y \in 1 .. N, Within(P, x), Within(P, y)
  PROVE  SortedBut(Exchanged(v, x, y), N, S \cup {P})
  <1> DEFINE w == Exchanged(v, x, y)
  <1>1. /\ w \in [1 .. N -> Nat] /\ w[x] = v[y] /\ w[y] = v[x]
        /\ \A k \in 1 .. N : k # x /\ k # y => w[k] = v[k]
    <2>1. IsExchange(N, Nat, v, x, y, w)
      BY ExchangedIs
    <2> HIDE DEF w
    <2> QED
      BY <2>1 DEF IsExchange
  <1> HIDE DEF w
  <1> SUFFICES ASSUME NEW i \in 1 .. N, NEW j \in 1 .. N, i < j, w[i] > w[j]
               PROVE  \E Q \in S \cup {P} : Within(Q, i) /\ Within(Q, j)
    BY DEF SortedBut, w
  <1>2. CASE Within(P, i) /\ Within(P, j)
    BY <1>2
  <1>3. CASE ~ Within(P, i) /\ ~ Within(P, j)
    <2>1. w[i] = v[i] /\ w[j] = v[j]
      BY <1>1, <1>3
    <2> QED
      BY <2>1 DEF SortedBut
  <1>4. CASE Within(P, i) /\ ~ Within(P, j)
    <2>1. PICK k \in 1 .. N : Within(P, k) /\ w[i] = v[k]
      BY <1>1, <1>4
    <2>2. w[j] = v[j]
      BY <1>1, <1>4
    <2>3. k < j
      BY <1>4, <2>1, PartIsConvex
    <2>4. PICK Q \in S \cup {P} : Within(Q, k) /\ Within(Q, j)
      BY <2>1, <2>2, <2>3 DEF SortedBut
    <2> QED
      BY <1>4, <2>1, <2>4
  <1>5. CASE ~ Within(P, i) /\ Within(P, j)
    <2>1. PICK k \in 1 .. N : Within(P, k) /\ w[j] = v[k]
      BY <1>1, <1>5
    <2>2. w[i] = v[i]
      BY <1>1, <1>5
    <2>3. i < k
      BY <1>5, <2>1, PartIsConvex
    <2>4. PICK Q \in S \cup {P} : Within(Q, i) /\ Within(Q, k)
      BY <2>1, <2>2, <2>3 DEF SortedBut
    <2> QED
      BY <1>5, <2>1, <2>4
  <1> QED
    BY <1>2, <1>3, <1>4, <1>5

\* A part whose elements are divided by that at r is two parts.
LEMMA DividedKeepsOrder ==
  ASSUME NEW N \in Nat, NEW v \in [1 .. N -> Nat], NEW S, NEW b \in Int, NEW e \in Int, NEW r \in 1 .. N,
         SortedBut(v, N, S \cup {<<b, e>>}), b <= r, r <= e, 1 <= b, e <= N,
         \A k \in b .. r - 1 : v[k] <= v[r], \A k \in r + 1 .. e : v[k] >= v[r]
  PROVE  SortedBut(v, N, S \cup {<<b, r - 1>>, <<r + 1, e>>})
  <1> SUFFICES ASSUME NEW i \in 1 .. N, NEW j \in 1 .. N, i < j, v[i] > v[j]
               PROVE  \E Q \in S \cup {<<b, r - 1>>, <<r + 1, e>>} : Within(Q, i) /\ Within(Q, j)
    BY DEF SortedBut
  <1>1. PICK Q \in S \cup {<<b, e>>} : Within(Q, i) /\ Within(Q, j)
    BY DEF SortedBut
  <1>2. CASE Q \in S
    BY <1>1, <1>2
  <1>3. CASE Q = <<b, e>>
    <2>1. b <= i /\ j <= e
      BY <1>1, <1>3 DEF Within
    <2>2. CASE j < r
      <3>1. Within(<<b, r - 1>>, i) /\ Within(<<b, r - 1>>, j)
        BY <2>1, <2>2 DEF Within
      <3> QED
        BY <3>1
    <2>3. CASE i > r
      <3>1. Within(<<r + 1, e>>, i) /\ Within(<<r + 1, e>>, j)
        BY <2>1, <2>3 DEF Within
      <3> QED
        BY <3>1
    <2>4. CASE i <= r /\ r <= j
      <3>1. i < r => v[i] <= v[r]
        BY <2>1, <2>4
      <3>2. r < j => v[r] <= v[j]
        BY <2>1, <2>4
      <3>3. v[i] \in Nat /\ v[j] \in Nat /\ v[r] \in Nat
        OBVIOUS
      <3>4. v[i] <= v[r] /\ v[r] <= v[j]
        BY <2>4, <3>1, <3>2, <3>3
      <3> QED
        BY <3>3, <3>4
    <2> QED
      BY <2>2, <2>3, <2>4
  <1> QED
    BY <1>1, <1>2, <1>3

\* The least and the greatest element of a set of numbers.
LEMMA MinFacts ==
  ASSUME NEW S \in SUBSET Nat, S # {}
  PROVE  Min(S) \in S /\ \A k \in S : Min(S) <= k
  BY LeastNatural DEF Min

\* For the greatest one the set has to be bounded.
LEMMA MaxFacts ==
  ASSUME NEW m \in Nat, NEW S \in SUBSET (0 .. m), S # {}
  PROVE  Max(S) \in S /\ \A k \in S : k <= Max(S)
  <1> DEFINE R == {m - k : k \in S}
  <1>1. R \in SUBSET Nat /\ R # {}
    <2>1. \A k \in S : m - k \in Nat
      OBVIOUS
    <2>2. PICK k \in S : TRUE
      OBVIOUS
    <2>3. m - k \in R
      OBVIOUS
    <2> QED
      BY <2>1, <2>3
  <1>2. PICK n \in R : \A k \in R : n <= k
    BY <1>1, LeastNatural
  <1>3. PICK x \in S : n = m - x
    BY <1>2
  <1>4. ASSUME NEW k \in S PROVE k <= x
    <2>1. m - k \in R
      OBVIOUS
    <2>2. m - x <= m - k
      BY <1>2, <1>3, <2>1
    <2> QED
      BY <2>2
  <1> QED
    BY <1>3, <1>4 DEF Max

\* Where the scans stop, and what they pass (quicksort.cpp:21-36).
LEMMA ScanLeftFacts ==
  ASSUME NEW N \in Nat, NEW p, Scanned(array.now, N, p), array.now \in [1 .. N -> Nat], NEW l, l = ScanLeft(p)
  PROVE  /\ l \in p.left .. p.end /\ (l = p.end \/ array.now[l] >= array.now[p.begin])
         /\ \A k \in p.left .. l - 1 : array.now[k] <= array.now[p.begin]
  <1> DEFINE S == {k \in p.left .. p.end : k = p.end \/ array.now[k] >= array.now[p.begin]}
  <1>1. /\ p.begin \in 1 .. N /\ p.left \in 1 .. N /\ p.end \in 1 .. N /\ p.left <= p.end
    BY DEF Scanned
  <1>2. S \in SUBSET Nat /\ p.end \in S
    BY <1>1
  <1>3. l \in S /\ \A k \in S : l <= k
    <2>1. l = Min(S)
      BY DEF ScanLeft
    <2> HIDE DEF S
    <2>2. S # {}
      BY <1>2
    <2>3. Min(S) \in S /\ \A k \in S : Min(S) <= k
      BY <1>2, <2>2, MinFacts
    <2> QED
      BY <2>1, <2>3
  <1>4. ASSUME NEW k \in p.left .. l - 1 PROVE array.now[k] <= array.now[p.begin]
    <2>1. k \in p.left .. p.end /\ k \notin S /\ k \in 1 .. N
      BY <1>1, <1>3
    <2>2. ~(array.now[k] >= array.now[p.begin])
      BY <2>1
    <2>3. array.now[k] \in Nat /\ array.now[p.begin] \in Nat
      BY <1>1, <2>1
    <2> QED
      BY <2>2, <2>3
  <1> QED
    BY <1>3, <1>4

\* The same for the scan from the right.
LEMMA ScanRightFacts ==
  ASSUME NEW N \in Nat, NEW p, Scanned(array.now, N, p), array.now \in [1 .. N -> Nat], NEW r, r = ScanRight(p)
  PROVE  /\ r \in p.begin .. p.right /\ (r = p.begin \/ array.now[r] <= array.now[p.begin])
         /\ \A k \in r + 1 .. p.right : array.now[k] >= array.now[p.begin]
  <1> DEFINE S == {k \in p.begin .. p.right : k = p.begin \/ array.now[k] <= array.now[p.begin]}
  <1>1. /\ p.begin \in 1 .. N /\ p.right \in 1 .. N /\ p.begin <= p.right
    BY DEF Scanned
  <1>2. S \in SUBSET (0 .. N) /\ p.begin \in S
    BY <1>1
  <1>3. r \in S /\ \A k \in S : k <= r
    <2>1. r = Max(S)
      BY DEF ScanRight
    <2> HIDE DEF S
    <2>2. S # {}
      BY <1>2
    <2>3. Max(S) \in S /\ \A k \in S : k <= Max(S)
      BY <1>2, <2>2, MaxFacts
    <2> QED
      BY <2>1, <2>3
  <1>4. ASSUME NEW k \in r + 1 .. p.right PROVE array.now[k] >= array.now[p.begin]
    <2>1. k \in p.begin .. p.right /\ k \notin S /\ k \in 1 .. N
      <3>1. r \in Int /\ p.begin <= r /\ p.begin \in Int /\ p.right \in Int /\ 1 <= p.begin /\ p.right <= N
        BY <1>1, <1>3
      <3>2. k \in Int /\ r < k /\ k <= p.right
        BY <3>1
      <3>3. k \in p.begin .. p.right /\ k \in 1 .. N
        BY <3>1, <3>2
      <3>4. ~(k <= r)
        BY <3>1, <3>2
      <3> HIDE DEF S
      <3> QED
        BY <1>3, <3>3, <3>4
    <2>2. ~(array.now[k] <= array.now[p.begin])
      BY <2>1
    <2>3. array.now[k] \in Nat /\ array.now[p.begin] \in Nat
      BY <1>1, <2>1
    <2> QED
      BY <2>2, <2>3
  <1> QED
    BY <1>3, <1>4

\* The elements that are at most or less than that at k in a sorted arrangement.
LEMMA RankInOrder ==
  ASSUME NEW N \in Nat, NEW s, NEW v, NEW pi, Arranges(s, N, v, pi), SortedBut(v, N, {}), NEW k \in 1 .. N
  PROVE  IsKth(s, k, v[k])
  <1> DEFINE x == v[k]
             Less == {i \in DOMAIN s : s[i] < x}
             AtMost == {i \in DOMAIN s : s[i] <= x}
             f == [j \in 1 .. N |-> pi[j]]
  <1>1. /\ DOMAIN s = 1 .. N /\ \A j \in 1 .. N : v[j] \in Nat /\ s[j] \in Nat /\ pi[j] \in 1 .. N /\ v[j] = s[pi[j]]
    BY DEF Arranges
  <1>2. \A i \in 1 .. N : \E j \in 1 .. N : pi[j] = i
    BY DEF Arranges
  <1>3. \A i, j \in 1 .. N : i < j => v[i] <= v[j]
    BY <1>1 DEF SortedBut
  <1>4. IsFiniteSet(1 .. N) /\ IsFiniteSet(1 .. k) /\ Cardinality(1 .. k) = k
    BY FS_Interval
  <1>5. IsFiniteSet(Less) /\ IsFiniteSet(AtMost)
    <2>1. Less \subseteq 1 .. N /\ AtMost \subseteq 1 .. N
      BY <1>1
    <2> QED
      BY <1>4, <2>1, FS_Subset
  <1>6. Cardinality(Less) < k
    <2> DEFINE Before == 1 .. k - 1
               g == [i \in Less |-> CHOOSE j \in 1 .. N : pi[j] = i]
    <2>1. IsFiniteSet(Before) /\ Cardinality(Before) = k - 1
      BY FS_Interval
    <2>2. \A i \in Less : g[i] \in 1 .. N /\ pi[g[i]] = i
      BY <1>1, <1>2
    <2> HIDE DEF g
    <2>3. ASSUME NEW i \in Less PROVE g[i] \in Before
      <3>1. g[i] \in 1 .. N /\ pi[g[i]] = i /\ s[i] < v[k]
        BY <2>2
      <3>2. v[g[i]] < v[k]
        BY <1>1, <3>1
      <3>3. ~(k < g[i]) /\ k # g[i]
        BY <1>1, <1>3, <3>1, <3>2
      <3> QED
        BY <3>1, <3>3
    <2>4. g \in Injection(Less, Before)
      <3>1. g \in [Less -> Before]
        BY <2>3 DEF g
      <3>2. \A i, j \in Less : g[i] = g[j] => i = j
        BY <2>2
      <3> QED
        BY <3>1, <3>2, Zenon DEF Injection, IsInjective
    <2>5. Cardinality(Less) <= Cardinality(Before)
      BY <1>5, <2>1, <2>4, FS_Injection DEF ExistsInjection
    <2>6. Cardinality(Less) \in Nat
      BY <1>5, FS_CardinalityType
    <2> QED
      BY <2>1, <2>5, <2>6
  <1>7. Cardinality(AtMost) >= k
    <2> DEFINE h == [j \in 1 .. k |-> pi[j]]
    <2>1. ASSUME NEW j \in 1 .. k PROVE pi[j] \in AtMost
      <3>1. j \in 1 .. N /\ v[j] <= v[k]
        BY <1>1, <1>3
      <3> QED
        BY <1>1, <3>1
    <2>2. h \in Injection(1 .. k, AtMost)
      <3>1. h \in [1 .. k -> AtMost]
        BY <2>1
      <3>2. ASSUME NEW i \in 1 .. k, NEW j \in 1 .. k, h[i] = h[j] PROVE i = j
        <4>1. i \in 1 .. N /\ j \in 1 .. N /\ pi[i] = pi[j]
          BY <3>2
        <4> QED
          BY <4>1 DEF Arranges
      <3> HIDE DEF h, AtMost
      <3> QED
        BY <3>1, <3>2, Zenon DEF Injection, IsInjective
    <2>3. k <= Cardinality(AtMost)
      BY <1>4, <1>5, <2>2, FS_Injection DEF ExistsInjection
    <2>4. Cardinality(AtMost) \in Nat
      BY <1>5, FS_CardinalityType
    <2> QED
      BY <2>3, <2>4
  <1> QED
    BY <1>6, <1>7 DEF IsKth

\* If it returns, the elements are placed.
LEMMA QuickPlaces ==
  ASSUME QuickInv, Returned
  PROVE  Placed
  <1>1. PICK N, v, pi : QuickState(N, v, pi)
    BY DEF QuickInv
  <1>2. Open = {}
    <2>1. Len(stack) = 0 /\ part = << >>
      BY DEF Returned
    <2> QED
      BY <2>1 DEF Open, Waiting
  <1>3. /\ Arranges(array.input, N, v, pi) /\ SortedBut(v, N, {}) /\ N \in Nat
        /\ DOMAIN array.now = 1 .. N /\ \A k \in 1 .. N : array.now[k] \in {v[k], 0}
    BY <1>1, <1>2 DEF QuickState, Shows
  <1>4. ASSUME NEW k \in 1 .. N PROVE array.now[k] = 0 \/ IsKth(array.input, k, array.now[k])
    BY <1>3, RankInOrder
  <1> QED
    BY <1>3, <1>4 DEF Placed

\* What is behind the first element of a sequence.
LEMMA TailFacts ==
  ASSUME NEW C, NEW st \in Seq(C), st # << >>
  PROVE  /\ Tail(st) \in Seq(C) /\ Len(Tail(st)) = Len(st) - 1 /\ Len(st) \in Nat \ {0} /\ Head(st) = st[1]
         /\ \A i \in 1 .. Len(st) - 1 : Tail(st)[i] = st[i + 1]
  OBVIOUS

\* The line t is st without its first part P.
WaitBehind(N, st, m, P, t) ==
  /\ InLine(N, t, m) /\ InLine(N, t, P[2] + 1)
  /\ {st[i] : i \in 1 .. Len(st)} = {P} \cup {t[i] : i \in 1 .. Len(t)}
  /\ P \in Int \X Int /\ m <= P[1] /\ P[2] <= N

\* The parts that wait behind the first one are in line, too.
LEMMA LineBehind ==
  ASSUME NEW N, NEW st, NEW m, InLine(N, st, m), st # << >>
  PROVE  WaitBehind(N, st, m, Head(st), Tail(st))
  <1> DEFINE t == Tail(st)
  <1>1. /\ t \in Seq(Int \X Int) /\ Len(t) = Len(st) - 1 /\ Len(st) \in Nat \ {0} /\ Head(st) = st[1]
        /\ \A i \in 1 .. Len(st) - 1 : t[i] = st[i + 1]
    BY TailFacts DEF InLine
  <1> HIDE DEF t
  <1>2. \A i \in 1 .. Len(t) : i + 1 \in 1 .. Len(st) /\ t[i] = st[i + 1]
    BY <1>1
  <1>3. /\ \A i \in 1 .. Len(st) : /\ st[i] \in Int \X Int /\ m <= st[i][1] /\ st[i][1] <= st[i][2] + 1 /\ st[i][2] <= N
        /\ \A i, j \in 1 .. Len(st) : i < j => st[i][2] < st[j][1]
    BY DEF InLine
  <1>4. /\ \A i \in 1 .. Len(t) : m <= t[i][1] /\ t[i][1] <= t[i][2] + 1 /\ t[i][2] <= N
        /\ \A i, j \in 1 .. Len(t) : i < j => t[i][2] < t[j][1]
    <2>1. ASSUME NEW i \in 1 .. Len(t) PROVE m <= t[i][1] /\ t[i][1] <= t[i][2] + 1 /\ t[i][2] <= N
      <3>1. i + 1 \in 1 .. Len(st) /\ t[i] = st[i + 1]
        BY <1>2
      <3> QED
        BY <1>3, <3>1
    <2>2. ASSUME NEW i \in 1 .. Len(t), NEW j \in 1 .. Len(t), i < j PROVE t[i][2] < t[j][1]
      <3>1. i + 1 \in 1 .. Len(st) /\ t[i] = st[i + 1] /\ j + 1 \in 1 .. Len(st) /\ t[j] = st[j + 1]
        BY <1>2
      <3>2. i + 1 < j + 1
        BY <2>2
      <3> QED
        BY <1>3, <3>1, <3>2
    <2> QED
      BY <2>1, <2>2
  <1>5. InLine(N, t, m)
    BY <1>1, <1>4 DEF InLine
  <1>6. 1 \in 1 .. Len(st) /\ st[1] \in Int \X Int /\ m <= st[1][1] /\ st[1][2] <= N
    BY <1>1, <1>3
  <1>7. \A i \in 1 .. Len(t) : st[1][2] + 1 <= t[i][1]
    <2> SUFFICES ASSUME NEW i \in 1 .. Len(t) PROVE st[1][2] + 1 <= t[i][1]
      OBVIOUS
    <2>1. i + 1 \in 1 .. Len(st) /\ 1 < i + 1 /\ t[i] = st[i + 1]
      BY <1>2
    <2>2. st[1][2] < st[i + 1][1] /\ st[i + 1][1] \in Int /\ st[1][2] \in Int
      BY <1>3, <1>6, <2>1
    <2> QED
      BY <2>1, <2>2
  <1>8. InLine(N, t, st[1][2] + 1)
    BY <1>1, <1>4, <1>7 DEF InLine
  <1>9. {st[i] : i \in 1 .. Len(st)} = {st[1]} \cup {t[i] : i \in 1 .. Len(t)}
    <2>1. ASSUME NEW i \in 1 .. Len(st), i # 1 PROVE \E j \in 1 .. Len(t) : st[i] = t[j]
      <3>1. i - 1 \in 1 .. Len(t) /\ (i - 1) + 1 = i
        BY <1>1, <2>1
      <3> QED
        BY <1>2, <3>1
    <2>2. ASSUME NEW j \in 1 .. Len(t) PROVE \E i \in 1 .. Len(st) : st[i] = t[j]
      BY <1>2
    <2> HIDE DEF t
    <2>3. ASSUME NEW i \in 1 .. Len(st) PROVE st[i] \in {st[1]} \cup {t[j] : j \in 1 .. Len(t)}
      <3>1. CASE i = 1
        BY <3>1
      <3>2. CASE i # 1
        BY <2>1, <3>2
      <3> QED
        BY <3>1, <3>2
    <2>4. ASSUME NEW j \in 1 .. Len(t) PROVE t[j] \in {st[i] : i \in 1 .. Len(st)}
      BY <2>2
    <2>5. st[1] \in {st[i] : i \in 1 .. Len(st)}
      BY <1>6
    <2> QED
      BY <2>3, <2>4, <2>5
  <1> QED
    BY <1>1, <1>5, <1>6, <1>8, <1>9 DEF t, WaitBehind

\* t is s and behind it u, which have k and n elements.
Joined(C, s, k, u, n, t) ==
  /\ t \in Seq(C) /\ Len(t) = k + n
  /\ \A i \in 1 .. k + n : t[i] = IF i <= k THEN s[i] ELSE u[i - k]

\* The code's concatenation is such a one.
LEMMA ConcatJoins ==
  ASSUME NEW C, NEW s \in Seq(C), NEW u \in Seq(C)
  PROVE  Joined(C, s, Len(s), u, Len(u), s \o u)
  BY DEF Joined

\* The parts P1 and P2 come before those of st.
WaitAhead(N, st, P1, P2, t) ==
  InLine(N, t, 1) /\ {t[i] : i \in 1 .. Len(t)} = {st[i] : i \in 1 .. Len(st)} \cup {P1, P2}

\* They may if the others begin behind them.
LEMMA LineAhead ==
  ASSUME NEW N \in Nat, NEW st, NEW b \in Int, NEW r \in Int, NEW e \in Int, 1 <= b, b <= r, r <= e, e <= N,
         InLine(N, st, e + 1)
  PROVE  WaitAhead(N, st, <<b, r - 1>>, <<r + 1, e>>, <<<<b, r - 1>>, <<r + 1, e>>>> \o st)
  <1> DEFINE P1 == <<b, r - 1>>
             P2 == <<r + 1, e>>
             t == <<P1, P2>> \o st
             n == Len(st)
  <1>1. P1 \in Int \X Int /\ P2 \in Int \X Int /\ P1[1] = b /\ P1[2] = r - 1 /\ P2[1] = r + 1 /\ P2[2] = e
    OBVIOUS
  <1>2. st \in Seq(Int \X Int) /\ n \in Nat /\ \A i \in 1 .. n : st[i] \in Int \X Int
    BY DEF InLine
  <1> HIDE DEF P1, P2
  <1>3. /\ t \in Seq(Int \X Int) /\ Len(t) = n + 2 /\ t[1] = P1 /\ t[2] = P2
        /\ \A i \in 3 .. n + 2 : t[i] = st[i - 2]
    <2> DEFINE h == <<P1, P2>>
    <2>1. h \in Seq(Int \X Int) /\ Len(h) = 2 /\ h[1] = P1 /\ h[2] = P2
      BY <1>1
    <2>2. t = h \o st
      OBVIOUS
    <2> HIDE DEF h, t, n
    <2>3. /\ t \in Seq(Int \X Int) /\ Len(t) = 2 + n
          /\ \A i \in 1 .. 2 + n : t[i] = IF i <= 2 THEN h[i] ELSE st[i - 2]
      <3>1. Joined(Int \X Int, h, Len(h), st, Len(st), h \o st)
        BY <1>2, <2>1, ConcatJoins
      <3>2. Joined(Int \X Int, h, 2, st, n, t)
        BY <2>1, <2>2, <3>1 DEF n
      <3> QED
        BY <3>2 DEF Joined
    <2>4. t[1] = h[1] /\ t[2] = h[2]
      BY <1>2, <2>3
    <2>5. ASSUME NEW i \in 3 .. n + 2 PROVE t[i] = st[i - 2]
      <3>1. i \in 1 .. 2 + n /\ ~(i <= 2)
        BY <1>2
      <3> QED
        BY <2>3, <3>1
    <2>6. 2 + n = n + 2
      BY <1>2
    <2> QED
      BY <2>1, <2>3, <2>4, <2>5, <2>6
  <1>4. /\ \A i \in 1 .. n : e + 1 <= st[i][1] /\ st[i][1] <= st[i][2] + 1 /\ st[i][2] <= N
        /\ \A i, j \in 1 .. n : i < j => st[i][2] < st[j][1]
    BY DEF InLine
  <1> HIDE DEF t, n
  <1>5. \A i \in 1 .. n + 2 : i = 1 \/ i = 2 \/ (i >= 3 /\ i - 2 \in 1 .. n /\ t[i] = st[i - 2])
    <2> SUFFICES ASSUME NEW i \in 1 .. n + 2, i # 1, i # 2
                 PROVE  i >= 3 /\ i - 2 \in 1 .. n /\ t[i] = st[i - 2]
      OBVIOUS
    <2>1. i \in 3 .. n + 2 /\ i - 2 \in 1 .. n /\ i >= 3
      BY <1>2
    <2> QED
      BY <1>3, <2>1
  <1>6. ASSUME NEW i \in 1 .. n + 2 PROVE 1 <= t[i][1] /\ t[i][1] <= t[i][2] + 1 /\ t[i][2] <= N
    <2>1. CASE i = 1
      <3>1. t[i] = P1
        BY <1>3, <2>1
      <3> QED
        BY <1>1, <3>1
    <2>2. CASE i = 2
      <3>1. t[i] = P2
        BY <1>3, <2>2
      <3> QED
        BY <1>1, <3>1
    <2>3. CASE i - 2 \in 1 .. n /\ t[i] = st[i - 2]
      <3>1. e + 1 <= t[i][1] /\ t[i][1] <= t[i][2] + 1 /\ t[i][2] <= N /\ t[i][1] \in Int
        BY <1>2, <1>4, <2>3
      <3> QED
        BY <3>1
    <2> QED
      BY <1>5, <2>1, <2>2, <2>3
  <1>7. ASSUME NEW i \in 1 .. n + 2, NEW j \in 1 .. n + 2, i < j PROVE t[i][2] < t[j][1]
    <2>1. CASE i # 1 /\ i # 2
      <3>1. i - 2 \in 1 .. n /\ t[i] = st[i - 2] /\ i >= 3
        BY <1>5, <2>1
      <3>2. j # 1 /\ j # 2 /\ i - 2 < j - 2
        BY <1>7, <3>1
      <3>3. j - 2 \in 1 .. n /\ t[j] = st[j - 2]
        BY <1>5, <3>2
      <3> QED
        BY <1>4, <3>1, <3>2, <3>3
    <2>2. CASE i \in {1, 2} /\ j # 1 /\ j # 2
      <3>1. j - 2 \in 1 .. n /\ t[j] = st[j - 2]
        BY <1>5, <2>2
      <3>2. e + 1 <= t[j][1] /\ t[j][1] \in Int
        BY <1>2, <1>4, <3>1
      <3>3. t[i] = P1 \/ t[i] = P2
        BY <1>3, <2>2
      <3>4. t[i][2] <= e /\ t[i][2] \in Int
        BY <1>1, <3>3
      <3> QED
        BY <3>2, <3>4
    <2>3. CASE i \in {1, 2} /\ j \in {1, 2}
      <3>1. i = 1 /\ j = 2
        BY <1>2, <1>7, <2>3
      <3> QED
        BY <1>1, <1>3, <3>1
    <2> QED
      BY <2>1, <2>2, <2>3
  <1>8. InLine(N, t, 1)
    <2>1. t \in Seq(Int \X Int) /\ Len(t) = n + 2
      BY <1>3
    <2> QED
      BY <1>6, <1>7, <2>1 DEF InLine
  <1>9. {t[i] : i \in 1 .. Len(t)} = {st[i] : i \in 1 .. n} \cup {P1, P2}
    <2>1. ASSUME NEW i \in 1 .. Len(t) PROVE t[i] \in {st[k] : k \in 1 .. n} \cup {P1, P2}
      <3>1. i = 1 \/ i = 2 \/ (i - 2 \in 1 .. n /\ t[i] = st[i - 2])
        BY <1>3, <1>5
      <3> QED
        BY <1>3, <3>1
    <2>2. ASSUME NEW k \in 1 .. n PROVE \E i \in 1 .. Len(t) : t[i] = st[k]
      <3>1. k + 2 \in 3 .. n + 2 /\ k + 2 \in 1 .. Len(t) /\ (k + 2) - 2 = k
        BY <1>2, <1>3
      <3>2. t[k + 2] = st[k]
        BY <1>3, <3>1
      <3> QED
        BY <3>1, <3>2
    <2>3. P1 \in {t[i] : i \in 1 .. Len(t)} /\ P2 \in {t[i] : i \in 1 .. Len(t)}
      <3>1. 1 \in 1 .. Len(t) /\ 2 \in 1 .. Len(t) /\ t[1] = P1 /\ t[2] = P2
        BY <1>2, <1>3
      <3> QED
        BY <3>1
    <2>4. {st[k] : k \in 1 .. n} \cup {P1, P2} \subseteq {t[i] : i \in 1 .. Len(t)}
      BY <2>2, <2>3
    <2>5. {t[i] : i \in 1 .. Len(t)} \subseteq {st[k] : k \in 1 .. n} \cup {P1, P2}
      BY <2>1
    <2> QED
      BY <2>4, <2>5
  <1> QED
    BY <1>8, <1>9 DEF t, n, P1, P2, WaitAhead

\* The next call takes the first part that waits (quicksort.cpp:13-18).
LEMMA QuickCallKeeps ==
  ASSUME QuickInv, QuickCall
  PROVE  QuickInv'
  <1>1. PICK N, v, pi : QuickState(N, v, pi)
    BY DEF QuickInv
  <1> DEFINE P == Head(stack)
  <1>2. /\ part = << >> /\ stack # << >> /\ stack' = Tail(stack) /\ array' = array
        /\ part' = IF P[1] >= P[2] THEN << >>
                   ELSE <<[begin |-> P[1], end |-> P[2], left |-> P[1] + 1, right |-> P[2]]>>
    BY DEF QuickCall
  <1>3. /\ N \in Nat /\ array = [input |-> array.input, now |-> array.now]
        /\ Arranges(array.input, N, v, pi) /\ Shows(array.now, N, v, Open) /\ SortedBut(v, N, Open)
        /\ InLine(N, stack, 1)
    BY <1>1, <1>2 DEF QuickState
  <1>4. /\ InLine(N, stack', 1) /\ InLine(N, stack', P[2] + 1) /\ Waiting = {P} \cup Waiting'
        /\ P \in Int \X Int /\ 1 <= P[1] /\ P[2] <= N
    <2>1. WaitBehind(N, stack, 1, P, Tail(stack))
      BY <1>2, <1>3, LineBehind
    <2> HIDE DEF P
    <2>2. WaitBehind(N, stack, 1, P, stack')
      BY <1>2, <2>1
    <2> QED
      BY <2>2 DEF Waiting, WaitBehind
  <1>5. Open = {P} \cup Waiting'
    BY <1>2, <1>4 DEF Open
  <1> HIDE DEF P
  <1>6. CASE P[1] >= P[2]
    <2>1. part' = << >> /\ Open' = Waiting'
      BY <1>2, <1>6 DEF Open
    <2>2. Shows(array'.now, N, v, Open')
      BY <1>2, <1>3, <1>5, <2>1 DEF Shows
    <2>3. SortedBut(v, N, Open')
      <3> SUFFICES ASSUME NEW i \in 1 .. N, NEW j \in 1 .. N, i < j, v[i] > v[j]
                   PROVE  \E Q \in Waiting' : Within(Q, i) /\ Within(Q, j)
        BY <2>1 DEF SortedBut
      <3>1. PICK Q \in {P} \cup Waiting' : Within(Q, i) /\ Within(Q, j)
        BY <1>3, <1>5 DEF SortedBut
      <3>2. Q # P
        BY <1>4, <1>6, <3>1 DEF Within
      <3> QED
        BY <3>1, <3>2
    <2>4. QuickState(N, v, pi)'
      BY <1>2, <1>3, <1>4, <2>1, <2>2, <2>3 DEF QuickState
    <2> QED
      BY <2>4 DEF QuickInv
  <1>7. CASE P[1] < P[2]
    <2> DEFINE q == [begin |-> P[1], end |-> P[2], left |-> P[1] + 1, right |-> P[2]]
    <2>1. part' = <<q>> /\ part' # << >> /\ part'[1] = q
      BY <1>2, <1>4, <1>7
    <2>2. /\ q \in [begin : Int, end : Int, left : Int, right : Int]
          /\ q.begin = P[1] /\ q.end = P[2] /\ q.left = P[1] + 1 /\ q.right = P[2]
      BY <1>4
    <2> HIDE DEF q
    <2>3. Open' = Open
      <3>1. P = <<q.begin, q.end>>
        BY <1>4, <2>2
      <3> QED
        BY <1>5, <2>1, <3>1 DEF Open
    <2>4. Scanned(array.now, N, q)
      BY <1>3, <1>4, <1>7, <2>2 DEF Scanned
    <2>5. QuickState(N, v, pi)'
      BY <1>2, <1>3, <1>4, <2>1, <2>2, <2>3, <2>4 DEF QuickState
    <2> QED
      BY <2>5 DEF QuickInv
  <1> QED
    BY <1>4, <1>6, <1>7

\* The array and the arrangement when two elements of a part change places.
LEMMA ExchangeShows ==
  ASSUME NEW N, NEW a, NEW v \in [1 .. N -> Nat], NEW S, Shows(a, N, v, S), NEW x \in 1 .. N, NEW y \in 1 .. N, x # y,
         a[x] = v[x], a[y] = v[y]
  PROVE  Shows(Swap(a, x, y), N, Exchanged(v, x, y), S)
  <1> DEFINE c == Exchanged(a, x, y)
             w == Exchanged(v, x, y)
  <1>1. Swap(a, x, y) = c
    BY DEF Swap, Exchanged
  <1>2. IsExchange(N, Nat, a, x, y, c) /\ IsExchange(N, Nat, v, x, y, w)
    BY ExchangedIs DEF Shows
  <1> HIDE DEF c, w
  <1>3. ASSUME NEW k \in 1 .. N PROVE c[k] = w[k] \/ (c[k] = 0 /\ \A P \in S : ~ Within(P, k))
    <2>1. CASE k = x \/ k = y
      BY <1>2, <2>1 DEF IsExchange
    <2>2. CASE k # x /\ k # y
      <3>1. c[k] = a[k] /\ w[k] = v[k]
        BY <1>2, <2>2 DEF IsExchange
      <3> QED
        BY <3>1 DEF Shows
    <2> QED
      BY <2>1, <2>2
  <1>4. Shows(c, N, w, S)
    BY <1>2, <1>3 DEF Shows, IsExchange
  <1> QED
    BY <1>1, <1>4 DEF w

\* The part that is worked on, and where its scans stop.
Stops(N, v, p, P, l, r) ==
  /\ N \in Nat /\ v \in [1 .. N -> Nat \ {0}] /\ array.now \in [1 .. N -> Nat]
  /\ P = <<p.begin, p.end>> /\ P \in Int \X Int /\ p \in [begin : Int, end : Int, left : Int, right : Int]
  /\ Open = Waiting \cup {P} /\ InLine(N, stack, p.end + 1)
  /\ \A k \in 1 .. N : Within(P, k) => \A Q \in Waiting : ~ Within(Q, k)
  /\ 1 <= p.begin /\ p.begin < p.end /\ p.end <= N
  /\ l \in p.begin + 1 .. p.end /\ r \in p.begin .. p.end
  /\ \A k \in p.begin .. p.end : array.now[k] = v[k] /\ k \in 1 .. N
  /\ r = p.begin \/ array.now[r] <= array.now[p.begin]
  /\ \A k \in p.begin + 1 .. l - 1 : array.now[k] <= array.now[p.begin]
  /\ \A k \in r + 1 .. p.end : array.now[k] >= array.now[p.begin]

\* They stop there if the scans before have left the array as the invariant says.
LEMMA StopsFacts ==
  ASSUME NEW N, NEW v, NEW pi, QuickState(N, v, pi), part # << >>, NEW p, p = part[1],
         NEW l, l = ScanLeft(p), NEW r, r = ScanRight(p)
  PROVE  Stops(N, v, p, <<p.begin, p.end>>, l, r)
  <1> DEFINE P == <<p.begin, p.end>>
             a == array.now
  <1>1. /\ N \in Nat /\ v \in [1 .. N -> Nat \ {0}] /\ a \in [1 .. N -> Nat] /\ Shows(a, N, v, Open)
        /\ Scanned(a, N, p) /\ InLine(N, stack, p.end + 1)
    BY DEF QuickState, Arranges, Shows
  <1>2. /\ p \in [begin : Int, end : Int, left : Int, right : Int] /\ p.begin \in Int /\ p.end \in Int
        /\ 1 <= p.begin /\ p.begin < p.left /\ p.left <= p.right /\ p.right <= p.end /\ p.end <= N
        /\ p.left \in Int /\ p.right \in Int
    BY <1>1 DEF Scanned
  <1>3. Open = Waiting \cup {P}
    BY DEF Open
  <1>4. /\ l \in p.left .. p.end /\ \A k \in p.left .. l - 1 : a[k] <= a[p.begin]
        /\ r \in p.begin .. p.right /\ (r = p.begin \/ a[r] <= a[p.begin])
        /\ \A k \in r + 1 .. p.right : a[k] >= a[p.begin]
    <2>1. l \in p.left .. p.end /\ \A k \in p.left .. l - 1 : a[k] <= a[p.begin]
      BY <1>1, ScanLeftFacts
    <2>2. /\ r \in p.begin .. p.right /\ (r = p.begin \/ a[r] <= a[p.begin])
          /\ \A k \in r + 1 .. p.right : a[k] >= a[p.begin]
      BY <1>1, ScanRightFacts
    <2> QED
      BY <2>1, <2>2
  <1>5. P \in Int \X Int /\ P[1] = p.begin /\ P[2] = p.end
    BY <1>2
  <1> HIDE DEF P, a
  <1>6. ASSUME NEW k \in 1 .. N, Within(P, k), NEW Q \in Waiting PROVE ~ Within(Q, k)
    <2>1. PICK i \in 1 .. Len(stack) : Q = stack[i]
      BY DEF Waiting
    <2>2. p.end + 1 <= Q[1] /\ Q[1] \in Int
      BY <1>1, <2>1 DEF InLine
    <2>3. k <= p.end
      BY <1>5, <1>6 DEF Within
    <2>4. p.end \in Int /\ k \in Int
      BY <1>1, <1>2
    <2>5. ~ (Q[1] <= k)
      BY <2>2, <2>3, <2>4
    <2> QED
      BY <2>5 DEF Within
  <1>7. ASSUME NEW k \in p.begin .. p.end PROVE a[k] = v[k] /\ k \in 1 .. N
    <2>1. k \in 1 .. N
      BY <1>1, <1>2
    <2>2. Within(P, k) /\ P \in Open
      BY <1>3, <1>5 DEF Within
    <2> QED
      BY <1>1, <2>1, <2>2 DEF Shows
  <1>8. ASSUME NEW k \in p.begin + 1 .. l - 1 PROVE a[k] <= a[p.begin]
    <2>1. CASE k < p.left
      <3>1. k \in p.begin + 1 .. p.left - 1
        BY <1>2, <1>4, <2>1
      <3> QED
        BY <1>1, <3>1 DEF Scanned
    <2>2. CASE k >= p.left
      <3>1. k \in p.left .. l - 1
        BY <1>2, <1>4, <2>2
      <3> QED
        BY <1>4, <3>1
    <2> QED
      BY <1>2, <1>4, <2>1, <2>2
  <1>9. ASSUME NEW k \in r + 1 .. p.end PROVE a[k] >= a[p.begin]
    <2>1. CASE k > p.right
      <3>1. k \in p.right + 1 .. p.end
        BY <1>2, <1>4, <2>1
      <3> QED
        BY <1>1, <3>1 DEF Scanned
    <2>2. CASE k <= p.right
      <3>1. k \in r + 1 .. p.right
        BY <1>2, <1>4, <2>2
      <3> QED
        BY <1>4, <3>1
    <2> QED
      BY <1>2, <1>4, <2>1, <2>2
  <1>10. p.begin < p.end /\ l \in p.begin + 1 .. p.end /\ r \in p.begin .. p.end
    BY <1>2, <1>4
  <1>11. Stops(N, v, p, P, l, r)
    BY <1>1, <1>2, <1>3, <1>4, <1>5, <1>6, <1>7, <1>8, <1>9, <1>10 DEF Stops, P, a
  <1> QED
    BY <1>11 DEF P

\* As long as the scans have not met, two elements change sides (quicksort.cpp:37-41).
LEMMA QuickGoesOn ==
  ASSUME NEW N, NEW v, NEW pi, QuickState(N, v, pi), part # << >>, NEW p, p = part[1],
         NEW l, NEW r, Stops(N, v, p, <<p.begin, p.end>>, l, r), l < r,
         array' = [input |-> array.input, now |-> Swap(array.now, l, r)],
         part' = <<[begin |-> p.begin, end |-> p.end, left |-> l, right |-> r]>>, stack' = stack
  PROVE  QuickInv'
  <1> DEFINE P == <<p.begin, p.end>>
             a == array.now
             c == Exchanged(a, l, r)
             w == Exchanged(v, l, r)
             ro == Exchanged(pi, l, r)
             q == [begin |-> p.begin, end |-> p.end, left |-> l, right |-> r]
  <1>1. /\ Arranges(array.input, N, v, pi) /\ Shows(a, N, v, Open) /\ SortedBut(v, N, Open)
        /\ array = [input |-> array.input, now |-> a] /\ a \in [1 .. N -> Nat]
    BY DEF QuickState, Shows
  <1>2. /\ N \in Nat /\ v \in [1 .. N -> Nat] /\ P \in Int \X Int /\ P[1] = p.begin /\ P[2] = p.end
        /\ Open = Waiting \cup {P} /\ InLine(N, stack, p.end + 1)
        /\ \A k \in 1 .. N : Within(P, k) => \A Q \in Waiting : ~ Within(Q, k)
    BY DEF Stops
  <1>3. /\ p \in [begin : Int, end : Int, left : Int, right : Int] /\ p.begin \in 1 .. N /\ p.end \in 1 .. N
        /\ l \in 1 .. N /\ r \in 1 .. N /\ p.begin < l /\ l < r /\ r <= p.end
    <2>1. /\ N \in Nat /\ p \in [begin : Int, end : Int, left : Int, right : Int]
          /\ 1 <= p.begin /\ p.begin < p.end /\ p.end <= N /\ p.begin \in Int /\ p.end \in Int
          /\ l \in p.begin + 1 .. p.end /\ r \in p.begin .. p.end
      BY DEF Stops
    <2> QED
      BY <2>1
  <1>4. a[l] = v[l] /\ a[r] = v[r] /\ Within(P, l) /\ Within(P, r)
    <2>1. l \in p.begin .. p.end /\ r \in p.begin .. p.end
      BY <1>3
    <2>2. a[l] = v[l] /\ a[r] = v[r]
      BY <2>1 DEF Stops
    <2> QED
      BY <1>2, <2>1, <2>2 DEF Within
  <1>5. /\ array' = [input |-> array.input, now |-> c] /\ Swap(a, l, r) = c
        /\ array'.input = array.input /\ array'.now = c
    <2>1. Swap(a, l, r) = c
      BY <1>3 DEF Swap, Exchanged
    <2>2. array' = [input |-> array.input, now |-> Swap(a, l, r)]
      BY <1>1
    <2> QED
      BY <2>1, <2>2
  <1>6. /\ q \in [begin : Int, end : Int, left : Int, right : Int]
        /\ q.begin = p.begin /\ q.end = p.end /\ q.left = l /\ q.right = r
        /\ part' = <<q>> /\ part' # << >> /\ part'[1] = q
    <2>1. l \in Int /\ r \in Int /\ p \in [begin : Int, end : Int, left : Int, right : Int]
      BY <1>3
    <2>2. /\ q \in [begin : Int, end : Int, left : Int, right : Int]
          /\ q.begin = p.begin /\ q.end = p.end /\ q.left = l /\ q.right = r
      BY <2>1
    <2>3. part' = <<q>>
      OBVIOUS
    <2> HIDE DEF q
    <2> QED
      BY <2>2, <2>3
  <1>7. IsExchange(N, Nat, a, l, r, c)
    BY <1>1, <1>3, ExchangedIs
  <1> HIDE DEF P, a, c, w, ro, q
  <1>8. Open' = Open
    BY <1>2, <1>6 DEF Open, Waiting, P
  <1>9. Arranges(array.input, N, w, ro)
    BY <1>1, <1>3, ExchangeArranges DEF w, ro
  <1>10. Shows(c, N, w, Open)
    <2>1. l # r
      BY <1>3
    <2>2. Shows(Swap(a, l, r), N, w, Open)
      BY <1>1, <1>2, <1>3, <1>4, <2>1, ExchangeShows DEF w
    <2> QED
      BY <1>5, <2>2
  <1>11. SortedBut(w, N, Open)
    <2>1. SortedBut(v, N, Waiting \cup {P})
      BY <1>1, <1>2
    <2>2. SortedBut(w, N, Waiting \cup {P})
      BY <1>2, <1>3, <1>4, <2>1, ExchangeKeepsOrder DEF w
    <2> QED
      BY <1>2, <2>2
  <1>12. Scanned(c, N, q)
    <2>1. ASSUME NEW k \in 1 .. N, k # l, k # r PROVE c[k] = a[k]
      BY <1>7, <2>1 DEF IsExchange
    <2>2. c[p.begin] = a[p.begin]
      BY <1>3, <2>1
    <2>3. ASSUME NEW k \in p.begin + 1 .. l - 1 PROVE c[k] <= c[p.begin]
      <3>1. k \in 1 .. N /\ k # l /\ k # r
        <4>1. l \in Int /\ r \in Int /\ p.begin \in Int /\ 1 <= p.begin /\ l < r /\ r <= N
          BY <1>2, <1>3
        <4>2. p.begin < k /\ k < l /\ k \in Int
          BY <4>1
        <4> QED
          BY <1>2, <4>1, <4>2
      <3>2. a[k] <= a[p.begin]
        BY DEF Stops, a
      <3> QED
        BY <2>1, <2>2, <3>1, <3>2
    <2>4. ASSUME NEW k \in r + 1 .. p.end PROVE c[k] >= c[p.begin]
      <3>1. k \in 1 .. N /\ k # l /\ k # r
        <4>1. l \in Int /\ r \in Int /\ p.end \in Int /\ 1 <= r /\ p.end <= N
          BY <1>2, <1>3
        <4>2. l < r /\ r < k /\ k <= p.end /\ k \in Int
          BY <1>3, <4>1
        <4> QED
          BY <1>2, <4>1, <4>2
      <3>2. a[k] >= a[p.begin]
        BY DEF Stops, a
      <3> QED
        BY <2>1, <2>2, <3>1, <3>2
    <2>5. 1 <= p.begin /\ p.begin < l /\ l <= r /\ r <= p.end /\ p.end <= N
      BY <1>3
    <2> QED
      BY <1>6, <2>3, <2>4, <2>5 DEF Scanned
  <1>13. InLine(N, stack', q.end + 1)
    BY <1>2, <1>6
  <1>14. QuickState(N, w, ro)'
    <2>1. N \in Nat
      BY <1>2
    <2> QED
      BY <1>5, <1>6, <1>8, <1>9, <1>10, <1>11, <1>12, <1>13, <2>1 DEF QuickState
  <1> QED
    BY <1>14 DEF QuickInv

\* When they have met, the pivot comes between the two parts that are left, or is cleared
\* if it is the least (quicksort.cpp:44-47).
LEMMA QuickMeets ==
  ASSUME NEW N, NEW v, NEW pi, QuickState(N, v, pi), part # << >>, NEW p, p = part[1],
         NEW l, NEW r, Stops(N, v, p, <<p.begin, p.end>>, l, r), l >= r,
         array' = [input |-> array.input, now |-> Swap(array.now, p.begin, r)],
         part' = << >>, stack' = <<<<p.begin, r - 1>>, <<r + 1, p.end>>>> \o stack
  PROVE  QuickInv'
  <1> DEFINE P == <<p.begin, p.end>>
             P1 == <<p.begin, r - 1>>
             P2 == <<r + 1, p.end>>
             a == array.now
             b == p.begin
             c == Swap(a, b, r)
             w == IF r = b THEN v ELSE Exchanged(v, b, r)
             ro == IF r = b THEN pi ELSE Exchanged(pi, b, r)
             S == Waiting \cup {P1, P2}
  <1>1. /\ Arranges(array.input, N, v, pi) /\ Shows(a, N, v, Open) /\ SortedBut(v, N, Open)
        /\ a \in [1 .. N -> Nat]
    BY DEF QuickState, Shows
  <1>2. /\ N \in Nat /\ v \in [1 .. N -> Nat] /\ P \in Int \X Int /\ P[1] = b /\ P[2] = p.end
        /\ Open = Waiting \cup {P} /\ InLine(N, stack, p.end + 1)
        /\ \A k \in 1 .. N : Within(P, k) => \A Q \in Waiting : ~ Within(Q, k)
    BY DEF Stops
  <1>3. /\ b \in 1 .. N /\ p.end \in 1 .. N /\ r \in 1 .. N /\ l \in Int /\ b <= r /\ r <= p.end /\ r <= l
        /\ b \in Int /\ r \in Int /\ p.end \in Int
    <2>1. /\ N \in Nat /\ p \in [begin : Int, end : Int, left : Int, right : Int]
          /\ 1 <= b /\ b < p.end /\ p.end <= N /\ b \in Int /\ p.end \in Int
          /\ l \in b + 1 .. p.end /\ r \in b .. p.end
      BY DEF Stops
    <2> QED
      BY <2>1
  <1>4. /\ \A k \in b .. p.end : a[k] = v[k] /\ k \in 1 .. N
        /\ r = b \/ a[r] <= a[b]
        /\ \A k \in b + 1 .. l - 1 : a[k] <= a[b]
        /\ \A k \in r + 1 .. p.end : a[k] >= a[b]
    BY DEF Stops
  <1>5. array'.input = array.input /\ array'.now = c /\ array' = [input |-> array.input, now |-> c]
    OBVIOUS
  <1>6. /\ P1[1] = b /\ P1[2] = r - 1 /\ P2[1] = r + 1 /\ P2[2] = p.end
    OBVIOUS
  <1>7. Within(P, b) /\ Within(P, r) /\ a[b] = v[b] /\ a[r] = v[r]
    <2>1. b \in b .. p.end /\ r \in b .. p.end /\ b <= b /\ b <= p.end /\ b <= r /\ r <= p.end
      BY <1>3
    <2>2. a[b] = v[b] /\ a[r] = v[r]
      BY <1>4, <2>1
    <2>3. P[1] = b /\ P[2] = p.end
      BY <1>2
    <2> HIDE DEF P, a
    <2> QED
      BY <2>1, <2>2, <2>3 DEF Within
  <1>8. InLine(N, stack', 1) /\ Waiting' = S
    <2>1. 1 <= b /\ p.end <= N
      BY <1>2, <1>3
    <2>2. WaitAhead(N, stack, P1, P2, <<P1, P2>> \o stack)
      BY <1>2, <1>3, <2>1, LineAhead
    <2> HIDE DEF P1, P2
    <2>3. WaitAhead(N, stack, P1, P2, stack')
      BY <2>2 DEF P1, P2
    <2> QED
      BY <2>3 DEF Waiting, WaitAhead
  <1>9. Open' = S
    BY <1>8 DEF Open
  <1> HIDE DEF P, P1, P2, a, c, S
  <1>10. ASSUME NEW k \in 1 .. N, Within(P1, k) \/ Within(P2, k) PROVE Within(P, k) /\ k # r
    <2>1. k \in Int
      OBVIOUS
    <2>2. (b <= k /\ k <= r - 1) \/ (r + 1 <= k /\ k <= p.end)
      BY <1>6, <1>10 DEF Within
    <2>3. b <= k /\ k <= p.end /\ k # r
      BY <1>3, <2>1, <2>2
    <2> QED
      BY <1>2, <2>3 DEF Within
  <1>11. ASSUME NEW u, NEW z, Shows(u, N, z, Open), NEW k \in 1 .. N, NEW Q \in S, Within(Q, k)
         PROVE  u[k] = z[k]
    <2>1. CASE Q \in Waiting
      BY <1>2, <1>11, <2>1 DEF Shows
    <2>2. CASE Q \in {P1, P2}
      <3>1. Within(P, k)
        BY <1>10, <1>11, <2>2
      <3> QED
        BY <1>2, <1>11, <3>1 DEF Shows
    <2> QED
      BY <2>1, <2>2 DEF S
  <1>12. ASSUME NEW u, NEW z, Shows(u, N, z, Open) PROVE Shows(u, N, z, S)
    BY <1>11, <1>12 DEF Shows
  <1>13. Arranges(array.input, N, w, ro)
    BY <1>1, <1>3, ExchangeArranges
  <1>14. Shows(c, N, w, S)
    <2>1. CASE r = b
      <3>1. c = [a EXCEPT ![b] = 0] /\ w = v
        BY <2>1 DEF c, Swap
      <3>2. c \in [1 .. N -> Nat] /\ c[b] = 0 /\ \A k \in 1 .. N : k # b => c[k] = a[k]
        BY <1>1, <1>3, <3>1
      <3>3. ASSUME NEW Q \in S PROVE ~ Within(Q, b)
        <4>1. CASE Q \in Waiting
          BY <1>2, <1>3, <1>7, <4>1
        <4>2. CASE Q \in {P1, P2}
          BY <1>3, <1>10, <2>1, <4>2
        <4> QED
          BY <4>1, <4>2 DEF S
      <3>4. Shows(a, N, v, S)
        BY <1>1, <1>12
      <3>5. ASSUME NEW k \in 1 .. N PROVE c[k] = v[k] \/ (c[k] = 0 /\ \A Q \in S : ~ Within(Q, k))
        <4>1. CASE k = b
          BY <3>2, <3>3, <4>1
        <4>2. CASE k # b
          BY <3>2, <3>4, <4>2 DEF Shows
        <4> QED
          BY <4>1, <4>2
      <3> QED
        BY <3>1, <3>2, <3>5 DEF Shows
    <2>2. CASE r # b
      <3>1. Shows(c, N, w, Open)
        BY <1>1, <1>2, <1>3, <1>7, <2>2, ExchangeShows DEF c
      <3> QED
        BY <1>12, <3>1
    <2> QED
      BY <2>1, <2>2
  <1>15. /\ w \in [1 .. N -> Nat] /\ SortedBut(w, N, Waiting \cup {P})
         /\ \A k \in b .. r - 1 : w[k] <= w[r]
         /\ \A k \in r + 1 .. p.end : w[k] >= w[r]
    <2>1. \A k \in 1 .. N : a[k] \in Nat /\ v[k] \in Nat
      BY <1>1, <1>2
    <2>2. SortedBut(v, N, Waiting \cup {P})
      BY <1>1, <1>2
    <2>3. ASSUME NEW k \in r + 1 .. p.end PROVE k \in 1 .. N /\ k # b /\ k # r /\ v[k] = a[k] /\ a[k] >= a[b]
      <3>1. k \in b .. p.end /\ k # b /\ k # r
        BY <1>3
      <3> QED
        BY <1>4, <3>1
    <2>4. ASSUME NEW k \in b .. r - 1, k # b PROVE k \in 1 .. N /\ k # b /\ k # r /\ v[k] = a[k] /\ a[k] <= a[b]
      <3>1. k \in b .. p.end /\ k \in b + 1 .. l - 1 /\ k # r
        BY <1>3, <2>4
      <3> QED
        BY <1>4, <2>4, <3>1
    <2>5. CASE r = b
      <3>1. w = v /\ w[r] = a[b]
        BY <1>7, <2>5
      <3>2. \A k \in b .. r - 1 : FALSE
        BY <1>3, <2>5
      <3> QED
        BY <1>2, <2>2, <2>3, <3>1, <3>2
    <2>6. CASE r # b
      <3>1. w = Exchanged(v, b, r)
        BY <2>6
      <3>2. IsExchange(N, Nat, v, b, r, w)
        BY <1>2, <1>3, <3>1, ExchangedIs
      <3> HIDE DEF w
      <3>3. w \in [1 .. N -> Nat] /\ w[b] = a[r] /\ w[r] = a[b] /\ \A k \in 1 .. N : k # b /\ k # r => w[k] = v[k]
        BY <1>7, <3>2 DEF IsExchange
      <3>4. SortedBut(w, N, Waiting \cup {P})
        BY <1>2, <1>3, <1>7, <2>2, <3>1, ExchangeKeepsOrder
      <3>5. ASSUME NEW k \in b .. r - 1 PROVE w[k] <= w[r]
        <4>1. CASE k = b
          BY <1>4, <2>6, <3>3, <4>1
        <4>2. CASE k # b
          BY <2>4, <3>3, <4>2
        <4> QED
          BY <4>1, <4>2
      <3>6. ASSUME NEW k \in r + 1 .. p.end PROVE w[k] >= w[r]
        BY <2>3, <3>3
      <3> QED
        BY <3>3, <3>4, <3>5, <3>6
    <2> QED
      BY <2>5, <2>6
  <1> HIDE DEF w, ro
  <1>16. SortedBut(w, N, S)
    <2>1. 1 <= b /\ p.end <= N
      BY <1>2, <1>3
    <2> QED
      BY <1>2, <1>3, <1>15, <2>1, DividedKeepsOrder DEF S, P, P1, P2
  <1>17. QuickState(N, w, ro)'
    BY <1>2, <1>5, <1>8, <1>9, <1>13, <1>14, <1>16 DEF QuickState
  <1> QED
    BY <1>17 DEF QuickInv

\* The first call is for all of the array, and the pivots are not yet known.
LEMMA QuickInvInit == QuickInit => QuickInv
  <1> SUFFICES ASSUME QuickInit PROVE QuickInv
    OBVIOUS
  <1>1. PICK a \in Arrays : array = [input |-> a, now |-> a] /\ stack = <<<<1, Len(a)>>>> /\ part = << >>
    BY DEF QuickInit
  <1>2. PICK N \in Nat \ {0} : a \in [1 .. N -> Nat \ {0}]
    <2>1. PICK n \in 1 .. MaxLength : a \in [1 .. n -> 1 .. MaxValue]
      BY DEF Arrays
    <2>2. n \in Nat \ {0} /\ 1 .. MaxValue \subseteq Nat \ {0}
      BY ExercisesAssumption
    <2> QED
      BY <2>1, <2>2
  <1>3. Len(a) = N
    BY <1>2
  <1> DEFINE pi == [k \in 1 .. N |-> k]
             P == <<1, N>>
  <1>4. Arranges(a, N, a, pi)
    BY <1>2 DEF Arranges
  <1>5. /\ stack = <<P>> /\ Len(stack) = 1 /\ stack[1] = P /\ P \in Int \X Int /\ P[1] = 1 /\ P[2] = N
        /\ stack \in Seq(Int \X Int)
    BY <1>1, <1>3
  <1> HIDE DEF P, pi
  <1>6. Open = {P}
    BY <1>1, <1>5 DEF Open, Waiting
  <1>7. InLine(N, stack, 1)
    <2>1. \A i \in 1 .. Len(stack) : i = 1
      BY <1>5
    <2> QED
      BY <1>2, <1>5, <2>1 DEF InLine
  <1>8. SortedBut(a, N, {P})
    BY <1>5 DEF SortedBut, Within
  <1>9. Shows(a, N, a, {P})
    BY <1>2 DEF Shows
  <1>10. QuickState(N, a, pi)
    BY <1>1, <1>4, <1>6, <1>7, <1>8, <1>9 DEF QuickState
  <1> QED
    BY <1>10 DEF QuickInv

\* Both kinds of steps keep the invariant.
LEMMA QuickInvNext ==
  ASSUME QuickInv, [QuickNext]_qsVars
  PROVE  QuickInv'
  <1>1. CASE QuickCall
    BY <1>1, QuickCallKeeps
  <1>2. CASE QuickStep
    <2>1. PICK N, v, pi : QuickState(N, v, pi)
      BY DEF QuickInv
    <2> DEFINE p == part[1]
               l == ScanLeft(p)
               r == ScanRight(p)
    <2>2. part # << >>
      BY <1>2 DEF QuickStep
    <2>3. Stops(N, v, p, <<p.begin, p.end>>, l, r)
      BY <2>1, <2>2, StopsFacts
    <2>4. /\ array = [input |-> array.input, now |-> array.now] /\ l \in Int /\ r \in Int
          /\ p \in [begin : Int, end : Int, left : Int, right : Int]
      BY <2>1, <2>3 DEF QuickState, Stops
    <2>5. CASE l >= r
      <3>1. /\ array' = [array EXCEPT !.now = Swap(array.now, p.begin, r)] /\ part' = << >>
            /\ stack' = <<<<p.begin, r - 1>>, <<r + 1, p.end>>>> \o stack
        BY <1>2, <2>5 DEF QuickStep, PivotPlace
      <3> HIDE DEF p, l, r
      <3>2. array' = [input |-> array.input, now |-> Swap(array.now, p.begin, r)]
        BY <2>4, <3>1
      <3> QED
        BY <2>1, <2>2, <2>3, <2>5, <3>1, <3>2, QuickMeets DEF p
    <2>6. CASE l < r
      <3> DEFINE q == [p EXCEPT !.left = l, !.right = r]
      <3>1. array' = [array EXCEPT !.now = Swap(array.now, l, r)] /\ part' = <<q>> /\ stack' = stack
        <4>1. ~ (l >= r)
          BY <2>4, <2>6
        <4> QED
          BY <1>2, <4>1 DEF QuickStep
      <3> HIDE DEF p, l, r
      <3>2. array' = [input |-> array.input, now |-> Swap(array.now, l, r)]
        BY <2>4, <3>1
      <3>3. q \in [begin : Int, end : Int, left : Int, right : Int]
            /\ q.begin = p.begin /\ q.end = p.end /\ q.left = l /\ q.right = r
        BY <2>4
      <3> HIDE DEF q
      <3>4. q = [begin |-> q.begin, end |-> q.end, left |-> q.left, right |-> q.right]
        BY <3>3
      <3>5. part' = <<[begin |-> p.begin, end |-> p.end, left |-> l, right |-> r]>>
        BY <3>1, <3>3, <3>4
      <3>6. stack' = stack
        BY <3>1
      <3> QED
        BY <2>1, <2>2, <2>3, <2>6, <3>2, <3>5, <3>6, QuickGoesOn DEF p
    <2> QED
      BY <2>4, <2>5, <2>6
  <1>3. CASE UNCHANGED qsVars
    BY <1>3 DEF qsVars, QuickInv, QuickState, Open, Waiting
  <1> QED
    BY <1>1, <1>2, <1>3 DEF QuickNext

\* What quick_sort returns is sorted, except for elements it has cleared
\* (quicksort.cpp:11-48).
THEOREM ReturnedIsPlaced == QuickSpec => [](Returned => Placed)
  <1> QED
    BY QuickInvInit, QuickInvNext, QuickPlaces, PTL DEF QuickSpec

=============================================================================
