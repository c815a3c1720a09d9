--------------------------- MODULE PriorityQueues ---------------------------
(***************************************************************************)
(* The two priority queues of core/threadpool/thread_pool.h that keep the  *)
(* order of insertion among equal scores: stable_priority_queue, a map     *)
(* from scores to deques, and static_stable_priority_queue, an array of    *)
(* deques.  Both receive the same calls, made under the pool's mutex by    *)
(* priority_queue_wrap, and are compared with a plain list of what was     *)
(* inserted.                                                               *)
(*                                                                         *)
(* Scores are integers, as in every alias and test of the repository: a    *)
(* move leaves the score of its source intact, so that emplace may ask for *)
(* it after the item was moved into the deque.  They are below the size of *)
(* the array, which checks no index.  The insert() of these pools passes a *)
(* score that was never assigned; no program calls it.                     *)
(***************************************************************************)
EXTENDS Naturals, Sequences, FiniteSets, FiniteSetsExt

CONSTANTS MaxInserts,  \* bound on the number of tasks
          Size         \* scores are 0 .. Size - 1

Scores == 0 .. Size - 1

ASSUME SizeAssumption == Size \in Nat \ {0} /\ MaxInserts \in Nat

VARIABLES
  m_sorted_queue,  \* stable_priority_queue: the map, as a function on its keys
  m_size,          \* its counter
  m_array,         \* static_stable_priority_queue: the array of deques
  m_array_size,    \* its counter
  inserted,        \* what is in the queues, in order of insertion
  used,            \* number of tasks that were inserted; it names the last one
  thrown,          \* top() or pop() threw std::logic_error on an empty map
  m_stop           \* of the pool the queues belong to

pqVars == <<m_sorted_queue, m_size, m_array, m_array_size, inserted, used, thrown, m_stop>>

Item(i, s) == [func |-> i, score |-> s]

PqInit == /\ m_sorted_queue = << >> /\ m_size = 0
          /\ m_array = [s \in Scores |-> << >>] /\ m_array_size = 0
          /\ inserted = << >> /\ used = 0 /\ thrown = FALSE /\ m_stop = FALSE

-----------------------------------------------------------------------------
(* stable_priority_queue *)

\* emplace: a known score extends its deque, a new one gets a deque of its own.
MapEmplace(x) ==
  IF x.score \in DOMAIN m_sorted_queue
    THEN [m_sorted_queue EXCEPT ![x.score] = Append(@, x)]
    ELSE [s \in DOMAIN m_sorted_queue \cup {x.score} |->
            IF s = x.score THEN <<x>> ELSE m_sorted_queue[s]]

\* begin() of the map: comp_more sorts the greatest score first.
MapBegin == Max(DOMAIN m_sorted_queue)

MapTop == Head(m_sorted_queue[MapBegin])

\* Mutant: a deque that becomes empty stays in the map.
MapPop_KeepEmpty == [m_sorted_queue EXCEPT ![MapBegin] = Tail(@)]

\* pop: a deque that becomes empty is erased.
MapPop == IF Len(m_sorted_queue[MapBegin]) > 1
            THEN [m_sorted_queue EXCEPT ![MapBegin] = Tail(@)]
            ELSE [s \in DOMAIN m_sorted_queue \ {MapBegin} |-> m_sorted_queue[s]]

-----------------------------------------------------------------------------
(* static_stable_priority_queue *)

\* The reverse search for the last deque that is not empty.
ArrayLast == Max({s \in Scores : m_array[s] # << >>})

ArrayTop == Head(m_array[ArrayLast])

ArrayPop == [m_array EXCEPT ![ArrayLast] = Tail(@)]

ArrayEmplace(x) == [m_array EXCEPT ![x.score] = Append(@, x)]

-----------------------------------------------------------------------------
(* The list the queues stand for. *)

\* The item to come out next: among those of the greatest score, the oldest.
FirstOut == CHOOSE k \in DOMAIN inserted :
              \A j \in DOMAIN inserted :
                \/ inserted[j].score < inserted[k].score
                \/ inserted[j].score = inserted[k].score /\ j >= k

Without(seq, k) == SubSeq(seq, 1, k - 1) \o SubSeq(seq, k + 1, Len(seq))

\* zinsert(f, score): push_item into both queues, unless the pool was stopped: then it
\* throws before it has touched the queue.
Zinsert(s) ==
  LET x == Item(used + 1, s)
  IN  /\ ~thrown /\ ~m_stop /\ used < MaxInserts
      /\ used' = used + 1
      /\ m_sorted_queue' = MapEmplace(x) /\ m_size' = m_size + 1
      /\ m_array' = ArrayEmplace(x) /\ m_array_size' = m_array_size + 1
      /\ inserted' = Append(inserted, x)
      /\ UNCHANGED <<thrown, m_stop>>

\* block_pop_item on queues that are not empty by their counters.
PopItem ==
  /\ ~thrown /\ m_size # 0 /\ m_array_size # 0
  /\ IF DOMAIN m_sorted_queue = {}
       THEN thrown' = TRUE /\ UNCHANGED <<m_sorted_queue, m_size, m_array,
                                          m_array_size, inserted>>
       ELSE /\ m_sorted_queue' = MapPop /\ m_size' = m_size - 1
            /\ m_array' = ArrayPop /\ m_array_size' = m_array_size - 1
            /\ inserted' = Without(inserted, FirstOut)
            /\ UNCHANGED thrown
  /\ UNCHANGED <<used, m_stop>>

\* stop(): workers that have passed their test of m_stop still pop.
PqStop == /\ ~m_stop /\ m_stop' = TRUE
          /\ UNCHANGED <<m_sorted_queue, m_size, m_array, m_array_size, inserted, used, thrown>>

PqNext == (\E s \in Scores : Zinsert(s)) \/ PopItem \/ PqStop

PqSpec == PqInit /\ [][PqNext]_pqVars

-----------------------------------------------------------------------------
(* Correctness. *)

\* What the map holds: no empty deques, and as many items as the counter says,
\* so that empty(), which looks at the counter, never lets top() run on an empty
\* map, where it throws (thread_pool.h:301-341).
MapIsCounted ==
  /\ ~thrown
  /\ \A s \in DOMAIN m_sorted_queue : m_sorted_queue[s] # << >>
  /\ m_size = MapThenSumSet(LAMBDA s : Len(m_sorted_queue[s]), DOMAIN m_sorted_queue)

\* The greatest score comes out first, and equal scores come out in the order in
\* which they were inserted (thread_pool.h:301-358, the comment at 369).
MapIsStable ==
  inserted # << >> => DOMAIN m_sorted_queue # {} /\ MapTop = inserted[FirstOut]

\* The array answers as the map is meant to, item for item.
ArrayIsStable == inserted # << >> => ArrayTop = inserted[FirstOut]

\* Both queues are stable priority queues, and the map's counter is right.
QueuesAreStable == MapIsCounted /\ MapIsStable /\ ArrayIsStable
=============================================================================
