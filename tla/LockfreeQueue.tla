---------------------------- MODULE LockfreeQueue ----------------------------
(***************************************************************************)
(* lockfree_queue<T, PoolSize> of core/threadpool/lockfree: a linked queue *)
(* whose head and tail are tagged pointers, with nodes recycled through a  *)
(* lock-free free list that reuses the memory of node::next.  One action   *)
(* per access to shared memory; local computations belong to the access    *)
(* before them.                                                            *)
(*                                                                         *)
(* An address is a number, 0 is nullptr.  std::allocator hands out the     *)
(* addresses 1 .. MaxNodes once each; as every item is emplaced once, an   *)
(* instance with MaxNodes > PoolSize + Cardinality(Items) never runs out   *)
(* of them.                                                                *)
(***************************************************************************)
EXTENDS Naturals, Sequences, FiniteSets

CONSTANTS Producers,  \* threads that call emplace()
          Consumers,  \* threads that call pop_front()
          Items,      \* the values that are emplaced, each once
          NoItem,     \* the value of a node that was never written
          PoolSize,   \* nodes the free list is created with
          MaxNodes,   \* bound on the number of nodes
          TagMod,     \* number of values of tag_t
          SizeMod     \* number of values of size_t

Threads == Producers \cup Consumers
Nodes == 1 .. MaxNodes
NULL == 0

ASSUME ThreadsAssumption == Producers \cap Consumers = {}
ASSUME ItemsAssumption == NoItem \notin Items
ASSUME PoolAssumption == /\ PoolSize \in Nat /\ MaxNodes \in Nat \ {0}
                         /\ PoolSize <= MaxNodes
ASSUME WidthAssumption == TagMod \in Nat \ {0} /\ SizeMod \in Nat \ {0}

VARIABLES
  mem,      \* contents of the nodes: next and data
  m_head,   \* the dummy node in front of the first element
  m_tail,   \* the last node, or the one before it
  m_size,   \* the element counter
  m_pool,   \* top of the free list
  brk,      \* number of nodes std::allocator has handed out
  pc,       \* where each thread is
  loc,      \* locals of each thread's call
  pushed,   \* history: items in the order in which they were linked
  popped,   \* history: items in the order in which m_head moved past them
  astray    \* history: some push has linked behind a node outside the queue

history == <<pushed, popped, astray>>
vars == <<mem, m_head, m_tail, m_size, m_pool, brk, pc, loc, history>>

-----------------------------------------------------------------------------
(* tagged_ptr *)

Tagged(p, n) == [ptr |-> p, tag |-> n]
TaggedPtr == [ptr : Nodes \cup {NULL}, tag : 0 .. TagMod - 1]
NullPtr == Tagged(NULL, 0)

\* get_next_tag: tag_t is unsigned and wraps around.
NextTag(tp) == (tp.tag + 1) % TagMod

-----------------------------------------------------------------------------
(* The constructors: the free list of PoolSize nodes, from which the dummy *)
(* node is taken; without a pool the dummy node is allocated.              *)

Dummy == IF PoolSize = 0 THEN 1 ELSE PoolSize

NoLocals == [node |-> NULL, item |-> NoItem, head |-> NullPtr, tail |-> NullPtr,
             next |-> NullPtr, old |-> NullPtr]

Init == /\ mem = [n \in Nodes |->
                    [next |-> IF n < Dummy THEN Tagged(n - 1, 0) ELSE NullPtr,
                     data |-> NoItem]]
        /\ m_head = Tagged(Dummy, 0) /\ m_tail = Tagged(Dummy, 0)
        /\ m_size = 0
        /\ m_pool = Tagged(Dummy - 1, IF PoolSize = 0 THEN 0 ELSE 1 % TagMod)
        /\ brk = Dummy
        /\ pc = [t \in Threads |-> "idle"]
        /\ loc = [t \in Threads |-> NoLocals]
        /\ pushed = << >> /\ popped = << >> /\ astray = FALSE

\* Thread t continues at l with the locals r.
Goto(t, l, r) == pc' = [pc EXCEPT ![t] = l] /\ loc' = [loc EXCEPT ![t] = r]

Return(t) == Goto(t, "idle", NoLocals)

\* The k-th node from start along next.
Chain(start) ==
  LET at[k \in 0 .. MaxNodes] ==
        IF k = 0 THEN start
        ELSE IF at[k - 1] = NULL THEN NULL ELSE mem[at[k - 1]].next.ptr
  IN  at

\* The list starting at a node, as a set.
ListFrom(start) == {Chain(start)[k] : k \in 0 .. MaxNodes} \ {NULL}

-----------------------------------------------------------------------------
(* freelist::construct: allocate_safe and the placement new *)

\* emplace(item) up to the load of m_pool.
Emplace(p, i) ==
  /\ pc[p] = "idle"
  /\ i \notin {pushed[k] : k \in DOMAIN pushed}
  /\ \A q \in Producers : loc[q].item # i
  /\ Goto(p, "alloc", [NoLocals EXCEPT !.item = i, !.old = m_pool])
  /\ UNCHANGED <<mem, m_head, m_tail, m_size, m_pool, brk, history>>

\* The free list is empty: the node comes from the allocator, zeroed.
AllocFresh(p) ==
  /\ pc[p] = "alloc" /\ loc[p].old.ptr = NULL
  /\ brk < MaxNodes
  /\ brk' = brk + 1
  /\ mem' = [mem EXCEPT ![brk + 1] = [next |-> NullPtr, data |-> NoItem]]
  /\ Goto(p, "construct", [loc[p] EXCEPT !.node = brk + 1, !.old = NullPtr])
  /\ UNCHANGED <<m_head, m_tail, m_size, m_pool, history>>

\* old->next is read from a node that may be out of the list by now.
AllocRead(p) ==
  /\ pc[p] = "alloc" /\ loc[p].old.ptr # NULL
  /\ Goto(p, "alloc_cas", [loc[p] EXCEPT !.next = mem[loc[p].old.ptr].next])
  /\ UNCHANGED <<mem, m_head, m_tail, m_size, m_pool, brk, history>>

\* A failed compare_exchange leaves the current value of m_pool in old.
AllocCas(p) ==
  /\ pc[p] = "alloc_cas"
  /\ IF m_pool = loc[p].old
       THEN /\ m_pool' = Tagged(loc[p].next.ptr, NextTag(loc[p].old))
            /\ Goto(p, "construct", [loc[p] EXCEPT !.node = loc[p].old.ptr,
                                                   !.next = NullPtr, !.old = NullPtr])
       ELSE /\ Goto(p, "alloc", [loc[p] EXCEPT !.next = NullPtr, !.old = m_pool])
            /\ UNCHANGED m_pool
  /\ UNCHANGED <<mem, m_head, m_tail, m_size, brk, history>>

\* new (t) node(tagged_node_ptr(nullptr, 0), item)
Construct(p) ==
  /\ pc[p] = "construct"
  /\ mem' = [mem EXCEPT ![loc[p].node] = [next |-> NullPtr, data |-> loc[p].item]]
  /\ Goto(p, "push_tail", loc[p])
  /\ UNCHANGED <<m_head, m_tail, m_size, m_pool, brk, history>>

-----------------------------------------------------------------------------
(* push_back *)

PushLoadTail(p) ==
  /\ pc[p] = "push_tail"
  /\ Goto(p, "push_next", [loc[p] EXCEPT !.tail = m_tail])
  /\ UNCHANGED <<mem, m_head, m_tail, m_size, m_pool, brk, history>>

PushLoadNext(p) ==
  /\ pc[p] = "push_next"
  /\ LET next == mem[loc[p].tail.ptr].next
     IN  Goto(p, IF next.ptr = NULL THEN "push_link" ELSE "push_help",
              [loc[p] EXCEPT !.next = next])
  /\ UNCHANGED <<mem, m_head, m_tail, m_size, m_pool, brk, history>>

\* Retry with fresh values of tail and next.
PushRetry(p) == Goto(p, "push_tail", [loc[p] EXCEPT !.tail = NullPtr, !.next = NullPtr])

\* History of a push that links item i behind node n.
RecordLink(n, i) == /\ pushed' = Append(pushed, i)
                    /\ astray' = (astray \/ n \notin ListFrom(m_head.ptr))
                    /\ UNCHANGED popped

\* compare_exchange of tail->next: the node is linked behind the node that was
\* the tail when it was read.
PushLink(p) ==
  /\ pc[p] = "push_link"
  /\ IF mem[loc[p].tail.ptr].next = loc[p].next
       THEN /\ mem' = [mem EXCEPT ![loc[p].tail.ptr].next =
                                     Tagged(loc[p].node, NextTag(loc[p].next))]
            /\ RecordLink(loc[p].tail.ptr, loc[p].item)
            /\ Goto(p, "push_swing", [loc[p] EXCEPT !.item = NoItem])
       ELSE PushRetry(p) /\ UNCHANGED <<mem, history>>
  /\ UNCHANGED <<m_head, m_tail, m_size, m_pool, brk>>

\* Mutants: m_tail is stored without comparing it; the two values are swapped.
SwingTail_Store(tail, n) == m_tail' = Tagged(n, NextTag(tail))
SwingTail_Swapped(tail, n) ==
  m_tail' = IF m_tail = Tagged(n, NextTag(tail)) THEN tail ELSE m_tail

\* compare_exchange of m_tail from the value read to node n.
SwingTail(tail, n) ==
  m_tail' = IF m_tail = tail THEN Tagged(n, NextTag(tail)) ELSE m_tail

\* Mutant: a push that was helped does not count its element.
PushSwing_HelpedReturns(p) ==
  /\ pc[p] = "push_swing"
  /\ SwingTail(loc[p].tail, loc[p].node)
  /\ Goto(p, IF m_tail = loc[p].tail THEN "push_size" ELSE "idle", NoLocals)
  /\ UNCHANGED <<mem, m_head, m_size, m_pool, brk, history>>

PushSwing(p) ==
  /\ pc[p] = "push_swing"
  /\ SwingTail(loc[p].tail, loc[p].node)
  /\ Goto(p, "push_size", NoLocals)
  /\ UNCHANGED <<mem, m_head, m_size, m_pool, brk, history>>

PushSize(p) ==
  /\ pc[p] = "push_size"
  /\ m_size' = (m_size + 1) % SizeMod
  /\ Return(p)
  /\ UNCHANGED <<mem, m_head, m_tail, m_pool, brk, history>>

\* Another thread linked a node behind tail: m_tail is advanced on its behalf.
PushHelp(p) ==
  /\ pc[p] = "push_help"
  /\ SwingTail(loc[p].tail, loc[p].next.ptr)
  /\ PushRetry(p)
  /\ UNCHANGED <<mem, m_head, m_size, m_pool, brk, history>>

-----------------------------------------------------------------------------
(* pop_front *)

PopLoadHead(c) ==
  /\ pc[c] \in {"idle", "pop_head"}
  /\ Goto(c, "pop_tail", [NoLocals EXCEPT !.head = m_head])
  /\ UNCHANGED <<mem, m_head, m_tail, m_size, m_pool, brk, history>>

PopLoadTail(c) ==
  /\ pc[c] = "pop_tail"
  /\ Goto(c, "pop_next", [loc[c] EXCEPT !.tail = m_tail])
  /\ UNCHANGED <<mem, m_head, m_tail, m_size, m_pool, brk, history>>

\* head->next is read from a node that may have been recycled; an empty list
\* ends the call with false, a node without next behind the tail is retried.
PopLoadNext(c) ==
  /\ pc[c] = "pop_next"
  /\ LET next == mem[loc[c].head.ptr].next
         r == [loc[c] EXCEPT !.next = next]
     IN  \/ /\ loc[c].head = loc[c].tail /\ next.ptr = NULL
            /\ Return(c)
         \/ /\ loc[c].head = loc[c].tail /\ next.ptr # NULL
            /\ Goto(c, "pop_help", r)
         \/ /\ loc[c].head # loc[c].tail /\ next.ptr = NULL
            /\ Goto(c, "pop_head", NoLocals)
         \/ /\ loc[c].head # loc[c].tail /\ next.ptr # NULL
            /\ Goto(c, "pop_read", r)
  /\ UNCHANGED <<mem, m_head, m_tail, m_size, m_pool, brk, history>>

PopHelp(c) ==
  /\ pc[c] = "pop_help"
  /\ SwingTail(loc[c].tail, loc[c].next.ptr)
  /\ Goto(c, "pop_head", NoLocals)
  /\ UNCHANGED <<mem, m_head, m_size, m_pool, brk, history>>

\* ret = next->data, before it is known that next is still in the queue.
PopRead(c) ==
  /\ pc[c] = "pop_read"
  /\ Goto(c, "pop_cas", [loc[c] EXCEPT !.item = mem[loc[c].next.ptr].data,
                                       !.tail = NullPtr])
  /\ UNCHANGED <<mem, m_head, m_tail, m_size, m_pool, brk, history>>

\* Mutant: m_head is moved without comparing it.
PopCas_Store(c) ==
  /\ pc[c] = "pop_cas"
  /\ m_head' = Tagged(loc[c].next.ptr, NextTag(loc[c].head))
  /\ popped' = Append(popped, loc[c].item)
  /\ Goto(c, "free", [NoLocals EXCEPT !.node = loc[c].head.ptr])
  /\ UNCHANGED <<mem, m_tail, m_size, m_pool, brk, pushed, astray>>

PopCas(c) ==
  /\ pc[c] = "pop_cas"
  /\ IF m_head = loc[c].head
       THEN /\ m_head' = Tagged(loc[c].next.ptr, NextTag(loc[c].head))
            /\ popped' = Append(popped, loc[c].item)
            /\ Goto(c, "free", [NoLocals EXCEPT !.node = loc[c].head.ptr])
       ELSE Goto(c, "pop_head", NoLocals) /\ UNCHANGED <<m_head, popped>>
  /\ UNCHANGED <<mem, m_tail, m_size, m_pool, brk, pushed, astray>>

\* deallocate_safe: load of m_pool.
FreeLoad(c) ==
  /\ pc[c] = "free"
  /\ Goto(c, "free_link", [loc[c] EXCEPT !.old = m_pool])
  /\ UNCHANGED <<mem, m_head, m_tail, m_size, m_pool, brk, history>>

\* set_ptr: the tag of the node's next stays what it was in the queue.
FreeLink(c) ==
  /\ pc[c] = "free_link"
  /\ mem' = [mem EXCEPT ![loc[c].node].next.ptr = loc[c].old.ptr]
  /\ Goto(c, "free_cas", loc[c])
  /\ UNCHANGED <<m_head, m_tail, m_size, m_pool, brk, history>>

\* Mutant: the node is stored without regard to what m_pool has become.
FreeCas_Store(c) ==
  /\ pc[c] = "free_cas"
  /\ m_pool' = Tagged(loc[c].node, loc[c].old.tag)
  /\ Goto(c, "pop_size", NoLocals)
  /\ UNCHANGED <<mem, m_head, m_tail, m_size, brk, history>>

FreeCas(c) ==
  /\ pc[c] = "free_cas"
  /\ IF m_pool = loc[c].old
       THEN /\ m_pool' = Tagged(loc[c].node, loc[c].old.tag)
            /\ Goto(c, "pop_size", NoLocals)
       ELSE /\ Goto(c, "free_link", [loc[c] EXCEPT !.old = m_pool])
            /\ UNCHANGED m_pool
  /\ UNCHANGED <<mem, m_head, m_tail, m_size, brk, history>>

PopSize(c) ==
  /\ pc[c] = "pop_size"
  /\ m_size' = (m_size + SizeMod - 1) % SizeMod
  /\ Return(c)
  /\ UNCHANGED <<mem, m_head, m_tail, m_pool, brk, history>>

\* A weak compare_exchange may fail although the values are equal.
SpuriousFail(t) ==
  /\ \/ pc[t] = "push_link" /\ PushRetry(t)
     \/ pc[t] = "pop_cas" /\ Goto(t, "pop_head", NoLocals)
     \/ pc[t] = "alloc_cas" /\ Goto(t, "alloc", [loc[t] EXCEPT !.next = NullPtr,
                                                               !.old = m_pool])
     \/ pc[t] = "free_cas" /\ Goto(t, "free_link", [loc[t] EXCEPT !.old = m_pool])
  /\ UNCHANGED <<mem, m_head, m_tail, m_size, m_pool, brk, history>>

-----------------------------------------------------------------------------
ProducerStep(p) == \/ \E i \in Items : Emplace(p, i)
                   \/ AllocFresh(p) \/ AllocRead(p) \/ AllocCas(p)
                   \/ Construct(p)
                   \/ PushLoadTail(p) \/ PushLoadNext(p) \/ PushLink(p)
                   \/ PushSwing(p) \/ PushSize(p) \/ PushHelp(p)

ConsumerStep(c) == \/ PopLoadHead(c) \/ PopLoadTail(c) \/ PopLoadNext(c)
                   \/ PopHelp(c) \/ PopRead(c) \/ PopCas(c)
                   \/ FreeLoad(c) \/ FreeLink(c) \/ FreeCas(c) \/ PopSize(c)

Next == \/ \E p \in Producers : ProducerStep(p)
        \/ \E c \in Consumers : ConsumerStep(c)
        \/ \E t \in Threads : SpuriousFail(t)

Spec == Init /\ [][Next]_vars

\* Threads are scheduled, and a weak compare_exchange that could succeed again
\* and again does so at last.
Fairness ==
  /\ \A p \in Producers : /\ WF_vars(pc[p] # "idle" /\ ProducerStep(p))
                          /\ SF_vars(PushLink(p))
                          /\ SF_vars(AllocCas(p))
  /\ \A c \in Consumers : /\ WF_vars(ConsumerStep(c))
                          /\ SF_vars(PopCas(c))
                          /\ SF_vars(FreeCas(c))

FairSpec == Spec /\ Fairness

-----------------------------------------------------------------------------
(* Correctness. *)

Pcs == {"idle", "alloc", "alloc_cas", "construct", "push_tail", "push_next",
        "push_link", "push_help", "push_swing", "push_size", "pop_head",
        "pop_tail", "pop_next", "pop_help", "pop_read", "pop_cas", "free",
        "free_link", "free_cas", "pop_size"}

Locals == [node : Nodes \cup {NULL}, item : Items \cup {NoItem}, head : TaggedPtr,
           tail : TaggedPtr, next : TaggedPtr, old : TaggedPtr]

\* Types: tags and m_size keep their widths (tagged_ptr_dcas.h:44-47,
\* lockfree_queue.h:88, 118), and no call dereferences nullptr.
TypeOK ==
  /\ mem \in [Nodes -> [next : TaggedPtr, data : Items \cup {NoItem}]]
  /\ m_head \in TaggedPtr /\ m_tail \in TaggedPtr /\ m_pool \in TaggedPtr
  /\ m_head.ptr # NULL /\ m_tail.ptr # NULL
  /\ m_size \in 0 .. SizeMod - 1
  /\ brk \in Nodes
  /\ pc \in [Threads -> Pcs]
  /\ loc \in [Threads -> Locals]
  /\ pushed \in Seq(Items) /\ popped \in Seq(Items \cup {NoItem})
  /\ astray \in BOOLEAN

\* While no push has gone astray, the queue is first in first out and loses
\* nothing: the items returned are the first items linked, and the nodes behind
\* m_head hold the others in the order of linking and nothing else
\* (lockfree_queue.h:82-84, 113).
QueueIsFifo ==
  ~astray =>
  LET n == Len(pushed) - Len(popped)
      at == Chain(m_head.ptr)
  IN  /\ Len(popped) <= Len(pushed)
      /\ popped = SubSeq(pushed, 1, Len(popped))
      /\ \A k \in 1 .. n : at[k] # NULL /\ mem[at[k]].data = pushed[Len(popped) + k]
      /\ at[n + 1] = NULL

\* A tag is a position: m_head's tag counts the pops, and m_tail is a node of the
\* queue whose tag counts the pushes up to it, so that head == tail compares
\* positions and not addresses (lockfree_queue.h:60, 69, 83, 115).
TagIsPosition ==
  ~astray =>
  /\ m_head.tag = Len(popped) % TagMod
  /\ \E k \in Len(popped) .. Len(pushed) :
       /\ m_tail.tag = k % TagMod
       /\ m_tail.ptr = Chain(m_head.ptr)[k - Len(popped)]

\* Nodes a thread holds outside both lists.
Private == {p \in Producers : pc[p] \in {"construct", "push_tail", "push_next",
                                         "push_link", "push_help"}}
           \cup {c \in Consumers : pc[c] \in {"free", "free_link", "free_cas"}}

\* Every node is in exactly one place: not allocated yet, in the queue, in the
\* free list or in the hands of one thread.  No node leaks, none is allocated
\* twice, no list runs into the other (freelist.h:48-83).
NodesConserved ==
  ~astray =>
  LET held == {loc[t].node : t \in Private}
      queue == ListFrom(m_head.ptr)
      free == ListFrom(m_pool.ptr)
  IN  /\ queue \cup free \cup held = 1 .. brk
      /\ queue \cap free = {} /\ queue \cap held = {} /\ free \cap held = {}
      /\ \A s, t \in Private : s # t => loc[s].node # loc[t].node

\* m_size is the number of elements once no call is between its compare_exchange
\* and its fetch_add or fetch_sub; in between it may be off, and even wrap
\* around below zero (lockfree_queue.h:88, 117-118).
SizeIsAccountedFor ==
  LET linked == {p \in Producers : pc[p] \in {"push_swing", "push_size"}}
      taken == {c \in Consumers : pc[c] \in {"free", "free_link", "free_cas", "pop_size"}}
  IN  (m_size + Len(popped) + Cardinality(linked)) % SizeMod
        = (Len(pushed) + Cardinality(taken)) % SizeMod

\* emplace returns: its retry loops make progress (lockfree_queue.h:98-128,
\* freelist.h:51-67).
EmplaceReturns == \A p \in Producers : (pc[p] # "idle") ~> (pc[p] = "idle")

\* An item that was linked is returned by some pop_front while consumers keep
\* polling, even if the call that linked it is slow to swing m_tail
\* (lockfree_queue.h:67-70).
LinkedIsPopped ==
  \A n \in 1 .. Cardinality(Items) : (Len(pushed) >= n) ~> (Len(popped) >= n)

\* Both: nobody is kept waiting by a call that stalls (lockfree_queue.h:46-128).
QueueProgress == EmplaceReturns /\ LinkedIsPopped

\* When no call is in progress, the items that were emplaced and not returned are
\* in the queue (test/test_core/test_thread_lockfree.cpp:189-198).
NothingLost ==
  (\A t \in Threads : pc[t] = "idle") =>
    Cardinality(ListFrom(m_head.ptr)) = 1 + Len(pushed) - Len(popped)
=============================================================================
