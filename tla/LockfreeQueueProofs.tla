------------------------- MODULE LockfreeQueueProofs -------------------------
(***************************************************************************)
(* Proofs about lockfree_queue for any number of threads, items and nodes. *)
(* Types and the element counter need no condition; that the queue is      *)
(* first in first out, that tags are positions and that no node is lost or *)
(* in two places is shown as long as the tags do not wrap around and no    *)
(* push has gone astray.                                                   *)
(***************************************************************************)
EXTENDS LockfreeQueue, WellFoundedInduction, FiniteSetTheorems, TLAPS

USE ThreadsAssumption, ItemsAssumption, PoolAssumption, WidthAssumption DEF NULL

-----------------------------------------------------------------------------
(* Numbers. *)

\* A set of natural numbers has a least one: it stands for induction.
LEMMA LeastNatural ==
  ASSUME NEW S \in SUBSET Nat, S # {}
  PROVE  \E n \in S : \A m \in S : n <= m
  <1> DEFINE R == OpToRel(<, Nat)
  <1>1. IsWellFoundedOn(R, Nat)
    BY NatLessThanWellFounded
  <1>2. R = {ss \in Nat \X Nat : ss[1] < ss[2]}
    BY DEF OpToRel
  <1> HIDE DEF R
  <1>3. PICK x \in S : \A y \in S : ~(<<y, x>> \in R)
    BY <1>1, WFMin
  <1>4. ASSUME NEW y \in S PROVE x <= y
    <2>1. <<y, x>> \in Nat \X Nat /\ ~(<<y, x>> \in R)
      BY <1>3
    <2>2. ~(y < x)
      BY <1>2, <2>1
    <2> QED
      BY <2>2
  <1> QED
    BY <1>4

\* Division with remainder.
LEMMA DivMod ==
  ASSUME NEW w \in Nat \ {0}, NEW a \in Nat
  PROVE  a = (a \div w) * w + (a % w) /\ a \div w \in Int
  OBVIOUS

\* Multiples of w are added and subtracted, and the ones other than 0 are not
\* smaller than w.
LEMMA Multiples ==
  ASSUME NEW w \in Nat \ {0}, NEW y \in Int, NEW z \in Int
  PROVE  /\ (y + z) * w = y * w + z * w
         /\ (y - z) * w = y * w - z * w
         /\ z >= 1 => z * w >= w
         /\ z <= -1 => z * w <= -w
  OBVIOUS

\* Numbers that differ by a multiple of w have the same remainder.
LEMMA ModUnique ==
  ASSUME NEW w \in Nat \ {0}, NEW a \in Nat, NEW b \in Nat, NEW z \in Int, a = b + z * w
  PROVE  a % w = b % w
  <1> DEFINE p == a \div w
             q == b \div w
  <1>1. a = p * w + (a % w) /\ b = q * w + (b % w) /\ p \in Int /\ q \in Int
    BY DivMod
  <1>2. a % w \in 0 .. w - 1 /\ b % w \in 0 .. w - 1
    OBVIOUS
  <1> HIDE DEF p, q
  <1> DEFINE d == q + z - p
  <1>3. d \in Int /\ d * w = q * w + z * w - p * w
    <2>1. (q + z) * w = q * w + z * w
      BY <1>1, Multiples
    <2>2. q + z \in Int
      BY <1>1
    <2>3. (q + z - p) * w = (q + z) * w - p * w
      BY <1>1, <2>2, Multiples
    <2> QED
      BY <1>1, <2>1, <2>2, <2>3
  <1> HIDE DEF d
  <1>4. p * w \in Int /\ q * w \in Int /\ z * w \in Int /\ d * w \in Int
    BY <1>1, <1>3
  <1>5. d * w = (a % w) - (b % w)
    <2> DEFINE A == p * w
               B == q * w
               C == z * w
               ra == a % w
               rb == b % w
    <2>1. a = A + ra /\ b = B + rb /\ a = b + C /\ d * w = B + C - A
      BY <1>1, <1>3
    <2>2. A \in Int /\ B \in Int /\ C \in Int /\ ra \in Int /\ rb \in Int
      BY <1>2, <1>4
    <2> HIDE DEF A, B, C, ra, rb
    <2>3. B + C - A = ra - rb
      BY <2>1, <2>2
    <2> QED
      BY <2>1, <2>3 DEF ra, rb
  <1>6. ~(d >= 1) /\ ~(d <= -1)
    BY <1>2, <1>3, <1>4, <1>5, Multiples
  <1>7. d = 0
    BY <1>3, <1>6
  <1> QED
    BY <1>2, <1>5, <1>7

\* fetch_add(1) and fetch_sub(1) of an unsigned counter.
LEMMA WrapAround ==
  ASSUME NEW w \in Nat \ {0}, NEW n \in 0 .. w - 1
  PROVE  /\ (n + 1) % w = IF n + 1 = w THEN n + 1 - w ELSE n + 1
         /\ (n + w - 1) % w = IF n = 0 THEN n - 1 + w ELSE n - 1
  <1>1. \A x \in 0 .. w - 1 : x % w = x
    OBVIOUS
  <1>2. n + 1 = w => (n + 1) % w = 0
    <2>1. w = 0 + 1 * w
      OBVIOUS
    <2>2. w % w = 0 % w
      BY <2>1, ModUnique
    <2> QED
      BY <1>1, <2>2
  <1>3. n # 0 => (n + w - 1) % w = n - 1
    <2>1. n + w - 1 = n - 1 + 1 * w
      OBVIOUS
    <2> QED
      BY <1>1, <2>1, ModUnique
  <1> QED
    BY <1>1, <1>2, <1>3

-----------------------------------------------------------------------------
(* Types. *)

\* Where a producer has an item, has its node, and has read a tail.
Emplacing == {"alloc", "alloc_cas", "construct", "push_tail", "push_next", "push_link",
              "push_help"}
Building == {"push_tail", "push_next", "push_link", "push_help"}
Linking == {"push_next", "push_link", "push_help", "push_swing"}

\* Where a consumer has read m_head, has found a next node, and has a node to free.
Popping == {"pop_tail", "pop_next", "pop_help", "pop_read", "pop_cas"}
Taking == {"pop_help", "pop_read", "pop_cas"}
Freeing == {"free", "free_link", "free_cas"}

\* A producer at l with locals r: what it is going to dereference is not nullptr.
ProducerOK(l, r) ==
  /\ l \in Emplacing \cup {"idle", "push_swing", "push_size"}
  /\ r.item \in Items <=> l \in Emplacing
  /\ l = "alloc_cas" => r.old.ptr # NULL
  /\ l \in Building \cup {"construct", "push_swing"} => r.node # NULL
  /\ l \in Linking => r.tail.ptr # NULL
  /\ l = "push_link" => r.next.ptr = NULL
  /\ l = "push_help" => r.next.ptr # NULL

\* A consumer likewise.
ConsumerOK(l, r) ==
  /\ l \in Popping \cup Freeing \cup {"idle", "pop_head", "pop_size"}
  /\ l \in Popping => r.head.ptr # NULL
  /\ l \in Taking => r.next.ptr # NULL
  /\ l \in Freeing => r.node # NULL

ThreadsOK == /\ pc \in [Threads -> Pcs] /\ loc \in [Threads -> Locals]
             /\ \A p \in Producers : ProducerOK(pc[p], loc[p])
             /\ \A c \in Consumers : ConsumerOK(pc[c], loc[c])

SharedOK ==
  /\ mem \in [Nodes -> [next : TaggedPtr, data : Items \cup {NoItem}]]
  /\ m_head \in TaggedPtr /\ m_tail \in TaggedPtr /\ m_pool \in TaggedPtr
  /\ m_head.ptr # NULL /\ m_tail.ptr # NULL
  /\ m_size \in 0 .. SizeMod - 1
  /\ brk \in Nodes
  /\ pushed \in Seq(Items) /\ popped \in Seq(Items \cup {NoItem})
  /\ astray \in BOOLEAN

TypeInv == SharedOK /\ ThreadsOK

\* A counter that wraps around keeps its width.
LEMMA ModWidth ==
  ASSUME NEW n \in Nat, NEW w \in Nat \ {0}
  PROVE  n % w \in 0 .. w - 1
  OBVIOUS

\* get_next_tag keeps the width of a tag (tagged_ptr_dcas.h:44-47).
LEMMA NextTagWidth ==
  ASSUME NEW tp \in TaggedPtr
  PROVE  NextTag(tp) \in 0 .. TagMod - 1
  <1>1. tp.tag + 1 \in Nat
    BY DEF TaggedPtr
  <1> QED
    BY <1>1, ModWidth DEF NextTag

\* tagged_ptr(ptr, tag) is a tagged pointer (tagged_ptr_dcas.h:20-47).
LEMMA TaggedType ==
  ASSUME NEW n \in Nodes \cup {NULL}, NEW tag \in 0 .. TagMod - 1
  PROVE  /\ Tagged(n, tag) \in TaggedPtr
         /\ Tagged(n, tag).ptr = n /\ Tagged(n, tag).tag = tag
  BY DEF Tagged, TaggedPtr

\* The locals of a thread that is in no call.
LEMMA NoLocalsType == NullPtr \in TaggedPtr /\ NullPtr.ptr = NULL /\ NoLocals \in Locals
  <1>1. NullPtr \in TaggedPtr /\ NullPtr.ptr = NULL
    BY DEF NullPtr, TaggedPtr, Tagged
  <1> QED
    BY <1>1 DEF NoLocals, Locals

\* A thread that goes on at l with locals r.
LEMMA GotoOthers ==
  ASSUME ThreadsOK, NEW t \in Threads, NEW l, NEW r, Goto(t, l, r)
  PROVE  /\ pc'[t] = l /\ loc'[t] = r
         /\ \A u \in Threads \ {t} : pc'[u] = pc[u] /\ loc'[u] = loc[u]
  BY DEF ThreadsOK, Goto

\* Threads are well typed if the one that takes the step is.
LEMMA GotoTypes ==
  ASSUME ThreadsOK, NEW t \in Threads, NEW l \in Pcs, NEW r \in Locals, Goto(t, l, r),
         t \in Producers => ProducerOK(l, r), t \in Consumers => ConsumerOK(l, r)
  PROVE  ThreadsOK'
  <1>1. pc' \in [Threads -> Pcs] /\ loc' \in [Threads -> Locals]
    BY DEF ThreadsOK, Goto
  <1>2. ASSUME NEW p \in Producers PROVE ProducerOK(pc'[p], loc'[p])
    BY GotoOthers DEF ThreadsOK, Threads
  <1>3. ASSUME NEW c \in Consumers PROVE ConsumerOK(pc'[c], loc'[c])
    BY GotoOthers DEF ThreadsOK, Threads
  <1> QED
    BY <1>1, <1>2, <1>3 DEF ThreadsOK

\* emplace and push_back keep the types, whatever the other threads have done to
\* the nodes in the meantime (lockfree_queue.h:96-140, freelist.h:48-67).
LEMMA ProducerTypes ==
  ASSUME TypeInv, NEW p \in Producers, ProducerStep(p)
  PROVE  TypeInv'
  <1> USE NoLocalsType DEF TypeInv
  <1> DEFINE r == loc[p]
  <1>1. p \in Threads /\ p \notin Consumers /\ r \in Locals /\ ProducerOK(pc[p], r)
    BY DEF Threads, ThreadsOK
  <1>2. /\ r.item \in Items \cup {NoItem} /\ r.node \in Nodes \cup {NULL}
        /\ r.tail \in TaggedPtr /\ r.next \in TaggedPtr /\ r.old \in TaggedPtr
        /\ r.head \in TaggedPtr
    BY <1>1 DEF Locals
  <1>3. \A n \in Nodes : mem[n].next \in TaggedPtr
    BY DEF SharedOK
  <1>4. m_tail \in TaggedPtr /\ m_tail.ptr # NULL /\ m_pool \in TaggedPtr
    BY DEF SharedOK
  <1>5. \A tp \in TaggedPtr : tp.ptr \in Nodes \cup {NULL}
    BY DEF TaggedPtr
  <1> HIDE DEF r
  <1>6. ASSUME NEW i \in Items, Emplace(p, i) PROVE TypeInv'
    <2> DEFINE s == [NoLocals EXCEPT !.item = i, !.old = m_pool]
    <2>1. SharedOK' /\ Goto(p, "alloc", s)
      BY <1>6 DEF SharedOK, Emplace, history
    <2>2. s \in Locals /\ ProducerOK("alloc", s) /\ "alloc" \in Pcs
      BY <1>4 DEF Locals, NoLocals, ProducerOK, Emplacing, Building, Linking, Pcs
    <2> QED
      BY <1>1, <2>1, <2>2, GotoTypes
  <1>7. CASE AllocFresh(p)
    <2> DEFINE s == [r EXCEPT !.node = brk + 1, !.old = NullPtr]
    <2>0. brk + 1 \in Nodes /\ brk + 1 # NULL
      BY <1>7 DEF AllocFresh, SharedOK, Nodes
    <2>1. SharedOK' /\ Goto(p, "construct", s)
      BY <1>7, <2>0 DEF SharedOK, AllocFresh, history, r
    <2>2. s \in Locals /\ ProducerOK("construct", s) /\ "construct" \in Pcs
      BY <1>1, <1>2, <1>3, <1>4, <1>5, <1>7, <2>0 DEF AllocFresh, Locals, ProducerOK,
         Emplacing, Building, Linking, Pcs, r
    <2> QED
      BY <1>1, <2>1, <2>2, GotoTypes
  <1>8. CASE AllocRead(p)
    <2> DEFINE s == [r EXCEPT !.next = mem[r.old.ptr].next]
    <2>1. SharedOK' /\ Goto(p, "alloc_cas", s)
      BY <1>8 DEF SharedOK, AllocRead, history, r
    <2>2. s \in Locals /\ ProducerOK("alloc_cas", s) /\ "alloc_cas" \in Pcs
      BY <1>1, <1>2, <1>3, <1>4, <1>5, <1>8 DEF AllocRead, Locals, ProducerOK,
         Emplacing, Building, Linking, Pcs, r
    <2> QED
      BY <1>1, <2>1, <2>2, GotoTypes
  <1>9. CASE AllocCas(p)
    <2> DEFINE s == [r EXCEPT !.node = r.old.ptr, !.next = NullPtr, !.old = NullPtr]
               u == [r EXCEPT !.next = NullPtr, !.old = m_pool]
    <2>1. \/ Goto(p, "construct", s) /\ m_pool' = Tagged(r.next.ptr, NextTag(r.old))
          \/ Goto(p, "alloc", u) /\ m_pool' = m_pool
      BY <1>9 DEF AllocCas, r
    <2>0. Tagged(r.next.ptr, NextTag(r.old)) \in TaggedPtr
      BY <1>2, <1>5, NextTagWidth, TaggedType
    <2>2. SharedOK'
      BY <1>4, <1>9, <2>0, <2>1 DEF SharedOK, AllocCas, history
    <2>3. /\ s \in Locals /\ ProducerOK("construct", s)
          /\ u \in Locals /\ ProducerOK("alloc", u)
      BY <1>1, <1>2, <1>4, <1>5, <1>9 DEF AllocCas, Locals, ProducerOK, Emplacing, Building,
         Linking, r
    <2> QED
      BY <1>1, <2>1, <2>2, <2>3, GotoTypes DEF Pcs
  <1>10. CASE Construct(p)
    <2>1. r.node \in Nodes /\ r.item \in Items /\ Goto(p, "push_tail", r)
      BY <1>1, <1>2, <1>10 DEF ProducerOK, Construct, Emplacing, r
    <2>2. SharedOK'
      BY <1>10, <2>1 DEF SharedOK, Construct, history, r
    <2>3. ProducerOK("push_tail", r)
      BY <1>1, <1>10, <2>1 DEF ProducerOK, Construct, Emplacing, Building, Linking, r
    <2> QED
      BY <1>1, <2>1, <2>2, <2>3, GotoTypes DEF Pcs
  <1>11. CASE PushLoadTail(p)
    <2> DEFINE s == [r EXCEPT !.tail = m_tail]
    <2>1. SharedOK' /\ Goto(p, "push_next", s)
      BY <1>11 DEF SharedOK, PushLoadTail, history, r
    <2>2. s \in Locals /\ ProducerOK("push_next", s) /\ "push_next" \in Pcs
      BY <1>1, <1>2, <1>3, <1>4, <1>5, <1>11 DEF PushLoadTail, Locals, ProducerOK,
         Emplacing, Building, Linking, Pcs, r
    <2> QED
      BY <1>1, <2>1, <2>2, GotoTypes
  <1>12. CASE PushLoadNext(p)
    <2> DEFINE s == [r EXCEPT !.next = mem[r.tail.ptr].next]
    <2>1. SharedOK' /\ Goto(p, (IF mem[r.tail.ptr].next.ptr = NULL THEN "push_link" ELSE "push_help"), s)
      BY <1>12 DEF SharedOK, PushLoadNext, history, r
    <2>2. s \in Locals /\ ProducerOK((IF mem[r.tail.ptr].next.ptr = NULL THEN "push_link" ELSE "push_help"), s) /\ (IF mem[r.tail.ptr].next.ptr = NULL THEN "push_link" ELSE "push_help") \in Pcs
      BY <1>1, <1>2, <1>3, <1>4, <1>5, <1>12 DEF PushLoadNext, Locals, ProducerOK,
         Emplacing, Building, Linking, Pcs, r
    <2> QED
      BY <1>1, <2>1, <2>2, GotoTypes
  <1>13. CASE PushLink(p)
    <2> DEFINE s == [r EXCEPT !.item = NoItem]
               u == [r EXCEPT !.tail = NullPtr, !.next = NullPtr]
    <2>1. r.tail.ptr \in Nodes /\ r.node \in Nodes /\ r.item \in Items
      BY <1>1, <1>2, <1>5, <1>13 DEF ProducerOK, PushLink, Emplacing, Building, Linking, r
    <2>2. \/ /\ Goto(p, "push_swing", s)
             /\ mem' = [mem EXCEPT ![r.tail.ptr].next = Tagged(r.node, NextTag(r.next))]
             /\ pushed' = Append(pushed, r.item)
             /\ astray' = (astray \/ r.tail.ptr \notin ListFrom(m_head.ptr))
             /\ popped' = popped
          \/ Goto(p, "push_tail", u) /\ UNCHANGED <<mem, pushed, popped, astray>>
      BY <1>13 DEF PushLink, PushRetry, RecordLink, history, r
    <2>3. SharedOK'
      <3>1. UNCHANGED <<m_head, m_tail, m_size, m_pool, brk>>
        BY <1>13 DEF PushLink
      <3>2. Tagged(r.node, NextTag(r.next)) \in TaggedPtr
        BY <1>2, <2>1, NextTagWidth, TaggedType
      <3>3. mem' \in [Nodes -> [next : TaggedPtr, data : Items \cup {NoItem}]]
        <4>1. CASE mem' = [mem EXCEPT ![r.tail.ptr].next = Tagged(r.node, NextTag(r.next))]
          BY <2>1, <3>2, <4>1 DEF SharedOK
        <4>2. CASE mem' = mem
          BY <4>2 DEF SharedOK
        <4> QED
          BY <2>2, <4>1, <4>2
      <3>5. pushed' \in Seq(Items)
        <4>1. pushed' = Append(pushed, r.item) \/ pushed' = pushed
          BY <2>2
        <4>2. pushed \in Seq(Items)
          BY DEF SharedOK
        <4> QED
          BY <2>1, <4>1, <4>2
      <3>4. astray' \in BOOLEAN
        BY <2>2 DEF SharedOK
      <3> QED
        BY <2>2, <3>1, <3>3, <3>4, <3>5 DEF SharedOK
    <2>4. /\ s \in Locals /\ ProducerOK("push_swing", s)
          /\ u \in Locals /\ ProducerOK("push_tail", u)
      BY <1>1, <1>2, <1>13, <2>1 DEF PushLink, Locals, ProducerOK, Emplacing, Building,
         Linking, r
    <2> QED
      BY <1>1, <2>2, <2>3, <2>4, GotoTypes DEF Pcs
  <1>14. CASE PushSwing(p)
    <2> DEFINE s == NoLocals
    <2>1. r.tail \in TaggedPtr /\ r.node \in Nodes
      BY <1>1, <1>2, <1>5, <1>14 DEF ProducerOK, PushSwing, Building, Linking, r
    <2>2. m_tail' = m_tail \/ m_tail' = Tagged(r.node, NextTag(r.tail))
      BY <1>14 DEF PushSwing, SwingTail, r
    <2>0. m_tail' \in TaggedPtr /\ m_tail'.ptr # NULL
      <3>1. NextTag(r.tail) \in 0 .. TagMod - 1 /\ r.node # NULL
        BY <2>1, NextTagWidth DEF Nodes
      <3> QED
        BY <1>4, <2>1, <2>2, <3>1, TaggedType
    <2>3. SharedOK'
      BY <1>14, <2>0 DEF SharedOK, PushSwing, history
    <2>4. Goto(p, "push_size", s) /\ s \in Locals /\ ProducerOK("push_size", s)
      BY <1>1, <1>2, <1>14 DEF PushSwing, PushRetry, Locals, NoLocals, ProducerOK, Emplacing,
         Building, Linking, r
    <2> QED
      BY <1>1, <2>3, <2>4, GotoTypes DEF Pcs
  <1>15. CASE PushHelp(p)
    <2> DEFINE s == [r EXCEPT !.tail = NullPtr, !.next = NullPtr]
    <2>1. r.tail \in TaggedPtr /\ r.next.ptr \in Nodes
      BY <1>1, <1>2, <1>5, <1>15 DEF ProducerOK, PushHelp, Building, Linking, r
    <2>2. m_tail' = m_tail \/ m_tail' = Tagged(r.next.ptr, NextTag(r.tail))
      BY <1>15 DEF PushHelp, SwingTail, r
    <2>0. m_tail' \in TaggedPtr /\ m_tail'.ptr # NULL
      <3>1. NextTag(r.tail) \in 0 .. TagMod - 1 /\ r.next.ptr # NULL
        BY <2>1, NextTagWidth DEF Nodes
      <3> QED
        BY <1>4, <2>1, <2>2, <3>1, TaggedType
    <2>3. SharedOK'
      BY <1>15, <2>0 DEF SharedOK, PushHelp, history
    <2>4. Goto(p, "push_tail", s) /\ s \in Locals /\ ProducerOK("push_tail", s)
      BY <1>1, <1>2, <1>15 DEF PushHelp, PushRetry, Locals, NoLocals, ProducerOK, Emplacing,
         Building, Linking, r
    <2> QED
      BY <1>1, <2>3, <2>4, GotoTypes DEF Pcs
  <1>16. CASE PushSize(p)
    <2>1. SharedOK'
      BY <1>16, ModWidth DEF SharedOK, PushSize, history
    <2>2. Goto(p, "idle", NoLocals) /\ ProducerOK("idle", NoLocals)
      BY <1>16 DEF PushSize, Return, NoLocals, ProducerOK, Emplacing, Building, Linking
    <2> QED
      BY <1>1, <2>1, <2>2, GotoTypes DEF Pcs
  <1> QED
    BY <1>6, <1>7, <1>8, <1>9, <1>10, <1>11, <1>12, <1>13, <1>14, <1>15, <1>16 DEF ProducerStep

\* pop_front keeps the types: what it reads from a node that may have been recycled
\* is a tagged pointer still (lockfree_queue.h:46-94, freelist.h:70-83).
LEMMA ConsumerTypes ==
  ASSUME TypeInv, NEW c \in Consumers, ConsumerStep(c)
  PROVE  TypeInv'
  <1> USE NoLocalsType DEF TypeInv
  <1> DEFINE r == loc[c]
  <1>1. c \in Threads /\ c \notin Producers /\ r \in Locals /\ ConsumerOK(pc[c], r)
    BY DEF Threads, ThreadsOK
  <1>2. /\ r.item \in Items \cup {NoItem} /\ r.node \in Nodes \cup {NULL}
        /\ r.tail \in TaggedPtr /\ r.next \in TaggedPtr /\ r.old \in TaggedPtr
        /\ r.head \in TaggedPtr
    BY <1>1 DEF Locals
  <1>3. \A n \in Nodes : mem[n].next \in TaggedPtr /\ mem[n].data \in Items \cup {NoItem}
    BY DEF SharedOK
  <1>4. /\ m_head \in TaggedPtr /\ m_head.ptr # NULL
        /\ m_tail \in TaggedPtr /\ m_tail.ptr # NULL /\ m_pool \in TaggedPtr
    BY DEF SharedOK
  <1>5. \A tp \in TaggedPtr : tp.ptr \in Nodes \cup {NULL}
    BY DEF TaggedPtr
  <1>6. \A l \in {"idle", "pop_head", "pop_size"} : ConsumerOK(l, NoLocals) /\ l \in Pcs
    BY DEF ConsumerOK, Popping, Taking, Freeing, Pcs
  <1> HIDE DEF r
  <1>7. CASE PopLoadHead(c)
    <2> DEFINE s == [NoLocals EXCEPT !.head = m_head]
    <2>1. SharedOK' /\ Goto(c, "pop_tail", s)
      BY <1>7 DEF SharedOK, PopLoadHead, history, r
    <2>2. s \in Locals /\ ConsumerOK("pop_tail", s) /\ "pop_tail" \in Pcs
      BY <1>1, <1>2, <1>3, <1>4, <1>5, <1>7 DEF PopLoadHead, Locals, NoLocals, ConsumerOK,
         Popping, Taking, Freeing, Pcs, r
    <2> QED
      BY <1>1, <2>1, <2>2, GotoTypes
  <1>8. CASE PopLoadTail(c)
    <2> DEFINE s == [r EXCEPT !.tail = m_tail]
    <2>1. SharedOK' /\ Goto(c, "pop_next", s)
      BY <1>8 DEF SharedOK, PopLoadTail, history, r
    <2>2. s \in Locals /\ ConsumerOK("pop_next", s) /\ "pop_next" \in Pcs
      BY <1>1, <1>2, <1>3, <1>4, <1>5, <1>8 DEF PopLoadTail, Locals, NoLocals, ConsumerOK,
         Popping, Taking, Freeing, Pcs, r
    <2> QED
      BY <1>1, <2>1, <2>2, GotoTypes
  <1>9. CASE PopLoadNext(c)
    <2> DEFINE s == [r EXCEPT !.next = mem[r.head.ptr].next]
    <2>1. SharedOK' /\ r.head.ptr \in Nodes
      BY <1>1, <1>2, <1>5, <1>9 DEF SharedOK, PopLoadNext, history, ConsumerOK, Popping, r
    <2>2. \/ Goto(c, "idle", NoLocals) \/ Goto(c, "pop_head", NoLocals)
          \/ /\ Goto(c, "pop_help", s) \/ Goto(c, "pop_read", s)
             /\ s.next.ptr # NULL
      BY <1>1, <1>2, <1>9 DEF PopLoadNext, Return, Locals, r
    <2>3. s \in Locals /\ s.head = r.head
      BY <1>1, <1>3, <2>1 DEF Locals
    <2>4. s.next.ptr # NULL => ConsumerOK("pop_help", s) /\ ConsumerOK("pop_read", s)
      BY <2>1, <2>3 DEF ConsumerOK, Popping, Taking, Freeing, Nodes
    <2> QED
      BY <1>1, <1>6, <2>1, <2>2, <2>3, <2>4, GotoTypes DEF Pcs
  <1>10. CASE PopHelp(c)
    <2>1. r.tail \in TaggedPtr /\ r.next.ptr \in Nodes
      BY <1>1, <1>2, <1>5, <1>10 DEF ConsumerOK, PopHelp, Taking, r
    <2>2. m_tail' = m_tail \/ m_tail' = Tagged(r.next.ptr, NextTag(r.tail))
      BY <1>10 DEF PopHelp, SwingTail, r
    <2>3. m_tail' \in TaggedPtr /\ m_tail'.ptr # NULL
      <3>1. NextTag(r.tail) \in 0 .. TagMod - 1 /\ r.next.ptr # NULL
        BY <2>1, NextTagWidth DEF Nodes
      <3> QED
        BY <1>4, <2>1, <2>2, <3>1, TaggedType
    <2>4. SharedOK' /\ Goto(c, "pop_head", NoLocals)
      BY <1>10, <2>3 DEF SharedOK, PopHelp, history
    <2> QED
      BY <1>1, <1>6, <2>4, GotoTypes
  <1>11. CASE PopRead(c)
    <2> DEFINE s == [r EXCEPT !.item = mem[r.next.ptr].data, !.tail = NullPtr]
    <2>1. SharedOK' /\ Goto(c, "pop_cas", s)
      BY <1>11 DEF SharedOK, PopRead, history, r
    <2>2. s \in Locals /\ ConsumerOK("pop_cas", s) /\ "pop_cas" \in Pcs
      BY <1>1, <1>2, <1>3, <1>4, <1>5, <1>11 DEF PopRead, Locals, NoLocals, ConsumerOK,
         Popping, Taking, Freeing, Pcs, r
    <2> QED
      BY <1>1, <2>1, <2>2, GotoTypes
  <1>12. CASE PopCas(c)
    <2> DEFINE s == [NoLocals EXCEPT !.node = r.head.ptr]
    <2>1. r.head.ptr \in Nodes /\ r.next.ptr \in Nodes
      BY <1>1, <1>2, <1>5, <1>12 DEF ConsumerOK, PopCas, Popping, Taking, r
    <2>2. \/ /\ Goto(c, "free", s) /\ popped' = Append(popped, r.item)
             /\ m_head' = Tagged(r.next.ptr, NextTag(r.head))
          \/ Goto(c, "pop_head", NoLocals) /\ m_head' = m_head /\ popped' = popped
      BY <1>12 DEF PopCas, r
    <2>3. m_head' \in TaggedPtr /\ m_head'.ptr # NULL
      <3>1. NextTag(r.head) \in 0 .. TagMod - 1 /\ r.next.ptr # NULL
        BY <1>2, <2>1, NextTagWidth DEF Nodes
      <3>2. m_head' = Tagged(r.next.ptr, NextTag(r.head)) \/ m_head' = m_head
        BY <2>2
      <3> QED
        BY <1>4, <2>1, <3>1, <3>2, TaggedType
    <2>4. popped' \in Seq(Items \cup {NoItem})
      <3>1. popped' = Append(popped, r.item) \/ popped' = popped
        BY <2>2
      <3>2. popped \in Seq(Items \cup {NoItem})
        BY DEF SharedOK
      <3> QED
        BY <1>2, <3>1, <3>2
    <2>5. SharedOK'
      BY <1>12, <2>3, <2>4 DEF SharedOK, PopCas
    <2>6. s \in Locals /\ ConsumerOK("free", s)
      BY <2>1 DEF Locals, NoLocals, ConsumerOK, Popping, Taking, Freeing, Nodes
    <2> QED
      BY <1>1, <1>6, <2>2, <2>5, <2>6, GotoTypes DEF Pcs
  <1>13. CASE FreeLoad(c)
    <2> DEFINE s == [r EXCEPT !.old = m_pool]
    <2>1. SharedOK' /\ Goto(c, "free_link", s)
      BY <1>13 DEF SharedOK, FreeLoad, history, r
    <2>2. s \in Locals /\ ConsumerOK("free_link", s) /\ "free_link" \in Pcs
      BY <1>1, <1>2, <1>3, <1>4, <1>5, <1>13 DEF FreeLoad, Locals, NoLocals, ConsumerOK,
         Popping, Taking, Freeing, Pcs, r
    <2> QED
      BY <1>1, <2>1, <2>2, GotoTypes
  <1>14. CASE FreeLink(c)
    <2>1. r.node \in Nodes /\ r.old.ptr \in Nodes \cup {NULL}
      BY <1>1, <1>2, <1>5, <1>14 DEF ConsumerOK, FreeLink, Freeing, r
    <2>2. mem' \in [Nodes -> [next : TaggedPtr, data : Items \cup {NoItem}]]
      <3>1. mem' = [mem EXCEPT ![r.node].next.ptr = r.old.ptr]
        BY <1>14 DEF FreeLink, r
      <3>2. mem[r.node] \in [next : TaggedPtr, data : Items \cup {NoItem}]
        BY <2>1 DEF SharedOK
      <3>3. [mem[r.node].next EXCEPT !.ptr = r.old.ptr] \in TaggedPtr
        BY <2>1, <3>2 DEF TaggedPtr
      <3> QED
        BY <2>1, <3>1, <3>2, <3>3 DEF SharedOK
    <2>3. SharedOK' /\ Goto(c, "free_cas", r)
      BY <1>14, <2>2 DEF SharedOK, FreeLink, history, r
    <2>4. ConsumerOK("free_cas", r)
      BY <1>1, <1>14 DEF FreeLink, ConsumerOK, Popping, Taking, Freeing, r
    <2> QED
      BY <1>1, <2>3, <2>4, GotoTypes DEF Pcs
  <1>15. CASE FreeCas(c)
    <2> DEFINE s == [r EXCEPT !.old = m_pool]
    <2>1. \/ Goto(c, "pop_size", NoLocals) /\ m_pool' = Tagged(r.node, r.old.tag)
          \/ Goto(c, "free_link", s) /\ m_pool' = m_pool
      BY <1>15 DEF FreeCas, r
    <2>2. r.old.tag \in 0 .. TagMod - 1
      BY <1>2 DEF TaggedPtr
    <2>3. Tagged(r.node, r.old.tag) \in TaggedPtr
      BY <1>2, <2>2, TaggedType
    <2>4. SharedOK'
      BY <1>4, <1>15, <2>1, <2>3 DEF SharedOK, FreeCas, history
    <2>5. s \in Locals /\ ConsumerOK("free_link", s)
      BY <1>1, <1>4, <1>15 DEF FreeCas, Locals, ConsumerOK, Popping, Taking, Freeing, r
    <2> QED
      BY <1>1, <1>6, <2>1, <2>4, <2>5, GotoTypes DEF Pcs
  <1>16. CASE PopSize(c)
    <2>1. SharedOK'
      <3>1. m_size + SizeMod - 1 \in Nat
        BY DEF SharedOK
      <3> QED
        BY <1>16, <3>1, ModWidth DEF SharedOK, PopSize, history
    <2>2. Goto(c, "idle", NoLocals)
      BY <1>16 DEF PopSize, Return
    <2> QED
      BY <1>1, <1>6, <2>1, <2>2, GotoTypes
  <1> QED
    BY <1>7, <1>8, <1>9, <1>10, <1>11, <1>12, <1>13, <1>14, <1>15, <1>16 DEF ConsumerStep

\* A compare_exchange that fails without a cause keeps the types.
LEMMA SpuriousTypes ==
  ASSUME TypeInv, NEW t \in Threads, SpuriousFail(t)
  PROVE  TypeInv'
  <1> USE NoLocalsType DEF TypeInv
  <1> DEFINE r == loc[t]
             retry == [r EXCEPT !.tail = NullPtr, !.next = NullPtr]
             again == [r EXCEPT !.next = NullPtr, !.old = m_pool]
             old == [r EXCEPT !.old = m_pool]
  <1>1. r \in Locals /\ m_pool \in TaggedPtr
    BY DEF ThreadsOK, SharedOK
  <1>2. SharedOK'
    BY DEF SpuriousFail, SharedOK, history
  <1>3. \/ pc[t] = "push_link" /\ Goto(t, "push_tail", retry)
        \/ pc[t] = "pop_cas" /\ Goto(t, "pop_head", NoLocals)
        \/ pc[t] = "alloc_cas" /\ Goto(t, "alloc", again)
        \/ pc[t] = "free_cas" /\ Goto(t, "free_link", old)
    BY DEF SpuriousFail, PushRetry
  <1>4. retry \in Locals /\ again \in Locals /\ old \in Locals
    BY <1>1 DEF Locals
  <1>5. CASE t \in Producers
    <2>1. ProducerOK(pc[t], r) /\ t \notin Consumers
      BY <1>5 DEF ThreadsOK
    <2>2. /\ pc[t] = "push_link" => ProducerOK("push_tail", retry)
          /\ pc[t] = "alloc_cas" => ProducerOK("alloc", again)
          /\ pc[t] \notin {"pop_cas", "free_cas"}
      BY <1>1, <2>1 DEF ProducerOK, Emplacing, Building, Linking, Locals
    <2> QED
      BY <1>2, <1>3, <1>4, <2>1, <2>2, GotoTypes DEF Pcs
  <1>6. CASE t \in Consumers
    <2>1. ConsumerOK(pc[t], r) /\ t \notin Producers
      BY <1>6 DEF ThreadsOK
    <2>2. /\ ConsumerOK("pop_head", NoLocals)
          /\ pc[t] = "free_cas" => ConsumerOK("free_link", old)
          /\ pc[t] \notin {"push_link", "alloc_cas"}
      BY <1>1, <2>1 DEF ConsumerOK, Popping, Taking, Freeing, Locals
    <2> QED
      BY <1>2, <1>3, <1>4, <2>1, <2>2, GotoTypes DEF Pcs
  <1> QED
    BY <1>5, <1>6 DEF Threads

\* The constructors leave well-typed lists behind (lockfree_queue.h:34-44,
\* freelist.h:21-30).
LEMMA TypeInvInit == Init => TypeInv
  <1> SUFFICES ASSUME Init PROVE TypeInv
    OBVIOUS
  <1>1. Dummy \in Nodes /\ Dummy # NULL
    BY DEF Dummy, Nodes
  <1>2. 0 \in 0 .. TagMod - 1 /\ 1 % TagMod \in 0 .. TagMod - 1 /\ 0 \in 0 .. SizeMod - 1
    BY ModWidth
  <1>3. \A n \in Nodes : n < Dummy => n - 1 \in Nodes \cup {NULL}
    BY <1>1 DEF Nodes
  <1>4. mem \in [Nodes -> [next : TaggedPtr, data : Items \cup {NoItem}]]
    BY <1>2, <1>3, TaggedType, NoLocalsType DEF Init
  <1>5. Dummy - 1 \in Nodes \cup {NULL}
    BY <1>1 DEF Nodes
  <1>6. /\ m_head \in TaggedPtr /\ m_tail \in TaggedPtr /\ m_pool \in TaggedPtr
        /\ m_head.ptr # NULL /\ m_tail.ptr # NULL
    BY <1>1, <1>2, <1>5, TaggedType DEF Init
  <1>7. SharedOK
    <2>1. pushed \in Seq(Items) /\ popped \in Seq(Items \cup {NoItem})
      BY DEF Init
    <2>3. astray \in BOOLEAN
      BY DEF Init
    <2>2. m_size \in 0 .. SizeMod - 1 /\ brk \in Nodes
      BY <1>1, <1>2 DEF Init
    <2> QED
      BY <1>4, <1>6, <2>1, <2>2, <2>3 DEF SharedOK
  <1>8. ThreadsOK
    <2>1. ProducerOK("idle", NoLocals) /\ ConsumerOK("idle", NoLocals) /\ "idle" \in Pcs
      BY DEF ProducerOK, ConsumerOK, NoLocals, Emplacing, Building, Linking, Popping, Taking,
             Freeing, Pcs
    <2> QED
      BY <2>1, NoLocalsType DEF Init, ThreadsOK, Threads
  <1> QED
    BY <1>7, <1>8 DEF TypeInv

\* Every step keeps the types.
LEMMA TypeInvNext == TypeInv /\ [Next]_vars => TypeInv'
  <1>1. TypeInv /\ UNCHANGED vars => TypeInv'
    BY DEF TypeInv, SharedOK, ThreadsOK, vars, history
  <1> QED
    BY <1>1, ProducerTypes, ConsumerTypes, SpuriousTypes DEF Next

\* No thread dereferences nullptr, and tags and m_size keep their widths, even when
\* tags wrap around, compare_exchange fails without a cause, and nodes are recycled
\* while other threads read them (lockfree_queue.h:46-129, freelist.h:48-83).
THEOREM QueueTypeCorrect == Spec => [](TypeOK /\ ThreadsOK)
  <1>1. TypeInv => TypeOK /\ ThreadsOK
    BY DEF TypeInv, SharedOK, ThreadsOK, TypeOK
  <1> QED
    BY <1>1, TypeInvInit, TypeInvNext, PTL DEF Spec

-----------------------------------------------------------------------------
(* The element counter. *)

\* Calls that have linked a node, or moved m_head, and are still to count it.
Linked == {p \in Producers : pc[p] \in {"push_swing", "push_size"}}
Taken == {c \in Consumers : pc[c] \in {"free", "free_link", "free_cas", "pop_size"}}

\* What m_size is off by when the calls under way are counted in.
Balance == m_size + Len(popped) + Cardinality(Linked) - Len(pushed) - Cardinality(Taken)

\* It is off by a multiple of its width.
SizeInv == /\ IsFiniteSet(Linked) /\ IsFiniteSet(Taken)
           /\ \E z \in Int : Balance = z * SizeMod

\* A step that counts nothing, or counts and may wrap around.
LEMMA SizeStep ==
  ASSUME SizeInv, Balance \in Int, IsFiniteSet(Linked'), IsFiniteSet(Taken'),
         Balance' \in {Balance, Balance + SizeMod, Balance - SizeMod}
  PROVE  SizeInv'
  <1>1. PICK z \in Int : Balance = z * SizeMod
    BY DEF SizeInv
  <1>2. /\ (z + 1) * SizeMod = z * SizeMod + 1 * SizeMod
        /\ (z - 1) * SizeMod = z * SizeMod - 1 * SizeMod
        /\ 1 * SizeMod = SizeMod /\ z + 1 \in Int /\ z - 1 \in Int
    BY Multiples
  <1>3. \/ Balance' = z * SizeMod \/ Balance' = (z + 1) * SizeMod
        \/ Balance' = (z - 1) * SizeMod
    BY <1>1, <1>2
  <1> QED
    BY <1>2, <1>3 DEF SizeInv

\* What the balance is made of.
LEMMA BalanceType ==
  ASSUME TypeInv, SizeInv
  PROVE  /\ m_size \in 0 .. SizeMod - 1 /\ Len(pushed) \in Nat /\ Len(popped) \in Nat
         /\ IsFiniteSet(Linked) /\ IsFiniteSet(Taken)
         /\ Cardinality(Linked) \in Nat /\ Cardinality(Taken) \in Nat
         /\ Balance \in Int
  <1>1. m_size \in 0 .. SizeMod - 1 /\ Len(pushed) \in Nat /\ Len(popped) \in Nat
    BY DEF TypeInv, SharedOK
  <1>2. /\ IsFiniteSet(Linked) /\ IsFiniteSet(Taken)
        /\ Cardinality(Linked) \in Nat /\ Cardinality(Taken) \in Nat
    BY FS_CardinalityType DEF SizeInv
  <1> QED
    BY <1>1, <1>2 DEF Balance

\* A step that counts nothing.
LEMMA SizeKept ==
  ASSUME TypeInv, SizeInv, Linked' = Linked, Taken' = Taken,
         UNCHANGED <<m_size, pushed, popped>>
  PROVE  SizeInv'
  <1>1. Balance' = Balance
    BY DEF Balance
  <1> QED
    BY <1>1, BalanceType, SizeStep

\* A call is under way between its compare_exchange and its fetch_add or fetch_sub.
LEMMA SizeGoto ==
  ASSUME TypeInv, NEW t \in Threads, NEW l, NEW r, Goto(t, l, r)
  PROVE  /\ t \in Producers => /\ Taken' = Taken
                               /\ Linked' = IF l \in {"push_swing", "push_size"}
                                              THEN Linked \cup {t} ELSE Linked \ {t}
         /\ t \in Consumers => /\ Linked' = Linked
                               /\ Taken' = IF l \in {"free", "free_link", "free_cas", "pop_size"}
                                             THEN Taken \cup {t} ELSE Taken \ {t}
  <1>1. /\ pc'[t] = l
        /\ \A u \in Threads \ {t} : pc'[u] = pc[u]
    BY GotoOthers DEF TypeInv
  <1> QED
    BY <1>1 DEF Linked, Taken, Threads

\* push_back counts its element after it has linked it (lockfree_queue.h:113-118).
LEMMA SizeProducer ==
  ASSUME TypeInv, SizeInv, NEW p \in Producers, ProducerStep(p)
  PROVE  SizeInv'
  <1>1. p \in Threads
    BY DEF Threads
  <1>5. CASE PushLink(p) /\ pushed' # pushed
    <2>1. /\ \E r : Goto(p, "push_swing", r)
          /\ pushed' = Append(pushed, loc[p].item) /\ UNCHANGED <<popped, m_size>>
      BY <1>5 DEF PushLink, RecordLink, history
    <2>2. p \notin Linked
      BY <1>5 DEF PushLink, Linked
    <2>3. Linked' = Linked \cup {p} /\ Taken' = Taken
      BY <1>1, <2>1, SizeGoto
    <2>4. IsFiniteSet(Linked') /\ Cardinality(Linked') = Cardinality(Linked) + 1
      BY <2>2, <2>3, BalanceType, FS_AddElement
    <2>5. Len(pushed') = Len(pushed) + 1
      BY <2>1 DEF TypeInv, SharedOK
    <2>6. Balance' = Balance
      BY <2>1, <2>3, <2>4, <2>5, BalanceType DEF Balance
    <2> QED
      BY <2>3, <2>4, <2>6, BalanceType, SizeStep
  <1>6. CASE PushSize(p)
    <2>1. /\ Goto(p, "idle", NoLocals) /\ UNCHANGED <<pushed, popped>>
          /\ m_size' = (m_size + 1) % SizeMod
      BY <1>6 DEF PushSize, Return, history
    <2>2. p \in Linked
      BY <1>6 DEF PushSize, Linked
    <2>3. Linked' = Linked \ {p} /\ Taken' = Taken
      BY <1>1, <2>1, SizeGoto
    <2>4. IsFiniteSet(Linked') /\ Cardinality(Linked') = Cardinality(Linked) - 1
      BY <2>2, <2>3, BalanceType, FS_RemoveElement
    <2>5. m_size' = m_size + 1 \/ m_size' = m_size + 1 - SizeMod
      BY <2>1, BalanceType, WrapAround
    <2>6. PICK n : n = m_size'
      OBVIOUS
    <2>7. PICK k : k = Cardinality(Linked')
      OBVIOUS
    <2>8. Balance' = n + Len(popped) + k - Len(pushed) - Cardinality(Taken)
      BY <2>1, <2>3, <2>6, <2>7 DEF Balance
    <2>9. /\ m_size \in Int /\ Len(popped) \in Int /\ Len(pushed) \in Int /\ SizeMod \in Int
           /\ Cardinality(Linked) \in Int /\ Cardinality(Taken) \in Int
      BY BalanceType
    <2>10. k = Cardinality(Linked) - 1 /\ (n = m_size + 1 \/ n = m_size + 1 - SizeMod)
      BY <2>4, <2>5, <2>6, <2>7
    <2>11. Balance' = Balance \/ Balance' = Balance - SizeMod
      <3> DEFINE b == n + Len(popped) + k - Len(pushed) - Cardinality(Taken)
      <3>1. n = m_size + 1 => b = Balance
        BY <2>10, <2>9 DEF Balance
      <3>2. n = m_size + 1 - SizeMod => b = Balance - SizeMod
        BY <2>10, <2>9 DEF Balance
      <3> QED
        BY <2>8, <2>10, <3>1, <3>2
    <2> QED
      BY <2>3, <2>4, <2>11, BalanceType, SizeStep
  <1>7. CASE ~PushSize(p) /\ ~(PushLink(p) /\ pushed' # pushed)
    <2>1. UNCHANGED <<m_size, pushed, popped>>
      BY <1>7 DEF ProducerStep, Emplace, AllocFresh, AllocRead, AllocCas, Construct,
           PushLoadTail, PushLoadNext, PushLink, RecordLink, PushSwing, PushHelp, history
    <2>2. \E l, r : Goto(p, l, r) /\ (l \in {"push_swing", "push_size"} <=> p \in Linked)
      <3>1. CASE PushLink(p)
        <4>1. \E r : Goto(p, "push_tail", r)
          <5>1. Len(Append(pushed, loc[p].item)) # Len(pushed)
            BY DEF TypeInv, SharedOK, ThreadsOK, ProducerOK, Threads, Emplacing
          <5> QED
            BY <1>7, <3>1, <5>1 DEF PushLink, PushRetry, RecordLink
        <4> QED
          BY <3>1, <4>1 DEF PushLink, Linked
      <3>2. CASE PushSwing(p) \/ PushHelp(p)
        BY <3>2 DEF PushSwing, PushHelp, PushRetry, Linked
      <3>3. CASE AllocCas(p) \/ PushLoadNext(p)
        BY <3>3 DEF AllocCas, PushLoadNext, Linked
      <3>4. CASE AllocFresh(p) \/ AllocRead(p)
        BY <3>4 DEF AllocFresh, AllocRead, Linked
      <3>5. CASE Construct(p) \/ PushLoadTail(p)
        BY <3>5 DEF Construct, PushLoadTail, Linked
      <3>6. CASE \E i \in Items : Emplace(p, i)
        BY <3>6 DEF Emplace, Linked
      <3> QED
        BY <1>7, <3>1, <3>2, <3>3, <3>4, <3>5, <3>6 DEF ProducerStep
    <2>3. Linked' = Linked /\ Taken' = Taken
      BY <1>1, <2>2, SizeGoto
    <2> QED
      BY <2>1, <2>3, SizeKept
  <1> QED
    BY <1>5, <1>6, <1>7

\* pop_front counts its element after it has freed the node (lockfree_queue.h:84-89).
LEMMA SizeConsumer ==
  ASSUME TypeInv, SizeInv, NEW c \in Consumers, ConsumerStep(c)
  PROVE  SizeInv'
  <1>1. c \in Threads
    BY DEF Threads
  <1>5. CASE PopCas(c) /\ m_head = loc[c].head
    <2>1. /\ \E r : Goto(c, "free", r)
          /\ popped' = Append(popped, loc[c].item) /\ UNCHANGED <<pushed, m_size>>
      BY <1>5 DEF PopCas
    <2>2. c \notin Taken
      BY <1>5 DEF PopCas, Taken
    <2>3. Taken' = Taken \cup {c} /\ Linked' = Linked
      BY <1>1, <2>1, SizeGoto
    <2>4. IsFiniteSet(Taken') /\ Cardinality(Taken') = Cardinality(Taken) + 1
      BY <2>2, <2>3, BalanceType, FS_AddElement
    <2>5. Len(popped') = Len(popped) + 1
      BY <2>1 DEF TypeInv, SharedOK
    <2>6. Balance' = Balance
      BY <2>1, <2>3, <2>4, <2>5, BalanceType DEF Balance
    <2> QED
      BY <2>3, <2>4, <2>6, BalanceType, SizeStep
  <1>6. CASE PopSize(c)
    <2>1. /\ Goto(c, "idle", NoLocals) /\ UNCHANGED <<pushed, popped>>
          /\ m_size' = (m_size + SizeMod - 1) % SizeMod
      BY <1>6 DEF PopSize, Return, history
    <2>2. c \in Taken
      BY <1>6 DEF PopSize, Taken
    <2>3. Taken' = Taken \ {c} /\ Linked' = Linked
      BY <1>1, <2>1, SizeGoto
    <2>4. IsFiniteSet(Taken') /\ Cardinality(Taken') = Cardinality(Taken) - 1
      BY <2>2, <2>3, BalanceType, FS_RemoveElement
    <2>5. m_size' = m_size - 1 \/ m_size' = m_size - 1 + SizeMod
      BY <2>1, BalanceType, WrapAround
    <2>6. PICK n : n = m_size'
      OBVIOUS
    <2>7. PICK k : k = Cardinality(Taken')
      OBVIOUS
    <2>8. Balance' = n + Len(popped) + Cardinality(Linked) - Len(pushed) - k
      BY <2>1, <2>3, <2>6, <2>7 DEF Balance
    <2>9. /\ m_size \in Int /\ Len(popped) \in Int /\ Len(pushed) \in Int /\ SizeMod \in Int
           /\ Cardinality(Linked) \in Int /\ Cardinality(Taken) \in Int
      BY BalanceType
    <2>10. k = Cardinality(Taken) - 1 /\ (n = m_size - 1 \/ n = m_size - 1 + SizeMod)
      BY <2>4, <2>5, <2>6, <2>7
    <2>11. Balance' = Balance \/ Balance' = Balance + SizeMod
      <3> DEFINE b == n + Len(popped) + Cardinality(Linked) - Len(pushed) - k
      <3>1. n = m_size - 1 => b = Balance
        BY <2>10, <2>9 DEF Balance
      <3>2. n = m_size - 1 + SizeMod => b = Balance + SizeMod
        BY <2>10, <2>9 DEF Balance
      <3> QED
        BY <2>8, <2>10, <3>1, <3>2
    <2> QED
      BY <2>3, <2>4, <2>11, BalanceType, SizeStep
  <1>7. CASE ~PopSize(c) /\ ~(PopCas(c) /\ m_head = loc[c].head)
    <2>1. UNCHANGED <<m_size, pushed, popped>>
      BY <1>7 DEF ConsumerStep, PopLoadHead, PopLoadTail, PopLoadNext, PopHelp, PopRead,
           PopCas, FreeLoad, FreeLink, FreeCas, history
    <2>2. \E l, r : /\ Goto(c, l, r)
                    /\ l \in {"free", "free_link", "free_cas", "pop_size"} <=> c \in Taken
      <3>1. CASE PopCas(c) \/ FreeCas(c)
        BY <1>7, <3>1 DEF PopCas, FreeCas, Taken
      <3>2. CASE PopLoadNext(c)
        BY <3>2 DEF PopLoadNext, Return, Taken
      <3>3. CASE \/ PopLoadHead(c) \/ PopLoadTail(c) \/ PopHelp(c) \/ PopRead(c)
                 \/ FreeLoad(c) \/ FreeLink(c)
        BY <3>3 DEF PopLoadHead, PopLoadTail, PopHelp, PopRead, FreeLoad, FreeLink, Taken
      <3> QED
        BY <1>7, <3>1, <3>2, <3>3 DEF ConsumerStep
    <2>3. Linked' = Linked /\ Taken' = Taken
      BY <1>1, <2>2, SizeGoto
    <2> QED
      BY <2>1, <2>3, SizeKept
  <1> QED
    BY <1>5, <1>6, <1>7

\* A compare_exchange that fails without a cause counts nothing.
LEMMA SizeSpurious ==
  ASSUME TypeInv, SizeInv, NEW t \in Threads, SpuriousFail(t)
  PROVE  SizeInv'
  <1>1. UNCHANGED <<m_size, pushed, popped>>
    BY DEF SpuriousFail, history
  <1>2. /\ t \in Producers => pc[t] \in {"push_link", "alloc_cas"}
        /\ t \in Consumers => pc[t] \in {"pop_cas", "free_cas"}
    BY DEF TypeInv, ThreadsOK, ProducerOK, ConsumerOK, SpuriousFail, Emplacing, Popping, Freeing
  <1>3. CASE t \in Producers
    <2>1. \E l, r : Goto(t, l, r) /\ (l \in {"push_swing", "push_size"} <=> t \in Linked)
      BY <1>2, <1>3 DEF SpuriousFail, PushRetry, Linked
    <2> QED
      BY <1>1, <1>3, <2>1, SizeGoto, SizeKept
  <1>4. CASE t \in Consumers
    <2>1. \E l, r : /\ Goto(t, l, r)
                    /\ l \in {"free", "free_link", "free_cas", "pop_size"} <=> t \in Taken
      BY <1>2, <1>4 DEF SpuriousFail, Taken
    <2> QED
      BY <1>1, <1>4, <2>1, SizeGoto, SizeKept
  <1> QED
    BY <1>3, <1>4 DEF Threads

\* size() is the number of elements up to the calls under way, however often m_size
\* has wrapped around below zero and back (lockfree_queue.h:88, 117-118).
THEOREM SizeIsRight == Spec => []SizeIsAccountedFor
  <1>1. Init => SizeInv
    <2> SUFFICES ASSUME Init PROVE SizeInv
      OBVIOUS
    <2>1. Linked = {} /\ Taken = {}
      BY DEF Init, Linked, Taken, Threads
    <2>2. Balance = 0 * SizeMod
      BY <2>1, FS_EmptySet DEF Init, Balance
    <2> QED
      BY <2>1, <2>2, FS_EmptySet DEF SizeInv
  <1>2. TypeInv /\ SizeInv /\ [Next]_vars => SizeInv'
    <2>1. SizeInv /\ UNCHANGED vars => SizeInv'
      BY DEF SizeInv, Balance, Linked, Taken, vars, history
    <2> QED
      BY <2>1, SizeProducer, SizeConsumer, SizeSpurious DEF Next
  <1>3. TypeInv /\ SizeInv => SizeIsAccountedFor
    <2> SUFFICES ASSUME TypeInv, SizeInv PROVE SizeIsAccountedFor
      OBVIOUS
    <2> DEFINE A == m_size + Len(popped) + Cardinality(Linked)
               B == Len(pushed) + Cardinality(Taken)
    <2>1. A \in Nat /\ B \in Nat /\ Balance = A - B
      BY BalanceType DEF Balance
    <2>2. PICK z \in Int : Balance = z * SizeMod
      BY DEF SizeInv
    <2> HIDE DEF A, B
    <2>3. A = B + z * SizeMod
      BY <2>1, <2>2
    <2>4. A % SizeMod = B % SizeMod
      BY <2>1, <2>3, ModUnique
    <2> QED
      BY <2>4 DEF SizeIsAccountedFor, Linked, Taken, A, B
  <1> QED
    BY <1>1, <1>2, <1>3, TypeInvInit, TypeInvNext, PTL DEF Spec

-----------------------------------------------------------------------------
(* Order, tags and nodes, as long as no tag wraps around. *)

\* tag_t is a size_t: the tags of fewer than TagMod - 1 emplacements do not repeat.
NoWrap == IsFiniteSet(Items) /\ Cardinality(Items) + 1 < TagMod

-----------------------------------------------------------------------------
(* Lists in memory. *)

\* The function that Chain defines by recursion exists.
LEMMA ChainExists ==
  ASSUME NEW start
  PROVE  \E at : at = [k \in 0 .. MaxNodes |->
                         IF k = 0 THEN start
                         ELSE IF at[k - 1] = NULL THEN NULL ELSE mem[at[k - 1]].next.ptr]
  <1> DEFINE Is(at, n) == at = [k \in 0 .. n |->
                                  IF k = 0 THEN start
                                  ELSE IF at[k - 1] = NULL THEN NULL ELSE mem[at[k - 1]].next.ptr]
             Bad == {n \in Nat : ~ \E at : Is(at, n)}
  <1> SUFFICES ASSUME Bad # {} PROVE FALSE
    <2>1. MaxNodes \in Nat
      OBVIOUS
    <2> QED
      BY <2>1, Zenon
  <1>1. PICK n \in Bad : \A m \in Bad : n <= m
    BY LeastNatural
  <1>2. CASE n = 0
    <2>1. Is([k \in 0 .. 0 |-> start], 0)
      OBVIOUS
    <2> QED
      BY <1>1, <1>2, <2>1
  <1>3. CASE n > 0
    <2>1. n - 1 \in Nat /\ n - 1 \notin Bad
      <3>1. n \in Nat
        OBVIOUS
      <3> HIDE DEF Bad
      <3> QED
        BY <1>1, <1>3, <3>1
    <2>2. PICK at : Is(at, n - 1)
      BY <2>1
    <2> DEFINE longer == [k \in 0 .. n |->
                            IF k = n THEN IF at[n - 1] = NULL THEN NULL ELSE mem[at[n - 1]].next.ptr
                            ELSE at[k]]
    <2>3. \A k \in 0 .. n - 1 : longer[k] = at[k]
      OBVIOUS
    <2>4. \A k \in 0 .. n - 1 : at[k] = IF k = 0 THEN start
                                        ELSE IF at[k - 1] = NULL THEN NULL ELSE mem[at[k - 1]].next.ptr
      BY <2>1, <2>2
    <2>5. \A k \in 0 .. n : longer[k] = IF k = 0 THEN start
                                        ELSE IF longer[k - 1] = NULL THEN NULL
                                             ELSE mem[longer[k - 1]].next.ptr
      BY <1>3, <2>3, <2>4
    <2>6. Is(longer, n)
      BY <2>5
    <2> QED
      BY <1>1, <2>6
  <1> QED
    BY <1>1, <1>2, <1>3

\* One step along next.
LEMMA ChainStep ==
  ASSUME NEW start
  PROVE  \A k \in 0 .. MaxNodes :
           Chain(start)[k] = IF k = 0 THEN start
                             ELSE IF Chain(start)[k - 1] = NULL THEN NULL
                                  ELSE mem[Chain(start)[k - 1]].next.ptr
  <1> DEFINE F(at) == [k \in 0 .. MaxNodes |->
                         IF k = 0 THEN start
                         ELSE IF at[k - 1] = NULL THEN NULL ELSE mem[at[k - 1]].next.ptr]
  <1>1. \E at : at = F(at)
    BY ChainExists
  <1>2. Chain(start) = F(Chain(start))
    BY <1>1 DEF Chain
  <1> QED
    BY <1>2

\* A sequence of nodes, each the next of the one before, is what the list consists of.
LEMMA ChainOf ==
  ASSUME NEW n \in 0 .. MaxNodes, NEW s, s[n] = NULL,
         \A k \in 0 .. n - 1 : s[k] # NULL /\ mem[s[k]].next.ptr = s[k + 1]
  PROVE  \A k \in 0 .. MaxNodes : Chain(s[0])[k] = IF k <= n THEN s[k] ELSE NULL
  <1> DEFINE at == Chain(s[0])
             Bad == {k \in 0 .. MaxNodes : at[k] # IF k <= n THEN s[k] ELSE NULL}
  <1>1. \A k \in 0 .. MaxNodes :
          at[k] = IF k = 0 THEN s[0]
                  ELSE IF at[k - 1] = NULL THEN NULL ELSE mem[at[k - 1]].next.ptr
    BY ChainStep
  <1> HIDE DEF at
  <1> SUFFICES ASSUME Bad # {} PROVE FALSE
    BY DEF at
  <1>2. PICK k \in Bad : \A j \in Bad : k <= j
    <2>1. Bad \in SUBSET Nat
      OBVIOUS
    <2> HIDE DEF Bad
    <2> QED
      BY <2>1, LeastNatural
  <1>3. k \in 0 .. MaxNodes /\ k # 0
    BY <1>1, <1>2
  <1>4. at[k - 1] = IF k - 1 <= n THEN s[k - 1] ELSE NULL
    <2>1. k - 1 \notin Bad /\ k - 1 \in 0 .. MaxNodes
      <3> HIDE DEF Bad
      <3> QED
        BY <1>2, <1>3
    <2> QED
      BY <2>1
  <1>5. at[k] = IF k <= n THEN s[k] ELSE NULL
    BY <1>1, <1>3, <1>4
  <1> QED
    BY <1>2, <1>5

\* Different values: no more than there are.
LEMMA Pigeons ==
  ASSUME NEW a \in Nat, NEW b \in Nat, a <= b, NEW T, IsFiniteSet(T), NEW s,
         \A k \in a .. b : s[k] \in T,
         \A j, k \in a .. b : s[j] = s[k] => j = k
  PROVE  b - a + 1 <= Cardinality(T)
  <1> DEFINE g == [k \in a .. b |-> s[k]]
  <1>1. IsFiniteSet(a .. b) /\ Cardinality(a .. b) = b - a + 1
    BY FS_Interval
  <1>2. g \in [a .. b -> T] /\ \A j, k \in a .. b : g[j] = g[k] => j = k
    OBVIOUS
  <1>3. Cardinality(T) \in Nat
    BY FS_CardinalityType
  <1> HIDE DEF g
  <1>4. ~(Cardinality(T) < Cardinality(a .. b))
    BY <1>1, <1>2, FS_PigeonHole
  <1> QED
    BY <1>1, <1>3, <1>4

-----------------------------------------------------------------------------
(* Items are emplaced once, which bounds the tags. *)

\* Where a producer has a node of its own.
HasNode == Building \cup {"construct"}

\* Item i was linked; an item for which a node was allocated.
WasPushed(i) == \E k \in 1 .. Len(pushed) : pushed[k] = i
Allocated == {i \in Items : \/ WasPushed(i)
                            \/ \E p \in Producers : pc[p] \in HasNode /\ loc[p].item = i}

\* An item is linked once, and emplaced by one producer at a time.
ItemsOnce ==
  /\ \A j, k \in 1 .. Len(pushed) : pushed[j] = pushed[k] => j = k
  /\ \A p \in Producers : pc[p] \in Emplacing => ~WasPushed(loc[p].item)
  /\ \A p, r \in Producers : pc[p] \in Emplacing /\ loc[p].item = loc[r].item => p = r

\* The tag of m_pool counts allocations.
PoolTagOK == m_pool.tag <= 1 + Cardinality(Allocated)

ItemInv == ItemsOnce /\ PoolTagOK

\* What a step of producer p that moves it to l with locals r does to its item: the
\* call begins; the item is linked; a node is allocated for it; nothing.
EmplaceBegins(p, l, r) ==
  /\ pc[p] \notin Emplacing /\ l \in Emplacing \ HasNode
  /\ r.item \in Items /\ ~WasPushed(r.item) /\ \A q \in Producers : loc[q].item # r.item
  /\ pushed' = pushed /\ m_pool' = m_pool
ItemLinked(p, l, r) ==
  /\ pc[p] \in HasNode /\ l \notin Emplacing /\ r.item = NoItem
  /\ pushed' = Append(pushed, loc[p].item) /\ m_pool' = m_pool
NodeAllocated(p, l, r) ==
  /\ pc[p] \in Emplacing \ HasNode /\ l \in HasNode /\ r.item = loc[p].item
  /\ pushed' = pushed /\ (m_pool' = m_pool \/ m_pool'.tag = NextTag(m_pool))
ItemKept(p, l, r) ==
  /\ r.item = loc[p].item \/ r.item = NoItem
  /\ l \in HasNode <=> pc[p] \in HasNode
  /\ l \in Emplacing <=> pc[p] \in Emplacing
  /\ pushed' = pushed /\ m_pool' = m_pool

\* Every step of a producer is of one of these kinds.
LEMMA ProducerKinds ==
  ASSUME TypeInv, NEW p \in Producers, ProducerStep(p)
  PROVE  \E l, r : /\ Goto(p, l, r)
                   /\ \/ EmplaceBegins(p, l, r) \/ ItemLinked(p, l, r)
                      \/ NodeAllocated(p, l, r) \/ ItemKept(p, l, r)
  <1> USE DEF Emplacing, Building, HasNode
  <1>1. loc[p] \in Locals /\ NoLocals.item = NoItem
    BY DEF TypeInv, ThreadsOK, Threads, NoLocals
  <1>2. CASE \E i \in Items : Emplace(p, i)
    <2>1. PICK i \in Items : Emplace(p, i)
      BY <1>2
    <2> DEFINE r == [NoLocals EXCEPT !.item = i, !.old = m_pool]
    <2>2. r.item = i
      BY DEF NoLocals
    <2>3. Goto(p, "alloc", r) /\ pc[p] = "idle" /\ pushed' = pushed /\ m_pool' = m_pool
      BY <2>1 DEF Emplace, history
    <2>4. ~WasPushed(i) /\ \A q \in Producers : loc[q].item # i
      <3>1. DOMAIN pushed = 1 .. Len(pushed)
        BY DEF TypeInv, SharedOK
      <3> QED
        BY <2>1, <3>1 DEF Emplace, WasPushed
    <2> HIDE DEF r
    <2>5. EmplaceBegins(p, "alloc", r)
      BY <2>2, <2>3, <2>4 DEF EmplaceBegins
    <2> QED
      BY <2>3, <2>5
  <1>3. CASE AllocFresh(p)
    <2> DEFINE r == [loc[p] EXCEPT !.node = brk + 1, !.old = NullPtr]
    <2>1. Goto(p, "construct", r) /\ NodeAllocated(p, "construct", r)
      BY <1>1, <1>3 DEF AllocFresh, NodeAllocated, Locals, history
    <2> QED
      BY <2>1
  <1>4. CASE AllocRead(p)
    <2> DEFINE r == [loc[p] EXCEPT !.next = mem[loc[p].old.ptr].next]
    <2>1. Goto(p, "alloc_cas", r) /\ ItemKept(p, "alloc_cas", r)
      BY <1>1, <1>4 DEF AllocRead, ItemKept, Locals, history
    <2> QED
      BY <2>1
  <1>5. CASE AllocCas(p)
    <2> DEFINE r == [loc[p] EXCEPT !.node = loc[p].old.ptr, !.next = NullPtr, !.old = NullPtr]
               s == [loc[p] EXCEPT !.next = NullPtr, !.old = m_pool]
    <2>1. r.item = loc[p].item /\ s.item = loc[p].item /\ loc[p].next.ptr \in Nodes \cup {NULL}
      BY <1>1 DEF Locals, TaggedPtr
    <2>2. CASE m_pool = loc[p].old
      <3>1. m_pool' = Tagged(loc[p].next.ptr, NextTag(m_pool))
        BY <1>5, <2>2 DEF AllocCas
      <3>2. m_pool'.tag = NextTag(m_pool)
        BY <3>1 DEF Tagged
      <3>3. Goto(p, "construct", r) /\ NodeAllocated(p, "construct", r)
        BY <1>5, <2>1, <2>2, <3>2 DEF AllocCas, NodeAllocated, history
      <3> QED
        BY <3>3
    <2>3. CASE m_pool # loc[p].old
      <3>1. Goto(p, "alloc", s) /\ ItemKept(p, "alloc", s)
        BY <1>5, <2>1, <2>3 DEF AllocCas, ItemKept, history
      <3> QED
        BY <3>1
    <2> QED
      BY <2>2, <2>3
  <1>6. CASE Construct(p)
    <2>1. Goto(p, "push_tail", loc[p]) /\ ItemKept(p, "push_tail", loc[p])
      BY <1>1, <1>6 DEF Construct, ItemKept, history
    <2> QED
      BY <2>1
  <1>7. CASE PushLoadTail(p)
    <2> DEFINE r == [loc[p] EXCEPT !.tail = m_tail]
    <2>1. Goto(p, "push_next", r) /\ ItemKept(p, "push_next", r)
      BY <1>1, <1>7 DEF PushLoadTail, ItemKept, Locals, history
    <2> QED
      BY <2>1
  <1>8. CASE PushLoadNext(p)
    <2> DEFINE r == [loc[p] EXCEPT !.next = mem[loc[p].tail.ptr].next]
    <2>1. r.item = loc[p].item
      BY <1>1 DEF Locals
    <2> HIDE DEF r
    <2>2. Goto(p, "push_link", r) \/ Goto(p, "push_help", r)
      BY <1>8 DEF PushLoadNext, r
    <2>3. ItemKept(p, "push_link", r) /\ ItemKept(p, "push_help", r)
      BY <1>8, <2>1 DEF PushLoadNext, ItemKept, history
    <2> QED
      BY <2>2, <2>3
  <1>9. CASE PushLink(p)
    <2> DEFINE r == [loc[p] EXCEPT !.item = NoItem]
               s == [loc[p] EXCEPT !.tail = NullPtr, !.next = NullPtr]
    <2>1. r.item = NoItem /\ s.item = loc[p].item
      BY <1>1 DEF Locals
    <2>2. \/ /\ Goto(p, "push_swing", r) /\ pushed' = Append(pushed, loc[p].item)
          \/ Goto(p, "push_tail", s) /\ pushed' = pushed
      BY <1>9 DEF PushLink, RecordLink, PushRetry, history
    <2>3. pc[p] = "push_link" /\ m_pool' = m_pool
      BY <1>9 DEF PushLink
    <2> HIDE DEF r, s
    <2>4. pushed' = Append(pushed, loc[p].item) => ItemLinked(p, "push_swing", r)
      BY <2>1, <2>3 DEF ItemLinked
    <2>5. pushed' = pushed => ItemKept(p, "push_tail", s)
      BY <2>1, <2>3 DEF ItemKept
    <2> QED
      BY <2>2, <2>4, <2>5
  <1>10. CASE PushSwing(p) \/ PushSize(p)
    <2>1. Goto(p, "push_size", NoLocals) \/ Goto(p, "idle", NoLocals)
      BY <1>10 DEF PushSwing, PushSize, Return
    <2>2. ItemKept(p, "push_size", NoLocals) /\ ItemKept(p, "idle", NoLocals)
      BY <1>1, <1>10 DEF PushSwing, PushSize, ItemKept, history
    <2> QED
      BY <2>1, <2>2
  <1>11. CASE PushHelp(p)
    <2> DEFINE s == [loc[p] EXCEPT !.tail = NullPtr, !.next = NullPtr]
    <2>1. Goto(p, "push_tail", s) /\ ItemKept(p, "push_tail", s)
      BY <1>1, <1>11 DEF PushHelp, PushRetry, ItemKept, Locals, history
    <2> QED
      BY <2>1
  <1> QED
    BY <1>2, <1>3, <1>4, <1>5, <1>6, <1>7, <1>8, <1>9, <1>10, <1>11 DEF ProducerStep

\* Allocated items are among the finitely many that there are.
LEMMA AllocatedFinite ==
  ASSUME NoWrap
  PROVE  /\ IsFiniteSet(Allocated) /\ Cardinality(Allocated) \in Nat
         /\ IsFiniteSet(Allocated') /\ Cardinality(Allocated') \in Nat
  <1>1. Allocated \in SUBSET Items /\ Allocated' \in SUBSET Items
    BY DEF Allocated
  <1>2. IsFiniteSet(Allocated) /\ IsFiniteSet(Allocated')
    BY <1>1, FS_Subset DEF NoWrap
  <1> QED
    BY <1>2, FS_CardinalityType

\* m_pool keeps its tag and no item loses its node.
LEMMA PoolTagKept ==
  ASSUME NoWrap, TypeInv, PoolTagOK, TypeInv', m_pool'.tag = m_pool.tag,
         Allocated \subseteq Allocated'
  PROVE  PoolTagOK'
  <1>1. /\ IsFiniteSet(Allocated) /\ Cardinality(Allocated) \in Nat
        /\ IsFiniteSet(Allocated') /\ Cardinality(Allocated') \in Nat
    BY AllocatedFinite
  <1>2. Cardinality(Allocated) <= Cardinality(Allocated')
    BY <1>1, FS_Subset
  <1>3. m_pool.tag \in Nat
    BY DEF TypeInv, SharedOK, TaggedPtr
  <1> QED
    BY <1>1, <1>2, <1>3 DEF PoolTagOK

\* emplace: an item is linked at most once, and pays for one tag of m_pool
\* (lockfree_queue.h:98-128, freelist.h:51-67).
LEMMA ItemsProducer ==
  ASSUME NoWrap, TypeInv, TypeInv', ItemInv, NEW p \in Producers, ProducerStep(p)
  PROVE  ItemInv'
  <1>1. PICK l, r : /\ Goto(p, l, r)
                    /\ \/ EmplaceBegins(p, l, r) \/ ItemLinked(p, l, r)
                       \/ NodeAllocated(p, l, r) \/ ItemKept(p, l, r)
    BY ProducerKinds
  <1>2. /\ pc'[p] = l /\ loc'[p] = r
        /\ \A q \in Producers \ {p} : pc'[q] = pc[q] /\ loc'[q] = loc[q]
    BY <1>1, GotoOthers DEF TypeInv, Threads
  <1>3. /\ \A q \in Producers : loc[q].item \in Items <=> pc[q] \in Emplacing
        /\ r.item \in Items <=> l \in Emplacing
    BY <1>2 DEF TypeInv, ThreadsOK, ProducerOK
  <1>4. pushed \in Seq(Items) /\ HasNode \subseteq Emplacing /\ NoItem \notin Items
    BY DEF TypeInv, SharedOK, HasNode, Building, Emplacing
  <1>5. /\ \A j, k \in 1 .. Len(pushed) : pushed[j] = pushed[k] => j = k
        /\ \A q \in Producers : pc[q] \in Emplacing => ~WasPushed(loc[q].item)
        /\ \A q, s \in Producers : pc[q] \in Emplacing /\ loc[q].item = loc[s].item => q = s
        /\ PoolTagOK
    BY DEF ItemInv, ItemsOnce
  <1>6. CASE EmplaceBegins(p, l, r)
    <2>1. pushed' = pushed /\ m_pool' = m_pool
      BY <1>6 DEF EmplaceBegins
    <2>2. \A i : WasPushed(i)' <=> WasPushed(i)
      BY <2>1 DEF WasPushed
    <2>3. \A q \in Producers : pc'[q] \in Emplacing => ~WasPushed(loc[q].item)'
      BY <1>2, <1>5, <1>6, <2>2 DEF EmplaceBegins
    <2>4. ASSUME NEW q \in Producers, NEW s \in Producers,
                 pc'[q] \in Emplacing, loc'[q].item = loc'[s].item
          PROVE  q = s
      BY <1>2, <1>5, <1>6, <2>4 DEF EmplaceBegins
    <2>5. Allocated \subseteq Allocated'
      BY <1>2, <1>4, <1>6, <2>2 DEF EmplaceBegins, Allocated
    <2>6. ItemsOnce'
      BY <1>5, <2>1, <2>2, <2>3, <2>4 DEF ItemsOnce
    <2> QED
      BY <1>5, <2>1, <2>5, <2>6, PoolTagKept DEF ItemInv
  <1>7. CASE ItemLinked(p, l, r)
    <2>1. pushed' = Append(pushed, loc[p].item) /\ m_pool' = m_pool /\ pc[p] \in Emplacing
      BY <1>4, <1>7 DEF ItemLinked
    <2>2. /\ Len(pushed') = Len(pushed) + 1 /\ pushed'[Len(pushed) + 1] = loc[p].item
          /\ \A k \in 1 .. Len(pushed) : pushed'[k] = pushed[k]
          /\ Len(pushed) \in Nat
      BY <1>3, <1>4, <2>1
    <2>3. \A i : WasPushed(i)' <=> WasPushed(i) \/ i = loc[p].item
      <3>1. \A k \in 1 .. Len(pushed') : k \in 1 .. Len(pushed) \/ k = Len(pushed) + 1
        BY <2>2
      <3>2. /\ Len(pushed) + 1 \in 1 .. Len(pushed')
            /\ \A k \in 1 .. Len(pushed) : k \in 1 .. Len(pushed')
        BY <2>2
      <3> HIDE <1>4
      <3> QED
        BY <2>2, <3>1, <3>2 DEF WasPushed
    <2>4. \A j, k \in 1 .. Len(pushed') : pushed'[j] = pushed'[k] => j = k
      <3>1. \A k \in 1 .. Len(pushed) : pushed[k] # loc[p].item
        BY <1>5, <2>1 DEF WasPushed
      <3>2. \A k \in 1 .. Len(pushed') : k \in 1 .. Len(pushed) \/ k = Len(pushed) + 1
        BY <2>2
      <3> QED
        BY <1>5, <2>2, <3>1, <3>2
    <2>5. l \notin Emplacing /\ r.item = NoItem
      BY <1>7 DEF ItemLinked
    <2>6. ASSUME NEW q \in Producers, pc'[q] \in Emplacing
          PROVE  ~WasPushed(loc[q].item)' /\ q # p
      BY <1>2, <1>5, <2>1, <2>3, <2>5, <2>6
    <2>7. ASSUME NEW q \in Producers, NEW s \in Producers,
                 pc'[q] \in Emplacing, loc'[q].item = loc'[s].item
          PROVE  q = s
      BY <1>2, <1>3, <1>4, <1>5, <2>5, <2>7
    <2>8. Allocated \subseteq Allocated'
      BY <1>2, <2>3 DEF Allocated
    <2>9. ItemsOnce'
      BY <2>4, <2>6, <2>7 DEF ItemsOnce
    <2> QED
      BY <1>5, <2>1, <2>8, <2>9, PoolTagKept DEF ItemInv
  <1>8. CASE NodeAllocated(p, l, r) \/ ItemKept(p, l, r)
    <2>1. /\ pushed' = pushed
          /\ l \in Emplacing <=> pc[p] \in Emplacing
          /\ pc[p] \in HasNode => l \in HasNode
          /\ r.item = loc[p].item \/ r.item = NoItem
      BY <1>4, <1>8 DEF NodeAllocated, ItemKept
    <2>2. \A i : WasPushed(i)' <=> WasPushed(i)
      BY <2>1 DEF WasPushed
    <2>3. l \in Emplacing => r.item = loc[p].item
      BY <1>3, <1>4, <2>1
    <2>4. \A q \in Producers : pc'[q] \in Emplacing => pc[q] \in Emplacing /\ loc'[q].item = loc[q].item
      BY <1>2, <2>1, <2>3
    <2>5. \A q \in Producers : loc'[q].item = loc[q].item \/ loc'[q].item = NoItem
      BY <1>2, <2>1
    <2>6. ASSUME NEW q \in Producers, NEW s \in Producers,
                 pc'[q] \in Emplacing, loc'[q].item = loc'[s].item
          PROVE  q = s
      BY <1>3, <1>4, <1>5, <2>4, <2>5, <2>6
    <2>7. ItemsOnce'
      BY <1>5, <2>1, <2>2, <2>4, <2>6 DEF ItemsOnce
    <2>8. Allocated \subseteq Allocated'
      BY <1>2, <1>4, <2>1, <2>2, <2>3 DEF Allocated
    <2>9. CASE m_pool'.tag = m_pool.tag
      BY <1>5, <2>7, <2>8, <2>9, PoolTagKept DEF ItemInv
    <2>10. CASE NodeAllocated(p, l, r) /\ m_pool'.tag = NextTag(m_pool)
      <3> DEFINE i == loc[p].item
      <3>1. /\ pc[p] \in Emplacing \ HasNode /\ l \in HasNode /\ r.item = i /\ i \in Items
        BY <1>3, <2>10 DEF NodeAllocated
      <3>2. i \notin Allocated /\ i \in Allocated'
        BY <1>2, <1>5, <3>1 DEF Allocated
      <3>3. /\ IsFiniteSet(Allocated) /\ Cardinality(Allocated) \in Nat
            /\ IsFiniteSet(Allocated') /\ Cardinality(Allocated') \in Nat
        BY AllocatedFinite
      <3>4. /\ IsFiniteSet(Allocated \cup {i})
            /\ Cardinality(Allocated \cup {i}) = Cardinality(Allocated) + 1
        BY <3>2, <3>3, FS_AddElement
      <3>5. Cardinality(Allocated \cup {i}) <= Cardinality(Allocated')
        BY <2>8, <3>2, <3>3, FS_Subset
      <3>6. m_pool.tag \in Nat /\ NextTag(m_pool) \in Nat /\ NextTag(m_pool) <= m_pool.tag + 1
        <4>1. m_pool.tag \in Nat
          BY DEF TypeInv, SharedOK, TaggedPtr
        <4> QED
          BY <4>1 DEF NextTag
      <3>7. PoolTagOK'
        BY <1>5, <2>10, <3>3, <3>4, <3>5, <3>6 DEF PoolTagOK
      <3> QED
        BY <2>7, <3>7 DEF ItemInv
    <2> QED
      BY <1>8, <2>9, <2>10 DEF NodeAllocated, ItemKept
  <1> QED
    BY <1>1, <1>6, <1>7, <1>8

\* Steps that leave the producers' items alone keep the bound.
LEMMA ItemsOther ==
  ASSUME NoWrap, TypeInv, TypeInv', ItemInv, pushed' = pushed, m_pool'.tag = m_pool.tag,
         \A q \in Producers : /\ loc'[q].item = loc[q].item
                              /\ pc'[q] \in HasNode <=> pc[q] \in HasNode
  PROVE  ItemInv'
  <1>1. \A i : WasPushed(i)' <=> WasPushed(i)
    BY DEF WasPushed
  <1>2. \A q \in Producers : pc'[q] \in Emplacing <=> pc[q] \in Emplacing
    BY DEF TypeInv, ThreadsOK, ProducerOK
  <1>3. Allocated' = Allocated
    BY <1>1 DEF Allocated
  <1> QED
    BY <1>1, <1>2, <1>3, PoolTagKept DEF ItemInv, ItemsOnce

\* pop_front, and compare_exchange that fails without a cause.
LEMMA ItemsNext ==
  ASSUME NoWrap, TypeInv, TypeInv', ItemInv, [Next]_vars
  PROVE  ItemInv'
  <1>1. CASE UNCHANGED vars
    BY <1>1, ItemsOther DEF vars, history
  <1>2. ASSUME NEW c \in Consumers, ConsumerStep(c) PROVE ItemInv'
    <2>1. \A q \in Producers : loc'[q] = loc[q] /\ pc'[q] = pc[q]
      <3>1. \E l, r : Goto(c, l, r)
        <4>1. CASE PopLoadHead(c) \/ PopLoadTail(c) \/ PopHelp(c) \/ PopRead(c) \/ PopCas(c)
          BY <4>1 DEF PopLoadHead, PopLoadTail, PopHelp, PopRead, PopCas
        <4>2. CASE PopLoadNext(c)
          BY <4>2 DEF PopLoadNext, Return
        <4>3. CASE FreeLoad(c) \/ FreeLink(c) \/ FreeCas(c) \/ PopSize(c)
          BY <4>3 DEF FreeLoad, FreeLink, FreeCas, PopSize, Return
        <4> QED
          BY <1>2, <4>1, <4>2, <4>3 DEF ConsumerStep
      <3> QED
        BY <3>1, GotoOthers DEF TypeInv, Threads
    <2>2. pushed' = pushed
      BY <1>2 DEF ConsumerStep, PopLoadHead, PopLoadTail, PopLoadNext, PopHelp, PopRead,
           PopCas, FreeLoad, FreeLink, FreeCas, PopSize, history
    <2>3. m_pool' = m_pool \/ (m_pool = loc[c].old /\ m_pool' = Tagged(loc[c].node, loc[c].old.tag))
      BY <1>2 DEF ConsumerStep, PopLoadHead, PopLoadTail, PopLoadNext, PopHelp, PopRead,
           PopCas, FreeLoad, FreeLink, FreeCas, PopSize, history
    <2>4. m_pool'.tag = m_pool.tag
      BY <2>3 DEF Tagged
    <2> QED
      BY <2>1, <2>2, <2>4, ItemsOther
  <1>3. ASSUME NEW t \in Threads, SpuriousFail(t) PROVE ItemInv'
    <2>1. pushed' = pushed /\ m_pool' = m_pool
      BY <1>3 DEF SpuriousFail, history
    <2>2. loc[t] \in Locals
      BY DEF TypeInv, ThreadsOK
    <2>3. CASE t \in Producers
      <3>1. pc[t] \in {"push_link", "alloc_cas"}
        BY <1>3, <2>3 DEF TypeInv, ThreadsOK, ProducerOK, SpuriousFail, Emplacing
      <3>2. \E l, r : /\ Goto(t, l, r) /\ r.item = loc[t].item
                      /\ l \in HasNode <=> pc[t] \in HasNode
        <4> DEFINE r == [loc[t] EXCEPT !.tail = NullPtr, !.next = NullPtr]
                   s == [loc[t] EXCEPT !.next = NullPtr, !.old = m_pool]
        <4>1. r.item = loc[t].item /\ s.item = loc[t].item
          BY <2>2 DEF Locals
        <4>2. \/ pc[t] = "push_link" /\ Goto(t, "push_tail", r)
              \/ pc[t] = "alloc_cas" /\ Goto(t, "alloc", s)
          BY <1>3, <3>1 DEF SpuriousFail, PushRetry
        <4> HIDE DEF r, s
        <4> QED
          BY <4>1, <4>2 DEF HasNode, Building
      <3>3. \A q \in Producers : /\ loc'[q].item = loc[q].item
                                 /\ pc'[q] \in HasNode <=> pc[q] \in HasNode
        BY <3>2, GotoOthers DEF TypeInv, Threads
      <3> QED
        BY <2>1, <3>3, ItemsOther
    <2>4. CASE t \in Consumers
      <3>1. \E l, r : Goto(t, l, r)
        BY <1>3 DEF SpuriousFail, PushRetry
      <3>2. \A q \in Producers : loc'[q] = loc[q] /\ pc'[q] = pc[q]
        BY <2>4, <3>1, GotoOthers DEF TypeInv, Threads
      <3> QED
        BY <2>1, <3>2, ItemsOther
    <2> QED
      BY <2>3, <2>4 DEF Threads
  <1> QED
    BY <1>1, <1>2, <1>3, ItemsProducer DEF Next

\* Initially no item has a node, and m_pool may have given out one.
LEMMA ItemsInit ==
  ASSUME NoWrap, Init
  PROVE  ItemInv
  <1>1. pushed = << >> /\ \A p \in Producers : pc[p] = "idle"
    BY DEF Init, Threads
  <1>2. ItemsOnce
    BY <1>1 DEF ItemsOnce, WasPushed, Emplacing
  <1>3. m_pool.tag \in 0 .. 1
    <2>1. 1 % TagMod \in 0 .. 1
      OBVIOUS
    <2> QED
      BY <2>1 DEF Init, Tagged
  <1> QED
    BY <1>2, <1>3, AllocatedFinite DEF ItemInv, PoolTagOK

\* No tag in use is about to wrap around.
LEMMA TagBounds ==
  ASSUME NoWrap, TypeInv, ItemInv
  PROVE  /\ Len(pushed) + 1 < TagMod
         /\ \A p \in Producers : pc[p] \in {"alloc", "alloc_cas"} => m_pool.tag + 1 < TagMod
  <1>1. pushed \in Seq(Items) /\ Len(pushed) \in Nat /\ Cardinality(Items) \in Nat
    BY FS_CardinalityType DEF TypeInv, SharedOK, NoWrap
  <1>2. Len(pushed) <= Cardinality(Items)
    <2>1. CASE Len(pushed) = 0
      BY <1>1, <2>1
    <2>2. CASE Len(pushed) # 0
      <3>1. \A k \in 1 .. Len(pushed) : pushed[k] \in Items
        BY <1>1
      <3>2. \A j, k \in 1 .. Len(pushed) : pushed[j] = pushed[k] => j = k
        BY DEF ItemInv, ItemsOnce
      <3>3. 1 \in Nat /\ 1 <= Len(pushed) /\ IsFiniteSet(Items)
        BY <1>1, <2>2 DEF NoWrap
      <3>4. Len(pushed) - 1 + 1 <= Cardinality(Items)
        BY <1>1, <3>1, <3>2, <3>3, Pigeons
      <3> QED
        BY <1>1, <3>4
    <2> QED
      BY <2>1, <2>2
  <1>3. ASSUME NEW p \in Producers, pc[p] \in {"alloc", "alloc_cas"}
        PROVE  m_pool.tag + 1 < TagMod
    <2> DEFINE i == loc[p].item
    <2>1. i \in Items /\ i \notin Allocated
      <3>1. pc[p] \in Emplacing \ HasNode
        BY <1>3 DEF Emplacing, HasNode, Building
      <3>2. i \in Items /\ ~WasPushed(i) /\ \A r \in Producers : loc[r].item = i => r = p
        BY <3>1 DEF TypeInv, ThreadsOK, ProducerOK, ItemInv, ItemsOnce
      <3> QED
        BY <3>1, <3>2 DEF Allocated
    <2>2. IsFiniteSet(Allocated) /\ Cardinality(Allocated) \in Nat
      BY AllocatedFinite
    <2>3. Cardinality(Allocated \cup {i}) = Cardinality(Allocated) + 1
      BY <2>1, <2>2, FS_AddElement
    <2>4. Cardinality(Allocated \cup {i}) <= Cardinality(Items)
      <3>1. Allocated \cup {i} \in SUBSET Items
        BY <2>1 DEF Allocated
      <3> QED
        BY <3>1, FS_Subset DEF NoWrap
    <2>5. m_pool.tag \in Nat /\ m_pool.tag <= 1 + Cardinality(Allocated)
      BY DEF TypeInv, SharedOK, TaggedPtr, ItemInv, PoolTagOK
    <2> QED
      BY <1>1, <2>2, <2>3, <2>4, <2>5 DEF NoWrap
  <1> QED
    BY <1>1, <1>2, <1>3 DEF NoWrap

-----------------------------------------------------------------------------
(* The shape of the two lists. *)

\* Positions of the dummy node and of the elements: the k-th node ever linked is at
\* position k.
Live == Len(popped) .. Len(pushed)

\* q[k] is the node at position k: the elements are linked in order, a tag is the
\* position of its node, and what was returned is what was linked.
QueueShape(q) ==
  /\ q \in [Nat -> Nodes]
  /\ Len(popped) <= Len(pushed)
  /\ \A k \in 1 .. Len(popped) : popped[k] = pushed[k]
  /\ m_head.ptr = q[Len(popped)] /\ m_head.tag = Len(popped)
  /\ m_tail.tag \in Live /\ m_tail.ptr = q[m_tail.tag]
  /\ \A k \in Live : mem[q[k]].next.ptr = IF k = Len(pushed) THEN NULL ELSE q[k + 1]
  /\ \A k \in Live \ {Len(popped)} : mem[q[k]].data = pushed[k]
  /\ \A j, k \in Live : q[j] = q[k] => j = k

\* f[m], f[m - 1], ..., f[1] is the free list.
FreeShape(f, m) ==
  /\ m \in Nat /\ f \in [Nat -> Nodes \cup {NULL}]
  /\ f[0] = NULL /\ m_pool.ptr = f[m]
  /\ \A k \in 1 .. m : f[k] # NULL /\ mem[f[k]].next.ptr = f[k - 1]
  /\ \A j, k \in 1 .. m : f[j] = f[k] => j = k

InQueue(q, n) == \E k \in Live : n = q[k]
InFree(f, m, n) == \E k \in 1 .. m : n = f[k]
Held(n) == \E t \in Private : n = loc[t].node

\* No two threads hold the same node.
Unique == \A s, t \in Private : loc[s].node = loc[t].node => s = t

\* A node that has been allocated is in one place.
Partition(q, f, m) ==
  /\ \A n \in Nodes : n <= brk <=> InQueue(q, n) \/ InFree(f, m, n) \/ Held(n)
  /\ \A n \in Nodes : /\ ~(InQueue(q, n) /\ InFree(f, m, n))
                      /\ ~(InQueue(q, n) /\ Held(n)) /\ ~(InFree(f, m, n) /\ Held(n))
  /\ Unique

\* A value of m_tail or m_head that was read is an old one unless it is the current one.
TailSeen(tp) == tp.tag <= m_tail.tag /\ (tp.tag = m_tail.tag => tp = m_tail)
HeadSeen(tp) == tp.tag <= m_head.tag /\ (tp.tag = m_head.tag => tp = m_head)

\* A top of the free list that was read and has the current tag is in the list still.
PoolSeen(tp, f, m) == /\ tp.tag <= m_pool.tag
                      /\ tp.tag = m_pool.tag => \E k \in 0 .. m : tp.ptr = f[k]

\* What a producer at l with locals r knows: its node is ready to be linked, and what
\* it read is right as long as the compare_exchange it is going to do can succeed.
ProducerFits(l, r, f, m) ==
  /\ l \in Building => mem[r.node].next.ptr = NULL /\ mem[r.node].data = r.item
  /\ l \in Linking => TailSeen(r.tail)
  /\ l = "push_help" /\ r.tail = m_tail => mem[m_tail.ptr].next.ptr = r.next.ptr
  /\ l = "push_swing" /\ r.tail = m_tail => mem[m_tail.ptr].next.ptr = r.node
  /\ l \in {"alloc", "alloc_cas"} => PoolSeen(r.old, f, m)
  /\ l = "alloc_cas" /\ r.old.tag = m_pool.tag => mem[r.old.ptr].next.ptr = r.next.ptr

\* What a consumer knows: likewise, and m_tail is past a head that differed from it.
ConsumerFits(l, r) ==
  /\ l \in Popping => HeadSeen(r.head)
  /\ l \in {"pop_next", "pop_help"} => TailSeen(r.tail)
  /\ l = "pop_next" => r.head = r.tail \/ r.head.tag < r.tail.tag
  /\ l = "pop_help" /\ r.tail = m_tail => mem[m_tail.ptr].next.ptr = r.next.ptr
  /\ l \in {"pop_read", "pop_cas"} => r.head.tag < m_tail.tag
  /\ l \in {"pop_read", "pop_cas"} /\ r.head = m_head => mem[m_head.ptr].next.ptr = r.next.ptr
  /\ l = "pop_cas" /\ r.head = m_head => mem[r.next.ptr].data = r.item
  /\ l = "free_cas" => mem[r.node].next.ptr = r.old.ptr

ThreadsFit(f, m) == /\ \A p \in Producers : ProducerFits(pc[p], loc[p], f, m)
                    /\ \A c \in Consumers : ConsumerFits(pc[c], loc[c])

Shape(q, f, m) == /\ QueueShape(q) /\ FreeShape(f, m)
                  /\ Partition(q, f, m) /\ ThreadsFit(f, m)

\* As long as no push has gone astray.
ShapeInv == ~astray => \E q, f, m : Shape(q, f, m)

\* A step of thread t: the others stay where they are.
StepOf(t) == \A u \in Threads \ {t} : pc'[u] = pc[u] /\ loc'[u] = loc[u]

\* What a step of thread t leaves alone of what the other threads know.
Undisturbed(t, f, m, g, n) ==
  /\ m_tail' = m_tail \/ m_tail'.tag > m_tail.tag
  /\ m_head' = m_head \/ m_head'.tag > m_head.tag
  /\ \/ m_pool'.tag > m_pool.tag
     \/ /\ m_pool'.tag = m_pool.tag /\ m <= n
        /\ \A k \in 0 .. m : g[k] = f[k]
        /\ \A k \in 1 .. m : mem'[f[k]].next.ptr = mem[f[k]].next.ptr
  /\ LET next == mem[m_tail.ptr].next.ptr
     IN  next # NULL => mem'[m_tail.ptr].next.ptr = next
  /\ LET next == mem[m_head.ptr].next.ptr
     IN  next # NULL => /\ mem'[m_head.ptr].next.ptr = next
                        /\ mem'[next].data = mem[next].data
  /\ \A u \in Private \ {t} : mem'[loc[u].node] = mem[loc[u].node]

\* Facts about types in the form in which they are used.
LEMMA ShapeTypes ==
  ASSUME TypeInv
  PROVE  /\ m_head.tag \in Nat /\ m_tail.tag \in Nat /\ m_pool.tag \in Nat
         /\ m_head.ptr \in Nodes /\ m_tail.ptr \in Nodes /\ m_pool.ptr \in Nodes \cup {NULL}
         /\ Len(pushed) \in Nat /\ Len(popped) \in Nat
         /\ \A t \in Threads : /\ loc[t].head.tag \in Nat /\ loc[t].tail.tag \in Nat
                               /\ loc[t].old.tag \in Nat
                               /\ loc[t].node \in Nodes \cup {NULL}
                               /\ loc[t].old.ptr \in Nodes \cup {NULL}
                               /\ loc[t].next.ptr \in Nodes \cup {NULL}
  <1>1. \A tp \in TaggedPtr : tp.tag \in Nat /\ tp.ptr \in Nodes \cup {NULL}
    BY DEF TaggedPtr
  <1>2. \A t \in Threads : loc[t] \in Locals
    BY DEF TypeInv, ThreadsOK
  <1>3. \A r \in Locals : /\ r.head \in TaggedPtr /\ r.tail \in TaggedPtr /\ r.old \in TaggedPtr
                          /\ r.next \in TaggedPtr /\ r.node \in Nodes \cup {NULL}
    BY DEF Locals
  <1>4. /\ m_head \in TaggedPtr /\ m_tail \in TaggedPtr /\ m_pool \in TaggedPtr
        /\ m_head.ptr # NULL /\ m_tail.ptr # NULL
        /\ Len(pushed) \in Nat /\ Len(popped) \in Nat
    BY DEF TypeInv, SharedOK
  <1> QED
    BY <1>1, <1>2, <1>3, <1>4

\* The same after a step.
LEMMA NextTypes ==
  ASSUME TypeInv'
  PROVE  /\ m_head'.tag \in Nat /\ m_tail'.tag \in Nat /\ m_pool'.tag \in Nat
         /\ Len(pushed') \in Nat /\ Len(popped') \in Nat
  <1>1. \A tp \in TaggedPtr : tp.tag \in Nat
    BY DEF TaggedPtr
  <1>2. m_head' \in TaggedPtr /\ m_tail' \in TaggedPtr /\ m_pool' \in TaggedPtr
    BY DEF TypeInv, SharedOK
  <1>3. Len(pushed') \in Nat /\ Len(popped') \in Nat
    BY DEF TypeInv, SharedOK
  <1> QED
    BY <1>1, <1>2, <1>3

\* What the other threads know stays true.
LEMMA OthersFit ==
  ASSUME TypeInv, TypeInv', NEW q, NEW f, NEW m, Shape(q, f, m), NEW g, NEW n \in Nat,
         NEW t \in Threads, StepOf(t), Undisturbed(t, f, m, g, n)
  PROVE  /\ \A p \in Producers \ {t} : ProducerFits(pc[p], loc[p], g, n)'
         /\ \A c \in Consumers \ {t} : ConsumerFits(pc[c], loc[c])'
  <1>1. m \in Nat
    BY DEF Shape, FreeShape
  <1>2. ASSUME NEW p \in Producers \ {t} PROVE ProducerFits(pc[p], loc[p], g, n)'
    <2>0. PICK l, r : l = pc[p] /\ r = loc[p]
      OBVIOUS
    <2>1. p \in Threads /\ pc'[p] = l /\ loc'[p] = r
      BY <1>2, <2>0 DEF StepOf, Threads
    <2>2. ProducerFits(l, r, f, m) /\ ProducerOK(l, r)
      BY <2>0 DEF Shape, ThreadsFit, TypeInv, ThreadsOK
    <2>3. /\ r.tail.tag \in Nat /\ r.old.tag \in Nat
          /\ m_tail.tag \in Nat /\ m_tail'.tag \in Nat
          /\ m_pool.tag \in Nat /\ m_pool'.tag \in Nat
      BY <2>0, <2>1, ShapeTypes, NextTypes
    <2>4. l \in Building => mem'[r.node] = mem[r.node]
      <3>1. l \in Building => p \in Private
        BY <2>0 DEF Private, Building
      <3> QED
        BY <1>2, <2>0, <3>1 DEF Undisturbed
    <2>5. l \in Linking => TailSeen(r.tail)'
      BY <2>2, <2>3 DEF ProducerFits, TailSeen, Undisturbed
    <2>6. l \in Linking /\ r.tail = m_tail' => m_tail' = m_tail
      BY <2>2, <2>3 DEF ProducerFits, TailSeen, Undisturbed
    <2>7. /\ l = "push_help" /\ r.tail = m_tail' => mem'[m_tail'.ptr].next.ptr = r.next.ptr
          /\ l = "push_swing" /\ r.tail = m_tail' => mem'[m_tail'.ptr].next.ptr = r.node
      BY <2>2, <2>6 DEF ProducerFits, ProducerOK, Undisturbed, Linking, Building
    <2>8. l \in {"alloc", "alloc_cas"} =>
            /\ r.old.tag <= m_pool'.tag
            /\ r.old.tag = m_pool'.tag =>
                 /\ m_pool.tag = m_pool'.tag /\ m <= n
                 /\ \A k \in 0 .. m : g[k] = f[k]
                 /\ \A k \in 1 .. m : mem'[f[k]].next.ptr = mem[f[k]].next.ptr
                 /\ \E k \in 0 .. m : r.old.ptr = f[k]
      BY <2>2, <2>3 DEF ProducerFits, PoolSeen, Undisturbed
    <2>9. l \in {"alloc", "alloc_cas"} => PoolSeen(r.old, g, n)'
      <3>1. m <= n => \A k \in 0 .. m : k \in 0 .. n
        BY <1>1
      <3> QED
        BY <2>8, <3>1 DEF PoolSeen
    <2>10. l = "alloc_cas" /\ r.old.tag = m_pool'.tag => mem'[r.old.ptr].next.ptr = r.next.ptr
      <3>1. f[0] = NULL /\ \A k \in 0 .. m : k = 0 \/ k \in 1 .. m
        BY <1>1 DEF Shape, FreeShape
      <3>2. l = "alloc_cas" => r.old.ptr # NULL
        BY <2>2 DEF ProducerOK
      <3> QED
        BY <2>2, <2>8, <3>1, <3>2 DEF ProducerFits
    <2> QED
      BY <2>1, <2>2, <2>4, <2>5, <2>7, <2>9, <2>10 DEF ProducerFits
  <1>3. ASSUME NEW c \in Consumers \ {t} PROVE ConsumerFits(pc[c], loc[c])'
    <2>0. PICK l, r : l = pc[c] /\ r = loc[c]
      OBVIOUS
    <2>1. c \in Threads /\ pc'[c] = l /\ loc'[c] = r
      BY <1>3, <2>0 DEF StepOf, Threads
    <2>2. ConsumerFits(l, r) /\ ConsumerOK(l, r)
      BY <2>0 DEF Shape, ThreadsFit, TypeInv, ThreadsOK
    <2>3. /\ r.head.tag \in Nat /\ r.tail.tag \in Nat
          /\ m_tail.tag \in Nat /\ m_tail'.tag \in Nat
          /\ m_head.tag \in Nat /\ m_head'.tag \in Nat
      BY <2>0, <2>1, ShapeTypes, NextTypes
    <2>4. l = "free_cas" => mem'[r.node] = mem[r.node]
      <3>1. l = "free_cas" => c \in Private
        BY <2>0 DEF Private
      <3> QED
        BY <1>3, <2>0, <3>1 DEF Undisturbed
    <2>5. /\ l \in Popping => HeadSeen(r.head)'
          /\ l \in {"pop_next", "pop_help"} => TailSeen(r.tail)'
          /\ l \in {"pop_read", "pop_cas"} => r.head.tag < m_tail'.tag
      BY <2>2, <2>3 DEF ConsumerFits, TailSeen, HeadSeen, Undisturbed
    <2>6. /\ l = "pop_help" /\ r.tail = m_tail' => m_tail' = m_tail
          /\ l \in Popping /\ r.head = m_head' => m_head' = m_head
      BY <2>2, <2>3 DEF ConsumerFits, TailSeen, HeadSeen, Undisturbed
    <2>7. l = "pop_help" /\ r.tail = m_tail' => mem'[m_tail'.ptr].next.ptr = r.next.ptr
      BY <2>2, <2>6 DEF ConsumerFits, ConsumerOK, Undisturbed, Taking
    <2>8. l \in {"pop_read", "pop_cas"} /\ r.head = m_head' =>
            /\ mem'[m_head'.ptr].next.ptr = r.next.ptr
            /\ mem'[r.next.ptr].data = mem[r.next.ptr].data
      BY <2>2, <2>6 DEF ConsumerFits, ConsumerOK, Undisturbed, Taking, Popping
    <2>9. l = "pop_cas" /\ r.head = m_head' => mem'[r.next.ptr].data = r.item
      BY <2>2, <2>6, <2>8 DEF ConsumerFits, Popping
    <2> QED
      BY <2>1, <2>2, <2>4, <2>5, <2>7, <2>8, <2>9 DEF ConsumerFits
  <1> QED
    BY <1>2, <1>3

\* What a step of thread t does to the nodes that are held.
LEMMA HeldStep ==
  ASSUME Unique, NEW t \in Threads, StepOf(t)
  PROVE  /\ /\ t \in Private' <=> t \in Private
            /\ t \in Private => loc'[t].node = loc[t].node
            => Unique' /\ \A n : Held(n)' <=> Held(n)
         /\ t \notin Private /\ t \in Private' /\ ~Held(loc'[t].node)
            => Unique' /\ \A n : Held(n)' <=> Held(n) \/ n = loc'[t].node
         /\ t \in Private /\ t \notin Private'
            => Unique' /\ \A n : Held(n)' <=> Held(n) /\ n # loc[t].node
  <1>1. \A u \in Threads \ {t} : /\ u \in Private' <=> u \in Private
                                 /\ loc'[u] = loc[u]
    BY DEF StepOf, Private, Threads
  <1>2. Private \subseteq Threads /\ Private' \subseteq Threads
    BY DEF Private, Threads
  <1>3. ASSUME t \in Private' <=> t \in Private, t \in Private => loc'[t].node = loc[t].node
        PROVE  Unique' /\ \A n : Held(n)' <=> Held(n)
    <2>1. Private' = Private /\ \A u \in Private : loc'[u].node = loc[u].node
      BY <1>1, <1>2, <1>3
    <2> QED
      BY <2>1 DEF Unique, Held
  <1>4. ASSUME t \notin Private, t \in Private', ~Held(loc'[t].node)
        PROVE  Unique' /\ \A n : Held(n)' <=> Held(n) \/ n = loc'[t].node
    <2>1. Private' = Private \cup {t} /\ \A u \in Private : loc'[u] = loc[u]
      BY <1>1, <1>2, <1>4
    <2>2. \A u \in Private : loc[u].node # loc'[t].node
      BY <1>4 DEF Held
    <2>3. Unique'
      BY <2>1, <2>2 DEF Unique
    <2> QED
      BY <2>1, <2>3 DEF Held
  <1>5. ASSUME t \in Private, t \notin Private'
        PROVE  Unique' /\ \A n : Held(n)' <=> Held(n) /\ n # loc[t].node
    <2>1. Private' = Private \ {t} /\ \A u \in Private \ {t} : loc'[u] = loc[u]
      BY <1>1, <1>2, <1>5
    <2>2. \A u \in Private \ {t} : loc[u].node # loc[t].node
      BY <1>5 DEF Unique
    <2> QED
      BY <1>5, <2>1, <2>2 DEF Unique, Held
  <1> QED
    BY <1>3, <1>4, <1>5

\* The shape after a step: the lists, where the nodes are, and what t knows.
LEMMA ShapeStep ==
  ASSUME TypeInv, TypeInv', NEW q, NEW f, NEW m, Shape(q, f, m), NEW d, NEW g, NEW n,
         NEW t \in Threads, StepOf(t), Undisturbed(t, f, m, g, n),
         QueueShape(d)', FreeShape(g, n)', Partition(d, g, n)',
         t \in Producers => ProducerFits(pc[t], loc[t], g, n)',
         t \in Consumers => ConsumerFits(pc[t], loc[t])'
  PROVE  Shape(d, g, n)'
  <1>1. n \in Nat
    BY DEF FreeShape
  <1>2. /\ \A p \in Producers \ {t} : ProducerFits(pc[p], loc[p], g, n)'
        /\ \A c \in Consumers \ {t} : ConsumerFits(pc[c], loc[c])'
    BY <1>1, OthersFit
  <1>3. ThreadsFit(g, n)'
    BY <1>2 DEF ThreadsFit
  <1> QED
    BY <1>3 DEF Shape

\* A step that writes nothing the lists consist of and leaves t with the node it has.
LEMMA ShapeLocal ==
  ASSUME TypeInv, TypeInv', NEW q, NEW f, NEW m, Shape(q, f, m),
         NEW t \in Threads, StepOf(t),
         UNCHANGED <<mem, m_head, m_tail, m_pool, brk, pushed, popped>>,
         t \in Private' <=> t \in Private, t \in Private => loc'[t].node = loc[t].node,
         t \in Producers => ProducerFits(pc[t], loc[t], f, m)',
         t \in Consumers => ConsumerFits(pc[t], loc[t])'
  PROVE  Shape(q, f, m)'
  <1>1. m \in Nat
    BY DEF Shape, FreeShape
  <1>2. QueueShape(q)' /\ FreeShape(f, m)'
    BY DEF Shape, QueueShape, FreeShape, Live
  <1>3. Unique' /\ \A n : Held(n)' <=> Held(n)
    BY HeldStep DEF Shape, Partition
  <1>4. Partition(q, f, m)'
    BY <1>3 DEF Shape, Partition, InQueue, InFree, Live
  <1>5. Undisturbed(t, f, m, f, m)
    BY <1>1 DEF Undisturbed
  <1> QED
    BY <1>2, <1>4, <1>5, ShapeStep

\* The nodes of the queue, as the list behind m_head.
LEMMA QueueList ==
  ASSUME TypeInv, NEW q, QueueShape(q)
  PROVE  /\ Len(pushed) - Len(popped) + 1 \in 1 .. MaxNodes
         /\ \A k \in 0 .. MaxNodes :
              Chain(m_head.ptr)[k] = IF k <= Len(pushed) - Len(popped)
                                       THEN q[Len(popped) + k] ELSE NULL
         /\ ListFrom(m_head.ptr) \subseteq Nodes
         /\ \A n \in Nodes : n \in ListFrom(m_head.ptr) <=> InQueue(q, n)
  <1> DEFINE a == Len(popped)
             b == Len(pushed)
             s == [k \in 0 .. b - a + 1 |-> IF k = b - a + 1 THEN NULL ELSE q[a + k]]
  <1>1. a \in Nat /\ b \in Nat /\ a <= b /\ q \in [Nat -> Nodes] /\ m_head.ptr = q[a]
    BY ShapeTypes DEF QueueShape
  <1>2. /\ \A k \in a .. b : mem[q[k]].next.ptr = IF k = b THEN NULL ELSE q[k + 1]
        /\ \A j, k \in a .. b : q[j] = q[k] => j = k
    BY DEF QueueShape, Live
  <1>3. IsFiniteSet(Nodes) /\ Cardinality(Nodes) = MaxNodes
    BY FS_Interval DEF Nodes
  <1>4. b - a + 1 <= MaxNodes
    <2>1. \A k \in a .. b : q[k] \in Nodes
      BY <1>1
    <2> HIDE DEF a, b
    <2>2. b - a + 1 <= Cardinality(Nodes)
      BY <1>1, <1>2, <1>3, <2>1, Pigeons
    <2> QED
      BY <1>3, <2>2
  <1> HIDE DEF a, b
  <1>5. s[b - a + 1] = NULL /\ s[0] = q[a] /\ b - a + 1 \in 0 .. MaxNodes
    BY <1>1, <1>4
  <1>6. \A k \in 0 .. b - a : s[k] # NULL /\ mem[s[k]].next.ptr = s[k + 1]
    <2> TAKE k \in 0 .. b - a
    <2>1. a + k \in a .. b /\ a + k \in Nat /\ a + k + 1 = a + (k + 1)
      BY <1>1
    <2>2. s[k] = q[a + k] /\ q[a + k] # NULL
      <3>1. q[a + k] \in Nodes
        BY <1>1, <2>1
      <3>2. k # b - a + 1 /\ k \in 0 .. b - a + 1
        BY <1>1
      <3> QED
        BY <3>1, <3>2 DEF Nodes
    <2>3. s[k + 1] = IF k = b - a THEN NULL ELSE q[a + k + 1]
      BY <1>1, <2>1
    <2> QED
      BY <1>1, <1>2, <2>1, <2>2, <2>3
  <1>7. \A k \in 0 .. MaxNodes : Chain(s[0])[k] = IF k <= b - a + 1 THEN s[k] ELSE NULL
    <2> DEFINE c == b - a + 1
    <2>1. /\ c \in 0 .. MaxNodes /\ s[c] = NULL
          /\ \A k \in 0 .. c - 1 : s[k] # NULL /\ mem[s[k]].next.ptr = s[k + 1]
      <3>1. c - 1 = b - a
        BY <1>1
      <3> HIDE DEF s
      <3> QED
        BY <1>5, <1>6, <3>1
    <2> HIDE DEF s, c
    <2>2. \A k \in 0 .. MaxNodes : Chain(s[0])[k] = IF k <= c THEN s[k] ELSE NULL
      BY <2>1, ChainOf
    <2> QED
      BY <2>2 DEF c
  <1>8. \A k \in 0 .. MaxNodes :
          Chain(m_head.ptr)[k] = IF k <= b - a THEN q[a + k] ELSE NULL
    BY <1>1, <1>4, <1>5, <1>7
  <1>9. ASSUME NEW n \in Nodes PROVE n \in ListFrom(m_head.ptr) <=> InQueue(q, n)
    <2>1. n # NULL
      BY DEF Nodes
    <2>2. ASSUME NEW k \in 0 .. MaxNodes, n = Chain(m_head.ptr)[k] PROVE InQueue(q, n)
      <3>1. k <= b - a /\ n = q[a + k]
        BY <1>8, <2>1, <2>2
      <3>2. a + k \in a .. b
        BY <1>1, <3>1
      <3> QED
        BY <3>1, <3>2 DEF InQueue, Live, a, b
    <2>3. ASSUME NEW k \in a .. b, n = q[k]
          PROVE  \E j \in 0 .. MaxNodes : n = Chain(m_head.ptr)[j]
      <3>1. k - a \in 0 .. MaxNodes /\ k - a <= b - a /\ a + (k - a) = k
        BY <1>1, <1>4
      <3> QED
        BY <1>8, <2>3, <3>1
    <2> QED
      BY <2>1, <2>2, <2>3 DEF ListFrom, InQueue, Live, a, b
  <1>10. b - a + 1 \in 1 .. MaxNodes
    BY <1>1, <1>4
  <1>11. \A k \in 0 .. MaxNodes : Chain(m_head.ptr)[k] \in Nodes \cup {NULL}
    <2> TAKE k \in 0 .. MaxNodes
    <2>1. a + k \in Nat
      BY <1>1
    <2> QED
      BY <1>1, <1>8, <2>1
  <1>12. ListFrom(m_head.ptr) \subseteq Nodes
    BY <1>11 DEF ListFrom
  <1> QED
    BY <1>8, <1>9, <1>10, <1>12 DEF a, b

\* The nodes of the free list, as the list behind m_pool.
LEMMA FreeList ==
  ASSUME TypeInv, NEW f, NEW m, FreeShape(f, m)
  PROVE  /\ ListFrom(m_pool.ptr) \subseteq Nodes
         /\ \A n \in Nodes : n \in ListFrom(m_pool.ptr) <=> InFree(f, m, n)
  <1> DEFINE s == [k \in 0 .. m |-> f[m - k]]
  <1>1. /\ m \in Nat /\ f \in [Nat -> Nodes \cup {NULL}] /\ f[0] = NULL /\ m_pool.ptr = f[m]
        /\ \A k \in 1 .. m : f[k] # NULL /\ mem[f[k]].next.ptr = f[k - 1]
        /\ \A j, k \in 1 .. m : f[j] = f[k] => j = k
    BY DEF FreeShape
  <1>2. \A k \in 1 .. m : f[k] \in Nodes
    BY <1>1
  <1>3. m \in 0 .. MaxNodes
    <2>1. IsFiniteSet(Nodes) /\ Cardinality(Nodes) = MaxNodes
      BY FS_Interval DEF Nodes
    <2>2. CASE m # 0
      <3>1. 1 \in Nat /\ 1 <= m
        BY <1>1, <2>2
      <3>2. m - 1 + 1 <= Cardinality(Nodes)
        BY <1>1, <1>2, <2>1, <3>1, Pigeons
      <3> QED
        BY <1>1, <2>1, <3>2
    <2> QED
      BY <1>1, <2>2
  <1>4. s[m] = NULL /\ s[0] = m_pool.ptr
    BY <1>1
  <1>5. \A k \in 0 .. m - 1 : s[k] # NULL /\ mem[s[k]].next.ptr = s[k + 1]
    <2> TAKE k \in 0 .. m - 1
    <2>1. m - k \in 1 .. m /\ m - k - 1 = m - (k + 1)
      BY <1>1
    <2>2. s[k] = f[m - k] /\ s[k + 1] = f[m - (k + 1)]
      BY <1>1
    <2> QED
      BY <1>1, <2>1, <2>2
  <1>6. \A k \in 0 .. m : s[k] = f[m - k] /\ m - k \in Nat
    BY <1>1
  <1> HIDE DEF s
  <1>7. \A k \in 0 .. MaxNodes : Chain(m_pool.ptr)[k] = IF k <= m THEN s[k] ELSE NULL
    BY <1>3, <1>4, <1>5, ChainOf
  <1>8. \A k \in 0 .. MaxNodes : Chain(m_pool.ptr)[k] \in Nodes \cup {NULL}
    BY <1>1, <1>6, <1>7
  <1>9. ListFrom(m_pool.ptr) \subseteq Nodes
    BY <1>8 DEF ListFrom
  <1>10. ASSUME NEW n \in Nodes PROVE n \in ListFrom(m_pool.ptr) <=> InFree(f, m, n)
    <2>1. n # NULL
      BY DEF Nodes
    <2>2. ASSUME NEW k \in 0 .. MaxNodes, n = Chain(m_pool.ptr)[k] PROVE InFree(f, m, n)
      <3>1. k \in 0 .. m /\ n = f[m - k]
        BY <1>1, <1>6, <1>7, <2>1, <2>2
      <3>2. m - k # 0
        BY <1>1, <2>1, <3>1
      <3>3. m - k \in 1 .. m
        BY <1>1, <3>1, <3>2
      <3> QED
        BY <3>1, <3>3 DEF InFree
    <2>3. ASSUME NEW k \in 1 .. m, n = f[k]
          PROVE  \E j \in 0 .. MaxNodes : n = Chain(m_pool.ptr)[j]
      <3>1. m - k \in 0 .. m /\ m - k \in 0 .. MaxNodes /\ m - (m - k) = k
        BY <1>1, <1>3
      <3>2. m - k <= m
        BY <1>1
      <3> QED
        BY <1>6, <1>7, <2>3, <3>1, <3>2
    <2> QED
      BY <2>1, <2>2, <2>3 DEF ListFrom, InFree
  <1> QED
    BY <1>9, <1>10

\* The threads that hold a node, before and after a step.
LEMMA PrivateAt ==
  /\ \A p \in Producers : /\ p \in Private <=> pc[p] \in HasNode
                          /\ p \in Private' <=> pc'[p] \in HasNode
                          /\ p \in Threads /\ p \notin Consumers
  /\ \A c \in Consumers : /\ c \in Private <=> pc[c] \in Freeing
                          /\ c \in Private' <=> pc'[c] \in Freeing
                          /\ c \in Threads /\ c \notin Producers
  <1>1. HasNode = {"construct", "push_tail", "push_next", "push_link", "push_help"}
    BY DEF HasNode, Building
  <1> QED
    BY <1>1 DEF Private, Freeing, Threads

\* The variables that the two lists consist of.
lists == <<mem, m_head, m_tail, m_pool, brk, pushed, popped>>

\* A thread that goes back, or on, without a compare_exchange having succeeded: to the
\* load of m_pool, of m_tail, of m_head, and of m_pool with a node to free; or returns.
Again(t) ==
  \/ /\ t \in Producers /\ pc[t] \notin HasNode
     /\ pc'[t] = "alloc" /\ loc'[t].old = m_pool
  \/ /\ t \in Producers /\ pc[t] \in Building /\ pc'[t] = "push_tail"
     /\ loc'[t].node = loc[t].node /\ loc'[t].item = loc[t].item
  \/ /\ t \in Producers /\ pc[t] \notin HasNode /\ pc'[t] \in {"push_size", "idle"}
  \/ /\ t \in Consumers /\ pc[t] \notin Freeing /\ pc'[t] \in {"pop_head", "idle"}
  \/ /\ t \in Consumers /\ pc[t] \in Freeing /\ pc'[t] = "free_link"
     /\ loc'[t].node = loc[t].node

\* It keeps its node, and what it knows is right in the lists as they are.
LEMMA AgainFits ==
  ASSUME TypeInv, NEW q, NEW f, NEW m, Shape(q, f, m), NEW t \in Threads, Again(t),
         mem' = mem, m_pool' = m_pool
  PROVE  /\ t \in Private' <=> t \in Private
         /\ t \in Private => loc'[t].node = loc[t].node
         /\ t \in Producers => ProducerFits(pc[t], loc[t], f, m)'
         /\ t \in Consumers => ConsumerFits(pc[t], loc[t])'
  <1>1. CASE t \in Producers
    <2>1. /\ t \in Private <=> pc[t] \in HasNode
          /\ t \in Private' <=> pc'[t] \in HasNode
          /\ t \notin Consumers
      BY <1>1, PrivateAt
    <2>2. Building \subseteq HasNode /\ {"push_size", "idle", "alloc"} \cap HasNode = {}
          /\ "push_tail" \in HasNode
      BY DEF Building, HasNode
    <2>3. /\ t \in Private' <=> t \in Private
          /\ t \in Private => loc'[t].node = loc[t].node
      BY <1>1, <2>1, <2>2 DEF Again
    <2>4. CASE pc'[t] = "alloc"
      <3>1. loc'[t].old = m_pool
        BY <1>1, <2>1, <2>4 DEF Again
      <3>2. m \in Nat /\ m_pool.ptr = f[m] /\ m_pool.tag \in Nat
        BY ShapeTypes DEF Shape, FreeShape
      <3>3. PoolSeen(loc[t].old, f, m)'
        BY <3>1, <3>2 DEF PoolSeen
      <3>4. ProducerFits(pc[t], loc[t], f, m)'
        BY <2>4, <3>3 DEF ProducerFits, Building, Linking
      <3> QED
        BY <2>1, <2>3, <3>4
    <2>5. CASE pc'[t] = "push_tail"
      <3>1. /\ pc[t] \in Building
            /\ loc'[t].node = loc[t].node /\ loc'[t].item = loc[t].item
        BY <1>1, <2>1, <2>5 DEF Again
      <3>2. mem[loc[t].node].next.ptr = NULL /\ mem[loc[t].node].data = loc[t].item
        BY <1>1, <3>1 DEF Shape, ThreadsFit, ProducerFits
      <3>3. ProducerFits(pc[t], loc[t], f, m)'
        BY <2>5, <3>1, <3>2 DEF ProducerFits, Linking
      <3> QED
        BY <2>1, <2>3, <3>3
    <2>6. CASE pc'[t] \in {"push_size", "idle"}
      <3>1. ProducerFits(pc[t], loc[t], f, m)'
        BY <2>6 DEF ProducerFits, Building, Linking
      <3> QED
        BY <2>1, <2>3, <3>1
    <2> QED
      BY <1>1, <2>1, <2>4, <2>5, <2>6 DEF Again
  <1>2. CASE t \in Consumers
    <2>1. /\ t \in Private <=> pc[t] \in Freeing
          /\ t \in Private' <=> pc'[t] \in Freeing
          /\ t \notin Producers
      BY <1>2, PrivateAt
    <2>2. /\ pc'[t] \in {"pop_head", "idle", "free_link"}
          /\ pc'[t] \in Freeing <=> pc[t] \in Freeing
          /\ pc[t] \in Freeing => loc'[t].node = loc[t].node
      BY <1>2, <2>1 DEF Again, Freeing
    <2>3. ConsumerFits(pc[t], loc[t])'
      BY <2>2 DEF ConsumerFits, Popping
    <2> QED
      BY <2>1, <2>2, <2>3
  <1> QED
    BY <1>1, <1>2 DEF Threads

LEMMA ShapeAgain ==
  ASSUME TypeInv, TypeInv', NEW q, NEW f, NEW m, Shape(q, f, m),
         NEW t \in Threads, StepOf(t), Again(t), UNCHANGED lists
  PROVE  Shape(q, f, m)'
  <1>1. UNCHANGED <<mem, m_head, m_tail, m_pool, brk, pushed, popped>>
    BY DEF lists
  <1> QED
    BY <1>1, AgainFits, ShapeLocal

\* The compare_exchange of m_tail moves it to the next node, or is too late
\* (lockfree_queue.h:69, 115, 123).
LEMMA ShapeSwing ==
  ASSUME NoWrap, TypeInv, TypeInv', ItemInv, NEW q, NEW f, NEW m, Shape(q, f, m),
         NEW t \in Threads, StepOf(t), Again(t),
         NEW tail, NEW n, SwingTail(tail, n),
         m_tail = tail => mem[m_tail.ptr].next.ptr = n /\ n # NULL,
         UNCHANGED <<mem, m_head, m_pool, brk, pushed, popped>>
  PROVE  Shape(q, f, m)'
  <1>1. CASE m_tail # tail
    <2>1. UNCHANGED lists
      BY <1>1 DEF SwingTail, lists
    <2> QED
      BY <2>1, ShapeAgain
  <1>2. CASE m_tail = tail
    <2> DEFINE k == m_tail.tag
    <2>1. /\ k \in Nat /\ Len(pushed) \in Nat /\ Len(popped) \in Nat
          /\ Len(popped) <= k /\ k <= Len(pushed) /\ m_tail.ptr = q[k]
          /\ mem[q[k]].next.ptr = IF k = Len(pushed) THEN NULL ELSE q[k + 1]
      BY ShapeTypes DEF Shape, QueueShape, Live
    <2>2. k # Len(pushed) /\ n = q[k + 1]
      BY <1>2, <2>1
    <2>3. NextTag(m_tail) = k + 1
      <3>1. k + 1 \in 0 .. TagMod - 1
        BY <2>1, <2>2, TagBounds
      <3> HIDE DEF k
      <3>2. (k + 1) % TagMod = k + 1
        BY <3>1
      <3> QED
        BY <3>2 DEF NextTag, k
    <2>4. m_tail'.ptr = q[k + 1] /\ m_tail'.tag = k + 1
      BY <1>2, <2>2, <2>3 DEF SwingTail, Tagged
    <2> HIDE DEF k
    <2>5. k + 1 \in Live /\ k + 1 > k
      BY <2>1, <2>2 DEF Live
    <2>6. Live' = Live
      BY DEF Live
    <2>7. QueueShape(q)'
      BY <2>4, <2>5, <2>6 DEF Shape, QueueShape
    <2>8. FreeShape(f, m)' /\ m \in Nat
      BY DEF Shape, FreeShape
    <2>9. /\ t \in Private' <=> t \in Private
          /\ t \in Private => loc'[t].node = loc[t].node
          /\ t \in Producers => ProducerFits(pc[t], loc[t], f, m)'
          /\ t \in Consumers => ConsumerFits(pc[t], loc[t])'
      BY AgainFits
    <2>10. Unique' /\ \A x : Held(x)' <=> Held(x)
      BY <2>9, HeldStep DEF Shape, Partition
    <2>11. Partition(q, f, m)'
      BY <2>6, <2>10 DEF Shape, Partition, InQueue, InFree
    <2>12. Undisturbed(t, f, m, f, m)
      BY <2>4, <2>5, <2>8 DEF Undisturbed, k
    <2> QED
      BY <2>7, <2>8, <2>9, <2>11, <2>12, ShapeStep
  <1> QED
    BY <1>1, <1>2

\* What a producer reads is right at the time of reading (lockfree_queue.h:104-110,
\* freelist.h:53-60).
LEMMA ShapeProducerReads ==
  ASSUME TypeInv, TypeInv', NEW q, NEW f, NEW m, Shape(q, f, m), NEW p \in Producers,
         AllocRead(p) \/ PushLoadTail(p) \/ PushLoadNext(p)
  PROVE  Shape(q, f, m)'
  <1>1. /\ p \in Threads /\ p \notin Consumers
        /\ p \in Private <=> pc[p] \in HasNode
        /\ p \in Private' <=> pc'[p] \in HasNode
    BY PrivateAt
  <1>2. UNCHANGED <<mem, m_head, m_tail, m_pool, brk, pushed, popped>>
    BY DEF AllocRead, PushLoadTail, PushLoadNext, history
  <1>3. loc[p] \in Locals /\ ProducerFits(pc[p], loc[p], f, m)
    BY <1>1 DEF TypeInv, ThreadsOK, Shape, ThreadsFit
  <1>4. CASE AllocRead(p)
    <2> DEFINE r == [loc[p] EXCEPT !.next = mem[loc[p].old.ptr].next]
    <2>1. Goto(p, "alloc_cas", r) /\ pc[p] = "alloc"
      BY <1>4 DEF AllocRead
    <2>2. pc'[p] = "alloc_cas" /\ loc'[p] = r /\ StepOf(p)
      BY <1>1, <2>1, GotoOthers DEF TypeInv, StepOf
    <2>3. r.old = loc[p].old /\ r.next = mem[loc[p].old.ptr].next
      BY <1>3 DEF Locals
    <2>4. PoolSeen(loc[p].old, f, m)
      BY <1>3, <2>1 DEF ProducerFits
    <2> HIDE DEF r
    <2>5. PoolSeen(loc[p].old, f, m)' /\ mem'[loc'[p].old.ptr].next.ptr = loc'[p].next.ptr
      BY <1>2, <2>2, <2>3, <2>4 DEF PoolSeen
    <2>6. ProducerFits(pc[p], loc[p], f, m)'
      BY <2>2, <2>5 DEF ProducerFits, Building, Linking
    <2>7. pc[p] \notin HasNode /\ pc'[p] \notin HasNode
      BY <2>1, <2>2 DEF HasNode, Building
    <2> QED
      BY <1>1, <1>2, <2>2, <2>6, <2>7, ShapeLocal
  <1>5. CASE PushLoadTail(p)
    <2> DEFINE r == [loc[p] EXCEPT !.tail = m_tail]
    <2>1. Goto(p, "push_next", r) /\ pc[p] = "push_tail"
      BY <1>5 DEF PushLoadTail
    <2>2. pc'[p] = "push_next" /\ loc'[p] = r /\ StepOf(p)
      BY <1>1, <2>1, GotoOthers DEF TypeInv, StepOf
    <2>3. r.tail = m_tail /\ r.node = loc[p].node /\ r.item = loc[p].item
      BY <1>3 DEF Locals
    <2> HIDE DEF r
    <2>4. TailSeen(loc[p].tail)'
      BY <1>2, <2>2, <2>3, ShapeTypes DEF TailSeen
    <2>5. mem[loc[p].node].next.ptr = NULL /\ mem[loc[p].node].data = loc[p].item
      BY <1>3, <2>1 DEF ProducerFits, Building
    <2>6. ProducerFits(pc[p], loc[p], f, m)'
      BY <1>2, <2>2, <2>3, <2>4, <2>5 DEF ProducerFits
    <2>7. pc[p] \in HasNode /\ pc'[p] \in HasNode /\ loc'[p].node = loc[p].node
      BY <2>1, <2>2, <2>3 DEF HasNode, Building
    <2> QED
      BY <1>1, <1>2, <2>2, <2>6, <2>7, ShapeLocal
  <1>6. CASE PushLoadNext(p)
    <2> DEFINE r == [loc[p] EXCEPT !.next = mem[loc[p].tail.ptr].next]
    <2>1. pc[p] = "push_next" /\ (Goto(p, "push_link", r) \/ Goto(p, "push_help", r))
      BY <1>6 DEF PushLoadNext
    <2>2. pc'[p] \in {"push_link", "push_help"} /\ loc'[p] = r /\ StepOf(p)
      BY <1>1, <2>1, GotoOthers DEF TypeInv, StepOf
    <2>3. /\ r.tail = loc[p].tail /\ r.node = loc[p].node /\ r.item = loc[p].item
          /\ r.next = mem[loc[p].tail.ptr].next
      BY <1>3 DEF Locals
    <2> HIDE DEF r
    <2>4. /\ TailSeen(loc[p].tail)
          /\ mem[loc[p].node].next.ptr = NULL /\ mem[loc[p].node].data = loc[p].item
      BY <1>3, <2>1 DEF ProducerFits, Building, Linking
    <2>5. TailSeen(loc[p].tail)'
      BY <1>2, <2>2, <2>3, <2>4 DEF TailSeen
    <2>6. ProducerFits(pc[p], loc[p], f, m)'
      BY <1>2, <2>2, <2>3, <2>4, <2>5 DEF ProducerFits
    <2>7. pc[p] \in HasNode /\ pc'[p] \in HasNode /\ loc'[p].node = loc[p].node
      BY <2>1, <2>2, <2>3 DEF HasNode, Building
    <2> QED
      BY <1>1, <1>2, <2>2, <2>6, <2>7, ShapeLocal
  <1> QED
    BY <1>4, <1>5, <1>6

\* What a consumer reads: m_tail is not behind the m_head that was read before it, so
\* that head == tail means the same position (lockfree_queue.h:52-77).
LEMMA ShapeConsumerReads ==
  ASSUME TypeInv, TypeInv', NEW q, NEW f, NEW m, Shape(q, f, m), NEW c \in Consumers,
         PopLoadHead(c) \/ PopLoadTail(c) \/ PopLoadNext(c) \/ PopRead(c)
  PROVE  Shape(q, f, m)'
  <1>1. /\ c \in Threads /\ c \notin Producers
        /\ c \in Private <=> pc[c] \in Freeing
        /\ c \in Private' <=> pc'[c] \in Freeing
    BY PrivateAt
  <1>2. UNCHANGED <<mem, m_head, m_tail, m_pool, brk, pushed, popped>>
    BY DEF PopLoadHead, PopLoadTail, PopLoadNext, PopRead, history
  <1>3. loc[c] \in Locals /\ ConsumerFits(pc[c], loc[c])
    BY <1>1 DEF TypeInv, ThreadsOK, Shape, ThreadsFit
  <1>4. /\ m_head.tag \in Nat /\ m_tail.tag \in Nat /\ loc[c].head.tag \in Nat
        /\ loc[c].tail.tag \in Nat
    BY <1>1, ShapeTypes
  <1>5. CASE PopLoadHead(c)
    <2> DEFINE r == [NoLocals EXCEPT !.head = m_head]
    <2>1. Goto(c, "pop_tail", r) /\ pc[c] \in {"idle", "pop_head"}
      BY <1>5 DEF PopLoadHead
    <2>2. pc'[c] = "pop_tail" /\ loc'[c] = r /\ StepOf(c)
      BY <1>1, <2>1, GotoOthers DEF TypeInv, StepOf
    <2>3. r.head = m_head
      BY DEF NoLocals
    <2> HIDE DEF r
    <2>4. HeadSeen(loc[c].head)'
      BY <1>2, <1>4, <2>2, <2>3 DEF HeadSeen
    <2>5. ConsumerFits(pc[c], loc[c])'
      BY <2>2, <2>4 DEF ConsumerFits
    <2>6. pc[c] \notin Freeing /\ pc'[c] \notin Freeing
      BY <2>1, <2>2 DEF Freeing
    <2> QED
      BY <1>1, <1>2, <2>2, <2>5, <2>6, ShapeLocal
  <1>6. CASE PopLoadTail(c)
    <2> DEFINE r == [loc[c] EXCEPT !.tail = m_tail]
    <2>1. Goto(c, "pop_next", r) /\ pc[c] = "pop_tail"
      BY <1>6 DEF PopLoadTail
    <2>2. pc'[c] = "pop_next" /\ loc'[c] = r /\ StepOf(c)
      BY <1>1, <2>1, GotoOthers DEF TypeInv, StepOf
    <2>3. r.head = loc[c].head /\ r.tail = m_tail
      BY <1>3 DEF Locals
    <2> HIDE DEF r
    <2>4. HeadSeen(loc[c].head)
      BY <1>3, <2>1 DEF ConsumerFits, Popping
    <2>5. m_head.tag <= m_tail.tag /\ (m_head.tag = m_tail.tag => m_head = m_tail)
      <3>1. /\ m_head.tag = Len(popped) /\ m_head.ptr = q[Len(popped)]
            /\ m_tail.tag \in Live /\ m_tail.ptr = q[m_tail.tag]
        BY DEF Shape, QueueShape
      <3>2. m_head.tag <= m_tail.tag
        BY <3>1, ShapeTypes DEF Live
      <3>3. m_head \in TaggedPtr /\ m_tail \in TaggedPtr
        BY DEF TypeInv, SharedOK
      <3>4. m_head.tag = m_tail.tag => m_head = m_tail
        BY <3>1, <3>3 DEF TaggedPtr
      <3> QED
        BY <3>2, <3>4
    <2>6. loc[c].head = m_tail \/ loc[c].head.tag < m_tail.tag
      BY <1>4, <2>4, <2>5 DEF HeadSeen
    <2>7. HeadSeen(loc[c].head)' /\ TailSeen(loc[c].tail)'
      BY <1>2, <1>4, <2>2, <2>3, <2>4 DEF HeadSeen, TailSeen
    <2>8. ConsumerFits(pc[c], loc[c])'
      BY <2>2, <2>3, <2>6, <2>7 DEF ConsumerFits
    <2>9. pc[c] \notin Freeing /\ pc'[c] \notin Freeing
      BY <2>1, <2>2 DEF Freeing
    <2> QED
      BY <1>1, <1>2, <2>2, <2>8, <2>9, ShapeLocal
  <1>7. CASE PopLoadNext(c)
    <2> DEFINE r == [loc[c] EXCEPT !.next = mem[loc[c].head.ptr].next]
    <2>1. /\ pc[c] = "pop_next"
          /\ \/ Goto(c, "idle", NoLocals) \/ Goto(c, "pop_head", NoLocals)
             \/ Goto(c, "pop_help", r) /\ loc[c].head = loc[c].tail
             \/ Goto(c, "pop_read", r) /\ loc[c].head # loc[c].tail
      BY <1>7 DEF PopLoadNext, Return
    <2>2. CASE Goto(c, "idle", NoLocals) \/ Goto(c, "pop_head", NoLocals)
      <3>1. pc'[c] \in {"pop_head", "idle"} /\ StepOf(c)
        BY <1>1, <2>2, GotoOthers DEF TypeInv, StepOf
      <3>2. Again(c)
        BY <2>1, <3>1 DEF Again, Freeing
      <3> QED
        BY <1>1, <1>2, <3>1, <3>2, ShapeAgain DEF lists
    <2>3. /\ HeadSeen(loc[c].head) /\ TailSeen(loc[c].tail)
          /\ loc[c].head = loc[c].tail \/ loc[c].head.tag < loc[c].tail.tag
      BY <1>3, <2>1 DEF ConsumerFits, Popping
    <2>4. /\ r.head = loc[c].head /\ r.tail = loc[c].tail
          /\ r.next = mem[loc[c].head.ptr].next
      BY <1>3 DEF Locals
    <2> HIDE DEF r
    <2>5. CASE Goto(c, "pop_help", r) /\ loc[c].head = loc[c].tail
      <3>1. pc'[c] = "pop_help" /\ loc'[c] = r /\ StepOf(c)
        BY <1>1, <2>5, GotoOthers DEF TypeInv, StepOf
      <3>2. HeadSeen(loc[c].head)' /\ TailSeen(loc[c].tail)'
        BY <1>2, <2>3, <2>4, <3>1 DEF HeadSeen, TailSeen
      <3>3. ConsumerFits(pc[c], loc[c])'
        BY <1>2, <2>4, <2>5, <3>1, <3>2 DEF ConsumerFits
      <3>4. pc[c] \notin Freeing /\ pc'[c] \notin Freeing
        BY <2>1, <3>1 DEF Freeing
      <3> QED
        BY <1>1, <1>2, <3>1, <3>3, <3>4, ShapeLocal
    <2>6. CASE Goto(c, "pop_read", r) /\ loc[c].head # loc[c].tail
      <3>1. pc'[c] = "pop_read" /\ loc'[c] = r /\ StepOf(c)
        BY <1>1, <2>6, GotoOthers DEF TypeInv, StepOf
      <3>2. HeadSeen(loc[c].head)'
        BY <1>2, <2>3, <2>4, <3>1 DEF HeadSeen
      <3>3. loc[c].head.tag < m_tail.tag
        BY <1>4, <2>3, <2>6 DEF TailSeen
      <3>4. ConsumerFits(pc[c], loc[c])'
        BY <1>2, <2>4, <3>1, <3>2, <3>3 DEF ConsumerFits
      <3>5. pc[c] \notin Freeing /\ pc'[c] \notin Freeing
        BY <2>1, <3>1 DEF Freeing
      <3> QED
        BY <1>1, <1>2, <3>1, <3>4, <3>5, ShapeLocal
    <2> QED
      BY <2>1, <2>2, <2>5, <2>6
  <1>8. CASE PopRead(c)
    <2> DEFINE r == [loc[c] EXCEPT !.item = mem[loc[c].next.ptr].data, !.tail = NullPtr]
    <2>1. Goto(c, "pop_cas", r) /\ pc[c] = "pop_read"
      BY <1>8 DEF PopRead
    <2>2. pc'[c] = "pop_cas" /\ loc'[c] = r /\ StepOf(c)
      BY <1>1, <2>1, GotoOthers DEF TypeInv, StepOf
    <2>3. /\ r.head = loc[c].head /\ r.next = loc[c].next
          /\ r.item = mem[loc[c].next.ptr].data
      BY <1>3 DEF Locals
    <2> HIDE DEF r
    <2>4. /\ HeadSeen(loc[c].head) /\ loc[c].head.tag < m_tail.tag
          /\ loc[c].head = m_head => mem[m_head.ptr].next.ptr = loc[c].next.ptr
      BY <1>3, <2>1 DEF ConsumerFits, Popping
    <2>5. HeadSeen(loc[c].head)'
      BY <1>2, <2>2, <2>3, <2>4 DEF HeadSeen
    <2>6. ConsumerFits(pc[c], loc[c])'
      BY <1>2, <2>2, <2>3, <2>4, <2>5 DEF ConsumerFits
    <2>7. pc[c] \notin Freeing /\ pc'[c] \notin Freeing
      BY <2>1, <2>2 DEF Freeing
    <2> QED
      BY <1>1, <1>2, <2>2, <2>6, <2>7, ShapeLocal
  <1> QED
    BY <1>5, <1>6, <1>7, <1>8

\* A node that a thread holds is in no list and no other thread's.
LEMMA HeldNode ==
  ASSUME TypeInv, NEW q, NEW f, NEW m, Shape(q, f, m), NEW t \in Private
  PROVE  /\ loc[t].node \in Nodes /\ loc[t].node <= brk /\ Held(loc[t].node)
         /\ ~InQueue(q, loc[t].node) /\ ~InFree(f, m, loc[t].node)
         /\ \A u \in Private \ {t} : loc[u].node # loc[t].node
  <1>1. loc[t].node # NULL /\ t \in Threads
    <2>1. \/ t \in Producers /\ pc[t] \in Building \cup {"construct", "push_swing"}
          \/ t \in Consumers /\ pc[t] \in Freeing
      BY DEF Private, Building, Freeing
    <2>2. /\ t \in Producers => ProducerOK(pc[t], loc[t])
          /\ t \in Consumers => ConsumerOK(pc[t], loc[t])
      BY DEF TypeInv, ThreadsOK
    <2> QED
      BY <2>1, <2>2 DEF ProducerOK, ConsumerOK, Threads
  <1>2. loc[t].node \in Nodes
    BY <1>1, ShapeTypes
  <1>3. Held(loc[t].node)
    BY DEF Held
  <1>4. loc[t].node <= brk /\ ~InQueue(q, loc[t].node) /\ ~InFree(f, m, loc[t].node)
    BY <1>2, <1>3 DEF Shape, Partition
  <1>5. \A u \in Private \ {t} : loc[u].node # loc[t].node
    BY DEF Shape, Partition, Unique
  <1> QED
    BY <1>2, <1>3, <1>4, <1>5

\* A thread that writes to a node of its own, or to a new one, disturbs nobody.
LEMMA WriteOutside ==
  ASSUME TypeInv, NEW q, NEW f, NEW m, Shape(q, f, m), NEW t \in Threads, NEW w \in Nodes,
         \A n \in Nodes \ {w} : mem'[n] = mem[n],
         ~InQueue(q, w), ~InFree(f, m, w), \A u \in Private \ {t} : loc[u].node # w,
         UNCHANGED <<m_head, m_tail, m_pool, pushed, popped>>
  PROVE  QueueShape(q)' /\ FreeShape(f, m)' /\ Undisturbed(t, f, m, f, m)
  <1>1. \A k \in Live : q[k] \in Nodes /\ q[k] # w /\ mem'[q[k]] = mem[q[k]]
    <2>1. Live \subseteq Nat
      BY ShapeTypes DEF Live
    <2> QED
      BY <2>1 DEF Shape, QueueShape, InQueue
  <1>2. m \in Nat /\ \A k \in 1 .. m : f[k] \in Nodes /\ f[k] # w /\ mem'[f[k]] = mem[f[k]]
    <2>1. m \in Nat /\ \A k \in 1 .. m : f[k] \in Nodes
      BY DEF Shape, FreeShape
    <2> QED
      BY <2>1 DEF InFree
  <1>3. Live' = Live
    BY DEF Live
  <1>4. QueueShape(q)'
    BY <1>1, <1>3 DEF Shape, QueueShape
  <1>5. FreeShape(f, m)'
    BY <1>2 DEF Shape, FreeShape
  <1>6. /\ mem'[m_tail.ptr] = mem[m_tail.ptr] /\ mem'[m_head.ptr] = mem[m_head.ptr]
        /\ LET next == mem[m_head.ptr].next.ptr
           IN  next # NULL => mem'[next] = mem[next]
    <2> DEFINE k == Len(popped)
    <2>1. k \in Live /\ k \in Nat /\ Len(pushed) \in Nat /\ k <= Len(pushed)
      BY ShapeTypes DEF Live, Shape, QueueShape
    <2>2. m_head.ptr = q[k] /\ m_tail.tag \in Live /\ m_tail.ptr = q[m_tail.tag]
      BY DEF Shape, QueueShape
    <2>3. mem[q[k]].next.ptr = IF k = Len(pushed) THEN NULL ELSE q[k + 1]
      BY <2>1 DEF Shape, QueueShape
    <2>4. k # Len(pushed) => k + 1 \in Live
      BY <2>1 DEF Live
    <2> HIDE DEF k
    <2> QED
      BY <1>1, <2>1, <2>2, <2>3, <2>4
  <1>7. \A u \in Private \ {t} : mem'[loc[u].node] = mem[loc[u].node]
    BY HeldNode
  <1> QED
    BY <1>2, <1>4, <1>5, <1>6, <1>7 DEF Undisturbed

\* A new node: nothing refers to it (freelist.h:55-58).
LEMMA ShapeAllocFresh ==
  ASSUME TypeInv, TypeInv', NEW q, NEW f, NEW m, Shape(q, f, m), NEW p \in Producers,
         AllocFresh(p)
  PROVE  Shape(q, f, m)'
  <1> DEFINE w == brk + 1
             r == [loc[p] EXCEPT !.node = w, !.old = NullPtr]
  <1>1. /\ p \in Threads /\ p \notin Consumers
        /\ p \in Private <=> pc[p] \in HasNode
        /\ p \in Private' <=> pc'[p] \in HasNode
    BY PrivateAt
  <1>2. /\ pc[p] = "alloc" /\ Goto(p, "construct", r) /\ brk' = brk + 1
        /\ mem' = [mem EXCEPT ![w] = [next |-> NullPtr, data |-> NoItem]]
        /\ UNCHANGED <<m_head, m_tail, m_pool, pushed, popped>>
    BY DEF AllocFresh, history
  <1>3. w \in Nodes /\ brk \in Nat /\ ~(w <= brk)
    BY DEF TypeInv, SharedOK, AllocFresh, Nodes
  <1>4. loc[p] \in Locals
    BY <1>1 DEF TypeInv, ThreadsOK
  <1>5. pc'[p] = "construct" /\ loc'[p].node = w /\ StepOf(p)
    <2>1. r.node = w
      BY <1>4 DEF Locals
    <2> QED
      BY <1>1, <1>2, <2>1, GotoOthers DEF TypeInv, StepOf
  <1> HIDE DEF r
  <1>6. ~InQueue(q, w) /\ ~InFree(f, m, w) /\ ~Held(w)
    BY <1>3 DEF Shape, Partition
  <1>7. \A u \in Private : loc[u].node # w
    BY <1>6 DEF Held
  <1>8. \A n \in Nodes \ {w} : mem'[n] = mem[n]
    BY <1>2 DEF TypeInv, SharedOK
  <1>9. QueueShape(q)' /\ FreeShape(f, m)' /\ Undisturbed(p, f, m, f, m)
    BY <1>1, <1>2, <1>3, <1>6, <1>7, <1>8, WriteOutside
  <1>10. p \notin Private /\ p \in Private'
    BY <1>1, <1>2, <1>5 DEF HasNode, Building
  <1>11. Unique' /\ \A n : Held(n)' <=> Held(n) \/ n = w
    BY <1>1, <1>5, <1>6, <1>10, HeldStep DEF Shape, Partition
  <1>12. Partition(q, f, m)'
    <2>1. \A n : (InQueue(q, n)' <=> InQueue(q, n)) /\ (InFree(f, m, n)' <=> InFree(f, m, n))
      BY <1>2 DEF InQueue, InFree, Live
    <2>2. \A n \in Nodes : n <= brk' <=> n <= brk \/ n = w
      BY <1>2, <1>3 DEF Nodes
    <2> HIDE DEF w
    <2> QED
      BY <1>3, <1>6, <1>11, <2>1, <2>2 DEF Shape, Partition
  <1>13. ProducerFits(pc[p], loc[p], f, m)'
    BY <1>5 DEF ProducerFits, Building, Linking
  <1> QED
    BY <1>1, <1>5, <1>9, <1>12, <1>13, ShapeStep

\* A node from the free list: m_pool has had no other tag since it was read, so that
\* next is the node below the top still (freelist.h:59-66).
LEMMA ShapeAllocCas ==
  ASSUME NoWrap, TypeInv, TypeInv', ItemInv, NEW q, NEW f, NEW m, Shape(q, f, m),
         NEW p \in Producers, AllocCas(p), m_pool = loc[p].old
  PROVE  Shape(q, f, m - 1)'
  <1> DEFINE w == loc[p].old.ptr
             r == [loc[p] EXCEPT !.node = w, !.next = NullPtr, !.old = NullPtr]
  <1>1. /\ p \in Threads /\ p \notin Consumers
        /\ p \in Private <=> pc[p] \in HasNode
        /\ p \in Private' <=> pc'[p] \in HasNode
    BY PrivateAt
  <1>2. /\ pc[p] = "alloc_cas" /\ Goto(p, "construct", r)
        /\ m_pool' = Tagged(loc[p].next.ptr, NextTag(m_pool))
        /\ UNCHANGED <<mem, m_head, m_tail, brk, pushed, popped>>
    BY DEF AllocCas, history
  <1>3. loc[p] \in Locals /\ w # NULL /\ m_pool.ptr = w
    BY <1>1, <1>2 DEF TypeInv, ThreadsOK, ProducerOK
  <1>4. pc'[p] = "construct" /\ loc'[p].node = w /\ StepOf(p)
    <2>1. r.node = w
      BY <1>3 DEF Locals
    <2> QED
      BY <1>1, <1>2, <2>1, GotoOthers DEF TypeInv, StepOf
  <1> HIDE DEF r
  <1>5. /\ m \in Nat /\ m - 1 \in Nat /\ m \in 1 .. m /\ f[m] = w /\ w \in Nodes
        /\ mem[w].next.ptr = f[m - 1]
    <2>1. m \in Nat /\ f[m] = w /\ f[0] = NULL /\ f \in [Nat -> Nodes \cup {NULL}]
      BY <1>3 DEF Shape, FreeShape
    <2>2. m # 0
      BY <1>3, <2>1
    <2>3. m \in 1 .. m
      BY <2>1, <2>2
    <2>4. mem[f[m]].next.ptr = f[m - 1]
      BY <2>3 DEF Shape, FreeShape
    <2> QED
      BY <1>3, <2>1, <2>2, <2>3, <2>4
  <1>6. loc[p].next.ptr = f[m - 1]
    BY <1>2, <1>5 DEF Shape, ThreadsFit, ProducerFits
  <1>7. m_pool'.ptr = f[m - 1] /\ m_pool'.tag > m_pool.tag
    <2>1. m_pool.tag \in Nat /\ m_pool.tag + 1 < TagMod
      BY <1>2, ShapeTypes, TagBounds
    <2>2. NextTag(m_pool) = m_pool.tag + 1
      BY <2>1 DEF NextTag
    <2> QED
      BY <1>2, <1>6, <2>1, <2>2 DEF Tagged
  <1> HIDE DEF w
  <1>8. QueueShape(q)'
    BY <1>2 DEF Shape, QueueShape, Live
  <1>9. FreeShape(f, m - 1)'
    <2>1. \A k \in 1 .. m - 1 : k \in 1 .. m
      BY <1>5
    <2> QED
      BY <1>2, <1>5, <1>7, <2>1 DEF Shape, FreeShape
  <1>10. Undisturbed(p, f, m, f, m - 1)
    BY <1>2, <1>7 DEF Undisturbed
  <1>11. InFree(f, m, w)
    BY <1>5 DEF InFree
  <1>12. ~Held(w) /\ ~InQueue(q, w)
    BY <1>5, <1>11 DEF Shape, Partition
  <1>13. p \notin Private /\ p \in Private'
    BY <1>1, <1>2, <1>4 DEF HasNode, Building
  <1>14. Unique' /\ \A n : Held(n)' <=> Held(n) \/ n = w
    BY <1>1, <1>4, <1>12, <1>13, HeldStep DEF Shape, Partition
  <1>15. \A n : InFree(f, m - 1, n)' <=> InFree(f, m, n) /\ n # w
    <2>1. \A k \in 1 .. m : k \in 1 .. m - 1 \/ k = m
      BY <1>5
    <2>2. \A k \in 1 .. m - 1 : k \in 1 .. m /\ k # m
      BY <1>5
    <2>3. \A k \in 1 .. m : f[k] = f[m] => k = m
      BY <1>5 DEF Shape, FreeShape
    <2> QED
      BY <1>5, <2>1, <2>2, <2>3 DEF InFree
  <1>16. Partition(q, f, m - 1)'
    <2>1. \A n : InQueue(q, n)' <=> InQueue(q, n)
      BY <1>2 DEF InQueue, Live
    <2> QED
      BY <1>2, <1>11, <1>12, <1>14, <1>15, <2>1 DEF Shape, Partition
  <1>17. ProducerFits(pc[p], loc[p], f, m - 1)'
    BY <1>4 DEF ProducerFits, Building, Linking
  <1> QED
    BY <1>1, <1>4, <1>8, <1>9, <1>10, <1>16, <1>17, ShapeStep

\* The placement new writes to the producer's own node (freelist.h:36-41).
LEMMA ShapeConstruct ==
  ASSUME TypeInv, TypeInv', NEW q, NEW f, NEW m, Shape(q, f, m), NEW p \in Producers,
         Construct(p)
  PROVE  Shape(q, f, m)'
  <1> DEFINE w == loc[p].node
  <1>1. /\ p \in Threads /\ p \notin Consumers
        /\ p \in Private <=> pc[p] \in HasNode
        /\ p \in Private' <=> pc'[p] \in HasNode
    BY PrivateAt
  <1>2. /\ pc[p] = "construct" /\ Goto(p, "push_tail", loc[p])
        /\ mem' = [mem EXCEPT ![w] = [next |-> NullPtr, data |-> loc[p].item]]
        /\ UNCHANGED <<m_head, m_tail, m_pool, brk, pushed, popped>>
    BY DEF Construct, history
  <1>3. pc'[p] = "push_tail" /\ loc'[p] = loc[p] /\ StepOf(p)
    BY <1>1, <1>2, GotoOthers DEF TypeInv, StepOf
  <1>4. p \in Private /\ p \in Private'
    BY <1>1, <1>2, <1>3 DEF HasNode, Building
  <1>5. /\ w \in Nodes /\ ~InQueue(q, w) /\ ~InFree(f, m, w)
        /\ \A u \in Private \ {p} : loc[u].node # w
    BY <1>4, HeldNode
  <1>6. /\ \A n \in Nodes \ {w} : mem'[n] = mem[n]
        /\ mem'[w].next.ptr = NULL /\ mem'[w].data = loc[p].item
    BY <1>2, <1>5, NoLocalsType DEF TypeInv, SharedOK
  <1>7. QueueShape(q)' /\ FreeShape(f, m)' /\ Undisturbed(p, f, m, f, m)
    BY <1>1, <1>2, <1>5, <1>6, WriteOutside
  <1>8. Unique' /\ \A n : Held(n)' <=> Held(n)
    BY <1>1, <1>3, <1>4, HeldStep DEF Shape, Partition
  <1>9. Partition(q, f, m)'
    BY <1>2, <1>8 DEF Shape, Partition, InQueue, InFree, Live
  <1>10. ProducerFits(pc[p], loc[p], f, m)'
    BY <1>3, <1>6 DEF ProducerFits, Building, Linking
  <1> QED
    BY <1>1, <1>3, <1>7, <1>9, <1>10, ShapeStep

\* The consumer writes to the node that it took out (freelist.h:74-77).
LEMMA ShapeFreeLink ==
  ASSUME TypeInv, TypeInv', NEW q, NEW f, NEW m, Shape(q, f, m), NEW c \in Consumers,
         FreeLink(c)
  PROVE  Shape(q, f, m)'
  <1> DEFINE w == loc[c].node
  <1>1. /\ c \in Threads /\ c \notin Producers
        /\ c \in Private <=> pc[c] \in Freeing
        /\ c \in Private' <=> pc'[c] \in Freeing
    BY PrivateAt
  <1>2. /\ pc[c] = "free_link" /\ Goto(c, "free_cas", loc[c])
        /\ mem' = [mem EXCEPT ![w].next.ptr = loc[c].old.ptr]
        /\ UNCHANGED <<m_head, m_tail, m_pool, brk, pushed, popped>>
    BY DEF FreeLink, history
  <1>3. pc'[c] = "free_cas" /\ loc'[c] = loc[c] /\ StepOf(c)
    BY <1>1, <1>2, GotoOthers DEF TypeInv, StepOf
  <1>4. c \in Private /\ c \in Private'
    BY <1>1, <1>2, <1>3 DEF Freeing
  <1>5. /\ w \in Nodes /\ ~InQueue(q, w) /\ ~InFree(f, m, w)
        /\ \A u \in Private \ {c} : loc[u].node # w
    BY <1>4, HeldNode
  <1>6. (\A n \in Nodes \ {w} : mem'[n] = mem[n]) /\ mem'[w].next.ptr = loc[c].old.ptr
    BY <1>2, <1>5 DEF TypeInv, SharedOK, TaggedPtr
  <1>7. QueueShape(q)' /\ FreeShape(f, m)' /\ Undisturbed(c, f, m, f, m)
    BY <1>1, <1>2, <1>5, <1>6, WriteOutside
  <1>8. Unique' /\ \A n : Held(n)' <=> Held(n)
    BY <1>1, <1>3, <1>4, HeldStep DEF Shape, Partition
  <1>9. Partition(q, f, m)'
    BY <1>2, <1>8 DEF Shape, Partition, InQueue, InFree, Live
  <1>10. ConsumerFits(pc[c], loc[c])'
    BY <1>3, <1>6 DEF ConsumerFits, Popping
  <1> QED
    BY <1>1, <1>3, <1>7, <1>9, <1>10, ShapeStep

\* The node becomes the top of the free list, whatever happened to m_pool in between
\* (freelist.h:78-82).
LEMMA ShapeFreeCas ==
  ASSUME TypeInv, TypeInv', NEW q, NEW f, NEW m, Shape(q, f, m), NEW c \in Consumers,
         FreeCas(c), m_pool = loc[c].old
  PROVE  \E g : Shape(q, g, m + 1)'
  <1>1. /\ c \in Threads /\ c \notin Producers
        /\ c \in Private <=> pc[c] \in Freeing
        /\ c \in Private' <=> pc'[c] \in Freeing
    BY PrivateAt
  <1>2. PICK w : w = loc[c].node
    OBVIOUS
  <1>3. PICK g : g = [f EXCEPT ![m + 1] = w]
    OBVIOUS
  <1>4. /\ pc[c] = "free_cas" /\ Goto(c, "pop_size", NoLocals)
        /\ m_pool' = Tagged(w, m_pool.tag)
        /\ UNCHANGED <<mem, m_head, m_tail, brk, pushed, popped>>
    BY <1>2 DEF FreeCas, history
  <1>5. pc'[c] = "pop_size" /\ StepOf(c)
    BY <1>1, <1>4, GotoOthers DEF TypeInv, StepOf
  <1>6. m_pool'.ptr = w /\ m_pool'.tag = m_pool.tag
    BY <1>4 DEF Tagged
  <1>7. c \in Private /\ c \notin Private'
    BY <1>1, <1>4, <1>5 DEF Freeing
  <1>8. /\ w \in Nodes /\ w # NULL /\ w <= brk /\ ~InQueue(q, w) /\ ~InFree(f, m, w)
        /\ Held(w)
    BY <1>2, <1>7, HeldNode DEF Nodes
  <1>9. mem[w].next.ptr = m_pool.ptr
    BY <1>2, <1>4 DEF Shape, ThreadsFit, ConsumerFits
  <1>10. /\ m \in Nat /\ f \in [Nat -> Nodes \cup {NULL}] /\ f[0] = NULL /\ m_pool.ptr = f[m]
         /\ \A k \in 1 .. m : f[k] # NULL /\ mem[f[k]].next.ptr = f[k - 1]
         /\ \A j, k \in 1 .. m : f[j] = f[k] => j = k
    BY DEF Shape, FreeShape
  <1>11. /\ g \in [Nat -> Nodes \cup {NULL}] /\ g[m + 1] = w
         /\ \A k \in 0 .. m : g[k] = f[k]
    BY <1>3, <1>8, <1>10
  <1>12. \A k \in 1 .. m + 1 : k \in 1 .. m \/ k = m + 1
    BY <1>10
  <1>13. \A k \in 1 .. m : k \in 0 .. m /\ k - 1 \in 0 .. m /\ k \in 1 .. m + 1
    BY <1>10
  <1>14. \A k \in 1 .. m : g[k] # w
    BY <1>8, <1>11, <1>13 DEF InFree
  <1>15. FreeShape(g, m + 1)'
    <2>1. \A k \in 1 .. m + 1 : g[k] # NULL /\ mem'[g[k]].next.ptr = g[k - 1]
      <3> TAKE k \in 1 .. m + 1
      <3>1. CASE k \in 1 .. m
        BY <1>4, <1>10, <1>11, <1>13, <3>1
      <3>2. CASE k = m + 1
        <4>1. k - 1 = m /\ m \in 0 .. m
          BY <1>10, <3>2
        <4> QED
          BY <1>4, <1>8, <1>9, <1>10, <1>11, <3>2, <4>1
      <3> QED
        BY <1>12, <3>1, <3>2
    <2>2. \A j, k \in 1 .. m + 1 : g[j] = g[k] => j = k
      BY <1>10, <1>11, <1>12, <1>13, <1>14
    <2>3. m + 1 \in Nat /\ 0 \in 0 .. m
      BY <1>10
    <2> QED
      BY <1>6, <1>10, <1>11, <2>1, <2>2, <2>3 DEF FreeShape
  <1>16. QueueShape(q)'
    BY <1>4 DEF Shape, QueueShape, Live
  <1>17. Undisturbed(c, f, m, g, m + 1)
    <2>1. m <= m + 1
      BY <1>10
    <2> QED
      BY <1>4, <1>6, <1>11, <2>1 DEF Undisturbed
  <1>18. \A n : InFree(g, m + 1, n)' <=> InFree(f, m, n) \/ n = w
    <2>1. m + 1 \in 1 .. m + 1
      BY <1>10
    <2> QED
      BY <1>11, <1>12, <1>13, <2>1 DEF InFree
  <1>19. Unique' /\ \A n : Held(n)' <=> Held(n) /\ n # w
    BY <1>1, <1>2, <1>5, <1>7, HeldStep DEF Shape, Partition
  <1>20. Partition(q, g, m + 1)'
    <2>1. \A n : InQueue(q, n)' <=> InQueue(q, n)
      BY <1>4 DEF InQueue, Live
    <2> QED
      BY <1>4, <1>8, <1>18, <1>19, <2>1 DEF Shape, Partition
  <1>21. ConsumerFits(pc[c], loc[c])'
    BY <1>5 DEF ConsumerFits, Popping
  <1>22. Shape(q, g, m + 1)'
    BY <1>1, <1>5, <1>15, <1>16, <1>17, <1>20, <1>21, ShapeStep
  <1> QED
    BY <1>22

\* m_head moves to the node behind the dummy: the element in it is the first that was
\* linked and not returned, and the item read before is the one returned
\* (lockfree_queue.h:79-89).
LEMMA ShapePopCas ==
  ASSUME NoWrap, TypeInv, TypeInv', ItemInv, NEW q, NEW f, NEW m, Shape(q, f, m),
         NEW c \in Consumers, PopCas(c), m_head = loc[c].head
  PROVE  Shape(q, f, m)'
  <1> DEFINE a == Len(popped)
             b == Len(pushed)
             w == loc[c].head.ptr
             r == [NoLocals EXCEPT !.node = w]
  <1>1. /\ c \in Threads /\ c \notin Producers
        /\ c \in Private <=> pc[c] \in Freeing
        /\ c \in Private' <=> pc'[c] \in Freeing
    BY PrivateAt
  <1>2. /\ pc[c] = "pop_cas" /\ Goto(c, "free", r)
        /\ m_head' = Tagged(loc[c].next.ptr, NextTag(m_head))
        /\ popped' = Append(popped, loc[c].item)
        /\ UNCHANGED <<mem, m_tail, m_pool, brk, pushed>>
    BY DEF PopCas
  <1>3. pc'[c] = "free" /\ loc'[c].node = w /\ StepOf(c)
    <2>1. r.node = w
      BY DEF NoLocals
    <2> QED
      BY <1>1, <1>2, <2>1, GotoOthers DEF TypeInv, StepOf
  <1> HIDE DEF r
  <1>4. /\ m_head.tag < m_tail.tag
        /\ mem[m_head.ptr].next.ptr = loc[c].next.ptr
        /\ mem[loc[c].next.ptr].data = loc[c].item
    BY <1>2 DEF Shape, ThreadsFit, ConsumerFits
  <1>5. /\ a \in Nat /\ b \in Nat /\ a < b /\ w = q[a] /\ m_head.tag = a
        /\ m_tail.tag \in Nat /\ a < m_tail.tag /\ m_tail.tag <= b /\ m_tail.ptr = q[m_tail.tag]
        /\ q \in [Nat -> Nodes]
    <2>1. m_tail.tag \in Nat /\ a \in Nat /\ b \in Nat
      BY ShapeTypes
    <2>2. m_head.tag = a /\ m_head.ptr = q[a] /\ m_tail.tag \in a .. b /\ q \in [Nat -> Nodes]
          /\ m_tail.ptr = q[m_tail.tag]
      BY DEF Shape, QueueShape, Live
    <2> QED
      BY <1>4, <2>1, <2>2
  <1>6. /\ \A k \in a .. b : mem[q[k]].next.ptr = IF k = b THEN NULL ELSE q[k + 1]
        /\ \A k \in (a .. b) \ {a} : mem[q[k]].data = pushed[k]
        /\ \A j, k \in a .. b : q[j] = q[k] => j = k
        /\ \A k \in 1 .. a : popped[k] = pushed[k]
    BY DEF Shape, QueueShape, Live
  <1>7. /\ popped' \in Seq(Items \cup {NoItem}) /\ Len(popped') = a + 1
        /\ popped'[a + 1] = loc[c].item
        /\ \A k \in 1 .. a : popped'[k] = popped[k]
    <2>1. popped \in Seq(Items \cup {NoItem}) /\ loc[c].item \in Items \cup {NoItem}
      BY <1>1 DEF TypeInv, SharedOK, ThreadsOK, Locals
    <2> QED
      BY <1>2, <2>1
  <1>8. /\ a \in a .. b /\ a + 1 \in a .. b /\ a + 1 \in Nat
        /\ Live = a .. b /\ Live' = a + 1 .. b
        /\ \A k \in a + 1 .. b : k \in (a .. b) \ {a}
        /\ \A k \in a .. b : k = a \/ k \in a + 1 .. b
    <2>1. Live = a .. b /\ Live' = a + 1 .. b
      BY <1>2, <1>7 DEF Live
    <2> HIDE DEF a, b
    <2> QED
      BY <1>5, <2>1
  <1>9. NextTag(m_head) = a + 1
    <2>1. a + 1 \in 0 .. TagMod - 1
      BY <1>5, TagBounds
    <2>2. (a + 1) % TagMod = a + 1
      <3> HIDE DEF a
      <3> QED
        BY <2>1
    <2> QED
      BY <1>5, <2>2 DEF NextTag
  <1> HIDE DEF a, b, w
  <1>10. loc[c].next.ptr = q[a + 1] /\ loc[c].item = pushed[a + 1]
    <2>1. mem[q[a]].next.ptr = q[a + 1]
      BY <1>5, <1>6, <1>8
    <2>2. mem[q[a + 1]].data = pushed[a + 1]
      BY <1>5, <1>6, <1>8
    <2>3. m_head.ptr = q[a]
      BY <1>5 DEF w
    <2> QED
      BY <1>4, <2>1, <2>2, <2>3
  <1>11. m_head'.ptr = q[a + 1] /\ m_head'.tag = a + 1
    BY <1>2, <1>9, <1>10 DEF Tagged
  <1>12. QueueShape(q)'
    <2>1. a + 1 <= b /\ m_tail'.tag \in a + 1 .. b /\ m_tail'.ptr = q[m_tail'.tag]
      BY <1>2, <1>5
    <2>2. \A k \in 1 .. a + 1 : popped'[k] = pushed[k]
      <3>1. \A k \in 1 .. a + 1 : k \in 1 .. a \/ k = a + 1
        BY <1>5
      <3> QED
        BY <1>6, <1>7, <1>10, <3>1
    <2>3. \A k \in Live' : mem'[q[k]].next.ptr = IF k = Len(pushed') THEN NULL ELSE q[k + 1]
      BY <1>2, <1>6, <1>8 DEF b
    <2>4. \A k \in Live' \ {a + 1} : mem'[q[k]].data = pushed'[k]
      BY <1>2, <1>6, <1>8
    <2>5. \A j, k \in Live' : q[j] = q[k] => j = k
      BY <1>6, <1>8
    <2>6. Len(popped') = a + 1 /\ Len(pushed') = b /\ pushed' = pushed
      BY <1>2, <1>7 DEF b
    <2> QED
      BY <1>5, <1>8, <1>11, <2>1, <2>2, <2>3, <2>4, <2>5, <2>6 DEF QueueShape
  <1>13. FreeShape(f, m)' /\ m \in Nat
    BY <1>2 DEF Shape, FreeShape
  <1>14. Undisturbed(c, f, m, f, m)
    <2>1. m_head'.tag > m_head.tag
      BY <1>5, <1>11
    <2> QED
      BY <1>2, <1>13, <2>1 DEF Undisturbed
  <1>15. c \notin Private /\ c \in Private'
    BY <1>1, <1>2, <1>3 DEF Freeing
  <1>16. w \in Nodes /\ InQueue(q, w)
    BY <1>5, <1>8 DEF InQueue
  <1>17. ~Held(w) /\ ~InFree(f, m, w)
    BY <1>16 DEF Shape, Partition
  <1>18. Unique' /\ \A n : Held(n)' <=> Held(n) \/ n = w
    BY <1>1, <1>3, <1>15, <1>17, HeldStep DEF Shape, Partition, w
  <1>19. \A n : InQueue(q, n)' <=> InQueue(q, n) /\ n # w
    <2>1. \A k \in a + 1 .. b : q[k] # q[a]
      BY <1>6, <1>8
    <2> QED
      BY <1>5, <1>8, <2>1 DEF InQueue
  <1>20. Partition(q, f, m)'
    <2>1. \A n : InFree(f, m, n)' <=> InFree(f, m, n)
      BY DEF InFree
    <2> QED
      BY <1>2, <1>16, <1>17, <1>18, <1>19, <2>1 DEF Shape, Partition
  <1>21. ConsumerFits(pc[c], loc[c])'
    BY <1>3 DEF ConsumerFits, Popping
  <1> QED
    BY <1>1, <1>3, <1>12, <1>13, <1>14, <1>20, <1>21, ShapeStep

\* The node is linked behind the last one, when that is in the queue still
\* (lockfree_queue.h:111-117).
LEMMA ShapePushLink ==
  ASSUME NoWrap, TypeInv, TypeInv', NEW q, NEW f, NEW m, Shape(q, f, m),
         NEW p \in Producers, PushLink(p), mem[loc[p].tail.ptr].next = loc[p].next, ~astray'
  PROVE  \E d : Shape(d, f, m)'
  <1> DEFINE a == Len(popped)
             b == Len(pushed)
             r == [loc[p] EXCEPT !.item = NoItem]
  <1>1. /\ p \in Threads /\ p \notin Consumers
        /\ p \in Private <=> pc[p] \in HasNode
        /\ p \in Private' <=> pc'[p] \in HasNode
    BY PrivateAt
  <1>2. PICK w, e : w = loc[p].node /\ e = loc[p].tail.ptr
    OBVIOUS
  <1>3. PICK d : d = [q EXCEPT ![b + 1] = w]
    OBVIOUS
  <1>4. /\ pc[p] = "push_link" /\ Goto(p, "push_swing", r)
        /\ mem' = [mem EXCEPT ![e].next = Tagged(w, NextTag(loc[p].next))]
        /\ pushed' = Append(pushed, loc[p].item)
        /\ e \in ListFrom(m_head.ptr)
        /\ UNCHANGED <<m_head, m_tail, m_pool, brk, popped>>
    BY <1>2 DEF PushLink, RecordLink
  <1>5. loc[p] \in Locals /\ ProducerOK(pc[p], loc[p]) /\ ProducerFits(pc[p], loc[p], f, m)
    BY <1>1 DEF TypeInv, ThreadsOK, Shape, ThreadsFit
  <1>6. /\ pc'[p] = "push_swing" /\ loc'[p].tail = loc[p].tail /\ loc'[p].node = w
        /\ StepOf(p)
    <2>1. r.tail = loc[p].tail /\ r.node = loc[p].node
      BY <1>5 DEF Locals
    <2> HIDE DEF r
    <2> QED
      BY <1>1, <1>2, <1>4, <2>1, GotoOthers DEF TypeInv, StepOf
  <1> HIDE DEF r
  <1>7. p \in Private /\ p \notin Private'
    BY <1>1, <1>4, <1>6 DEF HasNode, Building
  <1>8. /\ w \in Nodes /\ w # NULL /\ w <= brk /\ Held(w)
        /\ ~InQueue(q, w) /\ ~InFree(f, m, w)
        /\ \A u \in Private \ {p} : loc[u].node # w
    BY <1>2, <1>7, HeldNode DEF Nodes
  <1>9. /\ mem[e].next.ptr = NULL /\ TailSeen(loc[p].tail)
        /\ mem[w].next.ptr = NULL /\ mem[w].data = loc[p].item
        /\ loc[p].item \in Items
    BY <1>2, <1>4, <1>5 DEF ProducerOK, ProducerFits, Building, Linking, Emplacing
  <1>10. /\ a \in Nat /\ b \in Nat /\ a <= b /\ q \in [Nat -> Nodes] /\ Live = a .. b
         /\ m_head.ptr = q[a] /\ m_tail.tag \in a .. b /\ m_tail.ptr = q[m_tail.tag]
         /\ m_head.tag = a
    BY ShapeTypes DEF Shape, QueueShape, Live
  <1>11. /\ \A k \in a .. b : mem[q[k]].next.ptr = IF k = b THEN NULL ELSE q[k + 1]
         /\ \A k \in (a .. b) \ {a} : mem[q[k]].data = pushed[k]
         /\ \A j, k \in a .. b : q[j] = q[k] => j = k
         /\ \A k \in 1 .. a : popped[k] = pushed[k]
    BY DEF Shape, QueueShape, Live
  <1>12. /\ Len(pushed') = b + 1 /\ pushed'[b + 1] = loc[p].item
         /\ \A k \in 1 .. b : pushed'[k] = pushed[k]
    <2>1. pushed \in Seq(Items)
      BY DEF TypeInv, SharedOK
    <2> QED
      BY <1>4, <1>9, <2>1
  <1>13. Live' = a .. b + 1 /\ Len(popped') = a
    BY <1>4, <1>12 DEF Live
  <1>14. e \in Nodes /\ InQueue(q, e)
    <2>1. e \in Nodes
      <3>1. loc[p].tail.ptr # NULL /\ loc[p].tail \in TaggedPtr
        BY <1>4, <1>5 DEF ProducerOK, Linking, Locals
      <3> QED
        BY <1>2, <3>1 DEF TaggedPtr
    <2> QED
      BY <1>4, <2>1, QueueList DEF Shape
  <1> HIDE DEF a, b
  <1>15. b \in a .. b /\ e = q[b]
    <2>1. PICK k \in a .. b : e = q[k]
      BY <1>10, <1>14 DEF InQueue
    <2>2. k = b
      <3> SUFFICES ASSUME k # b PROVE FALSE
        OBVIOUS
      <3>1. q[k + 1] = NULL
        BY <1>9, <1>11, <2>1
      <3>2. k + 1 \in Nat
        BY <1>10
      <3>3. q[k + 1] \in Nodes
        BY <1>10, <3>2
      <3> QED
        BY <3>1, <3>3 DEF Nodes
    <2> QED
      BY <1>10, <2>1, <2>2
  <1>16. /\ \A n \in Nodes \ {e} : mem'[n] = mem[n]
         /\ \A n \in Nodes : mem'[n].data = mem[n].data
         /\ mem'[e].next.ptr = w
    BY <1>4, <1>14 DEF TypeInv, SharedOK, Tagged
  <1>17. /\ d \in [Nat -> Nodes] /\ d[b + 1] = w
         /\ \A k \in a .. b : d[k] = q[k] /\ q[k] \in Nodes
    BY <1>3, <1>8, <1>10
  <1>18. /\ \A k \in a .. b + 1 : k \in a .. b \/ k = b + 1
         /\ \A k \in a .. b : k \in a .. b + 1 /\ (k # b => k + 1 \in a .. b)
         /\ b + 1 \in a .. b + 1 /\ b + 1 # b /\ b + 1 # a /\ b + 1 \notin a .. b
    BY <1>10
  <1>19. \A k \in a .. b : q[k] # w
    BY <1>8, <1>10 DEF InQueue
  <1>20. \A k \in a .. b : k # b => q[k] # e
    BY <1>11, <1>15
  <1>21. QueueShape(d)'
    <2>1. \A k \in a .. b + 1 : mem'[d[k]].next.ptr = IF k = b + 1 THEN NULL ELSE d[k + 1]
      <3> TAKE k \in a .. b + 1
      <3>1. CASE k = b + 1
        <4>1. w # e
          BY <1>15, <1>19
        <4> QED
          BY <1>8, <1>9, <1>16, <1>17, <3>1, <4>1
      <3>2. CASE k = b
        BY <1>15, <1>16, <1>17, <1>18, <3>2
      <3>3. CASE k \in a .. b /\ k # b
        <4>1. d[k] = q[k] /\ q[k] \in Nodes \ {e} /\ d[k + 1] = q[k + 1] /\ k # b + 1
          BY <1>17, <1>18, <1>20, <3>3
        <4>2. mem[q[k]].next.ptr = q[k + 1]
          BY <1>11, <3>3
        <4> QED
          BY <1>16, <4>1, <4>2
      <3> QED
        BY <1>18, <3>1, <3>2, <3>3
    <2>2. \A k \in (a .. b + 1) \ {a} : mem'[d[k]].data = pushed'[k]
      <3> TAKE k \in (a .. b + 1) \ {a}
      <3>1. CASE k = b + 1
        BY <1>8, <1>9, <1>12, <1>16, <1>17, <3>1
      <3>2. CASE k \in a .. b
        <4>1. k \in 1 .. b
          BY <1>10, <3>2
        <4> QED
          BY <1>11, <1>12, <1>16, <1>17, <3>2, <4>1
      <3> QED
        BY <1>18, <3>1, <3>2
    <2>3. \A j, k \in a .. b + 1 : d[j] = d[k] => j = k
      BY <1>11, <1>17, <1>18, <1>19
    <2>4. \A k \in 1 .. a : popped'[k] = pushed'[k]
      <3>1. \A k \in 1 .. a : k \in 1 .. b
        BY <1>10
      <3> QED
        BY <1>4, <1>11, <1>12, <3>1
    <2>5. /\ m_head'.ptr = d[a] /\ m_head'.tag = a /\ a <= b + 1
          /\ m_tail'.tag \in a .. b + 1 /\ m_tail'.ptr = d[m_tail'.tag]
      <3>1. a \in a .. b /\ a <= b + 1
        BY <1>10
      <3> QED
        BY <1>4, <1>10, <1>17, <1>18, <3>1
    <2> QED
      BY <1>12, <1>13, <1>17, <2>1, <2>2, <2>3, <2>4, <2>5 DEF QueueShape
  <1>22. ~InFree(f, m, e)
    BY <1>14 DEF Shape, Partition
  <1>23. m \in Nat /\ \A k \in 1 .. m : f[k] \in Nodes /\ mem'[f[k]] = mem[f[k]]
    <2>1. m \in Nat /\ \A k \in 1 .. m : f[k] \in Nodes
      BY DEF Shape, FreeShape
    <2> QED
      BY <1>16, <1>22, <2>1 DEF InFree
  <1>24. FreeShape(f, m)'
    BY <1>4, <1>23 DEF Shape, FreeShape
  <1>25. Undisturbed(p, f, m, f, m)
    <2>1. ASSUME NEW n \in Nodes, mem[n].next.ptr # NULL
          PROVE  mem'[n].next.ptr = mem[n].next.ptr
      BY <1>9, <1>16, <2>1
    <2>2. m_tail.ptr \in Nodes /\ m_head.ptr \in Nodes
      BY ShapeTypes
    <2>3. mem[m_head.ptr].next.ptr \in Nodes \cup {NULL}
      BY <2>2 DEF TypeInv, SharedOK, TaggedPtr
    <2>4. \A u \in Private \ {p} : mem'[loc[u].node] = mem[loc[u].node]
      <3> TAKE u \in Private \ {p}
      <3>1. loc[u].node \in Nodes /\ ~InQueue(q, loc[u].node)
        BY HeldNode
      <3> QED
        BY <1>14, <1>16, <3>1
    <2>5. mem[m_tail.ptr].next.ptr # NULL =>
            mem'[m_tail.ptr].next.ptr = mem[m_tail.ptr].next.ptr
      BY <2>1, <2>2
    <2>6. mem[m_head.ptr].next.ptr # NULL =>
            /\ mem'[m_head.ptr].next.ptr = mem[m_head.ptr].next.ptr
            /\ mem'[mem[m_head.ptr].next.ptr].data = mem[mem[m_head.ptr].next.ptr].data
      <3>1. mem[m_head.ptr].next.ptr # NULL => mem[m_head.ptr].next.ptr \in Nodes
        BY <2>3
      <3> QED
        BY <1>16, <2>1, <2>2, <3>1
    <2>7. m <= m /\ \A k \in 1 .. m : mem'[f[k]].next.ptr = mem[f[k]].next.ptr
      BY <1>23
    <2> QED
      BY <1>4, <2>4, <2>5, <2>6, <2>7 DEF Undisturbed
  <1>26. Unique' /\ \A n : Held(n)' <=> Held(n) /\ n # w
    BY <1>1, <1>2, <1>6, <1>7, HeldStep DEF Shape, Partition
  <1>27. \A n : InQueue(d, n)' <=> InQueue(q, n) \/ n = w
    BY <1>10, <1>13, <1>17, <1>18 DEF InQueue
  <1>28. Partition(d, f, m)'
    <2>1. \A n : InFree(f, m, n)' <=> InFree(f, m, n)
      BY DEF InFree
    <2> QED
      BY <1>4, <1>8, <1>26, <1>27, <2>1 DEF Shape, Partition
  <1>29. ProducerFits(pc[p], loc[p], f, m)'
    <2>1. TailSeen(loc[p].tail)'
      BY <1>4, <1>6, <1>9 DEF TailSeen
    <2>2. loc'[p].tail = m_tail' => mem'[m_tail'.ptr].next.ptr = loc'[p].node
      BY <1>2, <1>4, <1>6, <1>16
    <2> QED
      BY <1>6, <2>1, <2>2 DEF ProducerFits, Building
  <1>30. Shape(d, f, m)'
    BY <1>1, <1>6, <1>21, <1>24, <1>25, <1>28, <1>29, ShapeStep
  <1> QED
    BY <1>30

\* emplace keeps the shape, unless its push goes astray (lockfree_queue.h:98-128).
LEMMA ShapeProducer ==
  ASSUME NoWrap, TypeInv, TypeInv', ItemInv, NEW q, NEW f, NEW m, Shape(q, f, m),
         NEW p \in Producers, ProducerStep(p), ~astray'
  PROVE  \E d, g, n : Shape(d, g, n)'
  <1>1. p \in Threads /\ loc[p] \in Locals /\ ProducerOK(pc[p], loc[p])
    BY DEF TypeInv, ThreadsOK, Threads
  <1>2. ASSUME NEW l, NEW r, Goto(p, l, r) PROVE pc'[p] = l /\ loc'[p] = r /\ StepOf(p)
    BY <1>1, <1>2, GotoOthers DEF TypeInv, StepOf
  <1>3. CASE \E i \in Items : Emplace(p, i)
    <2>1. PICK i \in Items : Emplace(p, i)
      BY <1>3
    <2> DEFINE r == [NoLocals EXCEPT !.item = i, !.old = m_pool]
    <2>2. Goto(p, "alloc", r) /\ pc[p] = "idle" /\ UNCHANGED lists
      BY <2>1 DEF Emplace, lists, history
    <2>3. r.old = m_pool
      BY DEF NoLocals
    <2> HIDE DEF r
    <2>4. Again(p) /\ StepOf(p)
      BY <1>2, <2>2, <2>3 DEF Again, HasNode, Building
    <2> QED
      BY <1>1, <2>2, <2>4, ShapeAgain
  <1>4. CASE AllocFresh(p)
    BY <1>4, ShapeAllocFresh
  <1>5. CASE AllocRead(p) \/ PushLoadTail(p) \/ PushLoadNext(p)
    BY <1>5, ShapeProducerReads
  <1>6. CASE AllocCas(p)
    <2>1. CASE m_pool = loc[p].old
      BY <1>6, <2>1, ShapeAllocCas
    <2>2. CASE m_pool # loc[p].old
      <3> DEFINE r == [loc[p] EXCEPT !.next = NullPtr, !.old = m_pool]
      <3>1. Goto(p, "alloc", r) /\ pc[p] = "alloc_cas" /\ UNCHANGED lists
        BY <1>6, <2>2 DEF AllocCas, lists, history
      <3>2. r.old = m_pool
        BY <1>1 DEF Locals
      <3> HIDE DEF r
      <3>3. Again(p) /\ StepOf(p)
        BY <1>2, <3>1, <3>2 DEF Again, HasNode, Building
      <3> QED
        BY <1>1, <3>1, <3>3, ShapeAgain
    <2> QED
      BY <2>1, <2>2
  <1>7. CASE Construct(p)
    BY <1>7, ShapeConstruct
  <1> DEFINE retry == [loc[p] EXCEPT !.tail = NullPtr, !.next = NullPtr]
  <1>8. retry.node = loc[p].node /\ retry.item = loc[p].item
    BY <1>1 DEF Locals
  <1>9. ASSUME pc[p] \in Building, PushRetry(p) PROVE Again(p) /\ StepOf(p)
    <2>1. Goto(p, "push_tail", retry)
      BY <1>9 DEF PushRetry
    <2> HIDE DEF retry
    <2> QED
      BY <1>2, <1>8, <1>9, <2>1 DEF Again
  <1> HIDE DEF retry
  <1>10. CASE PushLink(p)
    <2>1. CASE mem[loc[p].tail.ptr].next = loc[p].next
      BY <1>10, <2>1, ShapePushLink
    <2>2. CASE mem[loc[p].tail.ptr].next # loc[p].next
      <3>1. pc[p] \in Building /\ PushRetry(p) /\ UNCHANGED lists
        BY <1>10, <2>2 DEF PushLink, Building, lists, history
      <3> QED
        BY <1>1, <1>9, <3>1, ShapeAgain
    <2> QED
      BY <2>1, <2>2
  <1>11. CASE PushSwing(p)
    <2>1. /\ pc[p] = "push_swing" /\ Goto(p, "push_size", NoLocals)
          /\ SwingTail(loc[p].tail, loc[p].node)
          /\ UNCHANGED <<mem, m_head, m_pool, brk, pushed, popped>>
      BY <1>11 DEF PushSwing, history
    <2>2. Again(p) /\ StepOf(p)
      BY <1>2, <2>1 DEF Again, HasNode, Building
    <2>3. m_tail = loc[p].tail => mem[m_tail.ptr].next.ptr = loc[p].node /\ loc[p].node # NULL
      BY <1>1, <2>1 DEF Shape, ThreadsFit, ProducerFits, ProducerOK
    <2> QED
      BY <1>1, <2>1, <2>2, <2>3, ShapeSwing
  <1>12. CASE PushHelp(p)
    <2>1. /\ pc[p] = "push_help" /\ PushRetry(p)
          /\ SwingTail(loc[p].tail, loc[p].next.ptr)
          /\ UNCHANGED <<mem, m_head, m_pool, brk, pushed, popped>>
      BY <1>12 DEF PushHelp, history
    <2>2. Again(p) /\ StepOf(p)
      BY <1>9, <2>1 DEF Building
    <2>3. m_tail = loc[p].tail => /\ mem[m_tail.ptr].next.ptr = loc[p].next.ptr
                                  /\ loc[p].next.ptr # NULL
      BY <1>1, <2>1 DEF Shape, ThreadsFit, ProducerFits, ProducerOK
    <2> QED
      BY <1>1, <2>1, <2>2, <2>3, ShapeSwing
  <1>13. CASE PushSize(p)
    <2>1. pc[p] = "push_size" /\ Goto(p, "idle", NoLocals) /\ UNCHANGED lists
      BY <1>13 DEF PushSize, Return, lists, history
    <2>2. Again(p) /\ StepOf(p)
      BY <1>2, <2>1 DEF Again, HasNode, Building
    <2> QED
      BY <1>1, <2>1, <2>2, ShapeAgain
  <1> QED
    BY <1>3, <1>4, <1>5, <1>6, <1>7, <1>10, <1>11, <1>12, <1>13 DEF ProducerStep

\* pop_front keeps the shape (lockfree_queue.h:46-94).
LEMMA ShapeConsumer ==
  ASSUME NoWrap, TypeInv, TypeInv', ItemInv, NEW q, NEW f, NEW m, Shape(q, f, m),
         NEW c \in Consumers, ConsumerStep(c)
  PROVE  \E d, g, n : Shape(d, g, n)'
  <1>1. c \in Threads /\ loc[c] \in Locals /\ ConsumerOK(pc[c], loc[c])
    BY DEF TypeInv, ThreadsOK, Threads
  <1>2. ASSUME NEW l, NEW r, Goto(c, l, r) PROVE pc'[c] = l /\ loc'[c] = r /\ StepOf(c)
    BY <1>1, <1>2, GotoOthers DEF TypeInv, StepOf
  <1>3. CASE PopLoadHead(c) \/ PopLoadTail(c) \/ PopLoadNext(c) \/ PopRead(c)
    BY <1>3, ShapeConsumerReads
  <1>4. CASE PopHelp(c)
    <2>1. /\ pc[c] = "pop_help" /\ Goto(c, "pop_head", NoLocals)
          /\ SwingTail(loc[c].tail, loc[c].next.ptr)
          /\ UNCHANGED <<mem, m_head, m_pool, brk, pushed, popped>>
      BY <1>4 DEF PopHelp, history
    <2>2. Again(c) /\ StepOf(c)
      BY <1>2, <2>1 DEF Again, Freeing
    <2>3. m_tail = loc[c].tail => /\ mem[m_tail.ptr].next.ptr = loc[c].next.ptr
                                  /\ loc[c].next.ptr # NULL
      BY <1>1, <2>1 DEF Shape, ThreadsFit, ConsumerFits, ConsumerOK, Taking
    <2> QED
      BY <1>1, <2>1, <2>2, <2>3, ShapeSwing
  <1>5. CASE PopCas(c)
    <2>1. CASE m_head = loc[c].head
      BY <1>5, <2>1, ShapePopCas
    <2>2. CASE m_head # loc[c].head
      <3>1. pc[c] = "pop_cas" /\ Goto(c, "pop_head", NoLocals) /\ UNCHANGED lists
        BY <1>5, <2>2 DEF PopCas, lists
      <3>2. Again(c) /\ StepOf(c)
        BY <1>2, <3>1 DEF Again, Freeing
      <3> QED
        BY <1>1, <3>1, <3>2, ShapeAgain
    <2> QED
      BY <2>1, <2>2
  <1> DEFINE old == [loc[c] EXCEPT !.old = m_pool]
  <1>6. old.node = loc[c].node
    BY <1>1 DEF Locals
  <1> HIDE DEF old
  <1>7. CASE FreeLoad(c)
    <2>1. pc[c] = "free" /\ Goto(c, "free_link", old) /\ UNCHANGED lists
      BY <1>7 DEF FreeLoad, lists, history, old
    <2>2. Again(c) /\ StepOf(c)
      BY <1>2, <1>6, <2>1 DEF Again, Freeing
    <2> QED
      BY <1>1, <2>1, <2>2, ShapeAgain
  <1>8. CASE FreeLink(c)
    BY <1>8, ShapeFreeLink
  <1>9. CASE FreeCas(c)
    <2>1. CASE m_pool = loc[c].old
      BY <1>9, <2>1, ShapeFreeCas
    <2>2. CASE m_pool # loc[c].old
      <3>1. pc[c] = "free_cas" /\ Goto(c, "free_link", old) /\ UNCHANGED lists
        BY <1>9, <2>2 DEF FreeCas, lists, history, old
      <3>2. Again(c) /\ StepOf(c)
        BY <1>2, <1>6, <3>1 DEF Again, Freeing
      <3> QED
        BY <1>1, <3>1, <3>2, ShapeAgain
    <2> QED
      BY <2>1, <2>2
  <1>10. CASE PopSize(c)
    <2>1. pc[c] = "pop_size" /\ Goto(c, "idle", NoLocals) /\ UNCHANGED lists
      BY <1>10 DEF PopSize, Return, lists, history
    <2>2. Again(c) /\ StepOf(c)
      BY <1>2, <2>1 DEF Again, Freeing
    <2> QED
      BY <1>1, <2>1, <2>2, ShapeAgain
  <1> QED
    BY <1>3, <1>4, <1>5, <1>7, <1>8, <1>9, <1>10 DEF ConsumerStep

\* A compare_exchange that fails without a cause changes no list.
LEMMA ShapeSpurious ==
  ASSUME TypeInv, TypeInv', NEW q, NEW f, NEW m, Shape(q, f, m),
         NEW t \in Threads, SpuriousFail(t)
  PROVE  Shape(q, f, m)'
  <1>1. loc[t] \in Locals /\ UNCHANGED lists
    BY DEF TypeInv, ThreadsOK, SpuriousFail, lists, history
  <1>2. ASSUME NEW l, NEW r, Goto(t, l, r) PROVE pc'[t] = l /\ loc'[t] = r /\ StepOf(t)
    BY <1>2, GotoOthers DEF TypeInv, StepOf
  <1>3. /\ t \in Producers => pc[t] \in {"push_link", "alloc_cas"}
        /\ t \in Consumers => pc[t] \in {"pop_cas", "free_cas"}
    BY DEF TypeInv, ThreadsOK, ProducerOK, ConsumerOK, SpuriousFail, Emplacing, Popping, Freeing
  <1> DEFINE retry == [loc[t] EXCEPT !.tail = NullPtr, !.next = NullPtr]
             again == [loc[t] EXCEPT !.next = NullPtr, !.old = m_pool]
             old == [loc[t] EXCEPT !.old = m_pool]
  <1>4. /\ retry.node = loc[t].node /\ retry.item = loc[t].item
        /\ again.old = m_pool /\ old.node = loc[t].node
    BY <1>1 DEF Locals
  <1>5. \/ pc[t] = "push_link" /\ Goto(t, "push_tail", retry)
        \/ pc[t] = "pop_cas" /\ Goto(t, "pop_head", NoLocals)
        \/ pc[t] = "alloc_cas" /\ Goto(t, "alloc", again)
        \/ pc[t] = "free_cas" /\ Goto(t, "free_link", old)
    BY DEF SpuriousFail, PushRetry
  <1> HIDE DEF retry, again, old
  <1>6. Again(t) /\ StepOf(t)
    BY <1>2, <1>3, <1>4, <1>5 DEF Again, Freeing, Building, HasNode, Threads
  <1> QED
    BY <1>1, <1>6, ShapeAgain

\* astray is never taken back.
LEMMA AstrayForGood ==
  ASSUME TypeInv, [Next]_vars, astray
  PROVE  astray'
  <1>1. ASSUME NEW p \in Producers, ProducerStep(p) PROVE astray'
    BY <1>1 DEF ProducerStep, Emplace, AllocFresh, AllocRead, AllocCas, Construct,
         PushLoadTail, PushLoadNext, PushLink, RecordLink, PushSwing, PushSize, PushHelp, history
  <1>2. ASSUME NEW c \in Consumers, ConsumerStep(c) PROVE astray'
    BY <1>2 DEF ConsumerStep, PopLoadHead, PopLoadTail, PopLoadNext, PopHelp, PopRead, PopCas,
         FreeLoad, FreeLink, FreeCas, PopSize, history
  <1> QED
    BY <1>1, <1>2 DEF Next, SpuriousFail, vars, history

\* The constructors: the dummy node, and a free list of the others.
LEMMA ShapeInit ==
  ASSUME NoWrap, Init
  PROVE  \E q, f, m : Shape(q, f, m)
  <1> DEFINE q == [k \in Nat |-> Dummy]
             f == [k \in Nat |-> IF k < Dummy THEN k ELSE NULL]
             m == Dummy - 1
  <1>1. Dummy \in Nodes /\ Dummy \in Nat /\ m \in Nat /\ Dummy # 0
    BY DEF Dummy, Nodes
  <1>2. pushed = << >> /\ popped = << >> /\ brk = Dummy
    BY DEF Init
  <1>3. /\ m_head.ptr = Dummy /\ m_head.tag = 0 /\ m_tail.ptr = Dummy /\ m_tail.tag = 0
        /\ m_pool.ptr = m
    BY DEF Init, Tagged
  <1>4. /\ mem[Dummy].next.ptr = NULL
        /\ \A n \in Nodes : n < Dummy => mem[n].next.ptr = n - 1
    BY <1>1 DEF Init, Tagged, NullPtr
  <1>5. Len(pushed) = 0 /\ Len(popped) = 0 /\ Live = {0}
    BY <1>2 DEF Live
  <1>6. \A t \in Threads : pc[t] = "idle"
    BY DEF Init
  <1>7. Private = {}
    BY <1>6 DEF Private, Threads
  <1>8. QueueShape(q)
    BY <1>1, <1>2, <1>3, <1>4, <1>5 DEF QueueShape
  <1>9. \A k \in 1 .. m : f[k] = k /\ k \in Nodes /\ k < Dummy /\ f[k - 1] = k - 1
    BY <1>1 DEF Nodes
  <1>10. f \in [Nat -> Nodes \cup {NULL}] /\ f[0] = NULL /\ f[m] = m
    BY <1>1 DEF Nodes
  <1>11. FreeShape(f, m)
    <2>1. \A k \in 1 .. m : f[k] # NULL /\ mem[f[k]].next.ptr = f[k - 1]
      <3> HIDE DEF f, m
      <3> QED
        BY <1>4, <1>9 DEF Nodes
    <2>2. \A j, k \in 1 .. m : f[j] = f[k] => j = k
      BY <1>9
    <2> QED
      BY <1>1, <1>3, <1>10, <2>1, <2>2 DEF FreeShape
  <1>12. \A n : (InQueue(q, n) <=> n = Dummy) /\ (InFree(f, m, n) <=> n \in 1 .. m) /\ ~Held(n)
    <2>1. \A n : InQueue(q, n) <=> n = Dummy
      BY <1>5 DEF InQueue
    <2>2. \A n : InFree(f, m, n) <=> n \in 1 .. m
      <3> HIDE DEF f, m
      <3> QED
        BY <1>9 DEF InFree
    <2> QED
      BY <1>7, <2>1, <2>2 DEF Held
  <1>13. Partition(q, f, m)
    <2>1. \A n \in Nodes : n <= brk <=> n = Dummy \/ n \in 1 .. m
      BY <1>1, <1>2 DEF Nodes
    <2>2. Dummy \notin 1 .. m
      BY <1>1
    <2> HIDE DEF q, f, m
    <2> QED
      BY <1>7, <1>12, <2>1, <2>2 DEF Partition, Unique
  <1>14. ThreadsFit(f, m)
    BY <1>6 DEF ThreadsFit, ProducerFits, ConsumerFits, Threads, Building, Linking, Popping
  <1>15. Shape(q, f, m)
    BY <1>8, <1>11, <1>13, <1>14 DEF Shape
  <1> QED
    BY <1>15

\* Every step keeps the shape.
LEMMA ShapeNext ==
  ASSUME NoWrap, TypeInv, TypeInv', ItemInv, ShapeInv, [Next]_vars
  PROVE  ShapeInv'
  <1> SUFFICES ASSUME ~astray' PROVE \E d, g, n : Shape(d, g, n)'
    BY DEF ShapeInv
  <1>1. ~astray
    BY AstrayForGood
  <1>2. PICK q, f, m : Shape(q, f, m)
    BY <1>1 DEF ShapeInv
  <1>3. CASE UNCHANGED vars
    <2>1. /\ UNCHANGED <<mem, m_head, m_tail, m_pool, brk, pushed, popped>>
          /\ pc' = pc /\ loc' = loc
      BY <1>3 DEF vars, history
    <2>2. Shape(q, f, m)'
      BY <1>2, <2>1 DEF Shape, QueueShape, FreeShape, Partition, ThreadsFit, ProducerFits,
           ConsumerFits, TailSeen, HeadSeen, PoolSeen, InQueue, InFree, Held, Unique, Private, Live
    <2> QED
      BY <2>2
  <1> QED
    BY <1>2, <1>3, ShapeProducer, ShapeConsumer, ShapeSpurious DEF Next

QueueInv == TypeInv /\ ItemInv /\ ShapeInv

LEMMA QueueInvInductive ==
  ASSUME NoWrap
  PROVE  Spec => []QueueInv
  <1>1. Init => QueueInv
    BY TypeInvInit, ItemsInit, ShapeInit DEF QueueInv, ShapeInv
  <1>2. QueueInv /\ [Next]_vars => QueueInv'
    <2> SUFFICES ASSUME QueueInv, [Next]_vars PROVE QueueInv'
      OBVIOUS
    <2>1. TypeInv'
      BY TypeInvNext DEF QueueInv
    <2> QED
      BY <2>1, ItemsNext, ShapeNext DEF QueueInv
  <1> QED
    BY <1>1, <1>2, PTL DEF Spec

-----------------------------------------------------------------------------
(* Theorems. *)

\* As long as no push goes astray, pop_front returns the items in the order in which
\* they were linked, and the list behind m_head holds exactly the others, however the
\* steps of any number of calls interleave and nodes are recycled
\* (lockfree_queue.h:46-129).
THEOREM QueueOrder ==
  ASSUME NoWrap
  PROVE  Spec => []QueueIsFifo
  <1>1. QueueInv => QueueIsFifo
    <2> SUFFICES ASSUME QueueInv, ~astray PROVE QueueIsFifo
      BY DEF QueueIsFifo
    <2> DEFINE a == Len(popped)
               b == Len(pushed)
               at == Chain(m_head.ptr)
    <2>1. PICK q, f, m : Shape(q, f, m)
      BY DEF QueueInv, ShapeInv
    <2>2. /\ b - a + 1 \in 1 .. MaxNodes
          /\ \A k \in 0 .. MaxNodes : at[k] = IF k <= b - a THEN q[a + k] ELSE NULL
      BY <2>1, QueueList DEF Shape, QueueInv
    <2>3. /\ a \in Nat /\ b \in Nat /\ a <= b /\ q \in [Nat -> Nodes]
          /\ \A k \in 1 .. a : popped[k] = pushed[k]
          /\ \A k \in (a .. b) \ {a} : mem[q[k]].data = pushed[k]
      BY <2>1, ShapeTypes DEF Shape, QueueShape, Live, QueueInv
    <2>4. popped = SubSeq(pushed, 1, a)
      <3>1. popped \in Seq(Items \cup {NoItem}) /\ pushed \in Seq(Items)
        BY DEF QueueInv, TypeInv, SharedOK
      <3>2. /\ SubSeq(pushed, 1, a) \in Seq(Items) /\ Len(SubSeq(pushed, 1, a)) = a
            /\ \A k \in 1 .. a : SubSeq(pushed, 1, a)[k] = pushed[k]
        BY <2>3, <3>1
      <3> QED
        BY <2>3, <3>1, <3>2
    <2> HIDE DEF a, b, at
    <2>5. ASSUME NEW k \in 1 .. b - a PROVE at[k] # NULL /\ mem[at[k]].data = pushed[a + k]
      <3>1. /\ k \in 0 .. MaxNodes /\ k <= b - a
            /\ a + k \in (a .. b) \ {a} /\ a + k \in Nat
        BY <2>2, <2>3
      <3>2. at[k] = q[a + k] /\ q[a + k] \in Nodes
        BY <2>2, <2>3, <3>1
      <3> QED
        BY <2>3, <3>1, <3>2 DEF Nodes
    <2>6. at[b - a + 1] = NULL
      <3>1. b - a + 1 \in 0 .. MaxNodes /\ ~(b - a + 1 <= b - a)
        BY <2>2, <2>3
      <3> QED
        BY <2>2, <3>1
    <2> QED
      BY <2>3, <2>4, <2>5, <2>6 DEF QueueIsFifo, a, b, at
  <1> QED
    BY <1>1, QueueInvInductive, PTL

\* As long as no push goes astray, equal tags mean equal positions: head == tail is
\* never true of two pointers to one address at different times (lockfree_queue.h:60).
THEOREM TagsArePositions ==
  ASSUME NoWrap
  PROVE  Spec => []TagIsPosition
  <1>1. QueueInv => TagIsPosition
    <2> SUFFICES ASSUME QueueInv, ~astray PROVE TagIsPosition
      BY DEF TagIsPosition
    <2> DEFINE a == Len(popped)
               b == Len(pushed)
               k == m_tail.tag
    <2>1. PICK q, f, m : Shape(q, f, m)
      BY DEF QueueInv, ShapeInv
    <2>2. /\ b - a + 1 \in 1 .. MaxNodes
          /\ \A j \in 0 .. MaxNodes :
               Chain(m_head.ptr)[j] = IF j <= b - a THEN q[a + j] ELSE NULL
      BY <2>1, QueueList DEF Shape, QueueInv
    <2>3. /\ a \in Nat /\ b \in Nat /\ a <= b /\ k \in Nat /\ m_head.tag = a
          /\ k \in a .. b /\ m_tail.ptr = q[k] /\ b + 1 < TagMod
      BY <2>1, ShapeTypes, TagBounds DEF Shape, QueueShape, Live, QueueInv
    <2> HIDE DEF a, b, k
    <2>4. a % TagMod = a /\ k % TagMod = k
      BY <2>3
    <2>5. k - a \in 0 .. MaxNodes /\ k - a <= b - a /\ a + (k - a) = k
      BY <2>2, <2>3
    <2>6. m_tail.ptr = Chain(m_head.ptr)[k - a]
      BY <2>2, <2>3, <2>5
    <2> QED
      BY <2>3, <2>4, <2>6 DEF TagIsPosition, a, b, k
  <1> QED
    BY <1>1, QueueInvInductive, PTL

\* As long as no push goes astray, no node is lost, allocated twice or in both lists,
\* although the free list reuses node::next and reads nodes that others have taken
\* (freelist.h:48-83).
THEOREM NodesAreConserved ==
  ASSUME NoWrap
  PROVE  Spec => []NodesConserved
  <1>1. QueueInv => NodesConserved
    <2> SUFFICES ASSUME QueueInv, ~astray PROVE NodesConserved
      BY DEF NodesConserved
    <2> DEFINE held == {loc[t].node : t \in Private}
               queue == ListFrom(m_head.ptr)
               free == ListFrom(m_pool.ptr)
    <2>1. PICK q, f, m : Shape(q, f, m)
      BY DEF QueueInv, ShapeInv
    <2>2. queue \subseteq Nodes /\ \A n \in Nodes : n \in queue <=> InQueue(q, n)
      BY <2>1, QueueList DEF Shape, QueueInv
    <2>3. free \subseteq Nodes /\ \A n \in Nodes : n \in free <=> InFree(f, m, n)
      BY <2>1, FreeList DEF Shape, QueueInv
    <2>4. held \subseteq Nodes /\ \A n \in Nodes : n \in held <=> Held(n)
      <3>1. \A t \in Private : loc[t].node \in Nodes
        BY <2>1, HeldNode DEF QueueInv
      <3> QED
        BY <3>1 DEF Held
    <2>5. brk \in Nodes /\ \A n : n \in 1 .. brk <=> n \in Nodes /\ n <= brk
      <3>1. brk \in Nodes
        BY DEF QueueInv, TypeInv, SharedOK
      <3> QED
        BY <3>1 DEF Nodes
    <2>6. /\ \A n \in Nodes : n <= brk <=> InQueue(q, n) \/ InFree(f, m, n) \/ Held(n)
          /\ \A n \in Nodes : /\ ~(InQueue(q, n) /\ InFree(f, m, n))
                              /\ ~(InQueue(q, n) /\ Held(n)) /\ ~(InFree(f, m, n) /\ Held(n))
          /\ \A s, t \in Private : s # t => loc[s].node # loc[t].node
      BY <2>1 DEF Shape, Partition, Unique
    <2> HIDE DEF held, queue, free
    <2>7. queue \cup free \cup held = 1 .. brk
      BY <2>2, <2>3, <2>4, <2>5, <2>6
    <2>8. queue \cap free = {} /\ queue \cap held = {} /\ free \cap held = {}
      BY <2>2, <2>3, <2>4, <2>6
    <2> QED
      BY <2>6, <2>7, <2>8 DEF NodesConserved, held, queue, free
  <1> QED
    BY <1>1, QueueInvInductive, PTL

-----------------------------------------------------------------------------
(* One producer. *)

OneProducer == \A p, r \in Producers : p = r

\* m_tail is behind only between the exchange and the swing of the push that is under
\* way, so that the tail which the producer has read stays the current one.
TailIsLast(p) ==
  /\ pc[p] # "push_swing" => m_tail.tag = Len(pushed)
  /\ pc[p] \in Linking \ {"push_swing"} => loc[p].tail = m_tail
  /\ pc[p] = "push_swing" => \/ m_tail.tag = Len(pushed)
                             \/ m_tail = loc[p].tail /\ m_tail.tag + 1 = Len(pushed)

NoneAstray == ~astray /\ \A p \in Producers : TailIsLast(p)

\* Somebody moves m_tail to the node behind it: only the producer can have linked one.
LEMMA SwungToLast ==
  ASSUME NoWrap, TypeInv, ItemInv, NEW q, QueueShape(q), NEW p \in Producers, TailIsLast(p),
         NEW tail, NEW n, SwingTail(tail, n),
         m_tail = tail => mem[m_tail.ptr].next.ptr = n /\ n # NULL
  PROVE  \/ m_tail' = m_tail /\ m_tail # tail
         \/ pc[p] = "push_swing" /\ m_tail'.tag = Len(pushed)
  <1>1. CASE m_tail # tail
    BY <1>1 DEF SwingTail
  <1>2. CASE m_tail = tail
    <2> DEFINE k == m_tail.tag
    <2>1. /\ k \in Nat /\ Len(pushed) \in Nat /\ Len(popped) \in Nat
          /\ k \in Live /\ m_tail.ptr = q[k] /\ Len(pushed) + 1 < TagMod
          /\ mem[q[k]].next.ptr = IF k = Len(pushed) THEN NULL ELSE q[k + 1]
      BY ShapeTypes, TagBounds DEF QueueShape
    <2>2. k # Len(pushed)
      BY <1>2, <2>1
    <2>3. pc[p] = "push_swing" /\ k + 1 = Len(pushed)
      BY <2>2 DEF TailIsLast
    <2>4. m_tail'.tag = NextTag(m_tail)
      BY <1>2 DEF SwingTail, Tagged
    <2> HIDE DEF k
    <2>5. (k + 1) % TagMod = k + 1
      BY <2>1, <2>3
    <2> QED
      BY <2>3, <2>4, <2>5 DEF NextTag, k
  <1> QED
    BY <1>1, <1>2

\* The steps of the producer (lockfree_queue.h:96-140).
LEMMA OneProducerStep ==
  ASSUME NoWrap, TypeInv, ItemInv, NEW q, NEW f, NEW m, Shape(q, f, m), OneProducer, NoneAstray,
         NEW p \in Producers, ProducerStep(p)
  PROVE  NoneAstray'
  <1>1. p \in Threads /\ loc[p] \in Locals /\ ProducerOK(pc[p], loc[p]) /\ TailIsLast(p)
    BY DEF TypeInv, ThreadsOK, Threads, NoneAstray
  <1>2. ASSUME NEW l, NEW r, Goto(p, l, r) PROVE pc'[p] = l /\ loc'[p] = r
    BY <1>1, <1>2, GotoOthers DEF TypeInv
  <1> SUFFICES ~astray' /\ TailIsLast(p)'
    BY DEF NoneAstray, OneProducer
  <1>3. m_tail.tag \in Nat /\ Len(pushed) \in Nat /\ pushed \in Seq(Items) /\ QueueShape(q)
    BY ShapeTypes DEF TypeInv, SharedOK, Shape
  <1>4. CASE \/ \E i \in Items : Emplace(p, i)
             \/ AllocFresh(p) \/ AllocRead(p) \/ AllocCas(p) \/ Construct(p) \/ PushSize(p)
    <2>1. UNCHANGED <<m_tail, pushed, astray>> /\ pc[p] # "push_swing"
      BY <1>4 DEF Emplace, AllocFresh, AllocRead, AllocCas, Construct, PushSize, history
    <2>2. \E r : \/ Goto(p, "alloc", r) \/ Goto(p, "construct", r) \/ Goto(p, "alloc_cas", r)
                 \/ Goto(p, "push_tail", r) \/ Goto(p, "idle", r)
      BY <1>4, Zenon DEF Emplace, AllocFresh, AllocRead, AllocCas, Construct, PushSize, Return
    <2>3. pc'[p] \notin Linking
      BY <1>2, <2>2 DEF Linking
    <2> QED
      BY <1>1, <2>1, <2>3 DEF TailIsLast, Linking, NoneAstray
  <1>5. CASE PushLoadTail(p)
    <2> DEFINE r == [loc[p] EXCEPT !.tail = m_tail]
    <2>1. /\ UNCHANGED <<m_tail, pushed, astray>> /\ pc[p] = "push_tail"
          /\ Goto(p, "push_next", r)
      BY <1>5 DEF PushLoadTail, history
    <2>2. r.tail = m_tail
      BY <1>1 DEF Locals
    <2> HIDE DEF r
    <2> QED
      BY <1>1, <1>2, <2>1, <2>2 DEF TailIsLast, Linking, NoneAstray
  <1>6. CASE PushLoadNext(p)
    <2> DEFINE next == mem[loc[p].tail.ptr].next
               l == IF next.ptr = NULL THEN "push_link" ELSE "push_help"
               r == [loc[p] EXCEPT !.next = next]
    <2>1. /\ UNCHANGED <<m_tail, pushed, astray>> /\ pc[p] = "push_next"
          /\ Goto(p, l, r)
      BY <1>6 DEF PushLoadNext, history
    <2>2. r.tail = loc[p].tail /\ l \in {"push_link", "push_help"}
      BY <1>1 DEF Locals
    <2> HIDE DEF l, r
    <2> QED
      BY <1>1, <1>2, <2>1, <2>2 DEF TailIsLast, Linking, NoneAstray
  <1>7. ASSUME UNCHANGED <<m_tail, pushed, astray>>, pc[p] # "push_swing", PushRetry(p)
        PROVE  ~astray' /\ TailIsLast(p)'
    <2>1. pc'[p] = "push_tail"
      BY <1>2, <1>7 DEF PushRetry
    <2> QED
      BY <1>1, <1>7, <2>1 DEF TailIsLast, Linking, NoneAstray
  <1>8. CASE PushLink(p)
    <2>1. CASE mem[loc[p].tail.ptr].next = loc[p].next
      <3> DEFINE r == [loc[p] EXCEPT !.item = NoItem]
      <3>1. /\ pc[p] = "push_link" /\ m_tail' = m_tail /\ Goto(p, "push_swing", r)
            /\ RecordLink(loc[p].tail.ptr, loc[p].item)
        BY <1>8, <2>1 DEF PushLink
      <3>2. r.tail = loc[p].tail /\ loc[p].item \in Items
        BY <1>1, <3>1 DEF Locals, ProducerOK, Emplacing
      <3> HIDE DEF r
      <3>3. loc[p].tail = m_tail /\ m_tail.tag = Len(pushed)
        BY <1>1, <3>1 DEF TailIsLast, Linking
      <3>4. m_tail.ptr \in ListFrom(m_head.ptr)
        <4>1. m_tail.tag \in Live /\ m_tail.ptr = q[m_tail.tag] /\ m_tail.ptr \in Nodes
          BY <1>3, ShapeTypes DEF QueueShape
        <4> QED
          BY <1>3, <4>1, QueueList DEF InQueue
      <3>5. pushed' = Append(pushed, loc[p].item) /\ ~astray'
        BY <3>1, <3>3, <3>4 DEF RecordLink, NoneAstray
      <3>6. Len(pushed') = Len(pushed) + 1
        BY <1>3, <3>2, <3>5
      <3> QED
        BY <1>2, <3>1, <3>2, <3>3, <3>5, <3>6 DEF TailIsLast, Linking
    <2>2. CASE mem[loc[p].tail.ptr].next # loc[p].next
      BY <1>7, <1>8, <2>2 DEF PushLink, history
    <2> QED
      BY <2>1, <2>2
  <1>9. CASE PushSwing(p)
    <2>1. /\ UNCHANGED <<pushed, astray>> /\ pc[p] = "push_swing" /\ pc'[p] = "push_size"
          /\ SwingTail(loc[p].tail, loc[p].node)
      BY <1>2, <1>9 DEF PushSwing, history
    <2>2. m_tail = loc[p].tail => mem[m_tail.ptr].next.ptr = loc[p].node /\ loc[p].node # NULL
      BY <1>1, <2>1 DEF Shape, ThreadsFit, ProducerFits, ProducerOK
    <2>3. \/ m_tail' = m_tail /\ m_tail # loc[p].tail
          \/ m_tail'.tag = Len(pushed)
      BY <1>1, <1>3, <2>1, <2>2, SwungToLast
    <2> QED
      BY <1>1, <2>1, <2>3 DEF TailIsLast, Linking, NoneAstray
  <1>10. CASE PushHelp(p)
    <2>1. /\ UNCHANGED <<pushed, astray>> /\ pc[p] = "push_help" /\ PushRetry(p)
          /\ SwingTail(loc[p].tail, loc[p].next.ptr)
      BY <1>10 DEF PushHelp, history
    <2>2. m_tail = loc[p].tail => /\ mem[m_tail.ptr].next.ptr = loc[p].next.ptr
                                  /\ loc[p].next.ptr # NULL
      BY <1>1, <2>1 DEF Shape, ThreadsFit, ProducerFits, ProducerOK
    <2>3. m_tail' = m_tail
      BY <1>1, <1>3, <2>1, <2>2, SwungToLast
    <2> QED
      BY <1>7, <2>1, <2>3
  <1> QED
    BY <1>4, <1>5, <1>6, <1>8, <1>9, <1>10 DEF ProducerStep

\* The steps of a consumer, which helps with m_tail (lockfree_queue.h:46-94).
LEMMA OneProducerOthers ==
  ASSUME NoWrap, TypeInv, ItemInv, NEW q, NEW f, NEW m, Shape(q, f, m), NoneAstray,
         NEW c \in Consumers, ConsumerStep(c)
  PROVE  NoneAstray'
  <1>1. c \in Threads /\ c \notin Producers /\ ConsumerOK(pc[c], loc[c])
    BY DEF TypeInv, ThreadsOK, Threads
  <1>2. ASSUME NEW l, NEW r, Goto(c, l, r), NEW p \in Producers
        PROVE  pc'[p] = pc[p] /\ loc'[p] = loc[p]
    <2>1. p \in Threads \ {c}
      BY <1>1 DEF Threads
    <2> QED
      BY <1>1, <1>2, <2>1, GotoOthers DEF TypeInv
  <1>3. \A p \in Producers : TailIsLast(p)
    BY DEF NoneAstray
  <1>4. ASSUME UNCHANGED <<m_tail, pushed, astray>>, NEW l, NEW r, Goto(c, l, r)
        PROVE  NoneAstray'
    BY <1>2, <1>3, <1>4 DEF TailIsLast, NoneAstray
  <1>5. CASE PopHelp(c)
    <2>1. /\ UNCHANGED <<pushed, astray>> /\ pc[c] = "pop_help" /\ Goto(c, "pop_head", NoLocals)
          /\ SwingTail(loc[c].tail, loc[c].next.ptr)
      BY <1>5 DEF PopHelp, history
    <2>2. m_tail = loc[c].tail => /\ mem[m_tail.ptr].next.ptr = loc[c].next.ptr
                                  /\ loc[c].next.ptr # NULL
      BY <1>1, <2>1 DEF Shape, ThreadsFit, ConsumerFits, ConsumerOK, Taking
    <2>3. ASSUME NEW p \in Producers PROVE TailIsLast(p)'
      <3>1. pc'[p] = pc[p] /\ loc'[p] = loc[p] /\ TailIsLast(p)
        BY <1>2, <1>3, <2>1
      <3>2. m_tail' = m_tail \/ (pc[p] = "push_swing" /\ m_tail'.tag = Len(pushed))
        BY <2>1, <2>2, <3>1, SwungToLast DEF Shape
      <3> QED
        BY <2>1, <3>1, <3>2 DEF TailIsLast
    <2> QED
      BY <2>1, <2>3 DEF NoneAstray
  <1>6. CASE PopLoadNext(c)
    <2>1. UNCHANGED <<m_tail, pushed, astray>> /\ \E l, r : Goto(c, l, r)
      BY <1>6 DEF PopLoadNext, Return, history
    <2> QED
      BY <1>4, <2>1
  <1>7. CASE PopLoadHead(c) \/ PopLoadTail(c) \/ PopRead(c)
    BY <1>4, <1>7 DEF PopLoadHead, PopLoadTail, PopRead, history
  <1>8. CASE PopCas(c)
    BY <1>4, <1>8 DEF PopCas
  <1>9. CASE FreeLoad(c) \/ FreeLink(c) \/ FreeCas(c) \/ PopSize(c)
    BY <1>4, <1>9 DEF FreeLoad, FreeLink, FreeCas, PopSize, Return, history
  <1> QED
    BY <1>5, <1>6, <1>7, <1>8, <1>9 DEF ConsumerStep

\* With one producer no push goes astray, so that the queue is first in first out
\* without any condition: the consumers move m_tail only to the node which the push
\* under way has linked (lockfree_queue.h:67-70, 96-128).
THEOREM OneProducerOrder ==
  ASSUME NoWrap, OneProducer
  PROVE  Spec => [](~astray /\ QueueIsFifo)
  <1>1. Init => NoneAstray
    <2> SUFFICES ASSUME Init PROVE NoneAstray
      OBVIOUS
    <2>1. ~astray /\ m_tail.tag = 0 /\ Len(pushed) = 0 /\ \A p \in Producers : pc[p] = "idle"
      BY DEF Init, Tagged, Threads
    <2> QED
      BY <2>1 DEF NoneAstray, TailIsLast, Linking
  <1>2. QueueInv /\ NoneAstray /\ [Next]_vars => NoneAstray'
    <2> SUFFICES ASSUME QueueInv, NoneAstray, [Next]_vars PROVE NoneAstray'
      OBVIOUS
    <2>1. PICK q, f, m : Shape(q, f, m)
      BY DEF QueueInv, ShapeInv, NoneAstray
    <2>2. ASSUME NEW p \in Producers, ProducerStep(p) PROVE NoneAstray'
      BY <2>1, <2>2, OneProducerStep DEF QueueInv
    <2>3. ASSUME NEW c \in Consumers, ConsumerStep(c) PROVE NoneAstray'
      BY <2>1, <2>3, OneProducerOthers DEF QueueInv
    <2>4. ASSUME NEW t \in Threads, SpuriousFail(t) PROVE NoneAstray'
      <3>1. PICK l, r : Goto(t, l, r)
        BY <2>4 DEF SpuriousFail, PushRetry
      <3>2. /\ pc'[t] = l /\ loc'[t] = r
            /\ \A u \in Threads \ {t} : pc'[u] = pc[u] /\ loc'[u] = loc[u]
        BY <3>1, GotoOthers DEF QueueInv, TypeInv
      <3>3. pc[t] # "push_swing" /\ pc'[t] \notin Linking /\ UNCHANGED <<m_tail, pushed, astray>>
        BY <2>4, <3>1, <3>2 DEF SpuriousFail, PushRetry, Goto, history, Linking, QueueInv,
             TypeInv, ThreadsOK
      <3> QED
        BY <3>2, <3>3 DEF NoneAstray, TailIsLast, Linking, Threads
    <2>5. CASE UNCHANGED vars
      BY <2>5 DEF vars, history, NoneAstray, TailIsLast
    <2> QED
      BY <2>2, <2>3, <2>4, <2>5 DEF Next
  <1>3. NoneAstray => ~astray
    BY DEF NoneAstray
  <1> QED
    BY <1>1, <1>2, <1>3, QueueInvInductive, QueueOrder, PTL DEF Spec

=============================================================================
