-------------------------------- MODULE Event --------------------------------
(***************************************************************************)
(* wish::event of core/threadpool/event.h, an auto-reset event, in the     *)
(* only use the repository makes of it: writers put an item into a queue   *)
(* and set the event, readers wait for it with a time limit and, when the  *)
(* wait says so, empty the queue (test/test_core/test_thread_lockfree.cpp).*)
(*                                                                         *)
(* set() holds the mutex throughout and is one step; wait() is one step up *)
(* to wait_for, which releases the mutex, and one after it.  The queue is  *)
(* a set: which item a pop returns makes no difference here.               *)
(***************************************************************************)
EXTENDS Naturals, FiniteSets

CONSTANTS Writers, Readers, Rounds

ASSUME EventAssumption == /\ Writers \cap Readers = {} /\ IsFiniteSet(Readers)
                          /\ Rounds \in Nat \ {0}

VARIABLES
  m_setted,  \* the flag
  ev_writer, \* what each writer does next
  ev_round,  \* items each writer has emplaced
  ev_reader, \* where each reader is
  ev_queue   \* the items in the queue: a writer and its round

evVars == <<m_setted, ev_writer, ev_round, ev_reader, ev_queue>>

EventInit == /\ m_setted = FALSE
             /\ ev_writer = [w \in Writers |-> "emplace"]
             /\ ev_round = [w \in Writers |-> 0]
             /\ ev_reader = [r \in Readers |-> "idle"]
             /\ ev_queue = {}

-----------------------------------------------------------------------------
(* The writers. *)

EventEmplace(w) ==
  /\ ev_writer[w] = "emplace" /\ ev_round[w] < Rounds
  /\ ev_round' = [ev_round EXCEPT ![w] = @ + 1]
  /\ ev_queue' = ev_queue \cup {<<w, ev_round[w]>>}
  /\ ev_writer' = [ev_writer EXCEPT ![w] = "set"]
  /\ UNCHANGED <<m_setted, ev_reader>>

\* notify_one wakes one reader that is blocked in wait_for, if there is one.
NotifyOne ==
  LET blocked == {r \in Readers : ev_reader[r] = "blocked"}
  IN  IF blocked = {} THEN UNCHANGED ev_reader
      ELSE \E r \in blocked : ev_reader' = [ev_reader EXCEPT ![r] = "notified"]

Set(w) ==
  /\ ev_writer[w] = "set"
  /\ m_setted' = TRUE
  /\ NotifyOne
  /\ ev_writer' = [ev_writer EXCEPT ![w] = "emplace"]
  /\ UNCHANGED <<ev_round, ev_queue>>

-----------------------------------------------------------------------------
(* The readers. *)

Reader(r, from, to) == ev_reader[r] = from /\ ev_reader' = [ev_reader EXCEPT ![r] = to]

\* Mutant: wait looks at the flag only after it was woken.
Wait_Blocks(r) ==
  /\ Reader(r, "idle", "blocked")
  /\ UNCHANGED <<m_setted, ev_writer, ev_round, ev_queue>>

\* wait() up to wait_for: an event that is set is consumed at once.
Wait(r) ==
  /\ Reader(r, "idle", IF m_setted THEN "drain" ELSE "blocked")
  /\ m_setted' = FALSE
  /\ UNCHANGED <<ev_writer, ev_round, ev_queue>>

\* wait_for gives up, or returns without a cause.
TimeOut(r) ==
  /\ Reader(r, "blocked", "expired")
  /\ UNCHANGED <<m_setted, ev_writer, ev_round, ev_queue>>

SpuriousWakeup(r) ==
  /\ Reader(r, "blocked", "notified")
  /\ UNCHANGED <<m_setted, ev_writer, ev_round, ev_queue>>

\* no_timeout: the event is consumed whether it is still set or not.
Notified(r) ==
  /\ Reader(r, "notified", "drain")
  /\ m_setted' = FALSE
  /\ UNCHANGED <<ev_writer, ev_round, ev_queue>>

\* Mutant: a wait that gave up clears the flag and says no.
Expired_Clears(r) ==
  /\ Reader(r, "expired", "idle")
  /\ m_setted' = FALSE
  /\ UNCHANGED <<ev_writer, ev_round, ev_queue>>

\* timeout: the flag decides.
Expired(r) ==
  /\ Reader(r, "expired", IF m_setted THEN "drain" ELSE "idle")
  /\ m_setted' = FALSE
  /\ UNCHANGED <<ev_writer, ev_round, ev_queue>>

\* The reader's loop over pop_front, until the queue is empty.
Drain(r) ==
  /\ \/ /\ ev_queue = {}
        /\ Reader(r, "drain", "idle")
        /\ UNCHANGED ev_queue
     \/ \E x \in ev_queue : /\ Reader(r, "drain", "drain")
                            /\ ev_queue' = ev_queue \ {x}
  /\ UNCHANGED <<m_setted, ev_writer, ev_round>>

-----------------------------------------------------------------------------
WriterStep(w) == EventEmplace(w) \/ Set(w)
ReaderStep(r) == Wait(r) \/ Notified(r) \/ Expired(r) \/ Drain(r)

EventNext == \/ \E w \in Writers : WriterStep(w)
             \/ \E r \in Readers : ReaderStep(r) \/ TimeOut(r) \/ SpuriousWakeup(r)

\* Threads are scheduled; nothing is assumed of the clock and of spurious wakeups.
EventFairness == /\ \A w \in Writers : WF_evVars(WriterStep(w))
                 /\ \A r \in Readers : WF_evVars(ReaderStep(r))

EventSpec == EventInit /\ [][EventNext]_evVars /\ EventFairness

-----------------------------------------------------------------------------
(* Correctness. *)

\* Items whose writer has returned from set().
Announced == {x \in ev_queue : ~(ev_writer[x[1]] = "set" /\ ev_round[x[1]] = x[2] + 1)}

\* No event is lost: while an announced item is in the queue, the flag is set or
\* a reader is on its way to empty the queue: a reader that was notified counts,
\* although another may have consumed the flag before it (event.h:24-43).
NoLostEvent ==
  Announced # {} => m_setted \/ \E r \in Readers : ev_reader[r] \in {"notified", "drain"}

\* Every item that is announced leaves the queue, although a wait that gives up
\* answers false and its reader does not look at the queue (event.h:35-43).
AnnouncedIsPopped ==
  \A w \in Writers, n \in 0 .. Rounds - 1 :
    (<<w, n>> \in Announced) ~> (<<w, n>> \notin ev_queue)
=============================================================================
