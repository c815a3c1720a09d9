------------------------------ MODULE Session ------------------------------
(***************************************************************************)
(* The parts that tcp::client and tcp::server share: the session objects   *)
(* of net/transport/session.h and tcp/session.h, the map that owns them    *)
(* (session_pool.h) and the one thread that runs the handlers of the       *)
(* io_context.                                                             *)
(*                                                                         *)
(* A handler is several steps, because the thread that owns the client or  *)
(* the server runs in between.  Handlers capture the session as a raw      *)
(* this; the session lives as long as a shared_ptr to it does: in the map, *)
(* in the handler of a pending connect or accept, or in a local variable   *)
(* of one of the two threads.  Destroying the session closes its socket,   *)
(* which completes an outstanding read with an error.                      *)
(*                                                                         *)
(* The callbacks are virtual functions of the client or server that owns   *)
(* the session.  Once the destructor of the class that overrides them has  *)
(* run, a callback is the one of the base class: an empty function for all *)
(* of them but on_receive, which is pure, so that the call terminates the  *)
(* process (net/transport/matrix.h).                                       *)
(*                                                                         *)
(* The sanitizer the project is built with ends the process at the first   *)
(* access to a destroyed session; crash says why the process ended.        *)
(***************************************************************************)
EXTENDS Naturals, FiniteSets

CONSTANT MaxSessions  \* sessions ever created: bounds m_sequence_id

ASSUME MaxSessionsAssumption == MaxSessions \in Nat \ {0}

Ids == 0 .. MaxSessions - 1
None == MaxSessions                    \* no session

link_status == {"Invalid", "Connected", "Broken", "Connectfail"}
Threads == {"io", "owner"}

VARIABLES
  m_sequence_id,  \* the next session id
  m_objects,      \* session_pool's map: the ids of the sessions it holds
  m_status,       \* tcp::session::m_status
  m_stopped,      \* session::m_stopped
  captured,       \* sessions that a pending connect or accept handler holds
  held,           \* the session a thread's local shared_ptr holds
  read,           \* the outstanding async_read_some and its result
  write,          \* the send_msg under way: posted to the strand, being written
  peer,           \* the remote end: not there, open, closed
  m_context,      \* the thread in which io_context::run() runs
  io,             \* where that thread is, and the session it works for
  crash           \* why the process ended

sessionVars == <<m_sequence_id, m_objects, m_status, m_stopped, captured, held,
                 read, write, peer, m_context, io, crash>>

\* The parts of the state that handlers leave alone.
poolVars == <<m_sequence_id, m_objects, captured, m_context>>

SessionTypeOK ==
  /\ m_sequence_id \in 0 .. MaxSessions /\ m_objects \subseteq Ids
  /\ m_status \in [Ids -> link_status] /\ m_stopped \in [Ids -> BOOLEAN]
  /\ captured \subseteq Ids /\ held \in [Threads -> Ids \cup {None}]
  /\ read \in [Ids -> {"none", "waiting", "data", "eof"}]
  /\ write \in [Ids -> {"none", "posted", "writing"}]
  /\ peer \in [Ids -> {"none", "open", "closed"}]
  /\ m_context \in {"none", "running", "stopping", "exited", "joined"}
  /\ io \in [at : {"idle", "on_recv_msg", "on_recv_error", "recheck", "on_connect",
                   "on_connect_fail", "add_object", "find", "disconnect", "del_object",
                   "store", "notify"},
             sid : Ids \cup {None}]
  /\ crash \in {"none", "assert", "terminate", "use-after-free", "end-iterator"}

SessionInit ==
  /\ m_sequence_id = 0 /\ m_objects = {}
  /\ m_status = [id \in Ids |-> "Invalid"] /\ m_stopped = [id \in Ids |-> FALSE]
  /\ captured = {} /\ held = [t \in Threads |-> None]
  /\ read = [id \in Ids |-> "none"]
  /\ write = [id \in Ids |-> "none"] /\ peer = [id \in Ids |-> "none"]
  /\ m_context = "none" /\ io = [at |-> "idle", sid |-> None] /\ crash = "none"

-----------------------------------------------------------------------------
(* Lifetime. *)

\* Mutant: the map holds weak references.
Alive_WeakMap(id) == id \in captured \/ \E t \in Threads : held[t] = id

\* Some shared_ptr holds the session.
Alive(id) == \/ id \in m_objects \cup captured
             \/ \E t \in Threads : held[t] = id

IoIdle == [at |-> "idle", sid |-> None]
IoAt(where, id) == [at |-> where, sid |-> id]

\* The thread of the io_context takes its next handler: run() is under way.
IoFree == crash = "none" /\ m_context = "running" /\ io.at = "idle"
IoIn(where) == crash = "none" /\ io.at = where

\* The sanitizer stops the process.
UseAfterFree == /\ crash' = "use-after-free"
                /\ UNCHANGED <<poolVars, m_status, m_stopped, held, read, write, peer, io>>

-----------------------------------------------------------------------------
(* The receive loop, run by the thread of the io_context. *)

\* What the next async_read_some of a session finds.
Armed(id) == IF peer[id] = "closed" THEN "eof" ELSE "waiting"

\* The read has completed; a destroyed session's read completes as aborted.
ReadReady(id) == \/ read[id] \in {"data", "eof"}
                 \/ read[id] = "waiting" /\ ~Alive(id)

\* The handler of do_recv_msg, up to the callback.
HandleRead(id) ==
  /\ IoFree /\ ReadReady(id)
  /\ IF Alive(id)
       THEN /\ read' = [read EXCEPT ![id] = "none"]
            /\ io' = IF m_stopped[id] THEN IoIdle
                     ELSE IoAt(IF read[id] = "eof" THEN "on_recv_error" ELSE "on_recv_msg", id)
            /\ UNCHANGED <<poolVars, m_status, m_stopped, held, write, peer, crash>>
       ELSE UseAfterFree

\* on_recv_msg: the application's on_receive, or the pure virtual function when the
\* object that overrides it is destroyed.
OnRecvMsg(destroyed) ==
  /\ IoIn("on_recv_msg")
  /\ IF destroyed THEN crash' = "terminate" /\ UNCHANGED io
                  ELSE io' = IoAt("recheck", io.sid) /\ UNCHANGED crash
  /\ UNCHANGED <<poolVars, m_status, m_stopped, held, read, write, peer>>

\* Mutant: after an error the loop is not continued.
Rearm_NotAfterError == /\ IoIn("recheck")
                       /\ IF Alive(io.sid)
                            THEN /\ read' = IF m_stopped[io.sid] \/ peer[io.sid] = "closed" THEN read
                                            ELSE [read EXCEPT ![io.sid] = Armed(io.sid)]
                                 /\ io' = IoIdle
                                 /\ UNCHANGED <<poolVars, m_status, m_stopped, held, write, peer, crash>>
                            ELSE UseAfterFree

\* The end of the handler: read again unless the session was stopped meanwhile.
Rearm == /\ IoIn("recheck")
         /\ IF Alive(io.sid)
              THEN /\ read' = IF m_stopped[io.sid] THEN read
                              ELSE [read EXCEPT ![io.sid] = Armed(io.sid)]
                   /\ io' = IoIdle
                   /\ UNCHANGED <<poolVars, m_status, m_stopped, held, write, peer, crash>>
              ELSE UseAfterFree

-----------------------------------------------------------------------------
(* send_msg.  At most one message of a session is under way (a bound). *)

\* The dispatched do_send_msg: the write begins.
DoSendMsg(id) ==
  /\ IoFree /\ write[id] = "posted"
  /\ IF Alive(id)
       THEN /\ write' = [write EXCEPT ![id] = "writing"]
            /\ UNCHANGED <<poolVars, m_status, m_stopped, held, read, peer, io, crash>>
       ELSE UseAfterFree

\* The handler of async_write: on_send_msg or on_send_error.
HandleWrite(id) ==
  /\ IoFree /\ write[id] = "writing"
  /\ IF Alive(id)
       THEN /\ write' = [write EXCEPT ![id] = "none"]
            /\ UNCHANGED <<poolVars, m_status, m_stopped, held, read, peer, io, crash>>
       ELSE UseAfterFree

-----------------------------------------------------------------------------
(* The remote end of a connection. *)

PeerSends(id) ==
  /\ crash = "none" /\ peer[id] = "open" /\ read[id] = "waiting" /\ Alive(id)
  /\ read' = [read EXCEPT ![id] = "data"]
  /\ UNCHANGED <<poolVars, m_status, m_stopped, held, write, peer, io, crash>>

PeerCloses(id) ==
  /\ crash = "none" /\ peer[id] = "open"
  /\ peer' = [peer EXCEPT ![id] = "closed"]
  /\ read' = IF read[id] = "waiting" /\ Alive(id) THEN [read EXCEPT ![id] = "eof"] ELSE read
  /\ UNCHANGED <<poolVars, m_status, m_stopped, held, write, io, crash>>

-----------------------------------------------------------------------------
(* Operations of tcp::session that both ends call. *)

\* connect(): the status, then start(), which arms the first read at once.
ConnectSession(id) ==
  /\ m_status' = [m_status EXCEPT ![id] = "Connected"]
  /\ read' = [read EXCEPT ![id] = Armed(id)]

\* disconnect(): the status, then stop().
DisconnectSession(id) ==
  /\ m_status' = [m_status EXCEPT ![id] = "Broken"]
  /\ m_stopped' = [m_stopped EXCEPT ![id] = TRUE]

is_connected(id) == m_status[id] = "Connected"

\* Work that keeps io_context::run() from returning.
Outstanding == \/ captured # {}
               \/ \E id \in Ids : read[id] # "none" \/ write[id] # "none"

\* io_context::run() returns when nothing is left to wait for; the thread ends
\* but can still be joined.
IoExit == /\ IoFree /\ ~Outstanding
          /\ m_context' = "exited"
          /\ UNCHANGED <<m_sequence_id, m_objects, captured, m_status, m_stopped, held,
                         read, write, peer, io, crash>>

\* The handlers and the network.
SessionNext(destroyed) ==
  \/ OnRecvMsg(destroyed) \/ Rearm \/ IoExit
  \/ \E id \in Ids : \/ HandleRead(id) \/ DoSendMsg(id) \/ HandleWrite(id)
                      \/ PeerSends(id) \/ PeerCloses(id)
=============================================================================
