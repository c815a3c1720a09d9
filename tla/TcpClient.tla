----------------------------- MODULE TcpClient -----------------------------
(***************************************************************************)
(* tcp::client (net/transport/tcp/client.h) as easy_tcp::client uses it    *)
(* (net/app/easy_tcp/client.h): an owner thread that connects, sends,      *)
(* shuts down and destroys the client, and the thread of the io_context    *)
(* that runs the handlers of Session.                                      *)
(*                                                                         *)
(* m_mtx is held by the owner from the start of sync_connect until it      *)
(* waits, and by a callback for the moment of notify_all, which is one     *)
(* step here.  The derived object is gone once the destructor has begun: a *)
(* callback after that is the one of tcp::matrix.                          *)
(***************************************************************************)
EXTENDS Session

VARIABLES
  conn,           \* the outstanding async_connect of a session and its result
  m_session_ref,  \* the weak_ptr to the current session
  owner,          \* where the owner thread is
  destroying,     \* the destructor has begun
  notified,       \* m_cv was notified while the owner waited
  result          \* what the last sync_connect returned

clientVars == <<conn, m_session_ref, owner, destroying, notified, result>>
vars == <<sessionVars, clientVars>>

TypeOK ==
  /\ SessionTypeOK
  /\ conn \in [Ids -> {"none", "pending", "ok", "refused"}]
  /\ m_session_ref \in Ids \cup {None}
  /\ owner \in {"idle", "connecting", "started", "waiting", "on_disconnect", "request",
                "sent", "awaiting", "~client", "~session_pool", "joining", "gone"}
  /\ destroying \in BOOLEAN /\ notified \in BOOLEAN
  /\ result \in {"none", "true", "false", "thrown"}

Init == /\ SessionInit
        /\ conn = [id \in Ids |-> "none"] /\ m_session_ref = None /\ owner = "idle"
        /\ destroying = FALSE /\ notified = FALSE /\ result = "none"

Owner(where) == crash = "none" /\ owner = where

\* The owner holds m_mtx, or waits on m_cv: in sync_connect, or in a request of
\* http::client ("sent", "awaiting").
Locked == owner \in {"connecting", "started", "sent"}
Waits == owner \in {"waiting", "awaiting"}

Crash(why) == /\ crash' = why
              /\ UNCHANGED <<poolVars, m_status, m_stopped, held, read, write, peer, io,
                             clientVars>>

-----------------------------------------------------------------------------
(* The owner thread. *)

\* add_object() of the pool: a fresh id, the object goes into the map.
AddObject == /\ m_sequence_id' = m_sequence_id + 1
             /\ m_objects' = m_objects \cup {m_sequence_id}
             /\ m_session_ref' = m_sequence_id

\* sync_connect up to async_connect, under m_mtx.
Connect ==
  /\ Owner("idle") /\ m_sequence_id < MaxSessions
  /\ AddObject
  /\ captured' = captured \cup {m_sequence_id}
  /\ conn' = [conn EXCEPT ![m_sequence_id] = "pending"]
  /\ owner' = "connecting"
  /\ UNCHANGED <<m_status, m_stopped, held, read, write, peer, m_context, io, crash,
                 destroying, notified, result>>

\* The resolver throws: the object stays in the map and no thread is started.
ResolveThrows ==
  /\ Owner("idle") /\ m_sequence_id < MaxSessions
  /\ AddObject
  /\ result' = "thrown"
  /\ UNCHANGED <<captured, m_status, m_stopped, held, read, write, peer, m_context, io,
                 crash, conn, owner, destroying, notified>>

\* run(): assigning to a thread that can still be joined terminates the process.
Run ==
  /\ Owner("connecting")
  /\ IF m_context = "none"
       THEN /\ m_context' = "running" /\ owner' = "started"
            /\ UNCHANGED <<m_sequence_id, m_objects, captured, m_status, m_stopped, held,
                           read, write, peer, io, crash, conn, m_session_ref, destroying,
                           notified, result>>
       ELSE Crash("terminate")

\* wait_for releases m_mtx.
WaitFor == /\ Owner("started")
           /\ owner' = "waiting" /\ notified' = FALSE
           /\ UNCHANGED <<sessionVars, conn, m_session_ref, destroying, result>>

\* sync_connect looks at the session, whatever woke it.
Answer == /\ result' = IF m_session_ref # None /\ Alive(m_session_ref)
                            /\ is_connected(m_session_ref)
                         THEN "true" ELSE "false"
          /\ owner' = "idle"
          /\ UNCHANGED <<sessionVars, conn, m_session_ref, destroying, notified>>

Woken == Owner("waiting") /\ notified /\ Answer

\* The time is up, or the wait ends without cause.
TimeOut == Owner("waiting") /\ ~notified /\ Answer

\* send_msg on a live, connected session.
SendMsg ==
  /\ Owner("idle") /\ m_session_ref # None /\ Alive(m_session_ref)
  /\ is_connected(m_session_ref) /\ write[m_session_ref] = "none"
  /\ write' = [write EXCEPT ![m_session_ref] = "posted"]
  /\ UNCHANGED <<poolVars, m_status, m_stopped, held, read, peer, io, crash, clientVars>>

\* Mutant: shutdown() also deletes the session, as the server does.
Disconnect_DelObject ==
  /\ m_session_ref # None /\ Alive(m_session_ref) /\ is_connected(m_session_ref)
  /\ DisconnectSession(m_session_ref)
  /\ held' = [held EXCEPT !["owner"] = m_session_ref]
  /\ m_objects' = m_objects \ {m_session_ref}
  /\ owner' = "on_disconnect"
  /\ UNCHANGED <<m_sequence_id, captured, m_context, read, write, peer, io, crash, conn,
                 m_session_ref, destroying, notified, result>>

\* shutdown() on a live session that is connected, up to on_disconnect.
Disconnect ==
  /\ m_session_ref # None /\ Alive(m_session_ref) /\ is_connected(m_session_ref)
  /\ DisconnectSession(m_session_ref)
  /\ held' = [held EXCEPT !["owner"] = m_session_ref]
  /\ owner' = "on_disconnect"
  /\ UNCHANGED <<poolVars, read, write, peer, io, crash, conn, m_session_ref,
                 destroying, notified, result>>

\* Mutant: the assertion demands a connection.
AssertSession_Connected ==
  /\ IF m_session_ref = None THEN TRUE ELSE ~is_connected(m_session_ref)
  /\ Crash("assert")

\* shutdown() asserts that the weak_ptr can be locked.
AssertSession == /\ m_session_ref = None \/ ~Alive(m_session_ref)
                 /\ Crash("assert")

Shutdown == Owner("idle") /\ (Disconnect \/ AssertSession)

\* on_disconnect of the application; the local shared_ptr goes away.
OnDisconnect ==
  /\ Owner("on_disconnect")
  /\ held' = [held EXCEPT !["owner"] = None]
  /\ owner' = IF destroying THEN "~session_pool" ELSE "idle"
  /\ UNCHANGED <<poolVars, m_status, m_stopped, read, write, peer, io, crash, conn,
                 m_session_ref, destroying, notified, result>>

\* The destructors of the derived classes.
Destroy == /\ Owner("idle")
           /\ owner' = "~client" /\ destroying' = TRUE
           /\ UNCHANGED <<sessionVars, conn, m_session_ref, notified, result>>

\* ~client calls shutdown().
DestroyClient ==
  /\ Owner("~client")
  /\ \/ Disconnect \/ AssertSession
     \/ /\ m_session_ref # None /\ Alive(m_session_ref) /\ ~is_connected(m_session_ref)
        /\ owner' = "~session_pool"
        /\ UNCHANGED <<sessionVars, conn, m_session_ref, destroying, notified, result>>

\* Mutant: the destructor joins without stopping the io_context.
StopContext_Forgotten ==
  /\ Owner("~session_pool") /\ owner' = "joining"
  /\ UNCHANGED <<sessionVars, conn, m_session_ref, destroying, notified, result>>

\* ~session_pool: the io_context takes no further handler.
StopContext ==
  /\ Owner("~session_pool")
  /\ m_context' = IF m_context = "running" THEN "stopping" ELSE m_context
  /\ owner' = "joining"
  /\ UNCHANGED <<m_sequence_id, m_objects, captured, m_status, m_stopped, held, read, write,
                 peer, io, crash, conn, m_session_ref, destroying, notified, result>>

\* join(), then the members: the map, and the io_context with its handlers.
Join ==
  /\ Owner("joining")
  /\ \/ m_context = "none" /\ Crash("terminate")
     \/ /\ m_context \in {"stopping", "exited"} /\ io.at = "idle"
        /\ m_context' = "joined" /\ owner' = "gone"
        /\ m_objects' = {} /\ captured' = {}
        /\ read' = [id \in Ids |-> "none"] /\ write' = [id \in Ids |-> "none"]
        /\ conn' = [id \in Ids |-> "none"]
        /\ UNCHANGED <<m_sequence_id, m_status, m_stopped, held, peer, io, crash,
                       m_session_ref, destroying, notified, result>>

-----------------------------------------------------------------------------
(* The network and the thread of the io_context. *)

\* The kernel completes the connection attempt, one way or the other.
Accepted(id) == /\ crash = "none" /\ conn[id] = "pending"
                /\ conn' = [conn EXCEPT ![id] = "ok"] /\ peer' = [peer EXCEPT ![id] = "open"]
                /\ UNCHANGED <<poolVars, m_status, m_stopped, held, read, write, io, crash,
                               m_session_ref, owner, destroying, notified, result>>

Refused(id) == /\ crash = "none" /\ conn[id] = "pending"
               /\ conn' = [conn EXCEPT ![id] = "refused"]
               /\ UNCHANGED <<sessionVars, m_session_ref, owner, destroying, notified, result>>

\* The handler of async_connect up to the callback.
HandleConnect(id) ==
  /\ IoFree /\ conn[id] \in {"ok", "refused"}
  /\ conn' = [conn EXCEPT ![id] = "none"]
  /\ IF conn[id] = "ok"
       THEN ConnectSession(id) /\ io' = IoAt("on_connect", id)
       ELSE /\ m_status' = [m_status EXCEPT ![id] = "Connectfail"]
            /\ io' = IoAt("on_connect_fail", id) /\ UNCHANGED read
  /\ UNCHANGED <<poolVars, m_stopped, held, write, peer, crash, m_session_ref, owner,
                 destroying, notified, result>>

\* Mutant: the callbacks notify without taking m_mtx.
Notify_Unlocked == notified' = (notified \/ Waits)

\* A callback takes m_mtx and notifies whoever waits.
Notify == ~Locked /\ notified' = (notified \/ Waits)

OnConnect == /\ IoIn("on_connect") /\ Notify
             /\ io' = IoIdle /\ captured' = captured \ {io.sid}
             /\ UNCHANGED <<m_sequence_id, m_objects, m_context, m_status, m_stopped, held,
                            read, write, peer, crash, conn, m_session_ref, owner,
                            destroying, result>>

OnConnectFail == /\ IoIn("on_connect_fail") /\ Notify
                 /\ io' = IoAt("del_object", io.sid)
                 /\ UNCHANGED <<poolVars, m_status, m_stopped, held, read, write, peer, crash,
                                conn, m_session_ref, owner, destroying, result>>

\* del_object, and the end of the handler that held the session.
DelObject == /\ IoIn("del_object")
             /\ m_objects' = m_objects \ {io.sid} /\ captured' = captured \ {io.sid}
             /\ io' = IoIdle
             /\ UNCHANGED <<m_sequence_id, m_context, m_status, m_stopped, held, read, write,
                            peer, crash, clientVars>>

\* on_receive_error of i_matrix does nothing.
OnRecvError == /\ IoIn("on_recv_error")
               /\ io' = IoAt("recheck", io.sid)
               /\ UNCHANGED <<poolVars, m_status, m_stopped, held, read, write, peer, crash,
                              clientVars>>

-----------------------------------------------------------------------------
OwnerNext == \/ Connect \/ ResolveThrows \/ Run \/ WaitFor \/ Woken \/ TimeOut \/ SendMsg
             \/ Shutdown \/ OnDisconnect \/ Destroy \/ DestroyClient \/ StopContext \/ Join

IoNext == OnConnect \/ OnConnectFail \/ DelObject \/ OnRecvError

Next == \/ OwnerNext \/ IoNext
        \/ \E id \in Ids : Accepted(id) \/ Refused(id) \/ HandleConnect(id)
        \/ SessionNext(destroying) /\ UNCHANGED clientVars

Spec == Init /\ [][Next]_vars

\* The scheduler runs both threads; the destructor, once begun, is not put off.
FairSpec == /\ Spec
            /\ WF_vars(IoNext) /\ WF_vars((OnRecvMsg(destroying) \/ Rearm) /\ UNCHANGED clientVars)
            /\ WF_vars(OnDisconnect \/ DestroyClient \/ StopContext \/ Join)

-----------------------------------------------------------------------------
(* Correctness. *)

\* Whatever the thread of the io_context works for, or may be called back for,
\* is a session that still exists: handlers capture a raw this (session.h:43,
\* 89, 104), so nothing but the map keeps it alive.
HandlersHaveSessions ==
  owner # "gone" =>
    \A id \in Ids : read[id] # "none" \/ write[id] # "none" \/ io.sid = id => Alive(id)

\* The receive loop of a connected session never dies: a read is outstanding or
\* its handler is under way, until the session is stopped (session.h:101-123).
ConnectedIsRead ==
  owner # "gone" =>
    \A id \in Ids : is_connected(id) => m_stopped[id] \/ read[id] # "none" \/ io.sid = id

\* sync_connect, which waits without a predicate, is not left waiting after the
\* outcome of its connection was announced (easy_tcp/client.h:17-27, 37-51).
NoLostNotify ==
  owner = "waiting" /\ ~notified =>
    \/ conn[m_session_ref] # "none"
    \/ io.at \in {"on_connect", "on_connect_fail"} /\ io.sid = m_session_ref

\* Why a client may fail its assertion or terminate, and no other way: shutdown()
\* finds no session because none was created or its connection was refused; connect()
\* was called twice; or the destructor joins a thread that never ran, or the thread is
\* about to report a read to the object that is being destroyed.  So a client that
\* connects once, with success, is safe until its destructor begins
\* (tcp/client.h:57-68, session_pool.h:20-32, matrix.h:18).
ClientCrashHasCause ==
  /\ crash = "assert" => m_session_ref = None \/ m_status[m_session_ref] = "Connectfail"
  /\ crash = "terminate" =>
       \/ m_sequence_id > 1
       \/ destroying /\ (m_context = "none" \/ io.at = "on_recv_msg")

\* The assertion of shutdown(), tcp/client.h:62: once connect() was called the
\* session can be locked.
ShutdownAssertion == m_sequence_id > 0 => crash # "assert"

\* The destructor comes to its end, even while the peer is silent and a read is
\* outstanding (session_pool.h:20-24).
DtorReturns == owner = "~client" ~> (owner = "gone" \/ crash # "none")
=============================================================================
