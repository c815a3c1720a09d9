----------------------------- MODULE TcpServer -----------------------------
(***************************************************************************)
(* tcp::server (net/transport/tcp/server.h): the accept loop and the       *)
(* receive handlers on the thread of the io_context, against an owner      *)
(* thread that starts the server, sends, disconnects sessions, shuts the   *)
(* server down and destroys it.                                            *)
(*                                                                         *)
(* Each operation of session_pool on its map is one step.                  *)
(***************************************************************************)
EXTENDS Session

VARIABLES
  accept,  \* the outstanding async_accept and its result
  shut,    \* server::m_stopped
  owner    \* where the owner thread is

serverVars == <<accept, shut, owner>>
vars == <<sessionVars, serverVars>>

TypeOK ==
  /\ SessionTypeOK /\ Cardinality(captured) <= 1
  /\ accept \in {"none", "pending", "connected", "failed", "aborted"}
  /\ shut \in BOOLEAN
  /\ owner \in {"idle", "disconnect", "del_object", "clear", "~server", "~clear",
                "~session_pool", "joining", "gone"}

Init == SessionInit /\ accept = "none" /\ shut = FALSE /\ owner = "idle"

Owner(where) == crash = "none" /\ owner = where

\* The object of the application, which overrides on_receive, is destroyed; then the
\* server, which overrides on_receive_error.
Destroying == owner \in {"~server", "~clear", "~session_pool", "joining"}
ServerGone == owner \in {"~session_pool", "joining"}

-----------------------------------------------------------------------------
(* The accept loop. *)

\* do_accept(): a fresh object, which the handler of async_accept holds.  An
\* acceptor that ~server has destroyed meanwhile reports an error at once.
DoAccept == /\ m_sequence_id' = m_sequence_id + 1
            /\ captured' = {m_sequence_id}
            /\ accept' = IF ServerGone THEN "aborted" ELSE "pending"

\* The sessions created are bounded: a peer is accepted, or refused, only when
\* the loop can create one more object.
PeerConnects == \E id \in captured :
  /\ crash = "none" /\ accept = "pending" /\ m_sequence_id < MaxSessions
  /\ \/ accept' = "connected" /\ peer' = [peer EXCEPT ![id] = "open"]
     \/ accept' = "failed" /\ UNCHANGED peer
  /\ UNCHANGED <<poolVars, m_status, m_stopped, held, read, write, io, crash, shut, owner>>

\* Mutant: an error ends the loop.
AcceptFailed_Ends ==
  /\ IoFree /\ accept = "failed" /\ ~shut
  /\ accept' = "none" /\ captured' = {}
  /\ UNCHANGED <<m_sequence_id, m_objects, m_context, m_status, m_stopped, held, read, write,
                 peer, io, crash, shut, owner>>

\* The handler of async_accept with an error: on_accept_error, and again.
AcceptFailed ==
  /\ IoFree /\ accept = "failed" /\ ~shut
  /\ DoAccept
  /\ UNCHANGED <<m_objects, m_context, m_status, m_stopped, held, read, write, peer, io,
                 crash, shut, owner>>

\* The handler of a stopped server, or of an acceptor that was closed, returns.
AcceptStopped ==
  /\ IoFree /\ accept \in {"connected", "failed", "aborted"} /\ shut
  /\ accept' = "none" /\ captured' = {}
  /\ UNCHANGED <<m_sequence_id, m_objects, m_context, m_status, m_stopped, held, read, write,
                 peer, io, crash, shut, owner>>

\* The handler with a connection: on_accept, which connects the session.
Accepted == \E id \in captured :
  /\ IoFree /\ accept = "connected" /\ ~shut
  /\ ConnectSession(id)
  /\ accept' = "none" /\ io' = IoAt("on_connect", id)
  /\ UNCHANGED <<poolVars, m_stopped, held, write, peer, crash, shut, owner>>

\* The application's on_connect.
OnConnect == /\ IoIn("on_connect")
             /\ io' = IoAt("add_object", io.sid)
             /\ UNCHANGED <<poolVars, m_status, m_stopped, held, read, write, peer, crash,
                            serverVars>>

\* add_object, after the session was connected, then the next do_accept.
AddObject ==
  /\ IoIn("add_object")
  /\ m_objects' = m_objects \cup {io.sid}
  /\ io' = IoIdle
  /\ DoAccept
  /\ UNCHANGED <<m_context, m_status, m_stopped, held, read, write, peer, crash, shut, owner>>

-----------------------------------------------------------------------------
(* A read error disconnects the session, on the thread of the io_context. *)

\* on_receive_error calls disconnect(sid), that of i_matrix does nothing.
OnRecvError ==
  /\ IoIn("on_recv_error")
  /\ io' = IoAt(IF ServerGone THEN "recheck" ELSE "find", io.sid)
  /\ UNCHANGED <<poolVars, m_status, m_stopped, held, read, write, peer, crash, serverVars>>

\* disconnect(sid) throws when the session is not in the map or not connected;
\* nothing on this thread catches the exception.
IoFind ==
  /\ IoIn("find")
  /\ IF io.sid \in m_objects /\ is_connected(io.sid)
       THEN /\ held' = [held EXCEPT !["io"] = io.sid]
            /\ io' = IoAt("disconnect", io.sid) /\ UNCHANGED crash
       ELSE crash' = "terminate" /\ UNCHANGED <<held, io>>
  /\ UNCHANGED <<poolVars, m_status, m_stopped, read, write, peer, serverVars>>

\* Mutant: the object leaves the map before the session is disconnected.
IoDisconnect_DelFirst ==
  /\ IoIn("disconnect") /\ m_objects' = m_objects \ {io.sid}
  /\ io' = IoAt("del_object", io.sid)
  /\ UNCHANGED <<m_sequence_id, captured, m_context, m_status, m_stopped, held, read, write,
                 peer, crash, serverVars>>

IoDisconnect == /\ IoIn("disconnect") /\ DisconnectSession(io.sid)
                /\ io' = IoAt("del_object", io.sid)
                /\ UNCHANGED <<poolVars, held, read, write, peer, crash, serverVars>>

\* Mutant: the object stays in the map.
IoDelObject_Forgotten ==
  /\ IoIn("del_object")
  /\ held' = [held EXCEPT !["io"] = None] /\ io' = IoAt("recheck", io.sid)
  /\ UNCHANGED <<poolVars, m_status, m_stopped, read, write, peer, crash, serverVars>>

\* del_object(sid); then disconnect returns and its local shared_ptr goes away.
IoDelObject ==
  /\ IoIn("del_object")
  /\ m_objects' = m_objects \ {io.sid}
  /\ held' = [held EXCEPT !["io"] = None] /\ io' = IoAt("recheck", io.sid)
  /\ UNCHANGED <<m_sequence_id, captured, m_context, m_status, m_stopped, read, write, peer,
                 crash, serverVars>>

-----------------------------------------------------------------------------
(* The owner thread. *)

\* start(): the first do_accept, then run().
Start == /\ Owner("idle") /\ m_context = "none"
         /\ DoAccept
         /\ m_context' = "running"
         /\ UNCHANGED <<m_objects, m_status, m_stopped, held, read, write, peer, io, crash,
                        shut, owner>>

SendMsg(id) == /\ Owner("idle") /\ id \in m_objects /\ is_connected(id) /\ write[id] = "none"
               /\ write' = [write EXCEPT ![id] = "posted"]
               /\ UNCHANGED <<poolVars, m_status, m_stopped, held, read, peer, io, crash,
                              serverVars>>

\* disconnect(sid) up to the test; when it throws, nothing has changed.
Disconnect(id) ==
  /\ Owner("idle") /\ id \in m_objects /\ is_connected(id)
  /\ held' = [held EXCEPT !["owner"] = id] /\ owner' = "disconnect"
  /\ UNCHANGED <<poolVars, m_status, m_stopped, read, write, peer, io, crash, accept, shut>>

DisconnectFound ==
  /\ Owner("disconnect") /\ DisconnectSession(held["owner"])
  /\ owner' = "del_object"
  /\ UNCHANGED <<poolVars, held, read, write, peer, io, crash, accept, shut>>

DelObject == /\ Owner("del_object")
             /\ m_objects' = m_objects \ {held["owner"]}
             /\ held' = [held EXCEPT !["owner"] = None] /\ owner' = "idle"
             /\ UNCHANGED <<m_sequence_id, captured, m_context, m_status, m_stopped, read, write,
                            peer, io, crash, accept, shut>>

\* shutdown(), of the application or of ~server: every connected session of the
\* map is disconnected, ...
Shutdown ==
  /\ Owner("idle") \/ Owner("~server")
  /\ shut' = TRUE
  /\ LET connected == {id \in m_objects : is_connected(id)}
     IN  /\ m_status' = [id \in Ids |-> IF id \in connected THEN "Broken" ELSE m_status[id]]
         /\ m_stopped' = [id \in Ids |-> id \in connected \/ m_stopped[id]]
  /\ owner' = IF owner = "idle" THEN "clear" ELSE "~clear"
  /\ UNCHANGED <<poolVars, held, read, write, peer, io, crash, accept>>

\* ... then the map is cleared.  In ~server the acceptor goes next: its
\* outstanding accept is aborted.
Clear == /\ Owner("clear") \/ Owner("~clear")
         /\ m_objects' = {}
         /\ owner' = IF owner = "clear" THEN "idle" ELSE "~session_pool"
         /\ accept' = IF owner = "~clear" /\ accept = "pending" THEN "aborted" ELSE accept
         /\ UNCHANGED <<m_sequence_id, captured, m_context, m_status, m_stopped, held, read,
                        write, peer, io, crash, shut>>

Destroy == /\ Owner("idle")
           /\ owner' = "~server"
           /\ UNCHANGED <<sessionVars, accept, shut>>

\* ~session_pool: no further handler is taken.
StopContext ==
  /\ Owner("~session_pool")
  /\ m_context' = IF m_context = "running" THEN "stopping" ELSE m_context
  /\ owner' = "joining"
  /\ UNCHANGED <<m_sequence_id, m_objects, captured, m_status, m_stopped, held, read, write,
                 peer, io, crash, accept, shut>>

\* join(), then the members: the map, and the io_context with its handlers.  A
\* thread that was never started cannot be joined: the destructor throws.
Join ==
  /\ Owner("joining")
  /\ \/ /\ m_context = "none" /\ crash' = "terminate"
        /\ UNCHANGED <<poolVars, m_status, m_stopped, held, read, write, peer, io, serverVars>>
     \/ /\ m_context \in {"stopping", "exited"} /\ io.at = "idle"
        /\ m_context' = "joined" /\ owner' = "gone"
        /\ m_objects' = {} /\ captured' = {} /\ accept' = "none"
        /\ read' = [id \in Ids |-> "none"] /\ write' = [id \in Ids |-> "none"]
        /\ UNCHANGED <<m_sequence_id, m_status, m_stopped, held, peer, io, crash, shut>>

-----------------------------------------------------------------------------
IoNext == \/ AcceptFailed \/ AcceptStopped \/ Accepted \/ OnConnect \/ AddObject
          \/ OnRecvError \/ IoFind \/ IoDisconnect \/ IoDelObject

OwnerNext == \/ DisconnectFound \/ DelObject \/ Shutdown \/ Clear \/ Destroy
             \/ StopContext \/ Join
             \/ \E id \in Ids : Disconnect(id)

\* What a server does whose owner only starts it and sends.
Serve == \/ IoNext \/ Start \/ PeerConnects
         \/ \E id \in Ids : SendMsg(id)
         \/ SessionNext(Destroying) /\ UNCHANGED serverVars

Next == Serve \/ OwnerNext

Spec == Init /\ [][Next]_vars

\* The owner calls start() and then wait(), which never returns.
ServeSpec == Init /\ [][Serve]_vars

-----------------------------------------------------------------------------
(* Correctness. *)

\* Until it is shut down, a running server is ready for the next connection:
\* an accept is outstanding or its handler is under way (server.h:146-165).
AlwaysAccepting ==
  m_context = "running" /\ ~shut => accept # "none" \/ io.at \in {"on_connect", "add_object"}

\* A connected session belongs to the map: it is there, or the handler that
\* accepted it is about to add it.  Otherwise it could be neither found nor
\* disconnected (server.h:111-127, 158-162).
ConnectedIsOwned ==
  ~shut => \A id \in Ids : is_connected(id) =>
             id \in m_objects \/ (io.sid = id /\ io.at \in {"on_connect", "add_object"})

\* A disconnected session is in the map only while a thread is on its way to
\* delete it (server.h:99-127).
NoZombies ==
  \A id \in m_objects : m_status[id] = "Broken" =>
    \/ io.sid = id /\ io.at = "del_object"
    \/ owner = "del_object" /\ held["owner"] = id
    \/ owner \in {"clear", "~clear"}

\* Why a server may crash, and no other way: a session is destroyed while its handlers
\* are outstanding, by a disconnection or by a shutdown that clears the map; both
\* threads disconnect the same session, or one finds the map cleared; a read is
\* reported to an object that is being destroyed; or the server was never started.
\* The accept loop alone survives shutdown and destruction (server.h:99-165,
\* session.h:70-122, session_pool.h:20-24).
CrashHasCause ==
  /\ crash \in {"none", "use-after-free", "terminate"}
  /\ crash = "use-after-free" =>
       \E id \in Ids : /\ ~Alive(id)
                       /\ m_status[id] = "Broken" \/ (shut /\ is_connected(id))
  /\ crash = "terminate" =>
       \/ io.at = "find" /\ (m_status[io.sid] = "Broken" \/ shut)
       \/ io.at = "on_recv_msg" /\ Destroying
       \/ owner = "joining" /\ m_context = "none"

\* server.h:131 says of on_receive_error that it deletes the session
\* asynchronously: the handler that reports the error still has its session.
DeletedAsynchronously == io.at = "recheck" => Alive(io.sid)
=============================================================================
