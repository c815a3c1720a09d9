--------------------------- MODULE TcpServerProofs ---------------------------
(***************************************************************************)
(* Proofs about tcp::server for any number of sessions.                    *)
(***************************************************************************)
EXTENDS TcpServer, FiniteSetTheorems, TLAPS

USE MaxSessionsAssumption

-----------------------------------------------------------------------------
(* The inductive invariant. *)

Accepting == io.at \in {"on_connect", "add_object"}

\* A handler in progress works for a session, and so does a disconnect of the
\* owner.
WorksForSession == /\ io.at # "idle" => io.sid \in Ids
                   /\ owner \in {"disconnect", "del_object"} => held["owner"] \in Ids

\* do_accept is called when one more object can be created.
RoomForNext == /\ accept \in {"connected", "failed"} \/ Accepting => m_sequence_id < MaxSessions
               /\ m_context = "none" => m_sequence_id = 0 /\ io.at = "idle"

\* The object of an accept that is outstanding is new: no thread has touched it.
AcceptedIsNew == \A id \in captured : accept # "none" => m_status[id] = "Invalid" /\ id \notin m_objects

\* An id that was not given out is the id of no session.
IdsAreFresh == /\ \A id \in captured \cup m_objects : id < m_sequence_id
               /\ \A id \in Ids : m_status[id] # "Invalid" => id < m_sequence_id

\* A session is connected once and then broken once; what is read or written is
\* of a session that was connected, and so is what a handler works for.
StatusAdvances ==
  /\ \A id \in Ids : /\ m_status[id] # "Connectfail"
                     /\ read[id] # "none" \/ write[id] # "none" => m_status[id] # "Invalid"
  /\ io.at # "idle" => m_status[io.sid] # "Invalid"
  /\ Accepting => m_status[io.sid] = "Connected" /\ io.sid \notin m_objects
  /\ io.at = "del_object" => m_status[io.sid] = "Broken"
  /\ owner = "disconnect" => m_status[held["owner"]] # "Invalid"
                             /\ ~(Accepting /\ io.sid = held["owner"])
  /\ owner = "del_object" => m_status[held["owner"]] = "Broken"

\* The map is cleared by a server that was shut down.
ClearedIsShut ==
  owner \in {"clear", "~clear", "~session_pool", "joining", "gone"} => shut

ServerInv == /\ TypeOK
             /\ WorksForSession /\ ClearedIsShut
             /\ RoomForNext /\ AcceptedIsNew /\ IdsAreFresh
             /\ StatusAdvances
             /\ AlwaysAccepting /\ ConnectedIsOwned /\ NoZombies
             /\ CrashHasCause

\* The initial state satisfies the invariant.
LEMMA ServerInvInit == Init => ServerInv
  <1> SUFFICES ASSUME Init PROVE ServerInv
    OBVIOUS
  <1>1. TypeOK
    <2>1. captured = {} /\ Cardinality({}) = 0
      BY FS_EmptySet DEF Init, SessionInit
    <2>2. SessionTypeOK
      BY DEF Init, SessionInit, SessionTypeOK, Ids, None, Threads, link_status
    <2>3. Cardinality(captured) <= 1
      BY <2>1
    <2>4. shut \in BOOLEAN
      BY DEF Init
    <2> QED
      BY <2>2, <2>3, <2>4 DEF Init, TypeOK
  <1>2. /\ WorksForSession /\ ClearedIsShut /\ RoomForNext /\ AcceptedIsNew
        /\ IdsAreFresh /\ StatusAdvances
    BY DEF Init, SessionInit, WorksForSession, RoomForNext, AcceptedIsNew, IdsAreFresh,
           ClearedIsShut, StatusAdvances, Accepting
  <1>3. AlwaysAccepting /\ ConnectedIsOwned /\ NoZombies /\ CrashHasCause
    BY DEF Init, SessionInit, AlwaysAccepting, ConnectedIsOwned, NoZombies,
           CrashHasCause, is_connected
  <1> QED
    BY <1>1, <1>2, <1>3 DEF ServerInv

-----------------------------------------------------------------------------
(* The steps that do not end the process, conjunct by conjunct. *)

\* A step that does not end the process keeps the types: ids are given out one by
\* one and handlers, map and owner know only such ids (server.h:99-165).
LEMMA ServerTypeNext ==
  ASSUME ServerInv, Next, crash' = crash
  PROVE  TypeOK'
  <1> USE DEF ServerInv, TypeOK, SessionTypeOK, Threads, link_status, WorksForSession
  <1> USE DEF IoFree, IoIn, IoAt, IoIdle, Owner, poolVars, serverVars
  <1>1. CASE Start
    <2>1. m_sequence_id \in Ids /\ m_sequence_id + 1 \in 0 .. MaxSessions
      BY <1>1 DEF Start, RoomForNext, Accepting, Ids
    <2>2. captured' = {m_sequence_id} /\ m_sequence_id' = m_sequence_id + 1
      BY <1>1 DEF Start, DoAccept
    <2>3. Cardinality({m_sequence_id}) = 1
      BY FS_Singleton
    <2>4. Cardinality(captured') <= 1 /\ captured' \subseteq Ids
      BY <2>1, <2>2, <2>3
    <2> QED
      BY <1>1, <2>1, <2>2, <2>4 DEF Start, DoAccept
  <1>2. CASE PeerConnects
    BY <1>2 DEF PeerConnects
  <1>3. CASE AcceptFailed
    <2>1. m_sequence_id \in Ids /\ m_sequence_id + 1 \in 0 .. MaxSessions
      BY <1>3 DEF AcceptFailed, RoomForNext, Accepting, Ids
    <2>2. captured' = {m_sequence_id} /\ m_sequence_id' = m_sequence_id + 1
      BY <1>3 DEF AcceptFailed, DoAccept
    <2>3. Cardinality({m_sequence_id}) = 1
      BY FS_Singleton
    <2>4. Cardinality(captured') <= 1 /\ captured' \subseteq Ids
      BY <2>1, <2>2, <2>3
    <2> QED
      BY <1>3, <2>1, <2>2, <2>4 DEF AcceptFailed, DoAccept
  <1>4. CASE AcceptStopped
    <2>1. captured' = {}
      BY <1>4 DEF AcceptStopped
    <2>2. Cardinality(captured') <= 1
      BY <2>1, FS_EmptySet
    <2> QED
      BY <1>4, <2>2 DEF AcceptStopped
  <1>5. CASE Accepted
    BY <1>5 DEF Accepted, ConnectSession, Armed
  <1>6. CASE OnConnect
    BY <1>6 DEF OnConnect
  <1>7. CASE AddObject
    <2>1. m_sequence_id \in Ids /\ m_sequence_id + 1 \in 0 .. MaxSessions
      BY <1>7 DEF AddObject, RoomForNext, Accepting, Ids
    <2>2. captured' = {m_sequence_id} /\ m_sequence_id' = m_sequence_id + 1
      BY <1>7 DEF AddObject, DoAccept
    <2>3. Cardinality({m_sequence_id}) = 1
      BY FS_Singleton
    <2>4. Cardinality(captured') <= 1 /\ captured' \subseteq Ids
      BY <2>1, <2>2, <2>3
    <2> QED
      BY <1>7, <2>1, <2>2, <2>4 DEF AddObject, DoAccept
  <1>8. CASE OnRecvError
    BY <1>8 DEF OnRecvError
  <1>9. CASE IoDisconnect
    BY <1>9 DEF IoDisconnect, DisconnectSession
  <1>10. CASE IoDelObject
    BY <1>10 DEF IoDelObject
  <1>11. CASE OnRecvMsg(Destroying) /\ UNCHANGED serverVars
    BY <1>11 DEF OnRecvMsg
  <1>12. CASE Rearm /\ UNCHANGED serverVars
    BY <1>12 DEF Rearm, Armed, UseAfterFree
  <1>13. CASE IoExit /\ UNCHANGED serverVars
    BY <1>13 DEF IoExit
  <1>14. CASE \E id \in Ids : SendMsg(id)
    BY <1>14 DEF SendMsg, is_connected
  <1>15. CASE \E id \in Ids : HandleRead(id) /\ UNCHANGED serverVars
    BY <1>15 DEF HandleRead, ReadReady, UseAfterFree
  <1>16. CASE \E id \in Ids : DoSendMsg(id) /\ UNCHANGED serverVars
    BY <1>16 DEF DoSendMsg, UseAfterFree
  <1>17. CASE \E id \in Ids : HandleWrite(id) /\ UNCHANGED serverVars
    BY <1>17 DEF HandleWrite, UseAfterFree
  <1>18. CASE \E id \in Ids : PeerSends(id) /\ UNCHANGED serverVars
    BY <1>18 DEF PeerSends
  <1>19. CASE \E id \in Ids : PeerCloses(id) /\ UNCHANGED serverVars
    BY <1>19 DEF PeerCloses
  <1>20. CASE \E id \in Ids : Disconnect(id)
    BY <1>20 DEF Disconnect, is_connected
  <1>21. CASE DisconnectFound
    BY <1>21 DEF DisconnectFound, DisconnectSession
  <1>22. CASE DelObject
    BY <1>22 DEF DelObject
  <1>23. CASE Shutdown
    BY <1>23 DEF Shutdown, is_connected
  <1>24. CASE Clear
    BY <1>24 DEF Clear
  <1>25. CASE Destroy
    BY <1>25 DEF Destroy, sessionVars
  <1>26. CASE StopContext
    BY <1>26 DEF StopContext
  <1>27. CASE Join
    <2>1. captured' = {}
      BY <1>27 DEF Join
    <2>2. Cardinality(captured') <= 1
      BY <2>1, FS_EmptySet
    <2> QED
      BY <1>27, <2>2 DEF Join
  <1>28. CASE IoFind
    BY <1>28 DEF IoFind, is_connected
  <1> QED
    BY <1>1, <1>2, <1>3, <1>4, <1>5, <1>6, <1>7, <1>8, <1>9, <1>10, <1>11, <1>12, <1>13,
       <1>14, <1>15, <1>16, <1>17, <1>18, <1>19, <1>20, <1>21, <1>22, <1>23, <1>24, <1>25,
       <1>26, <1>27, <1>28
    DEF Next, Serve, IoNext, OwnerNext, SessionNext

\* The io thread is idle or works for a session, the owner disconnects a session it
\* has found, and clears the map only after the shutdown (server.h:99-127).
LEMMA ServerPlacesNext ==
  ASSUME ServerInv, Next, crash' = crash
  PROVE  WorksForSession' /\ ClearedIsShut'
  <1> USE DEF ServerInv, WorksForSession, ClearedIsShut
  <1> USE DEF IoFree, IoIn, IoAt, IoIdle, Owner, poolVars, serverVars
  <1>1. CASE Start
    BY <1>1 DEF Start, DoAccept
  <1>2. CASE PeerConnects
    BY <1>2 DEF PeerConnects
  <1>3. CASE AcceptFailed
    BY <1>3 DEF AcceptFailed, DoAccept
  <1>4. CASE AcceptStopped
    BY <1>4 DEF AcceptStopped
  <1>5. CASE Accepted
    BY <1>5 DEF Accepted, ConnectSession, Armed, TypeOK, SessionTypeOK
  <1>6. CASE OnConnect
    BY <1>6 DEF OnConnect
  <1>7. CASE AddObject
    BY <1>7 DEF AddObject, DoAccept
  <1>8. CASE OnRecvError
    BY <1>8 DEF OnRecvError
  <1>9. CASE IoDisconnect
    BY <1>9 DEF IoDisconnect, DisconnectSession
  <1>10. CASE IoDelObject
    BY <1>10 DEF IoDelObject, TypeOK, SessionTypeOK, Threads
  <1>11. CASE OnRecvMsg(Destroying) /\ UNCHANGED serverVars
    BY <1>11 DEF OnRecvMsg
  <1>12. CASE Rearm /\ UNCHANGED serverVars
    BY <1>12 DEF Rearm, Armed, UseAfterFree
  <1>13. CASE IoExit /\ UNCHANGED serverVars
    BY <1>13 DEF IoExit
  <1>14. CASE \E id \in Ids : SendMsg(id)
    BY <1>14 DEF SendMsg, is_connected
  <1>15. CASE \E id \in Ids : HandleRead(id) /\ UNCHANGED serverVars
    BY <1>15 DEF HandleRead, ReadReady, UseAfterFree
  <1>16. CASE \E id \in Ids : DoSendMsg(id) /\ UNCHANGED serverVars
    BY <1>16 DEF DoSendMsg, UseAfterFree
  <1>17. CASE \E id \in Ids : HandleWrite(id) /\ UNCHANGED serverVars
    BY <1>17 DEF HandleWrite, UseAfterFree
  <1>18. CASE \E id \in Ids : PeerSends(id) /\ UNCHANGED serverVars
    BY <1>18 DEF PeerSends
  <1>19. CASE \E id \in Ids : PeerCloses(id) /\ UNCHANGED serverVars
    BY <1>19 DEF PeerCloses
  <1>20. CASE \E id \in Ids : Disconnect(id)
    BY <1>20 DEF Disconnect, is_connected, TypeOK, SessionTypeOK, Threads
  <1>21. CASE DisconnectFound
    BY <1>21 DEF DisconnectFound, DisconnectSession
  <1>22. CASE DelObject
    BY <1>22 DEF DelObject
  <1>23. CASE Shutdown
    BY <1>23 DEF Shutdown, is_connected
  <1>24. CASE Clear
    BY <1>24 DEF Clear
  <1>25. CASE Destroy
    BY <1>25 DEF Destroy, sessionVars
  <1>26. CASE StopContext
    BY <1>26 DEF StopContext
  <1>27. CASE Join
    BY <1>27 DEF Join, TypeOK, SessionTypeOK, Threads
  <1>28. CASE IoFind
    BY <1>28 DEF IoFind, is_connected, TypeOK, SessionTypeOK, Threads
  <1> QED
    BY <1>1, <1>2, <1>3, <1>4, <1>5, <1>6, <1>7, <1>8, <1>9, <1>10, <1>11, <1>12, <1>13,
       <1>14, <1>15, <1>16, <1>17, <1>18, <1>19, <1>20, <1>21, <1>22, <1>23, <1>24, <1>25,
       <1>26, <1>27, <1>28
    DEF Next, Serve, IoNext, OwnerNext, SessionNext

\* do_accept numbers the sessions upwards, and nobody touches a session before its
\* accept has completed (server.h:146-165).
LEMMA ServerIdsNext ==
  ASSUME ServerInv, Next, crash' = crash
  PROVE  RoomForNext' /\ AcceptedIsNew' /\ IdsAreFresh'
  <1> USE DEF ServerInv, TypeOK, SessionTypeOK, WorksForSession, RoomForNext, AcceptedIsNew,
              IdsAreFresh, StatusAdvances, Accepting
  <1> USE DEF IoFree, IoIn, IoAt, IoIdle, Owner, poolVars, serverVars
  <1>1. CASE Start
    BY <1>1 DEF Start, DoAccept, Ids
  <1>2. CASE PeerConnects
    BY <1>2 DEF PeerConnects, Ids
  <1>3. CASE AcceptFailed
    BY <1>3 DEF AcceptFailed, DoAccept, Ids
  <1>4. CASE AcceptStopped
    BY <1>4 DEF AcceptStopped
  <1>5. CASE Accepted
    BY <1>5 DEF Accepted, ConnectSession, Armed
  <1>6. CASE OnConnect
    BY <1>6 DEF OnConnect
  <1>7. CASE AddObject
    BY <1>7 DEF AddObject, DoAccept, Ids
  <1>8. CASE OnRecvError
    BY <1>8 DEF OnRecvError
  <1>9. CASE IoDisconnect
    BY <1>9 DEF IoDisconnect, DisconnectSession
  <1>10. CASE IoDelObject
    BY <1>10 DEF IoDelObject
  <1>11. CASE OnRecvMsg(Destroying) /\ UNCHANGED serverVars
    BY <1>11 DEF OnRecvMsg
  <1>12. CASE Rearm /\ UNCHANGED serverVars
    BY <1>12 DEF Rearm, Armed, UseAfterFree
  <1>13. CASE IoExit /\ UNCHANGED serverVars
    BY <1>13 DEF IoExit
  <1>14. CASE \E id \in Ids : SendMsg(id)
    BY <1>14 DEF SendMsg, is_connected
  <1>15. CASE \E id \in Ids : HandleRead(id) /\ UNCHANGED serverVars
    BY <1>15 DEF HandleRead, ReadReady, UseAfterFree
  <1>16. CASE \E id \in Ids : DoSendMsg(id) /\ UNCHANGED serverVars
    BY <1>16 DEF DoSendMsg, UseAfterFree
  <1>17. CASE \E id \in Ids : HandleWrite(id) /\ UNCHANGED serverVars
    BY <1>17 DEF HandleWrite, UseAfterFree
  <1>18. CASE \E id \in Ids : PeerSends(id) /\ UNCHANGED serverVars
    BY <1>18 DEF PeerSends
  <1>19. CASE \E id \in Ids : PeerCloses(id) /\ UNCHANGED serverVars
    BY <1>19 DEF PeerCloses
  <1>20. CASE \E id \in Ids : Disconnect(id)
    BY <1>20 DEF Disconnect, is_connected
  <1>21. CASE DisconnectFound
    BY <1>21 DEF DisconnectFound, DisconnectSession
  <1>22. CASE DelObject
    BY <1>22 DEF DelObject
  <1>23. CASE Shutdown
    BY <1>23 DEF Shutdown, is_connected
  <1>24. CASE Clear
    BY <1>24 DEF Clear
  <1>25. CASE Destroy
    BY <1>25 DEF Destroy, sessionVars
  <1>26. CASE StopContext
    BY <1>26 DEF StopContext
  <1>27. CASE Join
    BY <1>27 DEF Join
  <1>28. CASE IoFind
    BY <1>28 DEF IoFind, is_connected
  <1> QED
    BY <1>1, <1>2, <1>3, <1>4, <1>5, <1>6, <1>7, <1>8, <1>9, <1>10, <1>11, <1>12, <1>13,
       <1>14, <1>15, <1>16, <1>17, <1>18, <1>19, <1>20, <1>21, <1>22, <1>23, <1>24, <1>25,
       <1>26, <1>27, <1>28
    DEF Next, Serve, IoNext, OwnerNext, SessionNext

\* A session goes from accepted to connected to broken and never back, whichever
\* thread disconnects it (server.h:99-127).
LEMMA ServerStatusNext ==
  ASSUME ServerInv, Next, crash' = crash
  PROVE  StatusAdvances'
  <1> USE DEF ServerInv, TypeOK, SessionTypeOK, Threads, WorksForSession, AcceptedIsNew,
              IdsAreFresh, StatusAdvances, Accepting
  <1> USE DEF IoFree, IoIn, IoAt, IoIdle, Owner, poolVars, serverVars
  <1>1. CASE Start
    BY <1>1 DEF Start, DoAccept
  <1>2. CASE PeerConnects
    BY <1>2 DEF PeerConnects
  <1>3. CASE AcceptFailed
    BY <1>3 DEF AcceptFailed, DoAccept
  <1>4. CASE AcceptStopped
    BY <1>4 DEF AcceptStopped
  <1>5. CASE Accepted
    BY <1>5 DEF Accepted, ConnectSession, Armed
  <1>6. CASE OnConnect
    BY <1>6 DEF OnConnect
  <1>7. CASE AddObject
    BY <1>7 DEF AddObject, DoAccept
  <1>8. CASE OnRecvError
    BY <1>8 DEF OnRecvError
  <1>9. CASE IoDisconnect
    BY <1>9 DEF IoDisconnect, DisconnectSession
  <1>10. CASE IoDelObject
    BY <1>10 DEF IoDelObject
  <1>11. CASE OnRecvMsg(Destroying) /\ UNCHANGED serverVars
    BY <1>11 DEF OnRecvMsg
  <1>12. CASE Rearm /\ UNCHANGED serverVars
    BY <1>12 DEF Rearm, Armed, UseAfterFree
  <1>13. CASE IoExit /\ UNCHANGED serverVars
    BY <1>13 DEF IoExit
  <1>14. CASE \E id \in Ids : SendMsg(id)
    BY <1>14 DEF SendMsg, is_connected
  <1>15. CASE \E id \in Ids : HandleRead(id) /\ UNCHANGED serverVars
    BY <1>15 DEF HandleRead, ReadReady, UseAfterFree
  <1>16. CASE \E id \in Ids : DoSendMsg(id) /\ UNCHANGED serverVars
    BY <1>16 DEF DoSendMsg, UseAfterFree
  <1>17. CASE \E id \in Ids : HandleWrite(id) /\ UNCHANGED serverVars
    BY <1>17 DEF HandleWrite, UseAfterFree
  <1>18. CASE \E id \in Ids : PeerSends(id) /\ UNCHANGED serverVars
    BY <1>18 DEF PeerSends
  <1>19. CASE \E id \in Ids : PeerCloses(id) /\ UNCHANGED serverVars
    BY <1>19 DEF PeerCloses
  <1>20. CASE \E id \in Ids : Disconnect(id)
    BY <1>20 DEF Disconnect, is_connected
  <1>21. CASE DisconnectFound
    BY <1>21 DEF DisconnectFound, DisconnectSession
  <1>22. CASE DelObject
    BY <1>22 DEF DelObject
  <1>23. CASE Shutdown
    BY <1>23 DEF Shutdown, is_connected
  <1>24. CASE Clear
    BY <1>24 DEF Clear
  <1>25. CASE Destroy
    BY <1>25 DEF Destroy, sessionVars
  <1>26. CASE StopContext
    BY <1>26 DEF StopContext
  <1>27. CASE Join
    BY <1>27 DEF Join
  <1>28. CASE IoFind
    BY <1>28 DEF IoFind, is_connected
  <1> QED
    BY <1>1, <1>2, <1>3, <1>4, <1>5, <1>6, <1>7, <1>8, <1>9, <1>10, <1>11, <1>12, <1>13,
       <1>14, <1>15, <1>16, <1>17, <1>18, <1>19, <1>20, <1>21, <1>22, <1>23, <1>24, <1>25,
       <1>26, <1>27, <1>28
    DEF Next, Serve, IoNext, OwnerNext, SessionNext

\* The server goes on accepting, a connected session is in the map, and a session
\* that is broken is on its way out of it (server.h:99-165).
LEMMA ServerKeptNext ==
  ASSUME ServerInv, Next, crash' = crash
  PROVE  AlwaysAccepting' /\ ConnectedIsOwned' /\ NoZombies'
  <1> USE DEF ServerInv, TypeOK, SessionTypeOK, Threads, WorksForSession, ClearedIsShut, AcceptedIsNew,
              StatusAdvances, Accepting
  <1> USE DEF AlwaysAccepting, ConnectedIsOwned, NoZombies, is_connected
  <1> USE DEF IoFree, IoIn, IoAt, IoIdle, Owner, poolVars, serverVars
  <1>1. CASE Start
    BY <1>1 DEF Start, DoAccept
  <1>2. CASE PeerConnects
    BY <1>2 DEF PeerConnects
  <1>3. CASE AcceptFailed
    BY <1>3 DEF AcceptFailed, DoAccept
  <1>4. CASE AcceptStopped
    BY <1>4 DEF AcceptStopped
  <1>5. CASE Accepted
    BY <1>5 DEF Accepted, ConnectSession, Armed
  <1>6. CASE OnConnect
    BY <1>6 DEF OnConnect
  <1>7. CASE AddObject
    BY <1>7 DEF AddObject, DoAccept
  <1>8. CASE OnRecvError
    BY <1>8 DEF OnRecvError
  <1>9. CASE IoDisconnect
    BY <1>9 DEF IoDisconnect, DisconnectSession
  <1>10. CASE IoDelObject
    BY <1>10 DEF IoDelObject
  <1>11. CASE OnRecvMsg(Destroying) /\ UNCHANGED serverVars
    BY <1>11 DEF OnRecvMsg
  <1>12. CASE Rearm /\ UNCHANGED serverVars
    BY <1>12 DEF Rearm, Armed, UseAfterFree
  <1>13. CASE IoExit /\ UNCHANGED serverVars
    BY <1>13 DEF IoExit
  <1>14. CASE \E id \in Ids : SendMsg(id)
    BY <1>14 DEF SendMsg, is_connected
  <1>15. CASE \E id \in Ids : HandleRead(id) /\ UNCHANGED serverVars
    BY <1>15 DEF HandleRead, ReadReady, UseAfterFree
  <1>16. CASE \E id \in Ids : DoSendMsg(id) /\ UNCHANGED serverVars
    BY <1>16 DEF DoSendMsg, UseAfterFree
  <1>17. CASE \E id \in Ids : HandleWrite(id) /\ UNCHANGED serverVars
    BY <1>17 DEF HandleWrite, UseAfterFree
  <1>18. CASE \E id \in Ids : PeerSends(id) /\ UNCHANGED serverVars
    BY <1>18 DEF PeerSends
  <1>19. CASE \E id \in Ids : PeerCloses(id) /\ UNCHANGED serverVars
    BY <1>19 DEF PeerCloses
  <1>20. CASE \E id \in Ids : Disconnect(id)
    BY <1>20 DEF Disconnect, is_connected
  <1>21. CASE DisconnectFound
    BY <1>21 DEF DisconnectFound, DisconnectSession
  <1>22. CASE DelObject
    BY <1>22 DEF DelObject
  <1>23. CASE Shutdown
    BY <1>23 DEF Shutdown, is_connected
  <1>24. CASE Clear
    BY <1>24 DEF Clear
  <1>25. CASE Destroy
    BY <1>25 DEF Destroy, sessionVars
  <1>26. CASE StopContext
    BY <1>26 DEF StopContext
  <1>27. CASE Join
    BY <1>27 DEF Join
  <1>28. CASE IoFind
    BY <1>28 DEF IoFind, is_connected
  <1> QED
    BY <1>1, <1>2, <1>3, <1>4, <1>5, <1>6, <1>7, <1>8, <1>9, <1>10, <1>11, <1>12, <1>13,
       <1>14, <1>15, <1>16, <1>17, <1>18, <1>19, <1>20, <1>21, <1>22, <1>23, <1>24, <1>25,
       <1>26, <1>27, <1>28
    DEF Next, Serve, IoNext, OwnerNext, SessionNext

-----------------------------------------------------------------------------
(* The steps that end the process. *)

\* A session that was connected and is not broken is in the map, as long as the
\* server is not shut down; outside the accept loop.
LEMMA ConnectedOrDisturbed ==
  ASSUME ServerInv, ~Accepting, NEW id \in Ids, m_status[id] # "Invalid"
  PROVE  \/ m_status[id] = "Broken"
         \/ is_connected(id) /\ (shut \/ id \in m_objects)
  <1>1. m_status[id] \in link_status /\ m_status[id] # "Connectfail"
    BY DEF ServerInv, TypeOK, SessionTypeOK, StatusAdvances
  <1>2. m_status[id] # "Broken" => is_connected(id)
    BY <1>1 DEF is_connected, link_status
  <1> QED
    BY <1>2 DEF ServerInv, ConnectedIsOwned, Accepting

\* Each way a step can end the process has one of the causes: a destroyed session, a
\* disconnect that does not find its session, a read reported to an object that is
\* being destroyed, a destructor without a thread to join.
LEMMA CrashHasCauseNext ==
  ASSUME ServerInv, Next, crash' # crash
  PROVE  /\ CrashHasCause'
         /\ UNCHANGED <<poolVars, m_status, m_stopped, held, read, write, peer, io, serverVars>>
  <1> DEFINE Rest == UNCHANGED <<poolVars, m_status, m_stopped, held, read, write, peer, io,
                                 serverVars>>
  <1>0. ASSUME NEW id \in Ids, ~Alive(id), m_status[id] # "Invalid", ~Accepting,
               crash' = "use-after-free", Rest
        PROVE  CrashHasCause'
    <2>1. m_status[id] = "Broken" \/ (shut /\ is_connected(id))
      BY <1>0, ConnectedOrDisturbed DEF Alive
    <2>2. Alive(id)' = Alive(id) /\ m_status' = m_status /\ shut' = shut
      BY <1>0 DEF Alive, poolVars, serverVars
    <2> QED
      BY <1>0, <2>1, <2>2 DEF CrashHasCause, is_connected
  <1>1. CASE Join
    BY <1>1 DEF Join, Owner, CrashHasCause, poolVars, serverVars
  <1>2. CASE IoFind
    <2>1. /\ ~(io.sid \in m_objects /\ is_connected(io.sid))
          /\ io.at = "find" /\ crash' = "terminate" /\ Rest
      BY <1>2 DEF IoFind, IoIn
    <2>2. io.sid \in Ids /\ m_status[io.sid] # "Invalid" /\ ~Accepting
      BY <2>1 DEF ServerInv, WorksForSession, StatusAdvances, Accepting
    <2>3. m_status[io.sid] = "Broken" \/ shut
      BY <2>1, <2>2, ConnectedOrDisturbed
    <2> QED
      BY <2>1, <2>3 DEF CrashHasCause, poolVars, serverVars
  <1>3. CASE Rearm /\ UNCHANGED serverVars
    <2>1. ~Alive(io.sid) /\ io.at = "recheck" /\ crash' = "use-after-free" /\ Rest
      BY <1>3 DEF Rearm, IoIn, UseAfterFree
    <2>2. io.sid \in Ids /\ m_status[io.sid] # "Invalid" /\ ~Accepting
      BY <2>1 DEF ServerInv, WorksForSession, StatusAdvances, Accepting
    <2> QED
      BY <1>0, <2>1, <2>2
  <1>4. CASE \E id \in Ids : /\ HandleRead(id) \/ DoSendMsg(id) \/ HandleWrite(id)
                             /\ UNCHANGED serverVars
    <2>1. PICK id \in Ids : /\ HandleRead(id) \/ DoSendMsg(id) \/ HandleWrite(id)
                            /\ UNCHANGED serverVars
      BY <1>4
    <2>2. ~Alive(id) /\ io.at = "idle" /\ crash' = "use-after-free" /\ Rest
      BY <2>1 DEF HandleRead, DoSendMsg, HandleWrite, IoFree, UseAfterFree
    <2>3. m_status[id] # "Invalid" /\ ~Accepting
      BY <2>1, <2>2 DEF HandleRead, DoSendMsg, HandleWrite, ReadReady, ServerInv,
                        StatusAdvances, Accepting
    <2> QED
      BY <1>0, <2>2, <2>3
  <1>5. CASE IoNext /\ ~IoFind
    BY <1>5 DEF IoNext, AcceptFailed, AcceptStopped, Accepted, OnConnect, AddObject,
                OnRecvError, IoDisconnect, IoDelObject
  <1>6. CASE Start \/ PeerConnects \/ \E id \in Ids : SendMsg(id)
    BY <1>6 DEF Start, PeerConnects, SendMsg
  <1>7. CASE OnRecvMsg(Destroying) /\ UNCHANGED serverVars
    BY <1>7 DEF OnRecvMsg, IoIn, CrashHasCause, Destroying, poolVars, serverVars
  <1>8. CASE IoExit \/ \E id \in Ids : PeerSends(id) \/ PeerCloses(id)
    BY <1>8 DEF IoExit, PeerSends, PeerCloses
  <1>9. CASE OwnerNext /\ ~Join
    BY <1>9 DEF OwnerNext, DisconnectFound, DelObject, Shutdown, Clear, Destroy,
                StopContext, Disconnect, sessionVars
  <1> QED
    BY <1>1, <1>2, <1>3, <1>4, <1>5, <1>6, <1>7, <1>8, <1>9 DEF Next, Serve, SessionNext

\* When the process ends nothing else changes.
LEMMA ServerInvCrash ==
  ASSUME ServerInv, Next, crash' # crash
  PROVE  ServerInv'
  <1> USE CrashHasCauseNext DEF poolVars, serverVars
  <1>1. TypeOK'
    BY DEF ServerInv, TypeOK, SessionTypeOK, CrashHasCause
  <1>2. /\ WorksForSession' /\ ClearedIsShut' /\ RoomForNext' /\ AcceptedIsNew'
        /\ IdsAreFresh' /\ StatusAdvances'
    BY DEF ServerInv, WorksForSession, RoomForNext, AcceptedIsNew,
           IdsAreFresh, ClearedIsShut, StatusAdvances, Accepting
  <1>3. AlwaysAccepting' /\ ConnectedIsOwned' /\ NoZombies' /\ CrashHasCause'
    BY DEF ServerInv, AlwaysAccepting, ConnectedIsOwned, NoZombies,
           is_connected
  <1> QED
    BY <1>1, <1>2, <1>3 DEF ServerInv

\* No step is taken after the end of the process.
LEMMA ServerRuns == ASSUME Next PROVE crash = "none"
  <1>1. CASE IoNext \/ Start \/ PeerConnects \/ \E id \in Ids : SendMsg(id)
    BY <1>1 DEF IoNext, AcceptFailed, AcceptStopped, Accepted, OnConnect, AddObject,
                OnRecvError, IoFind, IoDisconnect, IoDelObject, Start, PeerConnects, SendMsg,
                IoFree, IoIn, Owner
  <1>2. CASE SessionNext(Destroying)
    BY <1>2 DEF SessionNext, OnRecvMsg, Rearm, IoExit, HandleRead, DoSendMsg, HandleWrite,
                PeerSends, PeerCloses, IoFree, IoIn
  <1>3. CASE OwnerNext
    BY <1>3 DEF OwnerNext, DisconnectFound, DelObject, Shutdown, Clear, Destroy,
                StopContext, Join, Disconnect, Owner
  <1> QED
    BY <1>1, <1>2, <1>3 DEF Next, Serve

\* Every step of the owner, the io thread and the peers keeps the invariant, also
\* the one that ends the process.
LEMMA ServerInvNext == ServerInv /\ [Next]_vars => ServerInv'
  <1> SUFFICES ASSUME ServerInv, [Next]_vars PROVE ServerInv'
    OBVIOUS
  <1>1. CASE Next /\ crash' = crash
    <2>1. CrashHasCause'
      BY <1>1, ServerRuns DEF CrashHasCause
    <2> QED
      BY <1>1, <2>1, ServerTypeNext, ServerPlacesNext, ServerIdsNext, ServerStatusNext,
         ServerKeptNext DEF ServerInv
  <1>2. CASE Next /\ crash' # crash
    BY <1>2, ServerInvCrash
  <1>3. CASE UNCHANGED vars
    <2> USE <1>3 DEF vars, sessionVars, serverVars
    <2>1. TypeOK'
      BY DEF ServerInv, TypeOK, SessionTypeOK
    <2>2. /\ WorksForSession' /\ ClearedIsShut' /\ RoomForNext' /\ AcceptedIsNew'
          /\ IdsAreFresh' /\ StatusAdvances'
      BY DEF ServerInv, WorksForSession, RoomForNext, AcceptedIsNew,
             IdsAreFresh, ClearedIsShut, StatusAdvances, Accepting
    <2>3. AlwaysAccepting' /\ ConnectedIsOwned' /\ NoZombies' /\ CrashHasCause'
      BY DEF ServerInv, AlwaysAccepting, ConnectedIsOwned, NoZombies,
             CrashHasCause, is_connected, Alive, Destroying
    <2> QED
      BY <2>1, <2>2, <2>3 DEF ServerInv
  <1> QED
    BY <1>1, <1>2, <1>3

\* The invariant holds in every reachable state.
LEMMA ServerInvariant == Spec => []ServerInv
  BY ServerInvInit, ServerInvNext, PTL DEF Spec

-----------------------------------------------------------------------------
(* Theorems. *)

\* The state of the server is well typed: ids stay below the bound, at most one
\* object is captured by an accept handler (server.h:143-165).
THEOREM ServerTypeCorrect == Spec => []TypeOK
  <1>1. ServerInv => TypeOK
    BY DEF ServerInv
  <1> QED
    BY <1>1, ServerInvariant, PTL

\* Until it is shut down, a running server never stops accepting, whatever errors
\* accepts report and whatever the owner does (server.h:146-165).
THEOREM ServerAlwaysAccepts == Spec => []AlwaysAccepting
  <1>1. ServerInv => AlwaysAccepting
    BY DEF ServerInv
  <1> QED
    BY <1>1, ServerInvariant, PTL

\* A connected session of a server that is not shut down is never lost to the map
\* (server.h:111-127, 158-162).
THEOREM ConnectedSessionsAreOwned == Spec => []ConnectedIsOwned
  <1>1. ServerInv => ConnectedIsOwned
    BY DEF ServerInv
  <1> QED
    BY <1>1, ServerInvariant, PTL

\* A disconnected session does not stay in the map, although both threads
\* disconnect and delete without a common lock (server.h:99-127).
THEOREM NoZombiesStay == Spec => []NoZombies
  <1>1. ServerInv => NoZombies
    BY DEF ServerInv
  <1> QED
    BY <1>1, ServerInvariant, PTL

\* Whatever the threads and the peers do, the process of a server ends only where a
\* session is destroyed under its handlers, a disconnect does not find its session, a
\* read is reported during destruction, or nothing was started (server.h:111-135,
\* session.h:70-123, session_pool.h:20-24).
THEOREM ServerCrashesHaveCauses == Spec => []CrashHasCause
  <1>1. ServerInv => CrashHasCause
    BY DEF ServerInv
  <1> QED
    BY <1>1, ServerInvariant, PTL
=============================================================================
