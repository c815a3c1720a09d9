---------------------------- MODULE ClientProofs ----------------------------
(***************************************************************************)
(* Proofs about tcp::client and about http::client over it, for any number *)
(* of sessions and requests and any size of a request.  The invariant      *)
(* about the variables of TcpClient is shown to be kept by the steps of    *)
(* both specifications; on it rest what is shown of http::client: types,   *)
(* that no answer is lost, that reads of one answer of told length make    *)
(* whole responses, and that a request to which nothing unusual happens    *)
(* returns the answer to itself.                                           *)
(***************************************************************************)
EXTENDS HttpClient, WellFoundedInduction, TLAPS

USE MaxSessionsAssumption

-----------------------------------------------------------------------------
(* The inductive invariant of tcp::client. *)

\* A handler in progress works for a session.
IoHasSession == io.at = "idle" <=> io.sid = None

\* The weak_ptr refers to the session that was created last.
RefIsNewest == m_session_ref = IF m_sequence_id = 0 THEN None ELSE m_sequence_id - 1

\* An id that was not given out is the id of no session.
IdsAreFresh ==
  \A id \in Ids : id >= m_sequence_id =>
    m_status[id] = "Invalid" /\ conn[id] = "none" /\ id \notin m_objects

\* A session was connected, and may have been disconnected since.
WasConnected(id) == m_status[id] \in {"Connected", "Broken"}

\* A session is connected at most once; what is read or written is of a session
\* that was connected, and so is what the handlers of the receive loop work for.
StatusAdvances ==
  /\ \A id \in Ids : /\ conn[id] # "none" => m_status[id] = "Invalid"
                     /\ read[id] # "none" \/ write[id] # "none" => WasConnected(id)
  /\ io.at \in {"on_connect_fail", "del_object"} => m_status[io.sid] = "Connectfail"
  /\ io.at \notin {"idle", "on_connect_fail", "del_object"} => WasConnected(io.sid)

\* The map keeps every session but the ones whose connection failed, and those
\* until their handler ends.
MapKeepsSessions ==
  owner # "gone" =>
    \A id \in Ids : id < m_sequence_id =>
      id \in m_objects \/ (m_status[id] = "Connectfail" /\ io.sid # id)

\* connect() has armed the first read before on_connect is called.
FirstRead ==
  io.at = "on_connect" /\ is_connected(io.sid) => m_stopped[io.sid] \/ read[io.sid] # "none"

\* From async_connect until it was notified, sync_connect has an outcome to wait
\* for, although the handler may run before the wait.
OutcomeIsAwaited ==
  /\ owner \in {"connecting", "started", "waiting"} => m_sequence_id > 0
  /\ owner \in {"connecting", "started"} \/ (owner = "waiting" /\ ~notified) =>
       \/ conn[m_session_ref] # "none"
       \/ io.at \in {"on_connect", "on_connect_fail"} /\ io.sid = m_session_ref

\* No thread is started before the first sync_connect, and only the destructor joins
\* the thread.
ThreadLifetime ==
  /\ m_sequence_id = 0 => m_context = "none"
  /\ m_sequence_id = 1 /\ owner = "connecting" => m_context = "none"
  /\ owner \in {"~client", "~session_pool", "joining", "gone"} => destroying

ClientInv == /\ TypeOK
             /\ IoHasSession /\ RefIsNewest /\ IdsAreFresh
             /\ StatusAdvances /\ MapKeepsSessions
             /\ FirstRead /\ ConnectedIsRead
             /\ OutcomeIsAwaited
             /\ ThreadLifetime /\ ClientCrashHasCause

\* A step of tcp::client, alone or under http::client.
ClientStep == Next \/ HttpNext

\* The value for no session is the id of no session.
LEMMA NoneIsNoId == None \notin Ids
  BY DEF None, Ids

\* The initial state satisfies the invariant.
LEMMA ClientInvInit == Init => ClientInv
  <1> SUFFICES ASSUME Init PROVE ClientInv
    OBVIOUS
  <1> USE DEF Init, SessionInit
  <1>1. TypeOK
    <2>1. SessionTypeOK
      BY DEF SessionTypeOK, Ids, None, Threads, link_status
    <2>2. destroying \in BOOLEAN /\ notified \in BOOLEAN
      OBVIOUS
    <2> QED
      BY <2>1, <2>2 DEF TypeOK
  <1>2. IoHasSession /\ RefIsNewest /\ IdsAreFresh /\ StatusAdvances /\ MapKeepsSessions
    BY DEF IoHasSession, RefIsNewest, IdsAreFresh, StatusAdvances, MapKeepsSessions, Ids
  <1>3. FirstRead /\ ConnectedIsRead /\ OutcomeIsAwaited /\ ThreadLifetime /\ ClientCrashHasCause
    BY DEF FirstRead, ConnectedIsRead, OutcomeIsAwaited, ThreadLifetime, ClientCrashHasCause,
           is_connected
  <1> QED
    BY <1>1, <1>2, <1>3 DEF ClientInv

-----------------------------------------------------------------------------
(* The steps that do not end the process, conjunct by conjunct. *)

\* Every step of connect, send, receive and shutdown keeps the types: a handler
\* works for a session that connect() has created (tcp/client.h:26-84).
LEMMA ClientTypeNext ==
  ASSUME ClientInv, ClientStep, crash' = crash
  PROVE  TypeOK'
  <1> USE DEF ClientInv, TypeOK, SessionTypeOK, IoHasSession, Threads, link_status,
              RefIsNewest
  <1> USE NoneIsNoId DEF IoFree, IoIn, IoAt, IoIdle, Owner, poolVars, sessionVars, clientVars
  <1>1. CASE Connect
    BY <1>1 DEF Connect, AddObject, Ids
  <1>2. CASE ResolveThrows
    BY <1>2 DEF ResolveThrows, AddObject, Ids
  <1>3. CASE Run
    BY <1>3 DEF Run, Crash
  <1>4. CASE WaitFor
    BY <1>4 DEF WaitFor
  <1>5. CASE Woken \/ TimeOut
    BY <1>5 DEF Woken, TimeOut, Answer
  <1>6. CASE SendMsg
    BY <1>6 DEF SendMsg
  <1>7. CASE Shutdown
    <2>1. Disconnect /\ owner # "gone"
      BY <1>7 DEF Shutdown, AssertSession, Crash
    <2> QED
      BY <2>1 DEF Disconnect, DisconnectSession
  <1>8. CASE OnDisconnect
    BY <1>8 DEF OnDisconnect
  <1>9. CASE Destroy
    BY <1>9 DEF Destroy
  <1>10. CASE DestroyClient
    <2>1. CASE Disconnect
      BY <1>10, <2>1 DEF DestroyClient, Disconnect, DisconnectSession
    <2>2. CASE ~Disconnect
      BY <1>10, <2>2 DEF DestroyClient, AssertSession, Crash
    <2> QED
      BY <2>1, <2>2
  <1>11. CASE StopContext
    BY <1>11 DEF StopContext
  <1>12. CASE Join
    BY <1>12 DEF Join, Crash
  <1>13. CASE OnConnect
    BY <1>13 DEF OnConnect, Notify
  <1>14. CASE OnConnectFail
    BY <1>14 DEF OnConnectFail, Notify
  <1>15. CASE DelObject
    BY <1>15 DEF DelObject
  <1>16. CASE OnRecvError
    BY <1>16 DEF OnRecvError
  <1>17. CASE \E id \in Ids : Accepted(id) \/ Refused(id)
    BY <1>17 DEF Accepted, Refused
  <1>18. CASE \E id \in Ids : HandleConnect(id)
    BY <1>18 DEF HandleConnect, ConnectSession, Armed
  <1>19. CASE OnRecvMsg(destroying) /\ UNCHANGED clientVars
    BY <1>19 DEF OnRecvMsg
  <1>20. CASE Rearm /\ UNCHANGED clientVars
    BY <1>20 DEF Rearm, Armed, UseAfterFree
  <1>21. CASE IoExit /\ UNCHANGED clientVars
    BY <1>21 DEF IoExit
  <1>22. CASE \E id \in Ids : HandleRead(id) /\ UNCHANGED clientVars
    BY <1>22 DEF HandleRead, ReadReady, UseAfterFree
  <1>23. CASE \E id \in Ids : (DoSendMsg(id) \/ HandleWrite(id)) /\ UNCHANGED clientVars
    BY <1>23 DEF DoSendMsg, HandleWrite, UseAfterFree
  <1>24. CASE \E id \in Ids : (PeerSends(id) \/ PeerCloses(id)) /\ UNCHANGED clientVars
    BY <1>24 DEF PeerSends, PeerCloses
  <1>25. CASE Request
    BY <1>25 DEF Request
  <1>26. CASE Connects
    BY <1>26 DEF Connects
  <1>27. CASE Await
    BY <1>27 DEF Await
  <1>28. CASE Send
    BY <1>28 DEF Send, Connected
  <1>29. CASE Answered \/ SpuriousAnswer \/ RequestTimeout
    BY <1>29 DEF Answered, SpuriousAnswer, RequestTimeout, ReturnWith
  <1>30. CASE \E n \in 1 .. Len(stream) : OnReceive(n)
    BY <1>30 DEF OnReceive
  <1>31. CASE Store
    BY <1>31 DEF Store
  <1>32. CASE NotifyAnswer
    BY <1>32 DEF NotifyAnswer, Notify
  <1>33. CASE UNCHANGED vars
    BY <1>33 DEF vars
  <1>34. CASE \E id \in Ids : HttpSendsFreed(id)
    BY <1>34 DEF HttpSendsFreed, Crash
  <1>35. CASE MembersGone
    BY <1>35 DEF MembersGone, Crash
  <1> QED
    BY <1>1, <1>2, <1>3, <1>4, <1>5, <1>6, <1>7, <1>8, <1>9, <1>10, <1>11, <1>12, <1>13,
       <1>14, <1>15, <1>16, <1>17, <1>18, <1>19, <1>20, <1>21, <1>22, <1>23, <1>24, <1>25,
       <1>26, <1>27, <1>28, <1>29, <1>30, <1>31, <1>32, <1>33, <1>34, <1>35
    DEF ClientStep, Next, OwnerNext, IoNext, SessionNext, HttpNext, HttpOwnerNext, HttpConnect,
        HttpTimeOut, Application, HttpIoNext, OnReceiveBase, HttpNetwork, PeerAnswers,
        HttpHandlers, HttpDoSendMsg

\* Handlers work for sessions, connect() numbers the sessions upwards, and
\* m_session_ref is the newest one (tcp/client.h:26-55).
LEMMA ClientIdsNext ==
  ASSUME ClientInv, ClientStep, crash' = crash
  PROVE  IoHasSession' /\ RefIsNewest' /\ IdsAreFresh'
  <1> USE DEF ClientInv, TypeOK, SessionTypeOK, IoHasSession, RefIsNewest, IdsAreFresh,
              StatusAdvances, WasConnected
  <1> USE NoneIsNoId DEF IoFree, IoIn, IoAt, IoIdle, Owner, poolVars, sessionVars, clientVars
  <1>1. CASE Connect
    BY <1>1 DEF Connect, AddObject, Ids, None
  <1>2. CASE ResolveThrows
    BY <1>2 DEF ResolveThrows, AddObject, Ids, None
  <1>3. CASE Run
    BY <1>3 DEF Run, Crash
  <1>4. CASE WaitFor
    BY <1>4 DEF WaitFor
  <1>5. CASE Woken \/ TimeOut
    BY <1>5 DEF Woken, TimeOut, Answer
  <1>6. CASE SendMsg
    BY <1>6 DEF SendMsg
  <1>7. CASE Shutdown
    <2>1. Disconnect /\ owner # "gone"
      BY <1>7 DEF Shutdown, AssertSession, Crash
    <2> QED
      BY <2>1 DEF Disconnect, DisconnectSession
  <1>8. CASE OnDisconnect
    BY <1>8 DEF OnDisconnect
  <1>9. CASE Destroy
    BY <1>9 DEF Destroy
  <1>10. CASE DestroyClient
    <2>1. CASE Disconnect
      BY <1>10, <2>1 DEF DestroyClient, Disconnect, DisconnectSession
    <2>2. CASE ~Disconnect
      BY <1>10, <2>2 DEF DestroyClient, AssertSession, Crash
    <2> QED
      BY <2>1, <2>2
  <1>11. CASE StopContext
    BY <1>11 DEF StopContext
  <1>12. CASE Join
    BY <1>12 DEF Join, Crash
  <1>13. CASE OnConnect
    BY <1>13 DEF OnConnect, Notify
  <1>14. CASE OnConnectFail
    BY <1>14 DEF OnConnectFail, Notify
  <1>15. CASE DelObject
    BY <1>15 DEF DelObject
  <1>16. CASE OnRecvError
    BY <1>16 DEF OnRecvError
  <1>17. CASE \E id \in Ids : Accepted(id) \/ Refused(id)
    BY <1>17 DEF Accepted, Refused
  <1>18. CASE \E id \in Ids : HandleConnect(id)
    BY <1>18 DEF HandleConnect, ConnectSession, Armed, Ids, None
  <1>19. CASE OnRecvMsg(destroying) /\ UNCHANGED clientVars
    BY <1>19 DEF OnRecvMsg
  <1>20. CASE Rearm /\ UNCHANGED clientVars
    BY <1>20 DEF Rearm, Armed, UseAfterFree
  <1>21. CASE IoExit /\ UNCHANGED clientVars
    BY <1>21 DEF IoExit
  <1>22. CASE \E id \in Ids : HandleRead(id) /\ UNCHANGED clientVars
    BY <1>22 DEF HandleRead, ReadReady, UseAfterFree, Ids, None
  <1>23. CASE \E id \in Ids : (DoSendMsg(id) \/ HandleWrite(id)) /\ UNCHANGED clientVars
    BY <1>23 DEF DoSendMsg, HandleWrite, UseAfterFree
  <1>24. CASE \E id \in Ids : (PeerSends(id) \/ PeerCloses(id)) /\ UNCHANGED clientVars
    BY <1>24 DEF PeerSends, PeerCloses
  <1>25. CASE Request
    BY <1>25 DEF Request
  <1>26. CASE Connects
    BY <1>26 DEF Connects
  <1>27. CASE Await
    BY <1>27 DEF Await
  <1>28. CASE Send
    BY <1>28 DEF Send, Connected
  <1>29. CASE Answered \/ SpuriousAnswer \/ RequestTimeout
    BY <1>29 DEF Answered, SpuriousAnswer, RequestTimeout, ReturnWith
  <1>30. CASE \E n \in 1 .. Len(stream) : OnReceive(n)
    BY <1>30 DEF OnReceive
  <1>31. CASE Store
    BY <1>31 DEF Store
  <1>32. CASE NotifyAnswer
    BY <1>32 DEF NotifyAnswer, Notify
  <1>33. CASE UNCHANGED vars
    BY <1>33 DEF vars
  <1>34. CASE \E id \in Ids : HttpSendsFreed(id)
    BY <1>34 DEF HttpSendsFreed, Crash
  <1>35. CASE MembersGone
    BY <1>35 DEF MembersGone, Crash
  <1> QED
    BY <1>1, <1>2, <1>3, <1>4, <1>5, <1>6, <1>7, <1>8, <1>9, <1>10, <1>11, <1>12, <1>13,
       <1>14, <1>15, <1>16, <1>17, <1>18, <1>19, <1>20, <1>21, <1>22, <1>23, <1>24, <1>25,
       <1>26, <1>27, <1>28, <1>29, <1>30, <1>31, <1>32, <1>33, <1>34, <1>35
    DEF ClientStep, Next, OwnerNext, IoNext, SessionNext, HttpNext, HttpOwnerNext, HttpConnect,
        HttpTimeOut, Application, HttpIoNext, OnReceiveBase, HttpNetwork, PeerAnswers,
        HttpHandlers, HttpDoSendMsg

\* A session advances from connecting to connected to broken, and reads and writes
\* start only after it was connected (session.h:36-123).
LEMMA ClientStatusNext ==
  ASSUME ClientInv, ClientStep, crash' = crash
  PROVE  StatusAdvances'
  <1> USE DEF ClientInv, TypeOK, SessionTypeOK, IoHasSession, IdsAreFresh, StatusAdvances,
              WasConnected, is_connected
  <1> USE NoneIsNoId DEF IoFree, IoIn, IoAt, IoIdle, Owner, poolVars, sessionVars, clientVars
  <1>1. CASE Connect
    BY <1>1 DEF Connect, AddObject, Ids, None
  <1>2. CASE ResolveThrows
    BY <1>2 DEF ResolveThrows, AddObject, Ids, None
  <1>3. CASE Run
    BY <1>3 DEF Run, Crash
  <1>4. CASE WaitFor
    BY <1>4 DEF WaitFor
  <1>5. CASE Woken \/ TimeOut
    BY <1>5 DEF Woken, TimeOut, Answer
  <1>6. CASE SendMsg
    BY <1>6 DEF SendMsg
  <1>7. CASE Shutdown
    <2>1. Disconnect /\ owner # "gone"
      BY <1>7 DEF Shutdown, AssertSession, Crash
    <2> QED
      BY <2>1 DEF Disconnect, DisconnectSession
  <1>8. CASE OnDisconnect
    BY <1>8 DEF OnDisconnect
  <1>9. CASE Destroy
    BY <1>9 DEF Destroy
  <1>10. CASE DestroyClient
    <2>1. CASE Disconnect
      BY <1>10, <2>1 DEF DestroyClient, Disconnect, DisconnectSession
    <2>2. CASE ~Disconnect
      BY <1>10, <2>2 DEF DestroyClient, AssertSession, Crash
    <2> QED
      BY <2>1, <2>2
  <1>11. CASE StopContext
    BY <1>11 DEF StopContext
  <1>12. CASE Join
    BY <1>12 DEF Join, Crash
  <1>13. CASE OnConnect
    BY <1>13 DEF OnConnect, Notify
  <1>14. CASE OnConnectFail
    BY <1>14 DEF OnConnectFail, Notify
  <1>15. CASE DelObject
    BY <1>15 DEF DelObject
  <1>16. CASE OnRecvError
    BY <1>16 DEF OnRecvError
  <1>17. CASE \E id \in Ids : Accepted(id) \/ Refused(id)
    BY <1>17 DEF Accepted, Refused
  <1>18. CASE \E id \in Ids : HandleConnect(id)
    BY <1>18 DEF HandleConnect, ConnectSession, Armed
  <1>19. CASE OnRecvMsg(destroying) /\ UNCHANGED clientVars
    BY <1>19 DEF OnRecvMsg
  <1>20. CASE Rearm /\ UNCHANGED clientVars
    BY <1>20 DEF Rearm, Armed, UseAfterFree
  <1>21. CASE IoExit /\ UNCHANGED clientVars
    BY <1>21 DEF IoExit
  <1>22. CASE \E id \in Ids : HandleRead(id) /\ UNCHANGED clientVars
    BY <1>22 DEF HandleRead, ReadReady, UseAfterFree
  <1>23. CASE \E id \in Ids : (DoSendMsg(id) \/ HandleWrite(id)) /\ UNCHANGED clientVars
    BY <1>23 DEF DoSendMsg, HandleWrite, UseAfterFree
  <1>24. CASE \E id \in Ids : (PeerSends(id) \/ PeerCloses(id)) /\ UNCHANGED clientVars
    BY <1>24 DEF PeerSends, PeerCloses
  <1>25. CASE Request
    BY <1>25 DEF Request
  <1>26. CASE Connects
    BY <1>26 DEF Connects
  <1>27. CASE Await
    BY <1>27 DEF Await
  <1>28. CASE Send
    BY <1>28 DEF Send, Connected
  <1>29. CASE Answered \/ SpuriousAnswer \/ RequestTimeout
    BY <1>29 DEF Answered, SpuriousAnswer, RequestTimeout, ReturnWith
  <1>30. CASE \E n \in 1 .. Len(stream) : OnReceive(n)
    BY <1>30 DEF OnReceive
  <1>31. CASE Store
    BY <1>31 DEF Store
  <1>32. CASE NotifyAnswer
    BY <1>32 DEF NotifyAnswer, Notify
  <1>33. CASE UNCHANGED vars
    BY <1>33 DEF vars
  <1>34. CASE \E id \in Ids : HttpSendsFreed(id)
    BY <1>34 DEF HttpSendsFreed, Crash
  <1>35. CASE MembersGone
    BY <1>35 DEF MembersGone, Crash
  <1> QED
    BY <1>1, <1>2, <1>3, <1>4, <1>5, <1>6, <1>7, <1>8, <1>9, <1>10, <1>11, <1>12, <1>13,
       <1>14, <1>15, <1>16, <1>17, <1>18, <1>19, <1>20, <1>21, <1>22, <1>23, <1>24, <1>25,
       <1>26, <1>27, <1>28, <1>29, <1>30, <1>31, <1>32, <1>33, <1>34, <1>35
    DEF ClientStep, Next, OwnerNext, IoNext, SessionNext, HttpNext, HttpOwnerNext, HttpConnect,
        HttpTimeOut, Application, HttpIoNext, OnReceiveBase, HttpNetwork, PeerAnswers,
        HttpHandlers, HttpDoSendMsg

\* del_object takes only sessions out of the map whose connection failed, and the
\* handler that does so is the last one to use them (tcp/client.h:42-52).
LEMMA ClientMapNext ==
  ASSUME ClientInv, ClientStep, crash' = crash
  PROVE  MapKeepsSessions'
  <1> USE DEF ClientInv, TypeOK, SessionTypeOK, IoHasSession, IdsAreFresh, StatusAdvances,
              WasConnected, is_connected, MapKeepsSessions
  <1> USE NoneIsNoId DEF IoFree, IoIn, IoAt, IoIdle, Owner, poolVars, sessionVars, clientVars
  <1>1. CASE Connect
    BY <1>1 DEF Connect, AddObject, Ids, None
  <1>2. CASE ResolveThrows
    BY <1>2 DEF ResolveThrows, AddObject, Ids, None
  <1>3. CASE Run
    BY <1>3 DEF Run, Crash
  <1>4. CASE WaitFor
    BY <1>4 DEF WaitFor
  <1>5. CASE Woken \/ TimeOut
    BY <1>5 DEF Woken, TimeOut, Answer
  <1>6. CASE SendMsg
    BY <1>6 DEF SendMsg
  <1>7. CASE Shutdown
    <2>1. Disconnect /\ owner # "gone"
      BY <1>7 DEF Shutdown, AssertSession, Crash
    <2> QED
      BY <2>1 DEF Disconnect, DisconnectSession
  <1>8. CASE OnDisconnect
    BY <1>8 DEF OnDisconnect
  <1>9. CASE Destroy
    BY <1>9 DEF Destroy
  <1>10. CASE DestroyClient
    <2>1. CASE Disconnect
      BY <1>10, <2>1 DEF DestroyClient, Disconnect, DisconnectSession
    <2>2. CASE ~Disconnect
      BY <1>10, <2>2 DEF DestroyClient, AssertSession, Crash
    <2> QED
      BY <2>1, <2>2
  <1>11. CASE StopContext
    BY <1>11 DEF StopContext
  <1>12. CASE Join
    BY <1>12 DEF Join, Crash
  <1>13. CASE OnConnect
    BY <1>13 DEF OnConnect, Notify
  <1>14. CASE OnConnectFail
    BY <1>14 DEF OnConnectFail, Notify
  <1>15. CASE DelObject
    BY <1>15 DEF DelObject
  <1>16. CASE OnRecvError
    BY <1>16 DEF OnRecvError
  <1>17. CASE \E id \in Ids : Accepted(id) \/ Refused(id)
    BY <1>17 DEF Accepted, Refused
  <1>18. CASE \E id \in Ids : HandleConnect(id)
    BY <1>18 DEF HandleConnect, ConnectSession, Armed
  <1>19. CASE OnRecvMsg(destroying) /\ UNCHANGED clientVars
    BY <1>19 DEF OnRecvMsg
  <1>20. CASE Rearm /\ UNCHANGED clientVars
    BY <1>20 DEF Rearm, Armed, UseAfterFree
  <1>21. CASE IoExit /\ UNCHANGED clientVars
    BY <1>21 DEF IoExit
  <1>22. CASE \E id \in Ids : HandleRead(id) /\ UNCHANGED clientVars
    BY <1>22 DEF HandleRead, ReadReady, UseAfterFree
  <1>23. CASE \E id \in Ids : (DoSendMsg(id) \/ HandleWrite(id)) /\ UNCHANGED clientVars
    BY <1>23 DEF DoSendMsg, HandleWrite, UseAfterFree
  <1>24. CASE \E id \in Ids : (PeerSends(id) \/ PeerCloses(id)) /\ UNCHANGED clientVars
    BY <1>24 DEF PeerSends, PeerCloses
  <1>25. CASE Request
    BY <1>25 DEF Request
  <1>26. CASE Connects
    BY <1>26 DEF Connects
  <1>27. CASE Await
    BY <1>27 DEF Await
  <1>28. CASE Send
    BY <1>28 DEF Send, Connected
  <1>29. CASE Answered \/ SpuriousAnswer \/ RequestTimeout
    BY <1>29 DEF Answered, SpuriousAnswer, RequestTimeout, ReturnWith
  <1>30. CASE \E n \in 1 .. Len(stream) : OnReceive(n)
    BY <1>30 DEF OnReceive
  <1>31. CASE Store
    BY <1>31 DEF Store
  <1>32. CASE NotifyAnswer
    BY <1>32 DEF NotifyAnswer, Notify
  <1>33. CASE UNCHANGED vars
    BY <1>33 DEF vars
  <1>34. CASE \E id \in Ids : HttpSendsFreed(id)
    BY <1>34 DEF HttpSendsFreed, Crash
  <1>35. CASE MembersGone
    BY <1>35 DEF MembersGone, Crash
  <1> QED
    BY <1>1, <1>2, <1>3, <1>4, <1>5, <1>6, <1>7, <1>8, <1>9, <1>10, <1>11, <1>12, <1>13,
       <1>14, <1>15, <1>16, <1>17, <1>18, <1>19, <1>20, <1>21, <1>22, <1>23, <1>24, <1>25,
       <1>26, <1>27, <1>28, <1>29, <1>30, <1>31, <1>32, <1>33, <1>34, <1>35
    DEF ClientStep, Next, OwnerNext, IoNext, SessionNext, HttpNext, HttpOwnerNext, HttpConnect,
        HttpTimeOut, Application, HttpIoNext, OnReceiveBase, HttpNetwork, PeerAnswers,
        HttpHandlers, HttpDoSendMsg

\* Each handler of the receive loop starts the next read before it ends, unless the
\* session was stopped (session.h:101-123).
LEMMA ClientReadNext ==
  ASSUME ClientInv, ClientStep, crash' = crash
  PROVE  FirstRead' /\ ConnectedIsRead'
  <1> USE DEF ClientInv, TypeOK, SessionTypeOK, IoHasSession, IdsAreFresh, StatusAdvances,
              WasConnected, is_connected, FirstRead, ConnectedIsRead
  <1> USE NoneIsNoId DEF IoFree, IoIn, IoAt, IoIdle, Owner, poolVars, sessionVars, clientVars
  <1>1. CASE Connect
    BY <1>1 DEF Connect, AddObject
  <1>2. CASE ResolveThrows
    BY <1>2 DEF ResolveThrows, AddObject
  <1>3. CASE Run
    BY <1>3 DEF Run, Crash
  <1>4. CASE WaitFor
    BY <1>4 DEF WaitFor
  <1>5. CASE Woken \/ TimeOut
    BY <1>5 DEF Woken, TimeOut, Answer
  <1>6. CASE SendMsg
    BY <1>6 DEF SendMsg
  <1>7. CASE Shutdown
    <2>1. Disconnect /\ owner # "gone"
      BY <1>7 DEF Shutdown, AssertSession, Crash
    <2> QED
      BY <2>1 DEF Disconnect, DisconnectSession
  <1>8. CASE OnDisconnect
    BY <1>8 DEF OnDisconnect
  <1>9. CASE Destroy
    BY <1>9 DEF Destroy
  <1>10. CASE DestroyClient
    <2>1. CASE Disconnect
      BY <1>10, <2>1 DEF DestroyClient, Disconnect, DisconnectSession
    <2>2. CASE ~Disconnect
      BY <1>10, <2>2 DEF DestroyClient, AssertSession, Crash
    <2> QED
      BY <2>1, <2>2
  <1>11. CASE StopContext
    BY <1>11 DEF StopContext
  <1>12. CASE Join
    BY <1>12 DEF Join, Crash
  <1>13. CASE OnConnect
    BY <1>13 DEF OnConnect, Notify
  <1>14. CASE OnConnectFail
    BY <1>14 DEF OnConnectFail, Notify
  <1>15. CASE DelObject
    BY <1>15 DEF DelObject
  <1>16. CASE OnRecvError
    BY <1>16 DEF OnRecvError
  <1>17. CASE \E id \in Ids : Accepted(id) \/ Refused(id)
    BY <1>17 DEF Accepted, Refused
  <1>18. CASE \E id \in Ids : HandleConnect(id)
    BY <1>18 DEF HandleConnect, ConnectSession, Armed
  <1>19. CASE OnRecvMsg(destroying) /\ UNCHANGED clientVars
    BY <1>19 DEF OnRecvMsg
  <1>20. CASE Rearm /\ UNCHANGED clientVars
    BY <1>20 DEF Rearm, Armed, UseAfterFree
  <1>21. CASE IoExit /\ UNCHANGED clientVars
    BY <1>21 DEF IoExit
  <1>22. CASE \E id \in Ids : HandleRead(id) /\ UNCHANGED clientVars
    BY <1>22 DEF HandleRead, ReadReady, UseAfterFree
  <1>23. CASE \E id \in Ids : (DoSendMsg(id) \/ HandleWrite(id)) /\ UNCHANGED clientVars
    BY <1>23 DEF DoSendMsg, HandleWrite, UseAfterFree
  <1>24. CASE \E id \in Ids : (PeerSends(id) \/ PeerCloses(id)) /\ UNCHANGED clientVars
    BY <1>24 DEF PeerSends, PeerCloses
  <1>25. CASE Request
    BY <1>25 DEF Request
  <1>26. CASE Connects
    BY <1>26 DEF Connects
  <1>27. CASE Await
    BY <1>27 DEF Await
  <1>28. CASE Send
    BY <1>28 DEF Send, Connected
  <1>29. CASE Answered \/ SpuriousAnswer \/ RequestTimeout
    BY <1>29 DEF Answered, SpuriousAnswer, RequestTimeout, ReturnWith
  <1>30. CASE \E n \in 1 .. Len(stream) : OnReceive(n)
    BY <1>30 DEF OnReceive
  <1>31. CASE Store
    BY <1>31 DEF Store
  <1>32. CASE NotifyAnswer
    BY <1>32 DEF NotifyAnswer, Notify
  <1>33. CASE UNCHANGED vars
    BY <1>33 DEF vars
  <1>34. CASE \E id \in Ids : HttpSendsFreed(id)
    BY <1>34 DEF HttpSendsFreed, Crash
  <1>35. CASE MembersGone
    BY <1>35 DEF MembersGone, Crash
  <1> QED
    BY <1>1, <1>2, <1>3, <1>4, <1>5, <1>6, <1>7, <1>8, <1>9, <1>10, <1>11, <1>12, <1>13,
       <1>14, <1>15, <1>16, <1>17, <1>18, <1>19, <1>20, <1>21, <1>22, <1>23, <1>24, <1>25,
       <1>26, <1>27, <1>28, <1>29, <1>30, <1>31, <1>32, <1>33, <1>34, <1>35
    DEF ClientStep, Next, OwnerNext, IoNext, SessionNext, HttpNext, HttpOwnerNext, HttpConnect,
        HttpTimeOut, Application, HttpIoNext, OnReceiveBase, HttpNetwork, PeerAnswers,
        HttpHandlers, HttpDoSendMsg

\* While sync_connect waits un-notified, the connection it waits for is outstanding
\* or its handler is under way (easy_tcp/client.h:17-27, 37-51).
LEMMA ClientWaitNext ==
  ASSUME ClientInv, ClientStep, crash' = crash
  PROVE  OutcomeIsAwaited'
  <1> USE DEF ClientInv, TypeOK, SessionTypeOK, IoHasSession, RefIsNewest,
              OutcomeIsAwaited, Locked, Waits, Ids, None
  <1> USE NoneIsNoId DEF IoFree, IoIn, IoAt, IoIdle, Owner, poolVars, sessionVars, clientVars
  <1>1. CASE Connect
    BY <1>1 DEF Connect, AddObject
  <1>2. CASE ResolveThrows
    BY <1>2 DEF ResolveThrows, AddObject
  <1>3. CASE Run
    BY <1>3 DEF Run, Crash
  <1>4. CASE WaitFor
    BY <1>4 DEF WaitFor
  <1>5. CASE Woken \/ TimeOut
    BY <1>5 DEF Woken, TimeOut, Answer
  <1>6. CASE SendMsg
    BY <1>6 DEF SendMsg
  <1>7. CASE Shutdown
    <2>1. Disconnect /\ owner # "gone"
      BY <1>7 DEF Shutdown, AssertSession, Crash
    <2> QED
      BY <2>1 DEF Disconnect, DisconnectSession
  <1>8. CASE OnDisconnect
    BY <1>8 DEF OnDisconnect
  <1>9. CASE Destroy
    BY <1>9 DEF Destroy
  <1>10. CASE DestroyClient
    <2>1. CASE Disconnect
      BY <1>10, <2>1 DEF DestroyClient, Disconnect, DisconnectSession
    <2>2. CASE ~Disconnect
      BY <1>10, <2>2 DEF DestroyClient, AssertSession, Crash
    <2> QED
      BY <2>1, <2>2
  <1>11. CASE StopContext
    BY <1>11 DEF StopContext
  <1>12. CASE Join
    BY <1>12 DEF Join, Crash
  <1>13. CASE OnConnect
    BY <1>13 DEF OnConnect, Notify
  <1>14. CASE OnConnectFail
    BY <1>14 DEF OnConnectFail, Notify
  <1>15. CASE DelObject
    BY <1>15 DEF DelObject
  <1>16. CASE OnRecvError
    BY <1>16 DEF OnRecvError
  <1>17. CASE \E id \in Ids : Accepted(id) \/ Refused(id)
    BY <1>17 DEF Accepted, Refused
  <1>18. CASE \E id \in Ids : HandleConnect(id)
    BY <1>18 DEF HandleConnect, ConnectSession, Armed
  <1>19. CASE OnRecvMsg(destroying) /\ UNCHANGED clientVars
    BY <1>19 DEF OnRecvMsg
  <1>20. CASE Rearm /\ UNCHANGED clientVars
    BY <1>20 DEF Rearm, Armed, UseAfterFree
  <1>21. CASE IoExit /\ UNCHANGED clientVars
    BY <1>21 DEF IoExit
  <1>22. CASE \E id \in Ids : HandleRead(id) /\ UNCHANGED clientVars
    BY <1>22 DEF HandleRead, ReadReady, UseAfterFree
  <1>23. CASE \E id \in Ids : (DoSendMsg(id) \/ HandleWrite(id)) /\ UNCHANGED clientVars
    BY <1>23 DEF DoSendMsg, HandleWrite, UseAfterFree
  <1>24. CASE \E id \in Ids : (PeerSends(id) \/ PeerCloses(id)) /\ UNCHANGED clientVars
    BY <1>24 DEF PeerSends, PeerCloses
  <1>25. CASE Request
    BY <1>25 DEF Request
  <1>26. CASE Connects
    BY <1>26 DEF Connects
  <1>27. CASE Await
    BY <1>27 DEF Await
  <1>28. CASE Send
    BY <1>28 DEF Send, Connected
  <1>29. CASE Answered \/ SpuriousAnswer \/ RequestTimeout
    BY <1>29 DEF Answered, SpuriousAnswer, RequestTimeout, ReturnWith
  <1>30. CASE \E n \in 1 .. Len(stream) : OnReceive(n)
    BY <1>30 DEF OnReceive
  <1>31. CASE Store
    BY <1>31 DEF Store
  <1>32. CASE NotifyAnswer
    BY <1>32 DEF NotifyAnswer, Notify
  <1>33. CASE UNCHANGED vars
    BY <1>33 DEF vars
  <1>34. CASE \E id \in Ids : HttpSendsFreed(id)
    BY <1>34 DEF HttpSendsFreed, Crash
  <1>35. CASE MembersGone
    BY <1>35 DEF MembersGone, Crash
  <1> QED
    BY <1>1, <1>2, <1>3, <1>4, <1>5, <1>6, <1>7, <1>8, <1>9, <1>10, <1>11, <1>12, <1>13,
       <1>14, <1>15, <1>16, <1>17, <1>18, <1>19, <1>20, <1>21, <1>22, <1>23, <1>24, <1>25,
       <1>26, <1>27, <1>28, <1>29, <1>30, <1>31, <1>32, <1>33, <1>34, <1>35
    DEF ClientStep, Next, OwnerNext, IoNext, SessionNext, HttpNext, HttpOwnerNext, HttpConnect,
        HttpTimeOut, Application, HttpIoNext, OnReceiveBase, HttpNetwork, PeerAnswers,
        HttpHandlers, HttpDoSendMsg

\* The io thread is started by the first sync_connect that gets so far, and joined by
\* the destructor (tcp/client.h:26-68, session_pool.h:20-32).
LEMMA ClientThreadNext ==
  ASSUME ClientInv, ClientStep, crash' = crash
  PROVE  ThreadLifetime'
  <1> USE DEF ClientInv, TypeOK, SessionTypeOK, IoHasSession, RefIsNewest, IdsAreFresh,
              StatusAdvances, WasConnected, is_connected, OutcomeIsAwaited, ThreadLifetime,
              Ids, None
  <1> USE NoneIsNoId DEF IoFree, IoIn, IoAt, IoIdle, Owner, poolVars, sessionVars, clientVars
  <1>1. CASE Connect
    BY <1>1 DEF Connect, AddObject
  <1>2. CASE ResolveThrows
    BY <1>2 DEF ResolveThrows, AddObject
  <1>3. CASE Run
    BY <1>3 DEF Run, Crash
  <1>4. CASE WaitFor
    BY <1>4 DEF WaitFor
  <1>5. CASE Woken \/ TimeOut
    BY <1>5 DEF Woken, TimeOut, Answer
  <1>6. CASE SendMsg
    BY <1>6 DEF SendMsg
  <1>7. CASE Shutdown
    <2>1. Disconnect /\ owner # "gone"
      BY <1>7 DEF Shutdown, AssertSession, Crash
    <2> QED
      BY <2>1 DEF Disconnect, DisconnectSession
  <1>8. CASE OnDisconnect
    BY <1>8 DEF OnDisconnect
  <1>9. CASE Destroy
    BY <1>9 DEF Destroy
  <1>10. CASE DestroyClient
    <2>1. CASE Disconnect
      BY <1>10, <2>1 DEF DestroyClient, Disconnect, DisconnectSession
    <2>2. CASE ~Disconnect
      BY <1>10, <2>2 DEF DestroyClient, AssertSession, Crash
    <2> QED
      BY <2>1, <2>2
  <1>11. CASE StopContext
    BY <1>11 DEF StopContext
  <1>12. CASE Join
    BY <1>12 DEF Join, Crash
  <1>13. CASE OnConnect
    BY <1>13 DEF OnConnect, Notify
  <1>14. CASE OnConnectFail
    BY <1>14 DEF OnConnectFail, Notify
  <1>15. CASE DelObject
    BY <1>15 DEF DelObject
  <1>16. CASE OnRecvError
    BY <1>16 DEF OnRecvError
  <1>17. CASE \E id \in Ids : Accepted(id) \/ Refused(id)
    BY <1>17 DEF Accepted, Refused
  <1>18. CASE \E id \in Ids : HandleConnect(id)
    BY <1>18 DEF HandleConnect, ConnectSession, Armed
  <1>19. CASE OnRecvMsg(destroying) /\ UNCHANGED clientVars
    BY <1>19 DEF OnRecvMsg
  <1>20. CASE Rearm /\ UNCHANGED clientVars
    BY <1>20 DEF Rearm, Armed, UseAfterFree
  <1>21. CASE IoExit /\ UNCHANGED clientVars
    BY <1>21 DEF IoExit
  <1>22. CASE \E id \in Ids : HandleRead(id) /\ UNCHANGED clientVars
    BY <1>22 DEF HandleRead, ReadReady, UseAfterFree
  <1>23. CASE \E id \in Ids : (DoSendMsg(id) \/ HandleWrite(id)) /\ UNCHANGED clientVars
    BY <1>23 DEF DoSendMsg, HandleWrite, UseAfterFree
  <1>24. CASE \E id \in Ids : (PeerSends(id) \/ PeerCloses(id)) /\ UNCHANGED clientVars
    BY <1>24 DEF PeerSends, PeerCloses
  <1>25. CASE Request
    BY <1>25 DEF Request
  <1>26. CASE Connects
    BY <1>26 DEF Connects
  <1>27. CASE Await
    BY <1>27 DEF Await
  <1>28. CASE Send
    BY <1>28 DEF Send, Connected
  <1>29. CASE Answered \/ SpuriousAnswer \/ RequestTimeout
    BY <1>29 DEF Answered, SpuriousAnswer, RequestTimeout, ReturnWith
  <1>30. CASE \E n \in 1 .. Len(stream) : OnReceive(n)
    BY <1>30 DEF OnReceive
  <1>31. CASE Store
    BY <1>31 DEF Store
  <1>32. CASE NotifyAnswer
    BY <1>32 DEF NotifyAnswer, Notify
  <1>33. CASE UNCHANGED vars
    BY <1>33 DEF vars
  <1>34. CASE \E id \in Ids : HttpSendsFreed(id)
    BY <1>34 DEF HttpSendsFreed, Crash
  <1>35. CASE MembersGone
    BY <1>35 DEF MembersGone, Crash
  <1> QED
    BY <1>1, <1>2, <1>3, <1>4, <1>5, <1>6, <1>7, <1>8, <1>9, <1>10, <1>11, <1>12, <1>13,
       <1>14, <1>15, <1>16, <1>17, <1>18, <1>19, <1>20, <1>21, <1>22, <1>23, <1>24, <1>25,
       <1>26, <1>27, <1>28, <1>29, <1>30, <1>31, <1>32, <1>33, <1>34, <1>35
    DEF ClientStep, Next, OwnerNext, IoNext, SessionNext, HttpNext, HttpOwnerNext, HttpConnect,
        HttpTimeOut, Application, HttpIoNext, OnReceiveBase, HttpNetwork, PeerAnswers,
        HttpHandlers, HttpDoSendMsg

-----------------------------------------------------------------------------
(* The steps that end the process. *)

\* A session that was connected is in the map until the client is destroyed.
LEMMA ConnectedIsAlive ==
  ASSUME ClientInv, owner # "gone", NEW id \in Ids, WasConnected(id) \/ io.sid = id
  PROVE  id \in m_objects /\ Alive(id)
  <1>1. id < m_sequence_id
    <2>1. m_status[id] # "Invalid"
      BY NoneIsNoId DEF ClientInv, StatusAdvances, IoHasSession, WasConnected
    <2> QED
      BY <2>1 DEF ClientInv, TypeOK, SessionTypeOK, IdsAreFresh, Ids
  <1>2. id \in m_objects
    BY <1>1 DEF ClientInv, MapKeepsSessions, WasConnected
  <1> QED
    BY <1>2 DEF Alive

\* Nothing but crash changes when the process ends, and an assertion or terminate has
\* one of the causes; only on_receive reads the end iterator.
LEMMA CrashIsAlone ==
  ASSUME ClientInv, ClientStep, crash' # crash
  PROVE  /\ UNCHANGED <<poolVars, m_status, m_stopped, held, read, write, peer, io, clientVars>>
         /\ crash' \in {"assert", "terminate", "use-after-free", "end-iterator"}
         /\ crash' = "end-iterator" => \E n \in 1 .. Len(stream) : OnReceive(n)
         /\ ClientCrashHasCause'
  <1> DEFINE Alone == UNCHANGED <<poolVars, m_status, m_stopped, held, read, write, peer, io,
                                  clientVars>>
  <1> USE DEF poolVars, clientVars
  <1>1. CASE Run
    <2>1. Alone /\ crash' = "terminate" /\ owner = "connecting" /\ m_context # "none"
      BY <1>1 DEF Run, Crash, Owner
    <2>2. m_sequence_id > 1
      BY <2>1 DEF ClientInv, ThreadLifetime, TypeOK, SessionTypeOK
    <2> QED
      BY <2>1, <2>2 DEF ClientCrashHasCause
  <1>2. CASE Shutdown \/ DestroyClient
    <2>1. /\ Alone /\ crash' = "assert"
          /\ m_session_ref = None \/ ~Alive(m_session_ref)
          /\ owner # "gone"
      BY <1>2 DEF Shutdown, DestroyClient, AssertSession, Crash, Disconnect, Owner, sessionVars
    <2>2. ASSUME m_session_ref # None PROVE m_status[m_session_ref] = "Connectfail"
      <3>1. m_session_ref \in Ids /\ m_session_ref < m_sequence_id /\ ~Alive(m_session_ref)
        BY <2>1, <2>2 DEF ClientInv, TypeOK, SessionTypeOK, RefIsNewest, Ids
      <3> QED
        BY <2>1, <3>1 DEF ClientInv, MapKeepsSessions, Alive
    <2> QED
      BY <2>1, <2>2 DEF ClientCrashHasCause
  <1>3. CASE Join
    BY <1>3 DEF Join, Crash, Owner, ClientInv, ThreadLifetime, ClientCrashHasCause
  <1>4. CASE \/ Rearm /\ UNCHANGED clientVars
             \/ \E id \in Ids : /\ HandleRead(id) \/ DoSendMsg(id) \/ HandleWrite(id)
                                /\ UNCHANGED clientVars
    BY <1>4 DEF Rearm, HandleRead, DoSendMsg, HandleWrite, UseAfterFree, ClientCrashHasCause
  <1>5. CASE (\E id \in Ids : HttpSendsFreed(id)) \/ MembersGone
    BY <1>5 DEF HttpSendsFreed, MembersGone, Crash, ClientCrashHasCause
  <1>6. CASE \E n \in 1 .. Len(stream) : OnReceive(n)
    BY <1>6 DEF OnReceive, ClientCrashHasCause
  <1>7. CASE Connect \/ ResolveThrows \/ WaitFor \/ Woken \/ TimeOut \/ SendMsg
             \/ OnDisconnect \/ Destroy \/ StopContext \/ IoNext
    BY <1>7 DEF Connect, ResolveThrows, WaitFor, Woken, TimeOut, Answer, SendMsg, OnDisconnect,
                Destroy, StopContext, IoNext, OnConnect, OnConnectFail, DelObject, OnRecvError,
                sessionVars
  <1>8. CASE \/ IoExit
             \/ \E id \in Ids : \/ PeerSends(id) \/ PeerCloses(id)
                                \/ Accepted(id) \/ Refused(id) \/ HandleConnect(id)
    BY <1>8 DEF IoExit, PeerSends, PeerCloses, Accepted, Refused, HandleConnect,
                sessionVars
  <1>9. CASE \/ Request \/ Connects \/ Send \/ Await \/ Answered \/ SpuriousAnswer
             \/ RequestTimeout \/ Store \/ NotifyAnswer \/ UNCHANGED vars
    BY <1>9 DEF Request, Connects, Send, Await, Answered, SpuriousAnswer, RequestTimeout,
                ReturnWith, Store, NotifyAnswer, sessionVars, vars
  <1>10. CASE OnRecvMsg(destroying) /\ UNCHANGED clientVars
    BY <1>10 DEF OnRecvMsg, IoIn, ClientCrashHasCause, clientVars
  <1> QED
    BY <1>1, <1>2, <1>3, <1>4, <1>5, <1>6, <1>7, <1>8, <1>9, <1>10
    DEF ClientStep, Next, OwnerNext, SessionNext, HttpNext, HttpOwnerNext, HttpConnect,
        HttpTimeOut, Application, HttpIoNext, OnReceiveBase, HttpNetwork, PeerAnswers,
        HttpHandlers, HttpDoSendMsg

\* What holds of a client that has not ended holds of one that has.
LEMMA ClientInvCrash ==
  ASSUME ClientInv, ClientStep, crash' # crash
  PROVE  ClientInv'
  <1> USE CrashIsAlone DEF ClientInv, poolVars, clientVars
  <1>1. TypeOK'
    BY DEF TypeOK, SessionTypeOK
  <1>2. IoHasSession' /\ RefIsNewest' /\ IdsAreFresh' /\ StatusAdvances' /\ MapKeepsSessions'
    BY DEF IoHasSession, RefIsNewest, IdsAreFresh, StatusAdvances, MapKeepsSessions, WasConnected
  <1>3. FirstRead' /\ ConnectedIsRead' /\ OutcomeIsAwaited' /\ ThreadLifetime'
    BY DEF FirstRead, ConnectedIsRead, OutcomeIsAwaited, ThreadLifetime, is_connected, WasConnected
  <1>4. ClientCrashHasCause'
    OBVIOUS
  <1> QED
    BY <1>1, <1>2, <1>3, <1>4

\* No step is taken after the end of the process.
LEMMA ClientRuns == ASSUME ClientStep PROVE crash = "none" \/ UNCHANGED vars
  <1>1. CASE Next
    <2>1. CASE OwnerNext
      BY <2>1 DEF OwnerNext, Connect, ResolveThrows, Run, WaitFor, Woken, TimeOut, SendMsg,
                  Shutdown, OnDisconnect, Destroy, DestroyClient, StopContext, Join, Owner
    <2>2. CASE \/ IoNext
               \/ \E id \in Ids : Accepted(id) \/ Refused(id) \/ HandleConnect(id)
      BY <2>2 DEF IoNext, OnConnect, OnConnectFail, DelObject, OnRecvError, Accepted, Refused,
                  HandleConnect, IoIn, IoFree
    <2>3. CASE SessionNext(destroying)
      BY <2>3 DEF SessionNext, OnRecvMsg, Rearm, IoExit, HandleRead, DoSendMsg, HandleWrite,
                  PeerSends, PeerCloses, IoIn, IoFree
    <2> QED
      BY <1>1, <2>1, <2>2, <2>3 DEF Next
  <1>2. CASE HttpNext
    <2>1. CASE HttpOwnerNext
      BY <2>1 DEF HttpOwnerNext, Request, HttpConnect, Connects, Send, Await, Answered,
                  SpuriousAnswer, RequestTimeout, HttpTimeOut, Application, Connect,
                  ResolveThrows, Run, WaitFor, Woken, TimeOut, Shutdown, OnDisconnect, Destroy,
                  DestroyClient, StopContext, Join, Owner
    <2>2. CASE HttpIoNext
      BY <2>2 DEF HttpIoNext, OnReceive, OnReceiveBase, OnRecvMsg, Store, NotifyAnswer, MembersGone, IoNext,
                  OnConnect, OnConnectFail, DelObject, OnRecvError, Rearm, IoIn
    <2>3. CASE \E id \in Ids : HttpNetwork(id) \/ HttpHandlers(id)
      BY <2>3 DEF HttpNetwork, HttpHandlers, Accepted, Refused, PeerSends, PeerCloses,
                  PeerAnswers, HttpDoSendMsg, DoSendMsg, HttpSendsFreed, HandleConnect,
                  HandleRead, HandleWrite, IoFree
    <2>4. CASE IoExit
      BY <2>4 DEF IoExit, IoFree
    <2> QED
      BY <1>2, <2>1, <2>2, <2>3, <2>4 DEF HttpNext
  <1> QED
    BY <1>1, <1>2 DEF ClientStep

\* Every step of either specification keeps the invariant.
LEMMA ClientInvNext == ASSUME ClientInv, ClientStep PROVE ClientInv'
  <1>1. CASE crash' = crash
    <2>1. ClientCrashHasCause'
      BY <1>1, ClientRuns DEF ClientCrashHasCause, ClientInv, vars, sessionVars, clientVars
    <2> QED
      BY <1>1, <2>1, ClientTypeNext, ClientIdsNext, ClientStatusNext, ClientMapNext,
         ClientReadNext, ClientWaitNext, ClientThreadNext DEF ClientInv
  <1>2. CASE crash' # crash
    BY <1>2, ClientInvCrash
  <1> QED
    BY <1>1, <1>2

\* A step that leaves the client alone keeps the invariant.
LEMMA ClientInvStutter == ASSUME ClientInv, UNCHANGED vars PROVE ClientInv'
  <1> USE DEF ClientInv, vars, sessionVars, clientVars
  <1>1. TypeOK'
    BY DEF TypeOK, SessionTypeOK
  <1>2. IoHasSession' /\ RefIsNewest' /\ IdsAreFresh' /\ StatusAdvances' /\ MapKeepsSessions'
    BY DEF IoHasSession, RefIsNewest, IdsAreFresh, StatusAdvances, MapKeepsSessions, WasConnected
  <1>3. FirstRead' /\ ConnectedIsRead' /\ OutcomeIsAwaited' /\ ThreadLifetime' /\ ClientCrashHasCause'
    BY DEF FirstRead, ConnectedIsRead, OutcomeIsAwaited, ThreadLifetime, is_connected,
           WasConnected, ClientCrashHasCause
  <1> QED
    BY <1>1, <1>2, <1>3

\* What the invariant says of handlers, reads and waits.
LEMMA ClientInvImplies ==
  ASSUME ClientInv
  PROVE  HandlersHaveSessions /\ ConnectedIsRead /\ NoLostNotify /\ ClientCrashHasCause
  <1>1. HandlersHaveSessions
    BY ConnectedIsAlive DEF HandlersHaveSessions, ClientInv, StatusAdvances
  <1>2. NoLostNotify
    BY DEF NoLostNotify, ClientInv, OutcomeIsAwaited
  <1> QED
    BY <1>1, <1>2 DEF ClientInv

\* The invariant holds of a client on its own and of one under http::client.
LEMMA ClientInvariant == (Spec => []ClientInv) /\ (HttpSpec => []ClientInv)
  <1>1. ClientInv /\ [Next]_vars => ClientInv'
    BY ClientInvNext, ClientInvStutter DEF ClientStep
  <1>2. Spec => []ClientInv
    BY <1>1, ClientInvInit, PTL DEF Spec
  <1>3. HttpInit => ClientInv
    BY ClientInvInit DEF HttpInit
  <1>4. ClientInv /\ [HttpNext]_allVars => ClientInv'
    BY ClientInvNext, ClientInvStutter DEF ClientStep, allVars
  <1>5. HttpSpec => []ClientInv
    BY <1>3, <1>4, PTL DEF HttpSpec
  <1> QED
    BY <1>2, <1>5

-----------------------------------------------------------------------------
(* Theorems about tcp::client. *)

\* Handlers, which capture a raw this, never outlive their session, whoever uses
\* the client (session.h:43, 89, 104).
THEOREM HandlersAreSafe ==
  (Spec => []HandlersHaveSessions) /\ (HttpSpec => []HandlersHaveSessions)
  BY ClientInvImplies, ClientInvariant, PTL

\* The receive loop of a connected session is never broken off (session.h:101-123).
THEOREM ReceiveLoopGoesOn == (Spec => []ConnectedIsRead) /\ (HttpSpec => []ConnectedIsRead)
  BY ClientInvImplies, ClientInvariant, PTL

\* sync_connect misses no notification, although it waits without a predicate
\* (easy_tcp/client.h:17-27, 37-51).
THEOREM NoNotifyIsLost == (Spec => []NoLostNotify) /\ (HttpSpec => []NoLostNotify)
  BY ClientInvImplies, ClientInvariant, PTL

\* A client fails its assertion or terminates only where it has no session, or one
\* whose connection was refused; connects twice; or is destroyed without a thread to
\* join, or while the thread is about to report a read, also under http::client
\* (tcp/client.h:57-68, session_pool.h:20-32, session.h:70-73).
THEOREM ClientCrashesHaveCauses ==
  (Spec => []ClientCrashHasCause) /\ (HttpSpec => []ClientCrashHasCause)
  BY ClientInvImplies, ClientInvariant, PTL

USE SizeAssumption, AnswersAssumption

-----------------------------------------------------------------------------
(* The inductive invariant of http::client. *)

\* request() was called and has not yet sent anything.
Early == requesting # "no" \/ owner = "request"

\* request() and the string it sends.
RequestOK ==
  /\ requesting # "no" => owner \in {"idle", "connecting", "started", "waiting"}
  /\ buffer <=> owner \in {"sent", "awaiting"}
  /\ Early \/ owner \in {"sent", "awaiting"} => req > 0
  /\ got > 0 => req > 0 /\ ~Early

\* No piece, and no response, is of a request that was not sent yet.
NoEarlyAnswer ==
  /\ m_rsp.of <= req /\ m_frame.rsp.of <= req
  /\ \A k \in 1 .. Len(stream) : stream[k].of <= req
  /\ Early => /\ m_rsp.of < req /\ m_frame.rsp.of < req
              /\ \A k \in 1 .. Len(stream) : stream[k].of < req

\* A response that was stored while request() sends or waits is still to be
\* announced.
AnswerIsAnnounced ==
  owner = "sent" \/ (owner = "awaiting" /\ ~notified) =>
    m_rsp.of # req \/ io.at \in {"store", "notify"}

HttpInv == HttpTypeOK /\ RequestOK /\ NoEarlyAnswer /\ AnswerIsAnnounced

\* As long as every read brings one answer, a response is a whole one, or none.
Responses == {Empty} \cup {Whole(r) : r \in 1 .. req}
ResponsesAreWhole ==
  whole => /\ m_frame.rsp \in Responses /\ m_rsp \in Responses /\ answer.rsp \in Responses
           /\ crash # "end-iterator" /\ ~m_frame.failed

-----------------------------------------------------------------------------
(* The inductive invariant of a client to which nothing unusual happened.  *)

Clean == timely /\ whole

\* At most one connection attempt is under way, the one sync_connect waits for.
OneConnect ==
  /\ \A id \in Ids : conn[id] # "none" =>
       id = m_session_ref /\ io.at \notin {"on_connect", "on_connect_fail"}
  /\ io.at \in {"on_connect", "on_connect_fail"} => io.sid = m_session_ref
  /\ (\E id \in Ids : conn[id] # "none") \/ io.at \in {"on_connect", "on_connect_fail"} =>
       owner \in {"connecting", "started"} \/ (owner = "waiting" /\ ~notified)

Posted == \E id \in Ids : write[id] = "posted"
Announced == owner = "awaiting" /\ notified

\* A request is in one place: posted, with the peer, in the stream of answers, in
\* the hands of on_receive, or announced; and only while request() waits for it.
OneStage ==
  /\ \A id \in Ids : write[id] = "posted" => id = m_session_ref
  /\ Posted => got = 0 /\ stream = << >> /\ ~InCallback /\ ~Announced
  /\ got > 0 => stream = << >> /\ ~InCallback /\ ~Announced
  /\ stream # << >> => ~InCallback /\ ~Announced
  /\ InCallback => ~Announced
  /\ Posted \/ got > 0 \/ stream # << >> \/ InCallback => owner \in {"sent", "awaiting"}

\* The stream of a request is one answer, of at most two pieces, ...
OneInStream ==
  stream # << >> => \E p, q \in Piece : p.of = req /\ (stream = <<p, q>> \/ stream = <<p>>)

\* ... and what is parsed, stored and announced is the whole answer to it.
StagesAreWhole ==
  /\ OneInStream
  /\ io.at = "store" => m_frame.rsp = Whole(req)
  /\ io.at = "notify" \/ Announced => m_rsp = Whole(req)

CleanInv == Clean => OneConnect /\ OneStage /\ StagesAreWhole

\* The destructor is called between requests, and nothing runs after it.
DestroyedIdle ==
  /\ destroying => owner \in {"~client", "on_disconnect", "~session_pool", "joining", "gone"}
  /\ owner = "gone" => m_context = "joined" /\ io.at = "idle"

HttpAllInv == /\ ClientInv /\ HttpInv /\ DestroyedIdle
              /\ ResponsesAreWhole /\ CleanInv /\ HttpCleanIsRight

\* The initial state satisfies the invariant.
LEMMA HttpInvInit == HttpInit => HttpAllInv
  <1> SUFFICES ASSUME HttpInit PROVE HttpAllInv
    OBVIOUS
  <1>1. ClientInv
    BY ClientInvInit DEF HttpInit
  <1> USE DEF HttpInit, Init, SessionInit
  <1>2. HttpTypeOK
    <2>1. stream \in Seq(Piece)
      OBVIOUS
    <2>2. req \in 0 .. MaxRequests /\ got \in 0 .. RequestSize
      OBVIOUS
    <2>3. buffer \in BOOLEAN /\ closing \in BOOLEAN /\ timely \in BOOLEAN /\ whole \in BOOLEAN
      OBVIOUS
    <2>4. Empty \in [of : Nat, body : Bodies]
      BY DEF Empty, Bodies
    <2> QED
      BY <1>1, <2>1, <2>2, <2>3, <2>4 DEF HttpTypeOK, ClientInv, Connections
  <1>4. RequestOK /\ NoEarlyAnswer /\ AnswerIsAnnounced
    BY DEF RequestOK, NoEarlyAnswer, AnswerIsAnnounced, Early, Empty
  <1>5. DestroyedIdle /\ CleanInv
    BY DEF DestroyedIdle, CleanInv, OneConnect, OneStage, StagesAreWhole, OneInStream, Posted,
           Announced, InCallback
  <1>6. ResponsesAreWhole /\ HttpCleanIsRight
    BY DEF ResponsesAreWhole, Responses, HttpCleanIsRight, Thrown
  <1> QED
    BY <1>1, <1>2, <1>4, <1>5, <1>6 DEF HttpAllInv, HttpInv

-----------------------------------------------------------------------------
(* The pieces of the stream and their parser. *)

\* A read takes a prefix of the stream and leaves the rest (client.h:105-118).
LEMMA ReadTakesPrefix ==
  ASSUME NEW s \in Seq(Piece), NEW n \in 1 .. Len(s)
  PROVE  /\ SubSeq(s, 1, n) \in Seq(Piece) /\ Len(SubSeq(s, 1, n)) = n
         /\ \A k \in 1 .. n : SubSeq(s, 1, n)[k] = s[k]
         /\ SubSeq(s, 1, n)[n] = s[n]
         /\ SubSeq(s, n + 1, Len(s)) \in Seq(Piece)
         /\ Len(SubSeq(s, n + 1, Len(s))) = Len(s) - n
         /\ \A k \in 1 .. Len(s) - n : SubSeq(s, n + 1, Len(s))[k] = s[n + k]
  OBVIOUS

\* The peer adds two pieces, or one.
LEMMA AnswerIsAppended ==
  ASSUME NEW s \in Seq(Piece), NEW a \in Piece, NEW b \in Piece
  PROVE  /\ s \o <<a, b>> \in Seq(Piece) /\ s \o <<a>> \in Seq(Piece)
         /\ \A k \in 1 .. Len(s \o <<a, b>>) :
              \/ k \in 1 .. Len(s) /\ (s \o <<a, b>>)[k] = s[k]
              \/ (s \o <<a, b>>)[k] \in {a, b}
         /\ \A k \in 1 .. Len(s \o <<a>>) :
              \/ k \in 1 .. Len(s) /\ (s \o <<a>>)[k] = s[k]
              \/ (s \o <<a>>)[k] = a
  <1>1. <<a, b>> \in Seq(Piece) /\ Len(<<a, b>>) = 2 /\ <<a>> \in Seq(Piece) /\ Len(<<a>>) = 1
    OBVIOUS
  <1> QED
    BY <1>1

\* What the peer sends is of the request it has got (client.h:73-77).
LEMMA PeerSendsPieces ==
  ASSUME HttpInv, NEW id \in Ids, NEW a \in Answers, PeerAnswers(id, a)
  PROVE  /\ \E p, q \in Piece : /\ p.of = req /\ q.of = req
                                /\ stream' = stream \o <<p, q>> \/ stream' = stream \o <<p>>
         /\ got > 0 /\ got' = 0 /\ closing' \in BOOLEAN
         /\ UNCHANGED <<vars, req, requesting, buffer, m_frame, m_rsp, answer, timely, whole>>
  <1> DEFINE piece(n, c) == [of |-> req, part |-> n, framing |-> a.framing, connection |-> c]
  <1>1. a.framing \in Framings /\ a.connection \in Connections /\ "absent" \in Connections
    BY DEF Connections
  <1>2. req \in 1 .. MaxRequests /\ stream \in Seq(Piece) /\ closing \in BOOLEAN
    BY DEF PeerAnswers, HttpInv, HttpTypeOK, RequestOK
  <1>3. \A n \in {NotHttp, 1, 2}, c \in Connections : piece(n, c) \in Piece /\ piece(n, c).of = req
    BY <1>1, <1>2 DEF Piece
  <1>4. \/ stream' = stream \o <<piece(2, a.connection)>>
        \/ stream' = stream \o <<piece(1, a.connection), piece(2, "absent")>>
        \/ stream' = Append(stream, piece(NotHttp, "absent"))
    BY DEF PeerAnswers
  <1>5. Append(stream, piece(NotHttp, "absent")) = stream \o <<piece(NotHttp, "absent")>>
    <2>1. piece(NotHttp, "absent") \in Piece
      BY <1>1, <1>3
    <2> HIDE DEF piece
    <2> QED
      BY <1>2, <2>1
  <1>6. \E p, q \in Piece : /\ p.of = req /\ q.of = req
                            /\ stream' = stream \o <<p, q>> \/ stream' = stream \o <<p>>
    <2> HIDE DEF piece
    <2> QED
      BY <1>1, <1>3, <1>4, <1>5
  <1> QED
    BY <1>2, <1>6 DEF PeerAnswers

FrameType == [rsp : [of : Nat, body : Bodies], connection : Connections,
              completed : BOOLEAN, failed : BOOLEAN]

\* A set of natural numbers has a least one.
LEMMA LeastNatural ==
  ASSUME NEW S \in SUBSET Nat, S # {}
  PROVE  \E n \in S : \A m \in S : n <= m
  <1> DEFINE R == OpToRel(<, Nat)
  <1>1. IsWellFoundedOn(R, Nat)
    BY NatLessThanWellFounded
  <1>2. R = {ss \in Nat \X Nat : ss[1] < ss[2]}
    BY DEF OpToRel
  <1> HIDE DEF R
  <1>3. PICK x \in S : \A y \in S : ~(<<y, x>> \in R)
    BY <1>1, WFMin
  <1>4. ASSUME NEW y \in S PROVE x <= y
    <2>1. <<y, x>> \in Nat \X Nat /\ ~(<<y, x>> \in R)
      BY <1>3
    <2>2. ~(y < x)
      BY <1>2, <2>1
    <2> QED
      BY <2>2
  <1> QED
    BY <1>4

\* Some of the indices of a sequence have a last one.
LEMMA LastIndex ==
  ASSUME NEW n \in Nat, NEW I \in SUBSET (1 .. n), I # {}
  PROVE  (CHOOSE i \in I : \A j \in I : j <= i) \in I
  <1> DEFINE D == {n - i : i \in I}
  <1>1. D \in SUBSET Nat /\ D # {}
    <2>1. \A i \in I : n - i \in Nat
      OBVIOUS
    <2>2. PICK i \in I : TRUE
      OBVIOUS
    <2>3. n - i \in D
      BY <2>2
    <2> QED
      BY <2>1, <2>3
  <1>2. PICK d \in D : \A e \in D : d <= e
    BY <1>1, LeastNatural
  <1>3. PICK i \in I : d = n - i
    BY <1>2
  <1>4. \A j \in I : n - i <= n - j
    BY <1>2, <1>3
  <1>5. \A j \in I : j <= i
    BY <1>4
  <1> QED
    BY <1>5

\* What parse_from_array makes of the pieces of a read: the response is the one
\* before or of the request that the last piece is of (message.cpp:76-85, 150-187).
LEMMA ParseIsTyped ==
  ASSUME m_frame \in FrameType, NEW s \in Seq(Piece), Len(s) # 0
  PROVE  /\ Parse(s) \in FrameType
         /\ Parse(s).rsp.of \in {m_frame.rsp.of, s[Len(s)].of}
  <1> DEFINE final == s[Len(s)]
             failure == m_frame.failed \/ \E p \in Range(s) : p.part = NotHttp
             done == m_frame.completed \/ \E p \in Range(s) : p.part = 2 /\ p.framing # "eof"
  <1>1. (\A k \in 1 .. Len(s) : s[k] \in Piece) /\ Range(s) \subseteq Piece /\ final \in Piece
    BY DEF Range
  <1>2. Body(s) \in Bodies
    <2> DEFINE texts == {i \in 1 .. Len(s) : s[i].framing # "none"}
               last == s[CHOOSE i \in texts : \A j \in texts : j <= i]
               kept == IF last.framing = "chunked" THEN {last}
                       ELSE {p \in Range(s) : p.framing # "none" /\ p.of = last.of}
    <2>1. CASE texts = {}
      BY <2>1 DEF Body, FrameType
    <2>2. CASE texts # {}
      <3>1. texts \in SUBSET (1 .. Len(s)) /\ Len(s) \in Nat
        OBVIOUS
      <3> HIDE DEF texts
      <3>2. (CHOOSE i \in texts : \A j \in texts : j <= i) \in texts
        BY <2>2, <3>1, LastIndex
      <3>3. last \in Piece
        BY <1>1, <3>1, <3>2
      <3> HIDE DEF last
      <3>4. kept \subseteq Piece
        BY <1>1, <3>3
      <3> HIDE DEF kept
      <3>5. {<<p.of, p.part>> : p \in kept} \in Bodies
        BY <3>4 DEF Bodies, Piece
      <3>6. Body(s) = {<<p.of, p.part>> : p \in kept}
        BY <2>2 DEF Body, texts, last, kept
      <3> QED
        BY <3>5, <3>6
    <2> QED
      BY <2>1, <2>2
  <1>3. Header(s) \in Connections
    <2> DEFINE heads == {i \in 1 .. Len(s) : s[i].connection # "absent"}
    <2>1. CASE heads = {}
      BY <2>1 DEF Header, FrameType
    <2>2. CASE heads # {}
      <3>1. heads \in SUBSET (1 .. Len(s)) /\ Len(s) \in Nat
        OBVIOUS
      <3>2. Header(s) = s[CHOOSE i \in heads : \A j \in heads : j <= i].connection
        BY <2>2 DEF Header
      <3> HIDE DEF heads
      <3>3. (CHOOSE i \in heads : \A j \in heads : j <= i) \in heads
        BY <2>2, <3>1, LastIndex
      <3> QED
        BY <1>1, <3>1, <3>2, <3>3 DEF Piece
    <2> QED
      BY <2>1, <2>2
  <1>4. CASE failure
    <2>1. Parse(s) = [m_frame EXCEPT !.failed = TRUE]
      BY <1>4 DEF Parse
    <2> QED
      BY <2>1 DEF FrameType
  <1>5. CASE ~failure
    <2>1. Parse(s) = [rsp |-> [of |-> final.of, body |-> Body(s)],
                      connection |-> Header(s), completed |-> done, failed |-> FALSE]
      BY <1>5 DEF Parse
    <2>2. done \in BOOLEAN /\ final.of \in Nat
      BY <1>1 DEF FrameType, Piece
    <2> HIDE DEF final, done
    <2>3. Parse(s) \in FrameType
      BY <1>2, <1>3, <2>1, <2>2 DEF FrameType
    <2>4. Parse(s).rsp.of = final.of
      BY <2>1
    <2> QED
      BY <2>3, <2>4 DEF final
  <1> QED
    BY <1>4, <1>5

\* A read of one answer of told length leaves the whole of it in the message, which
\* calls itself complete (message.cpp:87-100, 156-185).
LEMMA OneAnswerIsWhole ==
  ASSUME ~m_frame.failed, NEW s \in Seq(Piece), OneAnswer(s)
  PROVE  /\ Parse(s).rsp = Whole(s[1].of) /\ ~Parse(s).failed
         /\ IsCompleted(Parse(s)) /\ ~ReadsEnd(Parse(s))
  <1>1. /\ Len(s) = 2 /\ s[1] \in Piece /\ s[2] \in Piece
        /\ Range(s) = {s[1], s[2]}
    <2>1. Len(s) = 2
      BY DEF OneAnswer
    <2>2. DOMAIN s = {1, 2}
      BY <2>1
    <2>3. s[1] \in Piece /\ s[2] \in Piece
      BY <2>1
    <2>4. Range(s) = {s[k] : k \in {1, 2}}
      BY <2>2 DEF Range
    <2> QED
      BY <2>1, <2>3, <2>4
  <1> DEFINE p == s[1]
             q == s[2]
  <1>2. /\ p.part = 1 /\ q.part = 2 /\ q.of = p.of
        /\ p.framing = "length" /\ q.framing = "length"
    BY DEF OneAnswer
  <1>3. Body(s) = {<<p.of, 1>>, <<p.of, 2>>}
    <2> DEFINE texts == {i \in 1 .. Len(s) : s[i].framing # "none"}
               last == CHOOSE i \in texts : \A j \in texts : j <= i
    <2>1. texts = {1, 2}
      BY <1>1, <1>2
    <2>2. last = 2
      <3> HIDE DEF texts
      <3> QED
        BY <2>1
    <2>3. texts # {} /\ s[last] = q
      BY <2>1, <2>2
    <2>4. Body(s) = {<<x.of, x.part>> : x \in {x \in Range(s) : x.framing # "none" /\ x.of = q.of}}
      <3> HIDE DEF q
      <3>1. q.framing # "chunked"
        BY <1>2
      <3> QED
        BY <2>3, <3>1 DEF Body
    <2>5. {x \in Range(s) : x.framing # "none" /\ x.of = q.of} = {p, q}
      BY <1>1, <1>2
    <2> HIDE DEF p, q
    <2> QED
      BY <1>2, <2>4, <2>5
  <1>4. ~(m_frame.failed \/ \E x \in Range(s) : x.part = NotHttp)
    BY <1>1, <1>2 DEF NotHttp
  <1>5. m_frame.completed \/ \E x \in Range(s) : x.part = 2 /\ x.framing # "eof"
    BY <1>1, <1>2
  <1> DEFINE done == m_frame.completed \/ \E x \in Range(s) : x.part = 2 /\ x.framing # "eof"
  <1>6. Parse(s) = [rsp |-> [of |-> p.of, body |-> Body(s)], connection |-> Header(s),
                    completed |-> done, failed |-> FALSE]
    BY <1>1, <1>2, <1>4 DEF Parse
  <1>7. done
    BY <1>5
  <1> HIDE DEF done
  <1> QED
    BY <1>3, <1>6, <1>7 DEF Whole, IsCompleted, ReadsEnd

-----------------------------------------------------------------------------
(* The steps, in three groups. *)

\* The owner thread in sync_connect, in shutdown() and in the destructor.
OwnerStep == /\ \/ Run \/ WaitFor \/ Woken \/ Application \/ OnDisconnect
                \/ DestroyClient \/ StopContext \/ Join
             /\ UNCHANGED httpVars

\* The handlers of tcp::client, the network, and the steps that only end the
\* process.
HandlerStep ==
  \/ OnReceiveBase \/ MembersGone \/ (IoNext /\ UNCHANGED httpVars)
  \/ (Rearm \/ IoExit) /\ UNCHANGED <<clientVars, httpVars>>
  \/ \E id \in Ids :
       \/ (Accepted(id) \/ Refused(id) \/ HandleConnect(id)) /\ UNCHANGED httpVars
       \/ (PeerSends(id) \/ PeerCloses(id)) /\ UNCHANGED <<clientVars, httpVars>>
       \/ HttpSendsFreed(id)
       \/ (HandleRead(id) \/ HandleWrite(id)) /\ UNCHANGED <<clientVars, httpVars>>

PeerStep == \E id \in Ids, a \in Answers : PeerAnswers(id, a)

\* A step is one of http::client's own, or of one of the groups.
LEMMA HttpStepKinds ==
  ASSUME HttpNext
  PROVE  \/ Request \/ HttpConnect \/ Connects \/ Send \/ Await
         \/ Answered \/ SpuriousAnswer \/ RequestTimeout \/ HttpTimeOut
         \/ (\E n \in 1 .. Len(stream) : OnReceive(n)) \/ Store \/ NotifyAnswer
         \/ (\E id \in Ids : HttpDoSendMsg(id)) \/ PeerStep
         \/ OwnerStep \/ HandlerStep
  <1>1. CASE HttpOwnerNext
    BY <1>1 DEF HttpOwnerNext, OwnerStep
  <1>2. CASE HttpIoNext \/ (IoExit /\ UNCHANGED <<clientVars, httpVars>>)
    BY <1>2 DEF HttpIoNext, HandlerStep
  <1>3. CASE \E id \in Ids : HttpNetwork(id)
    <2>1. PICK id \in Ids : HttpNetwork(id)
      BY <1>3
    <2>2. CASE \E a \in Answers : PeerAnswers(id, a)
      BY <2>2 DEF PeerStep
    <2> QED
      BY <2>1, <2>2 DEF HttpNetwork, HandlerStep
  <1>4. CASE \E id \in Ids : HttpHandlers(id)
    BY <1>4 DEF HttpHandlers, HandlerStep
  <1>5. \/ HttpOwnerNext \/ HttpIoNext \/ (IoExit /\ UNCHANGED <<clientVars, httpVars>>)
        \/ \E id \in Ids : HttpNetwork(id)
        \/ \E id \in Ids : HttpHandlers(id)
    BY DEF HttpNext
  <1> QED
    BY <1>1, <1>2, <1>3, <1>4, <1>5

\* on_receive leaves the owner thread and what it waits for alone (client.h:105-111).
LEMMA ReceivesAlone ==
  ASSUME NEW n \in 1 .. Len(stream), OnReceive(n)
  PROVE  /\ UNCHANGED <<owner, destroying, notified, req, m_rsp, answer, timely>>
         /\ io.at = "on_recv_msg" /\ (whole' => whole)
  <1>1. UNCHANGED <<owner, destroying, notified, req, m_rsp, answer, timely>> /\ io.at = "on_recv_msg"
    BY DEF OnReceive, clientVars, IoIn
  <1>2. whole' => whole
    BY Zenon DEF OnReceive
  <1> QED
    BY <1>1, <1>2

\* The handlers leave the owner thread, the destructor and the variables of
\* http::client alone.
LEMMA HandlersKeepRequest ==
  ASSUME HandlerStep
  PROVE  UNCHANGED <<owner, destroying, m_session_ref, result, httpVars>>
  <1> USE DEF clientVars
  <1>1. CASE OnReceiveBase \/ MembersGone \/ (IoNext /\ UNCHANGED httpVars)
    BY <1>1 DEF OnReceiveBase, OnRecvMsg, MembersGone, Crash, IoNext, OnConnect, OnConnectFail,
                DelObject, OnRecvError
  <1>2. CASE \E id \in Ids : /\ Accepted(id) \/ Refused(id) \/ HandleConnect(id)
                             /\ UNCHANGED httpVars
    BY <1>2 DEF Accepted, Refused, HandleConnect
  <1>3. CASE \E id \in Ids : HttpSendsFreed(id)
    BY <1>3 DEF HttpSendsFreed, Crash
  <1>4. CASE UNCHANGED <<clientVars, httpVars>>
    BY <1>4
  <1> QED
    BY <1>1, <1>2, <1>3, <1>4 DEF HandlerStep

\* A handler that notifies does not take a notification back, and none runs
\* while on_receive of http::client is under way: the io_context has one thread.
LEMMA HandlersNotify ==
  ASSUME HandlerStep
  PROVE  (notified => notified') /\ (UNCHANGED io \/ ~InCallback)
  <1> USE DEF clientVars, sessionVars, InCallback, IoIn, IoFree
  <1>1. CASE OnReceiveBase
    BY <1>1 DEF OnReceiveBase, OnRecvMsg
  <1>2. CASE MembersGone \/ \E id \in Ids : HttpSendsFreed(id)
    BY <1>2 DEF MembersGone, HttpSendsFreed, Crash
  <1>3. CASE IoNext
    <2>1. io' = io \/ ~InCallback
      BY <1>3 DEF IoNext, OnConnect, OnConnectFail, DelObject, OnRecvError
    <2>2. notified => notified'
      BY <1>3, Zenon DEF IoNext, OnConnect, Notify, OnConnectFail, DelObject, OnRecvError
    <2> QED
      BY <2>1, <2>2
  <1>4. CASE (Rearm \/ IoExit) /\ UNCHANGED clientVars
    BY <1>4 DEF Rearm, IoExit
  <1>5. CASE \E id \in Ids : Accepted(id) \/ Refused(id) \/ HandleConnect(id)
    BY <1>5 DEF Accepted, Refused, HandleConnect
  <1>6. CASE \E id \in Ids : (PeerSends(id) \/ PeerCloses(id)) /\ UNCHANGED clientVars
    BY <1>6 DEF PeerSends, PeerCloses
  <1>7. CASE \E id \in Ids : (HandleRead(id) \/ HandleWrite(id)) /\ UNCHANGED clientVars
    BY <1>7 DEF HandleRead, HandleWrite
  <1> QED
    BY <1>1, <1>2, <1>3, <1>4, <1>5, <1>6, <1>7 DEF HandlerStep

-----------------------------------------------------------------------------
(* Requests and answers. *)

\* The stream and what is parsed of it keep their types (message.h).
LEMMA HttpTypeNext ==
  ASSUME ClientInv, HttpInv, HttpNext
  PROVE  HttpTypeOK'
  <1>1. TypeOK'
    BY ClientInvNext DEF ClientStep, ClientInv
  <1> USE <1>1 DEF HttpInv, HttpTypeOK
  <1>2. CASE Request
    BY <1>2 DEF Request
  <1>3. CASE HttpConnect \/ Connects \/ Send \/ HttpTimeOut
    BY <1>3 DEF HttpConnect, Connects, Send, HttpTimeOut
  <1>4. CASE Answered \/ SpuriousAnswer \/ RequestTimeout
    BY <1>4 DEF Answered, SpuriousAnswer, RequestTimeout, ReturnWith
  <1>5. ASSUME NEW n \in 1 .. Len(stream), OnReceive(n)
        PROVE  HttpTypeOK'
    <2>1. stream \in Seq(Piece) /\ m_frame \in FrameType
      BY DEF FrameType
    <2>2. /\ SubSeq(stream, 1, n) \in Seq(Piece) /\ Len(SubSeq(stream, 1, n)) # 0
          /\ SubSeq(stream, n + 1, Len(stream)) \in Seq(Piece)
      BY <2>1, ReadTakesPrefix
    <2>3. m_frame' \in FrameType
      BY <1>5, <2>1, <2>2, ParseIsTyped DEF OnReceive
    <2>4. whole' \in BOOLEAN
      BY <1>5 DEF OnReceive, OneAnswer
    <2> QED
      BY <1>5, <2>2, <2>3, <2>4 DEF OnReceive, FrameType
  <1>6. CASE Store
    BY <1>6 DEF Store
  <1>7. CASE \E id \in Ids : HttpDoSendMsg(id)
    BY <1>7 DEF HttpDoSendMsg, Transferred
  <1>8. CASE PeerStep
    <2>1. PICK id \in Ids, a \in Answers : PeerAnswers(id, a)
      BY <1>8 DEF PeerStep
    <2>2. PICK p \in Piece, q \in Piece : stream' = stream \o <<p, q>> \/ stream' = stream \o <<p>>
      BY <2>1, PeerSendsPieces
    <2>3. stream \in Seq(Piece)
      OBVIOUS
    <2>4. stream \o <<p, q>> \in Seq(Piece) /\ stream \o <<p>> \in Seq(Piece)
      BY <2>3, AnswerIsAppended
    <2>5. stream' \in Seq(Piece)
      BY <2>2, <2>4
    <2> QED
      BY <2>1, <2>5, PeerSendsPieces
  <1>9. CASE Await \/ NotifyAnswer \/ OwnerStep \/ HandlerStep
    <2>1. UNCHANGED httpVars
      BY <1>9, HandlersKeepRequest DEF Await, NotifyAnswer, OwnerStep
    <2> QED
      BY <2>1 DEF httpVars
  <1> QED
    BY <1>2, <1>3, <1>4, <1>5, <1>6, <1>7, <1>8, <1>9, HttpStepKinds

\* request() keeps its string exactly while it sends and waits (client.h:73-85).
LEMMA RequestNext ==
  ASSUME ClientInv, HttpInv, HttpNext
  PROVE  RequestOK'
  <1> USE DEF HttpInv, HttpTypeOK, RequestOK, Early, Owner, httpVars
  <1>1. CASE Request
    BY <1>1 DEF Request
  <1>2. CASE HttpConnect
    BY <1>2 DEF HttpConnect, Connect, ResolveThrows
  <1>3. CASE Connects
    BY <1>3 DEF Connects
  <1>4. CASE Send
    BY <1>4 DEF Send
  <1>5. CASE Await
    BY <1>5 DEF Await
  <1>6. CASE Answered \/ SpuriousAnswer \/ RequestTimeout
    BY <1>6 DEF Answered, SpuriousAnswer, RequestTimeout, ReturnWith
  <1>7. CASE HttpTimeOut
    BY <1>7 DEF HttpTimeOut, TimeOut, Answer
  <1>8. CASE \E n \in 1 .. Len(stream) : OnReceive(n)
    BY <1>8 DEF OnReceive, clientVars
  <1>9. CASE Store \/ NotifyAnswer
    BY <1>9 DEF Store, NotifyAnswer, clientVars
  <1>10. CASE \E id \in Ids : HttpDoSendMsg(id)
    BY <1>10 DEF HttpDoSendMsg, clientVars
  <1>11. CASE PeerStep
    BY <1>11 DEF PeerStep, PeerAnswers, vars, clientVars
  <1>12. CASE OwnerStep
    BY <1>12 DEF OwnerStep, Run, WaitFor, Woken, Answer, Application, Shutdown, Destroy,
                 Disconnect, AssertSession, Crash, OnDisconnect, DestroyClient, StopContext,
                 Join, clientVars
  <1>13. CASE HandlerStep
    BY <1>13, HandlersKeepRequest
  <1> QED
    BY <1>1, <1>2, <1>3, <1>4, <1>5, <1>6, <1>7, <1>8, <1>9, <1>10, <1>11, <1>12, <1>13,
       HttpStepKinds

\* A request that was not sent yet is newer than every piece and every response
\* (client.h:59-85).
LEMMA EarlyNext ==
  ASSUME ClientInv, HttpInv, HttpNext
  PROVE  NoEarlyAnswer'
  <1> USE DEF HttpInv, HttpTypeOK, NoEarlyAnswer, Early, Owner, httpVars
  <1>0. stream \in Seq(Piece) /\ \A k \in 1 .. Len(stream) : stream[k].of \in Nat
    <2>1. stream \in Seq(Piece)
      OBVIOUS
    <2>2. \A k \in 1 .. Len(stream) : stream[k] \in Piece
      BY <2>1
    <2>3. \A p \in Piece : p.of \in Nat
      BY DEF Piece
    <2> QED
      BY <2>1, <2>2, <2>3
  <1>1. CASE Request
    <2>1. req' = req + 1 /\ UNCHANGED <<stream, m_rsp, m_frame>>
      BY <1>1 DEF Request
    <2>2. req \in Nat /\ m_rsp.of \in Nat /\ m_frame.rsp.of \in Nat
      OBVIOUS
    <2> QED
      BY <1>0, <2>1, <2>2
  <1>2. CASE HttpConnect
    BY <1>2 DEF HttpConnect, Connect, ResolveThrows
  <1>3. CASE Connects
    BY <1>3 DEF Connects
  <1>4. CASE Send
    BY <1>4 DEF Send
  <1>5. CASE Await
    BY <1>5 DEF Await
  <1>6. CASE Answered \/ SpuriousAnswer \/ RequestTimeout
    BY <1>6 DEF Answered, SpuriousAnswer, RequestTimeout, ReturnWith
  <1>7. CASE HttpTimeOut
    BY <1>7 DEF HttpTimeOut, TimeOut, Answer
  <1>8. ASSUME NEW n \in 1 .. Len(stream), OnReceive(n)
        PROVE  NoEarlyAnswer'
    <2> DEFINE now == SubSeq(stream, 1, n)
               rest == SubSeq(stream, n + 1, Len(stream))
    <2>2. /\ now \in Seq(Piece) /\ Len(now) = n /\ now[n] = stream[n]
          /\ Len(rest) = Len(stream) - n
          /\ \A k \in 1 .. Len(stream) - n : rest[k] = stream[n + k]
      BY <1>0, ReadTakesPrefix
    <2>3. UNCHANGED <<req, requesting, owner, m_rsp>> /\ m_frame' = Parse(now) /\ stream' = rest
      BY <1>8 DEF OnReceive, clientVars
    <2> HIDE DEF now, rest
    <2>4. Parse(now).rsp.of \in {m_frame.rsp.of, stream[n].of}
      <3>1. now \in Seq(Piece) /\ Len(now) # 0 /\ now[Len(now)] = stream[n]
        BY <2>2
      <3>2. m_frame \in FrameType
        BY DEF FrameType
      <3> QED
        BY <3>1, <3>2, ParseIsTyped
    <2>5. m_frame'.rsp.of <= req' /\ (Early' => m_frame'.rsp.of < req')
      BY <2>3, <2>4
    <2>6. \A k \in 1 .. Len(rest) : n + k \in 1 .. Len(stream) /\ rest[k] = stream[n + k]
      BY <1>0, <2>2
    <2>7. \A k \in 1 .. Len(rest) : rest[k].of <= req /\ (Early => rest[k].of < req)
      BY <2>6
    <2> QED
      BY <2>3, <2>5, <2>7
  <1>9. CASE Store \/ NotifyAnswer
    BY <1>9 DEF Store, NotifyAnswer, clientVars
  <1>10. CASE \E id \in Ids : HttpDoSendMsg(id)
    BY <1>10 DEF HttpDoSendMsg, clientVars
  <1>11. CASE PeerStep
    <2>1. PICK id \in Ids, a \in Answers : PeerAnswers(id, a)
      BY <1>11 DEF PeerStep
    <2>2. ~Early /\ UNCHANGED <<req, requesting, owner, m_rsp, m_frame>>
      BY <2>1 DEF PeerAnswers, RequestOK, vars, clientVars
    <2>3. PICK p \in Piece, q \in Piece : /\ p.of = req /\ q.of = req
                                          /\ stream' = stream \o <<p, q>> \/ stream' = stream \o <<p>>
      BY <2>1, PeerSendsPieces
    <2>4. \A k \in 1 .. Len(stream') : \/ k \in 1 .. Len(stream) /\ stream'[k] = stream[k]
                                       \/ stream'[k] \in {p, q}
      BY <1>0, <2>3, AnswerIsAppended
    <2>5. ASSUME NEW k \in 1 .. Len(stream') PROVE stream'[k].of <= req'
      <3>1. p.of <= req /\ q.of <= req /\ req' = req
        BY <2>2, <2>3
      <3>2. CASE k \in 1 .. Len(stream) /\ stream'[k] = stream[k]
        <4>1. stream[k].of <= req
          BY <3>2
        <4> QED
          BY <3>1, <3>2, <4>1
      <3>3. CASE stream'[k] \in {p, q}
        BY <3>1, <3>3
      <3> QED
        BY <2>4, <3>2, <3>3
    <2> QED
      BY <2>2, <2>5
  <1>12. CASE OwnerStep
    BY <1>12 DEF OwnerStep, Run, WaitFor, Woken, Answer, Application, Shutdown, Destroy,
                 Disconnect, AssertSession, Crash, OnDisconnect, DestroyClient, StopContext,
                 Join, clientVars
  <1>13. CASE HandlerStep
    BY <1>13, HandlersKeepRequest
  <1> QED
    BY <1>1, <1>2, <1>3, <1>4, <1>5, <1>6, <1>7, <1>8, <1>9, <1>10, <1>11, <1>12, <1>13,
       HttpStepKinds

\* A stored response is announced after request() has begun to wait: it holds
\* m_mtx from before the send (client.h:75-77, 111-116).
LEMMA AnnounceNext ==
  ASSUME ClientInv, HttpInv, HttpNext
  PROVE  AnswerIsAnnounced'
  <1> USE DEF HttpInv, HttpTypeOK, AnswerIsAnnounced, Owner, httpVars
  <1>1. CASE Request
    BY <1>1 DEF Request
  <1>2. CASE HttpConnect
    BY <1>2 DEF HttpConnect, Connect, ResolveThrows
  <1>3. CASE Connects
    BY <1>3 DEF Connects
  <1>4. CASE Send
    BY <1>4 DEF Send, NoEarlyAnswer, Early
  <1>5. CASE Await
    BY <1>5 DEF Await, sessionVars
  <1>6. CASE Answered \/ SpuriousAnswer \/ RequestTimeout
    BY <1>6 DEF Answered, SpuriousAnswer, RequestTimeout, ReturnWith
  <1>7. CASE HttpTimeOut
    BY <1>7 DEF HttpTimeOut, TimeOut, Answer
  <1>8. CASE \E n \in 1 .. Len(stream) : OnReceive(n)
    BY <1>8 DEF OnReceive, clientVars, IoIn
  <1>9. CASE Store
    BY <1>9 DEF Store, IoAt
  <1>10. CASE NotifyAnswer
    BY <1>10 DEF NotifyAnswer, Notify, Locked, Waits
  <1>11. CASE \E id \in Ids : HttpDoSendMsg(id)
    BY <1>11 DEF HttpDoSendMsg, DoSendMsg, UseAfterFree, clientVars
  <1>12. CASE PeerStep
    BY <1>12 DEF PeerStep, PeerAnswers, vars, sessionVars, clientVars
  <1>13. CASE OwnerStep
    BY <1>13 DEF OwnerStep, Run, WaitFor, Woken, Answer, Application, Shutdown, Destroy,
                 Disconnect, AssertSession, Crash, OnDisconnect, DestroyClient, StopContext,
                 Join, clientVars
  <1>14. CASE HandlerStep
    <2>1. (notified => notified') /\ (UNCHANGED io \/ ~InCallback)
      BY <1>14, HandlersNotify
    <2> QED
      BY <1>14, <2>1, HandlersKeepRequest DEF InCallback
  <1> QED
    BY <1>1, <1>2, <1>3, <1>4, <1>5, <1>6, <1>7, <1>8, <1>9, <1>10, <1>11, <1>12, <1>13, <1>14,
       HttpStepKinds

\* The destructor waits for the thread of the io_context (session_pool.h:20-24).
LEMMA DestroyNext ==
  ASSUME ClientInv, HttpInv, DestroyedIdle, HttpNext
  PROVE  DestroyedIdle'
  <1> USE DEF DestroyedIdle, Owner
  <1>1. CASE Request \/ HttpConnect \/ Connects \/ Send \/ Await
    BY <1>1 DEF Request, HttpConnect, Connect, ResolveThrows, Connects, Send, Await
  <1>2. CASE Answered \/ SpuriousAnswer \/ RequestTimeout \/ HttpTimeOut
    BY <1>2 DEF Answered, SpuriousAnswer, RequestTimeout, ReturnWith, HttpTimeOut, TimeOut, Answer
  <1>3. CASE (\E n \in 1 .. Len(stream) : OnReceive(n)) \/ Store \/ NotifyAnswer
    <2>1. UNCHANGED <<owner, destroying>> /\ io.at # "idle"
      BY <1>3, ReceivesAlone DEF Store, NotifyAnswer, clientVars, IoIn
    <2> QED
      BY <2>1
  <1>4. CASE PeerStep \/ \E id \in Ids : HttpDoSendMsg(id)
    <2>1. UNCHANGED <<owner, destroying, m_context, io>>
      <3>1. CASE PeerStep
        <4>1. UNCHANGED vars
          BY <3>1, Zenon DEF PeerStep, PeerAnswers
        <4> QED
          BY <4>1 DEF vars, poolVars, sessionVars, clientVars
      <3>2. CASE \E id \in Ids : HttpDoSendMsg(id)
        BY <3>2 DEF HttpDoSendMsg, DoSendMsg, UseAfterFree, poolVars, sessionVars, clientVars
      <3> QED
        BY <1>4, <3>1, <3>2
    <2> QED
      BY <2>1
  <1>5. CASE OwnerStep
    BY <1>5 DEF OwnerStep, Run, WaitFor, Woken, Answer, Application, Shutdown, Destroy,
                Disconnect, AssertSession, Crash, OnDisconnect, DestroyClient, StopContext,
                Join, clientVars, poolVars, sessionVars
  <1>6. CASE HandlerStep
    <2>1. UNCHANGED <<owner, destroying>>
      BY <1>6, HandlersKeepRequest
    <2>2. m_context = "joined" /\ io.at = "idle" => UNCHANGED <<m_context, io>>
      <3> USE DEF IoIn, IoFree, poolVars, sessionVars
      <3>1. CASE OnReceiveBase \/ MembersGone \/ (\E id \in Ids : HttpSendsFreed(id))
        BY <3>1 DEF OnReceiveBase, OnRecvMsg, MembersGone, HttpSendsFreed, InCallback
      <3>2. CASE IoNext \/ Rearm \/ IoExit
        BY <3>2 DEF IoNext, OnConnect, OnConnectFail, DelObject, OnRecvError, Rearm, IoExit
      <3>3. CASE \E id \in Ids : \/ Accepted(id) \/ Refused(id) \/ HandleConnect(id)
                                 \/ PeerSends(id) \/ PeerCloses(id)
                                 \/ HandleRead(id) \/ HandleWrite(id)
        BY <3>3 DEF Accepted, Refused, HandleConnect, PeerSends, PeerCloses, HandleRead,
                    HandleWrite
      <3> QED
        BY <1>6, <3>1, <3>2, <3>3 DEF HandlerStep
    <2> QED
      BY <2>1, <2>2
  <1> QED
    BY <1>1, <1>2, <1>3, <1>4, <1>5, <1>6, HttpStepKinds

\* Requests, their string, the answers and the destructor.
LEMMA HttpInvNext ==
  ASSUME ClientInv, HttpInv, DestroyedIdle, [HttpNext]_allVars
  PROVE  ClientInv' /\ HttpInv' /\ DestroyedIdle'
  <1>1. CASE HttpNext
    BY <1>1, ClientInvNext, HttpTypeNext, RequestNext, EarlyNext, AnnounceNext, DestroyNext
    DEF ClientStep, HttpInv
  <1>2. CASE UNCHANGED allVars
    <2>1. UNCHANGED vars /\ UNCHANGED httpVars
      BY <1>2 DEF allVars
    <2>2. ClientInv'
      BY <2>1, ClientInvStutter
    <2>3. HttpTypeOK'
      BY <2>1, <2>2 DEF HttpInv, HttpTypeOK, httpVars, ClientInv
    <2>4. RequestOK' /\ NoEarlyAnswer' /\ AnswerIsAnnounced' /\ DestroyedIdle'
      BY <2>1 DEF HttpInv, RequestOK, NoEarlyAnswer, AnswerIsAnnounced, DestroyedIdle, Early,
                  vars, httpVars, sessionVars, clientVars
    <2> QED
      BY <2>2, <2>3, <2>4 DEF HttpInv
  <1> QED
    BY <1>1, <1>2

-----------------------------------------------------------------------------
(* Nothing unusual happens. *)

\* What was unusual once stays so.
LEMMA CleanStays == ASSUME HttpNext PROVE (timely' => timely) /\ (whole' => whole)
  <1>1. CASE \/ Request \/ HttpConnect \/ Connects \/ Send \/ Await
             \/ Answered \/ SpuriousAnswer \/ RequestTimeout \/ HttpTimeOut
    BY <1>1 DEF Request, HttpConnect, Connects, Send, Await, Answered, SpuriousAnswer,
                RequestTimeout, HttpTimeOut, httpVars
  <1>2. CASE (\E n \in 1 .. Len(stream) : OnReceive(n)) \/ Store \/ NotifyAnswer
    BY <1>2, ReceivesAlone DEF Store, NotifyAnswer, httpVars
  <1>3. CASE PeerStep \/ \E id \in Ids : HttpDoSendMsg(id)
    <2>1. UNCHANGED <<timely, whole>>
      BY <1>3 DEF PeerStep, PeerAnswers, HttpDoSendMsg
    <2> QED
      BY <2>1
  <1>4. CASE OwnerStep \/ HandlerStep
    BY <1>4, HandlersKeepRequest DEF OwnerStep, httpVars
  <1> QED
    BY <1>1, <1>2, <1>3, <1>4, HttpStepKinds

\* The handler of async_connect is the one that sync_connect waits for
\* (easy_tcp/client.h:17-27).
LEMMA OneConnectNext ==
  ASSUME ClientInv, HttpInv, OneConnect, OneStage, HttpNext, Clean'
  PROVE  OneConnect'
  <1> USE NoneIsNoId DEF ClientInv, TypeOK, OneConnect, Owner
  <1>1. CASE Request
    BY <1>1 DEF Request, sessionVars
  <1>2. CASE HttpConnect
    BY <1>2 DEF HttpConnect, Connect, ResolveThrows, AddObject, Ids, SessionTypeOK
  <1>3. CASE Connects \/ Send \/ Await
    BY <1>3 DEF Connects, Send, Await, sessionVars
  <1>4. CASE Answered
    BY <1>4 DEF Answered, ReturnWith, sessionVars
  <1>5. CASE SpuriousAnswer \/ RequestTimeout \/ HttpTimeOut
    BY <1>5 DEF SpuriousAnswer, RequestTimeout, HttpTimeOut, Clean
  <1>6. CASE (\E n \in 1 .. Len(stream) : OnReceive(n)) \/ Store
    <2>1. UNCHANGED clientVars /\ io.at \in {"on_recv_msg", "store"}
      BY <1>6 DEF OnReceive, Store, IoIn
    <2>2. io' \in {io, IoAt("recheck", io.sid), IoAt("store", io.sid), IoAt("notify", io.sid)}
      BY <1>6 DEF OnReceive, Store
    <2>3. io'.at \notin {"on_connect", "on_connect_fail"}
      BY <2>1, <2>2 DEF IoAt
    <2> QED
      BY <2>1, <2>3 DEF clientVars
  <1>7. CASE NotifyAnswer
    BY <1>7 DEF NotifyAnswer, Notify, IoIn, IoAt, Waits, OneStage, InCallback
  <1>8. CASE PeerStep \/ \E id \in Ids : HttpDoSendMsg(id)
    <2>1. UNCHANGED <<io, clientVars>>
      BY <1>8 DEF PeerStep, PeerAnswers, HttpDoSendMsg, DoSendMsg, UseAfterFree, vars,
                  sessionVars
    <2> QED
      BY <2>1 DEF clientVars
  <1>9. CASE OwnerStep
    <2>1. CASE Run
      BY <2>1 DEF Run, Crash, clientVars
    <2>2. CASE WaitFor \/ Woken
      BY <2>2 DEF WaitFor, Woken, Answer, sessionVars
    <2>3. CASE Application
      BY <2>3 DEF Application, Shutdown, Destroy, Disconnect, AssertSession, Crash, clientVars,
                  sessionVars
    <2>4. CASE OnDisconnect \/ DestroyClient
      BY <2>4 DEF OnDisconnect, DestroyClient, Disconnect, AssertSession, Crash, clientVars,
                  sessionVars
    <2>5. CASE StopContext \/ Join
      BY <2>5 DEF StopContext, Join, Crash, clientVars
    <2> QED
      BY <1>9, <2>1, <2>2, <2>3, <2>4, <2>5 DEF OwnerStep
  <1>10. CASE HandlerStep
    <2> USE DEF IoIn, IoFree, IoAt, IoIdle, clientVars, sessionVars
    <2>1. CASE OnReceiveBase \/ MembersGone \/ (\E id \in Ids : HttpSendsFreed(id))
      BY <2>1 DEF OnReceiveBase, OnRecvMsg, MembersGone, HttpSendsFreed, Crash
    <2>2. CASE OnConnect \/ OnConnectFail
      BY <2>2 DEF OnConnect, OnConnectFail, Notify, Locked, Waits
    <2>3. CASE DelObject \/ OnRecvError
      BY <2>3 DEF DelObject, OnRecvError
    <2>4. CASE (Rearm \/ IoExit) /\ UNCHANGED clientVars
      BY <2>4 DEF Rearm, IoExit, UseAfterFree
    <2>5. CASE \E id \in Ids : Accepted(id) \/ Refused(id)
      BY <2>5 DEF Accepted, Refused
    <2>6. CASE \E id \in Ids : HandleConnect(id)
      BY <2>6 DEF HandleConnect
    <2>7. CASE \E id \in Ids : /\ PeerSends(id) \/ PeerCloses(id)
                               /\ UNCHANGED clientVars
      BY <2>7 DEF PeerSends, PeerCloses
    <2>8. CASE \E id \in Ids : /\ HandleRead(id) \/ HandleWrite(id)
                               /\ UNCHANGED clientVars
      BY <2>8 DEF HandleRead, HandleWrite, UseAfterFree
    <2> QED
      BY <1>10, <2>1, <2>2, <2>3, <2>4, <2>5, <2>6, <2>7, <2>8 DEF HandlerStep, IoNext
  <1> QED
    BY <1>1, <1>2, <1>3, <1>4, <1>5, <1>6, <1>7, <1>8, <1>9, <1>10, HttpStepKinds

\* The thread of the io_context works on nothing and takes nothing that was freed
\* (session.h:43, 89, 104).
LEMMA NothingIsFreed ==
  ASSUME ClientInv, DestroyedIdle, HttpNext
  PROVE  /\ Rearm => Alive(io.sid)
         /\ \A id \in Ids : HandleRead(id) \/ HandleWrite(id) \/ HttpDoSendMsg(id) => Alive(id)
  <1>1. ASSUME Rearm PROVE Alive(io.sid)
    <2>1. io.sid \in Ids /\ owner # "gone"
      BY <1>1 DEF ClientInv, TypeOK, SessionTypeOK, IoHasSession, DestroyedIdle, Rearm, IoIn
    <2> QED
      BY <2>1, ConnectedIsAlive
  <1>2. ASSUME NEW id \in Ids, HandleRead(id) \/ HandleWrite(id) \/ HttpDoSendMsg(id)
        PROVE  Alive(id)
    <2>1. owner # "gone"
      BY <1>2 DEF HandleRead, HandleWrite, HttpDoSendMsg, DoSendMsg, IoFree, DestroyedIdle
    <2>2. read[id] # "none" \/ write[id] # "none"
      BY <1>2 DEF HandleRead, ReadReady, HandleWrite, HttpDoSendMsg, DoSendMsg
    <2>3. WasConnected(id)
      BY <2>2 DEF ClientInv, StatusAdvances
    <2> QED
      BY <2>1, <2>3, ConnectedIsAlive
  <1> QED
    BY <1>1, <1>2

\* A read of one answer stores the whole of it (client.h:105-118).
LEMMA ReadsWhole ==
  ASSUME HttpInv, ResponsesAreWhole, NEW n \in 1 .. Len(stream), OnReceive(n), whole'
  PROVE  /\ n = 2 /\ UNCHANGED crash /\ io' = IoAt("store", io.sid)
         /\ ~m_frame'.failed /\ m_frame'.rsp = Whole(stream[1].of)
  <1> DEFINE s == SubSeq(stream, 1, n)
  <1>1. stream \in Seq(Piece)
    BY DEF HttpInv, HttpTypeOK
  <1>2. s \in Seq(Piece) /\ Len(s) = n /\ s[1] = stream[1]
    BY <1>1, ReadTakesPrefix
  <1>3. OneAnswer(s) /\ whole /\ m_frame' = Parse(s)
    BY DEF OnReceive
  <1>4. ~m_frame.failed
    BY <1>3 DEF ResponsesAreWhole
  <1>5. \/ Parse(s).failed \/ ~IsCompleted(Parse(s))
        \/ ReadsEnd(Parse(s))
        \/ io' = IoAt("store", io.sid) /\ UNCHANGED crash
    BY DEF OnReceive
  <1> HIDE DEF s
  <1>6. n = 2
    BY <1>2, <1>3 DEF OneAnswer
  <1> QED
    BY <1>2, <1>3, <1>4, <1>5, <1>6, OneAnswerIsWhole

\* It leaves nothing in the stream of a request that has met nothing unusual.
LEMMA WholeRead ==
  ASSUME HttpInv, ResponsesAreWhole, StagesAreWhole, NEW n \in 1 .. Len(stream), OnReceive(n),
         whole'
  PROVE  /\ stream' = << >> /\ UNCHANGED crash
         /\ m_frame'.rsp = Whole(req) /\ io' = IoAt("store", io.sid)
  <1>1. /\ n = 2 /\ UNCHANGED crash /\ io' = IoAt("store", io.sid)
        /\ m_frame'.rsp = Whole(stream[1].of)
    BY ReadsWhole
  <1>2. stream \in Seq(Piece) /\ stream # << >>
    BY DEF HttpInv, HttpTypeOK
  <1>3. PICK p \in Piece, q \in Piece : p.of = req /\ (stream = <<p, q>> \/ stream = <<p>>)
    BY <1>2 DEF StagesAreWhole, OneInStream
  <1>4. stream = <<p, q>>
    <2>1. Len(<<p>>) = 1
      OBVIOUS
    <2>2. Len(stream) # 1
      BY <1>1, <1>2
    <2>3. stream # <<p>>
      BY <2>1, <2>2, Zenon
    <2> QED
      BY <1>3, <2>3, Zenon
  <1>5. stream' = SubSeq(stream, n + 1, Len(stream))
    BY DEF OnReceive
  <1>6. Len(stream) = 2 /\ stream[1] = p
    BY <1>4
  <1>7. stream' = << >>
    BY <1>1, <1>2, <1>5, <1>6
  <1> QED
    BY <1>1, <1>3, <1>6, <1>7

\* A request is in one place from the send to its answer (client.h:73-85, 105-118).
LEMMA OneStageNext ==
  ASSUME ClientInv, HttpInv, DestroyedIdle, OneConnect, OneStage, StagesAreWhole, ResponsesAreWhole, HttpNext, Clean'
  PROVE  OneStage'
  <1> USE NoneIsNoId DEF ClientInv, TypeOK, SessionTypeOK, OneStage, Posted, Announced,
                         InCallback, Owner
  <1>1. CASE Request
    BY <1>1 DEF Request, sessionVars
  <1>2. CASE HttpConnect
    BY <1>2 DEF HttpConnect, Connect, ResolveThrows, AddObject
  <1>3. CASE Connects
    BY <1>3 DEF Connects, sessionVars
  <1>4. CASE Send
    <2>1. ~Posted /\ got = 0 /\ stream = << >> /\ ~InCallback
      BY <1>4 DEF Send, HttpInv, HttpTypeOK
    <2>2. UNCHANGED <<got, stream, io, m_session_ref>> /\ owner' = "sent"
      BY <1>4 DEF Send
    <2>3. \A id \in Ids : write'[id] = "posted" => id = m_session_ref
      BY <1>4, <2>1 DEF Send, Connected
    <2> QED
      BY <2>1, <2>2, <2>3
  <1>5. CASE Await
    BY <1>5 DEF Await, sessionVars, httpVars
  <1>6. CASE Answered
    BY <1>6 DEF Answered, ReturnWith, sessionVars
  <1>7. CASE SpuriousAnswer \/ RequestTimeout \/ HttpTimeOut
    BY <1>7 DEF SpuriousAnswer, RequestTimeout, HttpTimeOut, Clean
  <1>8. ASSUME NEW n \in 1 .. Len(stream), OnReceive(n)
        PROVE  OneStage'
    <2>1. stream' = << >> /\ io' = IoAt("store", io.sid)
      BY <1>8, WholeRead DEF Clean
    <2>2. stream # << >>
      BY DEF HttpInv, HttpTypeOK
    <2> QED
      BY <1>8, <2>1, <2>2 DEF OnReceive, clientVars, IoAt
  <1>9. CASE Store
    BY <1>9 DEF Store, IoIn, IoAt, clientVars
  <1>10. CASE NotifyAnswer
    BY <1>10 DEF NotifyAnswer, Notify, IoIn, IoAt, httpVars
  <1>11. ASSUME NEW id \in Ids, HttpDoSendMsg(id)
         PROVE  OneStage'
    <2>1. /\ write[id] = "posted" /\ write' = [write EXCEPT ![id] = "writing"]
          /\ UNCHANGED <<io, clientVars, stream>>
      BY <1>11, NothingIsFreed DEF HttpDoSendMsg, DoSendMsg
    <2>2. \A other \in Ids : write'[other] # "posted"
      BY <2>1
    <2> QED
      BY <2>1, <2>2 DEF clientVars
  <1>12. CASE PeerStep
    <2>1. got > 0 /\ got' = 0 /\ UNCHANGED vars
      BY <1>12 DEF PeerStep, PeerAnswers
    <2> QED
      BY <2>1 DEF vars, sessionVars, clientVars
  <1>13. CASE OwnerStep
    <2> USE <1>13 DEF OwnerStep, httpVars, clientVars, sessionVars
    <2>1. CASE Run \/ WaitFor \/ Woken
      BY <2>1 DEF Run, Crash, WaitFor, Woken, Answer
    <2>2. CASE Application
      BY <2>2 DEF Application, Shutdown, Destroy, Disconnect, AssertSession, Crash
    <2>3. CASE OnDisconnect \/ DestroyClient
      BY <2>3 DEF OnDisconnect, DestroyClient, Disconnect, AssertSession, Crash
    <2>4. CASE StopContext \/ Join
      BY <2>4 DEF StopContext, Join, Crash
    <2> QED
      BY <2>1, <2>2, <2>3, <2>4
  <1>14. CASE HandlerStep
    <2>1. UNCHANGED <<owner, m_session_ref, httpVars>>
      BY <1>14, HandlersKeepRequest
    <2> USE <2>1 DEF httpVars, IoIn, IoFree, IoAt, IoIdle, clientVars, sessionVars
    <2>2. CASE OnReceiveBase \/ MembersGone \/ (\E id \in Ids : HttpSendsFreed(id))
      <3>1. CASE OnReceiveBase
        BY <3>1 DEF OnReceiveBase, OnRecvMsg
      <3>2. CASE MembersGone \/ \E id \in Ids : HttpSendsFreed(id)
        <4>1. UNCHANGED <<write, io, clientVars>>
          BY <3>2 DEF MembersGone, HttpSendsFreed, Crash
        <4> QED
          BY <4>1
      <3> QED
        BY <2>2, <3>1, <3>2
    <2>3. CASE OnConnect \/ OnConnectFail
      BY <2>3 DEF OnConnect, OnConnectFail, Notify, Waits, OneConnect
    <2>4. CASE DelObject \/ OnRecvError
      BY <2>4 DEF DelObject, OnRecvError
    <2>5. CASE (Rearm \/ IoExit) /\ UNCHANGED clientVars
      BY <2>5 DEF Rearm, IoExit, UseAfterFree
    <2>6. CASE \E id \in Ids : Accepted(id) \/ Refused(id) \/ HandleConnect(id)
      BY <2>6 DEF Accepted, Refused, HandleConnect
    <2>7. CASE \E id \in Ids : /\ PeerSends(id) \/ PeerCloses(id)
                               /\ UNCHANGED clientVars
      BY <2>7 DEF PeerSends, PeerCloses
    <2>8. CASE \E id \in Ids : /\ HandleRead(id) \/ HandleWrite(id)
                               /\ UNCHANGED clientVars
      BY <2>8 DEF HandleRead, HandleWrite, UseAfterFree
    <2> QED
      BY <1>14, <2>2, <2>3, <2>4, <2>5, <2>6, <2>7, <2>8 DEF HandlerStep, IoNext
  <1> QED
    BY <1>1, <1>2, <1>3, <1>4, <1>5, <1>6, <1>7, <1>8, <1>9, <1>10, <1>11, <1>12, <1>13, <1>14,
       HttpStepKinds

\* What is parsed, stored and announced is the whole answer to the request that
\* waits (client.h:105-118, message.h).
LEMMA StagesNext ==
  ASSUME ClientInv, HttpInv, OneConnect, OneStage, StagesAreWhole, ResponsesAreWhole, HttpNext, Clean'
  PROVE  StagesAreWhole'
  <1> USE DEF OneStage, StagesAreWhole, OneInStream, Announced, InCallback, Owner
  <1>1. CASE Request
    BY <1>1 DEF Request, sessionVars
  <1>2. CASE HttpConnect \/ Connects \/ Send
    BY <1>2 DEF HttpConnect, Connect, ResolveThrows, Connects, Send, sessionVars
  <1>3. CASE Await
    BY <1>3 DEF Await, sessionVars, httpVars
  <1>4. CASE Answered
    BY <1>4 DEF Answered, ReturnWith, sessionVars
  <1>5. CASE SpuriousAnswer \/ RequestTimeout \/ HttpTimeOut
    BY <1>5 DEF SpuriousAnswer, RequestTimeout, HttpTimeOut, Clean
  <1>6. ASSUME NEW n \in 1 .. Len(stream), OnReceive(n)
        PROVE  StagesAreWhole'
    <2>1. /\ stream' = << >> /\ io' = IoAt("store", io.sid)
          /\ m_frame'.rsp = Whole(req)
      BY <1>6, WholeRead DEF Clean
    <2>2. stream # << >>
      BY DEF HttpInv, HttpTypeOK
    <2>3. ~Announced' /\ UNCHANGED req
      BY <1>6, <2>2 DEF OnReceive, clientVars
    <2> QED
      BY <2>1, <2>3 DEF IoAt
  <1>7. CASE Store
    BY <1>7 DEF Store, IoIn, IoAt, clientVars
  <1>8. CASE NotifyAnswer
    BY <1>8 DEF NotifyAnswer, IoIn, IoAt, httpVars
  <1>9. CASE \E id \in Ids : HttpDoSendMsg(id)
    BY <1>9 DEF HttpDoSendMsg, DoSendMsg, UseAfterFree, clientVars
  <1>10. CASE PeerStep
    <2>1. PICK id \in Ids, a \in Answers : PeerAnswers(id, a)
      BY <1>10 DEF PeerStep
    <2>2. stream = << >> /\ UNCHANGED <<vars, req, m_frame, m_rsp>>
      BY <2>1 DEF PeerAnswers
    <2>3. PICK p \in Piece, q \in Piece : /\ p.of = req
                                          /\ stream' = stream \o <<p, q>> \/ stream' = stream \o <<p>>
      BY <2>1, PeerSendsPieces
    <2>4. stream' = <<p, q>> \/ stream' = <<p>>
      BY <2>2, <2>3
    <2> QED
      BY <2>2, <2>3, <2>4 DEF vars, sessionVars, clientVars
  <1>11. CASE OwnerStep
    <2> USE <1>11 DEF OwnerStep, httpVars, clientVars, sessionVars
    <2>1. CASE Run \/ WaitFor \/ Woken
      BY <2>1 DEF Run, Crash, WaitFor, Woken, Answer
    <2>2. CASE Application
      BY <2>2 DEF Application, Shutdown, Destroy, Disconnect, AssertSession, Crash
    <2>3. CASE OnDisconnect \/ DestroyClient
      BY <2>3 DEF OnDisconnect, DestroyClient, Disconnect, AssertSession, Crash
    <2>4. CASE StopContext \/ Join
      BY <2>4 DEF StopContext, Join, Crash
    <2> QED
      BY <2>1, <2>2, <2>3, <2>4
  <1>12. CASE HandlerStep
    <2>1. UNCHANGED <<owner, httpVars>>
      BY <1>12, HandlersKeepRequest
    <2> USE <2>1 DEF httpVars, IoIn, IoFree, IoAt, IoIdle, clientVars, sessionVars
    <2>2. CASE OnReceiveBase \/ MembersGone \/ (\E id \in Ids : HttpSendsFreed(id))
      <3>1. CASE OnReceiveBase
        BY <3>1 DEF OnReceiveBase, OnRecvMsg
      <3>2. CASE MembersGone \/ \E id \in Ids : HttpSendsFreed(id)
        <4>1. UNCHANGED <<write, io, clientVars>>
          BY <3>2 DEF MembersGone, HttpSendsFreed, Crash
        <4> QED
          BY <4>1
      <3> QED
        BY <2>2, <3>1, <3>2
    <2>3. CASE OnConnect \/ OnConnectFail
      BY <2>3 DEF OnConnect, OnConnectFail, Notify, Waits, OneConnect
    <2>4. CASE DelObject \/ OnRecvError
      BY <2>4 DEF DelObject, OnRecvError
    <2>5. CASE (Rearm \/ IoExit) /\ UNCHANGED clientVars
      BY <2>5 DEF Rearm, IoExit, UseAfterFree
    <2>6. CASE \E id \in Ids : Accepted(id) \/ Refused(id) \/ HandleConnect(id)
      BY <2>6 DEF Accepted, Refused, HandleConnect
    <2>7. CASE \E id \in Ids : /\ PeerSends(id) \/ PeerCloses(id)
                               /\ UNCHANGED clientVars
      BY <2>7 DEF PeerSends, PeerCloses
    <2>8. CASE \E id \in Ids : /\ HandleRead(id) \/ HandleWrite(id)
                               /\ UNCHANGED clientVars
      BY <2>8 DEF HandleRead, HandleWrite, UseAfterFree
    <2> QED
      BY <1>12, <2>2, <2>3, <2>4, <2>5, <2>6, <2>7, <2>8 DEF HandlerStep, IoNext
  <1> QED
    BY <1>1, <1>2, <1>3, <1>4, <1>5, <1>6, <1>7, <1>8, <1>9, <1>10, <1>11, <1>12, HttpStepKinds

\* A response is made of one read, so that a read of one answer makes it whole; a
\* request throws or returns it (client.h:81-85, 105-111, message.cpp:156-185).
LEMMA ResponsesNext ==
  ASSUME HttpAllInv, HttpNext, whole'
  PROVE  ResponsesAreWhole'
  <1>1. /\ HttpInv /\ ResponsesAreWhole /\ req \in Nat
        /\ m_frame.rsp \in Responses /\ m_rsp \in Responses /\ answer.rsp \in Responses
        /\ crash # "end-iterator" /\ ~m_frame.failed
    BY CleanStays DEF HttpAllInv, HttpInv, HttpTypeOK, ResponsesAreWhole
  <1>2. crash' # "end-iterator"
    <2>1. CASE crash' = crash
      BY <1>1, <2>1
    <2>2. CASE crash' # crash /\ crash' = "end-iterator"
      <3>1. PICK n \in 1 .. Len(stream) : OnReceive(n)
        BY <2>2, CrashIsAlone DEF HttpAllInv, ClientStep
      <3> QED
        BY <1>1, <2>2, <3>1, ReadsWhole
    <2> QED
      BY <2>1, <2>2
  <1>3. ASSUME req' \in {req, req + 1} PROVE Responses \subseteq Responses'
    BY <1>1, <1>3 DEF Responses, Whole, Empty
  <1>4. Empty \in Responses /\ Empty \in Responses'
    BY DEF Responses, Empty
  <1> USE DEF httpVars, vars
  <1>5. CASE Request
    BY <1>1, <1>2, <1>3, <1>4, <1>5 DEF Request, Thrown, ResponsesAreWhole
  <1>6. CASE Answered \/ SpuriousAnswer \/ RequestTimeout
    <2>1. UNCHANGED <<req, m_frame, m_rsp>> /\ answer' \in {Copy, Thrown}
      BY <1>6 DEF Answered, SpuriousAnswer, RequestTimeout, ReturnWith
    <2>2. Copy.rsp \in {Empty, m_rsp} /\ Thrown.rsp = Empty
      BY DEF Copy, Returned, Thrown
    <2> QED
      BY <1>1, <1>2, <1>3, <1>4, <2>1, <2>2 DEF ResponsesAreWhole
  <1>7. ASSUME NEW n \in 1 .. Len(stream), OnReceive(n)
        PROVE  ResponsesAreWhole'
    <2>1. m_frame'.rsp = Whole(stream[1].of) /\ ~m_frame'.failed
      BY <1>1, <1>7, ReadsWhole
    <2>2. stream[1].of \in 1 .. req
      <3>1. stream \in Seq(Piece) /\ 1 \in 1 .. Len(stream)
        BY <1>1 DEF HttpInv, HttpTypeOK
      <3>2. stream[1] \in Piece /\ stream[1].of <= req
        BY <1>1, <3>1 DEF HttpInv, NoEarlyAnswer
      <3> QED
        BY <1>1, <3>2 DEF Piece
    <2>3. UNCHANGED <<req, m_rsp, answer>>
      BY <1>7 DEF OnReceive
    <2> QED
      BY <1>1, <1>2, <1>3, <2>1, <2>2, <2>3 DEF Responses, ResponsesAreWhole
  <1>8. CASE Store
    BY <1>1, <1>2, <1>3, <1>8 DEF Store, ResponsesAreWhole
  <1>9. CASE \/ HttpConnect \/ Connects \/ Send \/ Await \/ HttpTimeOut \/ NotifyAnswer
             \/ (\E id \in Ids : HttpDoSendMsg(id)) \/ PeerStep \/ OwnerStep \/ HandlerStep
    <2>1. UNCHANGED <<req, m_frame, m_rsp, answer>>
      BY <1>9, HandlersKeepRequest DEF HttpConnect, Connects, Send, Await, HttpTimeOut,
         NotifyAnswer, HttpDoSendMsg, PeerStep, PeerAnswers, OwnerStep
    <2> QED
      BY <1>1, <1>2, <1>3, <2>1 DEF ResponsesAreWhole
  <1> QED
    BY <1>5, <1>6, <1>7, <1>8, <1>9, HttpStepKinds

\* A request returns the answer to itself, and nothing is used after it is gone
\* (client.h:73-85, 111).
LEMMA CleanNext ==
  ASSUME HttpAllInv, HttpNext, Clean'
  PROVE  /\ answer' \in {Thrown, Returned("copied", Whole(req'))}
         /\ crash' # "use-after-free"
  <1>1. /\ Clean /\ whole' /\ OneConnect /\ OneStage /\ StagesAreWhole /\ ResponsesAreWhole
        /\ ClientInv /\ HttpInv /\ DestroyedIdle
        /\ answer \in {Thrown, Returned("copied", Whole(req))}
        /\ crash # "use-after-free"
    BY CleanStays DEF HttpAllInv, CleanInv, HttpCleanIsRight, Clean
  <1> USE <1>1 DEF Owner, sessionVars, clientVars, httpVars
  <1>2. CASE Request
    BY <1>2 DEF Request
  <1>3. CASE HttpConnect \/ Connects \/ Send \/ Await
    BY <1>3 DEF HttpConnect, Connect, ResolveThrows, Connects, Send, Await
  <1>4. CASE Answered
    <2>1. m_rsp = Whole(req) /\ io.at # "store"
      BY <1>4 DEF Answered, OneStage, StagesAreWhole, Announced, InCallback
    <2> QED
      BY <1>4, <2>1 DEF Answered, ReturnWith, Copy
  <1>5. CASE SpuriousAnswer \/ RequestTimeout \/ HttpTimeOut
    BY <1>5 DEF SpuriousAnswer, RequestTimeout, HttpTimeOut, Clean
  <1>6. ASSUME NEW n \in 1 .. Len(stream), OnReceive(n)
        PROVE  UNCHANGED <<crash, answer, req>>
    BY <1>6, WholeRead DEF OnReceive
  <1>7. CASE Store \/ NotifyAnswer \/ PeerStep
    BY <1>7 DEF Store, NotifyAnswer, PeerStep, PeerAnswers, vars
  <1>8. CASE \E id \in Ids : HttpDoSendMsg(id)
    BY <1>8, NothingIsFreed DEF HttpDoSendMsg, DoSendMsg
  <1>9. CASE OwnerStep
    BY <1>9 DEF OwnerStep, Run, WaitFor, Woken, Answer, Application, Shutdown, Destroy,
                Disconnect, AssertSession, Crash, OnDisconnect, DestroyClient, StopContext, Join
  <1>10. CASE HandlerStep
    <2>1. UNCHANGED <<answer, req>>
      BY <1>10, HandlersKeepRequest
    <2>2. crash' \in {crash, "terminate"}
      <3>1. CASE OnReceiveBase \/ IoNext
        BY <3>1 DEF OnReceiveBase, OnRecvMsg, IoNext, OnConnect, OnConnectFail, DelObject,
                    OnRecvError
      <3>2. ~MembersGone
        BY DEF MembersGone, OneStage, DestroyedIdle
      <3>3. \A id \in Ids : ~HttpSendsFreed(id)
        BY DEF HttpSendsFreed, OneStage, Posted, HttpInv, RequestOK
      <3>4. CASE Rearm \/ \E id \in Ids : HandleRead(id) \/ HandleWrite(id)
        BY <3>4, NothingIsFreed DEF Rearm, HandleRead, HandleWrite
      <3>5. CASE IoExit \/ \E id \in Ids : \/ Accepted(id) \/ Refused(id) \/ HandleConnect(id)
                                           \/ PeerSends(id) \/ PeerCloses(id)
        BY <3>5 DEF IoExit, Accepted, Refused, HandleConnect, PeerSends, PeerCloses
      <3> QED
        BY <1>10, <3>1, <3>2, <3>3, <3>4, <3>5 DEF HandlerStep
    <2> QED
      BY <2>1, <2>2
  <1> QED
    BY <1>2, <1>3, <1>4, <1>5, <1>6, <1>7, <1>8, <1>9, <1>10, HttpStepKinds

\* Every step keeps the invariant.
LEMMA HttpAllNext == ASSUME HttpAllInv, [HttpNext]_allVars PROVE HttpAllInv'
  <1>1. ClientInv' /\ HttpInv' /\ DestroyedIdle'
    BY HttpInvNext DEF HttpAllInv
  <1>2. CASE HttpNext
    <2>1. CleanInv'
      BY <1>2, CleanStays, OneConnectNext, OneStageNext, StagesNext DEF HttpAllInv, CleanInv, Clean
    <2>2. ResponsesAreWhole'
      BY <1>2, ResponsesNext DEF ResponsesAreWhole
    <2>3. HttpCleanIsRight'
      BY <1>2, <2>2, CleanNext DEF HttpCleanIsRight, ResponsesAreWhole, Responses, Clean
    <2> QED
      BY <1>1, <2>1, <2>2, <2>3 DEF HttpAllInv
  <1>3. CASE UNCHANGED allVars
    <2> USE <1>3 DEF HttpAllInv, CleanInv, Clean, allVars, vars, sessionVars, clientVars, httpVars
    <2>1. HttpCleanIsRight'
      BY DEF HttpCleanIsRight
    <2>2. OneConnect => OneConnect'
      BY DEF OneConnect
    <2>3. OneStage => OneStage'
      BY DEF OneStage, Posted, Announced, InCallback
    <2>4. StagesAreWhole => StagesAreWhole'
      BY DEF StagesAreWhole, OneInStream, Announced
    <2>5. ResponsesAreWhole'
      BY DEF ResponsesAreWhole, Responses
    <2> QED
      BY <1>1, <2>1, <2>2, <2>3, <2>4, <2>5
  <1> QED
    BY <1>2, <1>3

\* The invariant holds of every run of http::client over tcp::client.
LEMMA HttpInvariant == HttpSpec => []HttpAllInv
  BY HttpInvInit, HttpAllNext, PTL DEF HttpSpec

\* The invariant implies the three properties (client.h:59-118).
LEMMA HttpInvImplies ==
  ASSUME HttpAllInv PROVE HttpTypeOK /\ HttpNoLostAnswer /\ HttpCleanIsRight
  BY DEF HttpAllInv, HttpInv, AnswerIsAnnounced, HttpNoLostAnswer

-----------------------------------------------------------------------------
(* The theorems. *)

\* Types are correct: the peer has no more of a request than was written, and
\* the pieces in the stream are of requests that were made (session.h:86-99,
\* client.h:59-85).
THEOREM HttpTypeCorrect == HttpSpec => []HttpTypeOK
  BY HttpInvariant, HttpInvImplies, PTL

\* A request is not left waiting once its answer was stored: the notification is
\* still to come, whatever the peer, the sessions and the earlier requests do,
\* because request() holds m_mtx from before the send until the wait
\* (client.h:75-77, 111-116).
THEOREM NoAnswerIsLost == HttpSpec => []HttpNoLostAnswer
  BY HttpInvariant, HttpInvImplies, PTL

\* As long as every read brings one answer of told length, whatever waits end by time
\* or without cause and whatever sessions are made, refused and closed, no request
\* returns half an answer or a mixture of two, and the end iterator is not read; if no
\* wait has ended so either, each request returns the answer to itself, and neither
\* its string nor a member or a session is used after it is gone (client.h:73-85,
\* 105-118, message.cpp:87-100, 156-185).
THEOREM CleanRequestsAreRight == HttpSpec => []HttpCleanIsRight
  BY HttpInvariant, HttpInvImplies, PTL
=============================================================================
