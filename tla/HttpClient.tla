----------------------------- MODULE HttpClient -----------------------------
(***************************************************************************)
(* http::client (net/app/http/client.h) with its http::message: a request  *)
(* connects if need be, sends the text of the request and waits without a  *)
(* predicate for whatever notifies m_cv; on_receive parses what was read   *)
(* and, if the message calls itself complete, stores the response before   *)
(* it takes the mutex to notify.                                           *)
(*                                                                         *)
(* An answer of the peer is two pieces: the head with the first half of    *)
(* the body, and the other half; an answer without a body is one.  The end *)
(* of the body is told by its length, by the last of its chunks (each half *)
(* is one), or by the end of the connection.  A read takes any number of   *)
(* the pieces that have arrived.  The requests are longer than the ten     *)
(* bytes that do_send_msg transfers, and the peer answers what it gets, as *)
(* a server does that gives up waiting for the rest.                       *)
(***************************************************************************)
EXTENDS TcpClient, Sequences, Functions

CONSTANTS Answers,      \* the answers a peer gives: how the body ends, Connection
          MaxRequests,  \* bound on the number of calls of request()
          RequestSize,  \* bytes of a request
          WriteSize     \* the argument of transfer_exactly

Framings == {"length", "chunked", "eof", "none"}
Connections == {"close", "keep-alive", "absent"}

ASSUME AnswersAssumption == Answers \subseteq [framing : Framings, connection : Connections]
ASSUME SizeAssumption ==
  MaxRequests \in Nat /\ RequestSize \in Nat \ {0} /\ WriteSize \in Nat \ {0}

VARIABLES
  req,        \* number of the request() last called
  requesting, \* where request() is with its call of sync_connect
  buffer,     \* the string of the request is alive
  got,        \* bytes of the request that the peer has and has not answered
  stream,     \* pieces of answers on their way to the client
  closing,    \* the peer has announced that it closes: it answers nothing more
  m_frame,    \* the http::message that parses them
  m_rsp,      \* the response: the request its head answers, the pieces of its body
  answer,     \* what the last request returned
  timely,     \* history: no wait has ended by time or without cause
  whole       \* history: every read brought one answer, the length of which is told

httpVars == <<req, requesting, buffer, got, stream, m_frame, m_rsp, answer, closing,
              timely, whole>>
allVars == <<vars, httpVars>>

NotHttp == 0  \* a piece that is no HTTP
Empty == [of |-> 0, body |-> {}]
Whole(r) == [of |-> r, body |-> {<<r, 1>>, <<r, 2>>}]
Thrown == [how |-> "thrown", rsp |-> Empty]
Returned(how, rsp) == [how |-> how, rsp |-> rsp]

Piece == [of : 1 .. MaxRequests, part : {NotHttp, 1, 2}, framing : Framings,
          connection : Connections]
Bodies == SUBSET ((1 .. MaxRequests) \X {NotHttp, 1, 2})

HttpInit == /\ Init
            /\ req = 0 /\ requesting = "no" /\ buffer = FALSE /\ got = 0
            /\ stream = << >> /\ closing = FALSE
            /\ m_frame = [rsp |-> Empty, connection |-> "absent", completed |-> FALSE,
                          failed |-> FALSE]
            /\ m_rsp = Empty /\ answer = Thrown
            /\ timely = TRUE /\ whole = TRUE

\* Types; the peer has no more of a request than was written (session.h:88).
HttpTypeOK ==
  /\ TypeOK
  /\ req \in 0 .. MaxRequests /\ got \in 0 .. RequestSize
  /\ requesting \in {"no", "connect", "connecting"} /\ buffer \in BOOLEAN
  /\ stream \in Seq(Piece)
  /\ m_rsp \in [of : Nat, body : Bodies]
  /\ m_frame \in [rsp : [of : Nat, body : Bodies], connection : Connections,
                  completed : BOOLEAN, failed : BOOLEAN]
  /\ closing \in BOOLEAN /\ timely \in BOOLEAN /\ whole \in BOOLEAN

-----------------------------------------------------------------------------
(* request() *)

Connected == m_session_ref # None /\ Alive(m_session_ref) /\ is_connected(m_session_ref)

\* The test of the session; without a connection sync_connect is called.
Request ==
  /\ Owner("idle") /\ requesting = "no" /\ req < MaxRequests
  /\ req' = req + 1 /\ got' = 0 /\ answer' = Thrown
  /\ \/ Connected /\ owner' = "request" /\ UNCHANGED requesting
     \/ /\ ~Connected /\ m_sequence_id < MaxSessions
        /\ requesting' = "connect" /\ UNCHANGED owner
  /\ UNCHANGED <<sessionVars, conn, m_session_ref, destroying, notified, result, buffer,
                 stream, m_frame, m_rsp, closing, timely, whole>>

\* sync_connect, called by request() or by the application; what the resolver
\* throws goes through request().
HttpConnect ==
  /\ \/ /\ Connect
        /\ requesting' = IF requesting = "connect" THEN "connecting" ELSE requesting
     \/ ResolveThrows /\ requesting' = "no"
  /\ requesting # "connecting"
  /\ UNCHANGED <<req, buffer, got, stream, m_frame, m_rsp, answer, closing,
                 timely, whole>>

\* sync_connect has returned to request(), which throws on false.
Connects ==
  /\ Owner("idle") /\ requesting = "connecting"
  /\ requesting' = "no"
  /\ owner' = IF result = "true" THEN "request" ELSE "idle"
  /\ UNCHANGED <<sessionVars, conn, m_session_ref, destroying, notified, result>>
  /\ UNCHANGED <<req, buffer, got, stream, m_frame, m_rsp, answer, closing,
                 timely, whole>>

\* m_mtx is taken; send_msg posts the write unless the session is gone, which
\* request() does not look at.  At most one write is under way (a bound).
Send ==
  /\ Owner("request")
  /\ owner' = "sent" /\ buffer' = TRUE
  /\ \/ /\ Connected /\ write[m_session_ref] = "none"
        /\ write' = [write EXCEPT ![m_session_ref] = "posted"]
     \/ ~Connected /\ UNCHANGED write
  /\ UNCHANGED <<poolVars, m_status, m_stopped, held, read, peer, io, crash, conn,
                 m_session_ref, destroying, notified, result>>
  /\ UNCHANGED <<req, requesting, got, stream, m_frame, m_rsp, answer, closing,
                 timely, whole>>

\* wait_for releases m_mtx.
Await == /\ Owner("sent")
         /\ owner' = "awaiting" /\ notified' = FALSE
         /\ UNCHANGED <<sessionVars, conn, m_session_ref, destroying, result, httpVars>>

\* request() returns, or throws: its string is destroyed.
ReturnWith(a) ==
  /\ owner' = "idle" /\ buffer' = FALSE /\ answer' = a
  /\ UNCHANGED <<sessionVars, conn, m_session_ref, destroying, notified, result>>
  /\ UNCHANGED <<req, requesting, got, stream, m_frame, m_rsp, closing>>

\* return m_rsp, which the other thread may be writing.
Copy == IF io.at = "store" THEN Returned("torn", Empty) ELSE Returned("copied", m_rsp)

Answered == Owner("awaiting") /\ notified /\ ReturnWith(Copy) /\ UNCHANGED <<timely, whole>>

\* The wait ends without cause, which request() takes for an answer.
SpuriousAnswer == /\ Owner("awaiting") /\ ~notified
                  /\ ReturnWith(Copy) /\ timely' = FALSE /\ UNCHANGED whole

\* Fifteen seconds have passed, notified or not: request() throws.
RequestTimeout == /\ Owner("awaiting")
                  /\ ReturnWith(Thrown) /\ timely' = FALSE /\ UNCHANGED whole

-----------------------------------------------------------------------------
(* The peer. *)

\* Bytes that async_write hands over before it is complete.
Transferred == IF RequestSize < WriteSize THEN RequestSize ELSE WriteSize

\* do_send_msg of the posted write reads the string of the request.
HttpDoSendMsg(id) ==
  /\ DoSendMsg(id) /\ UNCHANGED clientVars
  /\ buffer /\ got' = Transferred
  /\ UNCHANGED <<req, requesting, buffer, stream, m_frame, m_rsp, answer, closing,
                 timely, whole>>

\* The string is gone.
HttpSendsFreed(id) ==
  /\ IoFree /\ write[id] = "posted" /\ ~buffer
  /\ Crash("use-after-free") /\ UNCHANGED httpVars

\* The peer answers, or sends what is no HTTP.  After an answer that announces the
\* end of the connection, or is delimited by it, it sends nothing more.
PeerAnswers(id, a) ==
  LET piece(n, c) == [of |-> req, part |-> n, framing |-> a.framing, connection |-> c]
      answered == IF a.framing = "none" THEN <<piece(2, a.connection)>>
                  ELSE <<piece(1, a.connection), piece(2, "absent")>>
  IN  /\ crash = "none" /\ peer[id] = "open" /\ got > 0 /\ ~closing
      /\ got' = 0
      /\ \/ /\ stream' = stream \o answered
            /\ closing' = (a.framing = "eof" \/ a.connection = "close")
         \/ stream' = Append(stream, piece(NotHttp, "absent")) /\ UNCHANGED closing
      /\ UNCHANGED <<vars, req, requesting, buffer, m_frame, m_rsp, answer, timely, whole>>

-----------------------------------------------------------------------------
(* http::message *)

\* Mutant: only the first fragment of a read is kept.
Body_First(pieces) == {<<pieces[1].of, pieces[1].part>>}

\* on_body replaces the body.  It is called once for what a read brings of a body,
\* but once per chunk of one that comes in chunks, and not for an answer without one.
Body(pieces) ==
  LET texts == {i \in 1 .. Len(pieces) : pieces[i].framing # "none"}
      last == pieces[CHOOSE i \in texts : \A j \in texts : j <= i]
      kept == IF last.framing = "chunked" THEN {last}
              ELSE {p \in Range(pieces) : p.framing # "none" /\ p.of = last.of}
  IN  IF texts = {} THEN m_frame.rsp.body ELSE {<<p.of, p.part>> : p \in kept}

\* The headers are never cleared, the last one met counts.
Header(pieces) ==
  LET heads == {i \in 1 .. Len(pieces) : pieces[i].connection # "absent"}
  IN  IF heads = {} THEN m_frame.connection
      ELSE pieces[CHOOSE i \in heads : \A j \in heads : j <= i].connection

\* parse_from_array: m_completed is never reset, the end of the connection is not told
\* to the parser, so that it completes no answer that is delimited by it, and a parser
\* that failed once fails for ever.
Parse(pieces) ==
  IF m_frame.failed \/ \E p \in Range(pieces) : p.part = NotHttp
    THEN [m_frame EXCEPT !.failed = TRUE]
    ELSE [rsp |-> [of |-> pieces[Len(pieces)].of, body |-> Body(pieces)],
          connection |-> Header(pieces),
          completed |-> \/ m_frame.completed
                        \/ \E p \in Range(pieces) : p.part = 2 /\ p.framing # "eof",
          failed |-> FALSE]

\* is_completed reads the end iterator when no Connection header was seen: what
\* it finds there is not "close", if it can be read at all.
IsCompleted(f) == f.completed \/ f.connection = "close"
ReadsEnd(f) == ~f.completed /\ f.connection = "absent"

-----------------------------------------------------------------------------
(* on_receive, run by the thread of the io_context. *)

\* A read has brought one answer, the length of which is told.
OneAnswer(pieces) ==
  /\ Len(pieces) = 2 /\ pieces[1].part = 1 /\ pieces[2].part = 2
  /\ pieces[1].of = pieces[2].of
  /\ pieces[1].framing = "length" /\ pieces[2].framing = "length"

\* The read brought the first n pieces.
OnReceive(n) ==
  LET f == Parse(SubSeq(stream, 1, n))
  IN  /\ IoIn("on_recv_msg") /\ ~destroying
      /\ m_frame' = f
      /\ stream' = SubSeq(stream, n + 1, Len(stream))
      /\ whole' = (whole /\ OneAnswer(SubSeq(stream, 1, n)))
      /\ \/ /\ f.failed \/ ~IsCompleted(f)
            /\ io' = IoAt("recheck", io.sid) /\ UNCHANGED crash
         \/ /\ ~f.failed /\ IsCompleted(f)
            /\ io' = IoAt("store", io.sid) /\ UNCHANGED crash
         \/ /\ ~f.failed /\ ReadsEnd(f)
            /\ crash' = "end-iterator" /\ UNCHANGED io
      /\ UNCHANGED <<poolVars, m_status, m_stopped, held, read, write, peer, clientVars>>
      /\ UNCHANGED <<req, requesting, buffer, got, m_rsp, answer, closing, timely>>

\* on_receive is entered after the derived object is gone.
OnReceiveBase == /\ destroying /\ OnRecvMsg(destroying)
                 /\ UNCHANGED <<clientVars, httpVars>>

\* A callback in progress finds the members of the derived object destroyed.
InCallback == io.at \in {"store", "notify"}
MembersGone == InCallback /\ destroying /\ crash = "none"
               /\ Crash("use-after-free") /\ UNCHANGED httpVars

\* m_rsp is written without the mutex.
Store == /\ IoIn("store") /\ ~destroying
         /\ m_rsp' = m_frame.rsp
         /\ io' = IoAt("notify", io.sid)
         /\ UNCHANGED <<poolVars, m_status, m_stopped, held, read, write, peer, crash,
                        clientVars, req, requesting, buffer, got, stream, m_frame, answer,
                        closing, timely, whole>>

\* Mutant: m_mtx is not taken.
NotifyAnswer_Unlocked ==
  /\ IoIn("notify") /\ ~destroying
  /\ notified' = (notified \/ Waits)
  /\ io' = IoAt("recheck", io.sid)
  /\ UNCHANGED <<poolVars, m_status, m_stopped, held, read, write, peer, crash,
                 conn, m_session_ref, owner, destroying, result, httpVars>>

NotifyAnswer == /\ IoIn("notify") /\ ~destroying
                /\ Notify
                /\ io' = IoAt("recheck", io.sid)
                /\ UNCHANGED <<poolVars, m_status, m_stopped, held, read, write, peer, crash,
                               conn, m_session_ref, owner, destroying, result, httpVars>>

-----------------------------------------------------------------------------
(* The rest is TcpClient's; send_msg is called by request() only. *)

HttpTimeOut == /\ TimeOut /\ timely' = FALSE
               /\ UNCHANGED <<req, requesting, buffer, got, stream, m_frame, m_rsp, answer,
                              closing, whole>>

\* The application between two requests.
Application == requesting = "no" /\ (Shutdown \/ Destroy)

HttpOwnerNext ==
  \/ Request \/ HttpConnect \/ Connects \/ Send \/ Await
  \/ Answered \/ SpuriousAnswer \/ RequestTimeout \/ HttpTimeOut
  \/ /\ \/ Run \/ WaitFor \/ Woken \/ Application \/ OnDisconnect
        \/ DestroyClient \/ StopContext \/ Join
     /\ UNCHANGED httpVars

HttpIoNext == \/ \E n \in 1 .. Len(stream) : OnReceive(n)
              \/ OnReceiveBase \/ Store \/ NotifyAnswer \/ MembersGone
              \/ IoNext /\ UNCHANGED httpVars
              \/ Rearm /\ UNCHANGED <<clientVars, httpVars>>

\* Bytes are delivered in order, the end of the stream after all of them.
HttpNetwork(id) ==
  \/ /\ \/ Accepted(id) \/ Refused(id)
        \/ stream # << >> /\ PeerSends(id) /\ UNCHANGED clientVars
        \/ stream = << >> /\ PeerCloses(id) /\ UNCHANGED clientVars
     /\ UNCHANGED httpVars
  \/ \E a \in Answers : PeerAnswers(id, a)

HttpHandlers(id) ==
  \/ HttpDoSendMsg(id) \/ HttpSendsFreed(id)
  \/ HandleConnect(id) /\ UNCHANGED httpVars
  \/ (HandleRead(id) \/ HandleWrite(id)) /\ UNCHANGED <<clientVars, httpVars>>

HttpNext == \/ HttpOwnerNext \/ HttpIoNext
            \/ \E id \in Ids : HttpNetwork(id) \/ HttpHandlers(id)
            \/ IoExit /\ UNCHANGED <<clientVars, httpVars>>

HttpSpec == HttpInit /\ [][HttpNext]_allVars

\* As for TcpClient.
HttpFairSpec ==
  /\ HttpSpec /\ WF_allVars(HttpIoNext)
  /\ WF_allVars((OnDisconnect \/ DestroyClient \/ StopContext \/ Join) /\ UNCHANGED httpVars)

-----------------------------------------------------------------------------
(* Correctness. *)

\* A request is not left waiting once its answer was stored: the notification is
\* still to come, as m_mtx is held from before the send until the wait
\* (client.h:75-77, 111-116).
HttpNoLostAnswer ==
  owner = "awaiting" /\ ~notified => m_rsp.of # req \/ io.at \in {"store", "notify"}

\* Although m_rsp is written without the mutex, the wait has no predicate and the
\* parser keeps what it has met of earlier answers: as long as every read brings one
\* answer of told length, no response is made of two answers or of half of one, nor is
\* the end iterator read, whatever waits end by time (a copy that races the store is
\* told by its "how"); if none does, a request returns
\* the answer to itself, and its string and the members it waits on are not used after
\* they are gone (client.h:73-85, 105-117, message.cpp:87-100, 156-185).
HttpCleanIsRight ==
  /\ whole => /\ crash # "end-iterator"
              /\ answer.rsp \in {Empty} \cup {Whole(r) : r \in 1 .. req}
  /\ timely /\ whole => /\ answer \in {Thrown, Returned("copied", Whole(req))}
                        /\ crash # "use-after-free"

\* What the peer gets of a request is the whole request: test_http_client.cpp:38
\* expects an answer to it.
RequestIsSent == got > 0 => got = RequestSize
=============================================================================
