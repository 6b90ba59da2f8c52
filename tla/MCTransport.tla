---------------------------- MODULE MCTransport ----------------------------
(***************************************************************************)
(* The layers below the protocol, each on a small instance: a TCP          *)
(* connection, the server that owns the connections, the remote calls over *)
(* one, the throttle in both directions, the blocking client of the        *)
(* wallet, the HTTP server, the HTTP client against any server, and the    *)
(* HTTP client against the HTTP server.  A behaviour is one of them, which *)
(* `part` names; the variables of the others do not move.                  *)
(***************************************************************************)
EXTENDS HttpTokens

VARIABLES
    part,
    que, writes, c_reading, want_close, c_shutdown, que_lock, send_lock, th, c_sent, wire,
    accepting, stop, detached, main, wk, ready, att,
    in_map, object, reading, refs, wait_count, close_called, was_shutdown, shut, lock,
    handlers, cancelling, pc, timer, cbs, handling, peer, answers,
    m_history, m_any_packet_yet, m_target_speed, phase, lag, sampled, passed, thread,
    packets, limits, truth,
    todo, op, ec, open, m_connected, m_deadline, owner, queued, ops, pending, killed, res,
    up, down, srv, handled, sent, eof, cli, result, plan, fault, stale,
    timeouts    \* deadlines that have come in a run of HTTP client and server

connection == <<que, writes, c_reading, want_close, c_shutdown, que_lock, send_lock, th,
                c_sent, wire>>
server == <<accepting, stop, detached, main, wk, ready, att>>
levin == <<in_map, object, reading, refs, wait_count, close_called, was_shutdown, shut, lock,
           handlers, cancelling, pc, timer, cbs, handling, peer, answers>>
throttle == <<m_history, m_any_packet_yet, m_target_speed, phase, lag, sampled, passed,
              thread, packets, limits, truth>>
blocked == <<todo, op, ec, open, m_connected, m_deadline, owner, queued, ops, pending,
             killed, res>>
http == <<up, down, srv, handled, sent, eof, cli, result, plan, fault, stale, timeouts>>
vars == <<part, connection, server, levin, throttle, blocked, http>>

TcpServer == INSTANCE TcpServer WITH
    Senders <- {"s1", "s2"}, Closers <- {"c1"}, Nobody <- "nobody", Reader <- "reader",
    Writer <- "writer", Parts <- 2, MaxPackets <- 1, MaxQue <- 1,
    reading <- c_reading, was_shutdown <- c_shutdown, sent <- c_sent,
    Workers <- {"w1", "w2"}, Attempts <- {"a1"}, FastExit <- BOOLEAN
Levin == INSTANCE Levin WITH Calls <- {"c1", "c2"}, Notes <- {"n1"}, None <- "none"
Out == INSTANCE Throttle WITH
    Senders <- {"c1", "c2"}, Readers <- {}, Slots <- 3, Ticks <- 2, Sizes <- {1, 4},
    OutFactor <- 2, InFactor <- 2, AddCost <- 1, MinSegment <- 2, MaxSegment <- 8,
    Limits <- {0, 1, 2}, MaxPackets <- 3, MaxLimits <- 0
In == INSTANCE Throttle WITH
    Senders <- {}, Readers <- {"c1", "c2"}, Slots <- 3, Ticks <- 2, Sizes <- {1, 4},
    OutFactor <- 2, InFactor <- 2, AddCost <- 1, MinSegment <- 2, MaxSegment <- 8,
    Limits <- {0, 1, 2}, MaxPackets <- 2, MaxLimits <- 1
Blocked == INSTANCE BlockedClient WITH MaxOps <- 5

-----------------------------------------------------------------------------
(* Streams of up to three requests for the HTTP server: without a length,    *)
(* with length zero, with a body, asking for the connection to close, with a *)
(* length that is no number, line breaks before a request, a line that is no *)
(* request line, a line and a header area that do not end.                   *)
Host == <<"host", 0>>
Pad == <<"pad", 0>>
Get == [uri |-> 1, fields |-> <<Host>>, body |-> <<>>]
GetClose == [uri |-> 2, fields |-> <<<<"close", 0>>>>, body |-> <<>>]
Post == [uri |-> 3, fields |-> <<<<"clen", 2>>, Host>>, body |-> <<<<"b", 8>>, <<"b", 9>>>>]
PostClose == [uri |-> 4, fields |-> <<<<"clen", 1>>, <<"close", 0>>>>, body |-> <<<<"b", 8>>>>]
PostNone == [uri |-> 5, fields |-> <<<<"clen", 0>>>>, body |-> <<>>]
PostBad == [uri |-> 6, fields |-> <<<<"clen", BadLength>>>>, body |-> <<>>]
Bytes(b) == [uri |-> 0, fields |-> <<>>, body |-> b]
Noise == Bytes(<<Pad, CR, LF, Host, CR, LF>>)
LongLine == Bytes([i \in 1..6 |-> Pad])
LongHeader ==
    Bytes(<<<<"line", 7>>, CR, LF>> \o [i \in 1..12 |-> <<Host, CR, LF>>[((i - 1) % 3) + 1]])
Streams ==
    {<<a, b>> : a \in {Get, GetClose, Post, PostNone, PostBad},
                b \in {Get, Post, PostClose, PostNone}}
      \cup {<<Get, Post, Get>>, <<Post, Post, Get>>, <<Post, LongLine>>, <<Get, LongLine>>,
            <<LongLine>>, <<Bytes(<<CR, LF, LF>>), Get>>, <<Get, Noise>>, <<Get, LongHeader>>}

\* Answers for the HTTP client: with a length, with none, up to the end of the
\* connection, in chunks; then answers it does not read, the last of which has more
\* bytes than it announces.
X == <<"b", 1>>
Y == <<"b", 2>>
Hex(d) == <<"hex", d>>
Chunked == <<"te", 1>>
Answer(code, fields, payload, body, closes, good) ==
    [code |-> code, fields |-> fields, payload |-> payload, body |-> body,
     closes |-> closes, good |-> good]
Responses ==
   {Answer(200, <<<<"clen", 2>>>>, <<X, Y>>, <<X, Y>>, FALSE, TRUE),
    Answer(204, <<<<"clen", 0>>, <<"close", 0>>>>, <<>>, <<>>, FALSE, TRUE),
    Answer(200, <<<<"close", 0>>>>, <<X, Y>>, <<X, Y>>, TRUE, TRUE),
    Answer(200, <<Chunked, <<"clen", 2>>>>,
           <<Hex(2), CR, LF, X, Y, CR, LF, Hex(0), Hex(1), CR, LF, Y, CR, LF,
             Hex(0), CR, LF, CR, LF>>, <<X, Y, Y>>, FALSE, TRUE),
    Answer(200, <<Chunked>>, <<Hex(1), X, CR, LF>>, <<>>, FALSE, FALSE),
    Answer(200, <<<<"te", 0>>>>, <<X>>, <<X>>, FALSE, FALSE),
    Answer(200, <<<<"multipart", 0>>>>, <<>>, <<>>, FALSE, FALSE),
    Answer(200, <<<<"clen", BadLength>>>>, <<X>>, <<X>>, FALSE, FALSE),
    Answer(200, <<<<"clen", 1>>>>, <<X, Y>>, <<X>>, FALSE, FALSE)}

ChunkedResponse ==
   {Answer(200, <<Chunked>>, <<Hex(1), CR, LF, X, CR, LF, Hex(0), CR, LF, CR, LF>>, <<X>>,
           FALSE, TRUE)}

\* Calls of the HTTP client: without a body, asking for the end, with a body.
Calls == <<[uri |-> 1, body |-> <<>>, extra |-> <<>>],
           [uri |-> 2, body |-> <<X>>, extra |-> <<<<"close", 0>>>>],
           [uri |-> 3, body |-> <<X>>, extra |-> <<>>]>>

HttpServer == INSTANCE HttpServer WITH
    HTTP_MAX_URI_LEN <- 4, HTTP_MAX_HEADER_LEN <- 9, HandlerResults <- BOOLEAN
HttpClient == INSTANCE HttpClient WITH Calls <- <<Calls[1]>>, MaxCalls <- 2
HttpCall == INSTANCE HttpClient WITH
    Calls <- <<Calls[1]>>, MaxCalls <- 1, Responses <- ChunkedResponse

-----------------------------------------------------------------------------
(* The HTTP client of the repository against its HTTP server over one TCP    *)
(* connection at a time: a read of the client may run into its deadline      *)
(* while the server is still at work, and the server closes a connection     *)
(* when the client asked for it.  A connection the client gave up is gone    *)
(* for the server too; a new one has a handler object of its own.            *)
MaxTimeouts == 1    \* bound: deadlines
MaxCalls == IF part = "http_pair" THEN 1 ELSE 3    \* bound: calls

Client == INSTANCE HttpClient WITH Responses <- {}, MaxCalls <- 3
Handler == INSTANCE HttpServer WITH
    HTTP_MAX_URI_LEN <- 9, HTTP_MAX_HEADER_LEN <- 12, HandlerResults <- {TRUE}, Streams <- {}

\* The server accepts: a new connection gets a new handler object.
Connect ==
    /\ Client!connect
    /\ srv' = Handler!Fresh /\ handled' = <<>>
    /\ UNCHANGED timeouts

\* Header and body of the request are written.
Send ==
    /\ Client!SendCalled(Client!req_buff(Calls[cli.call]) \o Calls[cli.call].body)
    /\ UNCHANGED <<down, srv, handled, timeouts>>

\* The deadline closes the socket: what is under way is lost.
Deadline ==
    /\ timeouts < MaxTimeouts /\ Client!recv_fails
    /\ timeouts' = timeouts + 1
    /\ UNCHANGED <<srv, handled>>

\* A handler that refused: the connection closes behind what was sent.
ServerCloses ==
    /\ srv.pc = "closed" /\ ~eof /\ cli.m_connected
    /\ eof' = TRUE
    /\ UNCHANGED <<up, down, cli, result, srv, handled, timeouts>>

ClientSteps ==
    \/ Connect \/ Send
    \/ Client!handle_reciev /\ UNCHANGED <<srv, handled, timeouts>>
Serve == Handler!ServerNext /\ UNCHANGED <<eof, cli, result, timeouts>>
Call == Client!invoke /\ cli.calls < MaxCalls /\ UNCHANGED <<srv, handled, timeouts>>
Done == cli.pc = "idle" /\ cli.calls = MaxCalls /\ UNCHANGED http

\* What an answer of the server is compared with.
Asked == [uri |-> Calls[cli.call].uri, body |-> Calls[cli.call].body]

-----------------------------------------------------------------------------
Parts == {"connection", "server", "levin", "out", "in", "blocked", "http_server",
          "http_client", "http_call", "http", "http_pair"}

NoStream == sent = <<>>
NoPlan == plan = 0 /\ fault = FALSE /\ stale = FALSE
NoClient == eof = FALSE /\ cli = Client!Closed /\ result = "none"
NoServer == srv = [Handler!Fresh EXCEPT !.pc = "closed"] /\ handled = <<>>

Init ==
    /\ part \in Parts
    /\ TcpServer!ConnectionInit /\ TcpServer!Init /\ Levin!Init /\ Blocked!Init
    /\ \/ part = "in" /\ In!Init
       \/ part = "out" /\ Out!Init
       \/ part \notin {"in", "out"} /\ Out!Init /\ m_target_speed = 0 /\ phase = 0
    /\ \/ part = "http_server" /\ HttpServer!Init /\ NoClient /\ NoPlan
       \/ part = "http_client" /\ HttpClient!Init /\ NoServer /\ NoStream
       \/ part = "http_call" /\ HttpCall!Init /\ NoServer /\ NoStream
       \/ /\ part \notin {"http_server", "http_client", "http_call"}
          /\ up = <<>> /\ down = <<>> /\ NoServer /\ NoClient /\ NoPlan /\ NoStream
    /\ timeouts = 0

\* A step of one part leaves the others alone.
ConnectionPart == part = "connection" /\ UNCHANGED <<part, server, levin, throttle, blocked, http>>
ServerPart == part = "server" /\ UNCHANGED <<part, connection, levin, throttle, blocked, http>>
LevinPart == part = "levin" /\ UNCHANGED <<part, connection, server, throttle, blocked, http>>
OutPart == part = "out" /\ UNCHANGED <<part, connection, server, levin, blocked, http>>
InPart == part = "in" /\ UNCHANGED <<part, connection, server, levin, blocked, http>>
BlockedPart == part = "blocked" /\ UNCHANGED <<part, connection, server, levin, throttle, http>>
below == <<part, connection, server, levin, throttle, blocked>>
HttpServerPart ==
    part = "http_server" /\ UNCHANGED <<below, eof, cli, result, plan, fault, stale, timeouts>>
HttpClientPart ==
    part = "http_client" /\ UNCHANGED <<below, srv, handled, sent, timeouts>>
HttpCallPart ==
    part = "http_call" /\ UNCHANGED <<below, srv, handled, sent, timeouts>>
HttpPart == part \in {"http", "http_pair"} /\ UNCHANGED <<below, sent, plan, fault, stale>>

Next ==
    \/ ConnectionPart /\ TcpServer!ConnectionNext
    \/ ServerPart /\ TcpServer!Next
    \/ LevinPart /\ Levin!Next
    \/ OutPart /\ Out!Next
    \/ InPart /\ In!Next
    \/ BlockedPart /\ Blocked!Next
    \/ HttpServerPart /\ HttpServer!Next
    \/ HttpClientPart /\ HttpClient!Next
    \/ HttpCallPart /\ HttpCall!Next
    \/ HttpPart /\ (ClientSteps \/ Deadline \/ Serve \/ ServerCloses \/ Call \/ Done)

\* The threads of each part run, timers expire and time goes on; what a peer, a user
\* or the network does is never assumed.  Since a behaviour is of one part, fairness of
\* Fair(i) is fairness of the action that its part has there.
Fair(i) ==
    \/ /\ ConnectionPart
       /\ \/ i = 1 /\ TcpServer!start
          \/ i = 2 /\ (TcpServer!handle_write \/ TcpServer!handle_write_error)
          \/ i = 3 /\ TcpServer!handle_read_check
          \/ i = 4 /\ TcpServer!destructor
          \/ i \in 5..6 /\ TcpServer!Send(<<"s1", "s2">>[i - 4])
          \/ i \in 7..11 /\ TcpServer!Step(<<"s1", "s2", "c1", "reader", "writer">>[i - 6])
    \/ /\ ServerPart
       /\ \/ i = 1 /\ (TcpServer!spawn \/ TcpServer!join)
          \/ i \in 2..3 /\ TcpServer!worker_thread(<<"w1", "w2">>[i - 1])
          \/ i \in 4..5 /\ TcpServer!connect_return(<<"w1", "w2">>[i - 3])
          \/ i = 6 /\ TcpServer!expired("a1")
    \/ /\ LevinPart
       /\ \/ i = 1 /\ Levin!notify("n1")
          \/ i = 2 /\ Levin!handle
          \/ i = 3 /\ (Levin!shutdown \/ Levin!release_protocol)
          \/ i = 4 /\ (Levin!destructor \/ Levin!del_connection)
          \/ i = 5 /\ was_shutdown /\ Levin!read_error
          \/ i \in 6..7 /\ Levin!Threads(<<"c1", "c2">>[i - 5])
          \/ i \in 8..9 /\ Levin!Timers(<<"c1", "c2">>[i - 7])
          \/ i \in 10..11 /\ Levin!cancel(<<"c1", "c2">>[i - 9])
    \/ OutPart /\ ((i = 1 /\ Out!Tick) \/ (i \in 2..3 /\ Out!Step(<<"c1", "c2">>[i - 1])))
    \/ InPart /\ ((i = 1 /\ In!Tick) \/ (i \in 2..3 /\ In!Step(<<"c1", "c2">>[i - 1])))
    \/ /\ BlockedPart
       /\ \/ i = 1 /\ Blocked!Thread
          \/ i = 2 /\ Blocked!check_deadline
          \/ i = 3 /\ Blocked!TimePasses
          \/ i = 4 /\ Blocked!OperationDone /\ ~open
    \/ HttpServerPart /\ i = 1 /\ HttpServer!ServerNext /\ UNCHANGED sent
    \/ HttpCallPart /\ i = 1 /\ HttpCall!Thread
    \/ HttpPart /\ part = "http_pair" /\ ((i = 1 /\ ClientSteps) \/ (i = 2 /\ Serve) \/ (i = 3 /\ ServerCloses))

Fairness ==
    /\ \A i \in 1..11 : WF_vars(Fair(i))
    /\ SF_vars(ServerPart /\ TcpServer!Handlers("a1"))

Spec == Init /\ [][Next]_vars /\ Fairness

-----------------------------------------------------------------------------
\* What arrives is what was sent, and goes to the one it is for: a queue that is not
\* empty is being written (do_send), a callback is called at most once and never with the
\* response of another request (invoke_response_handler), the HTTP server hands over the
\* requests of the stream in order with their own bodies (handle_query_measure), and an
\* HTTP call that succeeds has the body of its own answer (handle_reciev).  A call fails,
\* and a request is dropped, only for a reason the code names: a deadline, a lost
\* connection, an answer it cannot read, or bytes an earlier failed call left behind in
\* the cache (m_chunked_cache, the cache behind a body).
DeliveredWhole ==
    /\ part = "connection" => TcpServer!QueueMoves
    /\ part = "levin" => Levin!CallbackOnce /\ Levin!OwnResponse
    /\ part = "http_server" => HttpServer!HandledAsSent /\ HttpServer!NotForgotten
    /\ part = "http_client" => /\ HttpClient!BodyAsSent
                               /\ HttpClient!FailsForAReason /\ HttpClient!ChunksUsedUp
    /\ part \in {"http", "http_pair"} /\ Client!Returned =>
         IF result = "true" THEN /\ cli.m_response_info.code = 200
                                 /\ cli.m_response_info.body = Handler!Answer(Asked)
         ELSE timeouts > 0

\* Nothing is used after it was given back: data the protocol refused ends the connection,
\* a deadline hits neither a connection that was reported as open nor a later operation,
\* no thread, handler, timer or reference outlives the object it works on.
ReleasedCleanly ==
    /\ part = "connection" => TcpServer!RefusalCloses
    /\ part = "server" => TcpServer!ReportedOpen /\ TcpServer!ThreadsJoined
    /\ part = "levin" => Levin!ReleasedEmpty /\ Levin!NoUseAfterFree
    /\ part = "blocked" => /\ Blocked!OwnDeadline /\ Blocked!ConnectedIsOpen
                           /\ Blocked!NoHandlerLeft

\* The limits hold up to what the code lets pass: the traffic of the window exceeds the
\* rate limit by one packet of each sender at most (sleep_before_packet), the history
\* follows the clock, and no request that does not end fills the HTTP cache.
LimitsKept ==
    /\ part = "out" => Out!HistoryExact /\ Out!OvershootBounded /\ Out!PlannedFits
    /\ part = "in" => In!HistoryExact
    /\ part = "http_server" => HttpServer!CacheBounded

\* The peer reads whole packets, one after the other; only a connection that is already
\* being closed, because a full queue cut a packet off, hands one over with chunks missing
\* (do_send splits a packet, m_send_lock keeps the parts together).
PacketsWhole == [][part = "connection" => TcpServer!PacketContinues]_vars

\* Somebody waits, of two kinds in some parts.  Threads of a kind are alike, so that it
\* is enough to look at one of them.
Waits(i) ==
    CASE part = "connection" -> i = 1 /\ ~TcpServer!At("s1", "idle")
      [] part = "server" -> IF i = 1 THEN TcpServer!Connecting("a1") /\ ~stop
                            ELSE stop /\ main # "done"
      [] part = "levin" -> IF i = 1 THEN Levin!Pending("c1")
                           ELSE was_shutdown /\ object # "gone"
      [] part \in {"out", "in"} -> i = 1 /\ thread["c1"].pc # "idle"
      [] part = "blocked" -> i = 1 /\ op # "none"
      [] part \in {"http_call", "http_pair"} -> i = 1 /\ cli.pc # "idle"
      [] part = "http_server" -> i = 1 /\ srv.pc # "closed" /\ (srv.pc # "wait" \/ up # <<>>)
      [] OTHER -> FALSE

\* Everything that waits comes back, whatever the peer does: a sender in a full queue, a
\* remote call, a connect attempt, the stop of the server, a throttled thread, a blocking
\* operation, a stream of requests and an HTTP call; a connection that was shut down is
\* destroyed.
EverythingReturns == \A i \in 1..2 : []<>~Waits(i)
=============================================================================
