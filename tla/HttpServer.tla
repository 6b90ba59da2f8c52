----------------------------- MODULE HttpServer -----------------------------
(***************************************************************************)
(* simple_http_connection_handler (contrib/epee/include/net/               *)
(* http_protocol_handler.inl): the state machine that turns the bytes of   *)
(* one connection into requests, hands each request to the handler of the  *)
(* server and sends its answer.  The bytes arrive in pieces of any size,   *)
(* one handle_recv per piece; every turn of the loop of handle_buff_in is  *)
(* a step of its own.                                                      *)
(***************************************************************************)
EXTENDS HttpTokens

CONSTANTS
  HTTP_MAX_URI_LEN,      \* bytes a request line may have before its end
  HTTP_MAX_HEADER_LEN,   \* bytes a header area may have before its end
  HandlerResults,        \* what handle_request may return
  Streams                \* sequences of requests a peer may write

VARIABLES
  up,         \* bytes from the peer that the server has not read
  down,       \* bytes from the server that the peer has not read
  srv,        \* the handler object of the connection
  handled     \* history: requests given to handle_request, in order

vars == <<up, down, srv, handled>>

\* What a request looks like on the wire: the line, the fields, a blank line,
\* the body.  With uri 0 it is no request but the bytes of its body.
Wire(r) ==
  IF r.uri = 0 THEN r.body
  ELSE <<<<"line", r.uri>>>> \o CRLF \o Fields(r.fields) \o r.body

NoQuery == [uri |-> 0, body |-> <<>>, close |-> FALSE, clen |-> <<>>]

Fresh ==
  [pc |-> "wait", m_state |-> "command_line", m_cache |-> <<>>,
   m_query_info |-> NoQuery, m_body_transfer_type |-> "undefined",
   m_len_remain |-> 0, m_want_close |-> FALSE]

\* The machine is ready for the next request line.
set_ready_state(s) ==
  [s EXCEPT !.m_state = "command_line", !.m_body_transfer_type = "undefined",
            !.m_query_info = NoQuery]

\* Size of the header area with its terminator, 0 while it is not complete.
match_end_of_header(buf) ==
  LET a == Find(buf, CRLF \o CRLF)
      b == Find(buf, <<LF, LF>>)
  IN IF a > 0 THEN a + 3 ELSE IF b > 0 THEN b + 1 ELSE 0

parse_cached_header(q, head) ==
  [q EXCEPT !.clen = field(head, "clen"), !.close = field(head, "close") # <<>>]

\* A length field is read when there is a number in it.
get_len_from_content_lenght(clen) ==
  [ok |-> clen # <<BadLength>>, len |-> clen[1]]

\* The bytes of an answer: status line, fields, blank line, body.  The length
\* field carries the size of the body.
get_response_header(q, body) ==
  <<<<"status", 200>>>> \o CRLF
    \o Fields(<<<<"clen", Len(body)>>>> \o (IF q.close THEN <<<<"close", 0>>>> ELSE <<>>))

\* The body the server's handler gives to a request: it names the request.
Answer(q) == <<<<"b", q.uri>>>> \o q.body

\* handle_request, then the header and the body are sent; a peer that asked
\* for it makes the connection close.
handle_request_and_send_response(s) ==
  LET q == s.m_query_info
      body == Answer(q)
  IN /\ handled' = Append(handled, [uri |-> q.uri, body |-> q.body])
     /\ down' = down \o get_response_header(q, body) \o body

AfterRequest(s) ==
  IF s.m_query_info.close
  THEN [s EXCEPT !.m_state = "connection_close", !.m_want_close = TRUE]
  ELSE s

\* handle_buff_in returned: handle_recv refuses when the connection is to
\* close, and the connection is shut down when it refuses.
Returned(s, res) ==
  [s EXCEPT !.pc = IF s.m_want_close \/ ~res THEN "closed" ELSE "wait"]

\* The end of a turn of the loop: an empty cache ends handle_buff_in.
NextTurn(s) == IF s.m_cache = <<>> THEN Returned(s, TRUE) ELSE s

\* The connection hands over what it read.
handle_recv ==
  /\ srv.pc = "wait" /\ up # <<>>
  /\ \E n \in 1..Len(up) :
       /\ srv' = [srv EXCEPT !.pc = "handling", !.m_cache = @ \o SubSeq(up, 1, n)]
       /\ up' = SubSeq(up, n + 1, Len(up))
  /\ UNCHANGED <<down, handled>>

\* Line breaks before a request line are skipped one by one.
SkipLineBreak ==
  /\ srv.pc = "handling" /\ srv.m_state = "command_line"
  /\ srv.m_cache # <<>> /\ Head(srv.m_cache) \in {CR, LF}
  /\ srv' = NextTurn([srv EXCEPT !.m_cache = Tail(@)])
  /\ UNCHANGED <<up, down, handled>>

\* A request line that is not complete is waited for, up to a limit.
WaitForLine ==
  /\ srv.pc = "handling" /\ srv.m_state = "command_line"
  /\ srv.m_cache # <<>> /\ Head(srv.m_cache) \notin {CR, LF}
  /\ ~Has(srv.m_cache, LF)
  /\ srv' = IF Len(srv.m_cache) > HTTP_MAX_URI_LEN
            THEN Returned([srv EXCEPT !.m_state = "error"], FALSE)
            ELSE Returned(srv, TRUE)
  /\ UNCHANGED <<up, down, handled>>

\* A complete line either is a request line or puts the machine in error.
handle_invoke_query_line ==
  /\ srv.pc = "handling" /\ srv.m_state = "command_line"
  /\ srv.m_cache # <<>> /\ Head(srv.m_cache) \notin {CR, LF}
  /\ Has(srv.m_cache, LF)
  /\ LET eol == Find(srv.m_cache, <<LF>>)
         matches == Head(srv.m_cache)[1] = "line"
                      /\ (eol = 2 \/ (eol = 3 /\ srv.m_cache[2] = CR))
     IN srv' = IF matches
               THEN NextTurn([srv EXCEPT
                      !.m_query_info.uri = Head(srv.m_cache)[2],
                      !.m_cache = SubSeq(@, eol + 1, Len(@)),
                      !.m_state = "header"])
               ELSE NextTurn([srv EXCEPT !.m_state = "error"])
  /\ UNCHANGED <<up, down, handled>>

\* A header area that is not complete is waited for, up to a limit.
WaitForHeader ==
  /\ srv.pc = "handling" /\ srv.m_state = "header"
  /\ match_end_of_header(srv.m_cache) = 0
  /\ srv' = IF Len(srv.m_cache) > HTTP_MAX_HEADER_LEN
            THEN Returned([srv EXCEPT !.m_state = "error"], FALSE)
            ELSE Returned(srv, TRUE)
  /\ UNCHANGED <<up, down, handled>>

\* The header area with the request's fields taken from the cache.
HeaderTaken ==
  LET pos == match_end_of_header(srv.m_cache)
  IN [srv EXCEPT !.m_query_info = parse_cached_header(@, SubSeq(srv.m_cache, 1, pos)),
                 !.m_cache = SubSeq(@, pos + 1, Len(@))]

\* Without a length field the request is complete, and so it is with length
\* zero; with a length its body comes next.  A length that is no number puts
\* the machine in error.  The result of handle_request only counts when there
\* is a length field.
analize_cached_request_header_and_invoke_state ==
  /\ srv.pc = "handling" /\ srv.m_state = "header"
  /\ match_end_of_header(srv.m_cache) > 0
  /\ LET s == HeaderTaken
         clen == s.m_query_info.clen
     IN \/ /\ clen = <<>>
           /\ handle_request_and_send_response(s)
           /\ srv' = NextTurn(set_ready_state(AfterRequest(s)))
        \/ /\ clen # <<>> /\ ~get_len_from_content_lenght(clen).ok
           /\ srv' = NextTurn([s EXCEPT !.m_state = "error",
                                 !.m_body_transfer_type = "measure"])
           /\ UNCHANGED <<handled, down>>
        \/ /\ clen = <<0>>
           /\ handle_request_and_send_response(s)
           /\ \E res \in HandlerResults :
                srv' = NextTurn([(IF res THEN set_ready_state(AfterRequest(s))
                                  ELSE [AfterRequest(s) EXCEPT
                                          !.m_state = "error",
                                          !.m_body_transfer_type = "measure"])
                                 EXCEPT !.m_len_remain = 0])
        \/ /\ clen \notin {<<>>, <<0>>} /\ get_len_from_content_lenght(clen).ok
           /\ srv' = NextTurn([s EXCEPT !.m_state = "body",
                                 !.m_body_transfer_type = "measure",
                                 !.m_len_remain = get_len_from_content_lenght(clen).len])
           /\ UNCHANGED <<handled, down>>
  /\ UNCHANGED up

\* Variant: everything in the cache goes to the body.
BodyTaken_greedy ==
  LET n == Len(srv.m_cache)
  IN [srv EXCEPT !.m_query_info.body = @ \o srv.m_cache,
                 !.m_cache = <<>>,
                 !.m_len_remain = IF n >= @ THEN 0 ELSE @ - n]

\* As much of the cache as the body still needs.
BodyTaken ==
  LET n == IF srv.m_len_remain >= Len(srv.m_cache) THEN Len(srv.m_cache)
                                                   ELSE srv.m_len_remain
  IN [srv EXCEPT !.m_query_info.body = @ \o SubSeq(srv.m_cache, 1, n),
                 !.m_cache = SubSeq(@, n + 1, Len(@)),
                 !.m_len_remain = @ - n]

\* handle_retriving_query_body of a measured body: a complete request is
\* handled and handle_buff_in returns, whatever is left in the cache.
handle_query_measure ==
  /\ srv.pc = "handling" /\ srv.m_state = "body"
  /\ LET s == BodyTaken
     IN IF s.m_len_remain = 0
        THEN /\ handle_request_and_send_response(s)
             /\ \E res \in HandlerResults :
                  srv' = Returned(IF res THEN set_ready_state(AfterRequest(s))
                                  ELSE [AfterRequest(s) EXCEPT !.m_state = "error"],
                                  TRUE)
        ELSE /\ srv' = Returned(s, TRUE)
             /\ UNCHANGED <<handled, down>>
  /\ UNCHANGED up

\* A machine in error, or one whose connection is to close, takes no more.
Refuse ==
  /\ srv.pc = "handling" /\ srv.m_state \in {"error", "connection_close"}
  /\ srv' = Returned(srv, FALSE)
  /\ UNCHANGED <<up, down, handled>>

ServerNext ==
  \/ handle_recv \/ SkipLineBreak \/ WaitForLine \/ handle_invoke_query_line
  \/ WaitForHeader \/ analize_cached_request_header_and_invoke_state
  \/ handle_query_measure \/ Refuse
-----------------------------------------------------------------------------
(* The server alone: the peer writes a stream of requests without waiting   *)
(* for answers.                                                             *)
VARIABLE sent    \* the requests of the stream, chosen at the start

Init ==
  /\ sent \in Streams
  /\ up = FlattenSeq([i \in DOMAIN sent |-> Wire(sent[i])])
  /\ down = <<>> /\ srv = Fresh /\ handled = <<>>

\* The answers are read from time to time.
PeerReads == down # <<>> /\ down' = <<>> /\ UNCHANGED <<up, srv, handled>>

\* Nothing is left to do: the stream is used up or the connection is closed.
Idle ==
  /\ srv.pc = "closed" \/ (srv.pc = "wait" /\ up = <<>>)
  /\ UNCHANGED <<up, down, srv, handled>>

Next == (ServerNext \/ PeerReads \/ Idle) /\ UNCHANGED sent

Spec == Init /\ [][Next]_<<vars, sent>> /\ WF_<<vars, sent>>(ServerNext /\ UNCHANGED sent)

\* The requests in the stream of the peer.
Requests ==
  LET r == SelectSeq(sent, LAMBDA x : x.uri > 0)
  IN [i \in DOMAIN r |-> [uri |-> r[i].uri, body |-> r[i].body]]

\* However the bytes are cut into pieces, the requests that reach the server's
\* handler are the ones the peer wrote, in that order and each with its own
\* body (handle_buff_in, handle_query_measure).
HandledAsSent == IsPrefix(handled, Requests)

\* A request that has arrived whole is not forgotten: once all bytes are read
\* and the machine waits, every request was handled, except that a request
\* behind a body stays in the cache until the next bytes arrive, because
\* handle_query_measure ends handle_buff_in with bytes still in the cache.
NotForgotten ==
  (srv.pc = "wait" /\ up = <<>> /\ srv.m_state # "error") =>
    \/ Len(handled) = Len(Requests)
    \/ /\ srv.m_state = "command_line" /\ srv.m_cache # <<>>
       /\ handled # <<>> /\ Last(handled).body # <<>>

\* A request line or a header area that never ends does not fill the cache
\* past the limits of the handler while the machine waits for more, except
\* with what one read left behind a body.
CacheBounded ==
  srv.pc = "wait" =>
    /\ srv.m_state = "header" => Len(srv.m_cache) <= HTTP_MAX_HEADER_LEN
    /\ (srv.m_state = "command_line" /\ ~Has(srv.m_cache, LF)) =>
         \/ Len(srv.m_cache) <= HTTP_MAX_URI_LEN
         \/ handled # <<>> /\ Last(handled).body # <<>>

=============================================================================
