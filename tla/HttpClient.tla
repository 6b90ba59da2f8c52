----------------------------- MODULE HttpClient -----------------------------
(***************************************************************************)
(* http_simple_client (contrib/epee/include/net/http_client.h): one call   *)
(* of invoke at a time.  It connects when there is no connection, writes   *)
(* the request, and reads pieces of the answer through a state machine     *)
(* whose states are the header, a body with a length, a body that ends     *)
(* with the connection, a body in chunks, done and error.  The chunk       *)
(* machine keeps its bytes in a cache of its own.                          *)
(***************************************************************************)
EXTENDS HttpTokens

CONSTANTS
  Calls,        \* what invoke may be called with: uri, body, extra fields
  Responses,    \* answers a server may give
  MaxCalls      \* bound: calls of invoke

VARIABLES
  up,        \* bytes from the client that the server has not read
  down,      \* bytes from the server that the client has not read
  eof,       \* the server has closed its side
  cli,       \* the client object
  result     \* what the last invoke returned: "none" while one runs

vars == <<up, down, eof, cli, result>>

NoInfo == [code |-> 0, body |-> <<>>, clen |-> <<>>, close |-> FALSE,
           te |-> <<>>, multipart |-> FALSE]

Closed ==
  [pc |-> "idle", m_connected |-> FALSE, m_state |-> "done", call |-> 0,
   m_header_cache |-> <<>>, recv_buffer |-> <<>>, need_more_data |-> FALSE,
   m_response_info |-> NoInfo, m_len_in_remain |-> 0,
   m_chunked_state |-> "chunk_head", m_chunked_cache |-> <<>>, calls |-> 0]

\* The bytes of a request.
req_buff(c) ==
  <<<<"line", c.uri>>>> \o CRLF
    \o Fields(<<<<"host", 0>>, <<"clen", Len(c.body)>>>> \o c.extra)

Return(c, res) ==
  /\ cli' = [c EXCEPT !.pc = "idle", !.m_header_cache = <<>>]
  /\ result' = IF res THEN "true" ELSE "false"

\* invoke: an open connection is used, otherwise one is made first.
invoke ==
  /\ cli.pc = "idle" /\ cli.calls < MaxCalls
  /\ \E i \in DOMAIN Calls :
       cli' = [cli EXCEPT !.pc = IF cli.m_connected THEN "send" ELSE "connect",
                          !.call = i, !.calls = @ + 1]
  /\ result' = "none"
  /\ UNCHANGED <<up, down, eof>>

\* The old socket is closed; a new connection starts with nothing on it.
connect ==
  /\ cli.pc = "connect"
  /\ cli' = [cli EXCEPT !.pc = "send", !.m_connected = TRUE]
  /\ up' = <<>> /\ down' = <<>> /\ eof' = FALSE
  /\ UNCHANGED result

connect_fails ==
  /\ cli.pc = "connect"
  /\ Return(cli, FALSE)
  /\ UNCHANGED <<up, down, eof>>

\* The request goes out and the machine starts at the header.
SendCalled(delivered) ==
  /\ cli.pc = "send"
  /\ up' = up \o delivered
  /\ cli' = [cli EXCEPT !.pc = "receive", !.m_state = "header",
                        !.m_response_info = NoInfo,
                        !.recv_buffer = <<>>, !.need_more_data = TRUE]
  /\ UNCHANGED <<eof, result>>

\* Header or body cannot be written: the connection counts as lost.
send_fails ==
  /\ cli.pc = "send"
  /\ Return([cli EXCEPT !.m_connected = FALSE, !.m_response_info = NoInfo], FALSE)
  /\ \E part \in {<<>>, req_buff(Calls[cli.call])} : up' = up \o part
  /\ UNCHANGED <<down, eof>>

\* The piece goes through the content encoder, which changes nothing in a
\* build without gzip, to the body of the answer.
handle_target_data(c, piece) == [c EXCEPT !.m_response_info.body = @ \o piece]

\* An answer that closes the connection makes the client drop it.
disconnect(c) == [c EXCEPT !.m_connected = @ /\ ~c.m_response_info.close]

Receiving == cli.pc = "receive" /\ cli.need_more_data

\* blocked_mode_client::recv gives some of the bytes that have arrived.
recv ==
  /\ Receiving /\ down # <<>>
  /\ \E n \in 1..Len(down) :
       /\ cli' = [cli EXCEPT !.recv_buffer = SubSeq(down, 1, n), !.need_more_data = FALSE]
       /\ down' = SubSeq(down, n + 1, Len(down))
  /\ UNCHANGED <<up, eof, result>>

\* At the end of the stream recv succeeds and leaves the buffer alone, which
\* was used up: only a body that ends with the connection may end here.
recv_eof ==
  /\ Receiving /\ down = <<>> /\ eof
  /\ cli' = [cli EXCEPT !.need_more_data = FALSE,
                        !.m_state = IF @ # "body_connection_close" THEN "error" ELSE @]
  /\ UNCHANGED <<up, down, eof, result>>

\* The deadline passes or the read fails: the connection counts as lost.
recv_fails ==
  /\ Receiving
  /\ cli' = [cli EXCEPT !.need_more_data = FALSE, !.m_state = "error",
                        !.m_connected = FALSE]
  /\ UNCHANGED <<up, down, eof, result>>

\* The status of an answer is in its first line.
analize_first_response_line(info, head) == [info EXCEPT !.code = head[1][2]]

is_connection_close_field(head) == field(head, "close") # <<>>

is_multipart_body(head) == field(head, "multipart") # <<>>

\* The fields that decide on the form of the body.
parse_header(info, head) ==
  [info EXCEPT !.clen = field(head, "clen"), !.te = field(head, "te"),
               !.close = is_connection_close_field(head),
               !.multipart = is_multipart_body(head)]

\* The form of the body follows from the header: none, in chunks, of a length,
\* or up to the end of the connection; anything else is an error.
analize_cached_header_and_invoke_state(head) ==
  LET i == parse_header(analize_first_response_line(NoInfo, head), head)
      valid == i.clen # <<>> /\ i.clen[1] # BadLength
      state ==
        IF ~(valid /\ i.clen[1] > 0) /\ i.code \in (100..199) \cup {204, 304} THEN "done"
        ELSE IF i.te # <<>> THEN (IF i.te = <<1>> THEN "body_chunked" ELSE "error")
        ELSE IF i.clen # <<>>
        THEN (IF ~valid THEN "error" ELSE IF i.clen[1] = 0 THEN "done" ELSE "body_content_len")
        ELSE IF i.close THEN "body_connection_close" ELSE "error"
  IN [cli EXCEPT !.m_response_info = i, !.m_state = state,
                 !.m_len_in_remain = IF state = "body_content_len" THEN i.clen[1] ELSE @,
                 !.m_chunked_state = IF state = "body_chunked" THEN "chunk_head" ELSE @]

\* The header is collected up to its blank line; what is behind it belongs to
\* the body.  (An empty piece does not get this far: recv_eof has ended it.)
handle_header ==
  /\ cli.pc = "receive" /\ ~cli.need_more_data /\ cli.m_state = "header"
  /\ \E cache \in {cli.m_header_cache \o cli.recv_buffer} :
     \E pos \in {Find(cache, CRLF \o CRLF)} :
       IF pos = 0
       THEN cli' = [cli EXCEPT !.m_header_cache = cache, !.recv_buffer = <<>>,
                               !.need_more_data = TRUE]
       ELSE \E c \in {analize_cached_header_and_invoke_state(SubSeq(cache, 1, pos + 3))},
               rest \in {SubSeq(cache, pos + 4, Len(cache))} :
              cli' = [c EXCEPT !.m_header_cache = <<>>, !.recv_buffer = rest,
                               !.need_more_data = rest = <<>>
                                                    /\ c.m_state \notin {"error", "done"}]
  /\ UNCHANGED <<up, down, eof, result>>

\* A piece of a body of known length.  More than the length is an assertion
\* that ends the call without the error state.
handle_body_content_len ==
  /\ cli.pc = "receive" /\ ~cli.need_more_data /\ cli.m_state = "body_content_len"
  /\ LET n == Len(cli.recv_buffer)
     IN IF n > cli.m_len_in_remain
        THEN Return(disconnect(cli), TRUE)
        ELSE /\ cli' = [handle_target_data(cli, cli.recv_buffer) EXCEPT
                  !.m_len_in_remain = @ - n, !.recv_buffer = <<>>,
                  !.m_state = IF n = cli.m_len_in_remain THEN "done" ELSE @,
                  !.need_more_data = n # cli.m_len_in_remain]
             /\ UNCHANGED result
  /\ UNCHANGED <<up, down, eof>>

\* A piece of a body that ends with the connection.
handle_body_connection_close ==
  /\ cli.pc = "receive" /\ ~cli.need_more_data /\ cli.m_state = "body_connection_close"
  /\ cli' = IF cli.recv_buffer = <<>> THEN [cli EXCEPT !.m_state = "done"]
            ELSE [handle_target_data(cli, cli.recv_buffer) EXCEPT
                    !.recv_buffer = <<>>, !.need_more_data = TRUE]
  /\ UNCHANGED <<up, down, eof, result>>

\* handle_body_body_chunked takes the piece into the cache of the chunks.
handle_body_body_chunked ==
  /\ cli.pc = "receive" /\ ~cli.need_more_data /\ cli.m_state = "body_chunked"
  /\ cli' = [cli EXCEPT !.pc = "chunks", !.recv_buffer = <<>>,
                        !.m_chunked_cache = @ \o cli.recv_buffer]
  /\ UNCHANGED <<up, down, eof, result>>

IsHex(t) == t[1] = "hex"

\* The number of a chunk head: its digits up to the first other character.
get_len_from_chunk_head(text) ==
  LET ends == {i \in DOMAIN text : ~IsHex(text[i])}
      n == IF ends = {} THEN Len(text) ELSE (CHOOSE i \in ends : \A j \in ends : i <= j) - 1
      value[k \in 0..n] == IF k = 0 THEN 0 ELSE 16 * value[k - 1] + text[k][2]
  IN value[n]

\* A chunk head is digits and a line end; the last one, of size zero, takes
\* the blank line behind it along.
get_chunk_head(buff) ==
  LET lf == Find(buff, <<LF>>)
      upto == IF lf = 0 THEN Len(buff) ELSE lf - 1
      digits == {i \in 1..upto : IsHex(buff[i])}
      k == Len(SelectSeq(SubSeq(buff, 1, upto), IsHex))
      size == get_len_from_chunk_head(SubSeq(buff, 1, k))
      behind == SubSeq(buff, lf + 1, Len(buff))
      lf2 == Find(behind, <<LF>>)
      wrong == \E i \in DOMAIN behind : (lf2 = 0 \/ i < lf2) /\ behind[i] # CR
  IN IF \E i \in 1..upto : ~IsHex(buff[i]) /\ buff[i] # CR
     THEN [ok |-> FALSE, matched |-> FALSE, size |-> 0, rest |-> buff]
     ELSE IF lf = 0 THEN [ok |-> TRUE, matched |-> FALSE, size |-> 0, rest |-> buff]
     ELSE IF digits = {} THEN [ok |-> FALSE, matched |-> FALSE, size |-> 0, rest |-> buff]
     ELSE IF size > 0 THEN [ok |-> TRUE, matched |-> TRUE, size |-> size, rest |-> behind]
     ELSE IF wrong THEN [ok |-> FALSE, matched |-> FALSE, size |-> 0, rest |-> buff]
     ELSE IF lf2 = 0 THEN [ok |-> TRUE, matched |-> FALSE, size |-> 0, rest |-> buff]
     ELSE [ok |-> TRUE, matched |-> TRUE, size |-> 0,
           rest |-> SubSeq(behind, lf2 + 1, Len(behind))]

Chunks == cli.pc = "chunks"

ChunksNeedMore ==
  /\ Chunks /\ cli.m_chunked_cache = <<>>
  /\ cli' = [cli EXCEPT !.pc = "receive", !.need_more_data = TRUE]
  /\ UNCHANGED <<up, down, eof, result>>

AtHead == Chunks /\ cli.m_chunked_cache # <<>> /\ cli.m_chunked_state = "chunk_head"

\* Line breaks before a chunk head are skipped.
ChunkSkipBreak ==
  /\ AtHead /\ Head(cli.m_chunked_cache) \in {CR, LF}
  /\ cli' = [cli EXCEPT !.m_chunked_cache =
               SubSeq(@, IF IsPrefix(CRLF, @) THEN 3 ELSE 2, Len(@))]
  /\ UNCHANGED <<up, down, eof, result>>

\* handle_body_body_chunked at a chunk head.  A head that cannot be read ends
\* the call, as an error.
ChunkHead ==
  /\ AtHead /\ Head(cli.m_chunked_cache) \notin {CR, LF}
  /\ \E h \in {get_chunk_head(cli.m_chunked_cache)} :
        IF ~h.ok
        THEN Return([cli EXCEPT !.m_state = "error"], FALSE)
        ELSE /\ UNCHANGED result
             /\ cli' = IF ~h.matched
                       THEN [cli EXCEPT !.pc = "receive", !.need_more_data = TRUE]
                       ELSE [cli EXCEPT !.m_chunked_cache = h.rest,
                               !.m_len_in_remain = h.size,
                               !.m_chunked_state = "chunk_body",
                               !.m_state = IF h.size = 0 THEN "done" ELSE @,
                               !.pc = IF h.size = 0 THEN "receive" ELSE "chunks"]
  /\ UNCHANGED <<up, down, eof>>

ChunkBody ==
  /\ Chunks /\ cli.m_chunked_cache # <<>> /\ cli.m_chunked_state = "chunk_body"
  /\ LET have == Len(cli.m_chunked_cache)
         n == IF cli.m_len_in_remain >= have THEN have ELSE cli.m_len_in_remain
     IN cli' = [handle_target_data(cli, SubSeq(cli.m_chunked_cache, 1, n)) EXCEPT
                  !.m_len_in_remain = @ - n,
                  !.m_chunked_cache = SubSeq(@, n + 1, Len(@)),
                  !.m_chunked_state = IF n = cli.m_len_in_remain THEN "chunk_head" ELSE @]
  /\ UNCHANGED <<up, down, eof, result>>

\* The machine is done or in error: invoke returns.  An answer that closes the
\* connection makes the client drop it too.
handle_reciev_ends ==
  /\ cli.pc = "receive" /\ ~cli.need_more_data /\ cli.m_state \in {"done", "error"}
  /\ IF cli.m_state = "error" THEN Return(cli, FALSE)
     ELSE Return(disconnect(cli), TRUE)
  /\ UNCHANGED <<up, down, eof>>

\* The steps of invoke behind the sending of the request, but for a failing read.
handle_reciev ==
  \/ recv \/ recv_eof \/ handle_header \/ handle_body_content_len
  \/ handle_body_connection_close \/ handle_body_body_chunked \/ ChunksNeedMore
  \/ ChunkSkipBreak \/ ChunkHead \/ ChunkBody \/ handle_reciev_ends

-----------------------------------------------------------------------------
(* The client against any server: every request is answered with one of the  *)
(* forms an answer may have, which arrives in pieces of any size; the server *)
(* may close the connection in the middle or behind an answer, and a read    *)
(* may run into its deadline.                                                *)
VARIABLES
  plan,     \* the answer the server gives to the running call
  fault,    \* the running call met a lost connection or a deadline
  stale     \* the running call began with old bytes in the chunk cache

all == <<vars, plan, fault, stale>>

Init ==
  /\ up = <<>> /\ down = <<>> /\ eof = FALSE /\ cli = Closed /\ result = "none"
  /\ plan \in Responses /\ fault = FALSE /\ stale = FALSE

\* The bytes of an answer.
Reply(r) == <<<<"status", r.code>>>> \o CRLF \o Fields(r.fields) \o r.payload

Call ==
  /\ invoke
  /\ fault' = FALSE /\ stale' = (cli.m_chunked_cache # <<>>)
  /\ UNCHANGED plan

\* A new connection, or none.
Connect ==
  \/ connect /\ UNCHANGED <<plan, fault, stale>>
  \/ connect_fails /\ fault' = TRUE /\ UNCHANGED <<plan, stale>>

\* The server answers at once; a write to a connection whose other side is
\* closed may still succeed, and no answer comes.
Send ==
  \/ /\ ~eof /\ SendCalled(<<>>)
     /\ \E r \in Responses :
          plan' = r /\ down' = Reply(r)
     /\ UNCHANGED <<fault, stale>>
  \/ /\ eof /\ SendCalled(<<>>)
     /\ fault' = TRUE /\ UNCHANGED <<down, plan, stale>>
  \/ /\ send_fails /\ fault' = TRUE /\ UNCHANGED <<plan, stale>>

\* The bytes of a request are not looked at here.
Receive ==
  /\ handle_reciev /\ UNCHANGED <<plan, fault, stale>>

Deadline ==
  /\ recv_fails /\ fault' = TRUE /\ UNCHANGED <<plan, stale>>

\* The server closes the connection, with or without the rest of the answer.
ServerCloses ==
  /\ ~eof /\ cli.m_connected
  /\ \E n \in 0..Len(down) :
       /\ down' = SubSeq(down, 1, n)
       /\ fault' = (fault \/ n < Len(down))
  /\ eof' = TRUE
  /\ UNCHANGED <<up, cli, result, plan, stale>>

\* An answer whose end is the end of the connection is followed by it.
ServerEnds ==
  /\ ~eof /\ cli.pc = "receive" /\ plan.closes /\ down = <<>>
  /\ eof' = TRUE
  /\ UNCHANGED <<up, down, cli, result, plan, fault, stale>>

Done == cli.pc = "idle" /\ cli.calls = MaxCalls /\ UNCHANGED all

Next ==
  \/ Call \/ Connect \/ Send \/ Receive \/ Deadline \/ ServerCloses \/ ServerEnds
  \/ Done

\* The thread that calls invoke runs on, and the deadline of a read comes.
Thread == Connect \/ Send \/ Receive \/ Deadline

Spec == Init /\ [][Next]_all /\ WF_all(Thread)

Returned == cli.pc = "idle" /\ cli.calls > 0

\* An invoke that succeeds hands out the status and the body the server sent,
\* however the answer was cut into pieces, unless the connection was lost
\* under an answer that ends with it or bytes of an earlier chunked answer
\* were still in the cache, which no invoke empties.
BodyAsSent ==
  (Returned /\ result = "true" /\ plan.good /\ ~stale
     /\ ~(fault /\ plan.closes)) =>
    /\ cli.m_response_info.code = plan.code
    /\ cli.m_response_info.body = plan.body

\* An invoke fails only when the connection was lost, the deadline came, the
\* answer is of a form the client does not read, or old bytes of a chunked
\* answer were in its cache.
FailsForAReason ==
  (Returned /\ result = "false") => fault \/ stale \/ ~plan.good

\* Old bytes get into the chunk cache only in a call that failed: a chunked
\* answer that was read to its end leaves nothing behind.
ChunksUsedUp ==
  (Returned /\ result = "true" /\ plan.good /\ ~stale /\ ~fault)
    => cli.m_chunked_cache = <<>>

=============================================================================
