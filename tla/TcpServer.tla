------------------------------ MODULE TcpServer ------------------------------
(* The server of abstract_tcp_server2.inl: a connection (its queue of chunks   *)
(* to write, the asynchronous read and write, and the two ways to end it:      *)
(* close(), which lets the queue drain, and shutdown()), and the server that   *)
(* owns the connections.  The threads of the io_service run the callbacks, and *)
(* any thread may send or close.                                               *)
EXTENDS Naturals, Sequences, FiniteSets

CONSTANTS
    Senders,      \* threads that send packets
    Closers,      \* threads that call close()
    Reader,       \* the callback of the asynchronous read
    Writer,       \* the callback of the asynchronous write
    Nobody,       \* no thread
    Parts,        \* chunks of a packet: the levin head, then those of the body
    MaxPackets,   \* bound: packets a sender sends
    MaxQue        \* ABSTRACT_SERVER_SEND_QUE_MAX_COUNT

VARIABLES
    que,          \* m_send_que
    writes,       \* asynchronous writes that are outstanding
    reading,      \* an asynchronous read is outstanding
    want_close,   \* m_want_close_connection
    was_shutdown, \* m_was_shutdown
    que_lock,     \* the thread that sleeps inside m_send_que_lock
    send_lock,    \* the owner of levin's m_send_lock
    th,           \* what each thread is doing
    sent,         \* packets each sender has begun
    wire          \* the chunk handed over to the peer last

connectionVars == <<que, writes, reading, want_close, was_shutdown, que_lock, send_lock, th, sent, wire>>

Threads == Senders \cup Closers \cup {Reader, Writer}
Idle == [pc |-> "idle", k |-> 0, size |-> 0]
Chunk == [by : Senders, packet : 1..MaxPackets, part : 1..Parts]
NoChunk == [by |-> Nobody, packet |-> 0, part |-> Parts]

At(t, pc) == th[t].pc = pc
Goto(t, pc) == th' = [th EXCEPT ![t].pc = pc]
Free(lock) == lock = Nobody

\* The constructor: nothing queued, nothing read, no flag set.
ConnectionInit ==
    /\ que = <<>> /\ writes = 0 /\ reading = FALSE
    /\ want_close = FALSE /\ was_shutdown = FALSE
    /\ que_lock = Nobody /\ send_lock = Nobody
    /\ th = [t \in Threads |-> IF t = Reader THEN [Idle EXCEPT !.pc = "start"] ELSE Idle]
    /\ sent = [s \in Senders |-> 0]
    /\ wire = NoChunk

\* start: an address the filter denies is closed at once, otherwise the first
\* asynchronous read is issued.
start ==
    /\ At(Reader, "start")
    /\ \/ reading' = TRUE /\ Goto(Reader, "idle")
       \/ reading' = FALSE /\ Goto(Reader, "close")
    /\ UNCHANGED <<que, writes, want_close, was_shutdown, que_lock, send_lock, sent, wire>>

\* The end of a send: levin's m_send_lock is released.
Return(s) ==
    /\ th' = [th EXCEPT ![s] = Idle]
    /\ send_lock' = Nobody

\* Variant: the head and the body are sent under two holdings of the lock.
packet_unlocked(s) ==
    /\ At(s, "idle") /\ ~At(Reader, "start")
    /\ sent[s] < MaxPackets
    /\ send_lock' = send_lock
    /\ sent' = [sent EXCEPT ![s] = @ + 1]
    /\ Goto(s, "send")
    /\ UNCHANGED <<que, writes, reading, want_close, was_shutdown, que_lock, wire>>

\* A levin packet is sent by two calls of do_send, head and body, inside
\* m_send_lock.
packet(s) ==
    /\ At(s, "idle") /\ ~At(Reader, "start")
    /\ sent[s] < MaxPackets
    /\ Free(send_lock)
    /\ send_lock' = s
    /\ sent' = [sent EXCEPT ![s] = @ + 1]
    /\ Goto(s, "send")
    /\ UNCHANGED <<que, writes, reading, want_close, was_shutdown, que_lock, wire>>

\* do_send, up to the lock of the queue: refuse after a shutdown.
do_send(s) ==
    /\ At(s, "send")
    /\ IF was_shutdown THEN Return(s) ELSE Goto(s, "queue") /\ UNCHANGED send_lock
    /\ UNCHANGED <<que, writes, reading, want_close, was_shutdown, que_lock, sent, wire>>

\* do_send_chunk, inside m_send_que_lock: a queue that is too long is waited for
\* with the lock held; otherwise the chunk is queued, and written at once when
\* it is the only one.
do_send_chunk(s) ==
    /\ At(s, "queue") /\ Free(que_lock)
    /\ IF Len(que) > MaxQue
       THEN que_lock' = s /\ Goto(s, "full") /\ UNCHANGED <<que, writes, send_lock>>
       ELSE /\ que' = Append(que, [by |-> s, packet |-> sent[s], part |-> th[s].k + 1])
            /\ writes' = IF que = <<>> THEN writes + 1 ELSE writes
            /\ IF th[s].k + 1 = Parts THEN Return(s)
               ELSE th' = [th EXCEPT ![s].pc = "send", ![s].k = @ + 1] /\ UNCHANGED send_lock
            /\ UNCHANGED que_lock
    /\ UNCHANGED <<reading, want_close, was_shutdown, sent, wire>>

\* Variant: the wait for room has no limit.
retry_limit_none(s) ==
    /\ At(s, "full") /\ Len(que) <= MaxQue
    /\ que_lock' = Nobody
    /\ Goto(s, "queue")
    /\ UNCHANGED <<que, writes, reading, want_close, was_shutdown, send_lock, sent, wire>>

\* The wait is over after retry_limit sleeps (the lock is held: nothing can drain
\* the queue meanwhile); the lock is released and the connection closed.
retry_limit(s) ==
    /\ At(s, "full")
    /\ que_lock' = Nobody
    /\ Goto(s, "close")
    /\ UNCHANGED <<que, writes, reading, want_close, was_shutdown, send_lock, sent, wire>>

\* close() of another thread: a timeout, drop_connection, the idle check.
call_close(c) ==
    /\ At(c, "idle") /\ ~At(Reader, "start") /\ ~want_close
    /\ Goto(c, "close")
    /\ UNCHANGED <<que, writes, reading, want_close, was_shutdown, que_lock, send_lock, sent, wire>>

\* close, first half: the size of the queue is read inside the lock.
close_size(t) ==
    /\ At(t, "close") /\ Free(que_lock)
    /\ th' = [th EXCEPT ![t].pc = "want", ![t].size = Len(que)]
    /\ UNCHANGED <<que, writes, reading, want_close, was_shutdown, que_lock, send_lock, sent, wire>>

\* close, second half, outside the lock: the flag, then shutdown() if the queue
\* was empty.
close_want(t) ==
    /\ At(t, "want")
    /\ want_close' = TRUE
    /\ IF th[t].size = 0 THEN Goto(t, "shutdown") /\ UNCHANGED send_lock
       ELSE IF t \in Senders THEN Return(t)
       ELSE th' = [th EXCEPT ![t] = Idle] /\ UNCHANGED send_lock
    /\ UNCHANGED <<que, writes, reading, was_shutdown, que_lock, sent, wire>>

\* shutdown: the operations outstanding on the socket end with an error.
shutdown(t) ==
    /\ At(t, "shutdown")
    /\ was_shutdown' = TRUE
    /\ IF t \in Senders THEN Return(t)
       ELSE th' = [th EXCEPT ![t] = Idle] /\ UNCHANGED send_lock
    /\ UNCHANGED <<que, writes, reading, want_close, que_lock, sent, wire>>

\* handle_write of a chunk that was written: it leaves the queue, and the next one
\* is written or, when the queue is empty and a close was asked for, the
\* connection is shut down.
handle_write ==
    /\ writes > 0 /\ Free(que_lock) /\ que # <<>>
    /\ wire' = Head(que)
    /\ que' = Tail(que)
    /\ writes' = IF que' = <<>> THEN writes - 1 ELSE writes
    /\ IF que' = <<>> /\ want_close THEN Goto(Writer, "shutdown") ELSE UNCHANGED th
    /\ UNCHANGED <<reading, want_close, was_shutdown, que_lock, send_lock, sent>>

\* handle_write with an error, of the peer or of a shutdown.
handle_write_error ==
    /\ writes > 0
    /\ writes' = writes - 1
    /\ was_shutdown' = TRUE
    /\ UNCHANGED <<que, reading, want_close, que_lock, send_lock, th, sent, wire>>

\* handle_read (data the protocol accepts only issues the next read): data the
\* protocol refuses, an error, the end of the stream (code 2: nothing is done).
handle_read ==
    /\ reading /\ At(Reader, "idle")
    /\ reading' = FALSE
    /\ \/ ~was_shutdown /\ want_close' = TRUE /\ Goto(Reader, "refused") /\ UNCHANGED was_shutdown
       \/ was_shutdown' = TRUE /\ UNCHANGED <<want_close, th>>
       \/ UNCHANGED <<want_close, was_shutdown, th>>
    /\ UNCHANGED <<que, writes, que_lock, send_lock, sent, wire>>

\* handle_read after a refusal: the flag is set, the queue is looked at.
handle_read_check ==
    /\ At(Reader, "refused") /\ Free(que_lock)
    /\ Goto(Reader, IF que = <<>> THEN "shutdown" ELSE "gone")
    /\ UNCHANGED <<que, writes, reading, want_close, was_shutdown, que_lock, send_lock, sent, wire>>

\* The object goes when no callback and no caller refers to it; the destructor
\* shuts a connection down that was not.
destructor ==
    /\ writes = 0 /\ ~reading /\ \A t \in Threads : At(t, "idle") \/ At(t, "gone")
    /\ ~was_shutdown
    /\ was_shutdown' = TRUE
    /\ UNCHANGED <<que, writes, reading, want_close, que_lock, send_lock, th, sent, wire>>

Step(t) == close_size(t) \/ close_want(t) \/ shutdown(t)
Send(s) == do_send(s) \/ do_send_chunk(s) \/ retry_limit(s)

ConnectionNext ==
    \/ start \/ handle_write \/ handle_write_error
    \/ handle_read \/ handle_read_check \/ destructor
    \/ \E s \in Senders : packet(s) \/ Send(s)
    \/ \E c \in Closers : call_close(c)
    \/ \E t \in Threads : Step(t)

\* The threads run, and a write ends, well or not; nobody has to send, to close or
\* to answer.
ConnectionFairness ==
    /\ WF_connectionVars(start)
    /\ WF_connectionVars(handle_write \/ handle_write_error)
    /\ WF_connectionVars(handle_read_check) /\ WF_connectionVars(destructor)
    /\ \A s \in Senders : WF_connectionVars(Send(s))
    /\ \A t \in Threads : WF_connectionVars(Step(t))

ConnectionSpec == ConnectionInit /\ [][ConnectionNext]_connectionVars /\ ConnectionFairness

-----------------------------------------------------------------------------
\* "Active operation should be in progress": as long as the connection is up a
\* queue that is not empty is being written.
QueueMoves == que # <<>> /\ ~was_shutdown => writes = 1

Follows(a, b) ==
    IF a.part = Parts THEN b.part = 1
    ELSE b = [a EXCEPT !.part = @ + 1]

\* The peer reads whole packets, one after the other; only a connection that is
\* already being closed, because a packet was cut off by a full queue, ever
\* hands over a packet with chunks missing.
PacketContinues ==
    \/ wire' = wire \/ Follows(wire, wire')
    \/ want_close \/ \E t \in Threads : th[t].pc \in {"close", "want", "shutdown"}

\* Data that the protocol refuses ends the connection as soon as what was queued
\* is written, whichever thread looks at the queue last.
RefusalCloses == At(Reader, "gone") /\ que = <<>> => was_shutdown \/ At(Writer, "shutdown")

-----------------------------------------------------------------------------
(* boosted_tcp_server: its worker threads, the listener, connections opened    *)
(* with a deadline, synchronously by a worker or asynchronously, and the stop  *)
(* signal.                                                                     *)
CONSTANTS
    Workers,      \* the threads that run io_service_
    Attempts,     \* calls of connect_async
    FastExit      \* values of core::get_fast_exit()

VARIABLES
    accepting,    \* an asynchronous accept is outstanding
    stop,         \* m_stop_signal_sent
    detached,     \* detach_threads was called
    main,         \* the thread in run_server
    wk,           \* what each worker does
    ready,        \* the shared context of a synchronous connect has its result
    att           \* the asynchronous attempts

vars == <<accepting, stop, detached, main, wk, ready, att>>

NoAttempt == [sock |-> "none", timer |-> "none", cb |-> "none", calls |-> 0, closed |-> FALSE]

\* A handler runs in a worker that is not inside another one.
Dispatched == \E w \in Workers : wk[w] = "run" /\ ~stop

\* init_server: the listener accepts.
Init ==
    /\ accepting = TRUE /\ stop = FALSE /\ detached = FALSE
    /\ main = "spawn"
    /\ wk = [w \in Workers |-> "none"]
    /\ ready = [w \in Workers |-> FALSE]
    /\ att = [a \in Attempts |-> NoAttempt]

\* run_server, the pool of threads.
spawn ==
    /\ main = "spawn"
    /\ IF stop THEN main' = "done" /\ UNCHANGED wk
       ELSE main' = "join" /\ wk' = [w \in Workers |-> "run"]
    /\ UNCHANGED <<accepting, stop, detached, ready, att>>

\* worker_thread: io_service_.run() over and over until the stop signal.
worker_thread(w) ==
    /\ wk[w] = "run" /\ stop
    /\ wk' = [wk EXCEPT ![w] = "exit"]
    /\ UNCHANGED <<accepting, stop, detached, main, ready, att>>

\* run_server: all threads are joined (a detached one cannot be: the exception
\* ends run_server); without a stop signal the listener is initialised again.
join ==
    /\ main = "join"
    /\ detached \/ \A w \in Workers : wk[w] = "exit"
    /\ IF stop THEN main' = "done" /\ UNCHANGED accepting
       ELSE main' = "spawn" /\ accepting' = TRUE
    /\ UNCHANGED <<stop, detached, wk, ready, att>>

\* send_stop_signal: threads are detached first when the daemon exits fast.
send_stop_signal ==
    /\ ~stop
    /\ stop' = TRUE
    /\ \E fast \in FastExit : detached' = fast
    /\ UNCHANGED <<accepting, main, wk, ready, att>>

\* handle_accept with an error: no further accept is issued.
handle_accept_error ==
    /\ accepting /\ Dispatched
    /\ accepting' = FALSE
    /\ UNCHANGED <<stop, detached, main, wk, ready, att>>

\* connect, called by a handler: the worker waits for the result.
connect(w) ==
    /\ wk[w] = "run" /\ ~stop
    /\ wk' = [wk EXCEPT ![w] = "connect"]
    /\ ready' = [ready EXCEPT ![w] = FALSE]
    /\ UNCHANGED <<accepting, stop, detached, main, att>>

\* connect_callback: another worker stores the result.
connect_callback(w) ==
    /\ wk[w] = "connect" /\ ~ready[w] /\ Dispatched
    /\ ready' = [ready EXCEPT ![w] = TRUE]
    /\ UNCHANGED <<accepting, stop, detached, main, wk, att>>

\* connect returns with the result or after conn_timeout.
connect_return(w) ==
    /\ wk[w] = "connect"
    /\ wk' = [wk EXCEPT ![w] = "run"]
    /\ UNCHANGED <<accepting, stop, detached, main, ready, att>>

\* connect_async: the deadline and the connection are started.
connect_async(a) ==
    /\ att[a] = NoAttempt /\ Dispatched
    /\ att' = [att EXCEPT ![a].sock = "connecting", ![a].timer = "armed"]
    /\ UNCHANGED <<accepting, stop, detached, main, wk, ready>>

\* The network answers, well or not; the deadline expires: their handlers are
\* queued.
connected(a) ==
    /\ att[a].sock = "connecting"
    /\ \E res \in {"ok", "failed"} : att' = [att EXCEPT ![a].sock = res]
    /\ UNCHANGED <<accepting, stop, detached, main, wk, ready>>
expired(a) ==
    /\ att[a].timer = "armed"
    /\ att' = [att EXCEPT ![a].timer = "queued"]
    /\ UNCHANGED <<accepting, stop, detached, main, wk, ready>>

\* The handler of the deadline closes the socket, which fails a connect that is
\* still outstanding.
deadline(a) ==
    /\ att[a].timer = "queued" /\ Dispatched
    /\ att' = [att EXCEPT ![a].timer = "done", ![a].closed = TRUE,
                          ![a].sock = IF @ = "connecting" THEN "failed" ELSE @]
    /\ UNCHANGED <<accepting, stop, detached, main, wk, ready>>

\* The end of an attempt: the callback of the caller.
CalledBack(at, res) == [at EXCEPT !.sock = "done", !.cb = res, !.calls = @ + 1]

\* The handler of the connect calls back: an error, a deadline that could not be
\* cancelled any more, a connection that does not start, or a connection.
connect_handler(a) ==
    /\ att[a].sock \in {"ok", "failed"} /\ Dispatched
    /\ CASE att[a].sock = "failed" -> att' = [att EXCEPT ![a] = CalledBack(@, "error")]
         [] att[a].timer # "armed" -> att' = [att EXCEPT ![a] = CalledBack(@, "aborted")]
         [] OTHER -> \E res \in {"connected", "fault"} :
                att' = [att EXCEPT ![a] = CalledBack([@ EXCEPT !.timer = "cancelled"], res)]
    /\ UNCHANGED <<accepting, stop, detached, main, wk, ready>>

Handlers(a) == deadline(a) \/ connect_handler(a)

Next ==
    \/ spawn \/ join \/ send_stop_signal \/ handle_accept_error
    \/ \E w \in Workers : worker_thread(w) \/ connect(w) \/ connect_callback(w) \/ connect_return(w)
    \/ \E a \in Attempts : connect_async(a) \/ connected(a) \/ expired(a) \/ Handlers(a)

\* Threads run, timers expire and queued handlers are dispatched by a worker that
\* is free again and again; the network owes no answer.
Fairness ==
    /\ WF_vars(spawn) /\ WF_vars(join)
    /\ \A w \in Workers : WF_vars(worker_thread(w)) /\ WF_vars(connect_return(w))
    /\ \A a \in Attempts : WF_vars(expired(a)) /\ SF_vars(Handlers(a))

Spec == Init /\ [][Next]_vars /\ Fairness

-----------------------------------------------------------------------------
\* A connection that connect_async reported as open is never closed by its own
\* deadline, although timer and connect complete independently.
ReportedOpen == \A a \in Attempts : att[a].cb = "connected" => ~att[a].closed

\* run_server returns only when its threads are gone, unless they were detached.
ThreadsJoined == main = "done" /\ ~detached => \A w \in Workers : wk[w] \in {"none", "exit"}

\* An attempt that nobody has called back yet.  It may not last: the callback comes also
\* when the peer never answers and all workers wait in synchronous connects ("there will
\* be no thread to dispatch events").
Connecting(a) == att[a] # NoAttempt /\ att[a].cb = "none"
=============================================================================
