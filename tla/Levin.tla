------------------------------- MODULE Levin -------------------------------
(* Remote calls over one connection (levin_protocol_handler_async.h): each     *)
(* call of async_invoke queues a handler with a timer, responses are matched   *)
(* to the handlers in order, and a handler ends by its response, its timer or  *)
(* the release of the protocol.  The connection object lives as long as        *)
(* somebody holds a reference to it (abstract_tcp_server2.inl).                *)
EXTENDS Naturals, Sequences, FiniteSets, Functions

CONSTANTS
    Calls,        \* calls of invoke_async
    Notes,        \* calls of notify and of request_callback
    None          \* no call

VARIABLES
    in_map,       \* the connection is in m_connects
    object,       \* the connection object: alive, in its destructor, gone
    reading,      \* an asynchronous read is outstanding
    refs,         \* m_self_refs of the connection
    wait_count,   \* m_wait_count
    close_called, \* m_close_called
    was_shutdown, \* m_was_shutdown
    shut,         \* how far the thread in shutdown() got
    lock,         \* the call inside m_invoke_response_handlers_lock
    handlers,     \* m_invoke_response_handlers
    cancelling,   \* handlers release_protocol took out and has yet to cancel
    pc,           \* how far each call got
    timer,        \* the timer of each call
    cbs,          \* the results the callback of each call was given
    handling,     \* the call handle_recv is about to call back
    peer,         \* requests the peer has not answered
    answers       \* responses on their way back

vars == <<in_map, object, reading, refs, wait_count, close_called, was_shutdown, shut, lock,
          handlers, cancelling, pc, timer, cbs, handling, peer, answers>>
network == <<peer, answers>>
owner == <<in_map, object, reading>>
ending == <<close_called, was_shutdown, shut>>
waiting == <<lock, handlers, cancelling, handling>>

\* The outcomes a callback is told beside the response of its own request.
Errors == {"connection", "destroyed", "timed out"}

\* The constructor and after_init_connection.
Init ==
    /\ in_map = TRUE /\ object = "alive" /\ reading = TRUE
    /\ refs = 0 /\ wait_count = 0
    /\ close_called = FALSE /\ was_shutdown = FALSE /\ shut = "no"
    /\ lock = None /\ handlers = <<>> /\ cancelling = {} /\ handling = None
    /\ pc = [c \in Calls \cup Notes |-> "idle"]
    /\ timer = [c \in Calls |-> "none"]
    /\ cbs = [c \in Calls |-> <<>>]
    /\ peer = <<>> /\ answers = <<>>

\* Some thread enters shutdown().
Asked == IF shut = "no" THEN "asked" ELSE shut

Tell(c, result) == cbs' = [cbs EXCEPT ![c] = Append(@, result)]

\* add_ref refuses an object in its destructor or a connection that is shut down.
add_ref == object = "alive" /\ ~was_shutdown

\* start_outer_call and finish_outer_call keep the two counts.
start_outer_call == refs' = refs + 1 /\ wait_count' = wait_count + 1

finish_outer_call == refs' = refs - 1 /\ wait_count' = wait_count - 1

\* find_and_lock_connection, for invoke_async, notify and request_callback: an
\* unknown or dying connection is an error code, not a callback.
find_and_lock_connection(c) ==
    /\ pc[c] = "idle"
    /\ IF in_map /\ add_ref
       THEN pc' = [pc EXCEPT ![c] = "locked"] /\ start_outer_call
       ELSE pc' = [pc EXCEPT ![c] = "refused"] /\ UNCHANGED <<refs, wait_count>>
    /\ UNCHANGED <<owner, ending, waiting, timer, cbs, network>>

\* async_invoke, sending inside the locks: after a shutdown the callback is told.
async_invoke(c) ==
    /\ pc[c] = "locked" /\ lock = None
    /\ IF was_shutdown
       THEN /\ pc' = [pc EXCEPT ![c] = "done"]
            /\ Tell(c, "connection")
            /\ finish_outer_call
            /\ UNCHANGED <<lock, peer>>
       ELSE /\ pc' = [pc EXCEPT ![c] = "sent"]
            /\ lock' = c
            /\ peer' = Append(peer, c)
            /\ UNCHANGED <<refs, wait_count, cbs>>
    /\ UNCHANGED <<owner, ending, handlers, cancelling, handling, timer, answers>>

\* Variant: the timer keeps no reference to the connection.
add_invoke_response_handler_unref(c) ==
    /\ pc[c] = "sent"
    /\ pc' = [pc EXCEPT ![c] = "done"]
    /\ lock' = None
    /\ handlers' = Append(handlers, c)
    /\ IF add_ref
       THEN timer' = [timer EXCEPT ![c] = "armed"] /\ finish_outer_call /\ UNCHANGED cbs
       ELSE Tell(c, "destroyed") /\ finish_outer_call /\ UNCHANGED timer
    /\ UNCHANGED <<owner, ending, cancelling, handling, network>>

\* add_invoke_response_handler, still inside the locks, and the end of
\* async_invoke: the handler is queued also when its timer cannot be started; its
\* callback is then told at once, outside the locks.
add_invoke_response_handler(c) ==
    /\ pc[c] = "sent"
    /\ pc' = [pc EXCEPT ![c] = "done"]
    /\ lock' = None
    /\ handlers' = Append(handlers, c)
    /\ IF add_ref
       THEN timer' = [timer EXCEPT ![c] = "armed"] /\ UNCHANGED <<refs, wait_count, cbs>>
       ELSE Tell(c, "destroyed") /\ finish_outer_call /\ UNCHANGED timer
    /\ UNCHANGED <<owner, ending, cancelling, handling, network>>

\* notify and request_callback end without anything to wait for.
notify(n) ==
    /\ pc[n] = "locked"
    /\ pc' = [pc EXCEPT ![n] = "done"]
    /\ finish_outer_call
    /\ UNCHANGED <<owner, ending, waiting, timer, cbs, network>>

\* The peer handles requests in order and answers each.
peer_answers ==
    /\ peer # <<>>
    /\ answers' = Append(answers, Head(peer))
    /\ peer' = Tail(peer)
    /\ UNCHANGED <<owner, refs, wait_count, ending, waiting, pc, timer, cbs>>

\* handle_recv: nothing is read any more once close() was called.  A response is
\* matched inside the lock of the handlers: the first one takes it if its timer
\* can still be cancelled; if not, the response is dropped and the handler stays
\* first.  A response without a handler or a call breaks the protocol.
handle_recv ==
    /\ reading /\ answers # <<>> /\ handling = None /\ lock = None
    /\ IF close_called \/ (handlers = <<>> /\ wait_count = 0)
       THEN /\ shut' = Asked
            /\ reading' = FALSE
            /\ UNCHANGED <<timer, handlers, handling, answers>>
       ELSE /\ IF handlers # <<>> /\ timer[Head(handlers)] = "armed"
               THEN /\ timer' = [timer EXCEPT ![Head(handlers)] = "cancelled"]
                    /\ handlers' = Tail(handlers)
                    /\ handling' = Head(handlers)
                    /\ UNCHANGED answers
               ELSE answers' = Tail(answers) /\ UNCHANGED <<timer, handlers, handling>>
            /\ UNCHANGED <<shut, reading>>
    /\ UNCHANGED <<in_map, object, refs, wait_count, close_called, was_shutdown, lock,
                   cancelling, pc, cbs, peer>>

\* anvoke_handler::handle, outside the lock.
handle ==
    /\ handling # None
    /\ Tell(handling, Head(answers))
    /\ answers' = Tail(answers)
    /\ handling' = None
    /\ finish_outer_call
    /\ UNCHANGED <<owner, ending, lock, handlers, cancelling, pc, timer, peer>>

\* The timer of a call expires: its handler is queued and cannot be cancelled.
expired(c) ==
    /\ timer[c] = "armed"
    /\ timer' = [timer EXCEPT ![c] = "queued"]
    /\ UNCHANGED <<owner, ending, refs, wait_count, waiting, pc, cbs, network>>

\* The handler of the timer: the callback is told, ...
timeout(c) ==
    /\ timer[c] = "queued"
    /\ timer' = [timer EXCEPT ![c] = "told"]
    /\ Tell(c, "timed out")
    /\ UNCHANGED <<owner, ending, refs, wait_count, waiting, pc, network>>

\* ... then the connection closed.
timeout_close(c) ==
    /\ timer[c] = "told"
    /\ timer' = [timer EXCEPT ![c] = "done"]
    /\ close_called' = TRUE
    /\ shut' = Asked
    /\ finish_outer_call
    /\ UNCHANGED <<owner, was_shutdown, waiting, pc, cbs, network>>

\* close(connection_id), inside m_connects_lock.
close ==
    /\ in_map /\ ~close_called
    /\ close_called' = TRUE
    /\ shut' = Asked
    /\ UNCHANGED <<owner, was_shutdown, refs, wait_count, waiting, pc, timer, cbs, network>>

\* The read fails (shutdown) or the stream ends (nothing is read any more).
read_error ==
    /\ reading /\ handling = None
    /\ reading' = FALSE
    /\ \/ shut' = Asked
       \/ ~was_shutdown /\ UNCHANGED shut
    /\ UNCHANGED <<in_map, object, refs, wait_count, close_called, was_shutdown, waiting, pc, timer, cbs, network>>

\* shutdown sets the flag, then releases the protocol.
shutdown ==
    /\ shut = "asked"
    /\ was_shutdown' = TRUE
    /\ shut' = "flagged"
    /\ UNCHANGED <<owner, refs, wait_count, close_called, waiting, pc, timer, cbs, network>>

\* release_protocol takes all handlers out inside their lock.
release_protocol ==
    /\ shut = "flagged" /\ lock = None
    /\ cancelling' = cancelling \cup Range(handlers)
    /\ handlers' = <<>>
    /\ shut' = "released"
    /\ UNCHANGED <<owner, refs, wait_count, close_called, was_shutdown, lock, handling, pc, timer, cbs, network>>

\* anvoke_handler::cancel, outside the lock: only a timer that can be cancelled
\* leaves the callback to be told.
cancel(c) ==
    /\ c \in cancelling
    /\ cancelling' = cancelling \ {c}
    /\ IF timer[c] = "armed"
       THEN /\ timer' = [timer EXCEPT ![c] = "cancelled"]
            /\ Tell(c, "destroyed") /\ finish_outer_call
       ELSE UNCHANGED <<timer, cbs, refs, wait_count>>
    /\ UNCHANGED <<owner, ending, lock, handlers, handling, pc, network>>

\* The last reference goes: no read, no outer call, no thread inside shutdown().
\* The destructor shuts the connection down if that was not done.
destructor ==
    /\ object = "alive" /\ ~reading /\ refs = 0
    /\ shut \in {"no", "released"} /\ cancelling = {} /\ handling = None
    /\ object' = "dying"
    /\ was_shutdown' = TRUE
    /\ UNCHANGED <<in_map, reading, refs, wait_count, close_called, shut, waiting, pc, timer, cbs, network>>

\* ~async_protocol_handler: the connection leaves m_connects, then the memory goes.
del_connection ==
    /\ object = "dying"
    /\ in_map' = FALSE
    /\ object' = "gone"
    /\ UNCHANGED <<reading, refs, wait_count, ending, waiting, pc, timer, cbs, network>>

Threads(c) == async_invoke(c) \/ add_invoke_response_handler(c)
Timers(c) == expired(c) \/ timeout(c) \/ timeout_close(c)
Io == handle_recv \/ handle \/ shutdown \/ release_protocol \/ destructor \/ del_connection

Next ==
    \/ \E c \in Calls \cup Notes : find_and_lock_connection(c)
    \/ \E c \in Calls : Threads(c) \/ Timers(c) \/ cancel(c)
    \/ \E n \in Notes : notify(n)
    \/ peer_answers \/ Io \/ close \/ read_error

\* Threads run and timers expire; the peer owes no answer.
Fairness ==
    /\ \A c \in Calls : WF_vars(Threads(c)) /\ WF_vars(Timers(c)) /\ WF_vars(cancel(c))
    /\ \A n \in Notes : WF_vars(notify(n))
    /\ WF_vars(handle) /\ WF_vars(shutdown \/ release_protocol)
    /\ WF_vars(destructor \/ del_connection)
    /\ WF_vars(was_shutdown /\ read_error)

Spec == Init /\ [][Next]_vars /\ Fairness

-----------------------------------------------------------------------------
\* A callback is called at most once, however its response, its timer and the
\* release of the protocol race.
CallbackOnce == \A c \in Calls : Len(cbs[c]) <= 1

\* A callback is never given the response of another request: a handler that
\* timed out stays first so that its late response cannot go to the next one.
OwnResponse == \A c \in Calls : Range(cbs[c]) \subseteq Errors \cup {c}

\* No timer of a call outlives release_protocol unless it already expired: a call
\* that was sending meanwhile either is cancelled with the others or finds the
\* connection shut down.
ReleasedEmpty == shut = "released" => \A i \in 1..Len(handlers) : timer[handlers[i]] # "armed"

\* "Failed to wait for operation completion": when the object is gone nobody is
\* inside a call, no timer refers to it and nobody can find it.
NoUseAfterFree ==
    object # "alive" => /\ wait_count = 0 /\ handling = None
                        /\ \A c \in Calls \cup Notes : pc[c] \notin {"locked", "sent"}
                        /\ \A c \in Calls : timer[c] \notin {"armed", "queued", "told"}

\* A call that found the connection and whose callback has not been called.
Pending(c) == pc[c] \in {"locked", "sent", "done"} /\ cbs[c] = <<>>
=============================================================================
