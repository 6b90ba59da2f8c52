---------------------------- MODULE BlockedClient ---------------------------
(***************************************************************************)
(* blocked_mode_client (contrib/epee/include/net/net_helper.h): blocking   *)
(* connect, send and recv built from asynchronous operations.  The calling *)
(* thread starts an operation and runs the handlers of the io_service one  *)
(* by one until the operation has completed.  A deadline actor lives in    *)
(* the same io_service: check_deadline runs when the timer fires or when   *)
(* somebody moves it, and closes the socket when the deadline has passed.  *)
(* On top of it the calls of the levin client (levin_client.inl), each a   *)
(* sequence of such operations, and the recv of the HTTP client.           *)
(***************************************************************************)
EXTENDS Naturals, Sequences

CONSTANT MaxOps    \* bound: operations that are started

VARIABLES
  todo,         \* operations the running call still has to do
  op,           \* the operation whose handlers are being run, "none" outside
  ec,           \* its result: "would_block" until it has completed
  open,         \* the socket is open
  m_connected,
  m_deadline,   \* "infinite", "set" or "passed"
  owner,        \* history: number of the operation that set the deadline
  queued,       \* check_deadline is ready to run
  ops,          \* number of the operation
  pending,      \* operations whose handler has not run
  killed,       \* history: check_deadline closed the socket under <<ops, owner>>
  res           \* what the last call returned

vars == <<todo, op, ec, open, m_connected, m_deadline, owner, queued, ops, pending,
          killed, res>>

Init ==
  /\ todo = <<>> /\ op = "none" /\ ec = "ok" /\ open = FALSE /\ m_connected = FALSE
  /\ m_deadline = "infinite" /\ owner = 0 /\ queued = FALSE /\ ops = 0
  /\ pending = {} /\ killed = <<0, 0>> /\ res = TRUE

Idle == op = "none" /\ todo = <<>>

\* A call ends: what is left of it is not done.
Return(value) == todo' = <<>> /\ res' = value /\ op' = "none"

\* An operation has succeeded: the next one of the call comes.
Succeed ==
  /\ op' = "none" /\ todo' = Tail(todo)
  /\ res' = IF Tail(todo) = <<>> THEN TRUE ELSE res

\* Every timer setting wakes the actor that waits on it.
SetDeadline == m_deadline' = "set" /\ owner' = ops + 1 /\ queued' = TRUE
NoDeadline == m_deadline' = "infinite" /\ queued' = TRUE /\ UNCHANGED owner
KeepDeadline == UNCHANGED <<m_deadline, owner, queued>>

\* levin_client_impl::invoke and notify only start on a connection; the head
\* goes out with a plain write, the rest blocks.
CallInvoke == m_connected /\ open /\ todo' = <<"write_some", "write", "read_n", "read_n">>
CallNotify == m_connected /\ open /\ todo' = <<"write_some", "write">>
CallRecv == todo' = <<"write", "read">>
CallConnect == todo' = <<"connect">>

Call ==
  /\ Idle /\ ops < MaxOps
  /\ CallInvoke \/ CallNotify \/ CallRecv \/ CallConnect
  /\ UNCHANGED <<op, ec, open, m_connected, m_deadline, owner, queued, ops, pending,
                 killed, res>>

Starts(kind) == op = "none" /\ todo # <<>> /\ Head(todo) = kind /\ ops < MaxOps

\* The asynchronous operation is started and the loop entered.
Started(kind) ==
  /\ op' = kind /\ ec' = "would_block" /\ pending' = pending \cup {ops + 1}
  /\ ops' = ops + 1
  /\ UNCHANGED <<todo, killed, res>>

\* connect: the old socket is closed first; a name that cannot be resolved
\* ends the call before there is a deadline.
connect ==
  /\ Starts("connect")
  /\ m_connected' = FALSE
  /\ \/ open' = TRUE /\ SetDeadline /\ Started("connect")
     \/ /\ open' = FALSE /\ KeepDeadline /\ Return(FALSE)
        /\ UNCHANGED <<ec, pending, ops, killed>>

\* send of a string: all of it, under a deadline.
send ==
  /\ Starts("write")
  /\ SetDeadline /\ Started("write") /\ UNCHANGED <<open, m_connected>>

\* send of a block of memory: written at once, as far as the socket takes it.
send_some ==
  /\ Starts("write_some")
  /\ \/ open /\ NoDeadline /\ Succeed /\ UNCHANGED m_connected
     \/ m_connected' = FALSE /\ KeepDeadline /\ Return(FALSE)
  /\ UNCHANGED <<ec, open, ops, pending, killed>>

\* recv and recv_n, under a deadline.
recv ==
  /\ Starts("read")
  /\ SetDeadline /\ Started("read") /\ UNCHANGED <<open, m_connected>>

recv_n ==
  /\ Starts("read_n")
  /\ SetDeadline /\ Started("read_n") /\ UNCHANGED <<open, m_connected>>

\* run_one takes the handler of the operation.  A closed socket has aborted
\* it; otherwise the peer decides.
OperationDone ==
  /\ op # "none" /\ ec = "would_block" /\ ops \in pending
  /\ pending' = pending \ {ops}
  /\ \/ ~open /\ ec' = "aborted"
     \/ open /\ ec' \in {"ok", "error"}
     \/ open /\ op \in {"read", "read_n"} /\ ec' = "eof"
  /\ UNCHANGED <<todo, op, open, m_connected, m_deadline, owner, queued, ops, killed, res>>

\* run_one takes the actor.  It may have been woken by a deadline that was
\* moved since: only one that has passed closes the socket.
check_deadline ==
  /\ op # "none" /\ ec = "would_block" /\ queued
  /\ IF m_deadline = "passed"
     THEN /\ m_connected' = FALSE /\ open' = FALSE /\ m_deadline' = "infinite"
          /\ killed' = <<ops, owner>>
     ELSE UNCHANGED <<m_connected, open, m_deadline, killed>>
  /\ queued' = FALSE
  /\ UNCHANGED <<todo, op, ec, owner, ops, pending, res>>

\* Behind the loop.  Only success takes the deadline back.
connect_returns ==
  /\ op = "connect" /\ ec # "would_block"
  /\ IF ec = "ok" /\ open THEN m_connected' = TRUE /\ NoDeadline /\ Succeed
     ELSE KeepDeadline /\ Return(FALSE) /\ UNCHANGED m_connected
  /\ UNCHANGED <<ec, open, ops, pending, killed>>

\* An operation that failed makes the connection count as lost.
Lost == m_connected' = FALSE

send_returns ==
  /\ op = "write" /\ ec # "would_block"
  /\ IF ec = "ok" THEN NoDeadline /\ Succeed /\ UNCHANGED m_connected
     ELSE KeepDeadline /\ Return(FALSE) /\ Lost
  /\ UNCHANGED <<ec, open, ops, pending, killed>>

\* recv takes the end of the stream as success, with nothing read; the
\* connection still counts as connected and the deadline stays.
recv_returns ==
  /\ op = "read" /\ ec # "would_block"
  /\ IF ec = "ok" THEN NoDeadline /\ Succeed /\ UNCHANGED m_connected
     ELSE IF ec = "eof" THEN KeepDeadline /\ Succeed /\ UNCHANGED m_connected
     ELSE KeepDeadline /\ Return(FALSE) /\ Lost
  /\ UNCHANGED <<ec, open, ops, pending, killed>>

recv_n_returns ==
  /\ op = "read_n" /\ ec # "would_block"
  /\ IF ec = "ok" THEN NoDeadline /\ Succeed /\ UNCHANGED m_connected
     ELSE KeepDeadline /\ Return(FALSE) /\ Lost
  /\ UNCHANGED <<ec, open, ops, pending, killed>>

\* The user ends the connection; the socket itself stays open.
disconnect ==
  /\ Idle /\ m_connected
  /\ m_connected' = FALSE
  /\ UNCHANGED <<todo, op, ec, open, m_deadline, owner, queued, ops, pending, killed, res>>

\* Time goes on, inside of operations and between them.
TimePasses ==
  /\ m_deadline = "set" /\ m_deadline' = "passed" /\ queued' = TRUE
  /\ UNCHANGED <<todo, op, ec, open, m_connected, owner, ops, pending, killed, res>>

Ended == ops = MaxOps /\ op = "none" /\ UNCHANGED vars

run_one == OperationDone \/ check_deadline

Thread ==
  \/ connect \/ send \/ send_some \/ recv \/ recv_n
  \/ connect_returns \/ send_returns \/ recv_returns \/ recv_n_returns

Next == Call \/ Thread \/ run_one \/ disconnect \/ TimePasses \/ Ended

\* The calling thread runs, ready handlers are run and time goes on.  The
\* completion of an operation is the peer's affair and not assumed, except
\* that closing the socket aborts it.
Spec ==
  Init /\ [][Next]_vars
    /\ WF_vars(Thread) /\ WF_vars(check_deadline) /\ WF_vars(TimePasses)
    /\ WF_vars(OperationDone /\ ~open)

\* The socket is closed under an operation only for the deadline of that
\* operation: a deadline that an earlier operation left behind, because it
\* failed or read the end of the stream, does not hit a later one.
OwnDeadline == killed[1] = killed[2]

\* A client that counts as connected has an open socket, also after a deadline
\* has closed it.
ConnectedIsOpen == m_connected => open

\* The frame of an operation outlives its handler: when a call is over, no
\* handler that would write to its local variables is left in the io_service.
NoHandlerLeft == op = "none" => pending = {}

=============================================================================
