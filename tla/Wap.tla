-------------------------------- MODULE Wap --------------------------------
(* A wallet talking to the daemon through the wallet access protocol: the API  *)
(* thread (wap_client_* and wallet2), the client engine, the two directions of *)
(* the socket between the processes, and the server engine with its record of  *)
(* the client.  The daemon may stop and start again.                           *)
EXTENDS Naturals, Sequences, SequencesExt

CONSTANTS
    Methods,     \* commands of the protocol
    MaxCalls,    \* bound: commands the wallet issues
    MaxClients,  \* bound: clients the wallet creates
    MaxStops,    \* bound: stops of the daemon
    MaxQueue,    \* bound: messages on their way when a timer fires, the daemon running
    Prompt       \* the endpoint is good and a running daemon answers within the timeouts

VARIABLES
    pc,          \* what the API thread waits for
    calls,       \* commands issued
    clients,     \* clients created
    opened,      \* the present client was connected once
    cmd,         \* the command on the pipe to the engine, if any
    replies,     \* replies on the pipe to the API thread
    eng,         \* the client engine
    to_server,   \* messages to the daemon
    to_client,   \* messages to the client
    running,     \* the daemon runs its IPC server
    rec,         \* the server's record of the client
    stops        \* stops so far

vars == <<pc, calls, clients, opened, cmd, replies, eng, to_server, to_client, running, rec, stops>>
api == <<pc, calls, clients>>
server == <<running, rec, stops>>

----------------------------------------------------------------------------
(* The client engine of the wallet access protocol (wap_client_engine.inc and  *)
(* the actions of wap_client.c): one operator per state of its state machine,  *)
(* from the engine and an event to the engine after it, the messages it sends  *)
(* to the server and the replies it gives the API thread.                      *)
\* "We send at most 3 heartbeats before expiring the server".
MaxHeartbeats == 3

COMMAND_INVALID == "COMMAND_INVALID"

\* s_client_new.  method and req are the command of the API and its number.
New ==
    [state |-> "start", fsm_stopped |-> FALSE, terminated |-> FALSE, aborted |-> FALSE,
     connected |-> FALSE, retries |-> 0, timeout |-> "none", timer |-> FALSE,
     method |-> "none", req |-> 0]

Ev(id) == [id |-> id, method |-> "none", req |-> 0]
Msg(id) == [id |-> id, method |-> "none", req |-> 0]
Reply(name, req) == [name |-> name, req |-> req]

\* What a step leaves: the engine, messages for the dealer, replies for the API.
Out(e, send, tell) == [eng |-> e, send |-> send, tell |-> tell]
Quiet(e) == Out(e, <<>>, <<>>)

engine_set_timeout(e, t) == [e EXCEPT !.timeout = t, !.timer = (t # "none")]

\* use_connect_timeout
use_connect_timeout(e) == engine_set_timeout(e, "connect")

\* client_is_connected
client_is_connected(e) ==
    engine_set_timeout([e EXCEPT !.retries = 0, !.connected = TRUE], "heartbeat")

\* The terminate action.
terminate(e) == [e EXCEPT !.fsm_stopped = TRUE]

\* An event for which a state has only an assertion.
unhandled(e) == Quiet([e EXCEPT !.aborted = TRUE])

start_state(e, ev) ==
    CASE ev.id = "connect" ->
           Out([use_connect_timeout(e) EXCEPT !.state = "expect_open_ok"], <<Msg("OPEN")>>, <<>>)
      [] ev.id = "bad_endpoint" -> Out(terminate(e), <<>>, <<Reply("FAILURE", ev.req)>>)
      [] OTHER -> unhandled(e)

\* check_status_code and the internal have_error state that follows it at once:
\* a command that is not valid makes the client open the session again.
have_error_state(e, ev) ==
    IF ev.method = COMMAND_INVALID
    THEN Out([use_connect_timeout(e) EXCEPT !.state = "reexpect_open_ok"],
             <<Msg("OPEN")>>, <<>>)
    ELSE Quiet(terminate([e EXCEPT !.state = "have_error"]))

\* What every state but start and have_error does with the events it does not name.
defaults_state(e, ev) ==
    CASE ev.id = "PING_OK" -> Quiet(client_is_connected(e))
      [] ev.id = "ERROR" -> have_error_state(e, ev)
      [] OTHER -> Quiet(e)

expect_open_ok_state(e, ev) ==
    CASE ev.id = "OPEN_OK" ->
           Out([client_is_connected(e) EXCEPT !.state = "connected"],
               <<>>, <<Reply("SUCCESS", e.req)>>)
      [] ev.id = "expired" -> Out(terminate(e), <<>>, <<Reply("FAILURE", e.req)>>)
      [] OTHER -> defaults_state(e, ev)

\* Variant: after the last heartbeat the client just goes on waiting.
check_if_connection_is_dead_never(e) ==
    IF e.retries + 1 >= MaxHeartbeats THEN Quiet(e)
    ELSE Out([e EXCEPT !.retries = @ + 1], <<Msg("PING")>>, <<>>)

\* check_if_connection_is_dead: the exception it raises keeps the PING from being
\* sent, and nothing else is done about it.
check_if_connection_is_dead(e) ==
    LET tried == [e EXCEPT !.retries = @ + 1]
    IN IF tried.retries >= MaxHeartbeats
       THEN Quiet([engine_set_timeout(tried, "none") EXCEPT !.connected = FALSE])
       ELSE Out(tried, <<Msg("PING")>>, <<>>)

connected_state(e, ev) ==
    CASE ev.id = "command" ->
           Out([e EXCEPT !.state = "expect_ok"],
               <<[id |-> "COMMAND", method |-> ev.method, req |-> ev.req]>>, <<>>)
      [] ev.id = "destructor" -> Out([e EXCEPT !.state = "expect_close_ok"], <<Msg("CLOSE")>>, <<>>)
      [] ev.id = "expired" -> check_if_connection_is_dead(e)
      [] OTHER -> defaults_state(e, ev)

\* Variant: a call that got no answer in time fails, and the next may begin.
expect_ok_state_timely(e, ev) ==
    CASE ev.id = "OK" /\ ev.method = e.method ->
           Out([e EXCEPT !.state = "connected"], <<>>, <<Reply("OK", ev.req)>>)
      [] ev.id = "expired" ->
           Out([e EXCEPT !.state = "connected"], <<>>, <<Reply("FAILURE", e.req)>>)
      [] OTHER -> defaults_state(e, ev)

\* The expect_*_ok states, one for each method: the reply of that method ends the
\* wait; expired is not among the events they handle.
expect_ok_state(e, ev) ==
    IF ev.id = "OK" /\ ev.method = e.method
    THEN Out([e EXCEPT !.state = "connected"], <<>>, <<Reply("OK", ev.req)>>)
    ELSE defaults_state(e, ev)

expect_close_ok_state(e, ev) ==
    CASE ev.id = "CLOSE_OK" -> Out(terminate(e), <<>>, <<Reply("SUCCESS", e.req)>>)
      [] ev.id = "expired" -> Out(terminate(e), <<>>, <<Reply("FAILURE", e.req)>>)
      [] OTHER -> defaults_state(e, ev)

reexpect_open_ok_state(e, ev) ==
    IF ev.id = "OPEN_OK"
    THEN Quiet([client_is_connected(e) EXCEPT !.state = "connected"])
    ELSE defaults_state(e, ev)

\* s_client_execute
s_client_execute(e, ev) ==
    IF e.terminated \/ e.fsm_stopped THEN Quiet(e)
    ELSE CASE e.state = "start" -> start_state(e, ev)
           [] e.state = "expect_open_ok" -> expect_open_ok_state(e, ev)
           [] e.state = "connected" -> connected_state(e, ev)
           [] e.state = "expect_ok" -> expect_ok_state(e, ev)
           [] e.state = "expect_close_ok" -> expect_close_ok_state(e, ev)
           [] e.state = "have_error" -> unhandled(e)
           [] e.state = "reexpect_open_ok" -> reexpect_open_ok_state(e, ev)

\* s_client_handle_timeout: the timer is set again unless it was switched off.
s_client_handle_timeout(e) ==
    LET out == s_client_execute([e EXCEPT !.timer = FALSE], Ev("expired"))
    IN [out EXCEPT !.eng.timer = (out.eng.timeout # "none")]

\* s_client_handle_protocol: any message counts as activity.
s_client_handle_protocol(e, msg) ==
    s_client_execute([e EXCEPT !.timer = (e.timeout # "none")], msg)

\* s_client_handle_cmdpipe, for a command of the API.
s_client_handle_cmdpipe(e, command) ==
    IF command.id = "$TERM" THEN Quiet([e EXCEPT !.terminated = TRUE])
    ELSE s_client_execute([e EXCEPT !.method = command.method, !.req = command.req], command)
----------------------------------------------------------------------------
(* The server engine of the wallet access protocol (wap_server_engine.inc and  *)
(* wap_server.c): what the daemon keeps of one client, and what each state of  *)
(* the client's machine does with an event.  register_wallet,                  *)
(* deregister_wallet, register_new_client and allow_time_to_settle are empty   *)
(* functions: the wakeup alarm of the settling state is never set.             *)
NoClient == [state |-> "none", ticket |-> FALSE]

\* s_client_new: the server has an expiry timeout, so a ticket is made.
s_client_new == [state |-> "start", ticket |-> TRUE]

ServerOut(c, reply) == [client |-> c, reply |-> reply]
Settle(c, reply) == ServerOut([c EXCEPT !.state = "settling"], reply)

\* signal_command_not_valid; send ERROR
signal_command_not_valid == [id |-> "ERROR", method |-> COMMAND_INVALID, req |-> 0]

server_start_state(c, ev) ==
    CASE ev.id = "OPEN" -> ServerOut([c EXCEPT !.state = "connected"], <<Msg("OPEN_OK")>>)
      [] ev.id = "CLOSE" -> Settle(c, <<Msg("CLOSE_OK")>>)
      [] ev.id = "PING" -> ServerOut(c, <<Msg("PING_OK")>>)
      [] ev.id = "expired" -> Settle(c, <<>>)
      [] OTHER -> ServerOut(c, <<signal_command_not_valid>>)

\* Each command runs its handler and is answered by its own OK message.
server_connected_state(c, ev) ==
    CASE ev.id = "COMMAND" -> ServerOut(c, <<[ev EXCEPT !.id = "OK"]>>)
      [] ev.id = "CLOSE" -> Settle(c, <<Msg("CLOSE_OK")>>)
      [] ev.id = "PING" -> ServerOut(c, <<Msg("PING_OK")>>)
      [] ev.id = "expired" -> Settle(c, <<>>)
      [] OTHER -> Settle(c, <<signal_command_not_valid>>)

\* Everything but OPEN is ignored; the settled event needs the alarm.
settling_state(c, ev) ==
    IF ev.id = "OPEN" THEN ServerOut([c EXCEPT !.state = "connected"], <<Msg("OPEN_OK")>>)
    ELSE ServerOut(c, <<>>)

\* server_s_client_execute
server_s_client_execute(c, ev) ==
    CASE c.state = "start" -> server_start_state(c, ev)
      [] c.state = "connected" -> server_connected_state(c, ev)
      [] c.state = "settling" -> settling_state(c, ev)

\* s_client_handle_ticket: the ticket is spent, and no other is made.
s_client_handle_ticket(c) ==
    LET out == server_s_client_execute(c, Msg("expired"))
    IN [out EXCEPT !.client.ticket = FALSE]

\* s_server_handle_protocol: a client the server does not know is created.
s_server_handle_protocol(c, msg) ==
    server_s_client_execute(IF c.state = "none" THEN s_client_new ELSE c, msg)
----------------------------------------------------------------------------
NoCmd == Ev("none")

Init ==
    /\ pc = "idle" /\ calls = 0 /\ clients = 0 /\ opened = FALSE
    /\ cmd = NoCmd /\ replies = <<>> /\ eng = New
    /\ to_server = <<>> /\ to_client = <<>>
    /\ running \in (IF MaxStops = 0 THEN {TRUE} ELSE BOOLEAN)
    /\ rec = NoClient /\ stops = 0

----------------------------------------------------------------------------
\* The API thread.

\* connect_to_daemon of wallet2: an unconnected client is forgotten, not
\* destroyed, and a new one is made; it has a routing id of its own.
connect_to_daemon ==
    /\ pc = "idle" /\ ~eng.connected /\ clients < MaxClients
    /\ clients' = clients + 1 /\ pc' = "connecting" /\ opened' = FALSE
    /\ eng' = New /\ replies' = <<>> /\ cmd' = Ev("connect")
    /\ to_server' = <<>> /\ to_client' = <<>> /\ rec' = NoClient
    /\ UNCHANGED <<calls, running, stops>>

\* wap_client_blocks and the other commands: wallet2 issues them whether or not
\* the connection succeeded.
call(m) ==
    /\ pc = "idle" /\ clients > 0 /\ calls < MaxCalls
    /\ calls' = calls + 1 /\ pc' = "calling"
    /\ cmd' = [id |-> "command", method |-> m, req |-> calls + 1]
    /\ UNCHANGED <<clients, opened, replies, eng, to_server, to_client, server>>

\* wap_client_destroy up to wap_client_destructor; the engine answers the flush
\* of the message pipe in any state.
wap_client_destroy ==
    /\ pc = "idle" /\ clients > 0
    /\ pc' = "closing" /\ cmd' = Ev("destructor")
    /\ UNCHANGED <<calls, clients, opened, replies, eng, to_server, to_client, server>>

\* The replies each wait of the API thread accepts.
Accepted(name) ==
    CASE pc = "connecting" -> name \in {"SUCCESS", "FAILURE"}
      [] pc = "calling" -> name \in {"OK", "FAILURE"}
      [] pc = "closing" -> name \in {"SUCCESS", "FAILURE"}
      [] OTHER -> FALSE

\* s_accept_reply: replies that do not match are dropped; after the destructor's
\* the actor is told to end.
s_accept_reply ==
    /\ pc \in {"connecting", "calling", "closing"} /\ replies # <<>>
    /\ replies' = Tail(replies)
    /\ IF ~Accepted(Head(replies).name) THEN UNCHANGED <<pc, cmd>>
       ELSE IF pc = "closing" THEN pc' = "gone" /\ cmd' = Ev("$TERM")
       ELSE pc' = "idle" /\ UNCHANGED cmd
    /\ UNCHANGED <<calls, clients, opened, eng, to_server, to_client, server>>

----------------------------------------------------------------------------
\* The client engine.
Done(out) ==
    /\ eng' = out.eng
    /\ to_server' = to_server \o out.send
    /\ replies' = replies \o out.tell
    /\ opened' = (opened \/ out.eng.connected)

\* A command of the API; the endpoint of a connect may be refused.
cmdpipe ==
    /\ cmd # NoCmd /\ ~eng.terminated
    /\ \E id \in IF cmd.id = "connect" /\ ~Prompt THEN {"connect", "bad_endpoint"} ELSE {cmd.id} :
          Done(s_client_handle_cmdpipe(eng, [cmd EXCEPT !.id = id]))
    /\ cmd' = NoCmd
    /\ UNCHANGED <<api, to_client, server>>

\* A message of the server.
protocol ==
    /\ to_client # <<>> /\ ~eng.terminated
    /\ Done(s_client_handle_protocol(eng, Head(to_client)))
    /\ to_client' = Tail(to_client)
    /\ UNCHANGED <<api, cmd, server>>

Silent == to_server = <<>> /\ to_client = <<>>

\* The inactivity timer.
timeout ==
    /\ eng.timer /\ ~eng.terminated
    /\ Prompt => (Silent \/ ~running) /\ cmd = NoCmd
    /\ running => Len(to_server) + Len(to_client) < MaxQueue
    /\ Done(s_client_handle_timeout(eng))
    /\ UNCHANGED <<api, cmd, to_client, server>>

----------------------------------------------------------------------------
\* The server.

\* A message of the client.
serve ==
    /\ running /\ to_server # <<>>
    /\ LET out == s_server_handle_protocol(rec, Head(to_server))
       IN /\ rec' = out.client
          /\ to_client' = to_client \o out.reply
    /\ to_server' = Tail(to_server)
    /\ UNCHANGED <<api, opened, cmd, replies, eng, running, stops>>

\* The client's ticket expires: the client is silent, or a handler kept the
\* server's loop for longer than the timeout.
expire ==
    /\ running /\ rec.ticket
    /\ Prompt => Silent /\ ~eng.timer
    /\ LET out == s_client_handle_ticket(rec)
       IN /\ rec' = out.client
          /\ to_client' = to_client \o out.reply
    /\ UNCHANGED <<api, opened, cmd, replies, eng, to_server, running, stops>>

\* The daemon stops (zactor_destroy of the server, or a crash): what it had
\* received is lost, what the client's socket still holds is not.
stop ==
    /\ running /\ stops < MaxStops
    /\ running' = FALSE /\ stops' = stops + 1 /\ rec' = NoClient
    /\ \E k \in 0..Len(to_server) : to_server' = SubSeq(to_server, k + 1, Len(to_server))
    /\ \E k \in 0..Len(to_client) : to_client' = SubSeq(to_client, 1, k)
    /\ UNCHANGED <<api, opened, cmd, replies, eng>>

start ==
    /\ ~running /\ running' = TRUE
    /\ UNCHANGED <<api, opened, cmd, replies, eng, to_server, to_client, rec, stops>>

----------------------------------------------------------------------------
Next ==
    \/ connect_to_daemon \/ (\E m \in Methods : call(m)) \/ wap_client_destroy \/ s_accept_reply
    \/ cmdpipe \/ protocol \/ timeout
    \/ serve \/ expire \/ stop \/ start

\* Both loops run, timers fire, and the API thread reads what it waits for; when
\* the wallet issues commands and when the daemon stops or starts is not promised.
Spec ==
    /\ Init /\ [][Next]_vars
    /\ WF_vars(s_accept_reply) /\ WF_vars(cmdpipe) /\ WF_vars(protocol) /\ WF_vars(timeout)
    /\ WF_vars(serve)

----------------------------------------------------------------------------
\* The engine's state machine never meets an event for which it has only an
\* assertion (the "unhandled event" branches of start_state and have_error_state),
\* whatever the daemon does.
NoUnhandledEvent == ~eng.aborted

\* While wap_client_connected answers true the inactivity timer is set, so that
\* the loss of the server will be noticed.
Monitored == eng.connected /\ ~eng.fsm_stopped /\ ~eng.terminated => eng.timer

\* A command succeeds with the answer to that command, never with a late answer
\* to an earlier one: the protocol's messages carry no request number.
OwnAnswer ==
    pc = "calling" /\ replies # <<>> /\ Head(replies).name = "OK" => Head(replies).req = calls

\* What the liveness properties speak of: the API thread is inside a call, and a
\* client counts itself connected.
Waiting == pc \in {"connecting", "calling", "closing"}
CountsConnected == eng.connected /\ eng.state = "connected"
============================================================================
