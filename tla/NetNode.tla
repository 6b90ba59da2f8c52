------------------------------ MODULE NetNode ------------------------------
(***************************************************************************)
(* How node_server (src/src/p2p/net_node.inl) keeps its connections: the   *)
(* connections_maker of the idle worker, which opens connections one at a  *)
(* time and waits for each handshake; the handlers of incoming handshakes, *)
(* ping answers and timed syncs, which run on other threads meanwhile; and *)
(* the thread that samples the number of outgoing connections every second. *)
(*                                                                         *)
(* The table m_connects is a function from slots.  All times are equal, so *)
(* the index of the lists by time is any order (Peerlist).  The remote     *)
(* nodes answer handshakes with the addresses they know.                   *)
(***************************************************************************)
EXTENDS Peerlist, SequencesExt

CONSTANTS
    IdOf,         \* IdOf[a]: peer id of the node that listens at a
    MyId,         \* m_config.m_peer_id
    Knows,        \* Knows[a]: addresses the node at a tells
    Callers,      \* nodes that connect to us: [id, port adr, ephemeral adr] records
    m_seed_nodes, m_priority_peers, m_exclusive_peers,  \* sequences of addresses
    CmdPeers,     \* m_command_line_peers
    InitialGray,  \* gray list loaded from the p2p state file
    limit,        \* m_config.m_net_config.connections_count (--out-peers, 12)
    Limits,       \* arguments of the out_peers command
    WhitePercent, \* P2P_DEFAULT_WHITELIST_CONNECTIONS_PERCENT (70)
    Slots,        \* bound: connections alive at once (1..n)
    MaxDrops,     \* bound: connections closed by the network or a remote node
    MaxCalls      \* bound: incoming handshakes

VARIABLES
    pl,           \* m_peerlist
    conns,        \* m_connects: slot -> connection, or NoConn
    asked,        \* the limit the user asked for last
    cur,          \* m_current_number_of_out_peers
    mk,           \* the thread in connections_maker
    toPing,       \* callers whose ping connection is being opened
    reached,      \* addresses that answered us (history)
    asserted,     \* a CHECK_AND_ASSERT of make_new_connection_from_peerlist failed
    drops, calls  \* counters of the bounds

vars == <<pl, conns, asked, cur, mk, toPing, reached, asserted, drops, calls>>

NoConn == [kind |-> "none"]
NoAttempt == [adr |-> "none"]
Idle == [pc |-> "idle"]

Entry(a) == [id |-> IdOf[a], seen |-> 1]
Live == {s \in Slots : conns[s] # NoConn}
IsOpen(s) == conns[s] # NoConn /\ ~conns[s].closing
Outs == {s \in Live : conns[s].kind # "in"}

\* "out": opened by the maker, "ping": by try_ping, "in": by a caller.
Conn(kind, adr, peer) == [kind |-> kind, adr |-> adr, peer |-> peer, closing |-> FALSE]

Waiting == mk.pc # "idle" /\ mk.att # NoAttempt

\* Slots are interchangeable: a new connection takes the first free one.  The one
\* the maker still knows by its id is not free.
FreeSlot ==
    LET free == {s \in Slots \ Live : Waiting => s # mk.att.slot}
    IN  {s \in free : \A t \in free : s <= t}

\* Every thread counts outgoing connections with the same loop over m_connects;
\* ping connections and those about to close are among them.
get_outgoing_connections_count == Cardinality(Outs)

is_addr_connected(a) == \E s \in Outs : conns[s].adr = a

is_peer_used(a, id) ==
    \/ id = MyId
    \/ \E s \in Live : conns[s].peer = id \/ (conns[s].kind # "in" /\ conns[s].adr = a)

Init ==
    /\ pl = [white |-> [a \in {x \in CmdPeers : is_ip_allowed(x)} |-> [id |-> 0, seen |-> 0]],
             gray |-> [a \in InitialGray |-> Entry(a)]]
    /\ conns = [s \in Slots |-> NoConn]
    /\ asked = limit
    /\ cur = 0
    /\ mk = Idle
    /\ toPing = {}
    /\ reached = {}
    /\ asserted = FALSE
    /\ drops = 0 /\ calls = 0

-----------------------------------------------------------------------------
\* connections_maker: where the thread stands.  The list it connects to, then
\* seeds, then counting, then the two stages of make_expected_connections_count.
AtList(todo, then) == [pc |-> "list", todo |-> todo, then |-> then, att |-> NoAttempt]
AtSeed(i) == [pc |-> "seed", index |-> i, tries |-> 0, att |-> NoAttempt]
AtStage(n, white, expected) ==
    [pc |-> "stage", stage |-> n, white |-> white, expected |-> expected,
     tried |-> {}, count |-> 0, att |-> NoAttempt]
AtCount == [pc |-> "count", att |-> NoAttempt]

make_connections ==
    /\ mk = Idle
    /\ mk' = AtList(m_exclusive_peers, "seeds")
    /\ UNCHANGED <<pl, conns, asked, cur, toPing, reached, asserted, drops, calls>>

\* Variant: the attempts with the seeds are not counted.
FailedUncounted ==
    CASE mk.pc = "seed" ->
           [mk EXCEPT !.att = NoAttempt, !.index = IF @ = Len(m_seed_nodes) THEN 1 ELSE @ + 1]
      [] OTHER -> [mk EXCEPT !.att = NoAttempt]

\* The outcome of try_to_connect_and_handshake_with_new_peer for its caller.
Failed ==
    CASE mk.pc = "seed" ->
           IF mk.tries + 1 > Len(m_seed_nodes) THEN AtList(m_priority_peers, "count")
           ELSE [mk EXCEPT !.tries = @ + 1, !.att = NoAttempt,
                           !.index = IF @ = Len(m_seed_nodes) THEN 1 ELSE @ + 1]
      [] OTHER -> [mk EXCEPT !.att = NoAttempt]

Succeeded ==
    CASE mk.pc = "seed" -> AtList(m_priority_peers, "count")
      [] mk.pc = "stage" -> AtStage(mk.stage, mk.white, mk.expected)
      [] OTHER -> [mk EXCEPT !.att = NoAttempt]

\* The gate of try_to_connect_and_handshake_with_new_peer on the sampled number
\* of outgoing connections: refuse at the limit, above it close one of the
\* outgoing connections (del_out_connections(1)) and refuse.
try_to_connect(m, a, take) ==
    CASE cur = limit -> mk' = m /\ UNCHANGED <<conns, cur>>
      [] cur > limit ->
           /\ mk' = m
           /\ cur' = cur - 1
           /\ IF Outs = {} THEN UNCHANGED conns
              ELSE \E s \in Outs : conns' = [conns EXCEPT ![s] = NoConn]
      [] OTHER ->
           /\ mk' = [m EXCEPT !.att = [adr |-> a, take |-> take, slot |-> 0, result |-> "none"]]
           /\ UNCHANGED <<conns, cur>>

\* Variant: addresses that are connected already are not skipped.
connect_to_peerlist_again ==
    /\ mk.pc = "list" /\ mk.att = NoAttempt /\ mk.todo # << >>
    /\ LET rest == [mk EXCEPT !.todo = Tail(@)]
       IN  try_to_connect(rest, Head(mk.todo), FALSE)
    /\ UNCHANGED <<pl, asked, toPing, reached, asserted, drops, calls>>

\* connect_to_peerlist: the exclusive or the priority peers, each once.
connect_to_peerlist ==
    /\ mk.pc = "list" /\ mk.att = NoAttempt /\ mk.todo # << >>
    /\ LET rest == [mk EXCEPT !.todo = Tail(@)]
       IN  IF is_addr_connected(Head(mk.todo))
             THEN mk' = rest /\ UNCHANGED <<conns, cur>>
             ELSE try_to_connect(rest, Head(mk.todo), FALSE)
    /\ UNCHANGED <<pl, asked, toPing, reached, asserted, drops, calls>>

\* After the exclusive peers nothing else is done if there are any; otherwise a
\* seed is asked for its peers when the white list is empty, then the priority
\* peers are connected.
list_connected ==
    /\ mk.pc = "list" /\ mk.att = NoAttempt /\ mk.todo = << >>
    /\ CASE mk.then = "count" -> mk' = AtCount
         [] m_exclusive_peers # << >> -> mk' = Idle
         [] DOMAIN pl.white = {} /\ m_seed_nodes # << >> ->
              \E i \in DOMAIN m_seed_nodes : mk' = AtSeed(i)
         [] OTHER -> mk' = AtList(m_priority_peers, "count")
    /\ UNCHANGED <<pl, conns, asked, cur, toPing, reached, asserted, drops, calls>>

ask_seed ==
    /\ mk.pc = "seed" /\ mk.att = NoAttempt
    /\ \/ /\ cur < limit
          /\ try_to_connect(mk, m_seed_nodes[mk.index], TRUE)
       \/ /\ cur >= limit
          /\ try_to_connect(Failed, m_seed_nodes[mk.index], TRUE)
    /\ UNCHANGED <<pl, asked, toPing, reached, asserted, drops, calls>>

\* The shares of white and gray peers are fixed by the number of connections at
\* this moment.
count_connections ==
    /\ mk.pc = "count"
    /\ LET white == (limit * WhitePercent) \div 100
       IN  mk' = CASE get_outgoing_connections_count >= limit -> Idle
                   [] get_outgoing_connections_count < white -> AtStage(1, TRUE, white)
                   [] OTHER -> AtStage(1, FALSE, limit)
    /\ UNCHANGED <<pl, conns, asked, cur, toPing, reached, asserted, drops, calls>>

Book == IF mk.white THEN pl.white ELSE pl.gray

StageOver ==
    IF mk.stage = 1 THEN AtStage(2, ~mk.white, limit) ELSE Idle

\* The head of the loop of make_expected_connections_count, and of
\* make_new_connection_from_peerlist, which takes the size of the list once.
make_expected_connections_count ==
    /\ mk.pc = "stage" /\ mk.att = NoAttempt /\ mk.tried = {} /\ mk.count = 0
    /\ mk' = IF get_outgoing_connections_count < mk.expected /\ Book # << >>
               THEN [mk EXCEPT !.count = Cardinality(DOMAIN Book)] ELSE StageOver
    /\ UNCHANGED <<pl, conns, asked, cur, toPing, reached, asserted, drops, calls>>

\* One round of make_new_connection_from_peerlist with an index not tried yet.
\* The list may have changed since its size was taken.
make_new_connection_from_peerlist ==
    /\ mk.pc = "stage" /\ mk.att = NoAttempt /\ mk.count > 0
    /\ \E i \in (0..(mk.count - 1)) \ mk.tried :
         LET tried == [mk EXCEPT !.tried = @ \cup {i}]
         IN  IF i >= Cardinality(DOMAIN Book)
               THEN asserted' = TRUE /\ mk' = StageOver /\ UNCHANGED <<conns, cur>>
               ELSE /\ UNCHANGED asserted
                    /\ \E a \in IF mk.white THEN get_white_peer_by_index(pl, i)
                                            ELSE get_gray_peer_by_index(pl, i) :
                         IF is_peer_used(a, Book[a].id)
                           THEN mk' = tried /\ UNCHANGED <<conns, cur>>
                           ELSE try_to_connect(tried, a, FALSE)
    /\ UNCHANGED <<pl, asked, toPing, reached, drops, calls>>

\* The draws are used up: (max_random_index + 1) * 3 of them, some repeated.
draws_used_up ==
    /\ mk.pc = "stage" /\ mk.att = NoAttempt /\ mk.tried # {}
    /\ mk' = StageOver
    /\ UNCHANGED <<pl, conns, asked, cur, toPing, reached, asserted, drops, calls>>

\* m_net_server.connect: the connection is in the table before the handshake.
connected ==
    /\ Waiting /\ mk.att.slot = 0
    /\ \E s \in FreeSlot :
         /\ conns' = [conns EXCEPT ![s] = Conn("out", mk.att.adr, 0)]
         /\ mk' = [mk EXCEPT !.att.slot = s]
    /\ UNCHANGED <<pl, asked, cur, toPing, reached, asserted, drops, calls>>

connect_failed ==
    /\ Waiting /\ mk.att.slot = 0 /\ drops < MaxDrops
    /\ drops' = drops + 1
    /\ mk' = Failed
    /\ UNCHANGED <<pl, conns, asked, cur, toPing, reached, asserted, calls>>

Told(a) == LET as == SetToSeq(Knows[a])
           IN  [i \in DOMAIN as |-> [adr |-> as[i], id |-> IdOf[as[i]], seen |-> 1]]

\* The callback of do_handshake_with_peer: merge the peers told; unless only
\* they were wanted, set the peer id, put the address in the white list and
\* then notice a connection to ourselves.
handshake_answered(s) ==
    /\ Waiting /\ mk.att.slot = s /\ mk.att.result = "none" /\ IsOpen(s)
    /\ \E merged \in merge_peerlist(pl, Told(mk.att.adr)) :
         IF mk.att.take THEN pl' = merged /\ UNCHANGED <<conns, reached>>
         ELSE /\ \E w \in append_with_peer_white(merged, mk.att.adr, Entry(mk.att.adr)) : pl' = w
              /\ reached' = reached \cup {mk.att.adr}
              /\ conns' = [conns EXCEPT ![s].peer = IdOf[mk.att.adr]]
    /\ mk' = [mk EXCEPT !.att.result =
                IF ~mk.att.take /\ IdOf[mk.att.adr] = MyId THEN "failed" ELSE "ok"]
    /\ UNCHANGED <<asked, cur, toPing, asserted, drops, calls>>

\* config.close of a connection that is still in the table.
Close(s) == IF conns[s] = NoConn THEN conns ELSE [conns EXCEPT ![s].closing = TRUE]

\* The maker goes on: close what failed or was only asked for peers, keep the
\* rest and put its address in the white list.
handshake_done ==
    /\ Waiting /\ mk.att.result # "none"
    /\ CASE mk.att.result = "failed" -> mk' = Failed /\ conns' = Close(mk.att.slot) /\ UNCHANGED pl
         [] mk.att.take -> mk' = Succeeded /\ conns' = Close(mk.att.slot) /\ UNCHANGED pl
         [] OTHER -> /\ mk' = Succeeded
                     /\ \E w \in append_with_peer_white(pl, mk.att.adr, Entry(mk.att.adr)) : pl' = w
                     /\ UNCHANGED conns
    /\ UNCHANGED <<asked, cur, toPing, reached, asserted, drops, calls>>

-----------------------------------------------------------------------------
\* handle_handshake on a new incoming connection: keep the peer id, and ping
\* the port the caller says it listens on.
handle_handshake(c) ==
    /\ calls < MaxCalls
    /\ \E s \in FreeSlot : conns' = [conns EXCEPT ![s] = Conn("in", c.from, c.id)]
    /\ toPing' = IF c.id # MyId /\ is_ip_allowed(c.port) THEN toPing \cup {c} ELSE toPing
    /\ calls' = calls + 1
    /\ UNCHANGED <<pl, asked, cur, mk, reached, asserted, drops>>

\* try_ping: the connection back is open, or cannot be opened.
ping_connected(c) ==
    /\ c \in toPing
    /\ toPing' = toPing \ {c}
    /\ \/ \E s \in FreeSlot :
            conns' = [conns EXCEPT ![s] = [kind |-> "ping", adr |-> c.port, peer |-> 0,
                                           closing |-> FALSE, expected |-> c.id]]
       \/ UNCHANGED conns
    /\ UNCHANGED <<pl, asked, cur, mk, reached, asserted, drops, calls>>

\* The answer to a ping: the same id as in the handshake puts the address in the
\* white list and closes the connection, another one leaves it open.
ping_answered(s) ==
    /\ IsOpen(s) /\ conns[s].kind = "ping"
    /\ conns[s].expected = IdOf[conns[s].adr]
    /\ conns' = [conns EXCEPT ![s].closing = TRUE]
    /\ reached' = reached \cup {conns[s].adr}
    /\ \E w \in append_with_peer_white(pl, conns[s].adr, [id |-> conns[s].expected, seen |-> 1]) : pl' = w
    /\ UNCHANGED <<asked, cur, mk, toPing, asserted, drops, calls>>

\* The answer to do_peer_timed_sync, sent on every connection with a peer id.
timed_sync(s) ==
    /\ IsOpen(s) /\ conns[s].peer # 0
    /\ \E merged \in merge_peerlist(pl, Told(conns[s].adr)) :
         IF conns[s].kind = "in" THEN pl' = merged
         ELSE \E w \in append_with_peer_white(merged, conns[s].adr, [id |-> conns[s].peer, seen |-> 1]) :
                pl' = w
    /\ UNCHANGED <<conns, asked, cur, mk, toPing, reached, asserted, drops, calls>>

\* The object of a closed connection is destroyed and leaves the table.  A
\* handshake that waits on it fails (its callback gets LEVIN_ERROR_CONNECTION_*).
destroy(s) ==
    /\ conns[s] # NoConn /\ conns[s].closing
    /\ conns' = [conns EXCEPT ![s] = NoConn]
    /\ UNCHANGED <<pl, asked, cur, mk, toPing, reached, asserted, drops, calls>>

disconnect(s) ==
    /\ IsOpen(s) /\ drops < MaxDrops
    /\ drops' = drops + 1
    /\ conns' = [conns EXCEPT ![s].closing = TRUE]
    /\ UNCHANGED <<pl, asked, cur, mk, toPing, reached, asserted, calls>>

\* The invoke of the handshake is cancelled with its connection.
handshake_cancelled ==
    /\ Waiting /\ mk.att.slot # 0 /\ mk.att.result = "none"
    /\ ~IsOpen(mk.att.slot)
    /\ mk' = [mk EXCEPT !.att.result = "failed"]
    /\ UNCHANGED <<pl, conns, asked, cur, toPing, reached, asserted, drops, calls>>

-----------------------------------------------------------------------------
\* The thread started by run(): once a second.
sample ==
    /\ cur' = get_outgoing_connections_count
    /\ UNCHANGED <<pl, conns, asked, mk, toPing, reached, asserted, drops, calls>>

\* The out_peers command: on_out_peers has no effect, its body is commented out.
on_out_peers(n) ==
    /\ n < asked
    /\ asked' = n
    /\ UNCHANGED <<pl, conns, cur, mk, toPing, reached, asserted, drops, calls>>

Maker ==
    \/ make_connections \/ connect_to_peerlist \/ list_connected \/ ask_seed
    \/ count_connections \/ make_expected_connections_count
    \/ make_new_connection_from_peerlist \/ draws_used_up
    \/ handshake_done \/ handshake_cancelled \/ connected
    \/ \E s \in Slots : handshake_answered(s)

Next ==
    \/ Maker \/ connect_failed \/ sample
    \/ \E c \in Callers : handle_handshake(c) \/ ping_connected(c)
    \/ \E s \in Slots : ping_answered(s) \/ timed_sync(s) \/ destroy(s) \/ disconnect(s)
    \/ \E n \in Limits : on_out_peers(n)

Spec == Init /\ [][Next]_vars

\* The idle worker is called every second and its waits end (timeouts of connect
\* and invoke); the sampler thread runs; closed connections are destroyed.
LiveSpec ==
    /\ Spec
    /\ WF_vars(Maker)
    /\ WF_vars(sample)
    /\ \A s \in Slots : WF_vars(destroy(s))
-----------------------------------------------------------------------------
TypeOK ==
    /\ DOMAIN pl.white \subseteq Addrs /\ DOMAIN pl.gray \subseteq Addrs
    /\ \A s \in Live : conns[s].kind \in {"in", "out", "ping"} /\ conns[s].adr \in Addrs
    /\ asked \in Limits \cup {limit} /\ cur \in 0..Cardinality(Slots)
    /\ mk.pc \in {"idle", "list", "seed", "count", "stage"}
    /\ Waiting => mk.att.slot \in Slots \cup {0}
    /\ mk.pc = "seed" => mk.index \in DOMAIN m_seed_nodes
    /\ toPing \subseteq Callers
    /\ asserted \in BOOLEAN

\* The white list holds only peers that answered on that very address, in a
\* handshake of ours or a ping ("called only(!) if success pinged"), and the
\* --add-peer ones: never the port an incoming connection happens to come from,
\* and never an address a caller merely claims.
WhiteAnswered == DOMAIN pl.white \subseteq reached \cup CmdPeers

\* Connections that are kept for good, once the handshake is over.
Kept == {s \in Outs : /\ conns[s].kind = "out" /\ IsOpen(s)
                      /\ ~(Waiting /\ mk.att.slot = s)}

\* "dont make connections to ourself": no connection to this node itself is kept.
NoSelfConnection == \A s \in Kept : conns[s].peer # MyId

\* The maker keeps one connection to an address, although lists, connections and
\* peer ids change while it waits.
OneConnectionPerAddress ==
    \A s, t \in Kept : s # t => conns[s].adr # conns[t].adr

\* The peers of the lists never take the outgoing connections above the limit
\* although the gate itself uses a count that is up to a second old.
OutPeersLimited == Cardinality(Kept) <= limit

\* The node_server never waits for ever: the maker comes back to its idle state.
MakerReturns == []<>(mk = Idle)

=============================================================================
