------------------------------ MODULE MCPeers -------------------------------
(***************************************************************************)
(* The p2p layer: the exchange of address books between two nodes whose    *)
(* clocks disagree (PeerExchange) and, beside it, one node with its        *)
(* connections (NetNode): with a seed node and callers, and with priority  *)
(* peers, one of which is itself.                                          *)
(***************************************************************************)
EXTENDS PeerExchange, TLC

CONSTANTS
    n1, n2, a1, a2, a3, lo,  \* two nodes that reach different peers; lo is a loopback address
    p1, p2, me, e1           \* two peers, the node itself, a port behind a router

MCSkew == (n1 :> 0) @@ (n2 :> 1)
MCCmdPeers == (n1 :> {a2, lo}) @@ (n2 :> {})
MCReach == (n1 :> {a1, a2, lo}) @@ (n2 :> {a1, a3})
MCIdOf == (a1 :> 1) @@ (a2 :> 2) @@ (a3 :> 3) @@ (lo :> 4)

VARIABLES part, pl, conns, asked, cur, mk, toPing, reached, asserted, drops, calls

node == <<pl, conns, asked, cur, mk, toPing, reached, asserted, drops, calls>>
vars == <<part, exchange, node>>

NodeIds == (p1 :> 1) @@ (p2 :> 2) @@ (me :> 9) @@ (e1 :> 3)
NodesKnow == (p1 :> {p2, me}) @@ (p2 :> {p1}) @@ (me :> {p1}) @@ (e1 :> {p2})

\* One of the peers also connects to us, and so does a node behind the same
\* router whose port leads to that peer.
NodeCallers == {[id |-> 1, port |-> p1, from |-> e1], [id |-> 3, port |-> p1, from |-> e1]}

Seeded == INSTANCE NetNode WITH
    Addrs <- {p1, p2, me, e1}, Loopback <- {}, WhiteLimit <- 10, GrayLimit <- 10,
    HandshakeDepth <- 1, IdOf <- NodeIds, MyId <- 9, Knows <- NodesKnow,
    Callers <- NodeCallers, m_seed_nodes <- <<p1>>, m_priority_peers <- <<>>,
    m_exclusive_peers <- <<>>, CmdPeers <- {}, InitialGray <- {}, limit <- 1, Limits <- {0},
    WhitePercent <- 70, Slots <- 1..3, MaxDrops <- 1, MaxCalls <- 1
Priority == INSTANCE NetNode WITH
    Addrs <- {p1, p2, me, e1}, Loopback <- {}, WhiteLimit <- 10, GrayLimit <- 10,
    HandshakeDepth <- 1, IdOf <- NodeIds, MyId <- 9, Knows <- NodesKnow,
    Callers <- NodeCallers, m_seed_nodes <- <<p1>>, m_priority_peers <- <<p1, me, p2>>,
    m_exclusive_peers <- <<>>, CmdPeers <- {}, InitialGray <- {}, limit <- 2, Limits <- {2},
    WhitePercent <- 70, Slots <- 1..3, MaxDrops <- 2, MaxCalls <- 0

Init ==
    /\ part \in {"exchange", "seeded", "priority"}
    /\ ExchangeInit
    /\ IF part = "priority" THEN Priority!Init ELSE Seeded!Init

Exchange == part = "exchange" /\ ExchangeNext /\ UNCHANGED <<part, node>>
SeededNode == part = "seeded" /\ Seeded!Next /\ UNCHANGED <<part, exchange>>
PriorityNode == part = "priority" /\ Priority!Next /\ UNCHANGED <<part, exchange>>

Next == Exchange \/ SeededNode \/ PriorityNode

\* The idle worker is called every second and its waits end (timeouts of connect
\* and invoke); the sampler thread runs; closed connections are destroyed.
Spec ==
    /\ Init /\ [][Next]_vars
    /\ WF_vars(part = "seeded" /\ Seeded!Maker /\ UNCHANGED <<part, exchange>>)
    /\ WF_vars(part = "seeded" /\ Seeded!sample /\ UNCHANGED <<part, exchange>>)
    /\ WF_vars(part = "seeded" /\ (\E s \in 1..3 : Seeded!destroy(s)) /\ UNCHANGED <<part, exchange>>)

\* The connections kept stay within the limit although the gate compares with a
\* count that is up to a second old; with priority peers there is one connection
\* per address and none to the node itself, although lists, connections and peer
\* ids change while the maker waits for a handshake.  And the white list holds
\* only peers that answered on that very address, never the port an incoming
\* connection came from or an address that a caller claims.
ConnectionsKept ==
    /\ Seeded!WhiteAnswered
    /\ part = "seeded" => Seeded!OutPeersLimited
    /\ part = "priority" => Priority!OneConnectionPerAddress /\ Priority!NoSelfConnection

\* The maker never waits for ever: it comes back to its idle state.
MakerReturns == []<>(part = "seeded" => mk.pc = "idle")
=============================================================================
