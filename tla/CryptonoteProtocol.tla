------------------------- MODULE CryptonoteProtocol -------------------------
(***************************************************************************)
(* Chain synchronisation between a node and its peers: the handlers of     *)
(* t_cryptonote_protocol_handler (src/src/cryptonote_protocol/              *)
(* cryptonote_protocol_handler.inl), one connection context per connection, *)
(* and the answers of the peers, which run the same code.                   *)
(*                                                                         *)
(* The core behind the handlers is abstracted to the set of blocks it knows *)
(* (have_block: main chain, alternative chains, invalid blocks) and the tip *)
(* of its main chain; a new tip is taken when it carries more work.  The    *)
(* peers are honest: their blocks are valid, share our genesis and carry    *)
(* their transactions, so the failures of parsing and verification do not   *)
(* arise.  A connection delivers in order and without loss until it is      *)
(* closed, and what is in flight is then lost.                              *)
(***************************************************************************)
EXTENDS Integers, Sequences, FiniteSets, Functions

CONSTANTS
    Blocks,       \* the block ids of the run
    Genesis,      \* the common first block
    Parent,       \* Parent[b]: prev_id of b
    Difficulty,   \* Difficulty[b]: the work of b
    Peers,        \* the remote nodes
    Conns,        \* connection slots of the local node
    PeerOf,       \* PeerOf[c]: the node at the other end of slot c
    LocalTip,     \* main chain tip the local node starts with
    PeerTips,     \* PeerTips[p]: tips peer p may adopt; it starts with any of them
    OnlyLonger,   \* peers switch only to chains that are also longer
    IdsCount,     \* BLOCKS_IDS_SYNCHRONIZING_DEFAULT_COUNT (10000)
    BlocksCount,  \* BLOCKS_SYNCHRONIZING_DEFAULT_COUNT (200)
    RecentCount,  \* ids get_short_chain_history lists one by one (10)
    MaxDrops      \* bound: network failures of the run

VARIABLES
    tip,          \* tip of our main chain
    known,        \* blocks have_block answers true for
    peerTip,      \* peerTip[p]: tip of the main chain of peer p
    conn,         \* conn[c]: cryptonote_connection_context, or Closed
    toPeer,       \* toPeer[c]: requests in flight
    fromPeer,     \* fromPeer[c]: answers and notifications in flight
    job,          \* job[c]: blocks the running handler still has to add
    running,      \* running[c]: handle_response_get_objects is adding blocks
    m_synchronized,
    finalFailed,  \* the final condition of request_missing_objects was false
    drops         \* network failures so far

vars == <<tip, known, peerTip, conn, toPeer, fromPeer, job, running,
          m_synchronized, finalFailed, drops>>

core == <<tip, known>>

-----------------------------------------------------------------------------
(* Chains.                                                                  *)

Chain[b \in Blocks] ==
    IF b = Genesis THEN <<Genesis>> ELSE Append(Chain[Parent[b]], b)

Weight[b \in Blocks] ==
    IF b = Genesis THEN Difficulty[b] ELSE Weight[Parent[b]] + Difficulty[b]

\* A block contains the hash of its parent, so following prev_id ends at the
\* genesis block and both functions have a value.
ASSUME TreeAssumption ==
    /\ Genesis \in Blocks /\ Parent \in [Blocks -> Blocks]
    /\ \A b \in Blocks : Chain[b] \in Seq(Blocks)
    /\ Chain[Genesis] = <<Genesis>>
    /\ \A b \in Blocks \ {Genesis} : Chain[b] = Append(Chain[Parent[b]], b)

ASSUME PeersAssumption ==
    /\ LocalTip \in Blocks /\ PeerTips \in [Peers -> SUBSET Blocks] /\ PeerOf \in [Conns -> Peers]
    /\ IdsCount \in Nat \ {0} /\ OnlyLonger \in BOOLEAN

Height(b) == Len(Chain[b])

\* The loops that copy from a list the ids that are in S.
Only(ids, S) ==
    LET upTo[i \in 0 .. Len(ids)] ==
            IF i = 0 THEN <<>>
            ELSE IF ids[i] \in S THEN Append(upTo[i - 1], ids[i]) ELSE upTo[i - 1]
    IN  upTo[Len(ids)]

\* Distance from the end of the i-th id of the short history: one by one for
\* RecentCount ids, then in steps of 2, 4, 8, ...
BackOffset(i) ==
    IF i <= RecentCount THEN i + 1 ELSE RecentCount + 2 ^ (i - RecentCount + 1) - 1

get_short_chain_history(b) ==
    LET c == Chain[b]
        n == Cardinality({i \in 0 .. Len(c) : BackOffset(i) < Len(c)})
    IN  [i \in 1 .. n |-> c[Len(c) - BackOffset(i - 1) + 1]] \o <<Genesis>>

\* The answer to NOTIFY_REQUEST_CHAIN: the ids from the first id of the request
\* that is on the main chain of b, that id included.
find_blockchain_supplement(ids, b) ==
    LET c == Chain[b]
        split == CHOOSE i \in 1 .. Len(ids) :
                    /\ ids[i] \in Range(c)
                    /\ \A j \in 1 .. i - 1 : ids[j] \notin Range(c)
        start == CHOOSE h \in 1 .. Len(c) : c[h] = ids[split]
        last == IF start + IdsCount - 1 < Len(c) THEN start + IdsCount - 1 ELSE Len(c)
    IN  [type |-> "chain_entry", ids |-> SubSeq(c, start, last),
         start |-> start - 1, total |-> Len(c)]

\* Variant: the blocks are packed last first.
handle_get_objects_reversed(ids, b) ==
    LET found == Only(ids, Range(Chain[b]))
    IN  [type |-> "objects", height |-> Height(b),
         blocks |-> [i \in DOMAIN found |-> found[Len(found) - i + 1]]]

\* The answer to NOTIFY_REQUEST_GET_OBJECTS: only main chain blocks are found.
handle_get_objects(ids, b) ==
    [type |-> "objects", blocks |-> Only(ids, Range(Chain[b])), height |-> Height(b)]

SyncData(b, initial) ==
    [type |-> "sync_data", top |-> b, height |-> Height(b), initial |-> initial]

-----------------------------------------------------------------------------
(* Connection contexts.                                                     *)

Closed == [open |-> FALSE]

NewContext ==
    [open |-> TRUE, state |-> "befor_handshake", needed |-> <<>>, requested |-> {},
     remote |-> 0, last |-> 0, callbacks |-> 0]

IsOpen(c) == conn[c].open

\* drop_connection: the context goes, with everything in flight.
Drop(c) ==
    /\ conn' = [conn EXCEPT ![c] = Closed]
    /\ toPeer' = [toPeer EXCEPT ![c] = <<>>]
    /\ fromPeer' = [fromPeer EXCEPT ![c] = <<>>]

\* The handler read the head of fromPeer[c], leaves context x and posts msgs.
Reply(c, x, msgs) ==
    /\ conn' = [conn EXCEPT ![c] = x]
    /\ toPeer' = [toPeer EXCEPT ![c] = @ \o msgs]
    /\ fromPeer' = [fromPeer EXCEPT ![c] = Tail(@)]

ChainRequest(b) ==
    [type |-> "request_chain", ids |-> get_short_chain_history(b)]

\* handle_incoming_block on the abstract core.  A block whose parent is unknown
\* is orphaned; a known one changes nothing.
IsOrphan(b) == b \notin known /\ Parent[b] \notin known

AddBlock(b) ==
    IF b \in known \/ IsOrphan(b)
    THEN UNCHANGED core
    ELSE /\ known' = known \cup {b}
         /\ tip' = IF Weight[b] > Weight[tip] THEN b ELSE tip

\* With check_having_blocks, blocks that have arrived meanwhile are passed over.
Wanted(check) == IF check THEN Blocks \ known ELSE Blocks

\* How many ids of the needed list the loop takes off: up to the request limit.
WantedPrefix(needed, check) ==
    LET count(n) == Cardinality({i \in 1 .. n : needed[i] \in Wanted(check)})
        over(n) == n = Len(needed) \/ count(n) >= BlocksCount
    IN  CHOOSE n \in 0 .. Len(needed) : over(n) /\ \A m \in 0 .. n - 1 : ~over(m)

\* request_missing_objects: the context it leaves and what it posts.
request_missing_objects(x, check) ==
    IF x.needed # <<>>
    THEN LET n == WantedPrefix(x.needed, check)
             req == Only(SubSeq(x.needed, 1, n), Wanted(check))
         IN  [ctx |-> [x EXCEPT !.needed = SubSeq(@, n + 1, Len(@)),
                                !.requested = @ \cup Range(req)],
              msgs |-> <<[type |-> "request_objects", ids |-> req]>>, done |-> FALSE]
    ELSE IF x.last < x.remote - 1
    THEN [ctx |-> x, msgs |-> <<ChainRequest(tip)>>, done |-> FALSE]
    ELSE IF x.last = x.remote - 1 /\ x.requested = {}
    THEN [ctx |-> [x EXCEPT !.state = "normal"], msgs |-> <<>>, done |-> TRUE]
    ELSE [ctx |-> x, msgs |-> <<>>, done |-> FALSE]

\* CHECK_AND_ASSERT_MES at the end of request_missing_objects.
FinalCondition(x) ==
    x.needed = <<>> /\ x.last >= x.remote - 1
        => x.last = x.remote - 1 /\ x.requested = {}

-----------------------------------------------------------------------------
(* Establishing and losing connections (the node_server side is NetNode).   *)

\* A connection is made; the handshake carries the sync data of the peer.
Connect(c) ==
    /\ ~IsOpen(c)
    /\ ~running[c]
    /\ conn' = [conn EXCEPT ![c] = NewContext]
    /\ fromPeer' = [fromPeer EXCEPT ![c] = <<SyncData(peerTip[PeerOf[c]], TRUE)>>]
    /\ UNCHANGED <<core, peerTip, toPeer, job, running, m_synchronized, finalFailed, drops>>

\* The network fails or the peer closes.  A handler that is running goes on.
Disconnect(c) ==
    /\ IsOpen(c)
    /\ drops < MaxDrops
    /\ drops' = drops + 1
    /\ Drop(c)
    /\ UNCHANGED <<core, peerTip, job, running, m_synchronized, finalFailed>>

-----------------------------------------------------------------------------
(* The peers.                                                               *)

\* A peer adopts a chain with more work and may announce its new tip.
PeerAdvance(p) ==
    \E b \in PeerTips[p], announce \in BOOLEAN :
        /\ Weight[b] > Weight[peerTip[p]]
        /\ OnlyLonger => Height(b) > Height(peerTip[p])
        /\ peerTip' = [peerTip EXCEPT ![p] = b]
        /\ fromPeer' = [c \in Conns |->
              IF announce /\ PeerOf[c] = p /\ IsOpen(c)
              THEN Append(fromPeer[c], [type |-> "new_block", block |-> b])
              ELSE fromPeer[c]]
        /\ UNCHANGED <<core, conn, toPeer, job, running, m_synchronized, finalFailed, drops>>

\* The peer's half of COMMAND_TIMED_SYNC; at most one is in flight.
TimedSync(c) ==
    /\ IsOpen(c)
    /\ \A i \in 1 .. Len(fromPeer[c]) : fromPeer[c][i].type # "sync_data"
    /\ fromPeer' = [fromPeer EXCEPT ![c] = Append(@, SyncData(peerTip[PeerOf[c]], FALSE))]
    /\ UNCHANGED <<core, peerTip, conn, toPeer, job, running, m_synchronized, finalFailed, drops>>

PeerAnswers(c, type, Answer(_, _)) ==
    /\ toPeer[c] # <<>>
    /\ Head(toPeer[c]).type = type
    /\ toPeer' = [toPeer EXCEPT ![c] = Tail(@)]
    /\ fromPeer' = [fromPeer EXCEPT
          ![c] = Append(@, Answer(Head(toPeer[c]).ids, peerTip[PeerOf[c]]))]
    /\ UNCHANGED <<core, peerTip, conn, job, running, m_synchronized, finalFailed, drops>>

handle_request_chain(c) == PeerAnswers(c, "request_chain", find_blockchain_supplement)

handle_request_get_objects(c) == PeerAnswers(c, "request_objects", handle_get_objects)

-----------------------------------------------------------------------------
(* The local handlers.  The threads of the server run the handlers of one    *)
(* connection one after the other, those of different connections at once.  *)

Receives(c, type) ==
    /\ IsOpen(c)
    /\ ~running[c]
    /\ fromPeer[c] # <<>>
    /\ Head(fromPeer[c]).type = type

\* Variant: a synchronising connection starts over on every sync.
process_payload_sync_data_again(c) ==
    /\ Receives(c, "sync_data")
    /\ LET m == Head(fromPeer[c])
       IN  IF m.top \in known
           THEN Reply(c, conn[c], <<>>)
           ELSE Reply(c, [conn[c] EXCEPT !.state = "synchronizing", !.remote = m.height,
                                         !.callbacks = @ + 1], <<>>)
    /\ UNCHANGED <<core, peerTip, job, running, m_synchronized, finalFailed, drops>>

\* Variant: an idle connection is left alone.
process_payload_sync_data_idle(c) ==
    /\ Receives(c, "sync_data")
    /\ LET m == Head(fromPeer[c])
           x == conn[c]
       IN  IF x.state \in {"synchronizing", "idle"} \/ (x.state = "befor_handshake" /\ ~m.initial)
           THEN /\ Reply(c, x, <<>>)
                /\ UNCHANGED m_synchronized
           ELSE IF m.top \in known
           THEN /\ Reply(c, [x EXCEPT !.state = "normal"], <<>>)
                /\ m_synchronized' = (m_synchronized \/ m.initial)
           ELSE /\ Reply(c, [x EXCEPT !.state = "synchronizing", !.remote = m.height,
                                      !.callbacks = @ + 1], <<>>)
                /\ UNCHANGED m_synchronized
    /\ UNCHANGED <<core, peerTip, job, running, finalFailed, drops>>

process_payload_sync_data(c) ==
    /\ Receives(c, "sync_data")
    /\ LET m == Head(fromPeer[c])
           x == conn[c]
       IN  IF x.state = "synchronizing" \/ (x.state = "befor_handshake" /\ ~m.initial)
           THEN /\ Reply(c, x, <<>>)
                /\ UNCHANGED m_synchronized
           ELSE IF m.top \in known
           THEN /\ Reply(c, [x EXCEPT !.state = "normal"], <<>>)
                /\ m_synchronized' = (m_synchronized \/ m.initial)
           ELSE /\ Reply(c, [x EXCEPT !.state = "synchronizing", !.remote = m.height,
                                      !.callbacks = @ + 1], <<>>)
                /\ UNCHANGED m_synchronized
    /\ UNCHANGED <<core, peerTip, job, running, finalFailed, drops>>

on_callback(c) ==
    /\ IsOpen(c)
    /\ ~running[c]
    /\ conn[c].callbacks > 0
    /\ conn' = [conn EXCEPT ![c].callbacks = @ - 1]
    /\ toPeer' = IF conn[c].state = "synchronizing"
                 THEN [toPeer EXCEPT ![c] = Append(@, ChainRequest(tip))]
                 ELSE toPeer
    /\ UNCHANGED <<core, peerTip, fromPeer, job, running, m_synchronized, finalFailed, drops>>

handle_notify_new_block(c) ==
    /\ Receives(c, "new_block")
    /\ LET b == Head(fromPeer[c]).block
           x == conn[c]
       IN  IF x.state # "normal"
           THEN Reply(c, x, <<>>) /\ UNCHANGED core
           ELSE /\ AddBlock(b)
                /\ IF IsOrphan(b)
                   THEN Reply(c, [x EXCEPT !.state = "synchronizing"], <<ChainRequest(tip)>>)
                   ELSE Reply(c, x, <<>>)
    /\ UNCHANGED <<peerTip, job, running, m_synchronized, finalFailed, drops>>

handle_response_chain_entry(c) ==
    /\ Receives(c, "chain_entry")
    /\ LET m == Head(fromPeer[c])
           last == m.start + Len(m.ids) - 1
       IN  IF m.ids = <<>> \/ m.ids[1] \notin known \/ last > m.total
           THEN Drop(c) /\ UNCHANGED <<m_synchronized, finalFailed>>
           ELSE \E x \in {[conn[c] EXCEPT !.remote = m.total, !.last = last,
                               !.needed = @ \o Only(m.ids, Blocks \ known)]} :
                  LET r == request_missing_objects(x, FALSE)
                  IN  /\ Reply(c, r.ctx, r.msgs)
                      /\ m_synchronized' = (m_synchronized \/ r.done)
                      /\ finalFailed' = (finalFailed \/ ~FinalCondition(x))
    /\ UNCHANGED <<core, peerTip, job, running, drops>>

\* handle_response_get_objects up to the loop that adds the blocks.
handle_response_get_objects(c) ==
    /\ Receives(c, "objects")
    /\ LET m == Head(fromPeer[c])
           x == [conn[c] EXCEPT !.remote = m.height]
           suspend == Len(m.blocks) >= 2 /\ m.blocks[1] \in x.requested /\ m.blocks[2] \in known
       IN  CASE x.last > m.height -> Drop(c) /\ UNCHANGED <<job, running>>
             [] x.last <= m.height /\ suspend ->
                   /\ Reply(c, [x EXCEPT !.state = "idle", !.needed = <<>>, !.requested = {}], <<>>)
                   /\ UNCHANGED <<job, running>>
             [] x.last <= m.height /\ ~suspend /\ Range(m.blocks) # x.requested ->
                   Drop(c) /\ UNCHANGED <<job, running>>
             [] OTHER ->
                   /\ Reply(c, [x EXCEPT !.requested = {}], <<>>)
                   /\ job' = [job EXCEPT ![c] = m.blocks]
                   /\ running' = [running EXCEPT ![c] = TRUE]
    /\ UNCHANGED <<core, peerTip, m_synchronized, finalFailed, drops>>

\* One block of the loop; an orphan drops the connection.
AddNextBlock(c) ==
    /\ running[c]
    /\ job[c] # <<>>
    /\ AddBlock(Head(job[c]))
    /\ IF IsOrphan(Head(job[c]))
       THEN /\ Drop(c)
            /\ job' = [job EXCEPT ![c] = <<>>]
            /\ running' = [running EXCEPT ![c] = FALSE]
       ELSE /\ job' = [job EXCEPT ![c] = Tail(@)]
            /\ UNCHANGED <<conn, toPeer, fromPeer, running>>
    /\ UNCHANGED <<peerTip, m_synchronized, finalFailed, drops>>

\* The end of handle_response_get_objects: request_missing_objects.
AllBlocksAdded(c) ==
    /\ running[c]
    /\ job[c] = <<>>
    /\ running' = [running EXCEPT ![c] = FALSE]
    /\ IF IsOpen(c)
       THEN LET r == request_missing_objects(conn[c], TRUE)
            IN  /\ conn' = [conn EXCEPT ![c] = r.ctx]
                /\ toPeer' = [toPeer EXCEPT ![c] = @ \o r.msgs]
                /\ m_synchronized' = (m_synchronized \/ r.done)
                /\ finalFailed' = (finalFailed \/ ~FinalCondition(conn[c]))
       ELSE UNCHANGED <<conn, toPeer, m_synchronized, finalFailed>>
    /\ UNCHANGED <<core, peerTip, fromPeer, job, drops>>

-----------------------------------------------------------------------------
Init ==
    /\ tip = LocalTip
    /\ known = Range(Chain[LocalTip])
    /\ peerTip \in [Peers -> Blocks]
    /\ \A p \in Peers : peerTip[p] \in PeerTips[p]
    /\ conn = [c \in Conns |-> Closed]
    /\ toPeer = [c \in Conns |-> <<>>]
    /\ fromPeer = [c \in Conns |-> <<>>]
    /\ job = [c \in Conns |-> <<>>]
    /\ running = [c \in Conns |-> FALSE]
    /\ m_synchronized = FALSE
    /\ finalFailed = FALSE
    /\ drops = 0

Local(c) ==
    \/ process_payload_sync_data(c)
    \/ on_callback(c)
    \/ handle_notify_new_block(c)
    \/ handle_response_chain_entry(c)
    \/ handle_response_get_objects(c)
    \/ AddNextBlock(c)
    \/ AllBlocksAdded(c)

Remote(c) == handle_request_chain(c) \/ handle_request_get_objects(c)

Next ==
    \/ \E p \in Peers : PeerAdvance(p)
    \/ \E c \in Conns : Connect(c) \/ Disconnect(c) \/ TimedSync(c) \/ Local(c) \/ Remote(c)

Spec == Init /\ [][Next]_vars

\* The server threads run every handler that has work, peers answer, the
\* connection maker reconnects and every connection is synced each minute.
Fairness ==
    \A c \in Conns :
        /\ WF_vars(Local(c))
        /\ WF_vars(on_callback(c))
        /\ WF_vars(Remote(c))
        /\ WF_vars(Connect(c))
        /\ WF_vars(TimedSync(c))

LiveSpec == Spec /\ Fairness

-----------------------------------------------------------------------------
(* Properties.                                                              *)

\* What the synchronisation of c is waiting for.
InFlight(c) ==
    (IF IsOpen(c) THEN conn[c].callbacks ELSE 0)
      + Len(toPeer[c])
      + Cardinality({i \in 1 .. Len(fromPeer[c]) :
                        fromPeer[c][i].type \in {"chain_entry", "objects"}})
      + (IF running[c] /\ IsOpen(c) THEN 1 ELSE 0)

\* A synchronising connection waits for exactly one thing (a callback, a request, an
\* answer or a running handler) and any other connection for none: no handler loses the
\* thread of the synchronisation, and none starts it twice.
OneInFlight ==
    \A c \in Conns :
        IF IsOpen(c) /\ conn[c].state = "synchronizing"
        THEN InFlight(c) = 1 ELSE InFlight(c) = 0

\* m_requested_objects of a connection is what its outstanding request asks for, so the
\* test "returned not all requested objects" compares with the right request.
RequestsAccounted ==
    \A c \in Conns : IsOpen(c) /\ conn[c].requested # {} =>
        \/ \E i \in 1 .. Len(toPeer[c]) :
              /\ toPeer[c][i].type = "request_objects"
              /\ Range(toPeer[c][i].ids) = conn[c].requested
        \/ \E i \in 1 .. Len(fromPeer[c]) :
              /\ fromPeer[c][i].type = "objects"
              /\ Range(fromPeer[c][i].blocks) \subseteq conn[c].requested

\* With honest peers the sync phase never meets an orphan, whatever the other connections
\* added or the peer reorganised meanwhile: the branch that drops the connection for it
\* is not taken.
NoOrphanInSync ==
    \A c \in Conns : job[c] # <<>> => ~IsOrphan(Head(job[c]))

\* The bookkeeping of a download: each connection waits for one thing, remembers what it
\* asked for, and the final condition that request_missing_objects asserts holds whatever
\* the answers of the two peers were.
DownloadAccounted == OneInFlight /\ RequestsAccounted /\ ~finalFailed

\* Once the peers keep their chains, the node ends with a chain of at least their work,
\* and it declares itself synchronized, which starts the miner.
SyncCompletes ==
    /\ <>[](\A c \in Conns : Weight[tip] >= Weight[peerTip[PeerOf[c]]])
    /\ <>m_synchronized

-----------------------------------------------------------------------------
(* The instance that is model-checked: a tree of seven blocks, two peers, the *)
(* local node on a fork of one block.                                         *)
TreeBlocks == {"g", "a1", "a2", "a3", "d2", "d3", "b1"}
TreeParent ==
    [b \in TreeBlocks |-> CASE b = "a2" -> "a1" [] b = "a3" -> "a2" [] b = "d2" -> "a1"
                            [] b = "d3" -> "d2" [] OTHER -> "g"]
TreeDifficulty == [b \in TreeBlocks |-> 1]

\* One peer may reorganise from a2 to d3, the other is on its way to a3.
TreePeerOf == [c \in {"k1", "k2"} |-> IF c = "k1" THEN "p1" ELSE "p2"]
TreePeerTips == [p \in {"p1", "p2"} |-> IF p = "p1" THEN {"a2", "d3"} ELSE {"a2", "a3"}]
=============================================================================
