------------------------------- MODULE Miner -------------------------------
(***************************************************************************)
(* The miner of the daemon (cryptonote_core/miner.cpp) and the handlers of *)
(* the core it calls and is called by: worker threads that search a nonce  *)
(* for the current block template, the operator who starts and stops       *)
(* them, the p2p thread that brings new blocks, and the idle timer.        *)
(*                                                                         *)
(* Every access to a shared variable that no lock joins to the next one is *)
(* a step of its own.  Hashing is a choice: a hash either meets the        *)
(* difficulty or not.  A block is a number, parent gives the tree, and     *)
(* tail is the last block of the main chain.                               *)
(***************************************************************************)
EXTENDS Integers, FiniteSets, Sequences, TLC

CONSTANTS Workers,        \* threads the miner can create
          Addresses,      \* addresses start() may be given
          Nobody,         \* no holder of m_threads_lock, no address yet
          MaxBlocks,      \* bound: blocks ever added to the tree
          TemplateWidth,  \* m_template_no is a counter modulo TemplateWidth
          Starters,       \* the threads that call start(): "rpc", "p2p"
          BlocksMayFail,  \* a found block can fail verification
          TemplatesMayFail \* get_block_template() can fail

ASSUME MinerAssumption ==
  /\ MaxBlocks \in Nat
  /\ TemplateWidth \in Nat \ {0, 1}
  /\ Starters \subseteq {"rpc", "p2p"}
  /\ {BlocksMayFail, TemplatesMayFail} \subseteq BOOLEAN
  /\ IsFiniteSet(Workers) /\ Workers \cap {"rpc", "p2p", "idle"} = {}
  /\ Nobody \notin Workers \cup {"rpc", "p2p", "idle"}

VARIABLES
  m_stop, m_threads, m_threads_lock, m_threads_total, m_mine_address,
  m_template, m_template_no, m_pausers_count, current_extra_message_index,
  parent,    \* the tree of blocks: parent of each block added so far
  tail,      \* last block of the main chain
  carried,   \* extra messages carried by own blocks that joined the main chain
  pc,        \* where every thread is
  ret,       \* where request_block_template() returns to
  loc,       \* local variables: the block under construction or being mined
  accepted   \* the address of the last start() that returned true

miner_vars == <<m_stop, m_threads, m_threads_lock, m_threads_total, m_mine_address>>
template_vars == <<m_template, m_template_no>>
chain_vars == <<parent, tail, carried>>
minerVars == <<miner_vars, template_vars, m_pausers_count, current_extra_message_index,
          chain_vars, pc, ret, loc, accepted>>

Actors == {"rpc", "p2p", "idle"} \cup Workers

Blocks == 0 .. MaxBlocks
Known == DOMAIN parent
NextBlock == Cardinality(Known)

(* The blocks from the genesis block to b.                                 *)
PathTo(b) ==
  LET Path[x \in Known] == IF x = 0 THEN {0} ELSE {x} \cup Path[parent[x]] IN Path[b]

IndexWidth == MaxBlocks + 2   \* the index is a counter modulo IndexWidth
Messages == 0 .. IndexWidth - 1
Template == [prev: Blocks, msg: Messages, adr: Addresses \cup {Nobody}]
NoTemplate == [prev |-> 0, msg |-> 0, adr |-> Nobody]
Local == [b: Template, ver: 0 .. TemplateWidth - 1, bl: Template, idx: Messages,
          own: Blocks, res: {"none", "main", "alt", "failed"}, missed: BOOLEAN,
          adr: Addresses \cup {Nobody}, threads_count: 0 .. Cardinality(Workers)]
NoLocal == [b |-> NoTemplate, ver |-> 0, bl |-> NoTemplate, idx |-> 0, own |-> 0,
            res |-> "none", missed |-> FALSE, adr |-> Nobody, threads_count |-> 0]

is_mining == ~m_stop

Goto(a, l) == pc' = [pc EXCEPT ![a] = l]

(* The locals of a finished call mean nothing any more.                    *)
Return(a) == loc' = [loc EXCEPT ![a] = [NoLocal EXCEPT !.b = loc[a].b, !.ver = loc[a].ver]]

MinerInit ==
  /\ m_stop = TRUE /\ m_threads = {} /\ m_threads_lock = Nobody
  /\ m_threads_total = 0 /\ m_mine_address = Nobody
  /\ m_template = NoTemplate /\ m_template_no = 0
  /\ m_pausers_count = 0 /\ current_extra_message_index = 0
  /\ parent = (0 :> 0) /\ tail = 0 /\ carried = {}
  /\ pc = [a \in Actors |-> "idle"]
  /\ ret = [a \in Actors |-> "idle"]
  /\ loc = [a \in Actors |-> NoLocal]
  /\ accepted = Nobody

-----------------------------------------------------------------------------
(* request_block_template() by thread a: the message index, the address    *)
(* and the tail of the chain are read, the lock of the chain is released,  *)
(* and set_block_template() installs the block.                            *)
request_block_template(a, return_to) ==
  /\ Goto(a, "build")
  /\ ret' = [ret EXCEPT ![a] = return_to]

create_block_template(a) ==
  /\ pc[a] = "build"
  /\ \/ /\ TemplatesMayFail
        /\ Goto(a, ret[a]) /\ ret' = [ret EXCEPT ![a] = "idle"] /\ UNCHANGED loc
     \/ /\ loc' = [loc EXCEPT ![a].bl = [prev |-> tail, msg |-> current_extra_message_index,
                                         adr |-> m_mine_address]]
        /\ Goto(a, "set") /\ UNCHANGED ret
  /\ UNCHANGED <<miner_vars, template_vars, m_pausers_count, current_extra_message_index,
                 chain_vars, accepted>>

set_block_template(a) ==
  /\ pc[a] = "set"
  /\ m_template' = loc[a].bl
  /\ m_template_no' = (m_template_no + 1) % TemplateWidth
  /\ loc' = [loc EXCEPT ![a].bl = NoTemplate]
  /\ Goto(a, ret[a]) /\ ret' = [ret EXCEPT ![a] = "idle"]
  /\ UNCHANGED <<miner_vars, m_pausers_count, current_extra_message_index, chain_vars,
                 accepted>>

on_block_chain_update(a, return_to) ==
  /\ IF is_mining
     THEN request_block_template(a, return_to)
     ELSE Goto(a, return_to) /\ UNCHANGED ret
  /\ UNCHANGED <<miner_vars, template_vars, m_pausers_count, current_extra_message_index,
                 chain_vars, loc, accepted>>

-----------------------------------------------------------------------------
(* start(): the address and the number of threads are stored before the    *)
(* lock is taken and before the call is found to be one too many.          *)
start(a, adr, threads_count) ==
  /\ a \in Starters /\ pc[a] = "idle"
  /\ m_mine_address' = adr /\ m_threads_total' = threads_count
  /\ loc' = [loc EXCEPT ![a].adr = adr, ![a].threads_count = threads_count]
  /\ Goto(a, "start")
  /\ UNCHANGED <<m_stop, m_threads, m_threads_lock, template_vars, m_pausers_count,
                 current_extra_message_index, chain_vars, ret, accepted>>

start_locked(a) ==
  /\ pc[a] = "start" /\ m_threads_lock = Nobody
  /\ IF is_mining \/ m_threads # {}
     THEN Goto(a, "idle") /\ Return(a) /\ UNCHANGED <<m_threads_lock, ret>>
     ELSE /\ m_threads_lock' = a /\ UNCHANGED loc
          /\ IF m_template_no = 0
             THEN request_block_template(a, "spawn")
             ELSE Goto(a, "spawn") /\ UNCHANGED ret
  /\ UNCHANGED <<m_stop, m_threads, m_threads_total, m_mine_address, template_vars,
                 m_pausers_count, current_extra_message_index, chain_vars, accepted>>

start_spawn(a) ==
  /\ pc[a] = "spawn"
  /\ m_stop' = FALSE
  /\ \E team \in SUBSET Workers :
       /\ Cardinality(team) = loc[a].threads_count
       /\ m_threads' = team
       /\ pc' = [x \in Actors |-> IF x = a THEN "idle" ELSE IF x \in team THEN "loop" ELSE pc[x]]
       /\ loc' = [x \in Actors |-> IF x \in team \cup {a} THEN NoLocal ELSE loc[x]]
  /\ m_threads_lock' = Nobody
  /\ accepted' = loc[a].adr
  /\ UNCHANGED <<m_threads_total, m_mine_address, template_vars, m_pausers_count,
                 current_extra_message_index, chain_vars, ret>>

send_stop_signal ==
  /\ pc["rpc"] = "idle"
  /\ m_stop' = TRUE
  /\ Goto("rpc", "stop")
  /\ UNCHANGED <<m_threads, m_threads_lock, m_threads_total, m_mine_address, template_vars,
                 m_pausers_count, current_extra_message_index, chain_vars, ret, loc, accepted>>

stop_locked ==
  /\ pc["rpc"] = "stop" /\ m_threads_lock = Nobody
  /\ m_threads_lock' = "rpc"
  /\ Goto("rpc", "join")
  /\ UNCHANGED <<m_stop, m_threads, m_threads_total, m_mine_address, template_vars,
                 m_pausers_count, current_extra_message_index, chain_vars, ret, loc, accepted>>

stop_join ==
  /\ pc["rpc"] = "join" /\ \A w \in m_threads : pc[w] = "idle"
  /\ m_threads' = {} /\ m_threads_lock' = Nobody
  /\ Goto("rpc", "idle")
  /\ UNCHANGED <<m_stop, m_threads_total, m_mine_address, template_vars, m_pausers_count,
                 current_extra_message_index, chain_vars, ret, loc, accepted>>

-----------------------------------------------------------------------------
(* The p2p thread: a block arrives while mining is paused, and the miner   *)
(* gets a new template when the block joined the main chain (a             *)
(* synchronising peer's blocks ask for no update).  on_synchronized()      *)
(* starts the miner again with what the object already holds.              *)
pause(a, next) ==
  /\ m_pausers_count' = m_pausers_count + 1
  /\ Goto(a, next)
  /\ UNCHANGED <<miner_vars, template_vars, current_extra_message_index, chain_vars, ret,
                 loc, accepted>>

(* Variant: resume() does not count, it ends every pause.                  *)
resume_all(a, next) ==
  /\ m_pausers_count' = 0
  /\ Goto(a, next)
  /\ UNCHANGED <<miner_vars, template_vars, current_extra_message_index, chain_vars, ret,
                 loc, accepted>>

resume(a, next) ==
  /\ m_pausers_count' = IF m_pausers_count - 1 < 0 THEN 0 ELSE m_pausers_count - 1
  /\ Goto(a, next)
  /\ UNCHANGED <<miner_vars, template_vars, current_extra_message_index, chain_vars, ret,
                 loc, accepted>>

AddBlock(p, new_tail) ==
  /\ NextBlock \in Blocks
  /\ parent' = parent @@ (NextBlock :> p)
  /\ tail' = new_tail

handle_incoming_block(update_miner_blocktemplate) ==
  /\ pc["p2p"] = "block"
  /\ \/ \E p \in Known : AddBlock(p, NextBlock)
        /\ Goto("p2p", IF update_miner_blocktemplate THEN "update" ELSE "resume")
     \/ UNCHANGED <<parent, tail>> /\ Goto("p2p", "resume")
  /\ UNCHANGED <<miner_vars, template_vars, m_pausers_count, current_extra_message_index,
                 carried, ret, loc, accepted>>

on_synchronized == start("p2p", m_mine_address, m_threads_total)

(* The timer asks for a new template every five seconds of mining.         *)
on_idle ==
  /\ pc["idle"] = "idle"
  /\ is_mining
  /\ request_block_template("idle", "idle")
  /\ UNCHANGED <<miner_vars, template_vars, m_pausers_count, current_extra_message_index,
                 chain_vars, loc, accepted>>

-----------------------------------------------------------------------------
(* Variant: only a worker that sleeps through a pause looks at m_stop.     *)
worker_loop_deaf(w) ==
  /\ pc[w] = "loop"
  /\ \/ m_stop /\ m_pausers_count > 0 /\ Goto(w, "idle") /\ loc' = [loc EXCEPT ![w] = NoLocal]
     \/ /\ m_pausers_count = 0 /\ loc[w].ver # m_template_no
        /\ loc' = [loc EXCEPT ![w].b = m_template]
        /\ Goto(w, "ver")
     \/ /\ m_pausers_count > 0 \/ (loc[w].ver = 0 /\ m_template_no = 0)
        /\ UNCHANGED <<pc, loc>>
     \/ /\ m_pausers_count = 0 /\ loc[w].ver = m_template_no /\ loc[w].ver # 0
        /\ Goto(w, "hash") /\ UNCHANGED loc
  /\ UNCHANGED <<miner_vars, template_vars, m_pausers_count, current_extra_message_index,
                 chain_vars, ret, accepted>>

(* worker_thread(): one turn of the loop up to the hash.                   *)
worker_loop(w) ==
  /\ pc[w] = "loop"
  /\ \/ m_stop /\ Goto(w, "idle") /\ UNCHANGED loc
     \/ /\ ~m_stop /\ m_pausers_count = 0 /\ loc[w].ver # m_template_no
        /\ loc' = [loc EXCEPT ![w].b = m_template]
        /\ Goto(w, "ver")
     \/ /\ ~m_stop                           \* sleeps and goes round the loop again
        /\ m_pausers_count > 0 \/ (loc[w].ver = 0 /\ m_template_no = 0)
        /\ UNCHANGED <<pc, loc>>
     \/ /\ ~m_stop /\ m_pausers_count = 0 /\ loc[w].ver = m_template_no /\ loc[w].ver # 0
        /\ Goto(w, "hash") /\ UNCHANGED loc
  /\ UNCHANGED <<miner_vars, template_vars, m_pausers_count, current_extra_message_index,
                 chain_vars, ret, accepted>>

(* The version is read again once m_template_lock is released.             *)
worker_version(w) ==
  /\ pc[w] = "ver"
  /\ loc' = [loc EXCEPT ![w].ver = m_template_no]
  /\ Goto(w, IF m_template_no = 0 THEN "loop" ELSE "hash")
  /\ UNCHANGED <<miner_vars, template_vars, m_pausers_count, current_extra_message_index,
                 chain_vars, ret, accepted>>

(* The hash meets the difficulty or not; the message index is no atomic    *)
(* variable, so it is read here and written in the next step.              *)
worker_hash(w) ==
  /\ pc[w] = "hash"
  /\ \/ Goto(w, "loop") /\ UNCHANGED loc
     \/ /\ NextBlock \in Blocks
        /\ loc' = [loc EXCEPT ![w].idx = current_extra_message_index]
        /\ Goto(w, "inc")
  /\ UNCHANGED <<miner_vars, template_vars, m_pausers_count, current_extra_message_index,
                 chain_vars, ret, accepted>>

worker_count(w) ==
  \/ /\ pc[w] = "inc"
     /\ current_extra_message_index' = (loc[w].idx + 1) % IndexWidth
     /\ Goto(w, "pause")
     /\ UNCHANGED <<miner_vars, template_vars, m_pausers_count, chain_vars, ret, loc, accepted>>
  \/ /\ pc[w] = "dec_read"
     /\ loc' = [loc EXCEPT ![w].idx = current_extra_message_index]
     /\ Goto(w, "dec")
     /\ UNCHANGED <<miner_vars, template_vars, m_pausers_count, current_extra_message_index,
                    chain_vars, ret, accepted>>
  \/ /\ pc[w] = "dec"
     /\ current_extra_message_index' = (loc[w].idx - 1) % IndexWidth
     /\ Goto(w, "loop") /\ Return(w)
     /\ UNCHANGED <<miner_vars, template_vars, m_pausers_count, chain_vars, ret, accepted>>

(* core::handle_block_found(): add_new_block() puts the block at the tail, *)
(* or aside when its parent is no longer the tail, unless its branch has   *)
(* become the heavier one.                                                 *)
handle_block_found_add(w) ==
  /\ pc[w] = "add"
  /\ \/ /\ AddBlock(loc[w].b.prev, NextBlock)
        /\ carried' = carried \cup {loc[w].b.msg}
        /\ loc' = [loc EXCEPT ![w].res = "main", ![w].own = NextBlock]
     \/ /\ loc[w].b.prev # tail
        /\ AddBlock(loc[w].b.prev, tail)
        /\ loc' = [loc EXCEPT ![w].res = "alt", ![w].own = NextBlock]
        /\ UNCHANGED carried
     \/ /\ BlocksMayFail \/ NextBlock \notin Blocks
        /\ loc' = [loc EXCEPT ![w].res = "failed"]
        /\ UNCHANGED chain_vars
  /\ Goto(w, "update")
  /\ UNCHANGED <<miner_vars, template_vars, m_pausers_count, current_extra_message_index, ret,
                 accepted>>

(* After the new template and resume(): a block that is not in the main    *)
(* chain makes the worker take its count back; for one that is, the        *)
(* transactions are looked up, and the block is relayed unless some are    *)
(* gone because the chain was reorganised in the meantime.                 *)
handle_block_found_look(w) ==
  /\ pc[w] = "look"
  /\ \E has_txs \in BOOLEAN :
       loc' = [loc EXCEPT ![w].missed = has_txs /\ loc[w].own \notin PathTo(tail)]
  /\ Goto(w, IF loc[w].res = "main" THEN "relay" ELSE "dec_read")
  /\ UNCHANGED <<miner_vars, template_vars, m_pausers_count, current_extra_message_index,
                 chain_vars, ret, accepted>>

handle_block_found_relay(w) ==
  /\ pc[w] = "relay"
  /\ Goto(w, IF loc[w].missed /\ loc[w].own \in PathTo(tail) THEN "dec_read" ELSE "loop")
  /\ Return(w)
  /\ UNCHANGED <<miner_vars, template_vars, m_pausers_count, current_extra_message_index,
                 chain_vars, ret, accepted>>

-----------------------------------------------------------------------------
Calls ==
  \/ \E adr \in Addresses, n \in 1 .. Cardinality(Workers) : start("rpc", adr, n)
  \/ send_stop_signal
  \/ m_mine_address # Nobody /\ on_synchronized
  \/ pc["p2p"] = "idle" /\ NextBlock \in Blocks /\ pause("p2p", "block")

StartSteps(a) == start_locked(a) \/ start_spawn(a)

TemplateSteps(a) == create_block_template(a) \/ set_block_template(a)

UpdateSteps(a, next) ==
  \/ pc[a] = "update" /\ on_block_chain_update(a, "resume")
  \/ pc[a] = "resume" /\ resume(a, next)

P2p == (\E u \in BOOLEAN : handle_incoming_block(u)) \/ UpdateSteps("p2p", "idle")

Worker(w) ==
  \/ worker_loop(w) \/ worker_version(w) \/ worker_hash(w) \/ worker_count(w)
  \/ pc[w] = "pause" /\ pause(w, "add")
  \/ handle_block_found_add(w) \/ UpdateSteps(w, "look")
  \/ handle_block_found_look(w) \/ handle_block_found_relay(w)

MinerNext ==
  \/ Calls \/ on_idle \/ P2p \/ stop_locked \/ stop_join
  \/ \E a \in {"rpc", "p2p"} : StartSteps(a)
  \/ \E a \in Actors : TemplateSteps(a)
  \/ \E w \in Workers : Worker(w)

MinerSpec == MinerInit /\ [][MinerNext]_minerVars

-----------------------------------------------------------------------------
Pausing(a) ==
  \/ pc[a] \in {"block", "add", "update", "resume"}
  \/ pc[a] \in {"build", "set"} /\ ret[a] = "resume"

(* m_pausers_count is the number of threads between their pause() and      *)
(* their resume(): overlapping pauses of a found block and of an incoming  *)
(* one neither let the workers go early nor leave them paused.             *)
PausesBalanced ==
  m_pausers_count = Cardinality({a \in Actors : Pausing(a)})

(* stop() joins the threads before it forgets them, and start() refuses to *)
(* run beside them: every running worker is one of m_threads.              *)
NoStrayWorker ==
  \A w \in Workers : pc[w] # "idle" => w \in m_threads

(* Both at once: every thread the miner counts or waits for is accounted   *)
(* for, by m_pausers_count and by m_threads.                               *)
WorkersAccounted == PausesBalanced /\ NoStrayWorker
=============================================================================
