-------------------------- MODULE BlockchainStorage --------------------------
(***************************************************************************)
(* The ledger of the node: blockchain_storage (main chain, alternative     *)
(* blocks, reorganisation, checkpoints) together with the tx_memory_pool   *)
(* it exchanges transactions with, and the threads that drive them.        *)
(*                                                                         *)
(*   block thread       add_new_block and everything it calls.  It holds   *)
(*                      the pool lock and m_blockchain_lock from its first *)
(*                      step to its last, so there is one at a time; every *)
(*                      iteration of its loops is a step of this model.    *)
(*   incoming thread    core::handle_incoming_tx.  m_incoming_tx_lock lets *)
(*                      one run at a time, but it takes the pool lock and  *)
(*                      m_blockchain_lock anew for each of its checks.     *)
(*   checkpoint thread  update_checkpoints: it loads points, compares them *)
(*                      with the chain and rolls the chain back holding    *)
(*                      m_blockchain_lock only.                            *)
(*   idle thread        tx_memory_pool::on_idle.                           *)
(*                                                                         *)
(* A block is its id; PrevId, TxHashes, MinerTx ... are its fields.  What  *)
(* a block must satisfy given its ancestors (proof of work, median time,   *)
(* reward) is fixed with the block, because its ancestors are.  A          *)
(* transaction has one output, of the one amount there is.                 *)
(***************************************************************************)
EXTENDS Integers, Sequences, Functions

CONSTANTS
    Block,        \* ids of the blocks that exist, Genesis among them
    Genesis,
    PrevId,       \* block -> prev_id
    TxHashes,     \* block -> sequence of the ids in tx_hashes
    MinerTx,      \* block -> id of its miner_tx
    Difficulty,   \* block -> the difficulty its ancestors demand of it
    WorkOk,       \* blocks with enough work and a timestamp above the median
    RewardOk,     \* blocks whose miner_tx spends exactly reward + fees
    EarlyBlock,   \* blocks that are at first more than two hours in the future
    Tx,           \* ids of the transactions that are not a miner_tx
    KeyImage,
    Vin,          \* tx -> sequence of the key images of its inputs
    Ring,         \* tx -> set of <<global index, tx that made the output>>
    UnlockTime,   \* tx or miner_tx -> unlock_time, a block index
    GenHeight,    \* miner_tx -> height in its txin_gen
    Relayable,    \* transactions with enough fee, of an allowed size
    UnlockWindow, \* CRYPTONOTE_MINED_MONEY_UNLOCK_WINDOW
    DeltaBlocks,  \* CRYPTONOTE_LOCKED_TX_ALLOWED_DELTA_BLOCKS
    Checkpoints   \* height -> id: the points json and dns publish over time

Coinbase == {MinerTx[b] : b \in Block}
AllTx == Tx \cup Coinbase

ASSUME BlockAssumption ==
    /\ Genesis \in Block
    /\ PrevId \in [Block \ {Genesis} -> Block]
    /\ TxHashes \in [Block -> Seq(Tx)]
    /\ TxHashes[Genesis] = <<>>
    /\ Difficulty \in [Block -> Nat \ {0}]
    /\ Tx \cap Coinbase = {}

\* check_tx_semantic refuses a transaction without inputs, and
\* check_tx_inputs_keyimages_diff one that repeats a key image.
ASSUME TxAssumption ==
    /\ Vin \in [Tx -> Seq(KeyImage)]
    /\ \A t \in Tx : Vin[t] # <<>> /\ IsInjective(Vin[t])
    /\ UnlockTime \in [AllTx -> Nat]
    /\ GenHeight \in [Coinbase -> Nat]

ASSUME EnvironmentAssumption ==
    /\ DOMAIN Checkpoints \subseteq Nat
    /\ \A h \in DOMAIN Checkpoints : Checkpoints[h] \in Block
    /\ EarlyBlock \subseteq Block

\* Where the branch of a block puts it: the difficulty up to and including it,
\* and the global index of its first output, the one of its miner_tx.
Work[b \in Block] ==
    IF b = Genesis THEN Difficulty[b] ELSE Work[PrevId[b]] + Difficulty[b]
FirstIndex[b \in Block] ==
    IF b = Genesis THEN 1 ELSE FirstIndex[PrevId[b]] + Len(TxHashes[PrevId[b]]) + 1

\* A block contains the hash of the one before it, so following prev_id never
\* comes back: it ends at the genesis block, and both functions have a value.
ASSUME TreeAssumption ==
    /\ Work[Genesis] = Difficulty[Genesis] /\ FirstIndex[Genesis] = 1
    /\ \A b \in Block \ {Genesis} :
          /\ Work[b] = Work[PrevId[b]] + Difficulty[b]
          /\ FirstIndex[b] = FirstIndex[PrevId[b]] + Len(TxHashes[PrevId[b]]) + 1

VARIABLES
    m_blocks,              \* sequence of [id, cumulative_difficulty]
    m_blocks_index,        \* id -> height
    m_transactions,        \* id -> [m_keeper_block_height, m_global_output_index]
    m_spent_keys,          \* set of key images
    m_outputs,             \* global index -> tx that made the output
    m_alternative_chains,  \* id -> [height, cumulative_difficulty]
    m_invalid_blocks,      \* set of ids
    m_checkpoints,         \* height -> id
    early,                 \* blocks still too far in the future
    pool,                  \* tx_memory_pool::m_transactions: id -> kept_by_block
    pool_images,           \* tx_memory_pool::m_spent_key_images: image -> ids
    pc, mode,              \* block thread: position, and the routine it is in
    bl,                    \* the block a routine works on
    n,                     \* tx_processed_count, or transactions left to purge
    r,                     \* the value a routine returns, or purge's res so far
    path,                  \* handle_alternative_block's alt_chain
    alt_chain, k,          \* switch_to_alternative_blockchain's list, and iterator
    disconnected_chain, j, \* the blocks it popped, and the iterator over them
    split_height,          \* height that popping stops at
    discard,               \* discard_disconnected_chain
    incoming,              \* incoming thread: [pc, tx, kept, inputs]
    cp_pc, cp_height,      \* checkpoint thread: position, next height to look at
    pool_refused           \* history: add_tx failed in purge_transaction_from_blockchain

chain == <<m_blocks, m_blocks_index, m_transactions, m_spent_keys, m_outputs>>
alts == <<m_alternative_chains, m_invalid_blocks>>
mempool == <<pool, pool_images>>
frame == <<path, alt_chain, k, disconnected_chain, j, split_height, discard>>
env == <<m_checkpoints, early, incoming, cp_pc, cp_height>>
control == <<pc, mode, bl, n, r, frame>>
data == <<chain, alts, mempool, env, pool_refused>>
vars == <<data, control>>

-----------------------------------------------------------------------------
(* Maps, and the fields of blocks and transactions. *)

Put(f, x, v) == [y \in DOMAIN f \cup {x} |-> IF y = x THEN v ELSE f[y]]
Without(f, S) == [y \in DOMAIN f \ S |-> f[y]]

KeyImages(t) == IF t \in Tx THEN Range(Vin[t]) ELSE {}
Height == Len(m_blocks)
get_tail_id == m_blocks[Height].id
MainDifficulty == m_blocks[Height].cumulative_difficulty
NextTx == TxHashes[bl][n + 1]
PurgedTx == IF n > 0 THEN TxHashes[bl][n] ELSE MinerTx[bl]

have_block(b) ==
    b \in DOMAIN m_blocks_index \cup DOMAIN m_alternative_chains \cup m_invalid_blocks

-----------------------------------------------------------------------------
(* checkpoints.cpp *)

check_block(h, b) == h \in DOMAIN m_checkpoints => m_checkpoints[h] = b

\* The last checkpoint at or below blockchain_height must be below the block.
is_alternative_block_allowed(blockchain_height, block_height) ==
    /\ block_height # 0
    /\ \A h \in DOMAIN m_checkpoints : h <= blockchain_height => h < block_height

-----------------------------------------------------------------------------
(* Checks on blocks and transactions. *)

prevalidate_miner_transaction(b, h) ==
    /\ GenHeight[MinerTx[b]] = h
    /\ UnlockTime[MinerTx[b]] = h + UnlockWindow

\* Variant: m_checkpoints.check_block is not asked.
MainHeaderOkNoCheckpoint(b) ==
    /\ PrevId[b] = get_tail_id
    /\ b \notin early
    /\ b \in WorkOk
    /\ prevalidate_miner_transaction(b, Height)

\* Everything handle_block_to_main_chain checks before it touches the state.
MainHeaderOk(b) ==
    /\ PrevId[b] = get_tail_id
    /\ b \notin early
    /\ b \in WorkOk
    /\ check_block(Height, b)
    /\ prevalidate_miner_transaction(b, Height)

is_tx_spendtime_unlocked(t) == Height - 1 + DeltaBlocks >= UnlockTime[t]

\* Variant: have_tx_keyimg_as_spent is not asked.
check_tx_inputs_no_images(t) ==
    \A ref \in Ring[t] :
        /\ ref[1] \in DOMAIN m_outputs
        /\ m_outputs[ref[1]] = ref[2]
        /\ is_tx_spendtime_unlocked(ref[2])

\* A ring signature verifies exactly against the outputs it was made with.
check_tx_inputs(t) ==
    /\ KeyImages(t) \cap m_spent_keys = {}
    /\ \A ref \in Ring[t] :
          /\ ref[1] \in DOMAIN m_outputs
          /\ m_outputs[ref[1]] = ref[2]
          /\ is_tx_spendtime_unlocked(ref[2])

-----------------------------------------------------------------------------
(* tx_memory_pool.  The loops over tx.vin stop at the first input that     *)
(* fails, and leave what they did for the inputs before it.                *)

\* add_tx's last loop: an image must be new to the pool, or, for a
\* transaction kept by a block, must not be there with this same id.
ImageAddable(images, t, kept, i) ==
    IF kept THEN t \notin images[Vin[t][i]] ELSE images[Vin[t][i]] = {}

AllImagesAddable(images, t, kept) ==
    \A i \in DOMAIN Vin[t] : ImageAddable(images, t, kept, i)

ImagesAfterAdd(images, t, kept) ==
    [ki \in KeyImage |->
        IF \E i \in DOMAIN Vin[t] :
              /\ Vin[t][i] = ki
              /\ \A h \in 1..i : ImageAddable(images, t, kept, h)
        THEN images[ki] \cup {t} ELSE images[ki]]

remove_transaction_keyimages(images, t) ==
    [ki \in KeyImage |->
        IF \E i \in DOMAIN Vin[t] :
              /\ Vin[t][i] = ki
              /\ \A h \in 1..i : t \in images[Vin[t][h]]
        THEN images[ki] \ {t} ELSE images[ki]]

\* add_tx(tx, tvc, true) succeeds: no duplicate id, no duplicate image entry.
PoolTakesBack(images, t) == t \notin DOMAIN pool /\ AllImagesAddable(images, t, TRUE)

\* take_tx, and take_tx followed by add_tx(tx, tvc, true).
Take(t) ==
    /\ pool' = Without(pool, {t})
    /\ pool_images' = remove_transaction_keyimages(pool_images, t)

\* Variant: the transaction is not given back.
GiveBackNot(t) == Take(t)
GiveBack(t) ==
    /\ pool' = Put(pool, t, TRUE)
    /\ pool_images' = ImagesAfterAdd(remove_transaction_keyimages(pool_images, t), t, TRUE)

-----------------------------------------------------------------------------
(* add_transaction_from_block *)

KeyImageCollision(t) == KeyImages(t) \cap m_spent_keys # {}
CanAdd(t) == ~KeyImageCollision(t) /\ t \notin DOMAIN m_transactions

\* A collision purges all images of t; a duplicate id leaves them inserted.
add_transaction_from_block(t) ==
    /\ m_spent_keys' = IF KeyImageCollision(t) THEN m_spent_keys \ KeyImages(t)
                                               ELSE m_spent_keys \cup KeyImages(t)
    /\ m_transactions' =
          IF CanAdd(t)
          THEN Put(m_transactions, t, [m_keeper_block_height |-> Height,
                                       m_global_output_index |-> Len(m_outputs) + 1])
          ELSE m_transactions
    /\ m_outputs' = IF CanAdd(t) THEN Append(m_outputs, t) ELSE m_outputs

-----------------------------------------------------------------------------
(* Returning from a routine, and releasing both locks. *)

Return(result) == pc' = "ret" /\ r' = result

Finish ==
    /\ pc' = "idle" /\ mode' = "none" /\ bl' = Genesis /\ n' = 0 /\ r' = TRUE
    /\ path' = <<>> /\ alt_chain' = <<>> /\ k' = 1 /\ disconnected_chain' = <<>>
    /\ j' = 1 /\ split_height' = 0 /\ discard' = FALSE

-----------------------------------------------------------------------------
(* add_new_block.  A block that is already known changes nothing. *)

add_new_block(b) ==
    /\ pc = "idle"
    /\ ~have_block(b)
    /\ bl' = b
    /\ mode' = "add"
    /\ pc' = IF PrevId[b] = get_tail_id THEN "main" ELSE "alt"
    /\ UNCHANGED <<data, n, r, frame>>

ReturnFromAdd ==
    /\ pc = "ret" /\ mode = "add"
    /\ Finish
    /\ UNCHANGED data

-----------------------------------------------------------------------------
(* handle_block_to_main_chain, on bl. *)

MainHeaderRefused ==
    /\ pc = "main"
    /\ ~MainHeaderOk(bl) \/ ~CanAdd(MinerTx[bl])
    /\ Return(FALSE)
    /\ UNCHANGED <<data, mode, bl, n, frame>>

AddMinerTx ==
    /\ pc = "main"
    /\ MainHeaderOk(bl) /\ CanAdd(MinerTx[bl])
    /\ add_transaction_from_block(MinerTx[bl])
    /\ pc' = "txs" /\ n' = 0
    /\ UNCHANGED <<m_blocks, m_blocks_index, alts, mempool, mode, bl, r, frame, env,
                   pool_refused>>

\* Variant: returns without purging what the block added so far.
UnknownTxNoPurge ==
    /\ pc = "txs" /\ n < Len(TxHashes[bl])
    /\ NextTx \notin DOMAIN pool
    /\ Return(FALSE)
    /\ UNCHANGED <<data, mode, bl, n, frame>>

UnknownTx ==
    /\ pc = "txs" /\ n < Len(TxHashes[bl])
    /\ NextTx \notin DOMAIN pool
    /\ pc' = "purge"
    /\ UNCHANGED <<data, mode, bl, n, r, frame>>

\* The transaction goes back, now kept by block; the block becomes invalid.
WrongInputs ==
    /\ pc = "txs" /\ n < Len(TxHashes[bl])
    /\ NextTx \in DOMAIN pool
    /\ ~check_tx_inputs(NextTx)
    /\ GiveBack(NextTx)
    /\ m_invalid_blocks' = m_invalid_blocks \cup {bl}
    /\ pc' = "purge"
    /\ UNCHANGED <<chain, m_alternative_chains, mode, bl, n, r, frame, env,
                   pool_refused>>

\* take_tx and add_transaction_from_block; when the latter fails, add_tx again.
AddBlockTx ==
    /\ pc = "txs" /\ n < Len(TxHashes[bl])
    /\ NextTx \in DOMAIN pool
    /\ check_tx_inputs(NextTx)
    /\ add_transaction_from_block(NextTx)
    /\ IF CanAdd(NextTx)
       THEN /\ Take(NextTx)
            /\ n' = n + 1 /\ pc' = "txs"
       ELSE /\ GiveBack(NextTx)
            /\ n' = n /\ pc' = "purge"
    /\ UNCHANGED <<m_blocks, m_blocks_index, alts, mode, bl, r, frame, env,
                   pool_refused>>

\* validate_miner_transaction fails, or the id is already in m_blocks_index.
BlockRefused ==
    /\ pc = "txs" /\ n = Len(TxHashes[bl])
    /\ bl \notin RewardOk \/ bl \in DOMAIN m_blocks_index
    /\ pc' = "purge"
    /\ UNCHANGED <<data, mode, bl, n, r, frame>>

\* Variant: the difficulty below is not added.
PushedEntryAlone(b) == [id |-> b, cumulative_difficulty |-> Difficulty[b]]
PushedEntry(b) == [id |-> b, cumulative_difficulty |-> MainDifficulty + Difficulty[b]]

PushBlock ==
    /\ pc = "txs" /\ n = Len(TxHashes[bl])
    /\ bl \in RewardOk /\ bl \notin DOMAIN m_blocks_index
    /\ m_blocks_index' = Put(m_blocks_index, bl, Height)
    /\ m_blocks' = Append(m_blocks, PushedEntry(bl))
    /\ Return(TRUE)
    /\ UNCHANGED <<m_transactions, m_spent_keys, m_outputs, alts, mempool, mode, bl, n,
                   frame, env, pool_refused>>

-----------------------------------------------------------------------------
(* purge_block_data_from_blockchain and pop_block_from_blockchain.         *)

\* The key images purge_transaction_keyimages_from_blockchain erases: its loop
\* over tx.vin stops at the first image that is not there.
PurgedImages(t) ==
    {ki \in KeyImages(t) : \E i \in DOMAIN Vin[t] :
        Vin[t][i] = ki /\ \A h \in 1..i : Vin[t][h] \in m_spent_keys}

\* purge_transaction_from_blockchain.  The key images go first; when the pool
\* then refuses the transaction the rest of its data stays.
purge_transaction_from_blockchain(t) ==
    LET found    == t \in DOMAIN m_transactions
        pooled   == t \in Coinbase \/ PoolTakesBack(pool_images, t)
        in_order == m_outputs # <<>> /\ m_outputs[Len(m_outputs)] = t
    IN  /\ m_spent_keys' = IF found THEN m_spent_keys \ PurgedImages(t) ELSE m_spent_keys
        /\ pool' = IF found /\ t \in Tx /\ t \notin DOMAIN pool
                   THEN Put(pool, t, TRUE) ELSE pool
        /\ pool_images' = IF found /\ t \in Tx /\ t \notin DOMAIN pool
                          THEN ImagesAfterAdd(pool_images, t, TRUE) ELSE pool_images
        /\ m_outputs' = IF found /\ pooled /\ in_order
                        THEN SubSeq(m_outputs, 1, Len(m_outputs) - 1) ELSE m_outputs
        /\ m_transactions' = IF found /\ pooled THEN Without(m_transactions, {t})
                                                ELSE m_transactions
        /\ r' = IF found /\ pooled /\ in_order THEN r ELSE FALSE
        /\ pool_refused' = (pool_refused \/ (found /\ ~pooled))

LeftToPurge == IF n > 0 THEN n - 1 ELSE 0

\* The transactions in reverse order, then the miner_tx.
PurgeStep ==
    /\ pc \in {"purge", "popping"}
    /\ purge_transaction_from_blockchain(PurgedTx)
    /\ n' = LeftToPurge
    /\ pc' = CASE n > 0 -> pc [] n = 0 /\ pc = "purge" -> "purged" [] OTHER -> "popped"
    /\ UNCHANGED <<m_blocks, m_blocks_index, alts, mode, bl, frame, env>>

ReturnAfterPurge ==
    /\ pc = "purged"
    /\ Return(FALSE)
    /\ UNCHANGED <<data, mode, bl, n, frame>>

\* The loops "for(i = m_blocks.size()-1; i >= split_height; i--) pop_block".
PopNext ==
    /\ pc = "pop" /\ Height > split_height /\ Height > 1
    /\ bl' = get_tail_id /\ n' = Len(TxHashes[get_tail_id]) /\ r' = TRUE
    /\ pc' = "popping"
    /\ UNCHANGED <<data, mode, frame>>

\* Variant: the loop goes on when a pop is refused.
PopGenesisIgnored ==
    /\ pc = "pop" /\ Height > split_height /\ Height <= 1
    /\ UNCHANGED vars

\* pop_block_from_blockchain does not pop the genesis block.
PopGenesis ==
    /\ pc = "pop" /\ Height > split_height /\ Height <= 1
    /\ Return(FALSE)
    /\ UNCHANGED <<data, mode, bl, n, frame>>

PopBlock ==
    /\ pc = "popped" /\ r
    /\ m_blocks_index' = Without(m_blocks_index, {bl})
    /\ m_blocks' = SubSeq(m_blocks, 1, Height - 1)
    /\ disconnected_chain' = IF mode = "disconnect" THEN <<bl>> \o disconnected_chain
                                                    ELSE disconnected_chain
    /\ pc' = "pop"
    /\ UNCHANGED <<m_transactions, m_spent_keys, m_outputs, alts, mempool, mode, bl, n,
                   r, path, alt_chain, k, j, split_height, discard, env, pool_refused>>

PopFailed ==
    /\ pc = "popped" /\ ~r
    /\ Return(FALSE)
    /\ UNCHANGED <<data, mode, bl, n, frame>>

-----------------------------------------------------------------------------
(* handle_alternative_block, on bl.  The caller is add_new_block, or       *)
(* switch_to_alternative_blockchain pushing the chain it disconnected.     *)

PathHead == IF path = <<>> THEN PrevId[bl] ELSE PrevId[path[1]]

AltRefused ==
    /\ pc = "alt"
    /\ ~is_alternative_block_allowed(Height, GenHeight[MinerTx[bl]])
    /\ Return(FALSE)
    /\ UNCHANGED <<data, mode, bl, n, frame>>

AltOrphaned ==
    /\ pc = "alt"
    /\ is_alternative_block_allowed(Height, GenHeight[MinerTx[bl]])
    /\ PrevId[bl] \notin DOMAIN m_alternative_chains \cup DOMAIN m_blocks_index
    /\ Return(TRUE)
    /\ UNCHANGED <<data, mode, bl, n, frame>>

AltBegin ==
    /\ pc = "alt"
    /\ is_alternative_block_allowed(Height, GenHeight[MinerTx[bl]])
    /\ PrevId[bl] \in DOMAIN m_alternative_chains \cup DOMAIN m_blocks_index
    /\ path' = <<>>
    /\ pc' = "walk"
    /\ UNCHANGED <<data, mode, bl, n, r, alt_chain, k, disconnected_chain, j,
                   split_height, discard>>

AltWalk ==
    /\ pc = "walk"
    /\ PathHead \in DOMAIN m_alternative_chains
    /\ path' = <<PathHead>> \o path
    /\ UNCHANGED <<data, pc, mode, bl, n, r, alt_chain, k, disconnected_chain, j,
                   split_height, discard>>

\* bei.height and bei.cumulative_difficulty.
AltHeight ==
    IF path # <<>> THEN m_alternative_chains[PrevId[bl]].height + 1
                   ELSE m_blocks_index[PrevId[bl]] + 1
AltDifficulty ==
    Difficulty[bl] +
    IF path # <<>> THEN m_alternative_chains[PrevId[bl]].cumulative_difficulty
                   ELSE m_blocks[m_blocks_index[PrevId[bl]] + 1].cumulative_difficulty

\* Variant: the connection is not looked at.
PathConnectsUnchecked == TRUE

\* The subchain has the right connection to the main chain.
PathConnects ==
    path # <<>> =>
        LET front == m_alternative_chains[path[1]].height IN
        /\ Height > front
        /\ m_blocks[front].id = PrevId[path[1]]

AltHeaderOk ==
    /\ PathConnects
    /\ bl \in WorkOk
    /\ check_block(AltHeight, bl)
    /\ prevalidate_miner_transaction(bl, AltHeight)
    /\ bl \notin DOMAIN m_alternative_chains

is_a_checkpoint == AltHeight \in DOMAIN m_checkpoints

AltHeaderRefused ==
    /\ pc = "walk" /\ PathHead \notin DOMAIN m_alternative_chains
    /\ ~AltHeaderOk
    /\ Return(FALSE)
    /\ UNCHANGED <<data, mode, bl, n, frame>>

InsertAlternative ==
    m_alternative_chains' =
        Put(m_alternative_chains, bl,
            [height |-> AltHeight, cumulative_difficulty |-> AltDifficulty])

\* Variants: an equal chain is enough; the longest chain wins.
SwitchNeededOrEqual == is_a_checkpoint \/ MainDifficulty <= AltDifficulty
SwitchNeededLongest == is_a_checkpoint \/ Height <= AltHeight

SwitchNeeded == is_a_checkpoint \/ MainDifficulty < AltDifficulty

AddedAsAlternative ==
    /\ pc = "walk" /\ PathHead \notin DOMAIN m_alternative_chains
    /\ AltHeaderOk
    /\ mode = "add" => ~SwitchNeeded
    /\ InsertAlternative
    /\ Return(TRUE)
    /\ UNCHANGED <<chain, m_invalid_blocks, mempool, mode, bl, n, frame, env,
                   pool_refused>>

\* switch_to_alternative_blockchain begins.
Reorganize ==
    /\ pc = "walk" /\ PathHead \notin DOMAIN m_alternative_chains
    /\ AltHeaderOk
    /\ mode = "add" /\ SwitchNeeded
    /\ InsertAlternative
    /\ alt_chain' = Append(path, bl)
    /\ split_height' = IF path # <<>> THEN m_alternative_chains[path[1]].height ELSE AltHeight
    /\ discard' = is_a_checkpoint
    /\ disconnected_chain' = <<>>
    /\ mode' = "disconnect" /\ pc' = "pop"
    /\ UNCHANGED <<chain, m_invalid_blocks, mempool, bl, n, r, path, k, j, env,
                   pool_refused>>

-----------------------------------------------------------------------------
(* switch_to_alternative_blockchain and rollback_blockchain_switching.     *)
(*   disconnect  the main chain is popped down to split_height             *)
(*   connect     alt_chain[k] is given to handle_block_to_main_chain       *)
(*   push        disconnected_chain[j] is given to handle_alternative_block*)
(*   undo        rollback after alt_chain[k] failed to connect             *)
(*   restore     rollback after disconnected_chain[j] failed to be pushed  *)
(*   checkpoint  rollback asked for by check_against_checkpoints           *)

ConnectBlock(i) == k' = i /\ bl' = alt_chain[i] /\ pc' = "main"
ReconnectBlock(i) == j' = i /\ bl' = disconnected_chain[i] /\ pc' = "main"
PushOldBlock(i) == j' = i /\ bl' = disconnected_chain[i] /\ pc' = "alt"

DisconnectDone ==
    /\ pc = "pop" /\ Height <= split_height /\ mode = "disconnect"
    /\ mode' = "connect"
    /\ ConnectBlock(1)
    /\ UNCHANGED <<data, n, r, path, alt_chain, disconnected_chain, j, split_height,
                   discard>>

\* "failed to remove block on chain switching": nothing is rolled back.
DisconnectFailed ==
    /\ pc = "ret" /\ mode = "disconnect"
    /\ Finish
    /\ UNCHANGED data

ConnectNext ==
    /\ pc = "ret" /\ mode = "connect" /\ r /\ k < Len(alt_chain)
    /\ ConnectBlock(k + 1)
    /\ UNCHANGED <<data, mode, n, r, path, alt_chain, disconnected_chain, j,
                   split_height, discard>>

ConnectFailed ==
    /\ pc = "ret" /\ mode = "connect" /\ ~r
    /\ mode' = "undo" /\ pc' = "pop"
    /\ UNCHANGED <<data, bl, n, r, frame>>

PushOldChain ==
    /\ pc = "ret" /\ mode = "connect" /\ r /\ k = Len(alt_chain) /\ ~discard
    /\ mode' = "push"
    /\ PushOldBlock(1)
    /\ UNCHANGED <<data, n, r, path, alt_chain, k, disconnected_chain, split_height,
                   discard>>

PushNext ==
    /\ pc = "ret" /\ mode = "push" /\ r /\ j < Len(disconnected_chain)
    /\ PushOldBlock(j + 1)
    /\ UNCHANGED <<data, mode, n, r, path, alt_chain, k, disconnected_chain,
                   split_height, discard>>

PushFailed ==
    /\ pc = "ret" /\ mode = "push" /\ ~r
    /\ mode' = "restore" /\ pc' = "pop"
    /\ UNCHANGED <<data, bl, n, r, frame>>

\* Variant: the connected blocks stay alternative.
SwitchSucceededNoErase ==
    /\ pc = "ret" /\ r
    /\ \/ mode = "connect" /\ k = Len(alt_chain) /\ discard
       \/ mode = "push" /\ j = Len(disconnected_chain)
    /\ Finish
    /\ UNCHANGED data

SwitchSucceeded ==
    /\ pc = "ret" /\ r
    /\ \/ mode = "connect" /\ k = Len(alt_chain) /\ discard
       \/ mode = "push" /\ j = Len(disconnected_chain)
    /\ m_alternative_chains' = Without(m_alternative_chains, Range(alt_chain))
    /\ Finish
    /\ UNCHANGED <<chain, m_invalid_blocks, mempool, env, pool_refused>>

ReconnectFirst ==
    /\ pc = "pop" /\ Height <= split_height /\ mode \in {"undo", "restore"}
    /\ ReconnectBlock(1)
    /\ UNCHANGED <<data, mode, n, r, path, alt_chain, k, disconnected_chain,
                   split_height, discard>>

ReconnectNext ==
    /\ pc = "ret" /\ mode \in {"undo", "restore"} /\ r /\ j < Len(disconnected_chain)
    /\ ReconnectBlock(j + 1)
    /\ UNCHANGED <<data, mode, n, r, path, alt_chain, k, disconnected_chain,
                   split_height, discard>>

\* Variants: one block put back is enough; the blocks are not put back.
RollbackOverEarly == pc = "ret"
RollbackOverPopped == pc = "ret" \/ (pc = "pop" /\ Height <= split_height)

RollbackOver == pc = "ret" /\ (r => j = Len(disconnected_chain))

\* alt_chain[k] and the blocks after it leave m_alternative_chains.  The loop
\* that marks the followers invalid passes *alt_ch_iter, so it marks the first
\* of them; in its later rounds that iterator is erased, and what it still reads
\* is that same id, a duplicate, or memory that is no block's id.
UndoDone ==
    /\ mode = "undo" /\ RollbackOver
    /\ m_invalid_blocks' = m_invalid_blocks \cup
          {alt_chain[i] : i \in {k, k + 1} \cap DOMAIN alt_chain}
    /\ m_alternative_chains' =
          Without(m_alternative_chains, {alt_chain[i] : i \in k..Len(alt_chain)})
    /\ Finish
    /\ UNCHANGED <<chain, mempool, env, pool_refused>>

RestoreDone ==
    /\ mode = "restore" /\ RollbackOver
    /\ Finish
    /\ UNCHANGED data

-----------------------------------------------------------------------------
(* update_checkpoints: load points that json or dns publish by now, then   *)
(* check_against_checkpoints(m_checkpoints, true), point by point.         *)

load_new_checkpoints(S) ==
    /\ cp_pc = "idle" /\ pc = "idle"
    /\ S # {}
    /\ m_checkpoints' = [h \in DOMAIN m_checkpoints \cup S |->
                           IF h \in S THEN Checkpoints[h] ELSE m_checkpoints[h]]
    /\ cp_pc' = "check" /\ cp_height' = 0
    /\ UNCHANGED <<chain, alts, mempool, control, early, incoming, pool_refused>>

FailingPoints ==
    {h \in DOMAIN m_checkpoints : h >= cp_height /\ h < Height /\ m_blocks[h + 1].id # m_checkpoints[h]}

\* rollback_height is pt.first - 2 in uint64_t: for a point below 2 it wraps to
\* a height above the chain, and the rollback does nothing.
check_against_checkpoints ==
    /\ cp_pc = "check" /\ pc = "idle"
    /\ \E h \in FailingPoints :
          /\ h >= 2 /\ \A g \in FailingPoints : g >= 2 => h <= g
          /\ cp_height' = h
    /\ cp_pc' = "rollback"
    /\ UNCHANGED <<chain, alts, mempool, control, m_checkpoints, early, incoming,
                   pool_refused>>

CheckpointsPassed ==
    /\ cp_pc = "check" /\ pc = "idle"
    /\ ~\E h \in FailingPoints : h >= 2
    /\ cp_pc' = "idle" /\ cp_height' = 0
    /\ UNCHANGED <<chain, alts, mempool, control, m_checkpoints, early, incoming,
                   pool_refused>>

\* rollback_blockchain_switching with an empty original_chain; it may have
\* waited for m_blockchain_lock since the comparison.
CheckpointRollback ==
    /\ cp_pc = "rollback" /\ pc = "idle"
    /\ mode' = "checkpoint" /\ pc' = "pop" /\ split_height' = cp_height - 2
    /\ cp_pc' = "check" /\ cp_height' = cp_height + 1
    /\ UNCHANGED <<chain, alts, mempool, bl, n, r, path, alt_chain, k,
                   disconnected_chain, j, discard, m_checkpoints, early, incoming,
                   pool_refused>>

CheckpointRollbackDone ==
    /\ mode = "checkpoint"
    /\ pc = "ret" \/ (pc = "pop" /\ Height <= split_height)
    /\ Finish
    /\ UNCHANGED data

-----------------------------------------------------------------------------
(* core::handle_incoming_tx -> add_new_tx -> tx_memory_pool::add_tx, for a *)
(* transaction on its own or one that came with a block.  Between its      *)
(* steps the block thread may run from beginning to end.                   *)

\* A rollback for a checkpoint holds m_blockchain_lock without the pool lock.
PoolUnlocked == pc = "idle" \/ mode = "checkpoint"
ChainUnlocked == pc = "idle"

IncomingGoesTo(next) == incoming' = [incoming EXCEPT !.pc = next]
NoIncoming == [pc |-> "idle", tx |-> MinerTx[Genesis], kept |-> FALSE, inputs |-> FALSE]
IncomingDone == incoming' = NoIncoming

\* m_mempool.have_tx
handle_incoming_tx(t, kept) ==
    /\ incoming.pc = "idle" /\ PoolUnlocked
    /\ t \notin DOMAIN pool
    /\ incoming' = [pc |-> "have_tx", tx |-> t, kept |-> kept, inputs |-> FALSE]
    /\ UNCHANGED <<chain, alts, mempool, control, m_checkpoints, early, cp_pc,
                   cp_height, pool_refused>>

\* m_blockchain_storage.have_tx
IncomingHaveTx ==
    /\ incoming.pc = "have_tx" /\ ChainUnlocked
    /\ IF incoming.tx \in DOMAIN m_transactions
       THEN IncomingDone
       ELSE IncomingGoesTo(IF incoming.kept THEN "inputs" ELSE "images")
    /\ UNCHANGED <<chain, alts, mempool, control, m_checkpoints, early, cp_pc,
                   cp_height, pool_refused>>

\* Fee and size, then have_tx_keyimges_as_spent, unless kept by a block.
IncomingImages ==
    /\ incoming.pc = "images" /\ PoolUnlocked
    /\ IF incoming.tx \in Relayable /\ \A ki \in KeyImages(incoming.tx) : pool_images[ki] = {}
       THEN IncomingGoesTo("inputs")
       ELSE IncomingDone
    /\ UNCHANGED <<chain, alts, mempool, control, m_checkpoints, early, cp_pc,
                   cp_height, pool_refused>>

\* m_blockchain.check_tx_inputs, before the pool lock is taken
IncomingInputs ==
    /\ incoming.pc = "inputs" /\ ChainUnlocked
    /\ incoming' = [incoming EXCEPT !.pc = "insert",
                                    !.inputs = check_tx_inputs(incoming.tx)]
    /\ UNCHANGED <<chain, alts, mempool, control, m_checkpoints, early, cp_pc,
                   cp_height, pool_refused>>

\* A duplicate id is refused; a refused key image leaves the transaction in.
IncomingInsert ==
    /\ incoming.pc = "insert" /\ PoolUnlocked
    /\ IF (incoming.inputs \/ incoming.kept) /\ incoming.tx \notin DOMAIN pool
       THEN /\ pool' = Put(pool, incoming.tx, incoming.kept)
            /\ pool_images' = ImagesAfterAdd(pool_images, incoming.tx, incoming.kept)
       ELSE UNCHANGED mempool
    /\ IncomingDone
    /\ UNCHANGED <<chain, alts, control, m_checkpoints, early, cp_pc, cp_height,
                   pool_refused>>

-----------------------------------------------------------------------------
(* tx_memory_pool::remove_stuck_transactions, and the clock. *)

\* The key images of an outdated transaction stay in m_spent_key_images.
remove_stuck_transactions(t) ==
    /\ PoolUnlocked
    /\ pool' = Without(pool, {t})
    /\ UNCHANGED <<chain, alts, pool_images, control, env, pool_refused>>

TimePasses(b) ==
    /\ pc = "idle"
    /\ early' = early \ {b}
    /\ UNCHANGED <<chain, alts, mempool, control, m_checkpoints, incoming, cp_pc,
                   cp_height, pool_refused>>

-----------------------------------------------------------------------------
(* The node starts with the genesis block, as reset_and_set_genesis_block  *)
(* leaves it.                                                              *)

InitChain ==
    /\ m_blocks = <<[id |-> Genesis, cumulative_difficulty |-> Difficulty[Genesis]]>>
    /\ m_blocks_index = [b \in {Genesis} |-> 0]
    /\ m_transactions = [t \in {MinerTx[Genesis]} |->
          [m_keeper_block_height |-> 0, m_global_output_index |-> 1]]
    /\ m_spent_keys = {}
    /\ m_outputs = <<MinerTx[Genesis]>>
    /\ m_alternative_chains = [b \in {} |-> [height |-> 0, cumulative_difficulty |-> 0]]
    /\ m_invalid_blocks = {}
    /\ pool_refused = FALSE
InitPool ==
    /\ pool = [t \in {} |-> FALSE]
    /\ pool_images = [ki \in KeyImage |-> {}]
InitBlockThread ==
    /\ pc = "idle" /\ mode = "none" /\ bl = Genesis /\ n = 0 /\ r = TRUE
    /\ path = <<>> /\ alt_chain = <<>> /\ k = 1 /\ disconnected_chain = <<>>
    /\ j = 1 /\ split_height = 0 /\ discard = FALSE
InitOthers ==
    /\ m_checkpoints = [h \in {} |-> Genesis]
    /\ early = EarlyBlock
    /\ incoming = NoIncoming
    /\ cp_pc = "idle" /\ cp_height = 0
Init == InitChain /\ InitPool /\ InitBlockThread /\ InitOthers

\* One step of handle_block_to_main_chain and the purge it may end with.
MainStep ==
    \/ MainHeaderRefused \/ AddMinerTx \/ UnknownTx \/ WrongInputs \/ AddBlockTx
    \/ BlockRefused \/ PushBlock \/ PurgeStep \/ ReturnAfterPurge
PopStep == PopNext \/ PopGenesis \/ PopBlock \/ PopFailed
AltStep ==
    \/ AltRefused \/ AltOrphaned \/ AltBegin \/ AltWalk \/ AltHeaderRefused
    \/ AddedAsAlternative \/ Reorganize
SwitchStep ==
    \/ DisconnectDone \/ DisconnectFailed \/ ConnectNext \/ ConnectFailed \/ PushOldChain
    \/ PushNext \/ PushFailed \/ SwitchSucceeded \/ ReconnectFirst \/ ReconnectNext
    \/ UndoDone \/ RestoreDone
BlockThread ==
    ReturnFromAdd \/ MainStep \/ PopStep \/ AltStep \/ SwitchStep \/ CheckpointRollbackDone
CheckpointThread == check_against_checkpoints \/ CheckpointsPassed \/ CheckpointRollback
IncomingThread == IncomingHaveTx \/ IncomingImages \/ IncomingInputs \/ IncomingInsert

Next ==
    \/ \E b \in Block : add_new_block(b)
    \/ BlockThread
    \/ \E S \in SUBSET (DOMAIN Checkpoints \ DOMAIN m_checkpoints) : load_new_checkpoints(S)
    \/ CheckpointThread
    \/ \E t \in Tx, kept \in BOOLEAN : handle_incoming_tx(t, kept)
    \/ IncomingThread
    \/ \E t \in DOMAIN pool : remove_stuck_transactions(t)
    \/ \E b \in early : TimePasses(b)

Spec == Init /\ [][Next]_vars

\* The thread that holds the locks is scheduled again and again.
LiveSpec == Spec /\ WF_vars(BlockThread)

-----------------------------------------------------------------------------
(* Properties. *)

PCs == {"idle", "main", "txs", "purge", "purged", "pop", "popping", "popped", "alt",
        "walk", "ret"}
Modes == {"none", "add", "disconnect", "connect", "push", "undo", "restore", "checkpoint"}

BlockEntry == [id : Block, cumulative_difficulty : Nat]
ChainTypeOK ==
    /\ m_blocks \in Seq(BlockEntry)
    /\ DOMAIN m_blocks_index \subseteq Block
    /\ \A b \in DOMAIN m_blocks_index : m_blocks_index[b] \in Nat
    /\ DOMAIN m_transactions \subseteq AllTx
    /\ \A t \in DOMAIN m_transactions : m_transactions[t] \in
          [m_keeper_block_height : Nat, m_global_output_index : Nat]
    /\ m_spent_keys \subseteq KeyImage
    /\ m_outputs \in Seq(AllTx)
    /\ pool_refused \in BOOLEAN
AltTypeOK ==
    /\ DOMAIN m_alternative_chains \subseteq Block
    /\ \A b \in DOMAIN m_alternative_chains :
          m_alternative_chains[b] \in [height : Nat, cumulative_difficulty : Nat]
    /\ m_invalid_blocks \subseteq Block
PoolTypeOK ==
    /\ DOMAIN pool \subseteq Tx
    /\ \A t \in DOMAIN pool : pool[t] \in BOOLEAN
    /\ pool_images \in [KeyImage -> SUBSET Tx]
ControlTypeOK ==
    /\ pc \in PCs /\ mode \in Modes /\ bl \in Block
    /\ n \in Nat /\ (pc \in {"txs", "purge", "popping"} => n <= Len(TxHashes[bl]))
    /\ path \in Seq(Block) /\ alt_chain \in Seq(Block) /\ disconnected_chain \in Seq(Block)
    /\ k \in Nat /\ j \in Nat /\ split_height \in Nat
FlagTypeOK == r \in BOOLEAN /\ discard \in BOOLEAN
IncomingTypeOK ==
    /\ incoming \in [pc : {"idle", "have_tx", "images", "inputs", "insert"},
                     tx : AllTx, kept : BOOLEAN, inputs : BOOLEAN]
    /\ incoming.pc # "idle" => incoming.tx \in Tx
CheckpointTypeOK ==
    /\ DOMAIN m_checkpoints \subseteq Nat
    /\ \A h \in DOMAIN m_checkpoints : m_checkpoints[h] \in Block
    /\ early \subseteq Block
    /\ cp_pc \in {"idle", "check", "rollback"} /\ cp_height \in Nat
    /\ cp_pc = "rollback" => cp_height >= 2

\* Every container of blockchain_storage and tx_memory_pool, and every local of
\* the routines that work on them, holds values of its type.
TypeOK ==
    /\ ChainTypeOK /\ AltTypeOK /\ PoolTypeOK /\ ControlTypeOK /\ FlagTypeOK
    /\ IncomingTypeOK /\ CheckpointTypeOK

\* What the routines of the block thread rely on at each position: a block is
\* pushed on the tail it was checked against, the block being purged is the top
\* one and not the genesis block, a block treated as alternative is not a child
\* of the tail, and a reorganisation has something to connect and something to
\* go back to.
ControlInv ==
    /\ pc = "txs" => PrevId[bl] = get_tail_id
    /\ pc \in {"popping", "popped"} => Height > 1 /\ bl = get_tail_id
    /\ pc \in {"alt", "walk"} /\ mode = "add" => PrevId[bl] # get_tail_id
    /\ pc = "walk" => PrevId[bl] \in DOMAIN m_alternative_chains \cup DOMAIN m_blocks_index
    /\ pc = "walk" /\ path # <<>> => {path[1], PrevId[bl]} \subseteq DOMAIN m_alternative_chains
    /\ mode = "disconnect" => alt_chain # <<>>
    /\ mode = "disconnect" => disconnected_chain # <<>> \/ Height > split_height
    /\ mode \in {"connect", "push", "undo", "restore"} => disconnected_chain # <<>>

SpentExact == m_spent_keys = UNION {KeyImages(t) : t \in DOMAIN m_transactions}
ImagesDisjoint ==
    \A t, u \in DOMAIN m_transactions : t # u => KeyImages(t) \cap KeyImages(u) = {}

\* The spent set is exactly what the stored transactions spend, and no two of
\* them spend the same image: at every step of a block, a purge or a
\* reorganisation, unless the assertion on add_tx in
\* purge_transaction_from_blockchain has failed.
NoDoubleSpend == pool_refused \/ (SpentExact /\ ImagesDisjoint)

\* m_blocks_index is the inverse of m_blocks, each block follows its prev_id,
\* and its cumulative difficulty is that of the block below plus its own.
ChainIndexed ==
    /\ Height > 0 /\ m_blocks[1].id = Genesis
    /\ DOMAIN m_blocks_index = {m_blocks[i].id : i \in 1..Height}
    /\ \A i \in 1..Height : m_blocks_index[m_blocks[i].id] = i - 1
    /\ \A i \in 2..Height :
          /\ PrevId[m_blocks[i].id] = m_blocks[i - 1].id
          /\ m_blocks[i].cumulative_difficulty =
                m_blocks[i - 1].cumulative_difficulty + Difficulty[m_blocks[i].id]

BlockTxs(b) == {MinerTx[b]} \cup Range(TxHashes[b])
Processed == {MinerTx[bl]} \cup {TxHashes[bl][i] : i \in 1..n}

\* The transactions of the blocks whose data is whole, and those of bl that are
\* already added or not yet purged.
LedgerTxs ==
    (UNION {BlockTxs(m_blocks[i].id) :
              i \in 1..(IF pc \in {"popping", "popped"} THEN Height - 1 ELSE Height)})
    \cup (IF pc \in {"txs", "purge", "popping"} THEN Processed ELSE {})

\* m_transactions holds the transactions of the main chain and no others, each
\* under the height of the block it is in and at its own global output index,
\* and the outputs index has no other entry: a failed block or reorganisation
\* leaves nothing behind.
LedgerMatchesChain ==
    pool_refused \/
    /\ DOMAIN m_transactions = LedgerTxs
    /\ \A t \in DOMAIN m_transactions :
          LET e == m_transactions[t] IN
          /\ m_outputs[e.m_global_output_index] = t
          /\ e.m_keeper_block_height < Height => t \in BlockTxs(m_blocks[e.m_keeper_block_height + 1].id)
          /\ e.m_keeper_block_height >= Height => pc \in {"txs", "purge"}
    /\ \A i, h \in 1..Len(m_outputs) : m_outputs[i] = m_outputs[h] => i = h
    /\ Range(m_outputs) = DOMAIN m_transactions

\* A transaction the node has in a block or in the pool is lost only by
\* outliving its time in the pool: refusing a block, or switching chains and
\* failing half-way, drops none.
NoTxLost ==
    [][\A t \in Tx :
         t \in DOMAIN m_transactions \cup DOMAIN pool =>
            \/ t \in DOMAIN m_transactions' \cup DOMAIN pool'
            \/ remove_stuck_transactions(t)]_vars

\* A reorganisation that fails ends with the main chain it began with.  The one
\* exception is a disconnected block that contradicts a checkpoint by now.
FailedReorgRestores ==
    [][(pc # "idle" /\ pc' = "idle" /\ mode \in {"undo", "restore"}) =>
         \/ pool_refused
         \/ \E i \in DOMAIN disconnected_chain :
               ~check_block(split_height + i - 1, disconnected_chain[i])
         \/ /\ Height = split_height + Len(disconnected_chain)
            /\ \A i \in DOMAIN disconnected_chain :
                  m_blocks[split_height + i].id = disconnected_chain[i]]_vars

\* Pushing the disconnected chain back as alternative blocks never asks for
\* another reorganisation, which handle_alternative_block would start inside
\* the one that is running.
NoNestedReorg ==
    (pc = "walk" /\ mode = "push" /\ PathHead \notin DOMAIN m_alternative_chains /\ AltHeaderOk)
        => ~SwitchNeeded

\* Between two block operations no block is both in the main chain and in the
\* alternative chains, and none of either is marked invalid.
ContainersDisjoint ==
    pc = "idle" =>
        /\ DOMAIN m_blocks_index \cap DOMAIN m_alternative_chains = {}
        /\ DOMAIN m_blocks_index \cap m_invalid_blocks = {}
        /\ DOMAIN m_alternative_chains \cap m_invalid_blocks = {}

\* As long as no checkpoint is known, the node is on the heaviest chain it has
\* accepted: no alternative block, attached or left dangling by a failed
\* reorganisation, has more cumulative difficulty than the main chain.
HeaviestChain ==
    (pc = "idle" /\ DOMAIN m_checkpoints = {} /\ ~pool_refused) =>
        \A b \in DOMAIN m_alternative_chains :
            m_alternative_chains[b].cumulative_difficulty <= MainDifficulty

\* Once update_checkpoints has run, the main chain agrees with every checkpoint
\* at height 2 or above that it has reached, whatever blocks, reorganisations
\* and rollbacks came in between.
CheckpointsRespected ==
    (pc = "idle" /\ cp_pc = "idle" /\ ~pool_refused) =>
        \A h \in DOMAIN m_checkpoints :
            2 <= h /\ h < Height => m_blocks[h + 1].id = m_checkpoints[h]

\* Every block operation ends and releases the locks: no reorganisation, rollback
\* or purge loops for ever, whatever the height it stops at.
BlockOperationEnds == (pc # "idle") ~> (pc = "idle")

\* check_against_checkpoints: "if asked to enforce checkpoints, roll back to a
\* couple of blocks before the checkpoint", at every height.
CheckpointsEnforced ==
    (pc = "idle" /\ cp_pc = "idle") =>
        \A h \in DOMAIN m_checkpoints :
            h < Height => m_blocks[h + 1].id = m_checkpoints[h]

\* The assertion of purge_transaction_from_blockchain: the pool takes back every
\* transaction of a block that is taken off the main chain.
PurgedTxReturns == ~pool_refused
=============================================================================
