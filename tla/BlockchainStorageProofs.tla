-------------------------- MODULE BlockchainStorageProofs -------------------
(***************************************************************************)
(* Proofs about BlockchainStorage, for every block tree, every set of      *)
(* transactions and every sequence of checkpoints: the inductive invariant *)
(* IInv holds, and with it the types, the control, the index of the main   *)
(* chain and the absence of double spends; no transaction is lost; the     *)
(* ledger holds the transactions and outputs of the main chain; and the    *)
(* main chain agrees with the checkpoints update_checkpoints looked at.    *)
(* Then what the checks on a block leave behind in the ledger, where the   *)
(* block thread is in each routine and which heights a switch moves        *)
(* between, for the proofs about switches.                                 *)
(***************************************************************************)
EXTENDS BlockchainStorage, TLAPS

\* add_transaction_from_block: storing a transaction whose images are all
\* unspent keeps the spent set exact.
LEMMA AddKeepsImages ==
    ASSUME NEW t, SpentExact, ImagesDisjoint, CanAdd(t), add_transaction_from_block(t)
    PROVE  SpentExact' /\ ImagesDisjoint'
  <1>1. DOMAIN m_transactions' = DOMAIN m_transactions \cup {t}
    BY Zenon DEF add_transaction_from_block, Put
  <1>2. m_spent_keys' = m_spent_keys \cup KeyImages(t)
    BY Zenon DEF add_transaction_from_block, CanAdd
  <1>3. SpentExact'
    BY <1>1, <1>2, Zenon DEF SpentExact
  <1>4. \A u \in DOMAIN m_transactions : KeyImages(u) \cap KeyImages(t) = {}
    BY Zenon DEF SpentExact, CanAdd, KeyImageCollision
  <1>5. ImagesDisjoint'
    BY <1>1, <1>4, Zenon DEF ImagesDisjoint
  <1>. QED  BY <1>3, <1>5, Zenon

\* purge_transaction_keyimages_from_blockchain: when all images of a transaction
\* are there, its loop reaches the last one.
LEMMA PurgesAllImages ==
    ASSUME NEW t, KeyImages(t) \subseteq m_spent_keys
    PROVE  PurgedImages(t) = KeyImages(t)
  <1>1. CASE t \in Tx
    <2>1. Vin[t] \in Seq(KeyImage)
      BY <1>1, TxAssumption, Zenon
    <2>2. \A h \in DOMAIN Vin[t] : Vin[t][h] \in m_spent_keys
      BY <1>1, Zenon DEF KeyImages, Range
    <2>3. \A i \in DOMAIN Vin[t] : \A h \in 1..i : h \in DOMAIN Vin[t]
      BY <2>1
    <2>4. \A ki \in KeyImages(t) : \E i \in DOMAIN Vin[t] : Vin[t][i] = ki
      BY <1>1, Zenon DEF KeyImages, Range
    <2>. QED  BY <2>2, <2>3, <2>4, Zenon DEF PurgedImages
  <1>2. CASE t \notin Tx
    BY <1>2, Zenon DEF PurgedImages, KeyImages
  <1>. QED  BY <1>1, <1>2, Zenon

\* purge_transaction_from_blockchain: taking a stored transaction out takes
\* out its images and no one else's.
LEMMA PurgeKeepsImages ==
    ASSUME NEW t, SpentExact, ImagesDisjoint, purge_transaction_from_blockchain(t),
           ~pool_refused'
    PROVE  SpentExact' /\ ImagesDisjoint'
  <1>1. CASE t \notin DOMAIN m_transactions
    <2>1. UNCHANGED <<m_spent_keys, m_transactions>>
      BY <1>1, Zenon DEF purge_transaction_from_blockchain
    <2>. QED  BY <2>1, Zenon DEF SpentExact, ImagesDisjoint
  <1>2. CASE t \in DOMAIN m_transactions
    <2>1. m_transactions' = Without(m_transactions, {t})
      BY <1>2, Zenon DEF purge_transaction_from_blockchain
    <2>2. DOMAIN m_transactions' = DOMAIN m_transactions \ {t}
      BY <2>1, Zenon DEF Without
    <2>3. m_spent_keys' = m_spent_keys \ KeyImages(t)
      <3>1. KeyImages(t) \subseteq m_spent_keys
        BY <1>2, Zenon DEF SpentExact
      <3>. QED  BY <1>2, <3>1, PurgesAllImages, Zenon DEF purge_transaction_from_blockchain
    <2>4. ImagesDisjoint'
      BY <2>2, Zenon DEF ImagesDisjoint
    <2>5. ASSUME NEW ki PROVE ki \in m_spent_keys' <=>
             \E u \in DOMAIN m_transactions' : ki \in KeyImages(u)
      BY <1>2, <2>2, <2>3, Zenon DEF SpentExact, ImagesDisjoint
    <2>6. SpentExact'
      BY <2>5, Zenon DEF SpentExact
    <2>. QED  BY <2>4, <2>6, Zenon
  <1>. QED  BY <1>1, <1>2, Zenon
-----------------------------------------------------------------------------
(* The steps, by what they leave alone. *)

QuietMain ==
    \/ MainHeaderRefused \/ UnknownTx \/ WrongInputs \/ BlockRefused \/ ReturnAfterPurge
QuietPop == PopNext \/ PopGenesis \/ PopFailed
Enter == (\E b \in Block : add_new_block(b)) \/ CheckpointRollback
Leave == ReturnFromAdd \/ CheckpointRollbackDone
Outside ==
    \/ \E S \in SUBSET (DOMAIN Checkpoints \ DOMAIN m_checkpoints) : load_new_checkpoints(S)
    \/ check_against_checkpoints \/ CheckpointsPassed
    \/ \E t \in Tx, kept \in BOOLEAN : handle_incoming_tx(t, kept)
    \/ IncomingThread
    \/ \E t \in DOMAIN pool : remove_stuck_transactions(t)
    \/ \E b \in early : TimePasses(b)
Quiet ==
    \/ QuietMain \/ QuietPop \/ AltStep \/ SwitchStep \/ Enter \/ Leave \/ Outside
    \/ UNCHANGED vars

\* Every step of Next is one of these.
LEMMA NextCases ==
    ASSUME [Next]_vars
    PROVE  AddMinerTx \/ AddBlockTx \/ PurgeStep \/ PushBlock \/ PopBlock \/ Quiet
  BY Zenon DEF Next, BlockThread, MainStep, PopStep, CheckpointThread, Quiet, QuietMain, QuietPop,
         Enter, Leave, Outside

\* The other threads leave the block thread, the chain and the alternative
\* blocks alone.
LEMMA OutsideUnchanged ==
    ASSUME Outside
    PROVE  UNCHANGED <<control, chain, alts, pool_refused>>
  BY Zenon DEF Outside, load_new_checkpoints, check_against_checkpoints, CheckpointsPassed,
         handle_incoming_tx, IncomingThread, IncomingHaveTx, IncomingImages,
         IncomingInputs, IncomingInsert, remove_stuck_transactions, TimePasses

\* The main chain and the ledger change only where a transaction is added or
\* purged and where a block is pushed or popped.
LEMMA QuietUnchanged ==
    ASSUME Quiet
    PROVE  UNCHANGED <<chain, pool_refused>>
  <1>. USE DEF data
  <1>1. CASE QuietMain
    BY <1>1, Zenon DEF QuietMain, MainHeaderRefused, UnknownTx, WrongInputs, BlockRefused,
                ReturnAfterPurge
  <1>2. CASE QuietPop
    BY <1>2, Zenon DEF QuietPop, PopNext, PopGenesis, PopFailed
  <1>3. CASE AltStep
    BY <1>3, Zenon DEF AltStep, AltRefused, AltOrphaned, AltBegin, AltWalk, AltHeaderRefused,
                AddedAsAlternative, Reorganize
  <1>4. CASE SwitchStep
    BY <1>4, Zenon DEF SwitchStep, DisconnectDone, DisconnectFailed, ConnectNext, ConnectFailed,
                PushOldChain, PushNext, PushFailed, SwitchSucceeded, ReconnectFirst,
                ReconnectNext, UndoDone, RestoreDone
  <1>5. CASE Enter \/ Leave
    BY <1>5, Zenon DEF Enter, Leave, add_new_block, CheckpointRollback, ReturnFromAdd,
                CheckpointRollbackDone
  <1>6. CASE Outside
    BY <1>6, OutsideUnchanged, Zenon
  <1>7. CASE UNCHANGED vars
    BY <1>7, Zenon DEF vars
  <1>. QED  BY <1>1, <1>2, <1>3, <1>4, <1>5, <1>6, <1>7, Zenon DEF Quiet

-----------------------------------------------------------------------------
(* Key images. *)

\* No step of the node, by any thread, breaks NoDoubleSpend.
LEMMA NoDoubleSpendStep ==
    ASSUME TypeOK, NoDoubleSpend, [Next]_vars
    PROVE  NoDoubleSpend'
  <1>1. CASE AddMinerTx
    <2>1. CanAdd(MinerTx[bl]) /\ add_transaction_from_block(MinerTx[bl])
          /\ UNCHANGED pool_refused
      BY <1>1, Zenon DEF AddMinerTx
    <2>. QED  BY <2>1, AddKeepsImages, Zenon DEF NoDoubleSpend
  <1>2. CASE AddBlockTx
    <2>1. /\ add_transaction_from_block(NextTx) /\ check_tx_inputs(NextTx)
          /\ NextTx \in DOMAIN pool /\ UNCHANGED pool_refused
      BY <1>2, Zenon DEF AddBlockTx
    <2>2. NextTx \in Tx
      BY <2>1, Zenon DEF TypeOK, PoolTypeOK
    <2>3. KeyImages(NextTx) \cap m_spent_keys = {}
      BY <2>1, Zenon DEF check_tx_inputs
    <2>4. KeyImages(NextTx) # {}
      <3>1. Vin[NextTx] \in Seq(KeyImage) /\ Vin[NextTx] # <<>>
        BY <2>2, TxAssumption, Zenon
      <3>2. 1 \in DOMAIN Vin[NextTx]
        BY <3>1
      <3>. QED  BY <2>2, <3>2, Zenon DEF KeyImages, Range
    <2>5. ASSUME ~pool_refused PROVE CanAdd(NextTx)
      BY <2>3, <2>4, <2>5, Zenon DEF CanAdd, KeyImageCollision, NoDoubleSpend, SpentExact
    <2>. QED  BY <2>1, <2>5, AddKeepsImages, Zenon DEF NoDoubleSpend
  <1>3. CASE PurgeStep
    <2>1. purge_transaction_from_blockchain(PurgedTx)
      BY <1>3, Zenon DEF PurgeStep
    <2>2. pool_refused => pool_refused'
      BY <2>1, Zenon DEF purge_transaction_from_blockchain
    <2>. QED  BY <2>1, <2>2, PurgeKeepsImages, Zenon DEF NoDoubleSpend
  <1>4. CASE PushBlock \/ PopBlock
    BY <1>4, Zenon DEF PushBlock, PopBlock, NoDoubleSpend, SpentExact, ImagesDisjoint
  <1>5. CASE Quiet
    BY <1>5, QuietUnchanged, Zenon DEF chain, NoDoubleSpend, SpentExact, ImagesDisjoint
  <1>. QED  BY <1>1, <1>2, <1>3, <1>4, <1>5, NextCases, Zenon
-----------------------------------------------------------------------------
(* The main chain and its index. *)

\* Pushing on the tail and popping the tail keep the index the inverse of the
\* chain, and the chain linked.
LEMMA ChainIndexedStep ==
    ASSUME TypeOK, ControlInv, ChainIndexed, [Next]_vars
    PROVE  ChainIndexed'
  <1>1. CASE PushBlock
    <2>1. /\ bl \in Block /\ bl \notin DOMAIN m_blocks_index /\ PrevId[bl] = m_blocks[Height].id
          /\ m_blocks_index' = Put(m_blocks_index, bl, Height)
          /\ m_blocks' = Append(m_blocks, [id |-> bl,
                cumulative_difficulty |-> m_blocks[Height].cumulative_difficulty + Difficulty[bl]])
      BY <1>1, Zenon DEF PushBlock, PushedEntry, ControlInv, get_tail_id, MainDifficulty, TypeOK,
                  ControlTypeOK
    <2>2. m_blocks \in Seq(BlockEntry)
      BY Zenon DEF TypeOK, ChainTypeOK
    <2>3. /\ Len(m_blocks') = Height + 1
          /\ \A i \in 1..Height : m_blocks'[i] = m_blocks[i]
          /\ m_blocks'[Height + 1].id = bl
          /\ m_blocks'[Height + 1].cumulative_difficulty =
                m_blocks[Height].cumulative_difficulty + Difficulty[bl]
      BY <2>1, <2>2 DEF Height
    <2>4. Height \in Nat
      BY <2>2 DEF Height
    <2>5. DOMAIN m_blocks_index' = DOMAIN m_blocks_index \cup {bl}
          /\ m_blocks_index'[bl] = Height
          /\ \A b \in DOMAIN m_blocks_index : m_blocks_index'[b] = m_blocks_index[b]
      BY <2>1, Zenon DEF Put
    <2>6. Height > 0 /\ m_blocks[1].id = Genesis
      BY Zenon DEF ChainIndexed
    <2>7. Height' = Height + 1
      BY <2>3, Zenon DEF Height
    <2>8. ASSUME NEW i \in 1..Height'
          PROVE  /\ m_blocks'[i].id \in DOMAIN m_blocks_index'
                 /\ m_blocks_index'[m_blocks'[i].id] = i - 1
      <3>1. CASE i = Height + 1
        BY <3>1, <2>3, <2>4, <2>5
      <3>2. CASE i \in 1..Height
        <4>1. /\ m_blocks[i].id \in DOMAIN m_blocks_index
              /\ m_blocks_index[m_blocks[i].id] = i - 1
          BY <3>2, Zenon DEF ChainIndexed
        <4>. QED  BY <4>1, <3>2, <2>3, <2>5, Zenon
      <3>. QED  BY <3>1, <3>2, <2>4, <2>7
    <2>9. ASSUME NEW b \in DOMAIN m_blocks_index'
          PROVE  \E i \in 1..Height' : m_blocks'[i].id = b
      <3>1. CASE b = bl
        BY <3>1, <2>3, <2>4, <2>7
      <3>2. CASE b \in DOMAIN m_blocks_index
        <4>1. PICK i \in 1..Height : m_blocks[i].id = b
          BY <3>2, Zenon DEF ChainIndexed
        <4>. QED  BY <4>1, <2>3, <2>4, <2>7
      <3>. QED  BY <3>1, <3>2, <2>5, Zenon
    <2>10. ASSUME NEW i \in 2..Height'
           PROVE  /\ PrevId[m_blocks'[i].id] = m_blocks'[i - 1].id
                  /\ m_blocks'[i].cumulative_difficulty =
                        m_blocks'[i - 1].cumulative_difficulty + Difficulty[m_blocks'[i].id]
      <3>1. CASE i = Height + 1
        BY <3>1, <2>1, <2>3, <2>4, <2>6
      <3>2. CASE i \in 2..Height
        <4>1. /\ PrevId[m_blocks[i].id] = m_blocks[i - 1].id
              /\ m_blocks[i].cumulative_difficulty =
                    m_blocks[i - 1].cumulative_difficulty + Difficulty[m_blocks[i].id]
          BY <3>2, Zenon DEF ChainIndexed
        <4>2. m_blocks'[i] = m_blocks[i] /\ m_blocks'[i - 1] = m_blocks[i - 1]
          BY <3>2, <2>3, <2>4
        <4>. QED  BY <4>1, <4>2, Zenon
      <3>. QED  BY <3>1, <3>2, <2>4, <2>7
    <2>11. Height' > 0 /\ m_blocks'[1].id = Genesis
      BY <2>3, <2>4, <2>6, <2>7
    <2>12. DOMAIN m_blocks_index' = {m_blocks'[i].id : i \in 1..Height'}
      BY <2>8, <2>9, Zenon
    <2>. QED  BY <2>8, <2>10, <2>11, <2>12, Zenon DEF ChainIndexed
  <1>2. CASE PopBlock
    <2>1. /\ Height > 1 /\ bl = m_blocks[Height].id
          /\ m_blocks_index' = Without(m_blocks_index, {bl})
          /\ m_blocks' = SubSeq(m_blocks, 1, Height - 1)
      BY <1>2, Zenon DEF PopBlock, ControlInv, get_tail_id
    <2>2. m_blocks \in Seq(BlockEntry)
      BY Zenon DEF TypeOK, ChainTypeOK
    <2>3. /\ Height \in Nat /\ Len(m_blocks') = Height - 1
          /\ \A i \in 1..(Height - 1) : m_blocks'[i] = m_blocks[i]
      BY <2>1, <2>2 DEF Height
    <2>4. \A i \in 1..Height : /\ m_blocks[i].id \in DOMAIN m_blocks_index
                              /\ m_blocks_index[m_blocks[i].id] = i - 1
      BY Zenon DEF ChainIndexed
    <2>5. Height \in 1..Height /\ Height' = Height - 1
      BY <2>1, <2>3 DEF Height
    <2>6. \A i \in 1..(Height - 1) : m_blocks[i].id # bl
      BY <2>1, <2>3, <2>4, <2>5
    <2>7. /\ DOMAIN m_blocks_index' = DOMAIN m_blocks_index \ {bl}
          /\ \A b \in DOMAIN m_blocks_index' : m_blocks_index'[b] = m_blocks_index[b]
      BY <2>1, Zenon DEF Without
    <2>8. \A i \in 1..Height' : /\ m_blocks'[i].id \in DOMAIN m_blocks_index'
                               /\ m_blocks_index'[m_blocks'[i].id] = i - 1
      <3>. TAKE i \in 1..Height'
      <3>1. i \in 1..(Height - 1) /\ i \in 1..Height
        BY <2>3, <2>5
      <3>. QED  BY <3>1, <2>3, <2>4, <2>6, <2>7, Zenon
    <2>9. ASSUME NEW b \in DOMAIN m_blocks_index'
          PROVE  \E i \in 1..Height' : m_blocks'[i].id = b
      <3>1. PICK i \in 1..Height : m_blocks[i].id = b
        BY <2>7, Zenon DEF ChainIndexed
      <3>2. i # Height
        BY <3>1, <2>1, <2>7, Zenon
      <3>. QED  BY <3>1, <3>2, <2>3, <2>5
    <2>10. ASSUME NEW i \in 2..Height'
           PROVE  /\ PrevId[m_blocks'[i].id] = m_blocks'[i - 1].id
                  /\ m_blocks'[i].cumulative_difficulty =
                        m_blocks'[i - 1].cumulative_difficulty + Difficulty[m_blocks'[i].id]
      <3>1. i \in 2..Height /\ m_blocks'[i] = m_blocks[i] /\ m_blocks'[i - 1] = m_blocks[i - 1]
        BY <2>3, <2>5
      <3>. QED  BY <3>1, Zenon DEF ChainIndexed
    <2>11. Height' > 0 /\ m_blocks'[1].id = Genesis
      <3>1. m_blocks[1].id = Genesis
        BY Zenon DEF ChainIndexed
      <3>. QED  BY <3>1, <2>1, <2>3, <2>5
    <2>12. DOMAIN m_blocks_index' = {m_blocks'[i].id : i \in 1..Height'}
      BY <2>8, <2>9, Zenon
    <2>. QED  BY <2>8, <2>10, <2>11, <2>12, Zenon DEF ChainIndexed
  <1>3. CASE AddMinerTx \/ AddBlockTx \/ PurgeStep
    BY <1>3, Zenon DEF AddMinerTx, AddBlockTx, PurgeStep, ChainIndexed, Height
  <1>4. CASE Quiet
    BY <1>4, QuietUnchanged, Zenon DEF chain, ChainIndexed, Height
  <1>. QED  BY <1>1, <1>2, <1>3, <1>4, NextCases, Zenon
-----------------------------------------------------------------------------
(* The positions of the block thread. *)

\* Where a routine enters one of the guarded positions it has just made sure of
\* what ControlInv asks for there.
LEMMA ControlInvStep ==
    ASSUME TypeOK, ControlInv, ChainIndexed, [Next]_vars
    PROVE  ControlInv'
  <1>. USE DEF data, chain, alts, mempool, env, frame, control
  <1>0. /\ m_blocks \in Seq(BlockEntry)
        /\ Height \in Nat /\ split_height \in Nat /\ path \in Seq(Block) /\ bl \in Block
        /\ disconnected_chain \in Seq(Block)
    BY DEF TypeOK, ChainTypeOK, ControlTypeOK, Height
  <1>1. CASE AddMinerTx \/ AddBlockTx
    BY <1>1, Zenon DEF AddMinerTx, AddBlockTx, MainHeaderOk, ControlInv, get_tail_id, Height
  <1>15. CASE PurgeStep
    <2>1. n \in Nat
      BY Zenon DEF TypeOK, ControlTypeOK
    <2>2. \/ pc = "purge" /\ pc' \in {"purge", "purged"}
          \/ pc = "popping" /\ pc' \in {"popping", "popped"}
      BY <1>15, <2>1 DEF PurgeStep
    <2>. QED  BY <1>15, <2>2, Zenon DEF PurgeStep, ControlInv, get_tail_id, Height
  <1>2. CASE QuietMain
    BY <1>2, Zenon DEF QuietMain, MainHeaderRefused, UnknownTx, WrongInputs, BlockRefused,
                ReturnAfterPurge, Return, ControlInv, get_tail_id, Height
  <1>3. CASE PushBlock
    <2>1. Height' = Height + 1
      BY <1>3, <1>0 DEF PushBlock, Height
    <2>2. pc' = "ret" /\ UNCHANGED <<mode, alt_chain, disconnected_chain, split_height>>
      BY <1>3, Zenon DEF PushBlock, Return
    <2>. QED  BY <1>0, <2>1, <2>2 DEF ControlInv
  <1>4. CASE PopBlock
    <2>1. disconnected_chain # <<>> => disconnected_chain' # <<>>
      BY <1>4, <1>0 DEF PopBlock
    <2>2. mode = "disconnect" => disconnected_chain' # <<>>
      BY <1>4, <1>0 DEF PopBlock
    <2>. QED  BY <1>4, <2>1, <2>2, Zenon DEF PopBlock, ControlInv
  <1>5. CASE QuietPop
    BY <1>5, Zenon DEF QuietPop, PopNext, PopGenesis, PopFailed, Return, ControlInv, get_tail_id, Height
  <1>6. CASE AltRefused \/ AltOrphaned \/ AltHeaderRefused \/ AddedAsAlternative
    BY <1>6, Zenon DEF AltRefused, AltOrphaned, AltHeaderRefused, AddedAsAlternative, Return,
                ControlInv, get_tail_id, Height
  <1>7. CASE AltBegin
    BY <1>7, Zenon DEF AltBegin, ControlInv, get_tail_id, Height
  <1>8. CASE AltWalk
    <2>1. PrevId[bl] \in DOMAIN m_alternative_chains
      BY <1>8, Zenon DEF AltWalk, PathHead, ControlInv
    <2>2. path'[1] \in DOMAIN m_alternative_chains
      <3>1. (<<PathHead>> \o path)[1] = PathHead
        BY <1>0
      <3>. QED  BY <1>8, <3>1, Zenon DEF AltWalk
    <2>. QED  BY <1>8, <2>1, <2>2, Zenon DEF AltWalk, ControlInv, get_tail_id, Height
  <1>9. CASE Reorganize
    <2>1. Append(path, bl) # <<>>
      BY <1>0
    <2>2. Height > split_height'
      <3>1. CASE path # <<>>
        BY <1>9, <3>1, <1>0, Zenon DEF Reorganize, AltHeaderOk, PathConnects
      <3>2. CASE path = <<>>
        <4>1. /\ PrevId[bl] \in DOMAIN m_blocks_index /\ PrevId[bl] # m_blocks[Height].id
              /\ split_height' = m_blocks_index[PrevId[bl]] + 1
          BY <1>9, <3>2, Zenon DEF Reorganize, PathHead, ControlInv, get_tail_id, AltHeight
        <4>2. PICK i \in 1..Height : m_blocks[i].id = PrevId[bl]
          BY <4>1, Zenon DEF ChainIndexed
        <4>3. m_blocks_index[PrevId[bl]] = i - 1
          BY <4>2, Zenon DEF ChainIndexed
        <4>. QED  BY <4>1, <4>2, <4>3, <1>0
      <3>. QED  BY <3>1, <3>2, Zenon
    <2>. QED  BY <1>9, <2>1, <2>2, Zenon DEF Reorganize, ControlInv, get_tail_id, Height
  <1>10. CASE DisconnectDone
    BY <1>10, <1>0 DEF DisconnectDone, ConnectBlock, ControlInv, get_tail_id, Height
  <1>11. CASE ConnectNext \/ ConnectFailed \/ PushOldChain \/ PushNext \/ PushFailed
              \/ ReconnectFirst \/ ReconnectNext
    BY <1>11, Zenon DEF ConnectNext, ConnectFailed, PushOldChain, PushNext, PushFailed,
                 ReconnectFirst, ReconnectNext, ConnectBlock, PushOldBlock, ReconnectBlock,
                 ControlInv, get_tail_id, Height
  <1>12. CASE DisconnectFailed \/ SwitchSucceeded \/ UndoDone \/ RestoreDone \/ Leave
    BY <1>12, Zenon DEF DisconnectFailed, SwitchSucceeded, UndoDone, RestoreDone, Leave,
                 ReturnFromAdd, CheckpointRollbackDone, Finish, ControlInv
  <1>13. CASE Enter
    BY <1>13, Zenon DEF Enter, add_new_block, CheckpointRollback, ControlInv, get_tail_id, Height
  <1>14. CASE Outside \/ UNCHANGED vars
    BY <1>14, OutsideUnchanged, Zenon DEF vars, ControlInv, get_tail_id, Height
  <1>. QED
    BY <1>1, <1>2, <1>3, <1>4, <1>5, <1>6, <1>7, <1>8, <1>9, <1>10, <1>11, <1>12, <1>13,
       <1>14, <1>15, NextCases, Zenon DEF Quiet, AltStep, SwitchStep
-----------------------------------------------------------------------------
(* Types. *)

\* The inputs of a transaction are key images.
LEMMA KeyImagesTyped ==
    ASSUME NEW t PROVE KeyImages(t) \subseteq KeyImage
  <1>1. CASE t \in Tx
    <2>1. Vin[t] \in Seq(KeyImage)
      BY <1>1, TxAssumption, Zenon
    <2>2. \A i \in DOMAIN Vin[t] : Vin[t][i] \in KeyImage
      BY <2>1
    <2>. QED  BY <1>1, <2>2, Zenon DEF KeyImages, Range
  <1>2. CASE t \notin Tx
    BY <1>2, Zenon DEF KeyImages
  <1>. QED  BY <1>1, <1>2, Zenon

\* add_tx and remove_transaction_keyimages keep m_spent_key_images a map from
\* images to sets of transactions.
LEMMA ImagesTyped ==
    ASSUME NEW images \in [KeyImage -> SUBSET Tx], NEW t \in Tx, NEW kept
    PROVE  /\ ImagesAfterAdd(images, t, kept) \in [KeyImage -> SUBSET Tx]
           /\ remove_transaction_keyimages(images, t) \in [KeyImage -> SUBSET Tx]
  <1>1. ASSUME NEW ki \in KeyImage
        PROVE  images[ki] \cup {t} \in SUBSET Tx /\ images[ki] \in SUBSET Tx
               /\ images[ki] \ {t} \in SUBSET Tx
    OBVIOUS
  <1>2. ImagesAfterAdd(images, t, kept) \in [KeyImage -> SUBSET Tx]
    BY <1>1, Zenon DEF ImagesAfterAdd
  <1>3. remove_transaction_keyimages(images, t) \in [KeyImage -> SUBSET Tx]
    BY <1>1, Zenon DEF remove_transaction_keyimages
  <1>. QED  BY <1>2, <1>3, Zenon

\* add_transaction_from_block keeps the types of the ledger.
LEMMA AddTyped ==
    ASSUME ChainTypeOK, NEW t \in AllTx, add_transaction_from_block(t)
    PROVE  /\ DOMAIN m_transactions' \subseteq AllTx
           /\ \A u \in DOMAIN m_transactions' : m_transactions'[u] \in
                 [m_keeper_block_height : Nat, m_global_output_index : Nat]
           /\ m_spent_keys' \subseteq KeyImage
           /\ m_outputs' \in Seq(AllTx)
  <1>1. m_blocks \in Seq(BlockEntry) /\ m_outputs \in Seq(AllTx)
    BY Zenon DEF ChainTypeOK
  <1>2. Height \in Nat /\ Len(m_outputs) + 1 \in Nat /\ Append(m_outputs, t) \in Seq(AllTx)
    BY <1>1 DEF Height
  <1>3. m_spent_keys' \subseteq KeyImage
    BY KeyImagesTyped, Zenon DEF add_transaction_from_block, ChainTypeOK
  <1>4. m_outputs' \in Seq(AllTx)
    BY <1>1, <1>2, Zenon DEF add_transaction_from_block
  <1>5. /\ DOMAIN m_transactions' \subseteq AllTx
        /\ \A u \in DOMAIN m_transactions' : m_transactions'[u] \in
              [m_keeper_block_height : Nat, m_global_output_index : Nat]
    BY <1>2, Zenon DEF add_transaction_from_block, ChainTypeOK, Put
  <1>. QED  BY <1>3, <1>4, <1>5, Zenon

\* Adding, purging, pushing and popping keep the types of the main chain, the
\* stored transactions, the spent images and the outputs index.
LEMMA ChainTypeStep ==
    ASSUME TypeOK, ControlInv, ChainIndexed, [Next]_vars
    PROVE  ChainTypeOK'
  <1>0. ChainTypeOK /\ bl \in Block /\ DOMAIN pool \subseteq Tx
    BY Zenon DEF TypeOK, ControlTypeOK, PoolTypeOK
  <1>7. Height > 0
    BY Zenon DEF ChainIndexed
  <1>1. CASE AddMinerTx
    <2>1. MinerTx[bl] \in AllTx
      BY <1>0, Zenon DEF AllTx, Coinbase
    <2>2. add_transaction_from_block(MinerTx[bl]) /\ UNCHANGED <<m_blocks, m_blocks_index, pool_refused>>
      BY <1>1, Zenon DEF AddMinerTx
    <2>. QED  BY <1>0, <2>1, <2>2, AddTyped, Zenon DEF ChainTypeOK
  <1>2. CASE AddBlockTx
    <2>1. NextTx \in AllTx
      BY <1>0, <1>2, Zenon DEF AddBlockTx, AllTx
    <2>2. add_transaction_from_block(NextTx) /\ UNCHANGED <<m_blocks, m_blocks_index, pool_refused>>
      BY <1>2, Zenon DEF AddBlockTx
    <2>. QED  BY <1>0, <2>1, <2>2, AddTyped, Zenon DEF ChainTypeOK
  <1>3. CASE PurgeStep
    <2>1. purge_transaction_from_blockchain(PurgedTx) /\ UNCHANGED <<m_blocks, m_blocks_index>>
      BY <1>3, Zenon DEF PurgeStep
    <2>2. m_spent_keys' \subseteq KeyImage
      BY <1>0, <2>1, Zenon DEF purge_transaction_from_blockchain, ChainTypeOK
    <2>3. pool_refused' \in BOOLEAN
      BY <1>0, <2>1, Zenon DEF purge_transaction_from_blockchain, ChainTypeOK
    <2>4. m_outputs' \in Seq(AllTx)
      <3>1. m_outputs \in Seq(AllTx)
        BY <1>0, Zenon DEF ChainTypeOK
      <3>2. m_outputs # <<>> => SubSeq(m_outputs, 1, Len(m_outputs) - 1) \in Seq(AllTx)
        BY <3>1
      <3>. QED  BY <2>1, <3>1, <3>2, Zenon DEF purge_transaction_from_blockchain
    <2>5. m_transactions' = m_transactions \/ m_transactions' = Without(m_transactions, {PurgedTx})
      BY <2>1, Zenon DEF purge_transaction_from_blockchain
    <2>6. /\ DOMAIN m_transactions' \subseteq AllTx
          /\ \A u \in DOMAIN m_transactions' : m_transactions'[u] \in
                [m_keeper_block_height : Nat, m_global_output_index : Nat]
      BY <1>0, <2>5, Zenon DEF Without, ChainTypeOK
    <2>. QED  BY <1>0, <2>1, <2>2, <2>3, <2>4, <2>6, Zenon DEF ChainTypeOK
  <1>4. CASE PushBlock
    <2>1. m_blocks \in Seq(BlockEntry) /\ Height \in 1..Len(m_blocks)
      BY <1>0, <1>7 DEF ChainTypeOK, Height
    <2>5. m_blocks[Height] \in BlockEntry
      BY <2>1
    <2>6. Difficulty[bl] \in Nat /\ Height \in Nat
      BY <1>0, <2>1, BlockAssumption
    <2>2. Height \in Nat /\ MainDifficulty + Difficulty[bl] \in Nat
      BY <2>5, <2>6 DEF MainDifficulty, BlockEntry
    <2>3. m_blocks' \in Seq(BlockEntry)
      <3>1. PushedEntry(bl) \in BlockEntry
        BY <1>0, <2>2, Zenon DEF BlockEntry, PushedEntry
      <3>. QED  BY <1>4, <2>1, <3>1 DEF PushBlock
    <2>4. DOMAIN m_blocks_index' \subseteq Block /\ \A b \in DOMAIN m_blocks_index' : m_blocks_index'[b] \in Nat
      BY <1>0, <1>4, <2>2, Zenon DEF PushBlock, Put, ChainTypeOK
    <2>. QED  BY <1>0, <1>4, <2>3, <2>4, Zenon DEF PushBlock, ChainTypeOK
  <1>5. CASE PopBlock
    <2>1. m_blocks \in Seq(BlockEntry) /\ Height \in 1..Len(m_blocks)
      BY <1>0, <1>7 DEF ChainTypeOK, Height
    <2>2. m_blocks' \in Seq(BlockEntry)
      <3>1. m_blocks' = SubSeq(m_blocks, 1, Height - 1)
        BY <1>5, Zenon DEF PopBlock
      <3>. QED  BY <2>1, <3>1
    <2>3. DOMAIN m_blocks_index' \subseteq Block /\ \A b \in DOMAIN m_blocks_index' : m_blocks_index'[b] \in Nat
      BY <1>0, <1>5, Zenon DEF PopBlock, Without, ChainTypeOK
    <2>. QED  BY <1>0, <1>5, <2>2, <2>3, Zenon DEF PopBlock, ChainTypeOK
  <1>6. CASE Quiet
    BY <1>0, <1>6, QuietUnchanged, Zenon DEF chain, ChainTypeOK
  <1>. QED  BY <1>1, <1>2, <1>3, <1>4, <1>5, <1>6, NextCases, Zenon

\* bei.height and bei.cumulative_difficulty are numbers: the parent handle_
\* alternative_block reads them from is in the container it looks in.
LEMMA AltTyped ==
    ASSUME TypeOK, ControlInv, ChainIndexed, pc = "walk",
           PathHead \notin DOMAIN m_alternative_chains
    PROVE  AltHeight \in Nat /\ AltDifficulty \in Nat
  <1>1. bl \in Block /\ Difficulty[bl] \in Nat
    BY BlockAssumption, Zenon DEF TypeOK, ControlTypeOK
  <1>2. CASE path # <<>>
    <2>1. PrevId[bl] \in DOMAIN m_alternative_chains
      BY <1>2, Zenon DEF ControlInv
    <2>2. m_alternative_chains[PrevId[bl]] \in [height : Nat, cumulative_difficulty : Nat]
      BY <2>1, Zenon DEF TypeOK, AltTypeOK
    <2>. QED  BY <1>1, <1>2, <2>2 DEF AltHeight, AltDifficulty
  <1>3. CASE path = <<>>
    <2>1. PrevId[bl] \in DOMAIN m_blocks_index
      BY <1>3, Zenon DEF ControlInv, PathHead
    <2>2. PICK i \in 1..Height : m_blocks[i].id = PrevId[bl]
      BY <2>1, Zenon DEF ChainIndexed
    <2>3. m_blocks_index[PrevId[bl]] = i - 1
      BY <2>2, Zenon DEF ChainIndexed
    <2>4. m_blocks \in Seq(BlockEntry)
      BY Zenon DEF TypeOK, ChainTypeOK
    <2>7. m_blocks[i] \in BlockEntry
      BY <2>4 DEF Height
    <2>5. m_blocks[i].cumulative_difficulty \in Nat /\ i \in Nat /\ i >= 1
      BY <2>7 DEF BlockEntry
    <2>6. AltHeight = i /\ AltDifficulty = Difficulty[bl] + m_blocks[i].cumulative_difficulty
      BY <1>3, <2>3, <2>5 DEF AltHeight, AltDifficulty
    <2>. QED  BY <1>1, <2>5, <2>6
  <1>. QED  BY <1>2, <1>3, Zenon

\* handle_alternative_block and the switch keep the types of the alternative
\* and invalid blocks.
LEMMA AltTypeStep ==
    ASSUME TypeOK, ControlInv, ChainIndexed, [Next]_vars
    PROVE  AltTypeOK'
  <1>. USE DEF data, alts
  <1>0. /\ AltTypeOK /\ bl \in Block /\ alt_chain \in Seq(Block) /\ k \in Nat
    BY Zenon DEF TypeOK, ControlTypeOK
  <1>1. CASE AddMinerTx \/ AddBlockTx \/ PurgeStep \/ PushBlock \/ PopBlock
    BY <1>0, <1>1, Zenon DEF AddMinerTx, AddBlockTx, PurgeStep, PushBlock, PopBlock, AltTypeOK
  <1>2. CASE QuietMain \/ QuietPop \/ Enter \/ Leave
    BY <1>0, <1>2, Zenon DEF QuietMain, MainHeaderRefused, UnknownTx, WrongInputs, BlockRefused,
       ReturnAfterPurge, QuietPop, PopNext, PopGenesis, PopFailed, Enter, add_new_block,
       CheckpointRollback, Leave, ReturnFromAdd, CheckpointRollbackDone, AltTypeOK
  <1>3. CASE AddedAsAlternative \/ Reorganize
    <2>1. AltHeight \in Nat /\ AltDifficulty \in Nat
      BY <1>3, AltTyped, Zenon DEF AddedAsAlternative, Reorganize
    <2>2. InsertAlternative /\ UNCHANGED m_invalid_blocks
      BY <1>3, Zenon DEF AddedAsAlternative, Reorganize
    <2>. QED  BY <1>0, <2>1, <2>2, Zenon DEF InsertAlternative, Put, AltTypeOK
  <1>4. CASE AltRefused \/ AltOrphaned \/ AltBegin \/ AltWalk \/ AltHeaderRefused
    BY <1>0, <1>4, Zenon DEF AltRefused, AltOrphaned, AltBegin, AltWalk, AltHeaderRefused, AltTypeOK
  <1>5. CASE SwitchSucceeded \/ UndoDone
    <2>1. PICK S : m_alternative_chains' = Without(m_alternative_chains, S)
      BY <1>5, Zenon DEF SwitchSucceeded, UndoDone
    <2>2. \A i \in DOMAIN alt_chain : alt_chain[i] \in Block
      BY <1>0
    <2>3. m_invalid_blocks' \subseteq Block
      BY <1>0, <1>5, <2>2 DEF SwitchSucceeded, UndoDone, AltTypeOK
    <2>. QED  BY <1>0, <2>1, <2>3, Zenon DEF Without, AltTypeOK
  <1>6. CASE DisconnectDone \/ DisconnectFailed \/ ConnectNext \/ ConnectFailed
             \/ PushOldChain \/ PushNext \/ PushFailed \/ ReconnectFirst \/ ReconnectNext
             \/ RestoreDone
    BY <1>0, <1>6, Zenon DEF DisconnectDone, DisconnectFailed, ConnectNext, ConnectFailed,
       PushOldChain, PushNext, PushFailed, ReconnectFirst, ReconnectNext, RestoreDone,
       AltTypeOK
  <1>7. CASE Outside \/ UNCHANGED vars
    BY <1>0, <1>7, OutsideUnchanged, Zenon DEF vars, AltTypeOK
  <1>. QED  BY <1>1, <1>2, <1>3, <1>4, <1>5, <1>6, <1>7, NextCases, Zenon DEF Quiet, AltStep, SwitchStep

-----------------------------------------------------------------------------
\* The pool stays a map from transactions to kept_by_block when one is inserted
\* or erased.
PoolMap(f) == DOMAIN f \subseteq Tx /\ \A t \in DOMAIN f : f[t] \in BOOLEAN
\* Inserting in tx_memory_pool's m_transactions keeps its type.
LEMMA PoolMapTyped ==
    ASSUME NEW f, PoolMap(f), NEW t, NEW kept \in BOOLEAN
    PROVE  PoolMap(Without(f, {t})) /\ (t \in Tx => PoolMap(Put(f, t, kept)))
  <1>1. PoolMap(Without(f, {t}))
    BY Zenon DEF PoolMap, Without
  <1>2. ASSUME t \in Tx PROVE PoolMap(Put(f, t, kept))
    <2>1. DOMAIN Put(f, t, kept) = DOMAIN f \cup {t}
      BY Zenon DEF Put
    <2>2. ASSUME NEW u \in DOMAIN f \cup {t} PROVE Put(f, t, kept)[u] \in BOOLEAN
      <3>1. Put(f, t, kept)[u] = IF u = t THEN kept ELSE f[u]
        BY Zenon DEF Put
      <3>2. u # t => f[u] \in BOOLEAN
        BY Zenon DEF PoolMap
      <3>. QED  BY <3>1, <3>2, Zenon
    <2>. QED  BY <1>2, <2>1, <2>2, Zenon DEF PoolMap
  <1>. QED  BY <1>1, <1>2, Zenon

\* add_tx, take_tx, the purge and the expiry keep the types of the pool and of
\* its key image map.
LEMMA PoolTypeStep ==
    ASSUME TypeOK, [Next]_vars
    PROVE  PoolTypeOK'
  <1>. USE DEF data, mempool
  <1>0. /\ PoolMap(pool) /\ DOMAIN pool \subseteq Tx
        /\ pool_images \in [KeyImage -> SUBSET Tx]
    BY Zenon DEF TypeOK, PoolTypeOK, PoolMap
  <1>11. SUFFICES PoolMap(pool') /\ pool_images' \in [KeyImage -> SUBSET Tx]
    BY Zenon DEF PoolTypeOK, PoolMap
  <1>12. (incoming.pc # "idle" => incoming.tx \in Tx) /\ incoming.kept \in BOOLEAN
    BY Zenon DEF TypeOK, IncomingTypeOK
  <1>1. CASE WrongInputs \/ AddBlockTx
    <2>1. NextTx \in Tx
      BY <1>0, <1>1, Zenon DEF WrongInputs, AddBlockTx
    <2>2. pool' = Put(pool, NextTx, TRUE) \/ pool' = Without(pool, {NextTx})
      BY <1>1, Zenon DEF WrongInputs, AddBlockTx, Take, GiveBack
    <2>3. PoolMap(pool')
      <3>1. PoolMap(Put(pool, NextTx, TRUE)) /\ PoolMap(Without(pool, {NextTx}))
        BY <1>0, <2>1, PoolMapTyped, Zenon
      <3>. QED  BY <2>2, <3>1, Zenon
    <2>4. remove_transaction_keyimages(pool_images, NextTx) \in [KeyImage -> SUBSET Tx]
      BY <1>0, <2>1, ImagesTyped, Zenon
    <2>5. ImagesAfterAdd(remove_transaction_keyimages(pool_images, NextTx), NextTx, TRUE)
            \in [KeyImage -> SUBSET Tx]
      BY <2>1, <2>4, ImagesTyped, Zenon
    <2>6. pool_images' \in [KeyImage -> SUBSET Tx]
      BY <1>1, <2>4, <2>5, Zenon DEF WrongInputs, AddBlockTx, Take, GiveBack
    <2>. QED  BY <2>3, <2>6, Zenon
  <1>2. CASE PurgeStep
    <2>1. purge_transaction_from_blockchain(PurgedTx)
      BY <1>2, Zenon DEF PurgeStep
    <2>2. CASE PurgedTx \in Tx
      <3>1. ImagesAfterAdd(pool_images, PurgedTx, TRUE) \in [KeyImage -> SUBSET Tx]
        BY <1>0, <2>2, ImagesTyped, Zenon
      <3>2. pool_images' \in [KeyImage -> SUBSET Tx]
        BY <1>0, <2>1, <3>1, Zenon DEF purge_transaction_from_blockchain
      <3>3. pool' = pool \/ pool' = Put(pool, PurgedTx, TRUE)
        BY <2>1, Zenon DEF purge_transaction_from_blockchain
      <3>4. PoolMap(Put(pool, PurgedTx, TRUE))
        BY <1>0, <2>2, PoolMapTyped, Zenon
      <3>. QED  BY <1>0, <3>2, <3>3, <3>4, Zenon
    <2>3. CASE PurgedTx \notin Tx
      <3>1. pool' = pool /\ pool_images' = pool_images
        BY <2>1, <2>3, Zenon DEF purge_transaction_from_blockchain
      <3>. QED  BY <1>0, <3>1, Zenon
    <2>. QED  BY <2>2, <2>3, Zenon
  <1>3. CASE IncomingInsert
    <2>1. incoming.tx \in Tx
      BY <1>12, <1>3, Zenon DEF IncomingInsert
    <2>2. ImagesAfterAdd(pool_images, incoming.tx, incoming.kept) \in [KeyImage -> SUBSET Tx]
      BY <1>0, <2>1, ImagesTyped, Zenon
    <2>3. pool' = pool \/ pool' = Put(pool, incoming.tx, incoming.kept)
      BY <1>3, Zenon DEF IncomingInsert
    <2>4. pool_images' \in [KeyImage -> SUBSET Tx]
      BY <1>0, <1>3, <2>2, Zenon DEF IncomingInsert
    <2>5. PoolMap(Put(pool, incoming.tx, incoming.kept))
      BY <1>0, <1>12, <2>1, PoolMapTyped, Zenon
    <2>. QED  BY <1>0, <2>3, <2>4, <2>5, Zenon
  <1>4. CASE \E t \in DOMAIN pool : remove_stuck_transactions(t)
    <2>1. PICK t : pool' = Without(pool, {t}) /\ UNCHANGED pool_images
      BY <1>4, Zenon DEF remove_stuck_transactions
    <2>2. PoolMap(Without(pool, {t}))
      BY <1>0, PoolMapTyped, Zenon
    <2>. QED  BY <1>0, <2>1, <2>2, Zenon
  <1>5. CASE UNCHANGED mempool
    <2>1. pool' = pool /\ pool_images' = pool_images
      BY <1>5, Zenon
    <2>. QED  BY <1>0, <2>1, Zenon
  <1>6. CASE AddMinerTx \/ PushBlock \/ PopBlock
    BY <1>5, <1>6, Zenon DEF AddMinerTx, PushBlock, PopBlock
  <1>7. CASE MainHeaderRefused \/ UnknownTx \/ BlockRefused \/ ReturnAfterPurge \/ QuietPop
             \/ Enter \/ Leave \/ UNCHANGED vars
    BY <1>5, <1>7, Zenon DEF MainHeaderRefused, UnknownTx, BlockRefused, ReturnAfterPurge, QuietPop,
       PopNext, PopGenesis, PopFailed, Enter, add_new_block, CheckpointRollback, Leave,
       ReturnFromAdd, CheckpointRollbackDone, vars
  <1>8. CASE AltStep
    BY <1>5, <1>8, Zenon DEF AltStep, AltRefused, AltOrphaned, AltBegin, AltWalk, AltHeaderRefused,
       AddedAsAlternative, Reorganize
  <1>9. CASE SwitchStep
    BY <1>5, <1>9, Zenon DEF SwitchStep, DisconnectDone, DisconnectFailed, ConnectNext, ConnectFailed,
       PushOldChain, PushNext, PushFailed, SwitchSucceeded, ReconnectFirst, ReconnectNext,
       UndoDone, RestoreDone
  <1>10. CASE Outside
    BY <1>3, <1>4, <1>5, <1>10, Zenon DEF Outside, load_new_checkpoints, check_against_checkpoints,
       CheckpointsPassed, handle_incoming_tx, IncomingThread, IncomingHaveTx, IncomingImages,
       IncomingInputs, TimePasses
  <1>. QED
    BY <1>1, <1>2, <1>6, <1>7, <1>8, <1>9, <1>10, NextCases, Zenon DEF Quiet, QuietMain

\* The locals of the routines keep their types: counters and iterators stay
\* natural numbers, and the count of processed transactions stays in the block.
LEMMA ControlTypeStep ==
    ASSUME TypeOK, ControlInv, ChainIndexed, [Next]_vars
    PROVE  ControlTypeOK'
  <1>. USE DEF frame, control, PCs, Modes
  <1>0. /\ ControlTypeOK /\ n \in Nat /\ bl \in Block
        /\ path \in Seq(Block) /\ alt_chain \in Seq(Block) /\ disconnected_chain \in Seq(Block)
        /\ k \in Nat /\ j \in Nat
    BY Zenon DEF TypeOK, ControlTypeOK
  <1>1. CASE AddMinerTx
    <2>1. Len(TxHashes[bl]) \in Nat
      BY <1>0, BlockAssumption
    <2>. QED  BY <1>0, <1>1, <2>1 DEF AddMinerTx, ControlTypeOK
  <1>2. CASE AddBlockTx
    <2>1. Len(TxHashes[bl]) \in Nat
      BY <1>0, BlockAssumption
    <2>2. /\ n < Len(TxHashes[bl]) /\ n' \in {n, n + 1} /\ pc' \in {"txs", "purge"}
          /\ UNCHANGED <<mode, bl, r, frame>>
      BY <1>2, Zenon DEF AddBlockTx
    <2>. QED  BY <1>0, <2>1, <2>2 DEF ControlTypeOK
  <1>3. CASE PurgeStep
    <2>1. pc' \in {"purge", "purged", "popping", "popped"}
      BY <1>3, <1>0, Zenon DEF PurgeStep
    <2>2. n' \in Nat /\ n' <= n
      BY <1>3, <1>0 DEF PurgeStep, LeftToPurge
    <2>3. Len(TxHashes[bl]) \in Nat
      BY <1>0, BlockAssumption
    <2>4. n <= Len(TxHashes[bl])
      BY <1>0, <1>3, Zenon DEF PurgeStep, ControlTypeOK
    <2>. QED  BY <1>0, <1>3, <2>1, <2>2, <2>3, <2>4 DEF PurgeStep, ControlTypeOK
  <1>4. CASE PushBlock
    BY <1>0, <1>4, Zenon DEF PushBlock, Return, ControlTypeOK
  <1>5. CASE PopBlock
    BY <1>0, <1>5 DEF PopBlock, ControlTypeOK
  <1>6. CASE QuietMain
    BY <1>0, <1>6, Zenon DEF QuietMain, MainHeaderRefused, UnknownTx, WrongInputs, BlockRefused,
       ReturnAfterPurge, Return, ControlTypeOK
  <1>7. CASE PopNext
    <2>4. Height > 0
      BY Zenon DEF ChainIndexed
    <2>5. m_blocks \in Seq(BlockEntry)
      BY Zenon DEF TypeOK, ChainTypeOK
    <2>1. m_blocks[Height] \in BlockEntry
      BY <2>4, <2>5 DEF Height
    <2>2. get_tail_id \in Block
      BY <2>1, Zenon DEF BlockEntry, get_tail_id
    <2>3. Len(TxHashes[get_tail_id]) \in Nat
      BY <2>2, BlockAssumption
    <2>. QED  BY <1>0, <1>7, <2>2, <2>3 DEF PopNext, ControlTypeOK
  <1>8. CASE PopGenesis \/ PopFailed
    BY <1>0, <1>8, Zenon DEF PopGenesis, PopFailed, Return, ControlTypeOK
  <1>9. CASE AltRefused \/ AltOrphaned \/ AltHeaderRefused \/ AddedAsAlternative
    BY <1>0, <1>9, Zenon DEF AltRefused, AltOrphaned, AltHeaderRefused, AddedAsAlternative,
       Return, ControlTypeOK
  <1>18. CASE AltBegin
    <2>1. <<>> \in Seq(Block)
      OBVIOUS
    <2>. QED  BY <1>0, <1>18, <2>1, Zenon DEF AltBegin, ControlTypeOK
  <1>10. CASE AltWalk
    <2>1. PathHead \in Block
      BY <1>10, Zenon DEF AltWalk, TypeOK, AltTypeOK
    <2>2. <<PathHead>> \o path \in Seq(Block)
      BY <1>0, <2>1
    <2>. QED  BY <1>0, <1>10, <2>2, Zenon DEF AltWalk, ControlTypeOK
  <1>11. CASE Reorganize
    <2>1. AltHeight \in Nat
      BY <1>11, AltTyped, Zenon DEF Reorganize
    <2>2. split_height' \in Nat
      <3>1. CASE path = <<>>
        BY <1>11, <2>1, <3>1, Zenon DEF Reorganize
      <3>2. CASE path # <<>>
        <4>1. path[1] \in DOMAIN m_alternative_chains
          BY <1>11, <3>2, Zenon DEF Reorganize, ControlInv
        <4>2. m_alternative_chains[path[1]].height \in Nat
          BY <4>1, Zenon DEF TypeOK, AltTypeOK
        <4>. QED  BY <1>11, <3>2, <4>2, Zenon DEF Reorganize
      <3>. QED  BY <3>1, <3>2, Zenon
    <2>3. Append(path, bl) \in Seq(Block)
      BY <1>0
    <2>. QED  BY <1>0, <1>11, <2>2, <2>3 DEF Reorganize, ControlTypeOK
  <1>12. CASE DisconnectDone \/ ConnectNext
    <2>1. PICK i \in 1..Len(alt_chain) : ConnectBlock(i)
      <3>1. alt_chain # <<>> => 1 \in 1..Len(alt_chain)
        BY <1>0
      <3>. QED  BY <1>0, <1>12, <3>1 DEF DisconnectDone, ConnectNext, ControlInv
    <2>2. alt_chain[i] \in Block /\ i \in Nat
      BY <1>0
    <2>. QED  BY <1>0, <1>12, <2>1, <2>2, Zenon DEF DisconnectDone, ConnectNext, ConnectBlock, ControlTypeOK
  <1>13. CASE PushOldChain \/ PushNext \/ ReconnectFirst \/ ReconnectNext
    <2>1. PICK i \in 1..Len(disconnected_chain) : PushOldBlock(i) \/ ReconnectBlock(i)
      <3>1. disconnected_chain # <<>> => 1 \in 1..Len(disconnected_chain)
        BY <1>0
      <3>. QED  BY <1>0, <1>13, <3>1 DEF PushOldChain, PushNext, ReconnectFirst, ReconnectNext, ControlInv
    <2>2. disconnected_chain[i] \in Block /\ i \in Nat
      BY <1>0
    <2>. QED  BY <1>0, <1>13, <2>1, <2>2, Zenon DEF PushOldChain, PushNext, ReconnectFirst,
                 ReconnectNext, PushOldBlock, ReconnectBlock, ControlTypeOK
  <1>14. CASE ConnectFailed \/ PushFailed
    BY <1>0, <1>14, Zenon DEF ConnectFailed, PushFailed, ControlTypeOK
  <1>15. CASE DisconnectFailed \/ SwitchSucceeded \/ UndoDone \/ RestoreDone \/ Leave
    <2>1. Finish
      BY <1>15, Zenon DEF DisconnectFailed, SwitchSucceeded, UndoDone, RestoreDone, Leave,
                   ReturnFromAdd, CheckpointRollbackDone
    <2>. QED  BY <2>1, BlockAssumption DEF Finish, ControlTypeOK
  <1>16. CASE Enter
    <2>1. cp_pc = "rollback" => cp_height - 2 \in Nat
      BY DEF TypeOK, CheckpointTypeOK
    <2>. QED  BY <1>0, <1>16, <2>1, Zenon DEF Enter, add_new_block, CheckpointRollback, ControlTypeOK
  <1>17. CASE Outside \/ UNCHANGED vars
    BY <1>0, <1>17, OutsideUnchanged, Zenon DEF vars, ControlTypeOK
  <1>. QED
    BY <1>1, <1>2, <1>3, <1>4, <1>5, <1>6, <1>7, <1>8, <1>9, <1>10, <1>11, <1>12, <1>13, <1>14,
       <1>15, <1>16, <1>17, <1>18, NextCases, Zenon DEF Quiet, QuietPop, AltStep, SwitchStep

\* Return values and discard_disconnected_chain stay Boolean.
LEMMA FlagTypeStep ==
    ASSUME TypeOK, [Next]_vars
    PROVE  FlagTypeOK'
  <1>. USE DEF frame, control
  <1>0. r \in BOOLEAN /\ discard \in BOOLEAN
    BY Zenon DEF TypeOK, FlagTypeOK
  <1>1. CASE UNCHANGED <<r, discard>>
    BY <1>0, <1>1, Zenon DEF FlagTypeOK
  <1>2. CASE r' = TRUE /\ UNCHANGED discard
    BY <1>0, <1>2, Zenon DEF FlagTypeOK
  <1>3. CASE r' = FALSE /\ UNCHANGED discard
    BY <1>0, <1>3, Zenon DEF FlagTypeOK
  <1>4. CASE AddMinerTx \/ AddBlockTx \/ PushBlock \/ PopBlock
    <2>1. UNCHANGED discard
      BY <1>4, Zenon DEF AddMinerTx, AddBlockTx, PushBlock, PopBlock
    <2>2. UNCHANGED r \/ r' = TRUE
      BY <1>4, Zenon DEF AddMinerTx, AddBlockTx, PushBlock, PopBlock, Return
    <2>. QED  BY <1>1, <1>2, <2>1, <2>2, Zenon
  <1>5. CASE PurgeStep
    <2>1. UNCHANGED discard
      BY <1>5, Zenon DEF PurgeStep
    <2>2. UNCHANGED r \/ r' = FALSE
      <3>. DEFINE ok == /\ PurgedTx \in DOMAIN m_transactions
                        /\ PurgedTx \in Coinbase \/ PoolTakesBack(pool_images, PurgedTx)
                        /\ m_outputs # <<>> /\ m_outputs[Len(m_outputs)] = PurgedTx
      <3>1. purge_transaction_from_blockchain(PurgedTx)
        BY <1>5, Zenon DEF PurgeStep
      <3>2. r' = IF ok THEN r ELSE FALSE
        BY <3>1, Zenon DEF purge_transaction_from_blockchain
      <3>. HIDE DEF ok
      <3>3. CASE ok
        BY <3>2, <3>3, Zenon
      <3>4. CASE ~ok
        BY <3>2, <3>4, Zenon
      <3>. QED  BY <3>3, <3>4, Zenon
    <2>. QED  BY <1>1, <1>3, <2>1, <2>2, Zenon
  <1>6. CASE QuietMain \/ QuietPop
    <2>1. UNCHANGED discard
      BY <1>6, Zenon DEF QuietMain, MainHeaderRefused, UnknownTx, WrongInputs, BlockRefused,
         ReturnAfterPurge, QuietPop, PopNext, PopGenesis, PopFailed
    <2>2. UNCHANGED r \/ r' = TRUE \/ r' = FALSE
      BY <1>6, Zenon DEF QuietMain, MainHeaderRefused, UnknownTx, WrongInputs, BlockRefused,
         ReturnAfterPurge, QuietPop, PopNext, PopGenesis, PopFailed, Return
    <2>. QED  BY <1>1, <1>2, <1>3, <2>1, <2>2, Zenon
  <1>7. CASE Reorganize
    <2>1. UNCHANGED r
      BY <1>7, Zenon DEF Reorganize
    <2>2. discard' \in BOOLEAN
      <3>1. discard' = is_a_checkpoint
        BY <1>7, Zenon DEF Reorganize
      <3>2. is_a_checkpoint \in BOOLEAN
        BY SMT DEF is_a_checkpoint
      <3>. QED  BY <3>1, <3>2, Zenon
    <2>. QED  BY <1>0, <2>1, <2>2, Zenon DEF FlagTypeOK
  <1>8. CASE AltStep /\ ~Reorganize
    <2>1. UNCHANGED discard
      BY <1>8, Zenon DEF AltStep, AltRefused, AltOrphaned, AltBegin, AltWalk, AltHeaderRefused,
         AddedAsAlternative
    <2>2. UNCHANGED r \/ r' = TRUE \/ r' = FALSE
      BY <1>8, Zenon DEF AltStep, AltRefused, AltOrphaned, AltBegin, AltWalk, AltHeaderRefused,
         AddedAsAlternative, Return
    <2>. QED  BY <1>1, <1>2, <1>3, <2>1, <2>2, Zenon
  <1>9. CASE Finish
    BY <1>9, Zenon DEF Finish, FlagTypeOK
  <1>10. CASE SwitchStep \/ Leave
    BY <1>1, <1>9, <1>10, Zenon DEF SwitchStep, DisconnectDone, DisconnectFailed, ConnectNext,
       ConnectFailed, PushOldChain, PushNext, PushFailed, SwitchSucceeded, ReconnectFirst,
       ReconnectNext, UndoDone, RestoreDone, Leave, ReturnFromAdd, CheckpointRollbackDone
  <1>11. CASE Enter
    BY <1>1, <1>11, Zenon DEF Enter, add_new_block, CheckpointRollback
  <1>12. CASE Outside \/ UNCHANGED vars
    BY <1>1, <1>12, OutsideUnchanged, Zenon DEF vars
  <1>. QED
    BY <1>4, <1>5, <1>6, <1>7, <1>8, <1>10, <1>11, <1>12, NextCases, Zenon DEF Quiet

\* handle_incoming_tx works on a transaction that is not a miner_tx.
LEMMA IncomingTypeStep ==
    ASSUME TypeOK, [Next]_vars
    PROVE  IncomingTypeOK'
  <1>. USE DEF data, env
  <1>0. IncomingTypeOK
    BY Zenon DEF TypeOK
  <1>1. CASE \E t \in Tx, kept \in BOOLEAN : handle_incoming_tx(t, kept)
    BY <1>1 DEF handle_incoming_tx, IncomingTypeOK, AllTx
  <1>2. CASE IncomingDone
    BY <1>2, BlockAssumption, Zenon DEF IncomingDone, NoIncoming, IncomingTypeOK, AllTx, Coinbase
  <1>3. ASSUME NEW next \in {"images", "inputs"}, incoming.pc # "idle", IncomingGoesTo(next)
        PROVE  IncomingTypeOK'
    BY <1>0, <1>3, Zenon DEF IncomingGoesTo, IncomingTypeOK
  <1>4. CASE IncomingInputs
    <2>1. check_tx_inputs(incoming.tx) \in BOOLEAN
      BY Zenon DEF check_tx_inputs
    <2>. QED  BY <1>0, <1>4, <2>1, Zenon DEF IncomingInputs, IncomingTypeOK
  <1>5. CASE UNCHANGED incoming
    BY <1>0, <1>5, Zenon DEF IncomingTypeOK
  <1>6. CASE IncomingHaveTx \/ IncomingImages \/ IncomingInsert
    BY <1>2, <1>3, <1>6, Zenon DEF IncomingHaveTx, IncomingImages, IncomingInsert
  <1>7. CASE AddMinerTx \/ AddBlockTx \/ PurgeStep \/ PushBlock \/ PopBlock
    BY <1>5, <1>7, Zenon DEF AddMinerTx, AddBlockTx, PurgeStep, PushBlock, PopBlock
  <1>8. CASE QuietMain \/ QuietPop \/ Enter \/ Leave \/ UNCHANGED vars
    BY <1>5, <1>8, Zenon DEF QuietMain, MainHeaderRefused, UnknownTx, WrongInputs, BlockRefused,
       ReturnAfterPurge, QuietPop, PopNext, PopGenesis, PopFailed, Enter, add_new_block,
       CheckpointRollback, Leave, ReturnFromAdd, CheckpointRollbackDone, vars
  <1>9. CASE AltStep
    BY <1>5, <1>9, Zenon DEF AltStep, AltRefused, AltOrphaned, AltBegin, AltWalk, AltHeaderRefused,
       AddedAsAlternative, Reorganize
  <1>10. CASE SwitchStep
    BY <1>5, <1>10, Zenon DEF SwitchStep, DisconnectDone, DisconnectFailed, ConnectNext, ConnectFailed,
       PushOldChain, PushNext, PushFailed, SwitchSucceeded, ReconnectFirst, ReconnectNext,
       UndoDone, RestoreDone
  <1>11. CASE Outside
    BY <1>1, <1>4, <1>5, <1>6, <1>11, Zenon DEF Outside, load_new_checkpoints,
       check_against_checkpoints, CheckpointsPassed, IncomingThread,
       remove_stuck_transactions, TimePasses
  <1>. QED  BY <1>7, <1>8, <1>9, <1>10, <1>11, NextCases, Zenon DEF Quiet

\* update_checkpoints keeps heights natural: the height it hands to the
\* rollback is at least 2.
LEMMA CheckpointTypeStep ==
    ASSUME TypeOK, [Next]_vars
    PROVE  CheckpointTypeOK'
  <1>. USE DEF data, env
  <1>0. CheckpointTypeOK
    BY Zenon DEF TypeOK
  <1>1. CASE \E S \in SUBSET (DOMAIN Checkpoints \ DOMAIN m_checkpoints) : load_new_checkpoints(S)
    <2>1. PICK S \in SUBSET DOMAIN Checkpoints : load_new_checkpoints(S)
      BY <1>1, Zenon
    <2>2. /\ DOMAIN m_checkpoints' = DOMAIN m_checkpoints \cup S
          /\ \A h \in DOMAIN m_checkpoints' :
                m_checkpoints'[h] = IF h \in S THEN Checkpoints[h] ELSE m_checkpoints[h]
          /\ UNCHANGED early /\ cp_pc' = "check" /\ cp_height' = 0
      BY <2>1, Zenon DEF load_new_checkpoints
    <2>. QED  BY <1>0, <2>2, EnvironmentAssumption, Zenon DEF CheckpointTypeOK
  <1>2. CASE check_against_checkpoints
    <2>1. cp_height' \in FailingPoints /\ cp_height' >= 2
      BY <1>2, Zenon DEF check_against_checkpoints
    <2>. QED  BY <1>0, <1>2, <2>1, Zenon DEF check_against_checkpoints, FailingPoints, CheckpointTypeOK
  <1>3. CASE CheckpointsPassed \/ CheckpointRollback
    BY <1>0, <1>3 DEF CheckpointsPassed, CheckpointRollback, CheckpointTypeOK
  <1>4. CASE \E b \in early : TimePasses(b)
    BY <1>0, <1>4, Zenon DEF TimePasses, CheckpointTypeOK
  <1>5. CASE UNCHANGED <<m_checkpoints, early, cp_pc, cp_height>>
    BY <1>0, <1>5, Zenon DEF CheckpointTypeOK
  <1>6. CASE AddMinerTx \/ AddBlockTx \/ PurgeStep \/ PushBlock \/ PopBlock
    BY <1>5, <1>6, Zenon DEF AddMinerTx, AddBlockTx, PurgeStep, PushBlock, PopBlock
  <1>7. CASE QuietMain \/ QuietPop \/ Leave \/ UNCHANGED vars
    BY <1>5, <1>7, Zenon DEF QuietMain, MainHeaderRefused, UnknownTx, WrongInputs, BlockRefused,
       ReturnAfterPurge, QuietPop, PopNext, PopGenesis, PopFailed, Leave, ReturnFromAdd,
       CheckpointRollbackDone, vars
  <1>8. CASE AltStep
    BY <1>5, <1>8, Zenon DEF AltStep, AltRefused, AltOrphaned, AltBegin, AltWalk, AltHeaderRefused,
       AddedAsAlternative, Reorganize
  <1>9. CASE SwitchStep
    BY <1>5, <1>9, Zenon DEF SwitchStep, DisconnectDone, DisconnectFailed, ConnectNext, ConnectFailed,
       PushOldChain, PushNext, PushFailed, SwitchSucceeded, ReconnectFirst, ReconnectNext,
       UndoDone, RestoreDone
  <1>10. CASE Outside
    BY <1>1, <1>2, <1>3, <1>4, <1>5, <1>10, Zenon DEF Outside, handle_incoming_tx, IncomingThread,
       IncomingHaveTx, IncomingImages, IncomingInputs, IncomingInsert, remove_stuck_transactions
  <1>11. CASE Enter
    BY <1>3, <1>5, <1>11, Zenon DEF Enter, add_new_block
  <1>. QED  BY <1>6, <1>7, <1>8, <1>9, <1>10, <1>11, NextCases, Zenon DEF Quiet

-----------------------------------------------------------------------------
(* The inductive invariant. *)

IInv == TypeOK /\ ControlInv /\ ChainIndexed /\ NoDoubleSpend

\* The state reset_and_set_genesis_block leaves satisfies the invariant.
LEMMA IInvInit == Init => IInv
  <1>. SUFFICES ASSUME Init PROVE IInv
    OBVIOUS
  <1>0. Genesis \in Block /\ Difficulty[Genesis] \in Nat /\ MinerTx[Genesis] \in AllTx
        /\ MinerTx[Genesis] \notin Tx
    BY BlockAssumption DEF AllTx, Coinbase
  <1>1. Height = 1 /\ m_blocks[1] = [id |-> Genesis, cumulative_difficulty |-> Difficulty[Genesis]]
        /\ m_blocks_index = [b \in {Genesis} |-> 0]
    BY Zenon DEF Init, InitChain, Height
  <1>2. ChainIndexed
    BY <1>1 DEF ChainIndexed
  <1>3. NoDoubleSpend
    <2>1. m_spent_keys = {} /\ DOMAIN m_transactions = {MinerTx[Genesis]}
      BY Zenon DEF Init, InitChain
    <2>. QED  BY <1>0, <2>1, Zenon DEF NoDoubleSpend, SpentExact, ImagesDisjoint, KeyImages
  <1>4. ControlInv
    BY Zenon DEF Init, InitBlockThread, ControlInv
  <1>5. ChainTypeOK
    <2>1. m_blocks \in Seq(BlockEntry)
      <3>1. [id |-> Genesis, cumulative_difficulty |-> Difficulty[Genesis]] \in BlockEntry
        BY <1>0, Zenon DEF BlockEntry
      <3>2. m_blocks = <<[id |-> Genesis, cumulative_difficulty |-> Difficulty[Genesis]]>>
        BY Zenon DEF Init, InitChain
      <3>. QED  BY <3>1, <3>2
    <2>2. m_outputs \in Seq(AllTx)
      <3>1. m_outputs = <<MinerTx[Genesis]>>
        BY Zenon DEF Init, InitChain
      <3>. QED  BY <1>0, <3>1
    <2>3. DOMAIN m_transactions \subseteq AllTx
          /\ \A t \in DOMAIN m_transactions : m_transactions[t] \in
                [m_keeper_block_height : Nat, m_global_output_index : Nat]
      BY <1>0, Zenon DEF Init, InitChain
    <2>4. m_spent_keys \subseteq KeyImage /\ pool_refused \in BOOLEAN
      BY Zenon DEF Init, InitChain
    <2>. QED  BY <1>0, <1>1, <2>1, <2>2, <2>3, <2>4, Zenon DEF ChainTypeOK
  <1>6. AltTypeOK
    BY Zenon DEF Init, InitChain, AltTypeOK
  <1>10. CheckpointTypeOK
    BY EnvironmentAssumption, Zenon DEF Init, InitOthers, CheckpointTypeOK
  <1>9. PoolTypeOK
    <2>1. pool = [t \in {} |-> FALSE] /\ pool_images = [ki \in KeyImage |-> {}]
      BY Zenon DEF Init, InitPool
    <2>2. DOMAIN pool = {}
      BY <2>1, Zenon
    <2>3. pool_images \in [KeyImage -> SUBSET Tx]
      BY <2>1, Zenon
    <2>. QED  BY <2>2, <2>3, Zenon DEF PoolTypeOK
  <1>7. ControlTypeOK /\ FlagTypeOK
    <2>1. <<>> \in Seq(Block)
      OBVIOUS
    <2>2. ControlTypeOK
      BY <1>0, <2>1, Zenon DEF Init, InitBlockThread, ControlTypeOK, PCs, Modes
    <2>3. FlagTypeOK
      BY Zenon DEF Init, InitBlockThread, FlagTypeOK
    <2>. QED  BY <2>2, <2>3, Zenon
  <1>8. IncomingTypeOK
    BY <1>0, Zenon DEF Init, InitOthers, IncomingTypeOK, NoIncoming
  <1>. QED  BY <1>2, <1>3, <1>4, <1>5, <1>6, <1>7, <1>8, <1>9, <1>10, Zenon DEF IInv, TypeOK

\* Every step of every thread preserves the invariant.
LEMMA IInvStep == IInv /\ [Next]_vars => IInv'
  BY NoDoubleSpendStep, ChainIndexedStep, ControlInvStep, ChainTypeStep, AltTypeStep,
     PoolTypeStep, ControlTypeStep, FlagTypeStep, IncomingTypeStep, CheckpointTypeStep, Zenon
  DEF IInv, TypeOK

\* Every step of every thread keeps the containers and locals of the node
\* well-typed.
THEOREM TypeCorrect == Spec => []TypeOK
  <1>1. IInv => TypeOK
    BY Zenon DEF IInv
  <1>. QED  BY <1>1, IInvInit, IInvStep, PTL DEF Spec

\* Where the routines of the block thread stand, what they rely on holds.
THEOREM ControlCorrect == Spec => []ControlInv
  <1>1. IInv => ControlInv
    BY Zenon DEF IInv
  <1>. QED  BY <1>1, IInvInit, IInvStep, PTL DEF Spec

\* m_blocks_index is the inverse of m_blocks and the chain is linked, at every
\* step of every push, purge, rollback and reorganisation.
THEOREM ChainCorrect == Spec => []ChainIndexed
  <1>1. IInv => ChainIndexed
    BY Zenon DEF IInv
  <1>. QED  BY <1>1, IInvInit, IInvStep, PTL DEF Spec

\* No key image is spent twice in the main chain, and the spent set has nothing
\* else, as long as the pool took back every transaction it was handed.
THEOREM DoubleSpendFree == Spec => []NoDoubleSpend
  <1>1. IInv => NoDoubleSpend
    BY Zenon DEF IInv
  <1>. QED  BY <1>1, IInvInit, IInvStep, PTL DEF Spec

-----------------------------------------------------------------------------
(* No transaction is lost. *)

\* A transaction leaves the ledger only for the pool, and the pool only for the
\* ledger or by expiry.
LEMMA NoTxLostStep ==
    ASSUME TypeOK, [Next]_vars, NEW t \in Tx,
           t \in DOMAIN m_transactions \cup DOMAIN pool
    PROVE  t \in DOMAIN m_transactions' \cup DOMAIN pool' \/ remove_stuck_transactions(t)
  <1>. USE DEF data, mempool, chain
  <1>0. t \notin Coinbase
    BY BlockAssumption, Zenon
  <1>1. CASE AddMinerTx
    BY <1>1, Zenon DEF AddMinerTx, add_transaction_from_block, Put
  <1>2. CASE AddBlockTx
    <2>1. CASE CanAdd(NextTx)
      BY <1>2, <2>1, Zenon DEF AddBlockTx, add_transaction_from_block, Take, Put, Without
    <2>2. CASE ~CanAdd(NextTx)
      BY <1>2, <2>2, Zenon DEF AddBlockTx, add_transaction_from_block, GiveBack, Put
    <2>. QED  BY <2>1, <2>2, Zenon
  <1>3. CASE WrongInputs
    BY <1>3, Zenon DEF WrongInputs, GiveBack, Put
  <1>4. CASE PurgeStep
    <2>1. purge_transaction_from_blockchain(PurgedTx)
      BY <1>4, Zenon DEF PurgeStep
    <2>2. DOMAIN pool \subseteq DOMAIN pool'
      BY <2>1, Zenon DEF purge_transaction_from_blockchain, Put
    <2>3. CASE t = PurgedTx /\ t \notin DOMAIN pool
      <3>1. t \in DOMAIN m_transactions => pool' = Put(pool, t, TRUE)
        BY <2>1, <2>3, Zenon DEF purge_transaction_from_blockchain
      <3>. QED  BY <2>3, <3>1, Zenon DEF Put
    <2>4. CASE t # PurgedTx
      <3>1. m_transactions' = m_transactions \/ m_transactions' = Without(m_transactions, {PurgedTx})
        BY <2>1, Zenon DEF purge_transaction_from_blockchain
      <3>. QED  BY <2>2, <2>4, <3>1, Zenon DEF Without
    <2>. QED  BY <2>2, <2>3, <2>4, Zenon
  <1>5. CASE \E u \in DOMAIN pool : remove_stuck_transactions(u)
    <2>1. PICK u \in DOMAIN pool : remove_stuck_transactions(u)
      BY <1>5, Zenon
    <2>2. CASE u = t
      BY <2>1, <2>2, Zenon
    <2>3. CASE u # t
      <3>1. pool' = Without(pool, {u}) /\ UNCHANGED m_transactions
        BY <2>1, Zenon DEF remove_stuck_transactions
      <3>. QED  BY <2>3, <3>1, Zenon DEF Without
    <2>. QED  BY <2>2, <2>3, Zenon
  <1>6. CASE IncomingInsert
    BY <1>6, Zenon DEF IncomingInsert, Put
  <1>7. CASE UNCHANGED <<m_transactions, mempool>>
    BY <1>7, Zenon
  <1>8. CASE PushBlock \/ PopBlock
    BY <1>7, <1>8, Zenon DEF PushBlock, PopBlock
  <1>9. CASE MainHeaderRefused \/ UnknownTx \/ BlockRefused \/ ReturnAfterPurge \/ QuietPop
             \/ Enter \/ Leave \/ UNCHANGED vars
    BY <1>7, <1>9, Zenon DEF MainHeaderRefused, UnknownTx, BlockRefused, ReturnAfterPurge, QuietPop,
       PopNext, PopGenesis, PopFailed, Enter, add_new_block, CheckpointRollback, Leave,
       ReturnFromAdd, CheckpointRollbackDone, vars
  <1>10. CASE AltStep
    BY <1>7, <1>10, Zenon DEF AltStep, AltRefused, AltOrphaned, AltBegin, AltWalk,
       AltHeaderRefused, AddedAsAlternative, Reorganize
  <1>11. CASE SwitchStep
    BY <1>7, <1>11, Zenon DEF SwitchStep, DisconnectDone, DisconnectFailed, ConnectNext, ConnectFailed,
       PushOldChain, PushNext, PushFailed, SwitchSucceeded, ReconnectFirst, ReconnectNext,
       UndoDone, RestoreDone
  <1>12. CASE Outside
    BY <1>5, <1>6, <1>7, <1>12, Zenon DEF Outside, load_new_checkpoints,
       check_against_checkpoints, CheckpointsPassed, handle_incoming_tx, IncomingThread,
       IncomingHaveTx, IncomingImages, IncomingInputs, TimePasses
  <1>. QED
    BY <1>1, <1>2, <1>3, <1>4, <1>8, <1>9, <1>10, <1>11, <1>12, NextCases, Zenon DEF Quiet, QuietMain

\* Refusing a block, rolling one back, and a reorganisation that fails half-way
\* drop no transaction: one that is in a block or in the pool stays in one of
\* them until its time in the pool is over.
THEOREM TransactionsKept == Spec => NoTxLost
  <1>1. ASSUME TypeOK, [Next]_vars
        PROVE  [\A t \in Tx :
                  t \in DOMAIN m_transactions \cup DOMAIN pool =>
                     \/ t \in DOMAIN m_transactions' \cup DOMAIN pool'
                     \/ remove_stuck_transactions(t)]_vars
    BY <1>1, NoTxLostStep, Zenon
  <1>. QED  BY <1>1, TypeCorrect, PTL DEF Spec, NoTxLost

-----------------------------------------------------------------------------
(* Where the ledger keeps a block.  The transactions of a block follow its *)
(* miner_tx in the outputs index, and the next block follows them: that is *)
(* why a purge that goes backwards finds what it takes away on top.        *)

IndexOf(t) == m_transactions[t].m_global_output_index
KeeperOf(t) == m_transactions[t].m_keeper_block_height
EndOf(b) == IndexOf(MinerTx[b]) + Len(TxHashes[b])

\* The blocks whose data is whole, and a block that is partly there.
Whole == IF pc \in {"popping", "popped"} THEN Height - 1 ELSE Height
Partial == pc \in {"txs", "purge", "popping"}

\* In the map f, the miner_tx of b and its first m transactions are kept at
\* height h, one after the other.
Stored(f, b, h, m) ==
    /\ MinerTx[b] \in DOMAIN f /\ f[MinerTx[b]].m_keeper_block_height = h
    /\ \A l \in 1..m :
          LET t == TxHashes[b][l] IN
          /\ t \in DOMAIN f
          /\ f[t].m_keeper_block_height = h
          /\ f[t].m_global_output_index = f[MinerTx[b]].m_global_output_index + l

OutputsInverse ==
    /\ \A t \in DOMAIN m_transactions :
          IndexOf(t) \in 1..Len(m_outputs) /\ m_outputs[IndexOf(t)] = t
    /\ \A i \in 1..Len(m_outputs) :
          m_outputs[i] \in DOMAIN m_transactions /\ IndexOf(m_outputs[i]) = i

BlocksStored ==
    /\ \A i \in 1..Whole : 
          Stored(m_transactions, m_blocks[i].id, i - 1, Len(TxHashes[m_blocks[i].id]))
    /\ \A i \in 2..Whole : IndexOf(MinerTx[m_blocks[i].id]) = EndOf(m_blocks[i - 1].id) + 1

TopStored ==
    /\ Partial => /\ Stored(m_transactions, bl, Whole, n)
                  /\ IndexOf(MinerTx[bl]) = EndOf(m_blocks[Whole].id) + 1
                  /\ Len(m_outputs) = IndexOf(MinerTx[bl]) + n
    /\ ~Partial => Len(m_outputs) = EndOf(m_blocks[Whole].id)

\* Nothing is stored but the transactions of those blocks.
NothingElse ==
    \A t \in DOMAIN m_transactions :
        \/ KeeperOf(t) \in 0..(Whole - 1) /\ t \in BlockTxs(m_blocks[KeeperOf(t) + 1].id)
        \/ Partial /\ KeeperOf(t) = Whole /\ t \in Processed

\* A block is taken off the chain only when all its transactions were.
PopSucceeds == pc \in {"popping", "popped"} => r

LedgerInv ==
    pool_refused \/ (OutputsInverse /\ BlocksStored /\ TopStored /\ NothingElse /\ PopSucceeds)

\* What the types say of the numbers these formulas add up.
LEMMA LedgerTypes ==
    ASSUME TypeOK, ControlInv, ChainIndexed
    PROVE  /\ Height \in Nat /\ Whole \in 1..Height /\ n \in Nat /\ bl \in Block
           /\ \A i \in 1..Height : m_blocks[i].id \in Block
           /\ \A b \in Block : Len(TxHashes[b]) \in Nat
           /\ m_outputs \in Seq(AllTx) /\ Len(m_outputs) \in Nat
           /\ \A t \in DOMAIN m_transactions : IndexOf(t) \in Nat /\ KeeperOf(t) \in Nat
  <1>1. m_blocks \in Seq(BlockEntry) /\ m_outputs \in Seq(AllTx) /\ n \in Nat /\ bl \in Block
    BY Zenon DEF TypeOK, ChainTypeOK, ControlTypeOK
  <1>2. Height \in Nat /\ Len(m_outputs) \in Nat
    BY <1>1 DEF Height
  <1>3. Whole \in 1..Height
    BY <1>2, SMTT(30) DEF Whole, ControlInv, ChainIndexed
  <1>4. \A i \in 1..Height : m_blocks[i].id \in Block
    <2>. TAKE i \in 1..Height
    <2>1. m_blocks[i] \in BlockEntry
      BY <1>1 DEF Height
    <2>. QED  BY <2>1, Zenon DEF BlockEntry
  <1>5. \A b \in Block : Len(TxHashes[b]) \in Nat
    BY BlockAssumption
  <1>6. \A t \in DOMAIN m_transactions : IndexOf(t) \in Nat /\ KeeperOf(t) \in Nat
    BY Zenon DEF TypeOK, ChainTypeOK, IndexOf, KeeperOf
  <1>. QED  BY <1>1, <1>2, <1>3, <1>4, <1>5, <1>6, Zenon

\* add_transaction_from_block adds one entry, on top of the outputs index.
LEMMA AddedEntry ==
    ASSUME m_outputs \in Seq(AllTx), NEW t \in AllTx, CanAdd(t), add_transaction_from_block(t)
    PROVE  /\ DOMAIN m_transactions' = DOMAIN m_transactions \cup {t}
           /\ t \notin DOMAIN m_transactions
           /\ m_transactions'[t].m_global_output_index = Len(m_outputs) + 1
           /\ m_transactions'[t].m_keeper_block_height = Height
           /\ \A u \in DOMAIN m_transactions : m_transactions'[u] = m_transactions[u]
           /\ Len(m_outputs') = Len(m_outputs) + 1 /\ m_outputs'[Len(m_outputs) + 1] = t
           /\ \A i \in 1..Len(m_outputs) : m_outputs'[i] = m_outputs[i]
  <1>1. m_outputs' = Append(m_outputs, t)
    BY Zenon DEF add_transaction_from_block
  <1>2. m_transactions' = Put(m_transactions, t, [m_keeper_block_height |-> Height,
                                       m_global_output_index |-> Len(m_outputs) + 1])
    BY Zenon DEF add_transaction_from_block
  <1>. QED  BY <1>1, <1>2 DEF CanAdd, Put

\* purge_transaction_from_blockchain removes the top entry.
LEMMA RemovedEntry ==
    ASSUME OutputsInverse, m_outputs \in Seq(AllTx), NEW t \in DOMAIN m_transactions,
           IndexOf(t) = Len(m_outputs), purge_transaction_from_blockchain(t), ~pool_refused'
    PROVE  /\ DOMAIN m_transactions' = DOMAIN m_transactions \ {t}
           /\ \A u \in DOMAIN m_transactions' : m_transactions'[u] = m_transactions[u]
           /\ Len(m_outputs) \in Nat \ {0} /\ Len(m_outputs') = Len(m_outputs) - 1
           /\ \A i \in 1..(Len(m_outputs) - 1) : m_outputs'[i] = m_outputs[i]
           /\ r' = r
  <1>1. Len(m_outputs) \in 1..Len(m_outputs) /\ m_outputs[Len(m_outputs)] = t
    BY Zenon DEF OutputsInverse
  <1>2. m_outputs # <<>>
    BY <1>1
  <1>3. /\ m_transactions' = Without(m_transactions, {t})
        /\ m_outputs' = SubSeq(m_outputs, 1, Len(m_outputs) - 1)
        /\ r' = r
    BY <1>1, <1>2, Zenon DEF purge_transaction_from_blockchain
  <1>4. Len(m_outputs) \in Nat \ {0}
    BY <1>1
  <1>. QED  BY <1>3, <1>4 DEF Without

\* Both keep the outputs index the inverse of m_global_output_index.
LEMMA OutputsInverseKept ==
    ASSUME OutputsInverse, m_outputs \in Seq(AllTx), NEW t \in AllTx,
           \/ CanAdd(t) /\ add_transaction_from_block(t)
           \/ /\ t \in DOMAIN m_transactions /\ IndexOf(t) = Len(m_outputs)
              /\ purge_transaction_from_blockchain(t) /\ ~pool_refused'
    PROVE  OutputsInverse'
  <1>0. Len(m_outputs) \in Nat
    OBVIOUS
  <1>. DEFINE At(u) == m_transactions'[u].m_global_output_index
  <1>1. CASE CanAdd(t) /\ add_transaction_from_block(t)
    <2>0. /\ DOMAIN m_transactions' = DOMAIN m_transactions \cup {t}
          /\ At(t) = Len(m_outputs) + 1
          /\ \A u \in DOMAIN m_transactions : At(u) = IndexOf(u)
          /\ Len(m_outputs') = Len(m_outputs) + 1 /\ m_outputs'[Len(m_outputs) + 1] = t
          /\ \A i \in 1..Len(m_outputs) : m_outputs'[i] = m_outputs[i]
      BY <1>1, AddedEntry, Zenon DEF IndexOf
    <2>. HIDE DEF At
    <2>1. \A u \in DOMAIN m_transactions' : At(u) \in 1..Len(m_outputs') /\ m_outputs'[At(u)] = u
      BY <1>0, <2>0, SMTT(30) DEF OutputsInverse
    <2>2. \A i \in 1..Len(m_outputs') : m_outputs'[i] \in DOMAIN m_transactions' /\ At(m_outputs'[i]) = i
      <3>. TAKE i \in 1..Len(m_outputs')
      <3>1. CASE i = Len(m_outputs) + 1
        BY <2>0, <3>1, Zenon
      <3>2. CASE i \in 1..Len(m_outputs)
        BY <2>0, <3>2, Zenon DEF OutputsInverse
      <3>. QED  BY <1>0, <2>0, <3>1, <3>2
    <2>. QED  BY <2>1, <2>2, Zenon DEF OutputsInverse, IndexOf, At
  <1>2. CASE /\ t \in DOMAIN m_transactions /\ IndexOf(t) = Len(m_outputs)
             /\ purge_transaction_from_blockchain(t) /\ ~pool_refused'
    <2>0. /\ DOMAIN m_transactions' = DOMAIN m_transactions \ {t}
          /\ \A u \in DOMAIN m_transactions' : At(u) = IndexOf(u)
          /\ Len(m_outputs) \in Nat \ {0} /\ Len(m_outputs') = Len(m_outputs) - 1
          /\ \A i \in 1..(Len(m_outputs) - 1) : m_outputs'[i] = m_outputs[i]
      BY <1>2, RemovedEntry, Zenon DEF IndexOf
    <2>. HIDE DEF At
    <2>1. \A u \in DOMAIN m_transactions' : At(u) \in 1..Len(m_outputs') /\ m_outputs'[At(u)] = u
      <3>. TAKE u \in DOMAIN m_transactions'
      <3>1. At(u) = IndexOf(u) /\ IndexOf(u) \in 1..Len(m_outputs) /\ m_outputs[IndexOf(u)] = u
        BY <2>0, Zenon DEF OutputsInverse
      <3>2. IndexOf(u) # Len(m_outputs)
        BY <1>2, <2>0, <3>1, Zenon DEF OutputsInverse
      <3>. QED  BY <2>0, <3>1, <3>2
    <2>2. \A i \in 1..Len(m_outputs') : m_outputs'[i] \in DOMAIN m_transactions' /\ At(m_outputs'[i]) = i
      <3>. TAKE i \in 1..Len(m_outputs')
      <3>1. i \in 1..Len(m_outputs) /\ i # Len(m_outputs) /\ m_outputs'[i] = m_outputs[i]
        BY <2>0
      <3>2. m_outputs[i] \in DOMAIN m_transactions /\ IndexOf(m_outputs[i]) = i
        BY <3>1, Zenon DEF OutputsInverse
      <3>3. m_outputs[i] # t
        BY <1>2, <3>1, <3>2, Zenon
      <3>. QED  BY <2>0, <3>1, <3>2, <3>3, Zenon
    <2>. QED  BY <2>1, <2>2, Zenon DEF OutputsInverse, IndexOf, At
  <1>. QED  BY <1>1, <1>2, Zenon

\* A block stays stored while the entries of its height stay.
LEMMA StoredAfter ==
    ASSUME NEW b, NEW h, NEW m, Stored(m_transactions, b, h, m),
           \A u \in DOMAIN m_transactions : m_transactions[u].m_keeper_block_height = h =>
              u \in DOMAIN m_transactions' /\ m_transactions'[u] = m_transactions[u]
    PROVE  /\ Stored(m_transactions', b, h, m)
           /\ m_transactions'[MinerTx[b]] = m_transactions[MinerTx[b]]
  BY Zenon DEF Stored

\* Nothing happens to the ledger when the containers and the block that is
\* partly there stay.
LEMMA LedgerSame ==
    ASSUME LedgerInv, UNCHANGED <<m_blocks, m_transactions, m_outputs, pool_refused>>,
           Whole' = Whole, Partial' = Partial, Partial => bl' = bl /\ n' = n,
           pc' \in {"popping", "popped"} => r'
    PROVE  LedgerInv'
  <1>. SUFFICES ASSUME ~pool_refused PROVE LedgerInv'
    BY Zenon DEF LedgerInv
  <1>0. OutputsInverse /\ BlocksStored /\ TopStored /\ NothingElse
    BY Zenon DEF LedgerInv
  <1>1. OutputsInverse'
    BY <1>0, Zenon DEF OutputsInverse, IndexOf
  <1>2. BlocksStored'
    BY <1>0, Zenon DEF BlocksStored, IndexOf, EndOf
  <1>3. TopStored'
    <2>1. CASE Partial
      BY <1>0, <2>1, Zenon DEF TopStored, IndexOf, EndOf
    <2>2. CASE ~Partial
      BY <1>0, <2>2, Zenon DEF TopStored, IndexOf, EndOf
    <2>. QED  BY <2>1, <2>2, Zenon
  <1>4. NothingElse'
    <2>1. CASE Partial
      BY <1>0, <2>1, Zenon DEF NothingElse, KeeperOf, Processed
    <2>2. CASE ~Partial
      BY <1>0, <2>2, Zenon DEF NothingElse, KeeperOf
    <2>. QED  BY <2>1, <2>2, Zenon
  <1>. QED  BY <1>1, <1>2, <1>3, <1>4, Zenon DEF LedgerInv, PopSucceeds

\* The whole blocks stay stored while the entries below their number stay.
LEMMA WholeKept ==
    ASSUME TypeOK, ControlInv, ChainIndexed, BlocksStored, UNCHANGED m_blocks, Whole' = Whole,
           \A u \in DOMAIN m_transactions :
              KeeperOf(u) < Whole => u \in DOMAIN m_transactions' /\ m_transactions'[u] = m_transactions[u]
    PROVE  BlocksStored' /\ EndOf(m_blocks[Whole].id)' = EndOf(m_blocks[Whole].id)
  <1>0. /\ Height \in Nat /\ Whole \in 1..Height
    BY LedgerTypes, Zenon
  <1>1. ASSUME NEW i \in 1..Whole
        PROVE  LET b == m_blocks[i].id IN
               /\ Stored(m_transactions', b, i - 1, Len(TxHashes[b]))
               /\ m_transactions'[MinerTx[b]] = m_transactions[MinerTx[b]]
    <2>. DEFINE b == m_blocks[i].id
    <2>1. Stored(m_transactions, b, i - 1, Len(TxHashes[b]))
      BY Zenon DEF BlocksStored
    <2>2. i - 1 < Whole
      BY <1>0
    <2>3. \A u \in DOMAIN m_transactions : m_transactions[u].m_keeper_block_height = i - 1 =>
             u \in DOMAIN m_transactions' /\ m_transactions'[u] = m_transactions[u]
      BY <2>2, Zenon DEF KeeperOf
    <2>. HIDE DEF b
    <2>4. /\ Stored(m_transactions', b, i - 1, Len(TxHashes[b]))
          /\ m_transactions'[MinerTx[b]] = m_transactions[MinerTx[b]]
      BY <2>1, <2>3, StoredAfter, Zenon
    <2>. QED  BY <2>4, Zenon DEF b
  <1>2. \A i \in 1..Whole : IndexOf(MinerTx[m_blocks[i].id])' = IndexOf(MinerTx[m_blocks[i].id])
    BY <1>1, Zenon DEF IndexOf
  <1>3. \A i \in 1..Whole : EndOf(m_blocks[i].id)' = EndOf(m_blocks[i].id)
    BY <1>2, Zenon DEF EndOf, IndexOf
  <1>4. ASSUME NEW i \in 2..Whole
        PROVE  IndexOf(MinerTx[m_blocks[i].id])' = EndOf(m_blocks[i - 1].id)' + 1
    <2>1. i \in 1..Whole /\ i - 1 \in 1..Whole
      BY <1>0
    <2>2. IndexOf(MinerTx[m_blocks[i].id]) = EndOf(m_blocks[i - 1].id) + 1
      BY Zenon DEF BlocksStored
    <2>. QED  BY <1>2, <1>3, <2>1, <2>2, Zenon
  <1>5. BlocksStored'
    BY <1>1, <1>4, Zenon DEF BlocksStored
  <1>. QED  BY <1>0, <1>3, <1>5

\* handle_block_to_main_chain adds the miner_tx on top of a ledger of whole blocks.
LEMMA AddMinerTxLedger ==
    ASSUME IInv, LedgerInv, AddMinerTx, ~pool_refused
    PROVE  LedgerInv'
  <1>. DEFINE t == MinerTx[bl]
  <1>0. /\ TypeOK /\ ControlInv /\ ChainIndexed
        /\ OutputsInverse /\ BlocksStored /\ TopStored /\ NothingElse
    BY Zenon DEF LedgerInv, IInv
  <1>1. /\ CanAdd(t) /\ add_transaction_from_block(t) /\ pc = "main" /\ pc' = "txs" /\ n' = 0
        /\ UNCHANGED <<m_blocks, bl, pool_refused>>
    BY Zenon DEF AddMinerTx
  <1>2. /\ Height \in Nat /\ Whole \in 1..Height /\ m_outputs \in Seq(AllTx) /\ bl \in Block
        /\ Len(m_outputs) \in Nat
    BY <1>0, LedgerTypes, Zenon
  <1>3. t \in AllTx
    BY <1>2, Zenon DEF AllTx, Coinbase
  <1>4. Whole = Height /\ Whole' = Height /\ ~Partial /\ Partial'
    BY <1>1, Zenon DEF Whole, Partial, Height
  <1>. HIDE DEF t
  <1>5. /\ DOMAIN m_transactions' = DOMAIN m_transactions \cup {t}
        /\ t \notin DOMAIN m_transactions
        /\ m_transactions'[t].m_global_output_index = Len(m_outputs) + 1
        /\ m_transactions'[t].m_keeper_block_height = Height
        /\ \A u \in DOMAIN m_transactions : m_transactions'[u] = m_transactions[u]
        /\ Len(m_outputs') = Len(m_outputs) + 1
    BY <1>1, <1>2, <1>3, AddedEntry, Zenon
  <1>6. OutputsInverse'
    BY <1>0, <1>1, <1>2, <1>3, OutputsInverseKept, Zenon
  <1>7. BlocksStored' /\ EndOf(m_blocks[Whole].id)' = EndOf(m_blocks[Whole].id)
    BY <1>0, <1>1, <1>4, <1>5, WholeKept, Zenon
  <1>8. TopStored'
    <2>1. Stored(m_transactions', bl, Height, 0)
      BY <1>5 DEF Stored, t
    <2>2. IndexOf(MinerTx[bl])' = Len(m_outputs) + 1
      BY <1>1, <1>5, Zenon DEF IndexOf, t
    <2>3. Len(m_outputs) = EndOf(m_blocks[Whole].id)
      BY <1>0, <1>4, Zenon DEF TopStored
    <2>4. IndexOf(MinerTx[bl])' = EndOf(m_blocks[Whole].id)' + 1
      BY <1>7, <2>2, <2>3, Zenon
    <2>5. Len(m_outputs)' = IndexOf(MinerTx[bl])' + n'
      BY <1>1, <1>2, <1>5, <2>2
    <2>. QED  BY <1>1, <1>4, <2>1, <2>4, <2>5, Zenon DEF TopStored
  <1>9. NothingElse'
    <2>. SUFFICES ASSUME NEW u \in DOMAIN m_transactions'
                  PROVE  \/ /\ KeeperOf(u)' \in 0..(Whole' - 1)
                            /\ u \in BlockTxs(m_blocks'[KeeperOf(u)' + 1].id)
                         \/ Partial' /\ KeeperOf(u)' = Whole' /\ u \in Processed'
      BY Zenon DEF NothingElse
    <2>1. CASE u = t
      BY <1>1, <1>4, <1>5, <2>1, Zenon DEF KeeperOf, Processed, t
    <2>2. CASE u \in DOMAIN m_transactions
      <3>1. KeeperOf(u)' = KeeperOf(u)
        BY <1>5, <2>2, Zenon DEF KeeperOf
      <3>2. KeeperOf(u) \in 0..(Whole - 1) /\ u \in BlockTxs(m_blocks[KeeperOf(u) + 1].id)
        BY <1>0, <1>4, <2>2, Zenon DEF NothingElse
      <3>. QED  BY <1>1, <1>4, <3>1, <3>2, Zenon
    <2>. QED  BY <1>5, <2>1, <2>2, Zenon
  <1>. QED  BY <1>1, <1>6, <1>7, <1>8, <1>9, Zenon DEF LedgerInv, PopSucceeds

\* A transaction that passed check_tx_inputs can be added: an image of it would be
\* spent if it were stored already.
LEMMA CheckedCanAdd ==
    ASSUME IInv, AddBlockTx, ~pool_refused
    PROVE  NextTx \in Tx /\ CanAdd(NextTx)
  <1>1. check_tx_inputs(NextTx) /\ NextTx \in DOMAIN pool
    BY Zenon DEF AddBlockTx
  <1>2. NextTx \in Tx
    BY <1>1, Zenon DEF IInv, TypeOK, PoolTypeOK
  <1>3. KeyImages(NextTx) \cap m_spent_keys = {}
    BY <1>1, Zenon DEF check_tx_inputs
  <1>4. KeyImages(NextTx) # {}
    <2>1. Vin[NextTx] \in Seq(KeyImage) /\ Vin[NextTx] # <<>>
      BY <1>2, TxAssumption, Zenon
    <2>2. 1 \in DOMAIN Vin[NextTx]
      BY <2>1
    <2>. QED  BY <1>2, <2>2, Zenon DEF KeyImages, Range
  <1>. QED  BY <1>2, <1>3, <1>4, Zenon DEF CanAdd, KeyImageCollision, IInv, NoDoubleSpend, SpentExact

\* handle_block_to_main_chain adds the next transaction of bl.
LEMMA AddBlockTxLedger ==
    ASSUME IInv, LedgerInv, AddBlockTx, ~pool_refused
    PROVE  LedgerInv'
  <1>. DEFINE t == NextTx
  <1>0. /\ TypeOK /\ ControlInv /\ ChainIndexed
        /\ OutputsInverse /\ BlocksStored /\ TopStored /\ NothingElse
    BY Zenon DEF LedgerInv, IInv
  <1>10. t \in Tx /\ CanAdd(t)
    BY CheckedCanAdd, Zenon
  <1>1. /\ add_transaction_from_block(t) /\ pc = "txs" /\ pc' = "txs" /\ n' = n + 1
        /\ UNCHANGED <<m_blocks, bl, pool_refused>>
    BY <1>10, Zenon DEF AddBlockTx
  <1>2. /\ Height \in Nat /\ Whole \in 1..Height /\ m_outputs \in Seq(AllTx) /\ n \in Nat
        /\ Len(m_outputs) \in Nat
    BY <1>0, LedgerTypes, Zenon
  <1>3. t \in AllTx
    BY <1>10, Zenon DEF AllTx
  <1>4. Whole = Height /\ Whole' = Height /\ Partial /\ Partial'
    BY <1>1, Zenon DEF Whole, Partial, Height
  <1>11. t = TxHashes[bl][n + 1]
    BY Zenon DEF NextTx
  <1>. HIDE DEF t
  <1>5. /\ DOMAIN m_transactions' = DOMAIN m_transactions \cup {t}
        /\ t \notin DOMAIN m_transactions
        /\ m_transactions'[t].m_global_output_index = Len(m_outputs) + 1
        /\ m_transactions'[t].m_keeper_block_height = Height
        /\ \A u \in DOMAIN m_transactions : m_transactions'[u] = m_transactions[u]
        /\ Len(m_outputs') = Len(m_outputs) + 1
    BY <1>1, <1>2, <1>3, <1>10, AddedEntry, Zenon
  <1>6. OutputsInverse'
    BY <1>0, <1>1, <1>2, <1>3, <1>10, OutputsInverseKept, Zenon
  <1>7. BlocksStored' /\ EndOf(m_blocks[Whole].id)' = EndOf(m_blocks[Whole].id)
    BY <1>0, <1>1, <1>4, <1>5, WholeKept, Zenon
  <1>8. TopStored'
    <2>1. /\ Stored(m_transactions, bl, Height, n)
          /\ IndexOf(MinerTx[bl]) = EndOf(m_blocks[Whole].id) + 1
          /\ Len(m_outputs) = IndexOf(MinerTx[bl]) + n
      BY <1>0, <1>4, Zenon DEF TopStored
    <2>2. Stored(m_transactions', bl, Height, n) /\ m_transactions'[MinerTx[bl]] = m_transactions[MinerTx[bl]]
      <3>1. \A u \in DOMAIN m_transactions : m_transactions[u].m_keeper_block_height = Height =>
               u \in DOMAIN m_transactions' /\ m_transactions'[u] = m_transactions[u]
        BY <1>5, Zenon
      <3>2. Stored(m_transactions, bl, Height, n)
        BY <2>1, Zenon
      <3>. QED  BY <3>1, <3>2, StoredAfter, Zenon
    <2>3. IndexOf(MinerTx[bl])' = IndexOf(MinerTx[bl])
      BY <1>1, <2>2, Zenon DEF IndexOf
    <2>8. IndexOf(MinerTx[bl]) \in Nat
      BY <1>0, <2>1, LedgerTypes, Zenon DEF Stored
    <2>4. m_transactions'[t].m_global_output_index
             = m_transactions'[MinerTx[bl]].m_global_output_index + (n + 1)
      BY <1>2, <1>5, <2>1, <2>2, <2>8, SMTT(30) DEF IndexOf
    <2>5. Stored(m_transactions', bl, Height, n + 1)
      <3>1. \A l \in 1..(n + 1) : l \in 1..n \/ l = n + 1
        BY <1>2
      <3>. QED  BY <1>5, <1>11, <2>2, <2>4, <3>1, Zenon DEF Stored
    <2>6. IndexOf(MinerTx[bl])' = EndOf(m_blocks[Whole].id)' + 1
      BY <1>7, <2>1, <2>3, Zenon
    <2>7. Len(m_outputs)' = IndexOf(MinerTx[bl])' + n'
      <3>1. /\ n' = n + 1 /\ n \in Nat /\ Len(m_outputs)' = Len(m_outputs) + 1
            /\ Len(m_outputs) = IndexOf(MinerTx[bl]) + n
        BY <1>1, <1>2, <1>5, <2>1, Zenon
      <3>. QED  BY <2>3, <2>8, <3>1
    <2>. QED  BY <1>1, <1>4, <2>5, <2>6, <2>7, Zenon DEF TopStored
  <1>9. NothingElse'
    <2>. SUFFICES ASSUME NEW u \in DOMAIN m_transactions'
                  PROVE  \/ /\ KeeperOf(u)' \in 0..(Whole' - 1)
                            /\ u \in BlockTxs(m_blocks'[KeeperOf(u)' + 1].id)
                         \/ Partial' /\ KeeperOf(u)' = Whole' /\ u \in Processed'
      BY Zenon DEF NothingElse
    <2>1. CASE u = t
      <3>1. n + 1 \in 1..n'
        BY <1>1, <1>2
      <3>2. t \in Processed'
        BY <1>1, <1>11, <3>1, Zenon DEF Processed
      <3>. QED  BY <1>4, <1>5, <2>1, <3>2, Zenon DEF KeeperOf
    <2>2. CASE u \in DOMAIN m_transactions
      <3>1. KeeperOf(u)' = KeeperOf(u)
        BY <1>5, <2>2, Zenon DEF KeeperOf
      <3>2. \A i \in 1..n : i \in 1..n'
        BY <1>1, <1>2
      <3>3. Processed \subseteq Processed'
        BY <1>1, <3>2, Zenon DEF Processed
      <3>4. \/ KeeperOf(u) \in 0..(Whole - 1) /\ u \in BlockTxs(m_blocks[KeeperOf(u) + 1].id)
            \/ KeeperOf(u) = Whole /\ u \in Processed
        BY <1>0, <2>2, Zenon DEF NothingElse
      <3>. QED  BY <1>1, <1>4, <3>1, <3>3, <3>4, Zenon
    <2>. QED  BY <1>5, <2>1, <2>2, Zenon
  <1>. QED  BY <1>1, <1>6, <1>7, <1>8, <1>9, Zenon DEF LedgerInv, PopSucceeds

\* What a purge takes away next is the top entry, and one of the partial block.
LEMMA PurgedOnTop ==
    ASSUME IInv, OutputsInverse, TopStored, PurgeStep
    PROVE  /\ PurgedTx \in DOMAIN m_transactions /\ KeeperOf(PurgedTx) = Whole
           /\ IndexOf(PurgedTx) = Len(m_outputs)
           /\ IndexOf(PurgedTx) = IndexOf(MinerTx[bl]) + n
  <1>0. TypeOK /\ ControlInv /\ ChainIndexed
    BY Zenon DEF IInv
  <1>1. Partial
    BY Zenon DEF PurgeStep, Partial
  <1>2. /\ Stored(m_transactions, bl, Whole, n)
        /\ Len(m_outputs) = IndexOf(MinerTx[bl]) + n
    BY <1>1, Zenon DEF TopStored
  <1>3. MinerTx[bl] \in DOMAIN m_transactions /\ n \in Nat
    BY <1>0, <1>2, LedgerTypes, Zenon DEF Stored
  <1>4. IndexOf(MinerTx[bl]) \in Nat
    BY <1>0, <1>3, LedgerTypes, Zenon
  <1>5. CASE n = 0
    BY <1>2, <1>3, <1>4, <1>5, SMTT(30) DEF Stored, PurgedTx, IndexOf, KeeperOf
  <1>6. CASE n > 0
    <2>1. n \in 1..n /\ PurgedTx = TxHashes[bl][n]
      BY <1>3, <1>6 DEF PurgedTx
    <2>. QED  BY <1>2, <2>1, Zenon DEF Stored, IndexOf, KeeperOf
  <1>. QED  BY <1>3, <1>5, <1>6

\* purge_block_data_from_blockchain takes the entries of the partial block away,
\* the last one first.
LEMMA PurgeLedger ==
    ASSUME IInv, LedgerInv, PurgeStep, ~pool_refused'
    PROVE  LedgerInv'
  <1>. DEFINE t == PurgedTx
  <1>1. /\ purge_transaction_from_blockchain(t) /\ n' = LeftToPurge
        /\ pc \in {"purge", "popping"} /\ UNCHANGED <<m_blocks, bl>>
        /\ pc' = CASE n > 0 -> pc [] n = 0 /\ pc = "purge" -> "purged" [] OTHER -> "popped"
    BY Zenon DEF PurgeStep
  <1>2. ~pool_refused
    BY <1>1, Zenon DEF purge_transaction_from_blockchain
  <1>0. /\ TypeOK /\ ControlInv /\ ChainIndexed
        /\ OutputsInverse /\ BlocksStored /\ TopStored /\ NothingElse /\ PopSucceeds
    BY <1>2, Zenon DEF LedgerInv, IInv
  <1>3. /\ Height \in Nat /\ Whole \in 1..Height /\ m_outputs \in Seq(AllTx) /\ n \in Nat
        /\ Len(m_outputs) \in Nat
    BY <1>0, LedgerTypes, Zenon
  <1>4. /\ t \in DOMAIN m_transactions /\ KeeperOf(t) = Whole /\ IndexOf(t) = Len(m_outputs)
        /\ IndexOf(t) = IndexOf(MinerTx[bl]) + n
    BY <1>0, PurgedOnTop, Zenon
  <1>5. t \in AllTx
    BY <1>0, <1>4, Zenon DEF TypeOK, ChainTypeOK
  <1>6. n > 0 => t = TxHashes[bl][n]
    BY Zenon DEF PurgedTx
  <1>7. n = 0 => t = MinerTx[bl]
    BY DEF PurgedTx
  <1>. HIDE DEF t
  <1>8. /\ DOMAIN m_transactions' = DOMAIN m_transactions \ {t}
        /\ \A u \in DOMAIN m_transactions' : m_transactions'[u] = m_transactions[u]
        /\ Len(m_outputs) \in Nat \ {0} /\ Len(m_outputs') = Len(m_outputs) - 1
        /\ r' = r
    BY <1>0, <1>1, <1>3, <1>4, RemovedEntry, Zenon
  <1>9. OutputsInverse'
    BY <1>0, <1>1, <1>3, <1>4, <1>5, OutputsInverseKept, Zenon
  <1>10. Whole' = Whole /\ Partial /\ (n > 0 <=> Partial')
    BY <1>1, <1>3 DEF Whole, Partial, Height
  <1>11. \A u \in DOMAIN m_transactions :
            KeeperOf(u) < Whole => u \in DOMAIN m_transactions' /\ m_transactions'[u] = m_transactions[u]
    BY <1>3, <1>4, <1>8
  <1>12. BlocksStored' /\ EndOf(m_blocks[Whole].id)' = EndOf(m_blocks[Whole].id)
    BY <1>0, <1>1, <1>10, <1>11, WholeKept, Zenon
  <1>13. /\ Stored(m_transactions, bl, Whole, n)
         /\ IndexOf(MinerTx[bl]) = EndOf(m_blocks[Whole].id) + 1
         /\ Len(m_outputs) = IndexOf(MinerTx[bl]) + n
    BY <1>0, <1>10, Zenon DEF TopStored
  <1>17. EndOf(m_blocks[Whole].id) \in Nat /\ IndexOf(MinerTx[bl]) \in Nat
    <2>1. Whole \in 1..Whole /\ m_blocks[Whole].id \in Block
      BY <1>0, <1>3, LedgerTypes
    <2>2. MinerTx[m_blocks[Whole].id] \in DOMAIN m_transactions /\ MinerTx[bl] \in DOMAIN m_transactions
      BY <1>0, <1>13, <2>1, Zenon DEF BlocksStored, Stored
    <2>. QED  BY <1>0, <2>1, <2>2, LedgerTypes DEF EndOf
  <1>14. TopStored'
    <2>1. CASE n = 0
      BY <1>3, <1>8, <1>10, <1>12, <1>13, <1>17, <2>1 DEF TopStored
    <2>2. CASE n > 0
      <3>1. n' = n - 1 /\ Partial'
        BY <1>1, <1>10, <2>2, Zenon DEF LeftToPurge
      <3>2. MinerTx[bl] \in DOMAIN m_transactions' /\ m_transactions'[MinerTx[bl]] = m_transactions[MinerTx[bl]]
        BY <1>3, <1>4, <1>8, <1>13, <1>17, <2>2, SMTT(30) DEF Stored
      <3>3. ASSUME NEW l \in 1..(n - 1)
            PROVE  /\ TxHashes[bl][l] \in DOMAIN m_transactions'
                   /\ m_transactions'[TxHashes[bl][l]] = m_transactions[TxHashes[bl][l]]
        <4>1. l \in 1..n /\ l # n
          BY <1>3
        <4>2. TxHashes[bl][l] \in DOMAIN m_transactions /\ IndexOf(TxHashes[bl][l]) = IndexOf(MinerTx[bl]) + l
          BY <1>13, <4>1, Zenon DEF Stored, IndexOf
        <4>3. TxHashes[bl][l] # t
          <5>1. IndexOf(t) = IndexOf(MinerTx[bl]) + n /\ IndexOf(MinerTx[bl]) \in Nat /\ n \in Nat
            BY <1>3, <1>4, <1>17, Zenon
          <5>. QED  BY <4>1, <4>2, <5>1
        <4>. QED  BY <1>8, <4>2, <4>3, Zenon
      <3>4. \A l \in 1..(n - 1) : l \in 1..n
        BY <1>3
      <3>5. Stored(m_transactions', bl, Whole, n - 1)
        BY <1>13, <3>2, <3>3, <3>4, Zenon DEF Stored
      <3>6. IndexOf(MinerTx[bl])' = IndexOf(MinerTx[bl])
        BY <1>1, <3>2, Zenon DEF IndexOf
      <3>7. IndexOf(MinerTx[bl])' = EndOf(m_blocks[Whole].id)' + 1
        BY <1>12, <1>13, <3>6, Zenon
      <3>8. Len(m_outputs)' = IndexOf(MinerTx[bl])' + n'
        <4>1. /\ n' = n - 1 /\ n \in Nat /\ Len(m_outputs)' = Len(m_outputs) - 1
              /\ Len(m_outputs) = IndexOf(MinerTx[bl]) + n /\ IndexOf(MinerTx[bl]) \in Nat
          BY <1>3, <1>8, <1>13, <1>17, <3>1, Zenon
        <4>. QED  BY <3>6, <4>1
      <3>. QED  BY <1>1, <1>10, <3>1, <3>5, <3>7, <3>8, Zenon DEF TopStored
    <2>. QED  BY <1>3, <2>1, <2>2
  <1>15. NothingElse'
    <2>. SUFFICES ASSUME NEW u \in DOMAIN m_transactions'
                  PROVE  \/ /\ KeeperOf(u)' \in 0..(Whole' - 1)
                            /\ u \in BlockTxs(m_blocks'[KeeperOf(u)' + 1].id)
                         \/ Partial' /\ KeeperOf(u)' = Whole' /\ u \in Processed'
      BY Zenon DEF NothingElse
    <2>1. u \in DOMAIN m_transactions /\ u # t /\ KeeperOf(u)' = KeeperOf(u)
      BY <1>8, Zenon DEF KeeperOf
    <2>2. CASE KeeperOf(u) \in 0..(Whole - 1) /\ u \in BlockTxs(m_blocks[KeeperOf(u) + 1].id)
      BY <1>1, <1>10, <2>1, <2>2, Zenon
    <2>3. CASE KeeperOf(u) = Whole /\ u \in Processed
      <3>1. n > 0 /\ n' = n - 1
        BY <1>1, <1>3, <1>7, <2>1, <2>3 DEF Processed, LeftToPurge
      <3>2. \A i \in 1..n : i = n \/ i \in 1..(n - 1)
        BY <1>3
      <3>3. u \in Processed'
        BY <1>1, <1>6, <2>1, <2>3, <3>1, <3>2, Zenon DEF Processed
      <3>. QED  BY <1>10, <2>1, <2>3, <3>1, <3>3, Zenon
    <2>. QED  BY <1>0, <2>1, <2>2, <2>3, Zenon DEF NothingElse
  <1>16. PopSucceeds'
    <2>1. pc' \in {"popping", "popped"} => pc \in {"popping", "popped"}
      BY <1>1, <1>3
    <2>2. pc' \in {"popping", "popped"} => r
      BY <1>0, <2>1, Zenon DEF PopSucceeds
    <2>. QED  BY <1>8, <2>2, Zenon DEF PopSucceeds
  <1>. QED  BY <1>9, <1>12, <1>14, <1>15, <1>16, Zenon DEF LedgerInv

\* handle_block_to_main_chain pushes bl once all its transactions are there.
LEMMA PushLedger ==
    ASSUME IInv, LedgerInv, PushBlock, ~pool_refused
    PROVE  LedgerInv'
  <1>1. /\ pc = "txs" /\ pc' = "ret" /\ n = Len(TxHashes[bl])
        /\ m_blocks' = Append(m_blocks, PushedEntry(bl))
        /\ UNCHANGED <<m_transactions, m_outputs, pool_refused>>
    BY Zenon DEF PushBlock, Return
  <1>0. /\ TypeOK /\ ControlInv /\ ChainIndexed
        /\ OutputsInverse /\ BlocksStored /\ TopStored /\ NothingElse
    BY Zenon DEF LedgerInv, IInv
  <1>2. /\ Height \in Nat /\ Height > 0 /\ n \in Nat /\ bl \in Block /\ m_blocks \in Seq(BlockEntry)
    BY <1>0, LedgerTypes, Zenon DEF TypeOK, ChainTypeOK, ChainIndexed
  <1>3. /\ Height' = Height + 1 /\ m_blocks'[Height + 1].id = bl
        /\ \A i \in 1..Height : m_blocks'[i] = m_blocks[i]
    BY <1>1, <1>2 DEF Height, PushedEntry
  <1>4. Whole = Height /\ Whole' = Height + 1 /\ Partial /\ ~Partial'
    BY <1>1, <1>3, Zenon DEF Whole, Partial
  <1>5. /\ Stored(m_transactions, bl, Height, Len(TxHashes[bl]))
        /\ IndexOf(MinerTx[bl]) = EndOf(m_blocks[Height].id) + 1
        /\ Len(m_outputs) = EndOf(bl)
    BY <1>0, <1>1, <1>4, Zenon DEF TopStored, EndOf
  <1>6. OutputsInverse'
    BY <1>0, <1>1, Zenon DEF OutputsInverse, IndexOf
  <1>7. BlocksStored'
    <2>1. ASSUME NEW i \in 1..(Height + 1)
          PROVE  Stored(m_transactions, m_blocks'[i].id, i - 1, Len(TxHashes[m_blocks'[i].id]))
      <3>1. CASE i = Height + 1
        BY <1>2, <1>3, <1>5, <3>1
      <3>2. CASE i \in 1..Height
        BY <1>0, <1>3, <1>4, <3>2, Zenon DEF BlocksStored
      <3>. QED  BY <1>2, <3>1, <3>2
    <2>2. ASSUME NEW i \in 2..(Height + 1)
          PROVE  IndexOf(MinerTx[m_blocks'[i].id]) = EndOf(m_blocks'[i - 1].id) + 1
      <3>1. CASE i = Height + 1
        BY <1>2, <1>3, <1>5, <3>1
      <3>2. CASE i \in 2..Height
        <4>1. m_blocks'[i] = m_blocks[i] /\ m_blocks'[i - 1] = m_blocks[i - 1]
          BY <1>2, <1>3, <3>2
        <4>. QED  BY <1>0, <1>4, <3>2, <4>1, Zenon DEF BlocksStored
      <3>. QED  BY <1>2, <3>1, <3>2
    <2>. QED  BY <1>1, <1>4, <2>1, <2>2, ZenonT(30) DEF BlocksStored, IndexOf, EndOf
  <1>8. TopStored'
    BY <1>1, <1>3, <1>4, <1>5, Zenon DEF TopStored, EndOf, IndexOf
  <1>9. NothingElse'
    <2>. SUFFICES ASSUME NEW u \in DOMAIN m_transactions
                  PROVE  /\ KeeperOf(u) \in 0..Height
                         /\ u \in BlockTxs(m_blocks'[KeeperOf(u) + 1].id)
      <3>1. (Whole - 1)' = Height
        BY <1>2, <1>4
      <3>. QED  BY <1>1, <3>1, Zenon DEF NothingElse, KeeperOf
    <2>1. CASE KeeperOf(u) \in 0..(Height - 1) /\ u \in BlockTxs(m_blocks[KeeperOf(u) + 1].id)
      <3>1. KeeperOf(u) + 1 \in 1..Height
        BY <1>2, <2>1
      <3>. QED  BY <1>2, <1>3, <2>1, <3>1
    <2>2. CASE KeeperOf(u) = Height /\ u \in Processed
      <3>1. u \in BlockTxs(bl)
        <4>1. DOMAIN TxHashes[bl] = 1..n
          BY <1>1, <1>2, BlockAssumption
        <4>. QED  BY <2>2, <4>1, Zenon DEF Processed, BlockTxs, Range
      <3>. QED  BY <1>2, <1>3, <2>2, <3>1
    <2>. QED  BY <1>0, <1>4, <2>1, <2>2, Zenon DEF NothingElse
  <1>. QED  BY <1>1, <1>6, <1>7, <1>8, <1>9, Zenon DEF LedgerInv, PopSucceeds

\* pop_block_from_blockchain begins with the top block, all of whose data is there.
LEMMA PopNextLedger ==
    ASSUME IInv, LedgerInv, PopNext, ~pool_refused
    PROVE  LedgerInv'
  <1>1. /\ pc = "pop" /\ pc' = "popping" /\ Height > 1 /\ r' = TRUE
        /\ bl' = m_blocks[Height].id /\ n' = Len(TxHashes[m_blocks[Height].id])
        /\ UNCHANGED <<m_blocks, m_transactions, m_outputs, pool_refused>>
    BY Zenon DEF PopNext, data, chain, get_tail_id
  <1>0. /\ TypeOK /\ ControlInv /\ ChainIndexed
        /\ OutputsInverse /\ BlocksStored /\ TopStored /\ NothingElse
    BY Zenon DEF LedgerInv, IInv
  <1>2. Height \in Nat /\ Height' = Height /\ m_blocks[Height].id \in Block
    BY <1>0, <1>1, LedgerTypes DEF Height
  <1>3. Whole = Height /\ Whole' = Height - 1 /\ ~Partial /\ Partial'
    BY <1>1, <1>2, Zenon DEF Whole, Partial
  <1>4. OutputsInverse'
    BY <1>0, <1>1, Zenon DEF OutputsInverse, IndexOf
  <1>5. BlocksStored'
    <2>1. (\A i \in 1..Whole' : i \in 1..Whole) /\ (\A i \in 2..Whole' : i \in 2..Whole)
      BY <1>2, <1>3
    <2>. QED  BY <1>0, <1>1, <2>1, Zenon DEF BlocksStored, IndexOf, EndOf
  <1>6. TopStored'
    <2>1. Height \in 1..Height /\ Height \in 2..Height
      BY <1>1, <1>2
    <2>2. /\ Stored(m_transactions, bl', Height - 1, n')
          /\ IndexOf(MinerTx[bl']) = EndOf(m_blocks[Height - 1].id) + 1
          /\ Len(m_outputs) = IndexOf(MinerTx[bl']) + n'
      BY <1>0, <1>1, <1>3, <2>1, Zenon DEF BlocksStored, TopStored, EndOf
    <2>. QED  BY <1>1, <1>3, <2>2, Zenon DEF TopStored, IndexOf, EndOf
  <1>7. NothingElse'
    <2>. SUFFICES ASSUME NEW u \in DOMAIN m_transactions
                  PROVE  \/ /\ KeeperOf(u) \in 0..(Height - 1 - 1)
                            /\ u \in BlockTxs(m_blocks[KeeperOf(u) + 1].id)
                         \/ KeeperOf(u) = Height - 1 /\ u \in Processed'
      BY <1>1, <1>3, Zenon DEF NothingElse, KeeperOf
    <2>1. KeeperOf(u) \in 0..(Height - 1) /\ u \in BlockTxs(m_blocks[KeeperOf(u) + 1].id)
      BY <1>0, <1>3, Zenon DEF NothingElse
    <2>2. CASE KeeperOf(u) = Height - 1
      <3>1. u \in BlockTxs(bl')
        BY <1>1, <1>2, <2>1, <2>2
      <3>2. DOMAIN TxHashes[bl'] = 1..n'
        BY <1>1, <1>2, BlockAssumption
      <3>. QED  BY <2>2, <3>1, <3>2, Zenon DEF Processed, BlockTxs, Range
    <2>. QED  BY <1>2, <2>1, <2>2
  <1>8. PopSucceeds'
    BY <1>1, Zenon DEF PopSucceeds
  <1>. QED  BY <1>4, <1>5, <1>6, <1>7, <1>8, Zenon DEF LedgerInv

\* pop_block_from_blockchain ends: only the block was left to take off.
LEMMA PopBlockLedger ==
    ASSUME IInv, LedgerInv, PopBlock, ~pool_refused
    PROVE  LedgerInv'
  <1>1. /\ pc = "popped" /\ pc' = "pop" /\ m_blocks' = SubSeq(m_blocks, 1, Height - 1)
        /\ UNCHANGED <<m_transactions, m_outputs, pool_refused>>
    BY Zenon DEF PopBlock
  <1>0. /\ TypeOK /\ ControlInv /\ ChainIndexed
        /\ OutputsInverse /\ BlocksStored /\ TopStored /\ NothingElse
    BY Zenon DEF LedgerInv, IInv
  <1>2. Height \in Nat /\ Height > 1 /\ m_blocks \in Seq(BlockEntry)
    BY <1>0, <1>1, LedgerTypes, Zenon DEF ControlInv, TypeOK, ChainTypeOK
  <1>3. Height' = Height - 1 /\ \A i \in 1..(Height - 1) : m_blocks'[i] = m_blocks[i]
    BY <1>1, <1>2 DEF Height
  <1>4. Whole = Height - 1 /\ Whole' = Height - 1 /\ ~Partial /\ ~Partial'
    BY <1>1, <1>3, Zenon DEF Whole, Partial
  <1>5. OutputsInverse'
    BY <1>0, <1>1, Zenon DEF OutputsInverse, IndexOf
  <1>6. BlocksStored'
    <2>1. \A i \in 2..(Height - 1) : i \in 1..(Height - 1) /\ i - 1 \in 1..(Height - 1)
      BY <1>2
    <2>. QED  BY <1>0, <1>1, <1>3, <1>4, <2>1, Zenon DEF BlocksStored, IndexOf, EndOf
  <1>7. TopStored'
    <2>1. Height - 1 \in 1..(Height - 1)
      BY <1>2
    <2>. QED  BY <1>0, <1>1, <1>3, <1>4, <2>1, Zenon DEF TopStored, IndexOf, EndOf
  <1>8. NothingElse'
    <2>. SUFFICES ASSUME NEW u \in DOMAIN m_transactions
                  PROVE  /\ KeeperOf(u) \in 0..(Height - 1 - 1)
                         /\ u \in BlockTxs(m_blocks'[KeeperOf(u) + 1].id)
      BY <1>1, <1>4, Zenon DEF NothingElse, KeeperOf
    <2>1. KeeperOf(u) \in 0..(Height - 1 - 1) /\ u \in BlockTxs(m_blocks[KeeperOf(u) + 1].id)
      BY <1>0, <1>4, Zenon DEF NothingElse
    <2>2. KeeperOf(u) + 1 \in 1..(Height - 1)
      BY <1>2, <2>1
    <2>. QED  BY <1>3, <2>1, <2>2, Zenon
  <1>. QED  BY <1>1, <1>5, <1>6, <1>7, <1>8, Zenon DEF LedgerInv, PopSucceeds

\* The other steps leave the ledger alone; the block they turn to next is whole.
LEMMA QuietLedger ==
    ASSUME IInv, LedgerInv, Quiet, ~PopNext, ~pool_refused
    PROVE  LedgerInv'
  <1>0. UNCHANGED <<m_blocks, m_transactions, m_outputs, pool_refused>> /\ Height' = Height
    BY QuietUnchanged, Zenon DEF chain, Height
  <1>1. ASSUME pc \notin {"txs", "purge", "popping", "popped"}, 
               pc' \notin {"txs", "purge", "popping", "popped"}
        PROVE  LedgerInv'
    <2>1. Whole' = Whole /\ Partial' = Partial /\ ~Partial /\ pc' \notin {"popping", "popped"}
      BY <1>0, <1>1 DEF Whole, Partial
    <2>. QED  BY <1>0, <2>1, LedgerSame, Zenon
  <1>2. CASE pc = "txs" /\ pc' = "purge" /\ UNCHANGED <<bl, n>>
    <2>1. Whole' = Whole /\ Partial' = Partial /\ pc' \notin {"popping", "popped"}
      BY <1>0, <1>2 DEF Whole, Partial
    <2>. QED  BY <1>0, <1>2, <2>1, LedgerSame, Zenon
  <1>3. CASE UNCHANGED <<pc, bl, n, r>>
    <2>1. Whole' = Whole /\ Partial' = Partial
      BY <1>0, <1>3, Zenon DEF Whole, Partial
    <2>2. pc' \in {"popping", "popped"} => r'
      BY <1>3, Zenon DEF LedgerInv, PopSucceeds
    <2>. QED  BY <1>0, <1>3, <2>1, <2>2, LedgerSame, Zenon
  <1>4. CASE QuietMain
    <2>1. \/ pc \in {"main", "purged"} /\ pc' = "ret"
          \/ pc = "txs" /\ pc' = "purge" /\ UNCHANGED <<bl, n>>
      BY <1>4, Zenon DEF QuietMain, MainHeaderRefused, UnknownTx, WrongInputs, BlockRefused,
         ReturnAfterPurge, Return
    <2>. QED  BY <1>1, <1>2, <2>1, Zenon
  <1>5. CASE QuietPop
    <2>1. ~PopFailed
      BY Zenon DEF PopFailed, LedgerInv, PopSucceeds
    <2>2. pc = "pop" /\ pc' = "ret"
      BY <1>5, <2>1, Zenon DEF QuietPop, PopGenesis, Return
    <2>. QED  BY <1>1, <2>2, Zenon
  <1>6. CASE AltStep
    <2>1. pc \in {"alt", "walk"} /\ pc' \in {"walk", "ret", "pop"}
      BY <1>6, Zenon DEF AltStep, AltRefused, AltOrphaned, AltBegin, AltWalk, AltHeaderRefused,
         AddedAsAlternative, Reorganize, Return
    <2>. QED  BY <1>1, <2>1, Zenon
  <1>7. CASE SwitchStep \/ Leave
    <2>1. pc \in {"ret", "pop"} /\ pc' \in {"idle", "main", "alt", "pop"}
      BY <1>7, Zenon DEF SwitchStep, DisconnectDone, DisconnectFailed, ConnectNext, ConnectFailed,
         PushOldChain, PushNext, PushFailed, SwitchSucceeded, ReconnectFirst, ReconnectNext,
         UndoDone, RestoreDone, RollbackOver, ConnectBlock, ReconnectBlock, PushOldBlock,
         Finish, Leave, ReturnFromAdd, CheckpointRollbackDone
    <2>. QED  BY <1>1, <2>1, Zenon
  <1>8. CASE Enter
    <2>1. pc = "idle" /\ pc' \in {"main", "alt", "pop"}
      BY <1>8, Zenon DEF Enter, add_new_block, CheckpointRollback
    <2>. QED  BY <1>1, <2>1, Zenon
  <1>9. CASE Outside \/ UNCHANGED vars
    BY <1>3, <1>9, OutsideUnchanged, Zenon DEF vars, control
  <1>. QED  BY <1>4, <1>5, <1>6, <1>7, <1>8, <1>9, Zenon DEF Quiet

\* reset_and_set_genesis_block stores the miner_tx of the genesis block.
LEMMA LedgerInit == Init => LedgerInv
  <1>. SUFFICES ASSUME Init PROVE LedgerInv
    BY Zenon
  <1>1. /\ Height = 1 /\ m_blocks[1].id = Genesis /\ m_outputs = <<MinerTx[Genesis]>>
        /\ DOMAIN m_transactions = {MinerTx[Genesis]} /\ pc = "idle"
        /\ KeeperOf(MinerTx[Genesis]) = 0 /\ IndexOf(MinerTx[Genesis]) = 1
    BY Zenon DEF Init, InitChain, InitBlockThread, Height, KeeperOf, IndexOf
  <1>2. TxHashes[Genesis] = <<>>
    BY BlockAssumption, Zenon
  <1>9. m_outputs = <<MinerTx[Genesis]>> /\ IndexOf(MinerTx[Genesis]) = 1
    BY <1>1, Zenon
  <1>3. Len(TxHashes[Genesis]) = 0 /\ EndOf(Genesis) = 1 /\ Len(m_outputs) = 1
        /\ m_outputs[1] = MinerTx[Genesis]
    BY <1>2, <1>9 DEF EndOf
  <1>4. Whole = 1 /\ ~Partial
    BY <1>1, Zenon DEF Whole, Partial
  <1>5. OutputsInverse
    <2>1. 1..Len(m_outputs) = {1}
      BY <1>3
    <2>. QED  BY <1>1, <1>3, <2>1, Zenon DEF OutputsInverse
  <1>6. BlocksStored
    <2>1. 1..Whole = {1} /\ 2..Whole = {} /\ 1..Len(TxHashes[Genesis]) = {} /\ 1 - 1 = 0
      BY <1>3, <1>4
    <2>. QED  BY <1>1, <1>3, <2>1, Zenon DEF BlocksStored, Stored, KeeperOf
  <1>7. TopStored
    BY <1>1, <1>3, <1>4, Zenon DEF TopStored
  <1>8. NothingElse
    <2>1. 0 \in 0..(Whole - 1) /\ 0 + 1 = 1
      BY <1>4
    <2>2. MinerTx[Genesis] \in BlockTxs(Genesis)
      BY Zenon DEF BlockTxs
    <2>. QED  BY <1>1, <2>1, <2>2, Zenon DEF NothingElse
  <1>. QED  BY <1>1, <1>5, <1>6, <1>7, <1>8, Zenon DEF LedgerInv, PopSucceeds

\* Every step of every thread keeps the ledger so.
LEMMA LedgerStep == IInv /\ LedgerInv /\ [Next]_vars => LedgerInv'
  <1>. SUFFICES ASSUME IInv, LedgerInv, [Next]_vars PROVE LedgerInv'
    BY Zenon
  <1>1. CASE pool_refused'
    BY <1>1, Zenon DEF LedgerInv
  <1>2. CASE ~pool_refused' /\ PurgeStep
    BY <1>2, PurgeLedger, Zenon
  <1>3. CASE ~pool_refused' /\ ~PurgeStep
    <2>1. ~pool_refused
      <3>1. pool_refused' = pool_refused
        BY <1>3, NextCases, QuietUnchanged, Zenon DEF AddMinerTx, AddBlockTx, PushBlock, PopBlock
      <3>. QED  BY <1>3, <3>1, Zenon
    <2>. QED
      BY <1>3, <2>1, NextCases, AddMinerTxLedger, AddBlockTxLedger, PushLedger, PopBlockLedger,
         PopNextLedger, QuietLedger, Zenon
  <1>. QED  BY <1>1, <1>2, <1>3, Zenon

\* What LedgerMatchesChain says follows.
LEMMA LedgerImplies == IInv /\ LedgerInv => LedgerMatchesChain
  <1>. SUFFICES ASSUME IInv, LedgerInv, ~pool_refused PROVE LedgerMatchesChain
    BY Zenon DEF LedgerMatchesChain
  <1>0. /\ TypeOK /\ ControlInv /\ ChainIndexed
        /\ OutputsInverse /\ BlocksStored /\ TopStored /\ NothingElse
    BY Zenon DEF LedgerInv, IInv
  <1>1. /\ Height \in Nat /\ Whole \in 1..Height /\ m_outputs \in Seq(AllTx) /\ n \in Nat
        /\ \A i \in 1..Height : m_blocks[i].id \in Block
        /\ \A t \in DOMAIN m_transactions : KeeperOf(t) \in Nat
    BY <1>0, LedgerTypes, Zenon
  <1>2. ASSUME NEW t
        PROVE  t \in LedgerTxs <=>
                  (\E i \in 1..Whole : t \in BlockTxs(m_blocks[i].id)) \/ (Partial /\ t \in Processed)
    <2>. DEFINE W == UNION {BlockTxs(m_blocks[i].id) : i \in 1..Whole}
    <2>1. LedgerTxs = W \cup (IF Partial THEN Processed ELSE {})
      BY Zenon DEF LedgerTxs, Whole, Partial
    <2>2. t \in W <=> \E i \in 1..Whole : t \in BlockTxs(m_blocks[i].id)
      OBVIOUS
    <2>. HIDE DEF W
    <2>3. t \in LedgerTxs <=> t \in W \/ (Partial /\ t \in Processed)
      BY <2>1, Zenon
    <2>. QED  BY <2>2, <2>3, Zenon
  <1>3. ASSUME NEW t \in DOMAIN m_transactions PROVE t \in LedgerTxs
    <2>1. CASE KeeperOf(t) \in 0..(Whole - 1) /\ t \in BlockTxs(m_blocks[KeeperOf(t) + 1].id)
      <3>1. KeeperOf(t) + 1 \in 1..Whole
        BY <1>1, <2>1
      <3>. QED  BY <1>2, <2>1, <3>1, Zenon
    <2>2. CASE Partial /\ t \in Processed
      BY <1>2, <2>2, Zenon
    <2>. QED  BY <1>0, <2>1, <2>2, Zenon DEF NothingElse
  <1>4. ASSUME NEW t \in LedgerTxs PROVE t \in DOMAIN m_transactions
    <2>1. ASSUME NEW i \in 1..Whole, t \in BlockTxs(m_blocks[i].id) PROVE t \in DOMAIN m_transactions
      <3>. DEFINE b == m_blocks[i].id
      <3>1. Stored(m_transactions, b, i - 1, Len(TxHashes[b]))
        BY <1>0, Zenon DEF BlocksStored
      <3>2. b \in Block
        BY <1>1
      <3>3. DOMAIN TxHashes[b] = 1..Len(TxHashes[b])
        BY <3>2, BlockAssumption
      <3>. QED  BY <2>1, <3>1, <3>3, Zenon DEF BlockTxs, Stored, Range
    <2>2. ASSUME Partial, t \in Processed PROVE t \in DOMAIN m_transactions
      BY <1>0, <2>2, Zenon DEF TopStored, Stored, Processed
    <2>. QED  BY <1>2, <2>1, <2>2, Zenon
  <1>5. ASSUME NEW t \in DOMAIN m_transactions
        PROVE  /\ m_outputs[IndexOf(t)] = t
               /\ KeeperOf(t) < Height => t \in BlockTxs(m_blocks[KeeperOf(t) + 1].id)
               /\ KeeperOf(t) >= Height => pc \in {"txs", "purge"}
    <2>1. m_outputs[IndexOf(t)] = t
      BY <1>0, Zenon DEF OutputsInverse
    <2>2. CASE KeeperOf(t) \in 0..(Whole - 1) /\ t \in BlockTxs(m_blocks[KeeperOf(t) + 1].id)
      BY <1>1, <2>1, <2>2
    <2>3. CASE Partial /\ KeeperOf(t) = Whole /\ t \in Processed
      <3>1. CASE pc = "popping"
        <4>1. Whole = Height - 1 /\ bl = m_blocks[Height].id /\ n <= Len(TxHashes[bl]) /\ bl \in Block
          BY <1>0, <3>1, Zenon DEF Whole, ControlInv, get_tail_id, TypeOK, ControlTypeOK
        <4>2. TxHashes[bl] \in Seq(Tx)
          BY <4>1, BlockAssumption, Zenon
        <4>3. \A i \in 1..n : i \in DOMAIN TxHashes[bl]
          BY <1>1, <4>1, <4>2
        <4>4. t \in BlockTxs(bl)
          BY <2>3, <4>3, Zenon DEF Processed, BlockTxs, Range
        <4>. QED  BY <1>1, <2>1, <2>3, <4>1, <4>4
      <3>2. CASE pc \in {"txs", "purge"}
        BY <1>1, <2>1, <2>3, <3>2, SMTT(30) DEF Whole
      <3>. QED  BY <2>3, <3>1, <3>2, Zenon DEF Partial
    <2>. QED  BY <1>0, <2>2, <2>3, Zenon DEF NothingElse
  <1>6. \A i, h \in 1..Len(m_outputs) : m_outputs[i] = m_outputs[h] => i = h
    BY <1>0, Zenon DEF OutputsInverse
  <1>7. Range(m_outputs) = DOMAIN m_transactions
    <2>1. DOMAIN m_outputs = 1..Len(m_outputs)
      BY <1>1
    <2>. QED  BY <1>0, <2>1, Zenon DEF OutputsInverse, Range
  <1>. QED  BY <1>3, <1>4, <1>5, <1>6, <1>7, Zenon DEF LedgerMatchesChain, IndexOf, KeeperOf

\* The stored transactions and outputs are those of the main chain, at every step
\* of a block, a purge, a rollback or a reorganisation: a block that is refused
\* half-way, or a switch that is undone, leaves nothing behind.
THEOREM LedgerCorrect == Spec => []LedgerMatchesChain
  <1>1. Init => IInv /\ LedgerInv
    BY IInvInit, LedgerInit, Zenon
  <1>2. IInv /\ LedgerInv /\ [Next]_vars => (IInv /\ LedgerInv)'
    BY IInvStep, LedgerStep, Zenon
  <1>. QED  BY <1>1, <1>2, LedgerImplies, PTL DEF Spec

-----------------------------------------------------------------------------
(* Checkpoints.  A block is pushed only if it agrees with the points that  *)
(* are known, and those cannot change before the locks are released; what  *)
(* is left is that update_checkpoints finds the blocks that were there     *)
(* before a point was, and that a rollback takes them off.                 *)

\* The points check_against_checkpoints has looked at, and a rollback leaves.
Enforced(h) ==
    /\ 2 <= h /\ h < Height
    /\ cp_pc = "idle" \/ h < cp_height
    /\ mode = "checkpoint" => h < split_height + 2

RollbackControl ==
    mode = "checkpoint" =>
        /\ pc \in {"pop", "popping", "popped", "ret"}
        /\ cp_pc = "check" /\ cp_height = split_height + 3

CheckpointInv ==
    /\ RollbackControl
    /\ pool_refused \/
       /\ pc = "txs" => check_block(Height, bl)
       /\ mode = "checkpoint" /\ pc = "ret" => Height <= 1
       /\ \A h \in DOMAIN m_checkpoints : Enforced(h) => m_blocks[h + 1].id = m_checkpoints[h]

\* Only the block thread leaves a rollback, and update_checkpoints waits for it.
LEMMA RollbackControlStep ==
    ASSUME TypeOK, RollbackControl, [Next]_vars
    PROVE  RollbackControl'
  <1>. USE DEF frame, control, data, env
  <1>0. n \in Nat /\ (cp_pc = "rollback" => cp_height \in Nat)
    BY Zenon DEF TypeOK, ControlTypeOK, CheckpointTypeOK
  <1>1. CASE mode' # "checkpoint"
    BY <1>1, Zenon DEF RollbackControl
  <1>2. CASE AddMinerTx \/ AddBlockTx \/ PushBlock \/ QuietMain
    <2>1. pc \in {"main", "txs", "purged"} /\ mode' = mode
      BY <1>2, Zenon DEF AddMinerTx, AddBlockTx, PushBlock, QuietMain, MainHeaderRefused, UnknownTx,
         WrongInputs, BlockRefused, ReturnAfterPurge
    <2>. QED  BY <1>1, <2>1, Zenon DEF RollbackControl
  <1>3. CASE PurgeStep
    <2>1. /\ pc = "purge" \/ (pc = "popping" /\ pc' \in {"popping", "popped"})
          /\ UNCHANGED <<mode, split_height, cp_pc, cp_height>>
      BY <1>0, <1>3, Zenon DEF PurgeStep
    <2>. QED  BY <2>1, Zenon DEF RollbackControl
  <1>4. CASE PopBlock \/ QuietPop
    <2>1. pc' \in {"pop", "popping", "ret"} /\ UNCHANGED <<mode, split_height, cp_pc, cp_height>>
      BY <1>4, Zenon DEF PopBlock, QuietPop, PopNext, PopGenesis, PopFailed, Return
    <2>. QED  BY <2>1, Zenon DEF RollbackControl
  <1>5. CASE AltStep
    <2>1. pc \in {"alt", "walk"} /\ mode' \in {mode, "disconnect"}
      BY <1>5, Zenon DEF AltStep, AltRefused, AltOrphaned, AltBegin, AltWalk, AltHeaderRefused,
         AddedAsAlternative, Reorganize
    <2>. QED  BY <1>1, <2>1, Zenon DEF RollbackControl
  <1>6. CASE SwitchStep \/ Leave
    <2>1. mode' # "checkpoint"
      BY <1>6, Zenon DEF SwitchStep, DisconnectDone, DisconnectFailed, ConnectNext, ConnectFailed,
         PushOldChain, PushNext, PushFailed, SwitchSucceeded, ReconnectFirst, ReconnectNext,
         UndoDone, RestoreDone, Finish, Leave, ReturnFromAdd, CheckpointRollbackDone
    <2>. QED  BY <1>1, <2>1, Zenon
  <1>7. CASE Enter
    BY <1>0, <1>7, SMTT(30) DEF Enter, add_new_block, CheckpointRollback, RollbackControl
  <1>8. CASE Outside
    <2>1. UNCHANGED <<pc, mode, split_height>>
      BY <1>8, OutsideUnchanged, Zenon
    <2>2. UNCHANGED <<cp_pc, cp_height>> \/ pc = "idle"
      BY <1>8, Zenon DEF Outside, load_new_checkpoints, check_against_checkpoints,
         CheckpointsPassed, handle_incoming_tx, IncomingThread, IncomingHaveTx, IncomingImages,
         IncomingInputs, IncomingInsert, remove_stuck_transactions, TimePasses
    <2>. QED  BY <2>1, <2>2, Zenon DEF RollbackControl
  <1>9. CASE UNCHANGED vars
    BY <1>9, Zenon DEF vars, RollbackControl
  <1>. QED  BY <1>2, <1>3, <1>4, <1>5, <1>6, <1>7, <1>8, <1>9, NextCases, Zenon DEF Quiet

\* The points and the block that agree with each other stay when the chain and the
\* points do, and the block thread neither begins nor ends a rollback.
LEMMA CheckpointSame ==
    ASSUME CheckpointInv, RollbackControl', ~pool_refused, Height \in Nat,
           UNCHANGED <<m_blocks, m_checkpoints, cp_pc, cp_height>>,
           \/ mode # "checkpoint" /\ mode' # "checkpoint"
           \/ UNCHANGED <<mode, split_height>>,
           mode' = "checkpoint" /\ pc' = "ret" => Height <= 1,
           pc' = "txs" => check_block(Height, bl')
    PROVE  CheckpointInv'
  <1>1. Height' = Height
    BY Zenon DEF Height
  <1>2. \A h \in DOMAIN m_checkpoints' : Enforced(h)' => m_blocks'[h + 1].id = m_checkpoints'[h]
    BY <1>1, Zenon DEF CheckpointInv, Enforced
  <1>3. pc' = "txs" => check_block(Height, bl)'
    BY <1>1, Zenon DEF check_block
  <1>. QED  BY <1>1, <1>2, <1>3, Zenon DEF CheckpointInv

\* handle_block_to_main_chain pushes a block that agrees with the points.
LEMMA PushAgrees ==
    ASSUME TypeOK, CheckpointInv, RollbackControl', ~pool_refused, PushBlock
    PROVE  CheckpointInv'
  <1>1. /\ pc = "txs" /\ pc' = "ret" /\ m_blocks' = Append(m_blocks, PushedEntry(bl))
        /\ UNCHANGED <<m_checkpoints, cp_pc, cp_height, mode, split_height, pool_refused>>
    BY Zenon DEF PushBlock, Return, env, frame
  <1>2. m_blocks \in Seq(BlockEntry) /\ DOMAIN m_checkpoints \subseteq Nat
    BY Zenon DEF TypeOK, ChainTypeOK, CheckpointTypeOK
  <1>3. /\ Height \in Nat /\ Height' = Height + 1 /\ m_blocks'[Height + 1].id = bl
        /\ \A i \in 1..Height : m_blocks'[i] = m_blocks[i]
    BY <1>1, <1>2 DEF Height, PushedEntry
  <1>4. check_block(Height, bl) /\ mode # "checkpoint"
    BY <1>1, Zenon DEF CheckpointInv, RollbackControl
  <1>5. ASSUME NEW h \in DOMAIN m_checkpoints, Enforced(h)'
        PROVE  m_blocks'[h + 1].id = m_checkpoints[h]
    <2>1. h \in Nat /\ 2 <= h /\ h < Height + 1 /\ (cp_pc = "idle" \/ h < cp_height)
      BY <1>1, <1>2, <1>3, <1>5, Zenon DEF Enforced
    <2>2. CASE h = Height
      BY <1>3, <1>4, <2>2, Zenon DEF check_block
    <2>3. CASE h < Height
      <3>1. Enforced(h) /\ h + 1 \in 1..Height
        BY <1>3, <1>4, <2>1, <2>3, SMTT(30) DEF Enforced
      <3>. QED  BY <1>3, <3>1, Zenon DEF CheckpointInv
    <2>. QED  BY <1>3, <2>1, <2>2, <2>3, SMTT(30)
  <1>. QED  BY <1>1, <1>4, <1>5, Zenon DEF CheckpointInv

\* pop_block_from_blockchain leaves the blocks below as they are.
LEMMA PopAgrees ==
    ASSUME TypeOK, ControlInv, CheckpointInv, RollbackControl', ~pool_refused, PopBlock
    PROVE  CheckpointInv'
  <1>1. /\ pc' = "pop" /\ m_blocks' = SubSeq(m_blocks, 1, Height - 1)
        /\ UNCHANGED <<m_checkpoints, cp_pc, cp_height, mode, split_height, pool_refused>>
    BY Zenon DEF PopBlock, env
  <1>2. m_blocks \in Seq(BlockEntry) /\ DOMAIN m_checkpoints \subseteq Nat
    BY Zenon DEF TypeOK, ChainTypeOK, CheckpointTypeOK
  <1>3. Height > 1
    BY Zenon DEF PopBlock, ControlInv
  <1>4. Height \in Nat /\ Height' = Height - 1 /\ \A i \in 1..(Height - 1) : m_blocks'[i] = m_blocks[i]
    BY <1>1, <1>2, <1>3 DEF Height
  <1>5. ASSUME NEW h \in DOMAIN m_checkpoints, Enforced(h)'
        PROVE  m_blocks'[h + 1].id = m_checkpoints[h]
    <2>1. Enforced(h) /\ h + 1 \in 1..(Height - 1)
      BY <1>1, <1>2, <1>4, <1>5 DEF Enforced
    <2>. QED  BY <1>4, <2>1, Zenon DEF CheckpointInv
  <1>. QED  BY <1>1, <1>5, Zenon DEF CheckpointInv

\* check_against_checkpoints goes on to the next point that disagrees, or to the end.
LEMMA ComparisonAgrees ==
    ASSUME TypeOK, CheckpointInv, RollbackControl', ~pool_refused,
           check_against_checkpoints \/ CheckpointsPassed
    PROVE  CheckpointInv'
  <1>1. /\ pc = "idle" /\ cp_pc = "check"
        /\ UNCHANGED <<m_blocks, m_checkpoints, control, pool_refused>>
    BY Zenon DEF check_against_checkpoints, CheckpointsPassed, chain
  <1>2. pc' = "idle" /\ Height' = Height /\ mode # "checkpoint" /\ mode' # "checkpoint"
    BY <1>1, Zenon DEF control, Height, CheckpointInv, RollbackControl
  <1>3. Height \in Nat /\ DOMAIN m_checkpoints \subseteq Nat /\ cp_height \in Nat
    BY DEF TypeOK, ChainTypeOK, CheckpointTypeOK, Height
  <1>4. ASSUME NEW h \in DOMAIN m_checkpoints, 2 <= h, h < Height, h \notin FailingPoints
        PROVE  m_blocks[h + 1].id = m_checkpoints[h]
    <2>1. CASE h < cp_height
      BY <1>2, <1>4, <2>1, Zenon DEF CheckpointInv, Enforced
    <2>2. CASE h >= cp_height
      BY <1>4, <2>2, Zenon DEF FailingPoints
    <2>. QED  BY <1>3, <2>1, <2>2
  <1>5. ASSUME NEW h \in DOMAIN m_checkpoints, Enforced(h)'
        PROVE  m_blocks[h + 1].id = m_checkpoints[h]
    <2>1. h \in Nat /\ 2 <= h /\ h < Height
      BY <1>2, <1>3, <1>5, Zenon DEF Enforced
    <2>2. h \notin FailingPoints
      <3>1. CASE CheckpointsPassed
        BY <2>1, <3>1, Zenon DEF CheckpointsPassed
      <3>2. CASE check_against_checkpoints
        <4>1. /\ cp_pc' = "rollback" /\ cp_height' \in FailingPoints
              /\ \A g \in FailingPoints : g >= 2 => cp_height' <= g
          BY <3>2, Zenon DEF check_against_checkpoints
        <4>2. cp_height' \in Nat /\ h < cp_height'
          BY <1>3, <1>5, <4>1, Zenon DEF Enforced, FailingPoints
        <4>. QED  BY <2>1, <4>1, <4>2
      <3>. QED  BY <3>1, <3>2, Zenon
    <2>. QED  BY <1>4, <2>1, <2>2, Zenon
  <1>. QED  BY <1>1, <1>2, <1>5, Zenon DEF CheckpointInv

\* rollback_blockchain_switching begins two blocks below the point that disagrees,
\* and ends there.
LEMMA RollbackAgrees ==
    ASSUME TypeOK, CheckpointInv, RollbackControl', ~pool_refused,
           CheckpointRollback \/ CheckpointRollbackDone
    PROVE  CheckpointInv'
  <1>. USE DEF frame, data, env, chain
  <1>0. /\ Height \in Nat /\ DOMAIN m_checkpoints \subseteq Nat /\ cp_height \in Nat
        /\ split_height \in Nat
    BY DEF TypeOK, ChainTypeOK, CheckpointTypeOK, ControlTypeOK, Height
  <1>1. UNCHANGED <<m_blocks, m_checkpoints, pool_refused>> /\ Height' = Height
    BY Zenon DEF CheckpointRollback, CheckpointRollbackDone, Height
  <1>2. CASE CheckpointRollback
    <2>1. /\ pc = "idle" /\ mode # "checkpoint" /\ pc' = "pop" /\ mode' = "checkpoint"
          /\ split_height' = cp_height - 2
      BY <1>2, Zenon DEF CheckpointRollback, CheckpointInv, RollbackControl
    <2>2. ASSUME NEW h \in DOMAIN m_checkpoints, Enforced(h)'
          PROVE  m_blocks[h + 1].id = m_checkpoints[h]
      <3>1. Enforced(h)
        BY <1>0, <1>1, <2>1, <2>2 DEF Enforced
      <3>. QED  BY <3>1, Zenon DEF CheckpointInv
    <2>. QED  BY <1>1, <2>1, <2>2, Zenon DEF CheckpointInv
  <1>3. CASE CheckpointRollbackDone
    <2>1. /\ pc' = "idle" /\ mode' = "none" /\ mode = "checkpoint" /\ UNCHANGED <<cp_pc, cp_height>>
          /\ Height <= 1 \/ Height <= split_height
          /\ cp_height = split_height + 3
      BY <1>3, Zenon DEF CheckpointRollbackDone, Finish, CheckpointInv, RollbackControl
    <2>2. ASSUME NEW h \in DOMAIN m_checkpoints, Enforced(h)'
          PROVE  m_blocks[h + 1].id = m_checkpoints[h]
      <3>1. Enforced(h)
        BY <1>0, <1>1, <2>1, <2>2 DEF Enforced
      <3>. QED  BY <3>1, Zenon DEF CheckpointInv
    <2>. QED  BY <1>1, <2>1, <2>2, Zenon DEF CheckpointInv
  <1>. QED  BY <1>2, <1>3, Zenon

\* Every step of every thread keeps the points enforced.
LEMMA CheckpointStep == IInv /\ LedgerInv /\ CheckpointInv /\ [Next]_vars => CheckpointInv'
  <1>. SUFFICES ASSUME IInv, LedgerInv, CheckpointInv, [Next]_vars PROVE CheckpointInv'
    OBVIOUS
  <1>. USE DEF frame, control, data, env
  <1>0. TypeOK /\ ControlInv /\ RollbackControl /\ n \in Nat /\ Height \in Nat
    BY SMTT(30) DEF IInv, CheckpointInv, TypeOK, ControlTypeOK, ChainTypeOK, Height
  <1>1. RollbackControl'
    BY <1>0, RollbackControlStep, Zenon
  <1>2. CASE pool_refused'
    BY <1>1, <1>2, Zenon DEF CheckpointInv
  <1>3. CASE ~pool_refused'
    <2>1. ~pool_refused
      <3>1. CASE PurgeStep
        BY <1>3, <3>1, Zenon DEF PurgeStep, purge_transaction_from_blockchain
      <3>2. CASE ~PurgeStep
        <4>1. pool_refused' = pool_refused
          BY <3>2, NextCases, QuietUnchanged, Zenon DEF AddMinerTx, AddBlockTx, PushBlock, PopBlock
        <4>. QED  BY <1>3, <4>1, Zenon
      <3>. QED  BY <3>1, <3>2, Zenon
    <2>2. CASE AddMinerTx \/ AddBlockTx \/ QuietMain
      <3>1. /\ UNCHANGED <<m_blocks, m_checkpoints, cp_pc, cp_height, mode, split_height>>
            /\ mode # "checkpoint"
            /\ pc' = "txs" => check_block(Height, bl')
        BY <1>0, <2>1, <2>2, Zenon DEF AddMinerTx, AddBlockTx, QuietMain, MainHeaderRefused, UnknownTx,
           WrongInputs, BlockRefused, ReturnAfterPurge, Return, MainHeaderOk, chain,
           RollbackControl, CheckpointInv
      <3>. QED  BY <1>0, <1>1, <2>1, <3>1, CheckpointSame, Zenon
    <2>3. CASE PurgeStep
      <3>1. /\ UNCHANGED <<m_blocks, m_checkpoints, cp_pc, cp_height, mode, split_height>>
            /\ pc' \in {"purge", "purged", "popping", "popped"}
        BY <1>0, <2>3, Zenon DEF PurgeStep
      <3>. QED  BY <1>0, <1>1, <2>1, <3>1, CheckpointSame, Zenon
    <2>4. CASE PushBlock \/ PopBlock
      BY <1>0, <1>1, <2>1, <2>4, PushAgrees, PopAgrees, Zenon
    <2>5. CASE QuietPop
      <3>1. ~PopFailed
        BY <2>1, Zenon DEF PopFailed, LedgerInv, PopSucceeds
      <3>2. /\ UNCHANGED <<m_blocks, m_checkpoints, cp_pc, cp_height, mode, split_height>>
            /\ pc' = "popping" \/ (pc' = "ret" /\ Height <= 1)
        BY <2>5, <3>1, Zenon DEF QuietPop, PopNext, PopGenesis, Return, chain
      <3>. QED  BY <1>0, <1>1, <2>1, <3>2, CheckpointSame, Zenon
    <2>6. CASE AltStep
      <3>1. /\ UNCHANGED <<m_blocks, m_checkpoints, cp_pc, cp_height>>
            /\ pc \in {"alt", "walk"} /\ pc' \in {"walk", "ret", "pop"}
            /\ mode' \in {mode, "disconnect"}
        BY <2>6, Zenon DEF AltStep, AltRefused, AltOrphaned, AltBegin, AltWalk, AltHeaderRefused,
           AddedAsAlternative, Reorganize, Return, chain
      <3>2. mode # "checkpoint" /\ mode' # "checkpoint"
        BY <1>0, <3>1, Zenon DEF RollbackControl
      <3>. QED  BY <1>0, <1>1, <2>1, <3>1, <3>2, CheckpointSame, Zenon
    <2>7. CASE SwitchStep \/ ReturnFromAdd
      <3>1. /\ UNCHANGED <<m_blocks, m_checkpoints, cp_pc, cp_height>>
            /\ mode # "checkpoint" /\ mode' # "checkpoint"
            /\ pc' \in {"idle", "main", "alt", "pop"}
        BY <2>7, Zenon DEF SwitchStep, DisconnectDone, DisconnectFailed, ConnectNext, ConnectFailed,
           PushOldChain, PushNext, PushFailed, SwitchSucceeded, ReconnectFirst, ReconnectNext,
           UndoDone, RestoreDone, ConnectBlock, ReconnectBlock, PushOldBlock, Finish,
           ReturnFromAdd, chain
      <3>. QED  BY <1>0, <1>1, <2>1, <3>1, CheckpointSame, Zenon
    <2>8. CASE \E b \in Block : add_new_block(b)
      <3>1. /\ UNCHANGED <<m_blocks, m_checkpoints, cp_pc, cp_height>>
            /\ pc = "idle" /\ mode' = "add" /\ pc' \in {"main", "alt"}
        BY <2>8, Zenon DEF add_new_block, chain
      <3>2. mode # "checkpoint"
        BY <1>0, <3>1, Zenon DEF RollbackControl
      <3>. QED  BY <1>0, <1>1, <2>1, <3>1, <3>2, CheckpointSame, Zenon
    <2>9. CASE CheckpointRollback \/ CheckpointRollbackDone
      BY <1>0, <1>1, <2>1, <2>9, RollbackAgrees, Zenon
    <2>10. CASE check_against_checkpoints \/ CheckpointsPassed
      BY <1>0, <1>1, <2>1, <2>10, ComparisonAgrees, Zenon
    <2>11. CASE \E S \in SUBSET (DOMAIN Checkpoints \ DOMAIN m_checkpoints) : load_new_checkpoints(S)
      <3>1. pc = "idle" /\ pc' = "idle" /\ cp_pc' = "check" /\ cp_height' = 0
        BY <2>11, Zenon DEF load_new_checkpoints
      <3>2. mode' # "checkpoint"
        BY <1>1, <3>1, Zenon DEF RollbackControl
      <3>3. DOMAIN m_checkpoints' \subseteq Nat
        BY IInvStep, Zenon DEF IInv, TypeOK, CheckpointTypeOK
      <3>4. \A h \in Nat : ~Enforced(h)'
        BY <3>1 DEF Enforced
      <3>. QED  BY <1>1, <3>1, <3>2, <3>3, <3>4, Zenon DEF CheckpointInv
    <2>12. CASE UNCHANGED <<m_blocks, m_checkpoints, cp_pc, cp_height, control>>
      <3>1. pc' = pc /\ bl' = bl
        BY <2>12, Zenon
      <3>2. pc = "txs" => check_block(Height, bl)
        BY <2>1, Zenon DEF CheckpointInv
      <3>3. mode = "checkpoint" /\ pc = "ret" => Height <= 1
        BY <2>1, Zenon DEF CheckpointInv
      <3>. QED  BY <1>0, <1>1, <2>1, <2>12, <3>1, <3>2, <3>3, CheckpointSame, Zenon
    <2>13. CASE Outside
      BY <2>10, <2>11, <2>12, <2>13, OutsideUnchanged, Zenon DEF Outside, handle_incoming_tx,
         IncomingThread, IncomingHaveTx, IncomingImages, IncomingInputs, IncomingInsert,
         remove_stuck_transactions, TimePasses, chain
    <2>14. CASE UNCHANGED vars
      BY <2>12, <2>14, Zenon DEF vars, chain
    <2>. QED
      BY <2>2, <2>3, <2>4, <2>5, <2>6, <2>7, <2>8, <2>9, <2>13, <2>14, NextCases, Zenon
      DEF Quiet, Enter, Leave
  <1>. QED  BY <1>2, <1>3, Zenon

\* Once update_checkpoints is through, the main chain agrees with every point at
\* height 2 or above, whatever blocks, reorganisations and rollbacks the other
\* threads interleave with its steps.
THEOREM CheckpointsCorrect == Spec => []CheckpointsRespected
  <1>1. Init => IInv /\ LedgerInv /\ CheckpointInv
    <2>1. Init => CheckpointInv
      BY Zenon DEF Init, InitBlockThread, InitOthers, CheckpointInv, RollbackControl
    <2>. QED  BY <2>1, IInvInit, LedgerInit, Zenon
  <1>2. IInv /\ LedgerInv /\ CheckpointInv /\ [Next]_vars => (IInv /\ LedgerInv /\ CheckpointInv)'
    BY IInvStep, LedgerStep, CheckpointStep, Zenon
  <1>3. CheckpointInv => CheckpointsRespected
    BY Zenon DEF CheckpointInv, RollbackControl, Enforced, CheckpointsRespected
  <1>. QED  BY <1>1, <1>2, <1>3, PTL DEF Spec

-----------------------------------------------------------------------------
(* A failed switch.  The chain a switch started from is, at every moment   *)
(* of it, in the main chain up to a height and in disconnected_chain from  *)
(* there on.  Each block of it was accepted at its height by what the      *)
(* ledger held of the blocks below; those are back when it is reconnected, *)
(* so it is accepted again.                                                *)

Switching == mode \in {"disconnect", "connect", "push", "undo", "restore"}

TxAt(b, q) == IF q = 0 THEN MinerTx[b] ELSE TxHashes[b][q]
Slots(b) == 0..Len(TxHashes[b])

\* What the checks on a block of the main chain have found.
HeaderChecked(b, h) == b \in WorkOk /\ b \notin early /\ prevalidate_miner_transaction(b, h)
HeadersChecked ==
    /\ \A i \in 2..Height :
          LET b == m_blocks[i].id IN HeaderChecked(b, i - 1) /\ b \in RewardOk
    /\ pc = "txs" => HeaderChecked(bl, Height)

\* What check_tx_inputs has found: the outputs a stored transaction refers to
\* come before it in the outputs index, at the index it names.
RingsChecked ==
    \A t \in DOMAIN m_transactions \cap Tx : \A ref \in Ring[t] :
        /\ ref[2] \in DOMAIN m_transactions /\ IndexOf(ref[2]) = ref[1]
        /\ IndexOf(ref[2]) < IndexOf(t) /\ KeeperOf(ref[2]) <= KeeperOf(t)
        /\ KeeperOf(t) - 1 + DeltaBlocks >= UnlockTime[ref[2]]

\* The first output of a block is where its branch puts it.
BlocksPlaced == \A i \in 1..Whole : IndexOf(MinerTx[m_blocks[i].id]) = FirstIndex[m_blocks[i].id]

AcceptInv == HeadersChecked /\ (pool_refused \/ (RingsChecked /\ BlocksPlaced))

\* The chain to go back to.
Kept == IF mode = "disconnect" THEN Height ELSE split_height
OldChain ==
    [i \in 1..(Kept + Len(disconnected_chain)) |->
        IF i <= Kept THEN m_blocks[i].id ELSE disconnected_chain[i - Kept]]

\* The blocks of the sequence c can be added one after the other.
OneAfterTheOther(c) ==
    \A i \in DOMAIN c \ {1} :
        /\ PrevId[c[i]] = c[i - 1] /\ c[i] \in RewardOk
        /\ HeaderChecked(c[i], i - 1)
NoTxTwice(c) ==
    \A i, h \in DOMAIN c : \A q \in Slots(c[i]), p \in Slots(c[h]) :
        \/ i = h /\ q = p
        \/ /\ TxAt(c[i], q) # TxAt(c[h], p)
           /\ KeyImages(TxAt(c[i], q)) \cap KeyImages(TxAt(c[h], p)) = {}
RingBelow(c, i, q, ref) ==
    /\ i - 1 - 1 + DeltaBlocks >= UnlockTime[ref[2]]
    /\ \E h \in 1..i : \E p \in Slots(c[h]) :
          /\ h < i \/ p < q
          /\ ref[1] = FirstIndex[c[h]] + p /\ ref[2] = TxAt(c[h], p)
RingsBelow(c) ==
    \A i \in DOMAIN c : \A q \in 1..Len(TxHashes[c[i]]) :
        \A ref \in Ring[TxHashes[c[i]][q]] : RingBelow(c, i, q, ref)
Acceptable(c) == OneAfterTheOther(c) /\ NoTxTwice(c) /\ RingsBelow(c)

\* Its transactions are in the ledger or in the pool.
TxsKept(b) == Range(TxHashes[b]) \subseteq DOMAIN m_transactions \cup DOMAIN pool

\* The positions of the block thread in each of the routines.
ModeInv ==
    /\ pc = "idle" <=> mode = "none"
    /\ mode \in {"disconnect", "checkpoint"} => pc \in {"pop", "popping", "popped", "ret"}
    /\ mode = "connect" => pc \in {"main", "txs", "purge", "purged", "ret"}
    /\ mode = "push" => pc \in {"alt", "walk", "ret"}
    /\ mode = "add" => pc \in {"main", "txs", "purge", "purged", "alt", "walk", "ret"}
    /\ mode \in {"undo", "restore"} =>
          pc \in {"pop", "popping", "popped", "main", "txs", "purge", "purged", "ret"}

HeightInv ==
    /\ \A b \in DOMAIN m_alternative_chains : m_alternative_chains[b].height > 0
    /\ ~Switching => disconnected_chain = <<>>
    /\ Switching => split_height \in 1..Height
    /\ Switching /\ pc \in {"popping", "popped"} => split_height < Height

OldChainInv ==
    (Switching /\ ~pool_refused) =>
        /\ Acceptable(OldChain)
        /\ \A i \in DOMAIN disconnected_chain : TxsKept(disconnected_chain[i])
        /\ mode = "disconnect" /\ pc \in {"popping", "popped"} => TxsKept(bl)

\* The reconnected blocks follow one another up to disconnected_chain[j].
Exempt ==
    \/ pool_refused
    \/ \E i \in DOMAIN disconnected_chain : ~check_block(split_height + i - 1, disconnected_chain[i])
Reconnected(m) ==
    /\ j \in DOMAIN disconnected_chain /\ Height = split_height + m
    /\ \A i \in 1..m : m_blocks[split_height + i].id = disconnected_chain[i]
RestoreInv ==
    (mode \in {"undo", "restore"} /\ ~Exempt) =>
        /\ pc \in {"pop", "popping", "popped", "main", "txs", "ret"}
        /\ pc \in {"main", "txs"} => bl = disconnected_chain[j] /\ Reconnected(j - 1)
        /\ pc = "ret" => r /\ Reconnected(j)

SwitchInv == AcceptInv /\ ModeInv /\ HeightInv /\ OldChainInv /\ RestoreInv

\* Blocks only leave the set of those that are too far in the future.
LEMMA EarlyShrinks ==
    ASSUME [Next]_vars
    PROVE  early' \subseteq early /\ (pc # "idle" => early' = early)
  <1>. USE DEF data, env
  <1>1. CASE AddMinerTx \/ AddBlockTx \/ PurgeStep \/ PushBlock \/ PopBlock
    BY <1>1, Zenon DEF AddMinerTx, AddBlockTx, PurgeStep, PushBlock, PopBlock
  <1>2. CASE QuietMain \/ QuietPop \/ AltStep \/ SwitchStep
    BY <1>2, Zenon DEF QuietMain, MainHeaderRefused, UnknownTx, WrongInputs, BlockRefused,
         ReturnAfterPurge, QuietPop, PopNext, PopGenesis, PopFailed, AltStep, AltRefused,
         AltOrphaned, AltBegin, AltWalk, AltHeaderRefused, AddedAsAlternative, Reorganize,
         SwitchStep, DisconnectDone, DisconnectFailed, ConnectNext, ConnectFailed,
         PushOldChain, PushNext, PushFailed, SwitchSucceeded, ReconnectFirst, ReconnectNext,
         UndoDone, RestoreDone
  <1>3. CASE Enter \/ Leave
    BY <1>3, Zenon DEF Enter, Leave, add_new_block, CheckpointRollback, ReturnFromAdd,
         CheckpointRollbackDone
  <1>4. CASE Outside
    BY <1>4, Zenon DEF Outside, load_new_checkpoints, check_against_checkpoints, CheckpointsPassed,
         handle_incoming_tx, IncomingThread, IncomingHaveTx, IncomingImages,
         IncomingInputs, IncomingInsert, remove_stuck_transactions, TimePasses
  <1>5. CASE UNCHANGED vars
    BY <1>5, Zenon DEF vars
  <1>. QED  BY <1>1, <1>2, <1>3, <1>4, <1>5, NextCases, Zenon DEF Quiet

\* A transaction of a block is added only by handle_block_to_main_chain, on the
\* block it has checked.
LEMMA TxsReached ==
    ASSUME [Next]_vars, pc' = "txs"
    PROVE  \/ AddMinerTx \/ AddBlockTx
           \/ UNCHANGED <<control, chain, alts, pool_refused>>
  <1>1. CASE PurgeStep
    <2>1. pc \in {"purge", "popping"} /\ pc' \in {pc, "purged", "popped"}
      BY <1>1, Zenon DEF PurgeStep
    <2>. QED  BY <2>1, Zenon
  <1>2. CASE PushBlock \/ PopBlock \/ QuietMain \/ QuietPop \/ AltStep \/ Enter \/ Leave
    BY <1>2, Zenon DEF PushBlock, PopBlock, QuietMain, MainHeaderRefused, UnknownTx, WrongInputs,
         BlockRefused, ReturnAfterPurge, QuietPop, PopNext, PopGenesis, PopFailed, AltStep,
         AltRefused, AltOrphaned, AltBegin, AltWalk, AltHeaderRefused, AddedAsAlternative,
         Reorganize, Enter, Leave, add_new_block, CheckpointRollback, ReturnFromAdd,
         CheckpointRollbackDone, Return, Finish, data, control
  <1>3. CASE SwitchStep
    BY <1>3, Zenon DEF SwitchStep, DisconnectDone, DisconnectFailed, ConnectNext, ConnectFailed,
         PushOldChain, PushNext, PushFailed, SwitchSucceeded, ReconnectFirst, ReconnectNext,
         UndoDone, RestoreDone, ConnectBlock, ReconnectBlock, PushOldBlock, Finish
  <1>4. CASE Outside \/ UNCHANGED vars
    BY <1>4, OutsideUnchanged, Zenon DEF vars, data
  <1>. QED  BY <1>1, <1>2, <1>3, <1>4, NextCases, Zenon DEF Quiet

\* Only push_block and pop_block change m_blocks.
LEMMA BlocksChanged ==
    ASSUME TypeOK, ControlInv, ChainIndexed, [Next]_vars
    PROVE  \/ m_blocks' = m_blocks /\ Height' = Height /\ ~PushBlock /\ ~PopBlock
           \/ /\ PushBlock /\ Height' = Height + 1 /\ m_blocks'[Height + 1].id = bl
              /\ \A i \in 1..Height : m_blocks'[i] = m_blocks[i]
           \/ /\ PopBlock /\ Height' = Height - 1 /\ Height > 1 /\ bl = m_blocks[Height].id
              /\ \A i \in 1..(Height - 1) : m_blocks'[i] = m_blocks[i]
  <1>1. m_blocks \in Seq(BlockEntry) /\ Height \in Nat
    BY DEF TypeOK, ChainTypeOK, Height
  <1>2. CASE PushBlock
    <2>1. m_blocks' = Append(m_blocks, PushedEntry(bl))
      BY <1>2, Zenon DEF PushBlock
    <2>. QED  BY <1>1, <1>2, <2>1 DEF Height, PushedEntry
  <1>3. CASE PopBlock
    <2>1. m_blocks' = SubSeq(m_blocks, 1, Height - 1) /\ Height > 1 /\ bl = m_blocks[Height].id
      BY <1>3, Zenon DEF PopBlock, ControlInv, get_tail_id
    <2>. QED  BY <1>1, <1>3, <2>1 DEF Height
  <1>4. CASE ~PushBlock /\ ~PopBlock
    <2>1. m_blocks' = m_blocks
      BY <1>4, NextCases, QuietUnchanged, Zenon DEF AddMinerTx, AddBlockTx, PurgeStep, chain
    <2>. QED  BY <1>4, <2>1, Zenon DEF Height
  <1>. QED  BY <1>2, <1>3, <1>4, Zenon

\* A block is pushed only when handle_block_to_main_chain has checked its header.
LEMMA HeadersCheckedStep ==
    ASSUME IInv, HeadersChecked, [Next]_vars
    PROVE  HeadersChecked'
  <1>0. TypeOK /\ ControlInv /\ ChainIndexed /\ Height \in Nat
    BY LedgerTypes, Zenon DEF IInv
  <1>1. \A b, h : HeaderChecked(b, h) => HeaderChecked(b, h)'
    BY EarlyShrinks, Zenon DEF HeaderChecked, prevalidate_miner_transaction
  <1>2. ASSUME NEW i \in 2..Height'
        PROVE  HeaderChecked(m_blocks[i].id, i - 1)' /\ m_blocks'[i].id \in RewardOk
    <2>1. CASE i \in 2..Height /\ m_blocks'[i] = m_blocks[i]
      BY <1>1, <2>1, Zenon DEF HeadersChecked, HeaderChecked, prevalidate_miner_transaction
    <2>2. CASE PushBlock /\ i = Height + 1 /\ m_blocks'[i].id = bl
      <3>1. pc = "txs" /\ bl \in RewardOk
        BY <2>2, Zenon DEF PushBlock
      <3>2. HeaderChecked(bl, i - 1)
        BY <1>0, <2>2, <3>1 DEF HeadersChecked
      <3>3. HeaderChecked(bl, i - 1) => HeaderChecked(m_blocks[i].id, i - 1)'
        BY <2>2, EarlyShrinks, Zenon DEF HeaderChecked, prevalidate_miner_transaction
      <3>. QED  BY <2>2, <3>1, <3>2, <3>3, Zenon
    <2>. QED  BY <1>0, <2>1, <2>2, BlocksChanged
  <1>3. ASSUME pc' = "txs" PROVE HeaderChecked(bl, Height)'
    <2>1. CASE AddMinerTx
      <3>1. MainHeaderOk(bl) /\ bl' = bl /\ m_blocks' = m_blocks /\ early' = early
        BY <2>1, Zenon DEF AddMinerTx, env
      <3>. QED  BY <3>1, Zenon DEF MainHeaderOk, HeaderChecked, prevalidate_miner_transaction, Height
    <2>2. CASE AddBlockTx
      <3>1. pc = "txs" /\ bl' = bl /\ m_blocks' = m_blocks /\ early' = early
        BY <2>2, Zenon DEF AddBlockTx, env
      <3>. QED  BY <3>1, Zenon DEF HeadersChecked, HeaderChecked, prevalidate_miner_transaction, Height
    <2>3. CASE UNCHANGED <<control, chain, alts, pool_refused>>
      <3>1. pc = "txs" /\ bl' = bl /\ m_blocks' = m_blocks
        BY <1>3, <2>3, Zenon DEF control, chain
      <3>. QED  BY <3>1, EarlyShrinks, Zenon DEF HeadersChecked, HeaderChecked, prevalidate_miner_transaction, Height
    <2>. QED  BY <1>3, <2>1, <2>2, <2>3, TxsReached, Zenon
  <1>. QED  BY <1>2, <1>3, Zenon DEF HeadersChecked

\* pool_refused is never taken back.
LEMMA RefusedStays ==
    ASSUME TypeOK, [Next]_vars, ~pool_refused'
    PROVE  ~pool_refused
  <1>1. CASE PurgeStep
    BY <1>1, Zenon DEF PurgeStep, purge_transaction_from_blockchain
  <1>2. CASE ~PurgeStep
    <2>1. pool_refused' = pool_refused
      BY <1>2, NextCases, QuietUnchanged, Zenon DEF AddMinerTx, AddBlockTx, PushBlock, PopBlock
    <2>. QED  BY <2>1, Zenon
  <1>. QED  BY <1>1, <1>2, Zenon

\* How a step may change the ledger: by an entry on top, or by the top entry.
LEMMA LedgerChanged ==
    ASSUME IInv, LedgerInv, [Next]_vars, ~pool_refused'
    PROVE  \/ AddMinerTx \/ AddBlockTx \/ PurgeStep
           \/ m_transactions' = m_transactions /\ m_outputs' = m_outputs
  <1>1. CASE PushBlock \/ PopBlock
    BY <1>1, Zenon DEF PushBlock, PopBlock
  <1>2. CASE Quiet
    BY <1>2, QuietUnchanged, Zenon DEF chain
  <1>. QED  BY <1>1, <1>2, NextCases, Zenon

\* A transaction is added when check_tx_inputs finds what it refers to, and an
\* output that is referred to is purged after the transaction that refers to it.
LEMMA RingsCheckedStep ==
    ASSUME IInv, LedgerInv, RingsChecked, [Next]_vars, ~pool_refused'
    PROVE  RingsChecked'
  <1>0. /\ TypeOK /\ ControlInv /\ ChainIndexed /\ ~pool_refused
        /\ OutputsInverse /\ BlocksStored /\ TopStored /\ NothingElse
    BY RefusedStays, Zenon DEF LedgerInv, IInv
  <1>1. /\ Height \in Nat /\ m_outputs \in Seq(AllTx) /\ Len(m_outputs) \in Nat /\ bl \in Block
        /\ \A t \in DOMAIN m_transactions : IndexOf(t) \in Nat /\ KeeperOf(t) \in Nat
    BY <1>0, LedgerTypes, Zenon
  <1>. DEFINE At(u) == m_transactions'[u].m_global_output_index
              Of(u) == m_transactions'[u].m_keeper_block_height
  <1>2. CASE AddMinerTx
    <2>. DEFINE t == MinerTx[bl]
    <2>1. /\ CanAdd(t) /\ add_transaction_from_block(t)
      BY <1>2, Zenon DEF AddMinerTx
    <2>2. t \in AllTx /\ t \notin Tx
      BY <1>1, BlockAssumption DEF AllTx, Coinbase
    <2>. HIDE DEF t
    <2>3. /\ DOMAIN m_transactions' = DOMAIN m_transactions \cup {t}
          /\ \A u \in DOMAIN m_transactions : At(u) = IndexOf(u) /\ Of(u) = KeeperOf(u)
      BY <1>1, <2>1, <2>2, AddedEntry, Zenon DEF IndexOf, KeeperOf
    <2>. HIDE DEF At, Of
    <2>4. \A u \in DOMAIN m_transactions' \cap Tx : \A ref \in Ring[u] :
            /\ ref[2] \in DOMAIN m_transactions' /\ At(ref[2]) = ref[1]
            /\ At(ref[2]) < At(u) /\ Of(ref[2]) <= Of(u)
            /\ Of(u) - 1 + DeltaBlocks >= UnlockTime[ref[2]]
      BY <2>2, <2>3, Zenon DEF RingsChecked
    <2>. QED  BY <2>4, Zenon DEF RingsChecked, At, Of, IndexOf, KeeperOf
  <1>3. CASE AddBlockTx
    <2>. DEFINE t == NextTx
    <2>1. CanAdd(t) /\ t \in Tx
      BY <1>0, <1>3, CheckedCanAdd, Zenon
    <2>2. check_tx_inputs(t) /\ add_transaction_from_block(t) /\ t \in AllTx
      BY <1>3, <2>1, Zenon DEF AddBlockTx, AllTx
    <2>. HIDE DEF t
    <2>3. /\ DOMAIN m_transactions' = DOMAIN m_transactions \cup {t}
          /\ t \notin DOMAIN m_transactions
          /\ At(t) = Len(m_outputs) + 1 /\ Of(t) = Height
          /\ \A u \in DOMAIN m_transactions : At(u) = IndexOf(u) /\ Of(u) = KeeperOf(u)
      BY <1>1, <2>1, <2>2, AddedEntry, Zenon DEF IndexOf, KeeperOf
    <2>. HIDE DEF At, Of
    <2>4. ASSUME NEW ref \in Ring[t]
          PROVE  /\ ref[2] \in DOMAIN m_transactions /\ IndexOf(ref[2]) = ref[1]
                 /\ IndexOf(ref[2]) \in 1..Len(m_outputs) /\ KeeperOf(ref[2]) <= Height
                 /\ Height - 1 + DeltaBlocks >= UnlockTime[ref[2]]
      <3>1. /\ ref[1] \in DOMAIN m_outputs /\ m_outputs[ref[1]] = ref[2]
            /\ is_tx_spendtime_unlocked(ref[2])
        BY <2>2, Zenon DEF check_tx_inputs
      <3>2. ref[1] \in 1..Len(m_outputs)
        BY <1>1, <3>1
      <3>3. ref[2] \in DOMAIN m_transactions /\ IndexOf(ref[2]) = ref[1]
        BY <1>0, <3>1, <3>2, Zenon DEF OutputsInverse
      <3>4. Whole = Height
        BY <1>3, Zenon DEF AddBlockTx, Whole
      <3>5. KeeperOf(ref[2]) <= Height
        BY <1>0, <1>1, <3>3, <3>4 DEF NothingElse
      <3>. QED  BY <3>1, <3>2, <3>3, <3>5, Zenon DEF is_tx_spendtime_unlocked
    <2>5. \A ref \in Ring[t] :
            /\ ref[2] \in DOMAIN m_transactions' /\ At(ref[2]) = ref[1]
            /\ At(ref[2]) < At(t) /\ Of(ref[2]) <= Of(t)
            /\ Of(t) - 1 + DeltaBlocks >= UnlockTime[ref[2]]
      BY <1>1, <2>3, <2>4
    <2>6. \A u \in DOMAIN m_transactions \cap Tx : \A ref \in Ring[u] :
            /\ ref[2] \in DOMAIN m_transactions' /\ At(ref[2]) = ref[1]
            /\ At(ref[2]) < At(u) /\ Of(ref[2]) <= Of(u)
            /\ Of(u) - 1 + DeltaBlocks >= UnlockTime[ref[2]]
      BY <2>3, Zenon DEF RingsChecked
    <2>7. \A u \in DOMAIN m_transactions' \cap Tx : \A ref \in Ring[u] :
            /\ ref[2] \in DOMAIN m_transactions' /\ At(ref[2]) = ref[1]
            /\ At(ref[2]) < At(u) /\ Of(ref[2]) <= Of(u)
            /\ Of(u) - 1 + DeltaBlocks >= UnlockTime[ref[2]]
      BY <2>3, <2>5, <2>6, Zenon
    <2>. QED  BY <2>7, Zenon DEF RingsChecked, At, Of, IndexOf, KeeperOf
  <1>4. CASE PurgeStep
    <2>. DEFINE t == PurgedTx
    <2>1. t \in DOMAIN m_transactions /\ IndexOf(t) = Len(m_outputs)
      BY <1>0, <1>4, PurgedOnTop, Zenon
    <2>2. purge_transaction_from_blockchain(t)
      BY <1>4, Zenon DEF PurgeStep
    <2>. HIDE DEF t
    <2>3. /\ DOMAIN m_transactions' = DOMAIN m_transactions \ {t}
          /\ \A u \in DOMAIN m_transactions' : At(u) = IndexOf(u) /\ Of(u) = KeeperOf(u)
      BY <1>0, <1>1, <2>1, <2>2, RemovedEntry, Zenon DEF IndexOf, KeeperOf
    <2>. HIDE DEF At, Of
    <2>4. \A u \in DOMAIN m_transactions : IndexOf(u) \in 1..Len(m_outputs)
      BY <1>0, Zenon DEF OutputsInverse
    <2>5. ASSUME NEW u \in DOMAIN m_transactions' \cap Tx, NEW ref \in Ring[u]
          PROVE  /\ ref[2] \in DOMAIN m_transactions' /\ At(ref[2]) = ref[1]
                 /\ At(ref[2]) < At(u) /\ Of(ref[2]) <= Of(u)
                 /\ Of(u) - 1 + DeltaBlocks >= UnlockTime[ref[2]]
      <3>1. /\ ref[2] \in DOMAIN m_transactions /\ IndexOf(ref[2]) = ref[1]
            /\ IndexOf(ref[2]) < IndexOf(u) /\ KeeperOf(ref[2]) <= KeeperOf(u)
            /\ KeeperOf(u) - 1 + DeltaBlocks >= UnlockTime[ref[2]]
        BY <2>3, Zenon DEF RingsChecked
      <3>2. ref[2] # t
        BY <1>1, <2>1, <2>3, <2>4, <3>1
      <3>. QED  BY <2>3, <3>1, <3>2, Zenon
    <2>. QED  BY <2>5, Zenon DEF RingsChecked, At, Of, IndexOf, KeeperOf
  <1>5. CASE m_transactions' = m_transactions
    BY <1>5, Zenon DEF RingsChecked, IndexOf, KeeperOf
  <1>. QED  BY <1>2, <1>3, <1>4, <1>5, LedgerChanged, Zenon

\* A block that is being taken off the chain stays the one that is.
LEMMA PoppingStays ==
    ASSUME Quiet, pc \in {"popping", "popped"}, r
    PROVE  UNCHANGED control
  <1>1. CASE QuietMain \/ AltStep \/ Enter
    BY <1>1, Zenon DEF QuietMain, MainHeaderRefused, UnknownTx, WrongInputs,
         BlockRefused, ReturnAfterPurge, AltStep,
         AltRefused, AltOrphaned, AltBegin, AltWalk, AltHeaderRefused, AddedAsAlternative,
         Reorganize, Enter, add_new_block, CheckpointRollback
  <1>2. CASE QuietPop
    <2>1. ~PopFailed
      BY Zenon DEF PopFailed
    <2>. QED  BY <1>2, <2>1, Zenon DEF QuietPop, PopNext, PopGenesis
  <1>3. CASE SwitchStep \/ Leave
    BY <1>3, Zenon DEF SwitchStep, DisconnectDone, DisconnectFailed, ConnectNext, ConnectFailed,
         PushOldChain, PushNext, PushFailed, SwitchSucceeded, ReconnectFirst, ReconnectNext,
         UndoDone, RestoreDone, RollbackOver, Leave, ReturnFromAdd, CheckpointRollbackDone
  <1>4. CASE Outside \/ UNCHANGED vars
    BY <1>4, OutsideUnchanged, Zenon DEF vars
  <1>. QED  BY <1>1, <1>2, <1>3, <1>4, Zenon DEF Quiet

\* The branch of a block decides at which index its outputs are.
LEMMA BlocksPlacedStep ==
    ASSUME IInv, LedgerInv, BlocksPlaced, [Next]_vars, ~pool_refused'
    PROVE  BlocksPlaced'
  <1>0. /\ TypeOK /\ ControlInv /\ ChainIndexed /\ ~pool_refused
        /\ OutputsInverse /\ BlocksStored /\ TopStored /\ NothingElse /\ PopSucceeds
    BY RefusedStays, Zenon DEF LedgerInv, IInv
  <1>1. /\ Height \in Nat /\ Whole \in 1..Height /\ m_outputs \in Seq(AllTx) /\ bl \in Block
        /\ \A i \in 1..Height : m_blocks[i].id \in Block
        /\ \A b \in Block : Len(TxHashes[b]) \in Nat
        /\ \A t \in DOMAIN m_transactions : IndexOf(t) \in Nat /\ KeeperOf(t) \in Nat
    BY <1>0, LedgerTypes, Zenon
  <1>2. \A i \in 1..Whole : /\ MinerTx[m_blocks[i].id] \in DOMAIN m_transactions
                            /\ KeeperOf(MinerTx[m_blocks[i].id]) < Whole
    <2>. SUFFICES ASSUME NEW i \in 1..Whole
                  PROVE  /\ MinerTx[m_blocks[i].id] \in DOMAIN m_transactions
                         /\ KeeperOf(MinerTx[m_blocks[i].id]) < Whole
      OBVIOUS
    <2>1. /\ MinerTx[m_blocks[i].id] \in DOMAIN m_transactions
          /\ KeeperOf(MinerTx[m_blocks[i].id]) = i - 1
      BY <1>0, Zenon DEF BlocksStored, Stored, KeeperOf
    <2>2. i - 1 < Whole
      BY <1>1
    <2>. QED  BY <2>1, <2>2
  <1>3. ASSUME UNCHANGED m_blocks, Whole' = Whole,
               \A u \in DOMAIN m_transactions :
                  KeeperOf(u) < Whole => m_transactions'[u] = m_transactions[u]
        PROVE  BlocksPlaced'
    BY <1>2, <1>3, Zenon DEF BlocksPlaced, IndexOf
  <1>4. CASE AddMinerTx
    <2>1. /\ CanAdd(MinerTx[bl]) /\ add_transaction_from_block(MinerTx[bl]) /\ UNCHANGED m_blocks
          /\ pc = "main" /\ pc' = "txs"
      BY <1>4, Zenon DEF AddMinerTx
    <2>2. MinerTx[bl] \in AllTx
      BY <1>1, Zenon DEF AllTx, Coinbase
    <2>3. \A u \in DOMAIN m_transactions : m_transactions'[u] = m_transactions[u]
      BY <1>1, <2>1, <2>2, AddedEntry, Zenon
    <2>4. Whole' = Whole
      BY <2>1, Zenon DEF Whole, Height
    <2>. QED  BY <1>3, <2>1, <2>3, <2>4, Zenon
  <1>5. CASE AddBlockTx
    <2>1. CanAdd(NextTx) /\ NextTx \in Tx
      BY <1>0, <1>5, CheckedCanAdd, Zenon
    <2>2. /\ add_transaction_from_block(NextTx) /\ UNCHANGED m_blocks /\ NextTx \in AllTx
          /\ pc = "txs" /\ pc' = "txs"
      BY <1>5, <2>1, Zenon DEF AddBlockTx, AllTx
    <2>3. \A u \in DOMAIN m_transactions : m_transactions'[u] = m_transactions[u]
      BY <1>1, <2>1, <2>2, AddedEntry, Zenon
    <2>4. Whole' = Whole
      BY <2>2, Zenon DEF Whole, Height
    <2>. QED  BY <1>3, <2>2, <2>3, <2>4, Zenon
  <1>6. CASE PurgeStep
    <2>1. /\ PurgedTx \in DOMAIN m_transactions /\ IndexOf(PurgedTx) = Len(m_outputs)
          /\ KeeperOf(PurgedTx) = Whole
      BY <1>0, <1>6, PurgedOnTop, Zenon
    <2>2. /\ purge_transaction_from_blockchain(PurgedTx) /\ UNCHANGED m_blocks
          /\ pc \in {"purge", "popping"}
          /\ pc' = CASE n > 0 -> pc [] n = 0 /\ pc = "purge" -> "purged" [] OTHER -> "popped"
      BY <1>6, Zenon DEF PurgeStep
    <2>3. /\ DOMAIN m_transactions' = DOMAIN m_transactions \ {PurgedTx}
          /\ \A u \in DOMAIN m_transactions' : m_transactions'[u] = m_transactions[u]
      BY <1>0, <1>1, <2>1, <2>2, RemovedEntry, Zenon
    <2>4. \A u \in DOMAIN m_transactions :
            KeeperOf(u) < Whole => m_transactions'[u] = m_transactions[u]
      BY <1>1, <2>1, <2>3
    <2>5. Whole' = Whole
      <3>1. n \in Nat
        BY <1>0, Zenon DEF TypeOK, ControlTypeOK
      <3>. QED  BY <2>2, <3>1 DEF Whole, Height
    <2>. QED  BY <1>3, <2>2, <2>4, <2>5, Zenon
  <1>7. CASE PushBlock
    <2>1. /\ pc = "txs" /\ pc' = "ret" /\ n = Len(TxHashes[bl]) /\ bl \notin DOMAIN m_blocks_index
          /\ m_blocks' = Append(m_blocks, PushedEntry(bl)) /\ m_transactions' = m_transactions
      BY <1>7, Zenon DEF PushBlock, Return
    <2>2. m_blocks \in Seq(BlockEntry)
      BY <1>0, Zenon DEF TypeOK, ChainTypeOK
    <2>3. /\ Height' = Height + 1 /\ m_blocks'[Height + 1].id = bl
          /\ \A i \in 1..Height : m_blocks'[i] = m_blocks[i]
      BY <1>1, <2>1, <2>2 DEF Height, PushedEntry
    <2>4. Whole = Height /\ Whole' = Height + 1 /\ Partial
      BY <2>1, <2>3, Zenon DEF Whole, Partial
    <2>5. bl # Genesis /\ PrevId[bl] = m_blocks[Height].id
      BY <1>0, <1>1, <2>1 DEF ChainIndexed, ControlInv, get_tail_id
    <2>6. IndexOf(MinerTx[bl]) = FirstIndex[bl]
      <3>1. IndexOf(MinerTx[bl]) = EndOf(m_blocks[Height].id) + 1
        BY <1>0, <2>4, Zenon DEF TopStored
      <3>2. IndexOf(MinerTx[m_blocks[Height].id]) = FirstIndex[m_blocks[Height].id]
        BY <1>1, <2>4, Zenon DEF BlocksPlaced
      <3>. QED  BY <1>1, <2>5, <3>1, <3>2, TreeAssumption, Zenon DEF EndOf
    <2>7. \A i \in 1..(Height + 1) : i \in 1..Height \/ i = Height + 1
      BY <1>1
    <2>8. \A i \in 1..(Height + 1) : IndexOf(MinerTx[m_blocks'[i].id]) = FirstIndex[m_blocks'[i].id]
      BY <2>3, <2>4, <2>6, <2>7, Zenon DEF BlocksPlaced
    <2>. QED  BY <2>1, <2>4, <2>8, Zenon DEF BlocksPlaced, IndexOf
  <1>8. CASE PopBlock
    <2>1. /\ pc = "popped" /\ pc' = "pop" /\ m_transactions' = m_transactions
          /\ Height > 1 /\ m_blocks' = SubSeq(m_blocks, 1, Height - 1)
      BY <1>0, <1>8, Zenon DEF PopBlock, ControlInv
    <2>2. m_blocks \in Seq(BlockEntry)
      BY <1>0, Zenon DEF TypeOK, ChainTypeOK
    <2>3. /\ Height' = Height - 1
          /\ \A i \in 1..(Height - 1) : m_blocks'[i] = m_blocks[i]
      BY <1>1, <2>1, <2>2 DEF Height
    <2>4. Whole = Height - 1 /\ Whole' = Height - 1
      BY <2>1, <2>3, Zenon DEF Whole
    <2>. QED  BY <2>1, <2>3, <2>4, Zenon DEF BlocksPlaced, IndexOf
  <1>9. CASE Quiet
    <2>1. m_blocks' = m_blocks /\ m_transactions' = m_transactions /\ Height' = Height
      BY <1>9, QuietUnchanged, Zenon DEF chain, Height
    <2>2. Whole' \in {Whole, Whole - 1}
      <3>1. CASE pc \in {"popping", "popped"}
        <4>1. pc' = pc
          BY <1>0, <1>9, <3>1, PoppingStays, Zenon DEF PopSucceeds, control
        <4>. QED  BY <2>1, <4>1, Zenon DEF Whole
      <3>2. CASE pc \notin {"popping", "popped"}
        BY <2>1, <3>2, Zenon DEF Whole
      <3>. QED  BY <3>1, <3>2, Zenon
    <2>3. \A i \in 1..Whole' : i \in 1..Whole
      BY <1>1, <2>2
    <2>. QED  BY <2>1, <2>3, Zenon DEF BlocksPlaced, IndexOf
  <1>. QED  BY <1>4, <1>5, <1>6, <1>7, <1>8, <1>9, NextCases, Zenon

\* The checks that were passed stay recorded in the ledger.
LEMMA AcceptStep ==
    ASSUME IInv, LedgerInv, AcceptInv, [Next]_vars
    PROVE  AcceptInv'
  <1>1. HeadersChecked'
    BY HeadersCheckedStep, Zenon DEF AcceptInv
  <1>2. CASE ~pool_refused'
    <2>1. ~pool_refused
      BY <1>2, RefusedStays, Zenon DEF IInv
    <2>. QED  BY <1>1, <1>2, <2>1, RingsCheckedStep, BlocksPlacedStep, Zenon DEF AcceptInv
  <1>. QED  BY <1>1, <1>2, Zenon DEF AcceptInv

\* No step leaves the positions of the routine that runs.
LEMMA ModeInvStep ==
    ASSUME TypeOK, ModeInv, [Next]_vars
    PROVE  ModeInv'
  <1>. USE DEF frame, control, data, env
  <1>1. CASE AddMinerTx \/ AddBlockTx \/ PushBlock \/ QuietMain
    <2>1. pc \in {"main", "txs", "purged"} /\ pc' \in {"txs", "purge", "ret"} /\ mode' = mode
      BY <1>1, Zenon DEF AddMinerTx, AddBlockTx, PushBlock, QuietMain, MainHeaderRefused, UnknownTx,
         WrongInputs, BlockRefused, ReturnAfterPurge, Return
    <2>. QED  BY <2>1, Zenon DEF ModeInv
  <1>2. CASE PurgeStep
    <2>1. n \in Nat
      BY Zenon DEF TypeOK, ControlTypeOK
    <2>2. /\ \/ pc = "purge" /\ pc' \in {"purge", "purged"}
             \/ pc = "popping" /\ pc' \in {"popping", "popped"}
          /\ mode' = mode
      BY <1>2, <2>1 DEF PurgeStep
    <2>. QED  BY <2>2, Zenon DEF ModeInv
  <1>3. CASE PopBlock \/ QuietPop
    <2>1. pc \in {"pop", "popped"} /\ pc' \in {"pop", "popping", "ret"} /\ mode' = mode
      BY <1>3, Zenon DEF PopBlock, QuietPop, PopNext, PopGenesis, PopFailed, Return
    <2>. QED  BY <2>1, Zenon DEF ModeInv
  <1>4. CASE AltStep
    <2>1. /\ pc \in {"alt", "walk"}
          /\ (pc' \in {"walk", "ret"} /\ mode' = mode) \/ (pc' = "pop" /\ mode' = "disconnect")
      BY <1>4, Zenon DEF AltStep, AltRefused, AltOrphaned, AltBegin, AltWalk, AltHeaderRefused,
         AddedAsAlternative, Reorganize, Return
    <2>. QED  BY <2>1, Zenon DEF ModeInv
  <1>5. CASE SwitchStep \/ Leave
    <2>1. /\ pc \in {"ret", "pop"}
          /\ \/ mode' \in {"connect", "undo", "restore"} /\ pc' = "main"
             \/ mode' = "push" /\ pc' = "alt"
             \/ mode' \in {"undo", "restore"} /\ pc' = "pop"
             \/ mode' = "none" /\ pc' = "idle"
      BY <1>5, Zenon DEF SwitchStep, DisconnectDone, DisconnectFailed, ConnectNext, ConnectFailed,
         PushOldChain, PushNext, PushFailed, SwitchSucceeded, ReconnectFirst, ReconnectNext,
         UndoDone, RestoreDone, RollbackOver, ConnectBlock, ReconnectBlock, PushOldBlock,
         Finish, Leave, ReturnFromAdd, CheckpointRollbackDone
    <2>. QED  BY <2>1, Zenon DEF ModeInv
  <1>6. CASE Enter
    <2>1. \/ mode' = "add" /\ pc' \in {"main", "alt"}
          \/ mode' = "checkpoint" /\ pc' = "pop"
      BY <1>6, Zenon DEF Enter, add_new_block, CheckpointRollback
    <2>. QED  BY <2>1, Zenon DEF ModeInv
  <1>7. CASE Outside \/ UNCHANGED vars
    <2>1. UNCHANGED <<pc, mode>>
      BY <1>7, OutsideUnchanged, Zenon DEF vars
    <2>. QED  BY <2>1, Zenon DEF ModeInv
  <1>. QED  BY <1>1, <1>2, <1>3, <1>4, <1>5, <1>6, <1>7, NextCases, Zenon DEF Quiet

\* What happens to the locals of a switch.
Advances ==
    \/ DisconnectDone \/ ConnectNext \/ ConnectFailed \/ PushOldChain \/ PushNext \/ PushFailed
    \/ ReconnectFirst \/ ReconnectNext
Ends == pc' = "idle" /\ mode' = "none" /\ disconnected_chain' = <<>>

\* What a step can do to the chain of a switch.
LEMMA SwitchCases ==
    ASSUME [Next]_vars
    PROVE  \/ /\ UNCHANGED <<mode, disconnected_chain, split_height>>
              /\ PopBlock => mode # "disconnect"
           \/ /\ PopBlock /\ mode = "disconnect" /\ UNCHANGED <<mode, split_height>>
              /\ disconnected_chain' = <<bl>> \o disconnected_chain
           \/ Reorganize
           \/ Advances /\ UNCHANGED <<chain, disconnected_chain, split_height>>
           \/ Ends
           \/ pc = "idle" /\ mode' \in {"add", "checkpoint"} /\ UNCHANGED disconnected_chain
  <1>. USE DEF frame, control, data, env
  <1>1. CASE AddMinerTx \/ AddBlockTx \/ PushBlock \/ QuietMain \/ PurgeStep \/ QuietPop
    BY <1>1, Zenon DEF AddMinerTx, AddBlockTx, PushBlock, QuietMain, MainHeaderRefused, UnknownTx,
         WrongInputs, BlockRefused, ReturnAfterPurge, Return, PurgeStep, QuietPop, PopNext,
         PopGenesis, PopFailed, PopBlock
  <1>3. CASE PopBlock
    BY <1>3, Zenon DEF PopBlock
  <1>4. CASE AltStep
    BY <1>4, Zenon DEF AltStep, AltRefused, AltOrphaned, AltBegin, AltWalk, AltHeaderRefused,
         AddedAsAlternative, Return, PopBlock
  <1>5. CASE SwitchStep \/ Leave
    BY <1>5, Zenon DEF SwitchStep, Advances, Ends, DisconnectDone, DisconnectFailed, ConnectNext,
         ConnectFailed, PushOldChain, PushNext, PushFailed, SwitchSucceeded, ReconnectFirst,
         ReconnectNext, UndoDone, RestoreDone, Finish, Leave, ReturnFromAdd,
         CheckpointRollbackDone
  <1>6. CASE Enter
    BY <1>6, Zenon DEF Enter, add_new_block, CheckpointRollback
  <1>7. CASE Outside \/ UNCHANGED vars
    BY <1>7, OutsideUnchanged, Zenon DEF vars, PopBlock, Advances, Ends
  <1>. QED  BY <1>1, <1>3, <1>4, <1>5, <1>6, <1>7, NextCases, Zenon DEF Quiet

\* What happens to m_alternative_chains.
LEMMA AltsChanged ==
    ASSUME [Next]_vars
    PROVE  \/ UNCHANGED m_alternative_chains
           \/ (AddedAsAlternative \/ Reorganize) /\ InsertAlternative
           \/ SwitchSucceeded \/ UndoDone
  <1>. USE DEF data, alts
  <1>1. CASE AddMinerTx \/ AddBlockTx \/ PurgeStep \/ PushBlock \/ PopBlock
    BY <1>1, Zenon DEF AddMinerTx, AddBlockTx, PurgeStep, PushBlock, PopBlock
  <1>2. CASE QuietMain \/ QuietPop \/ Enter \/ Leave
    BY <1>2, Zenon DEF QuietMain, MainHeaderRefused, UnknownTx, WrongInputs, BlockRefused,
       ReturnAfterPurge, QuietPop, PopNext, PopGenesis, PopFailed, Enter, add_new_block,
       CheckpointRollback, Leave, ReturnFromAdd, CheckpointRollbackDone
  <1>3. CASE AltStep
    BY <1>3, Zenon DEF AltStep, AddedAsAlternative, Reorganize, AltRefused, AltOrphaned, AltBegin,
       AltWalk, AltHeaderRefused
  <1>6. CASE SwitchStep
    BY <1>6, Zenon DEF SwitchStep, DisconnectDone, DisconnectFailed, ConnectNext, ConnectFailed,
       PushOldChain, PushNext, PushFailed, ReconnectFirst, ReconnectNext, RestoreDone
  <1>7. CASE Outside \/ UNCHANGED vars
    BY <1>7, OutsideUnchanged, Zenon DEF vars
  <1>. QED  BY <1>1, <1>2, <1>3, <1>6, <1>7, NextCases, Zenon DEF Quiet

\* A switch splits the main chain above the genesis block and below the tail.
LEMMA SplitInside ==
    ASSUME IInv, HeightInv, Reorganize
    PROVE  split_height' \in 1..Height /\ split_height' < Height /\ AltHeight > 0
  <1>0. /\ TypeOK /\ ControlInv /\ ChainIndexed /\ Height \in Nat
        /\ pc = "walk" /\ PathHead \notin DOMAIN m_alternative_chains
    BY LedgerTypes, Zenon DEF IInv, Reorganize
  <1>1. CASE path # <<>>
    <2>1. {path[1], PrevId[bl]} \subseteq DOMAIN m_alternative_chains
      BY <1>0, <1>1, Zenon DEF ControlInv
    <2>2. /\ split_height' = m_alternative_chains[path[1]].height
          /\ Height > m_alternative_chains[path[1]].height
      BY <1>1, Zenon DEF Reorganize, AltHeaderOk, PathConnects
    <2>3. /\ m_alternative_chains[path[1]].height \in Nat
          /\ m_alternative_chains[PrevId[bl]].height \in Nat
      BY <1>0, <2>1, Zenon DEF TypeOK, AltTypeOK
    <2>. QED  BY <1>0, <1>1, <2>1, <2>2, <2>3 DEF HeightInv, AltHeight
  <1>2. CASE path = <<>>
    <2>1. /\ PrevId[bl] \in DOMAIN m_blocks_index /\ PrevId[bl] # m_blocks[Height].id
          /\ split_height' = AltHeight /\ AltHeight = m_blocks_index[PrevId[bl]] + 1
      BY <1>0, <1>2, Zenon DEF Reorganize, PathHead, ControlInv, get_tail_id, AltHeight
    <2>2. PICK i \in 1..Height : m_blocks[i].id = PrevId[bl]
      BY <1>0, <2>1, Zenon DEF ChainIndexed
    <2>3. m_blocks_index[PrevId[bl]] = i - 1
      BY <1>0, <2>2, Zenon DEF ChainIndexed
    <2>. QED  BY <1>0, <2>1, <2>2, <2>3
  <1>. QED  BY <1>1, <1>2, Zenon

\* A pop begins with the top block and stays with it.
LEMMA PoppingReached ==
    ASSUME TypeOK, [Next]_vars, pc' \in {"popping", "popped"}
    PROVE  PopNext \/ (pc \in {"popping", "popped"} /\ bl' = bl)
  <1>1. CASE PurgeStep
    <2>1. n \in Nat
      BY Zenon DEF TypeOK, ControlTypeOK
    <2>. QED  BY <1>1, <2>1 DEF PurgeStep
  <1>2. CASE AddMinerTx \/ AddBlockTx \/ PushBlock \/ PopBlock \/ QuietMain \/ QuietPop \/ AltStep \/ Enter \/ Leave
    BY <1>2, Zenon DEF AddMinerTx, AddBlockTx, PushBlock, PopBlock, QuietMain, MainHeaderRefused, UnknownTx,
       WrongInputs, BlockRefused, ReturnAfterPurge, Return, QuietPop, PopGenesis, PopFailed,
       AltStep, AltRefused, AltOrphaned, AltBegin, AltWalk, AltHeaderRefused,
       AddedAsAlternative, Reorganize, Enter, Leave, add_new_block, CheckpointRollback,
       ReturnFromAdd, CheckpointRollbackDone, Finish
  <1>3. CASE SwitchStep
    BY <1>3, Zenon DEF SwitchStep, DisconnectDone, DisconnectFailed, ConnectNext, ConnectFailed,
       PushOldChain, PushNext, PushFailed, SwitchSucceeded, ReconnectFirst, ReconnectNext,
       UndoDone, RestoreDone, ConnectBlock, ReconnectBlock, PushOldBlock, Finish
  <1>4. CASE Outside \/ UNCHANGED vars
    BY <1>4, OutsideUnchanged, Zenon DEF vars, control
  <1>. QED  BY <1>1, <1>2, <1>3, <1>4, NextCases, Zenon DEF Quiet

\* A switch takes off the blocks above split_height only, and the genesis block
\* is never among them.
LEMMA HeightInvStep ==
    ASSUME IInv, ModeInv, HeightInv, [Next]_vars
    PROVE  HeightInv'
  <1>0. /\ TypeOK /\ ControlInv /\ ChainIndexed /\ Height \in Nat /\ split_height \in Nat
    BY LedgerTypes, Zenon DEF IInv, TypeOK, ControlTypeOK
  <1>1. \A b \in DOMAIN m_alternative_chains' : m_alternative_chains'[b].height > 0
    <2>1. CASE UNCHANGED m_alternative_chains
      BY <2>1, Zenon DEF HeightInv
    <2>2. CASE (AddedAsAlternative \/ Reorganize) /\ InsertAlternative
      <3>0. pc = "walk" /\ PathHead \notin DOMAIN m_alternative_chains
        BY <2>2, Zenon DEF AddedAsAlternative, Reorganize
      <3>1. AltHeight > 0
        <4>1. CASE path # <<>>
          <5>1. PrevId[bl] \in DOMAIN m_alternative_chains
            BY <1>0, <3>0, <4>1, Zenon DEF ControlInv
          <5>2. m_alternative_chains[PrevId[bl]].height \in Nat
            BY <1>0, <5>1, Zenon DEF TypeOK, AltTypeOK
          <5>. QED  BY <4>1, <5>2 DEF AltHeight
        <4>2. CASE path = <<>>
          <5>1. PrevId[bl] \in DOMAIN m_blocks_index
            BY <1>0, <3>0, <4>2, Zenon DEF ControlInv, PathHead
          <5>2. m_blocks_index[PrevId[bl]] \in Nat
            BY <1>0, <5>1, Zenon DEF TypeOK, ChainTypeOK
          <5>. QED  BY <4>2, <5>2 DEF AltHeight
        <4>. QED  BY <4>1, <4>2, Zenon
      <3>. QED  BY <2>2, <3>1, Zenon DEF InsertAlternative, Put, HeightInv
    <2>3. CASE SwitchSucceeded \/ UndoDone
      <3>1. PICK S : m_alternative_chains' = Without(m_alternative_chains, S)
        BY <2>3, Zenon DEF SwitchSucceeded, UndoDone
      <3>. QED  BY <3>1, Zenon DEF Without, HeightInv
    <2>. QED  BY <2>1, <2>2, <2>3, AltsChanged, Zenon
  <1>2. CASE Ends
    BY <1>1, <1>2, Zenon DEF Ends, HeightInv, Switching
  <1>3. CASE pc = "idle" /\ mode' \in {"add", "checkpoint"} /\ UNCHANGED disconnected_chain
    BY <1>1, <1>3, Zenon DEF HeightInv, Switching, ModeInv
  <1>4. CASE Reorganize
    <2>1. mode' = "disconnect" /\ pc' = "pop" /\ Height' = Height
      BY <1>4, Zenon DEF Reorganize, chain, Height
    <2>2. split_height' \in 1..Height
      BY <1>4, SplitInside, Zenon
    <2>. QED  BY <1>1, <2>1, <2>2, Zenon DEF HeightInv, Switching
  <1>5. CASE Advances /\ UNCHANGED <<chain, disconnected_chain, split_height>>
    <2>1. pc' \in {"main", "alt", "pop"} /\ Switching /\ Switching' /\ Height' = Height
      BY <1>5, Zenon DEF Advances, DisconnectDone, ConnectNext, ConnectFailed, PushOldChain, PushNext,
         PushFailed, ReconnectFirst, ReconnectNext, ConnectBlock, ReconnectBlock, PushOldBlock,
         Switching, chain, Height
    <2>. QED  BY <1>1, <1>5, <2>1, Zenon DEF HeightInv
  <1>6. CASE PopBlock /\ UNCHANGED <<mode, split_height>>
    <2>1. pc = "popped" /\ pc' = "pop" /\ Height' = Height - 1
      BY <1>0, <1>6, BlocksChanged, Zenon DEF PopBlock, PushBlock
    <2>2. ~Switching => disconnected_chain' = disconnected_chain
      BY <1>6, Zenon DEF PopBlock, Switching
    <2>. QED  BY <1>0, <1>1, <1>6, <2>1, <2>2 DEF HeightInv, Switching
  <1>7. CASE UNCHANGED <<mode, disconnected_chain, split_height>> /\ ~PopBlock
    <2>1. Height' \in {Height, Height + 1}
      BY <1>0, <1>7, BlocksChanged, Zenon
    <2>2. ASSUME Switching, pc' \in {"popping", "popped"} PROVE split_height < Height'
      <3>1. CASE pc \in {"popping", "popped"}
        BY <1>0, <2>1, <2>2, <3>1 DEF HeightInv
      <3>2. CASE PopNext
        BY <1>0, <2>1, <3>2 DEF PopNext
      <3>3. pc \in {"popping", "popped"} \/ PopNext
        BY <1>0, <2>2, PoppingReached, Zenon
      <3>. QED  BY <3>1, <3>2, <3>3, Zenon
    <2>. QED  BY <1>0, <1>1, <1>7, <2>1, <2>2 DEF HeightInv, Switching
  <1>. QED  BY <1>2, <1>3, <1>4, <1>5, <1>6, <1>7, SwitchCases, Zenon
=============================================================================
