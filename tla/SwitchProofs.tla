------------------------------- MODULE SwitchProofs -------------------------
(***************************************************************************)
(* Why a switch happens.  switch_to_alternative_blockchain takes the main  *)
(* chain apart so that the blocks it took off can be added again;          *)
(* rollback_blockchain_switching adds them again after a failed switch,    *)
(* and none of them is refused; and after a switch that went through they  *)
(* can be stored as alternative blocks.                                    *)
(***************************************************************************)
EXTENDS BlockchainStorageProofs

-----------------------------------------------------------------------------
(* Why a switch happens.  It is begun for a chain with more work than the  *)
(* main chain, or for a checkpoint; in the first case the blocks it takes  *)
(* off have less work than the new tail, and no checkpoint among them that *)
(* the new chain does not also pass.                                       *)

Main == DOMAIN m_blocks_index
Alt == DOMAIN m_alternative_chains
Old == Range(disconnected_chain)
Top == alt_chain[Len(alt_chain)]
GenOf(b) == GenHeight[MinerTx[b]]

\* Every stored difficulty is that of the branch of its block.
WorkInv ==
    /\ \A i \in 1..Height : m_blocks[i].cumulative_difficulty = Work[m_blocks[i].id]
    /\ \A b \in Alt : m_alternative_chains[b].cumulative_difficulty = Work[b]

\* Which block the block thread works on, and which blocks its lists hold.
InMain == pc \in {"main", "txs"}
AddPlace == mode = "add" /\ (InMain \/ pc \in {"alt", "walk"}) => ~have_block(bl)
ConnectPlace ==
    mode = "connect" =>
        k \in DOMAIN alt_chain /\ bl = alt_chain[k] /\ (pc = "ret" /\ r => get_tail_id = bl)
PushPlace ==
    mode = "push" =>
        /\ j \in DOMAIN disconnected_chain /\ bl = disconnected_chain[j]
        /\ k = Len(alt_chain) /\ get_tail_id = Top
RollbackPlace ==
    mode \in {"undo", "restore"} =>
        /\ k \in DOMAIN alt_chain /\ (mode = "restore" => k = Len(alt_chain))
        /\ InMain => j \in DOMAIN disconnected_chain /\ bl = disconnected_chain[j]
WalkPlace ==
    pc = "walk" => is_alternative_block_allowed(Height, GenOf(bl)) /\ Range(path) \subseteq Alt
PlacesInv ==
    /\ AddPlace /\ ConnectPlace /\ PushPlace /\ RollbackPlace /\ WalkPlace
    /\ Switching => Range(alt_chain) \subseteq Alt /\ alt_chain # <<>>
    /\ Genesis \notin Alt \cup Old

\* A chain that wins by its work: the blocks it replaces have less, and a checkpoint
\* among them is one it passes as well.
Passes(m) == \A h \in DOMAIN m_checkpoints : h <= m => h < GenOf(Top)
ReasonInv ==
    /\ mode = "push" => ~discard
    /\ Switching /\ ~discard =>
          /\ mode = "disconnect" => MainDifficulty < Work[Top] /\ Passes(Height)
          /\ \A b \in Old : Work[b] < Work[Top] /\ Passes(GenOf(b))

\* The block thread in handle_block_to_main_chain, and in pop_block_from_blockchain.
MainWork == AddMinerTx \/ AddBlockTx \/ QuietMain \/ PushBlock \/ (PurgeStep /\ pc = "purge")
PopWork == QuietPop \/ PopBlock \/ (PurgeStep /\ pc = "popping")

\* Every step is one of these.
LEMMA NextWork ==
    ASSUME [Next]_vars
    PROVE  \/ MainWork \/ PopWork \/ AltStep \/ SwitchStep \/ Enter \/ Leave
           \/ Outside \/ UNCHANGED vars
  <1>1. PurgeStep => pc \in {"purge", "popping"}
    BY Zenon DEF PurgeStep
  <1>. QED  BY <1>1, NextCases, Zenon DEF Quiet, MainWork, PopWork

\* What handle_block_to_main_chain and the purge of a refused block may change.
LEMMA MainWorkChanges ==
    ASSUME TypeOK, MainWork
    PROVE  /\ UNCHANGED <<mode, bl, frame, m_alternative_chains, m_checkpoints>>
           /\ InMain \/ pc \in {"purge", "purged"}
           /\ pc' \in {"txs", "purge", "purged", "ret"}
           /\ pc' = "txs" => InMain
           /\ pc' = "ret" /\ r' => PushBlock
           /\ PushBlock \/ UNCHANGED <<m_blocks, m_blocks_index>>
           /\ UNCHANGED m_invalid_blocks \/ WrongInputs
  <1>. USE DEF data, chain, alts, env
  <1>1. CASE PurgeStep /\ pc = "purge"
    <2>1. n \in Nat
      BY Zenon DEF TypeOK, ControlTypeOK
    <2>. QED  BY <1>1, <2>1 DEF PurgeStep
  <1>2. CASE AddMinerTx \/ AddBlockTx \/ QuietMain \/ PushBlock
    BY <1>2, Zenon DEF AddMinerTx, AddBlockTx, QuietMain, PushBlock, MainHeaderRefused, UnknownTx,
       WrongInputs, BlockRefused, ReturnAfterPurge, Return, InMain
  <1>. QED  BY <1>1, <1>2, Zenon DEF MainWork

\* What pop_block_from_blockchain may change.
LEMMA PopWorkChanges ==
    ASSUME TypeOK, PopWork
    PROVE  /\ UNCHANGED <<mode, path, alt_chain, k, j, split_height, discard, alts, m_checkpoints>>
           /\ pc \in {"pop", "popping", "popped"} /\ pc' \in {"pop", "popping", "popped", "ret"}
           /\ pc' = "ret" => ~r'
           /\ PopBlock \/ UNCHANGED <<m_blocks, m_blocks_index, disconnected_chain>>
  <1>. USE DEF data, chain, alts, env, frame
  <1>1. CASE PurgeStep /\ pc = "popping"
    <2>1. n \in Nat
      BY Zenon DEF TypeOK, ControlTypeOK
    <2>. QED  BY <1>1, <2>1, Zenon DEF PurgeStep
  <1>2. CASE QuietPop \/ PopBlock
    BY <1>2, Zenon DEF QuietPop, PopBlock, PopNext, PopGenesis, PopFailed, Return
  <1>. QED  BY <1>1, <1>2, Zenon DEF PopWork

\* Points are loaded only when the block thread does not run.
LEMMA CheckpointsStay ==
    ASSUME [Next]_vars, pc # "idle"
    PROVE  m_checkpoints' = m_checkpoints
  <1>. USE DEF data, env
  <1>1. CASE AddMinerTx \/ AddBlockTx \/ PurgeStep \/ PushBlock \/ PopBlock
    BY <1>1, Zenon DEF AddMinerTx, AddBlockTx, PurgeStep, PushBlock, PopBlock
  <1>2. CASE QuietMain \/ QuietPop \/ AltStep \/ SwitchStep
    BY <1>2, Zenon DEF QuietMain, MainHeaderRefused, UnknownTx, WrongInputs, BlockRefused,
         ReturnAfterPurge, QuietPop, PopNext, PopGenesis, PopFailed, AltStep, AltRefused,
         AltOrphaned, AltBegin, AltWalk, AltHeaderRefused, AddedAsAlternative, Reorganize,
         SwitchStep, DisconnectDone, DisconnectFailed, ConnectNext, ConnectFailed,
         PushOldChain, PushNext, PushFailed, SwitchSucceeded, ReconnectFirst, ReconnectNext,
         UndoDone, RestoreDone
  <1>3. CASE Enter \/ Leave
    BY <1>3, Zenon DEF Enter, Leave, add_new_block, CheckpointRollback, ReturnFromAdd,
         CheckpointRollbackDone
  <1>4. CASE Outside
    BY <1>4, Zenon DEF Outside, load_new_checkpoints, check_against_checkpoints, CheckpointsPassed,
         handle_incoming_tx, IncomingThread, IncomingHaveTx, IncomingImages,
         IncomingInputs, IncomingInsert, remove_stuck_transactions, TimePasses
  <1>5. CASE UNCHANGED vars
    BY <1>5, Zenon DEF vars
  <1>. QED  BY <1>1, <1>2, <1>3, <1>4, <1>5, NextCases, Zenon DEF Quiet

\* handle_alternative_block works on a block that is not the genesis block, and
\* gives it the difficulty of its branch.
LEMMA AltEntry ==
    ASSUME IInv, ModeInv, WorkInv, PlacesInv, pc = "walk",
           PathHead \notin DOMAIN m_alternative_chains
    PROVE  bl # Genesis /\ AltDifficulty = Work[bl] /\ AltDifficulty \in Nat
  <1>0. /\ TypeOK /\ ControlInv /\ ChainIndexed /\ Height \in Nat /\ bl \in Block
        /\ mode \in {"add", "push"} /\ Height > 0 /\ m_blocks[1].id = Genesis
    <2>1. mode \in Modes /\ mode # "none" /\ mode \notin {"disconnect", "checkpoint", "connect", "undo", "restore"}
      BY Zenon DEF IInv, TypeOK, ControlTypeOK, ModeInv
    <2>. QED  BY <2>1, LedgerTypes, Zenon DEF IInv, Modes, ChainIndexed
  <1>1. bl # Genesis
    <2>1. CASE mode = "add"
      <3>1. bl \notin DOMAIN m_blocks_index
        BY <2>1, Zenon DEF PlacesInv, AddPlace, have_block
      <3>2. Genesis \in DOMAIN m_blocks_index
        BY <1>0 DEF ChainIndexed
      <3>. QED  BY <3>1, <3>2, Zenon
    <2>2. CASE mode = "push"
      <3>1. disconnected_chain \in Seq(Block) /\ j \in DOMAIN disconnected_chain /\ bl = disconnected_chain[j]
        BY <1>0, <2>2, Zenon DEF PlacesInv, PushPlace, TypeOK, ControlTypeOK
      <3>. QED  BY <3>1, Zenon DEF PlacesInv, Old, Range
    <2>. QED  BY <1>0, <2>1, <2>2, Zenon
  <1>2. PrevId[bl] \in Block /\ Difficulty[bl] \in Nat /\ Work[bl] = Work[PrevId[bl]] + Difficulty[bl]
    BY <1>0, <1>1, BlockAssumption, TreeAssumption, Zenon
  <1>3. CASE path # <<>>
    <2>1. PrevId[bl] \in DOMAIN m_alternative_chains
      BY <1>0, <1>3, Zenon DEF ControlInv
    <2>2. m_alternative_chains[PrevId[bl]].cumulative_difficulty \in Nat
      BY <1>0, <2>1, Zenon DEF TypeOK, AltTypeOK
    <2>3. Work[PrevId[bl]] = m_alternative_chains[PrevId[bl]].cumulative_difficulty
      BY <2>1, Zenon DEF WorkInv, Alt
    <2>. QED  BY <1>1, <1>2, <1>3, <2>2, <2>3 DEF AltDifficulty
  <1>4. CASE path = <<>>
    <2>1. PrevId[bl] \in DOMAIN m_blocks_index
      BY <1>0, <1>4, Zenon DEF PathHead, ControlInv
    <2>2. PICK i \in 1..Height : m_blocks[i].id = PrevId[bl]
      BY <1>0, <2>1, Zenon DEF ChainIndexed
    <2>3. m_blocks_index[PrevId[bl]] = i - 1
      BY <1>0, <2>2, Zenon DEF ChainIndexed
    <2>4. m_blocks[i].cumulative_difficulty \in Nat
      <3>1. m_blocks \in Seq(BlockEntry) /\ i \in 1..Len(m_blocks)
        BY <1>0, <2>2, Zenon DEF TypeOK, ChainTypeOK, Height
      <3>2. m_blocks[i] \in BlockEntry
        BY <3>1
      <3>. QED  BY <3>2, Zenon DEF BlockEntry
    <2>5. Work[PrevId[bl]] = m_blocks[i].cumulative_difficulty
      BY <2>2, Zenon DEF WorkInv
    <2>6. m_blocks_index[PrevId[bl]] + 1 = i
      BY <2>2, <2>3
    <2>. QED  BY <1>1, <1>2, <1>4, <2>4, <2>5, <2>6 DEF AltDifficulty
  <1>. QED  BY <1>3, <1>4, Zenon

\* No step stores a difficulty that is not that of the branch.
LEMMA WorkInvStep ==
    ASSUME IInv, ModeInv, WorkInv, PlacesInv, [Next]_vars
    PROVE  WorkInv'
  <1>0. /\ TypeOK /\ ControlInv /\ ChainIndexed /\ Height \in Nat /\ bl \in Block
        /\ ChainIndexed' /\ Height > 0
    BY LedgerTypes, IInvStep, Zenon DEF IInv, ChainIndexed
  <1>1. \A i \in 1..Height' : m_blocks'[i].cumulative_difficulty = Work[m_blocks'[i].id]
    <2>1. CASE m_blocks' = m_blocks /\ Height' = Height
      BY <2>1, Zenon DEF WorkInv
    <2>2. CASE /\ PushBlock /\ Height' = Height + 1 /\ m_blocks'[Height + 1].id = bl
               /\ \A i \in 1..Height : m_blocks'[i] = m_blocks[i]
      <3>1. bl # Genesis
        BY <1>0, <2>2 DEF PushBlock, ChainIndexed
      <3>2. Work[bl] = Work[PrevId[bl]] + Difficulty[bl]
        BY <1>0, <3>1, TreeAssumption, Zenon
      <3>3. /\ PrevId[bl] = m_blocks'[Height].id
            /\ m_blocks'[Height + 1].cumulative_difficulty =
                  m_blocks'[Height].cumulative_difficulty + Difficulty[bl]
        <4>1. Height + 1 \in 2..Height' /\ Height + 1 - 1 = Height
          BY <1>0, <2>2
        <4>. QED  BY <1>0, <2>2, <4>1 DEF ChainIndexed
      <3>4. m_blocks'[Height].cumulative_difficulty = Work[m_blocks'[Height].id]
        BY <1>0, <2>2 DEF WorkInv
      <3>5. \A i \in 1..Height : m_blocks'[i].cumulative_difficulty = Work[m_blocks'[i].id]
        BY <2>2, Zenon DEF WorkInv
      <3>. QED  BY <1>0, <2>2, <3>2, <3>3, <3>4, <3>5
    <2>3. CASE PopBlock /\ Height' = Height - 1 /\ \A i \in 1..(Height - 1) : m_blocks'[i] = m_blocks[i]
      BY <1>0, <2>3 DEF WorkInv
    <2>. QED  BY <1>0, <2>1, <2>2, <2>3, BlocksChanged, Zenon
  <1>2. \A b \in Alt' : m_alternative_chains'[b].cumulative_difficulty = Work[b]
    <2>1. CASE UNCHANGED m_alternative_chains
      BY <2>1, Zenon DEF WorkInv, Alt
    <2>2. CASE (AddedAsAlternative \/ Reorganize) /\ InsertAlternative
      <3>1. pc = "walk" /\ PathHead \notin DOMAIN m_alternative_chains
        BY <2>2, Zenon DEF AddedAsAlternative, Reorganize
      <3>2. AltDifficulty = Work[bl]
        BY <3>1, AltEntry, Zenon
      <3>. QED  BY <2>2, <3>2, Zenon DEF InsertAlternative, Put, WorkInv, Alt
    <2>3. CASE SwitchSucceeded \/ UndoDone
      <3>1. PICK S : m_alternative_chains' = Without(m_alternative_chains, S)
        BY <2>3, Zenon DEF SwitchSucceeded, UndoDone
      <3>. QED  BY <3>1, Zenon DEF Without, WorkInv, Alt
    <2>. QED  BY <2>1, <2>2, <2>3, AltsChanged, Zenon
  <1>. QED  BY <1>1, <1>2, Zenon DEF WorkInv

\* The block on top of the main chain is not the genesis block when it is popped.
LEMMA PoppedNotGenesis ==
    ASSUME IInv, PopBlock
    PROVE  bl # Genesis /\ bl \in DOMAIN m_blocks_index /\ bl = m_blocks[Height].id
  <1>1. ChainIndexed /\ Height \in Nat /\ Height > 1 /\ bl = m_blocks[Height].id
    BY LedgerTypes, Zenon DEF IInv, PopBlock, ControlInv, get_tail_id
  <1>2. Height \in 1..Height /\ 1 \in 1..Height
    BY <1>1
  <1>3. m_blocks_index[m_blocks[Height].id] = Height - 1 /\ m_blocks_index[m_blocks[1].id] = 1 - 1
    BY <1>1, <1>2, Zenon DEF ChainIndexed
  <1>4. m_blocks[1].id = Genesis /\ m_blocks[Height].id \in DOMAIN m_blocks_index
    BY <1>1, <1>2, Zenon DEF ChainIndexed
  <1>. QED  BY <1>1, <1>3, <1>4

\* handle_block_to_main_chain works on the block its caller gave it.
LEMMA PlacesMain ==
    ASSUME IInv, ModeInv, PlacesInv, [Next]_vars, MainWork
    PROVE  PlacesInv'
  <1>0. /\ TypeOK /\ ControlInv /\ ChainIndexed /\ Height \in Nat
        /\ InMain \/ pc \in {"purge", "purged"}
        /\ UNCHANGED <<mode, bl, path, alt_chain, k, disconnected_chain, j, m_alternative_chains>>
        /\ pc' \in {"txs", "purge", "purged", "ret"}
        /\ pc' = "txs" => InMain
        /\ pc' = "ret" /\ r' => PushBlock
    BY MainWorkChanges, LedgerTypes, Zenon DEF IInv, frame
  <1>1. AddPlace'
    <2>1. PushBlock \/ WrongInputs => pc' # "txs"
      BY Zenon DEF PushBlock, WrongInputs, Return
    <2>2. pc' = "txs" => UNCHANGED <<m_blocks_index, m_alternative_chains, m_invalid_blocks>>
      BY <1>0, <2>1, MainWorkChanges, Zenon
    <2>3. pc' = "txs" /\ mode = "add" => ~have_block(bl)
      BY <1>0, Zenon DEF PlacesInv, AddPlace
    <2>4. InMain' \/ pc' \in {"alt", "walk"} => pc' = "txs"
      BY <1>0, Zenon DEF InMain
    <2>. QED  BY <1>0, <2>2, <2>3, <2>4, Zenon DEF AddPlace, have_block
  <1>2. ConnectPlace'
    <2>1. PushBlock => get_tail_id' = bl
      <3>1. PushBlock => m_blocks'[Height'].id = bl
        <4>1. ~PopBlock
          BY <1>0, Zenon DEF PopBlock, InMain
        <4>. QED  BY <1>0, <4>1, BlocksChanged, Zenon
      <3>. QED  BY <3>1, Zenon DEF get_tail_id
    <2>. QED  BY <1>0, <2>1, Zenon DEF PlacesInv, ConnectPlace
  <1>3. mode # "push" /\ ~(pc' = "walk")
    BY <1>0, Zenon DEF ModeInv, InMain
  <1>4. RollbackPlace'
    <2>1. InMain' => InMain
      BY <1>0, Zenon DEF InMain
    <2>. QED  BY <1>0, <2>1, Zenon DEF PlacesInv, RollbackPlace
  <1>5. Switching' = Switching /\ Alt' = Alt /\ Old' = Old
    BY <1>0, Zenon DEF Switching, Alt, Old
  <1>. QED  BY <1>0, <1>1, <1>2, <1>3, <1>4, <1>5, Zenon DEF PlacesInv, PushPlace, WalkPlace

\* pop_block_from_blockchain keeps the lists of the switch it is part of.
LEMMA PlacesPop ==
    ASSUME IInv, ModeInv, PlacesInv, PopWork
    PROVE  PlacesInv'
  <1>0. /\ TypeOK /\ pc \in {"pop", "popping", "popped"}
        /\ UNCHANGED <<mode, alt_chain, k, m_alternative_chains>>
        /\ pc' \in {"pop", "popping", "popped", "ret"}
    BY PopWorkChanges, Zenon DEF IInv, alts
  <1>1. mode \notin {"add", "connect", "push"} \/ mode = "add"
    BY <1>0, Zenon DEF ModeInv
  <1>2. ~InMain' /\ pc' \notin {"alt", "walk"}
    BY <1>0, Zenon DEF InMain
  <1>3. Genesis \notin Old'
    <2>1. CASE PopBlock
      <3>1. disconnected_chain \in Seq(Block) /\ bl \in Block
        BY <1>0, Zenon DEF TypeOK, ControlTypeOK
      <3>2. disconnected_chain' \in {disconnected_chain, <<bl>> \o disconnected_chain}
        BY <2>1, Zenon DEF PopBlock
      <3>3. \A i \in DOMAIN disconnected_chain' : disconnected_chain'[i] = bl \/ disconnected_chain'[i] \in Old
        BY <3>1, <3>2 DEF Old, Range
      <3>4. Genesis \notin Old /\ bl # Genesis
        BY <2>1, PoppedNotGenesis, Zenon DEF PlacesInv
      <3>. QED  BY <3>3, <3>4, Zenon DEF Old, Range
    <2>2. CASE ~PopBlock
      <3>1. disconnected_chain' = disconnected_chain
        BY <1>0, <2>2, PopWorkChanges, Zenon
      <3>. QED  BY <3>1, Zenon DEF Old, PlacesInv
    <2>. QED  BY <2>1, <2>2, Zenon
  <1>4. Switching' = Switching /\ Alt' = Alt
    BY <1>0, Zenon DEF Switching, Alt
  <1>. QED  BY <1>0, <1>1, <1>2, <1>3, <1>4, Zenon
            DEF PlacesInv, AddPlace, ConnectPlace, PushPlace, RollbackPlace, WalkPlace

\* handle_alternative_block walks over alternative blocks, and a switch begins
\* with them and the new block.
LEMMA PlacesAlt ==
    ASSUME IInv, ModeInv, WorkInv, PlacesInv, AltStep
    PROVE  PlacesInv'
  <1>. USE DEF data, chain, alts, env, frame
  <1>0. /\ mode \in {"add", "push"} /\ pc \in {"alt", "walk"}
        /\ UNCHANGED <<m_blocks, m_blocks_index, m_invalid_blocks, bl, k, j, m_checkpoints>>
        /\ path \in Seq(Block) /\ bl \in Block /\ alt_chain \in Seq(Block)
    <2>1. /\ pc \in {"alt", "walk"}
          /\ UNCHANGED <<m_blocks, m_blocks_index, m_invalid_blocks, bl, k, j, m_checkpoints>>
      BY Zenon DEF AltStep, AltRefused, AltOrphaned, AltBegin, AltWalk, AltHeaderRefused,
         AddedAsAlternative, Reorganize
    <2>2. mode \in Modes /\ mode # "none" /\ mode \notin {"disconnect", "checkpoint", "connect", "undo", "restore"}
      BY <2>1, Zenon DEF IInv, TypeOK, ControlTypeOK, ModeInv
    <2>. QED  BY <2>1, <2>2, Zenon DEF Modes, IInv, TypeOK, ControlTypeOK
  <1>1. get_tail_id' = get_tail_id /\ Height' = Height
    BY <1>0, Zenon DEF get_tail_id, Height
  <1>2. CASE AltRefused \/ AltOrphaned \/ AltHeaderRefused
    <2>1. pc' = "ret" /\ UNCHANGED <<mode, path, alt_chain, disconnected_chain, m_alternative_chains>>
      BY <1>2, Zenon DEF AltRefused, AltOrphaned, AltHeaderRefused, Return
    <2>2. ~InMain' /\ pc' \notin {"alt", "walk"} /\ Switching' = Switching /\ Alt' = Alt /\ Old' = Old
          /\ Top' = Top
      BY <2>1, Zenon DEF InMain, Switching, Alt, Old, Top
    <2>. QED  BY <1>0, <1>1, <2>1, <2>2, Zenon
              DEF PlacesInv, AddPlace, ConnectPlace, PushPlace, RollbackPlace, WalkPlace
  <1>3. CASE AltBegin \/ AltWalk
    <2>1. pc' = "walk" /\ UNCHANGED <<mode, alt_chain, disconnected_chain, m_alternative_chains>>
      BY <1>3, Zenon DEF AltBegin, AltWalk
    <2>2. is_alternative_block_allowed(Height, GenOf(bl))
      BY <1>3, Zenon DEF AltBegin, AltWalk, PlacesInv, WalkPlace, GenOf
    <2>3. is_alternative_block_allowed(Height, GenOf(bl))'
      BY <1>0, <1>1, <2>2, Zenon DEF is_alternative_block_allowed, GenOf
    <2>4. Range(path') \subseteq Alt
      <3>1. CASE AltBegin
        BY <3>1 DEF AltBegin, Range
      <3>2. CASE AltWalk
        <4>1. Range(path) \subseteq Alt /\ PathHead \in Alt /\ path' = <<PathHead>> \o path
          BY <3>2, Zenon DEF AltWalk, PlacesInv, WalkPlace, Alt
        <4>2. \A i \in DOMAIN path' : path'[i] = PathHead \/ path'[i] \in Range(path)
          BY <1>0, <4>1 DEF Range
        <4>. QED  BY <4>1, <4>2, Zenon DEF Range
      <3>. QED  BY <1>3, <3>1, <3>2, Zenon
    <2>5. ~InMain' /\ Switching' = Switching /\ Alt' = Alt /\ Old' = Old /\ Top' = Top
      BY <2>1, Zenon DEF InMain, Switching, Alt, Old, Top
    <2>6. mode = "add" => ~have_block(bl)'
      BY <1>0, <2>1, Zenon DEF PlacesInv, AddPlace, have_block
    <2>. QED  BY <1>0, <1>1, <2>1, <2>3, <2>4, <2>5, <2>6, Zenon
              DEF PlacesInv, AddPlace, ConnectPlace, PushPlace, RollbackPlace, WalkPlace
  <1>4. CASE AddedAsAlternative \/ Reorganize
    <2>1. /\ pc = "walk" /\ PathHead \notin DOMAIN m_alternative_chains /\ InsertAlternative
      BY <1>4, Zenon DEF AddedAsAlternative, Reorganize
    <2>2. Alt' = Alt \cup {bl}
      BY <2>1, Zenon DEF InsertAlternative, Put, Alt
    <2>3. Genesis \notin Alt'
      BY <2>1, <2>2, AltEntry, Zenon DEF PlacesInv
    <2>4. pc' \in {"ret", "pop"}
      BY <1>4, Zenon DEF AddedAsAlternative, Reorganize, Return
    <2>5. ~InMain' /\ pc' \notin {"alt", "walk"}
      BY <2>4, Zenon DEF InMain
    <2>6. CASE AddedAsAlternative
      <3>1. UNCHANGED <<mode, alt_chain, disconnected_chain>>
        BY <2>6, Zenon DEF AddedAsAlternative
      <3>2. Switching' = Switching /\ Old' = Old /\ Top' = Top
        BY <3>1, Zenon DEF Switching, Old, Top
      <3>. QED  BY <1>0, <1>1, <2>2, <2>3, <2>5, <3>1, <3>2, Zenon
                DEF PlacesInv, AddPlace, ConnectPlace, PushPlace, RollbackPlace, WalkPlace
    <2>7. CASE Reorganize
      <3>1. mode' = "disconnect" /\ alt_chain' = Append(path, bl) /\ disconnected_chain' = <<>>
        BY <2>7, Zenon DEF Reorganize
      <3>2. alt_chain' # <<>> /\ Old' = {}
        BY <1>0, <3>1 DEF Old, Range
      <3>3. Range(path) \subseteq Alt
        BY <2>1, Zenon DEF PlacesInv, WalkPlace
      <3>4. \A i \in DOMAIN alt_chain' : alt_chain'[i] = bl \/ alt_chain'[i] \in Range(path)
        BY <1>0, <3>1 DEF Range
      <3>5. Range(alt_chain') \subseteq Alt'
        BY <2>2, <3>3, <3>4, Zenon DEF Range
      <3>. QED  BY <2>3, <2>5, <3>1, <3>2, <3>5, Zenon DEF PlacesInv, AddPlace, ConnectPlace, PushPlace, RollbackPlace, WalkPlace
    <2>. QED  BY <1>4, <2>6, <2>7, Zenon
  <1>. QED  BY <1>2, <1>3, <1>4, Zenon DEF AltStep

\* What a switch does between two blocks.
LEMMA SwitchMoves ==
    ASSUME SwitchStep
    PROVE  /\ UNCHANGED <<chain, m_checkpoints, pool_refused>>
           /\ \/ Finish
              \/ Advances /\ UNCHANGED <<alts, alt_chain, disconnected_chain, split_height, discard>>
  <1>. USE DEF data, alts, env, frame
  <1>. QED  BY Zenon DEF SwitchStep, Advances, DisconnectDone, DisconnectFailed, ConnectNext,
         ConnectFailed, PushOldChain, PushNext, PushFailed, SwitchSucceeded, ReconnectFirst,
         ReconnectNext, UndoDone, RestoreDone

\* From phase to phase a switch takes its blocks in the order of its lists.
LEMMA PlacesAdvance ==
    ASSUME IInv, PlacesInv, Advances,
           UNCHANGED <<chain, alts, alt_chain, disconnected_chain>>
    PROVE  PlacesInv'
  <1>. USE DEF data, env, frame
  <1>0. /\ alt_chain \in Seq(Block) /\ disconnected_chain \in Seq(Block) /\ k \in Nat /\ j \in Nat
    BY Zenon DEF IInv, TypeOK, ControlTypeOK
  <1>1. /\ get_tail_id' = get_tail_id /\ Alt' = Alt /\ Old' = Old /\ Top' = Top
    BY Zenon DEF chain, alts, get_tail_id, Height, Alt, Old, Top
  <1>2. /\ Switching /\ Switching' /\ pc' \in {"main", "alt", "pop"} /\ mode' # "add"
    BY Zenon DEF Advances, DisconnectDone, ConnectNext, ConnectFailed, PushOldChain, PushNext,
       PushFailed, ReconnectFirst, ReconnectNext, ConnectBlock, ReconnectBlock, PushOldBlock,
       Switching
  <1>3. AddPlace' /\ WalkPlace'
    BY <1>2, Zenon DEF AddPlace, WalkPlace
  <1>4. Range(alt_chain) \subseteq Alt /\ alt_chain # <<>>
    BY <1>2, Zenon DEF PlacesInv
  <1>5. ConnectPlace' /\ PushPlace' /\ RollbackPlace'
    <2>1. CASE DisconnectDone
      <3>1. mode' = "connect" /\ k' = 1 /\ bl' = alt_chain[1] /\ pc' = "main"
        BY <2>1, Zenon DEF DisconnectDone, ConnectBlock
      <3>2. 1 \in DOMAIN alt_chain
        BY <1>0, <1>4
      <3>. QED  BY <3>1, <3>2, Zenon DEF ConnectPlace, PushPlace, RollbackPlace
    <2>2. CASE ConnectNext
      <3>1. /\ mode = "connect" /\ k < Len(alt_chain) /\ mode' = "connect" /\ k' = k + 1
            /\ bl' = alt_chain[k + 1] /\ pc' = "main"
        BY <2>2, Zenon DEF ConnectNext, ConnectBlock
      <3>2. k + 1 \in DOMAIN alt_chain
        BY <1>0, <3>1 DEF PlacesInv, ConnectPlace
      <3>. QED  BY <3>1, <3>2, Zenon DEF ConnectPlace, PushPlace, RollbackPlace
    <2>3. CASE ConnectFailed
      <3>1. mode = "connect" /\ mode' = "undo" /\ k' = k /\ pc' = "pop"
        BY <2>3, Zenon DEF ConnectFailed
      <3>2. k \in DOMAIN alt_chain
        BY <3>1, Zenon DEF PlacesInv, ConnectPlace
      <3>. QED  BY <3>1, <3>2, Zenon DEF ConnectPlace, PushPlace, RollbackPlace, InMain
    <2>4. CASE PushOldChain
      <3>1. /\ mode = "connect" /\ pc = "ret" /\ r /\ k = Len(alt_chain) /\ mode' = "push" /\ k' = k
            /\ j' = 1 /\ bl' = disconnected_chain[1] /\ pc' = "alt"
        BY <2>4, Zenon DEF PushOldChain, PushOldBlock
      <3>2. get_tail_id = Top
        BY <3>1, Zenon DEF PlacesInv, ConnectPlace, Top
      <3>3. disconnected_chain # <<>>
        BY <3>1, Zenon DEF IInv, ControlInv
      <3>4. 1 \in DOMAIN disconnected_chain
        BY <1>0, <3>3
      <3>. QED  BY <1>1, <3>1, <3>2, <3>4, Zenon DEF ConnectPlace, PushPlace, RollbackPlace
    <2>5. CASE PushNext
      <3>1. /\ mode = "push" /\ j < Len(disconnected_chain) /\ mode' = "push" /\ k' = k
            /\ j' = j + 1 /\ bl' = disconnected_chain[j + 1] /\ pc' = "alt"
        BY <2>5, Zenon DEF PushNext, PushOldBlock
      <3>2. j + 1 \in DOMAIN disconnected_chain
        BY <1>0, <3>1 DEF PlacesInv, PushPlace
      <3>. QED  BY <1>1, <3>1, <3>2, Zenon DEF PlacesInv, ConnectPlace, PushPlace, RollbackPlace
    <2>6. CASE PushFailed
      <3>1. mode = "push" /\ mode' = "restore" /\ k' = k /\ pc' = "pop"
        BY <2>6, Zenon DEF PushFailed
      <3>2. k = Len(alt_chain) /\ k \in DOMAIN alt_chain
        <4>1. k = Len(alt_chain)
          BY <3>1, Zenon DEF PlacesInv, PushPlace
        <4>. QED  BY <1>0, <1>4, <4>1
      <3>. QED  BY <3>1, <3>2, Zenon DEF ConnectPlace, PushPlace, RollbackPlace, InMain
    <2>7. CASE ReconnectFirst \/ ReconnectNext
      <3>1. /\ mode \in {"undo", "restore"} /\ mode' = mode /\ k' = k /\ pc' = "main"
            /\ bl' = disconnected_chain[j']
            /\ j' = 1 \/ (j' = j + 1 /\ j < Len(disconnected_chain))
        BY <2>7, Zenon DEF ReconnectFirst, ReconnectNext, ReconnectBlock
      <3>2. disconnected_chain # <<>>
        BY <3>1, Zenon DEF IInv, ControlInv
      <3>3. j' \in DOMAIN disconnected_chain
        BY <1>0, <3>1, <3>2
      <3>. QED  BY <3>1, <3>3, Zenon DEF PlacesInv, ConnectPlace, PushPlace, RollbackPlace
    <2>. QED  BY <2>1, <2>2, <2>3, <2>4, <2>5, <2>6, <2>7, Zenon DEF Advances
  <1>6. Genesis \notin Alt' \cup Old'
    BY <1>1, Zenon DEF PlacesInv
  <1>. QED  BY <1>1, <1>3, <1>4, <1>5, <1>6, Zenon DEF PlacesInv

\* Every step keeps the blocks of the block thread in their places.
LEMMA PlacesInvStep ==
    ASSUME IInv, ModeInv, WorkInv, PlacesInv, [Next]_vars
    PROVE  PlacesInv'
  <1>. USE DEF data, frame, env
  <1>1. CASE MainWork \/ PopWork \/ AltStep
    BY <1>1, PlacesMain, PlacesPop, PlacesAlt, Zenon
  <1>2. CASE SwitchStep /\ ~Finish
    BY <1>2, SwitchMoves, PlacesAdvance, Zenon
  <1>3. CASE Finish /\ Alt' \subseteq Alt
    <2>1. mode' = "none" /\ pc' = "idle" /\ disconnected_chain' = <<>>
      BY <1>3, Zenon DEF Finish
    <2>2. Old' = {}
      BY <2>1 DEF Old, Range
    <2>3. Genesis \notin Alt'
      BY <1>3, Zenon DEF PlacesInv
    <2>. QED  BY <2>1, <2>2, <2>3, Zenon DEF PlacesInv, AddPlace, ConnectPlace, PushPlace, RollbackPlace, WalkPlace,
              Switching
  <1>4. CASE SwitchStep \/ Leave
    <2>1. Alt' \subseteq Alt
      <3>1. CASE SwitchSucceeded \/ UndoDone
        <4>1. PICK S : m_alternative_chains' = Without(m_alternative_chains, S)
          BY <3>1, Zenon DEF SwitchSucceeded, UndoDone
        <4>. QED  BY <4>1, Zenon DEF Without, Alt
      <3>2. CASE ~(SwitchSucceeded \/ UndoDone)
        <4>1. m_alternative_chains' = m_alternative_chains
          BY <1>4, <3>2, Zenon DEF SwitchStep, Leave, DisconnectDone, DisconnectFailed, ConnectNext,
             ConnectFailed, PushOldChain, PushNext, PushFailed, ReconnectFirst,
             ReconnectNext, RestoreDone, ReturnFromAdd, CheckpointRollbackDone, alts
        <4>. QED  BY <4>1, Zenon DEF Alt
      <3>. QED  BY <3>1, <3>2, Zenon
    <2>2. Leave => Finish
      BY Zenon DEF Leave, ReturnFromAdd, CheckpointRollbackDone
    <2>. QED  BY <1>2, <1>3, <1>4, <2>1, <2>2, Zenon
  <1>5. CASE Enter
    <2>1. /\ UNCHANGED <<m_blocks_index, m_alternative_chains, m_invalid_blocks, disconnected_chain>>
          /\ \/ mode' = "add" /\ pc' \in {"main", "alt"} /\ ~have_block(bl')
             \/ mode' = "checkpoint" /\ pc' = "pop"
      BY <1>5, Zenon DEF Enter, add_new_block, CheckpointRollback, chain, alts
    <2>2. Alt' = Alt /\ Old' = Old /\ mode' \in {"add", "checkpoint"} /\ pc' # "walk"
      BY <2>1, Zenon DEF Alt, Old
    <2>3. AddPlace'
      BY <2>1, Zenon DEF AddPlace, have_block
    <2>. QED  BY <2>2, <2>3, Zenon DEF PlacesInv, ConnectPlace, PushPlace, RollbackPlace, WalkPlace, Switching
  <1>6. CASE Outside \/ UNCHANGED vars
    <2>1. UNCHANGED <<control, chain, alts>>
      BY <1>6, OutsideUnchanged, Zenon DEF vars
    <2>2. pc = "walk" => m_checkpoints' = m_checkpoints
      BY CheckpointsStay, Zenon
    <2>3. WalkPlace'
      BY <2>1, <2>2, Zenon DEF control, chain, alts, WalkPlace, PlacesInv, Alt, GenOf, Height,
         is_alternative_block_allowed
    <2>4. /\ get_tail_id' = get_tail_id /\ Alt' = Alt /\ Old' = Old /\ Top' = Top /\ InMain' = InMain
          /\ Switching' = Switching
      BY <2>1, Zenon DEF control, chain, alts, get_tail_id, Height, Alt, Old, Top, InMain, Switching
    <2>. QED  BY <2>1, <2>3, <2>4, Zenon
              DEF control, chain, alts, PlacesInv, AddPlace, ConnectPlace, PushPlace, RollbackPlace,
                  have_block
  <1>. QED  BY <1>1, <1>4, <1>5, <1>6, NextWork, Zenon

\* A step that keeps the two chains of a switch keeps its reason.
LEMMA ReasonSame ==
    ASSUME ReasonInv, UNCHANGED <<alt_chain, disconnected_chain, discard, m_checkpoints>>,
           \/ mode' = mode
           \/ Switching /\ mode' # "disconnect" /\ (mode' = "push" => ~discard),
           mode = "disconnect" => UNCHANGED m_blocks
    PROVE  ReasonInv'
  <1>1. Top' = Top /\ Old' = Old
    BY Zenon DEF Top, Old
  <1>2. \A m : Passes(m) => Passes(m)'
    BY <1>1, Zenon DEF Passes
  <1>3. Switching' => Switching
    BY Zenon DEF Switching
  <1>4. ASSUME mode' = "disconnect", ~discard PROVE (MainDifficulty < Work[Top] /\ Passes(Height))'
    <2>1. mode = "disconnect" /\ Switching /\ m_blocks' = m_blocks
      BY <1>4, Zenon DEF Switching
    <2>2. MainDifficulty < Work[Top] /\ Passes(Height)
      BY <1>4, <2>1, Zenon DEF ReasonInv
    <2>. QED  BY <1>1, <1>2, <2>1, <2>2, Zenon DEF MainDifficulty, Height
  <1>5. ASSUME Switching', ~discard, NEW b \in Old PROVE Work[b] < Work[Top] /\ Passes(GenOf(b))'
    BY <1>2, <1>3, <1>5, Zenon DEF ReasonInv, GenOf
  <1>6. mode' = "push" => ~discard
    BY Zenon DEF ReasonInv
  <1>. QED  BY <1>1, <1>4, <1>5, <1>6, Zenon DEF ReasonInv, GenOf

\* The last block of the new chain is a stored alternative block.
LEMMA NewTail ==
    ASSUME IInv, WorkInv, PlacesInv, Switching
    PROVE  Top \in Alt /\ Work[Top] \in Nat /\ Top \in Block
  <1>0. TypeOK /\ alt_chain \in Seq(Block) /\ alt_chain # <<>> /\ Range(alt_chain) \subseteq Alt
    BY Zenon DEF IInv, TypeOK, ControlTypeOK, PlacesInv
  <1>1. Len(alt_chain) \in DOMAIN alt_chain
    BY <1>0
  <1>2. Top \in Range(alt_chain)
    BY <1>1, Zenon DEF Top, Range
  <1>3. Top \in Alt /\ Alt \subseteq Block
    BY <1>0, <1>2, Zenon DEF Alt, TypeOK, AltTypeOK
  <1>4. m_alternative_chains[Top].cumulative_difficulty \in Nat
    BY <1>0, <1>3, Zenon DEF Alt, TypeOK, AltTypeOK
  <1>. QED  BY <1>3, <1>4, Zenon DEF WorkInv

\* The block a switch takes off has less work than the chain it makes room for.
LEMMA ReasonPop ==
    ASSUME IInv, HeadersChecked, WorkInv, ReasonInv, [Next]_vars, PopBlock, mode = "disconnect",
           Work[Top] \in Nat
    PROVE  ReasonInv'
  <1>0. /\ TypeOK /\ ControlInv /\ ChainIndexed /\ Height \in Nat /\ bl \in Block /\ Height > 1
        /\ bl = m_blocks[Height].id /\ Height' = Height - 1 /\ m_blocks'[Height - 1] = m_blocks[Height - 1]
    <2>1. TypeOK /\ ControlInv /\ ChainIndexed /\ Height \in Nat /\ bl \in Block
      BY LedgerTypes, Zenon DEF IInv
    <2>2. ~PushBlock
      BY Zenon DEF PopBlock, PushBlock
    <2>. QED  BY <2>1, <2>2, BlocksChanged
  <1>1. /\ UNCHANGED <<mode, alt_chain, discard, m_checkpoints>>
        /\ disconnected_chain' = <<bl>> \o disconnected_chain
    BY Zenon DEF PopBlock, env
  <1>2. Top' = Top /\ \A m : Passes(m)' = Passes(m)
    BY <1>1, Zenon DEF Top, Passes, GenOf
  <1>3. disconnected_chain \in Seq(Block)
    BY <1>0, Zenon DEF TypeOK, ControlTypeOK
  <1>4. \A b \in Old' : b = bl \/ b \in Old
    BY <1>0, <1>1, <1>3 DEF Old, Range
  <1>. SUFFICES ASSUME ~discard
                PROVE  /\ (MainDifficulty < Work[Top] /\ Passes(Height))'
                       /\ \A b \in Old' : Work[b] < Work[Top] /\ Passes(GenOf(b))
    BY <1>1, <1>2, Zenon DEF ReasonInv, GenOf
  <1>5. MainDifficulty < Work[Top] /\ Passes(Height) /\ \A b \in Old : Work[b] < Work[Top] /\ Passes(GenOf(b))
    BY Zenon DEF ReasonInv, Switching
  <1>6. MainDifficulty = Work[bl]
    BY <1>0 DEF WorkInv, MainDifficulty
  <1>7. DOMAIN m_checkpoints \subseteq Nat
    BY <1>0, Zenon DEF TypeOK, CheckpointTypeOK
  <1>8. Passes(Height - 1)
    BY <1>0, <1>5, <1>7 DEF Passes
  <1>9. GenOf(bl) = Height - 1
    <2>1. Height \in 2..Height
      BY <1>0
    <2>. QED  BY <1>0, <2>1, Zenon DEF HeadersChecked, HeaderChecked, prevalidate_miner_transaction, GenOf
  <1>10. MainDifficulty' < Work[Top]
    <2>1. /\ m_blocks[Height].cumulative_difficulty =
                m_blocks[Height - 1].cumulative_difficulty + Difficulty[bl]
      <3>1. Height \in 2..Height
        BY <1>0
      <3>. QED  BY <1>0, <3>1, Zenon DEF ChainIndexed
    <2>2. m_blocks[Height - 1].cumulative_difficulty \in Nat
      <3>1. m_blocks \in Seq(BlockEntry) /\ Height - 1 \in 1..Len(m_blocks)
        BY <1>0 DEF TypeOK, ChainTypeOK, Height
      <3>2. m_blocks[Height - 1] \in BlockEntry
        BY <3>1
      <3>. QED  BY <3>2, Zenon DEF BlockEntry
    <2>3. Difficulty[bl] \in Nat /\ Difficulty[bl] > 0
      BY <1>0, BlockAssumption
    <2>4. MainDifficulty' = m_blocks[Height - 1].cumulative_difficulty
      BY <1>0, Zenon DEF MainDifficulty
    <2>. QED  BY <1>5, <2>1, <2>2, <2>3, <2>4 DEF MainDifficulty
  <1>. QED  BY <1>0, <1>1, <1>2, <1>4, <1>5, <1>6, <1>8, <1>9, <1>10, Zenon

\* The chain a switch is begun for has more work, or a checkpoint asks for it.
LEMMA ReasonBegin ==
    ASSUME IInv, ModeInv, WorkInv, PlacesInv, Reorganize
    PROVE  ReasonInv'
  <1>1. /\ pc = "walk" /\ PathHead \notin DOMAIN m_alternative_chains /\ SwitchNeeded
        /\ mode' = "disconnect" /\ disconnected_chain' = <<>> /\ discard' = is_a_checkpoint
        /\ alt_chain' = Append(path, bl) /\ UNCHANGED <<m_blocks, m_checkpoints>>
    BY Zenon DEF Reorganize, chain, env
  <1>2. path \in Seq(Block) /\ bl \in Block
    BY Zenon DEF IInv, TypeOK, ControlTypeOK
  <1>3. Top' = bl /\ Old' = {}
    BY <1>1, <1>2 DEF Top, Old, Range
  <1>4. AltDifficulty = Work[bl]
    BY <1>1, AltEntry, Zenon
  <1>5. is_alternative_block_allowed(Height, GenOf(bl))
    BY <1>1, Zenon DEF PlacesInv, WalkPlace
  <1>6. Passes(Height)'
    <2>1. Height' = Height
      BY <1>1, Zenon DEF Height
    <2>. QED  BY <1>1, <1>3, <1>5, <2>1, Zenon DEF Passes, is_alternative_block_allowed, GenOf
  <1>7. ~discard' => (MainDifficulty < Work[Top])'
    <2>1. MainDifficulty' = MainDifficulty
      BY <1>1, Zenon DEF MainDifficulty, Height
    <2>. QED  BY <1>1, <1>3, <1>4, <2>1, Zenon DEF SwitchNeeded
  <1>. QED  BY <1>1, <1>3, <1>6, <1>7, Zenon DEF ReasonInv

\* Every step keeps the reason of a switch.
LEMMA ReasonInvStep ==
    ASSUME IInv, ModeInv, HeadersChecked, WorkInv, PlacesInv, ReasonInv, [Next]_vars
    PROVE  ReasonInv'
  <1>. USE DEF data, frame, env
  <1>0. TypeOK
    BY Zenon DEF IInv
  <1>1. CASE MainWork
    <2>1. UNCHANGED <<mode, alt_chain, disconnected_chain, discard, m_checkpoints>>
      BY <1>0, <1>1, MainWorkChanges, Zenon
    <2>2. mode # "disconnect"
      <3>1. InMain \/ pc \in {"purge", "purged"}
        BY <1>0, <1>1, MainWorkChanges, Zenon
      <3>. QED  BY <3>1, Zenon DEF InMain, ModeInv
    <2>. QED  BY <2>1, <2>2, ReasonSame, Zenon
  <1>2. CASE PopWork
    <2>1. UNCHANGED <<mode, alt_chain, discard, m_checkpoints>>
      BY <1>0, <1>2, PopWorkChanges, Zenon
    <2>2. CASE PopBlock /\ mode = "disconnect"
      BY <2>2, NewTail, ReasonPop, Zenon DEF Switching
    <2>3. CASE ~(PopBlock /\ mode = "disconnect")
      <3>1. disconnected_chain' = disconnected_chain
        BY <1>0, <1>2, <2>3, PopWorkChanges, Zenon DEF PopBlock
      <3>2. mode = "disconnect" => UNCHANGED m_blocks
        BY <1>0, <1>2, <2>3, PopWorkChanges, Zenon
      <3>. QED  BY <2>1, <3>1, <3>2, ReasonSame, Zenon
    <2>. QED  BY <2>2, <2>3, Zenon
  <1>3. CASE AltStep
    <2>1. CASE Reorganize
      BY <2>1, ReasonBegin, Zenon
    <2>2. CASE ~Reorganize
      <3>1. UNCHANGED <<mode, alt_chain, disconnected_chain, discard, m_checkpoints, m_blocks>>
        BY <1>3, <2>2, Zenon DEF AltStep, AltRefused, AltOrphaned, AltBegin, AltWalk,
           AltHeaderRefused, AddedAsAlternative, chain
      <3>. QED  BY <3>1, ReasonSame, Zenon
    <2>. QED  BY <2>1, <2>2, Zenon
  <1>4. CASE SwitchStep /\ ~Finish
    <2>1. /\ Advances /\ UNCHANGED <<chain, m_checkpoints, alt_chain, disconnected_chain, discard>>
      BY <1>4, SwitchMoves, Zenon
    <2>2. Switching /\ mode' # "disconnect" /\ (mode' = "push" => mode = "push" \/ ~discard)
      BY <2>1, Zenon DEF Advances, DisconnectDone, ConnectNext, ConnectFailed, PushOldChain, PushNext,
       PushFailed, ReconnectFirst, ReconnectNext, ConnectBlock, ReconnectBlock, PushOldBlock,
       Switching
    <2>3. mode' = "push" => ~discard
      BY <2>2, Zenon DEF ReasonInv
    <2>. QED  BY <2>1, <2>2, <2>3, ReasonSame, Zenon DEF chain
  <1>5. CASE Finish \/ Enter
    <2>1. mode' \in {"none", "add", "checkpoint"}
      BY <1>5, Zenon DEF Finish, Enter, add_new_block, CheckpointRollback
    <2>. QED  BY <2>1, Zenon DEF ReasonInv, Switching
  <1>6. CASE Outside \/ UNCHANGED vars
    <2>1. UNCHANGED <<control, chain>>
      BY <1>6, OutsideUnchanged, Zenon DEF vars
    <2>2. pc # "idle" => m_checkpoints' = m_checkpoints
      BY CheckpointsStay, Zenon
    <2>3. CASE pc = "idle"
      <3>1. mode' = "none"
        BY <2>1, <2>3, Zenon DEF ModeInv, control
      <3>. QED  BY <3>1, Zenon DEF ReasonInv, Switching
    <2>4. CASE pc # "idle"
      BY <2>1, <2>2, <2>4, ReasonSame, Zenon DEF control, chain
    <2>. QED  BY <2>3, <2>4, Zenon
  <1>7. Leave => Finish
    BY Zenon DEF Leave, ReturnFromAdd, CheckpointRollbackDone
  <1>. QED  BY <1>1, <1>2, <1>3, <1>4, <1>5, <1>6, <1>7, NextWork, Zenon

\* A disconnected block that handle_alternative_block lets in has less work than
\* the chain that replaced it, and there is no checkpoint at its height.
LEMMA NoPointThere ==
    ASSUME IInv, ModeInv, HeadersChecked, WorkInv, PlacesInv, ReasonInv, pc = "walk", mode = "push"
    PROVE  /\ Work[bl] < Work[Top] /\ Work[Top] \in Nat /\ MainDifficulty = Work[Top]
           /\ GenOf(bl) \notin DOMAIN m_checkpoints
  <1>0. /\ TypeOK /\ ChainIndexed /\ Height \in Nat /\ Height > 0 /\ bl \in Block
        /\ DOMAIN m_checkpoints \subseteq Nat /\ disconnected_chain \in Seq(Block)
    BY LedgerTypes, Zenon DEF IInv, ChainIndexed, TypeOK, ControlTypeOK, CheckpointTypeOK
  <1>2. Switching /\ ~discard
    BY Zenon DEF ReasonInv, Switching
  <1>3. Top \in Alt /\ Work[Top] \in Nat
    BY <1>2, NewTail, Zenon
  <1>4. get_tail_id = Top /\ bl \in Old
    BY Zenon DEF PlacesInv, PushPlace, Old, Range
  <1>5. Work[bl] < Work[Top] /\ Passes(GenOf(bl))
    BY <1>2, <1>4, Zenon DEF ReasonInv
  <1>6. MainDifficulty = Work[Top]
    BY <1>0, <1>4 DEF WorkInv, MainDifficulty, get_tail_id
  <1>7. Height > 1
    <2>1. Top # Genesis
      BY <1>3, Zenon DEF PlacesInv
    <2>. QED  BY <1>0, <1>4, <2>1 DEF ChainIndexed, get_tail_id
  <1>8. GenOf(Top) = Height - 1
    <2>1. Height \in 2..Height
      BY <1>0, <1>7
    <2>. QED  BY <1>4, <2>1, Zenon DEF HeadersChecked, HeaderChecked, prevalidate_miner_transaction, GenOf,
                 get_tail_id
  <1>9. ASSUME GenOf(bl) \in DOMAIN m_checkpoints PROVE FALSE
    <2>1. GenOf(bl) \in Nat
      BY <1>0, <1>9, Zenon
    <2>2. GenOf(bl) < GenOf(Top)
      BY <1>5, <1>9, <2>1 DEF Passes
    <2>3. GenOf(bl) <= Height
      BY <1>0, <1>8, <2>1, <2>2
    <2>4. is_alternative_block_allowed(Height, GenOf(bl))
      BY Zenon DEF PlacesInv, WalkPlace
    <2>5. GenOf(bl) < GenOf(bl)
      BY <1>9, <2>3, <2>4, Zenon DEF is_alternative_block_allowed
    <2>. QED  BY <2>1, <2>5
  <1>. QED  BY <1>3, <1>5, <1>6, <1>9, Zenon

\* Putting a disconnected block back as an alternative block does not ask for
\* another switch.
LEMMA NestedExcluded ==
    ASSUME IInv, ModeInv, HeadersChecked, WorkInv, PlacesInv, ReasonInv
    PROVE  NoNestedReorg
  <1>. SUFFICES ASSUME pc = "walk", mode = "push", PathHead \notin DOMAIN m_alternative_chains,
                       AltHeaderOk
                PROVE  ~SwitchNeeded
    BY Zenon DEF NoNestedReorg
  <1>1. AltDifficulty = Work[bl] /\ AltDifficulty \in Nat
    BY AltEntry, Zenon
  <1>2. Work[bl] < Work[Top] /\ Work[Top] \in Nat /\ MainDifficulty = Work[Top]
    BY NoPointThere, Zenon
  <1>3. ~is_a_checkpoint
    BY NoPointThere, Zenon DEF AltHeaderOk, prevalidate_miner_transaction, GenOf, is_a_checkpoint
  <1>. QED  BY <1>1, <1>2, <1>3 DEF SwitchNeeded

-----------------------------------------------------------------------------
(* Taking the main chain apart and putting it together again.              *)

\* During a switch the chain it started from is still all there.
LEMMA OldChainSame ==
    ASSUME IInv, ModeInv, HeightInv, [Next]_vars, Switching, Switching'
    PROVE  OldChain' = OldChain
  <1>0. /\ TypeOK /\ ControlInv /\ ChainIndexed /\ Height \in Nat /\ split_height \in Nat
        /\ disconnected_chain \in Seq(Block) /\ Len(disconnected_chain) \in Nat
    BY LedgerTypes DEF IInv, TypeOK, ControlTypeOK
  <1>1. split_height \in 1..Height
    BY Zenon DEF HeightInv
  <1>2. CASE PopBlock /\ mode = "disconnect" /\ UNCHANGED mode
             /\ disconnected_chain' = <<bl>> \o disconnected_chain
    <2>1. /\ Height' = Height - 1 /\ Height > 1 /\ bl = m_blocks[Height].id
          /\ \A i \in 1..(Height - 1) : m_blocks'[i] = m_blocks[i]
      BY <1>0, <1>2, BlocksChanged, Zenon DEF PopBlock, PushBlock
    <2>2. bl \in Block
      BY <1>0, Zenon DEF TypeOK, ControlTypeOK
    <2>3. /\ Len(disconnected_chain') = Len(disconnected_chain) + 1
          /\ disconnected_chain'[1] = bl
          /\ \A i \in 2..(Len(disconnected_chain) + 1) : disconnected_chain'[i] = disconnected_chain[i - 1]
      BY <1>0, <1>2, <2>2
    <2>4. Kept = Height /\ Kept' = Height - 1
      BY <1>2, <2>1, Zenon DEF Kept
    <2>5. Kept' + Len(disconnected_chain') = Kept + Len(disconnected_chain)
      BY <1>0, <2>3, <2>4
    <2>6. ASSUME NEW i \in 1..(Kept + Len(disconnected_chain))
          PROVE  (IF i <= Kept' THEN m_blocks'[i].id ELSE disconnected_chain'[i - Kept'])
                    = (IF i <= Kept THEN m_blocks[i].id ELSE disconnected_chain[i - Kept])
      <3>1. CASE i <= Height - 1
        BY <1>0, <2>1, <2>4, <3>1
      <3>2. CASE i = Height
        BY <1>0, <2>1, <2>3, <2>4, <3>2
      <3>3. CASE i > Height
        <4>1. i - (Height - 1) \in 2..(Len(disconnected_chain) + 1) /\ i - (Height - 1) - 1 = i - Height
          BY <1>0, <2>4, <3>3
        <4>2. disconnected_chain'[i - (Height - 1)] = disconnected_chain[i - Height]
          BY <2>3, <4>1, Zenon
        <4>. QED  BY <1>0, <2>4, <3>3, <4>2
      <3>. QED  BY <1>0, <2>4, <3>1, <3>2, <3>3
    <2>. QED  BY <2>5, <2>6, Zenon DEF OldChain
  <1>3. ASSUME Kept' = Kept, Kept \in Nat, disconnected_chain' = disconnected_chain,
               \A i \in 1..Kept : m_blocks'[i] = m_blocks[i]
        PROVE  OldChain' = OldChain
    <2>1. ASSUME NEW i \in 1..(Kept + Len(disconnected_chain))
          PROVE  (IF i <= Kept THEN m_blocks'[i].id ELSE disconnected_chain[i - Kept])
                    = (IF i <= Kept THEN m_blocks[i].id ELSE disconnected_chain[i - Kept])
      BY <1>0, <1>3
    <2>. QED  BY <1>3, <2>1, Zenon DEF OldChain
  <1>4. CASE Advances /\ UNCHANGED <<chain, disconnected_chain, split_height>>
    <2>1. m_blocks' = m_blocks /\ Height' = Height
      BY <1>4, Zenon DEF chain, Height
    <2>2. \/ mode = "disconnect" /\ mode' = "connect" /\ Height <= split_height
          \/ mode # "disconnect" /\ mode' # "disconnect"
      BY <1>4, Zenon DEF Advances, DisconnectDone, ConnectNext, ConnectFailed, PushOldChain, PushNext,
         PushFailed, ReconnectFirst, ReconnectNext
    <2>3. Kept' = Kept /\ Kept \in Nat
      BY <1>0, <1>1, <1>4, <2>1, <2>2 DEF Kept
    <2>. QED  BY <1>3, <1>4, <2>1, <2>3, Zenon
  <1>5. CASE UNCHANGED <<mode, disconnected_chain, split_height>> /\ (PopBlock => mode # "disconnect")
    <2>1. CASE mode = "disconnect"
      <3>1. ~PushBlock
        BY <2>1, Zenon DEF ModeInv, PushBlock
      <3>2. m_blocks' = m_blocks /\ Height' = Height
        BY <1>0, <1>5, <2>1, <3>1, BlocksChanged, Zenon
      <3>3. Kept' = Kept /\ Kept \in Nat
        BY <1>0, <1>5, <2>1, <3>2, Zenon DEF Kept
      <3>. QED  BY <1>3, <1>5, <3>2, <3>3, Zenon
    <2>2. CASE mode # "disconnect"
      <3>1. Kept' = Kept /\ Kept = split_height
        BY <1>5, <2>2, Zenon DEF Kept
      <3>2. PopBlock => split_height < Height
        BY Zenon DEF PopBlock, HeightInv
      <3>3. \A i \in 1..split_height : m_blocks'[i] = m_blocks[i]
        BY <1>0, <1>1, <3>2, BlocksChanged
      <3>. QED  BY <1>0, <1>3, <1>5, <3>1, <3>3, Zenon
    <2>. QED  BY <2>1, <2>2, Zenon
  <1>6. ~Ends /\ ~Reorganize /\ ~(pc = "idle" /\ mode' \in {"add", "checkpoint"})
    BY Zenon DEF Ends, Reorganize, Switching
  <1>. QED  BY <1>2, <1>4, <1>5, <1>6, SwitchCases, Zenon

\* The transactions of a whole block are where its branch puts them.
LEMMA StoredAt ==
    ASSUME IInv, LedgerInv, AcceptInv, ~pool_refused, NEW i \in 1..Whole,
           NEW q \in Slots(m_blocks[i].id)
    PROVE  LET t == TxAt(m_blocks[i].id, q) IN
           /\ t \in DOMAIN m_transactions /\ KeeperOf(t) = i - 1
           /\ IndexOf(t) = FirstIndex[m_blocks[i].id] + q
           /\ IndexOf(t) \in Nat /\ FirstIndex[m_blocks[i].id] \in Nat
  <1>. DEFINE b == m_blocks[i].id
  <1>0. /\ TypeOK /\ ControlInv /\ ChainIndexed /\ BlocksStored /\ BlocksPlaced
    BY Zenon DEF IInv, LedgerInv, AcceptInv
  <1>1. /\ Whole \in 1..Height /\ Height \in Nat
        /\ \A t \in DOMAIN m_transactions : IndexOf(t) \in Nat
    BY <1>0, LedgerTypes, Zenon
  <1>6. b \in Block /\ Len(TxHashes[b]) \in Nat
    BY <1>0, <1>1, LedgerTypes
  <1>2. Stored(m_transactions, b, i - 1, Len(TxHashes[b])) /\ IndexOf(MinerTx[b]) = FirstIndex[b]
    BY <1>0, Zenon DEF BlocksStored, BlocksPlaced
  <1>. HIDE DEF b
  <1>3. MinerTx[b] \in DOMAIN m_transactions /\ FirstIndex[b] \in Nat
    BY <1>1, <1>2, Zenon DEF Stored
  <1>4. CASE q = 0
    <2>1. KeeperOf(MinerTx[b]) = i - 1
      BY <1>2, Zenon DEF Stored, KeeperOf
    <2>2. IndexOf(MinerTx[b]) = FirstIndex[b] + q
      BY <1>2, <1>3, <1>4
    <2>. QED  BY <1>1, <1>3, <1>4, <2>1, <2>2, Zenon DEF TxAt, b
  <1>5. CASE q # 0
    <2>1. q \in 1..Len(TxHashes[b])
      BY <1>5, <1>6 DEF Slots, b
    <2>2. /\ TxHashes[b][q] \in DOMAIN m_transactions /\ KeeperOf(TxHashes[b][q]) = i - 1
          /\ IndexOf(TxHashes[b][q]) = FirstIndex[b] + q
      BY <1>2, <2>1, Zenon DEF Stored, KeeperOf, IndexOf
    <2>. QED  BY <1>1, <1>3, <1>5, <2>2, Zenon DEF TxAt, b
  <1>. QED  BY <1>4, <1>5, Zenon

\* The transactions of a block are those in its slots.
LEMMA SlotOf ==
    ASSUME NEW b \in Block, NEW t \in BlockTxs(b)
    PROVE  \E q \in Slots(b) : t = TxAt(b, q)
  <1>1. TxHashes[b] \in Seq(Tx) /\ Len(TxHashes[b]) \in Nat
    BY BlockAssumption
  <1>2. CASE t = MinerTx[b]
    <2>1. 0 \in Slots(b) /\ t = TxAt(b, 0)
      BY <1>1, <1>2 DEF Slots, TxAt
    <2>. QED  BY <2>1, Zenon
  <1>3. CASE t # MinerTx[b]
    <2>1. PICK q \in DOMAIN TxHashes[b] : t = TxHashes[b][q]
      BY <1>3, Zenon DEF BlockTxs, Range
    <2>2. q \in Slots(b) /\ q # 0
      BY <1>1 DEF Slots
    <2>. QED  BY <2>1, <2>2, Zenon DEF TxAt
  <1>. QED  BY <1>2, <1>3, Zenon

\* Whether the blocks can be added depends on nothing else that changes.
LEMMA AcceptableKept ==
    ASSUME NEW c, Acceptable(c), OldChain' = c, early' = early
    PROVE  Acceptable(OldChain)'
  <1>1. OneAfterTheOther(OldChain)'
    BY Zenon DEF Acceptable, OneAfterTheOther, HeaderChecked, prevalidate_miner_transaction
  <1>2. NoTxTwice(OldChain)'
    BY DEF Acceptable, NoTxTwice
  <1>3. RingsBelow(OldChain)'
    BY Zenon DEF Acceptable, RingsBelow, RingBelow
  <1>. QED  BY <1>1, <1>2, <1>3, Zenon DEF Acceptable

\* The main chain a switch starts from.
LEMMA ReorgAcceptable ==
    ASSUME IInv, LedgerInv, AcceptInv, Reorganize, [Next]_vars, ~pool_refused
    PROVE  Acceptable(OldChain)'
  <1>. DEFINE c == [i \in 1..Height |-> m_blocks[i].id]
  <1>0. /\ TypeOK /\ ControlInv /\ ChainIndexed /\ NothingElse /\ RingsChecked /\ HeadersChecked
        /\ Height \in Nat
    BY LedgerTypes, Zenon DEF IInv, LedgerInv, AcceptInv
  <1>1. /\ mode' = "disconnect" /\ disconnected_chain' = <<>> /\ m_blocks' = m_blocks
        /\ Height' = Height /\ pc = "walk"
    BY Zenon DEF Reorganize, chain, Height
  <1>2. Whole = Height /\ ~Partial
    BY <1>1, Zenon DEF Whole, Partial
  <1>3. DOMAIN c = 1..Height /\ \A i \in 1..Height : c[i] = m_blocks[i].id
    OBVIOUS
  <1>4. early' = early
    BY <1>1, EarlyShrinks, Zenon
  <1>12. OldChain' = c
    <2>1. Kept' = Height /\ Len(disconnected_chain') = 0
      BY <1>1, Zenon DEF Kept
    <2>. QED  BY <1>0, <1>1, <2>1 DEF OldChain
  <1>11. \A i \in 1..Height : m_blocks[i].id \in Block
    BY <1>0, LedgerTypes, Zenon
  <1>. HIDE DEF c
  <1>5. OneAfterTheOther(c)
    <2>. SUFFICES ASSUME NEW i \in 2..Height
                  PROVE  /\ PrevId[c[i]] = c[i - 1] /\ c[i] \in RewardOk
                         /\ HeaderChecked(c[i], i - 1)
      <3>1. \A i \in DOMAIN c \ {1} : i \in 2..Height
        BY <1>0, <1>3
      <3>. QED  BY <3>1, Zenon DEF OneAfterTheOther
    <2>1. i \in 1..Height /\ i - 1 \in 1..Height
      BY <1>0
    <2>2. c[i] = m_blocks[i].id /\ c[i - 1] = m_blocks[i - 1].id
      BY <1>3, <2>1, Zenon
    <2>3. HeaderChecked(m_blocks[i].id, i - 1) /\ m_blocks[i].id \in RewardOk
      BY <1>0, Zenon DEF HeadersChecked
    <2>4. PrevId[m_blocks[i].id] = m_blocks[i - 1].id
      BY <1>0, Zenon DEF ChainIndexed
    <2>. QED  BY <2>2, <2>3, <2>4, Zenon
  <1>6. \A i \in 1..Height : \A q \in Slots(c[i]) :
          /\ TxAt(c[i], q) \in DOMAIN m_transactions /\ KeeperOf(TxAt(c[i], q)) = i - 1
          /\ IndexOf(TxAt(c[i], q)) = FirstIndex[c[i]] + q
          /\ IndexOf(TxAt(c[i], q)) \in Nat /\ FirstIndex[c[i]] \in Nat /\ q \in Nat
    BY <1>2, <1>3, StoredAt DEF Slots
  <1>7. NoTxTwice(c)
    <2>. SUFFICES ASSUME NEW i \in 1..Height, NEW h \in 1..Height, NEW q \in Slots(c[i]),
                         NEW p \in Slots(c[h]), ~(i = h /\ q = p)
                  PROVE  /\ TxAt(c[i], q) # TxAt(c[h], p)
                         /\ KeyImages(TxAt(c[i], q)) \cap KeyImages(TxAt(c[h], p)) = {}
      BY <1>3, Zenon DEF NoTxTwice
    <2>1. TxAt(c[i], q) # TxAt(c[h], p)
      <3>1. CASE i # h
        <4>1. KeeperOf(TxAt(c[i], q)) = i - 1 /\ KeeperOf(TxAt(c[h], p)) = h - 1
          BY <1>6, Zenon
        <4>. QED  BY <3>1, <4>1
      <3>2. CASE i = h
        <4>1. /\ IndexOf(TxAt(c[i], q)) = FirstIndex[c[i]] + q /\ FirstIndex[c[i]] \in Nat
              /\ IndexOf(TxAt(c[i], p)) = FirstIndex[c[i]] + p /\ q \in Nat /\ p \in Nat
          BY <1>6, <3>2, Zenon
        <4>. QED  BY <3>2, <4>1
      <3>. QED  BY <3>1, <3>2, Zenon
    <2>2. TxAt(c[i], q) \in DOMAIN m_transactions /\ TxAt(c[h], p) \in DOMAIN m_transactions
      BY <1>6, Zenon
    <2>. QED  BY <2>1, <2>2, Zenon DEF IInv, NoDoubleSpend, ImagesDisjoint
  <1>8. RingsBelow(c)
    <2>. SUFFICES ASSUME NEW i \in 1..Height, NEW q \in 1..Len(TxHashes[c[i]]),
                         NEW ref \in Ring[TxHashes[c[i]][q]]
                  PROVE  RingBelow(c, i, q, ref)
      BY <1>3, Zenon DEF RingsBelow
    <2>. DEFINE t == TxHashes[c[i]][q]
    <2>1. c[i] \in Block
      BY <1>3, <1>11, Zenon
    <2>2. TxHashes[c[i]] \in Seq(Tx) /\ t \in Tx /\ q \in Nat /\ q # 0
      BY <2>1, BlockAssumption
    <2>3. q \in Slots(c[i]) /\ TxAt(c[i], q) = t
      BY <2>2 DEF Slots, TxAt
    <2>4. /\ t \in DOMAIN m_transactions /\ KeeperOf(t) = i - 1
          /\ IndexOf(t) = FirstIndex[c[i]] + q /\ FirstIndex[c[i]] \in Nat
      BY <1>6, <2>3, Zenon
    <2>5. /\ ref[2] \in DOMAIN m_transactions /\ IndexOf(ref[2]) = ref[1]
          /\ IndexOf(ref[2]) < IndexOf(t) /\ KeeperOf(ref[2]) <= KeeperOf(t)
          /\ KeeperOf(t) - 1 + DeltaBlocks >= UnlockTime[ref[2]]
      BY <1>0, <2>2, <2>4, Zenon DEF RingsChecked
    <2>. HIDE DEF t
    <2>6. /\ KeeperOf(ref[2]) \in 0..(Height - 1)
          /\ ref[2] \in BlockTxs(m_blocks[KeeperOf(ref[2]) + 1].id)
      BY <1>0, <1>2, <2>5, Zenon DEF NothingElse
    <2>. DEFINE h == KeeperOf(ref[2]) + 1
    <2>7. h \in 1..Height /\ h \in 1..i
      BY <1>0, <2>4, <2>5, <2>6
    <2>8. c[h] = m_blocks[h].id /\ c[h] \in Block /\ ref[2] \in BlockTxs(c[h])
      BY <1>3, <1>11, <2>6, <2>7, Zenon
    <2>. HIDE DEF h
    <2>9. PICK p \in Slots(c[h]) : ref[2] = TxAt(c[h], p)
      BY <2>8, SlotOf, Zenon
    <2>10. /\ IndexOf(ref[2]) = FirstIndex[c[h]] + p /\ FirstIndex[c[h]] \in Nat /\ p \in Nat
      BY <1>6, <2>7, <2>9, Zenon
    <2>11. h < i \/ p < q
      <3>1. CASE h = i
        BY <2>2, <2>4, <2>5, <2>10, <3>1
      <3>. QED  BY <2>7, <3>1
    <2>12. i - 1 - 1 + DeltaBlocks >= UnlockTime[ref[2]]
      BY <2>4, <2>5, Zenon
    <2>. QED  BY <2>5, <2>7, <2>9, <2>10, <2>11, <2>12, Zenon DEF RingBelow
  <1>. QED  BY <1>4, <1>5, <1>7, <1>8, <1>12, AcceptableKept, Zenon DEF Acceptable

\* Nothing leaves the pool but for the ledger while the block thread has its lock.
LEMMA TxsStay ==
    ASSUME TypeOK, ModeInv, [Next]_vars, Switching, NEW b \in Block, TxsKept(b)
    PROVE  TxsKept(b)'
  <1>1. ASSUME NEW t \in Range(TxHashes[b])
        PROVE  t \in DOMAIN m_transactions' \cup DOMAIN pool'
    <2>1. TxHashes[b] \in Seq(Tx)
      BY BlockAssumption, Zenon
    <2>2. t \in Tx
      BY <2>1 DEF Range
    <2>3. t \in DOMAIN m_transactions \cup DOMAIN pool
      BY Zenon DEF TxsKept
    <2>4. ~remove_stuck_transactions(t)
      BY Zenon DEF remove_stuck_transactions, PoolUnlocked, Switching, ModeInv
    <2>. QED  BY <2>2, <2>3, <2>4, NoTxLostStep, Zenon
  <1>. QED  BY <1>1, Zenon DEF TxsKept

\* No step of a switch loses the chain it started from: a block leaves the main
\* chain into disconnected_chain, and its transactions go into the pool.
LEMMA OldChainStep ==
    ASSUME IInv, LedgerInv, AcceptInv, ModeInv, HeightInv, OldChainInv, [Next]_vars
    PROVE  OldChainInv'
  <1>. SUFFICES ASSUME Switching', ~pool_refused'
                PROVE  /\ Acceptable(OldChain)'
                       /\ \A i \in DOMAIN disconnected_chain' : TxsKept(disconnected_chain[i])'
                       /\ mode' = "disconnect" /\ pc' \in {"popping", "popped"} => TxsKept(bl)'
    BY Zenon DEF OldChainInv
  <1>0. /\ TypeOK /\ ControlInv /\ ChainIndexed /\ ~pool_refused /\ bl \in Block
        /\ disconnected_chain \in Seq(Block)
    BY RefusedStays, Zenon DEF IInv, TypeOK, ControlTypeOK
  <1>1. CASE Reorganize
    <2>1. disconnected_chain' = <<>> /\ pc' = "pop"
      BY <1>1, Zenon DEF Reorganize
    <2>. QED  BY <1>0, <1>1, <2>1, ReorgAcceptable
  <1>2. CASE ~Reorganize
    <2>1. Switching
      <3>1. ~Ends /\ mode' \notin {"add", "checkpoint"}
        BY Zenon DEF Ends, Switching
      <3>2. Advances => Switching
        BY Zenon DEF Switching, Advances, DisconnectDone, ConnectNext, ConnectFailed, PushOldChain, PushNext,
           PushFailed, ReconnectFirst, ReconnectNext
      <3>. QED  BY <1>2, <3>1, <3>2, SwitchCases, Zenon DEF Switching
    <2>2. Acceptable(OldChain)'
      <3>1. OldChain' = OldChain
        BY <2>1, OldChainSame, Zenon
      <3>2. early' = early
        BY <2>1, EarlyShrinks, Zenon DEF ModeInv, Switching
      <3>. QED  BY <1>0, <2>1, <3>1, <3>2, AcceptableKept, Zenon DEF OldChainInv
    <2>3. \A b \in Block : TxsKept(b) => TxsKept(b)'
      BY <1>0, <2>1, TxsStay, Zenon
    <2>4. ASSUME NEW i \in DOMAIN disconnected_chain'
          PROVE  disconnected_chain'[i] \in Block /\ TxsKept(disconnected_chain'[i])
      <3>1. CASE disconnected_chain' = disconnected_chain
        BY <1>0, <2>1, <3>1 DEF OldChainInv
      <3>2. CASE PopBlock /\ mode = "disconnect" /\ disconnected_chain' = <<bl>> \o disconnected_chain
        <4>1. TxsKept(bl)
          BY <1>0, <2>1, <3>2, Zenon DEF OldChainInv, PopBlock
        <4>2. i = 1 \/ (i - 1 \in DOMAIN disconnected_chain /\ disconnected_chain'[i] = disconnected_chain[i - 1])
          BY <1>0, <3>2
        <4>3. i = 1 => disconnected_chain'[i] = bl
          BY <1>0, <3>2
        <4>. QED  BY <1>0, <2>1, <4>1, <4>2, <4>3 DEF OldChainInv
      <3>3. ~Ends /\ mode' \notin {"add", "checkpoint"}
        BY Zenon DEF Ends, Switching
      <3>. QED  BY <1>2, <3>1, <3>2, <3>3, SwitchCases, Zenon
    <2>5. \A i \in DOMAIN disconnected_chain' : TxsKept(disconnected_chain[i])'
      BY <2>3, <2>4, Zenon DEF TxsKept
    <2>6. ASSUME mode' = "disconnect", pc' \in {"popping", "popped"} PROVE TxsKept(bl)'
      <3>1. mode = "disconnect"
        <4>1. ~Ends /\ mode' \notin {"add", "checkpoint"}
          BY Zenon DEF Ends, Switching
        <4>2. Advances => mode' # "disconnect"
          BY Zenon DEF Switching, Advances, DisconnectDone, ConnectNext, ConnectFailed, PushOldChain, PushNext,
             PushFailed, ReconnectFirst, ReconnectNext
        <4>. QED  BY <1>2, <2>6, <4>1, <4>2, SwitchCases, Zenon
      <3>2. CASE PopNext
        <4>1. /\ bl' = m_blocks[Height].id /\ m_transactions' = m_transactions /\ pc = "pop"
          BY <3>2, Zenon DEF PopNext, data, chain, get_tail_id
        <4>2. Whole = Height /\ Height \in 1..Height /\ m_blocks[Height].id \in Block
          BY <1>0, <4>1, LedgerTypes, Zenon DEF Whole
        <4>3. Stored(m_transactions, bl', Height - 1, Len(TxHashes[bl']))
          BY <1>0, <4>1, <4>2, Zenon DEF LedgerInv, BlocksStored
        <4>4. DOMAIN TxHashes[bl'] = 1..Len(TxHashes[bl'])
          BY <4>1, <4>2, BlockAssumption
        <4>5. \A q \in 1..Len(TxHashes[bl']) : TxHashes[bl'][q] \in DOMAIN m_transactions
          BY <4>3, Zenon DEF Stored
        <4>. QED  BY <4>1, <4>4, <4>5, Zenon DEF TxsKept, Range
      <3>3. CASE pc \in {"popping", "popped"} /\ bl' = bl
        BY <1>0, <2>1, <2>3, <3>1, <3>3, Zenon DEF OldChainInv, TxsKept
      <3>. QED  BY <1>0, <2>6, <3>2, <3>3, PoppingReached, Zenon
    <2>. QED  BY <2>2, <2>5, <2>6, Zenon
  <1>. QED  BY <1>1, <1>2, Zenon

-----------------------------------------------------------------------------
\* What the steps of a rollback rely on.
Reconnecting ==
    /\ IInv /\ LedgerInv /\ AcceptInv /\ ModeInv /\ HeightInv /\ OldChainInv /\ RestoreInv
    /\ mode \in {"undo", "restore"} /\ ~Exempt /\ pc \in {"main", "txs"}

\* The main chain is the chain to go back to, below bl, and bl is its next block.
LEMMA ReconnectAt ==
    ASSUME Reconnecting
    PROVE  /\ \A i \in 1..Height : i \in DOMAIN OldChain /\ OldChain[i] = m_blocks[i].id
           /\ Height + 1 \in DOMAIN OldChain /\ OldChain[Height + 1] = bl
           /\ Height \in Nat /\ Height >= 1 /\ bl \in Block
           /\ Acceptable(OldChain) /\ TxsKept(bl) /\ check_block(Height, bl)
           /\ ~pool_refused /\ Whole = Height /\ (Partial <=> pc = "txs")
  <1>0. /\ TypeOK /\ Height \in Nat /\ split_height \in Nat /\ bl \in Block /\ j \in Nat
        /\ disconnected_chain \in Seq(Block) /\ Len(disconnected_chain) \in Nat
    BY LedgerTypes DEF Reconnecting, IInv, TypeOK, ControlTypeOK
  <1>1. /\ split_height \in 1..Height /\ ~pool_refused /\ Switching /\ Kept = split_height
    BY Zenon DEF Reconnecting, Exempt, HeightInv, Switching, Kept
  <1>2. /\ bl = disconnected_chain[j] /\ j \in DOMAIN disconnected_chain
        /\ Height = split_height + (j - 1)
        /\ \A i \in 1..(j - 1) : m_blocks[split_height + i].id = disconnected_chain[i]
    BY Zenon DEF Reconnecting, RestoreInv, Reconnected
  <1>3. j \in 1..Len(disconnected_chain)
    BY <1>0, <1>2
  <1>4. DOMAIN OldChain = 1..(split_height + Len(disconnected_chain))
    BY <1>1, Zenon DEF OldChain
  <1>5. ASSUME NEW i \in 1..Height PROVE i \in DOMAIN OldChain /\ OldChain[i] = m_blocks[i].id
    <2>1. i \in DOMAIN OldChain
      BY <1>0, <1>2, <1>3, <1>4
    <2>2. CASE i <= split_height
      BY <1>1, <2>1, <2>2, <1>4, Zenon DEF OldChain
    <2>3. CASE i > split_height
      <3>1. OldChain[i] = disconnected_chain[i - split_height]
        BY <1>0, <1>1, <1>4, <2>1, <2>3 DEF OldChain
      <3>2. i - split_height \in 1..(j - 1) /\ split_height + (i - split_height) = i
        BY <1>0, <1>2, <2>3
      <3>3. m_blocks[split_height + (i - split_height)].id = disconnected_chain[i - split_height]
        BY <1>2, <3>2, Zenon
      <3>. QED  BY <2>1, <3>1, <3>2, <3>3, Zenon
    <2>. QED  BY <1>0, <2>2, <2>3
  <1>6. Height + 1 \in DOMAIN OldChain /\ OldChain[Height + 1] = bl
    <2>1. /\ Height + 1 \in 1..(split_height + Len(disconnected_chain))
          /\ ~(Height + 1 <= split_height) /\ Height + 1 - split_height = j
      BY <1>0, <1>1, <1>2, <1>3
    <2>. QED  BY <1>1, <1>2, <1>4, <2>1 DEF OldChain
  <1>7. check_block(Height, bl)
    <2>1. split_height + j - 1 = Height
      BY <1>0, <1>2, Zenon
    <2>. QED  BY <1>2, <2>1, Zenon DEF Reconnecting, Exempt
  <1>8. Acceptable(OldChain) /\ TxsKept(bl)
    BY <1>1, <1>2, Zenon DEF Reconnecting, OldChainInv
  <1>9. Whole = Height /\ (Partial <=> pc = "txs")
    BY Zenon DEF Reconnecting, Whole, Partial
  <1>. QED  BY <1>0, <1>1, <1>5, <1>6, <1>7, <1>8, <1>9

\* What is still to be added of bl is not stored, and spends nothing that is spent.
LEMMA NotStoredYet ==
    ASSUME Reconnecting, NEW q \in Slots(bl), pc = "main" \/ q > n,
           NEW u \in DOMAIN m_transactions
    PROVE  u # TxAt(bl, q) /\ KeyImages(u) \cap KeyImages(TxAt(bl, q)) = {}
  <1>0. /\ \A i \in 1..Height : i \in DOMAIN OldChain /\ OldChain[i] = m_blocks[i].id
        /\ Height + 1 \in DOMAIN OldChain /\ OldChain[Height + 1] = bl
        /\ Height \in Nat /\ bl \in Block /\ NoTxTwice(OldChain)
        /\ ~pool_refused /\ Whole = Height /\ (Partial <=> pc = "txs")
    BY ReconnectAt, Zenon DEF Acceptable
  <1>1. /\ NothingElse /\ n \in Nat /\ \A i \in 1..Height : m_blocks[i].id \in Block
    BY <1>0, LedgerTypes, Zenon DEF Reconnecting, LedgerInv, IInv
  <1>2. CASE KeeperOf(u) \in 0..(Whole - 1) /\ u \in BlockTxs(m_blocks[KeeperOf(u) + 1].id)
    <2>. DEFINE i == KeeperOf(u) + 1
    <2>1. i \in 1..Height
      BY <1>0, <1>2
    <2>2. PICK p \in Slots(m_blocks[i].id) : u = TxAt(m_blocks[i].id, p)
      BY <1>1, <1>2, <2>1, SlotOf, Zenon
    <2>. HIDE DEF i
    <2>3. i # Height + 1 /\ i \in DOMAIN OldChain /\ OldChain[i] = m_blocks[i].id
      BY <1>0, <2>1
    <2>. QED  BY <1>0, <2>2, <2>3, Zenon DEF NoTxTwice
  <1>3. CASE Partial /\ u \in Processed
    <2>1. PICK p \in 0..n : u = TxAt(bl, p)
      <3>1. CASE u = MinerTx[bl]
        <4>1. 0 \in 0..n /\ u = TxAt(bl, 0)
          BY <1>1, <3>1 DEF TxAt
        <4>. QED  BY <4>1, Zenon
      <3>2. CASE u # MinerTx[bl]
        <4>1. PICK i \in 1..n : u = TxHashes[bl][i]
          BY <1>3, <3>2, Zenon DEF Processed
        <4>2. i \in 0..n /\ i # 0
          BY <1>1
        <4>. QED  BY <4>1, <4>2, Zenon DEF TxAt
      <3>. QED  BY <3>1, <3>2, Zenon
    <2>2. p # q /\ p \in Slots(bl)
      <3>1. n <= Len(TxHashes[bl]) /\ q > n /\ Len(TxHashes[bl]) \in Nat
        BY <1>0, <1>3, BlockAssumption DEF Reconnecting, IInv, TypeOK, ControlTypeOK
      <3>. QED  BY <1>1, <3>1 DEF Slots
    <2>. QED  BY <1>0, <2>1, <2>2, Zenon DEF NoTxTwice
  <1>. QED  BY <1>1, <1>2, <1>3, Zenon DEF NothingElse

\* handle_block_to_main_chain does not refuse the header of a block it goes back to.
LEMMA HeaderAcceptedAgain ==
    ASSUME Reconnecting, pc = "main"
    PROVE  MainHeaderOk(bl) /\ CanAdd(MinerTx[bl])
  <1>0. /\ \A i \in 1..Height : i \in DOMAIN OldChain /\ OldChain[i] = m_blocks[i].id
        /\ Height + 1 \in DOMAIN OldChain /\ OldChain[Height + 1] = bl
        /\ Height \in Nat /\ Height >= 1 /\ bl \in Block
        /\ OneAfterTheOther(OldChain) /\ check_block(Height, bl)
    BY ReconnectAt, Zenon DEF Acceptable
  <1>1. Height + 1 # 1 /\ Height + 1 - 1 = Height /\ Height \in 1..Height
    BY <1>0
  <1>2. PrevId[bl] = m_blocks[Height].id /\ HeaderChecked(bl, Height)
    BY <1>0, <1>1 DEF OneAfterTheOther
  <1>3. MainHeaderOk(bl)
    BY <1>0, <1>2, Zenon DEF MainHeaderOk, HeaderChecked, get_tail_id
  <1>4. 0 \in Slots(bl) /\ TxAt(bl, 0) = MinerTx[bl]
    BY <1>0, BlockAssumption DEF Slots, TxAt
  <1>5. MinerTx[bl] \notin DOMAIN m_transactions
    BY <1>4, NotStoredYet, Zenon
  <1>6. KeyImages(MinerTx[bl]) = {}
    BY <1>0, BlockAssumption DEF KeyImages, Coinbase
  <1>. QED  BY <1>3, <1>5, <1>6, Zenon DEF CanAdd, KeyImageCollision

\* The next transaction of the block is in the pool and passes its checks again.
LEMMA TxAcceptedAgain ==
    ASSUME Reconnecting, pc = "txs", n < Len(TxHashes[bl])
    PROVE  NextTx \in DOMAIN pool /\ check_tx_inputs(NextTx)
  <1>0. /\ \A i \in 1..Height : i \in DOMAIN OldChain /\ OldChain[i] = m_blocks[i].id
        /\ Height + 1 \in DOMAIN OldChain /\ OldChain[Height + 1] = bl
        /\ Height \in Nat /\ Height >= 1 /\ bl \in Block
        /\ RingsBelow(OldChain) /\ TxsKept(bl)
        /\ ~pool_refused /\ Whole = Height /\ Partial
    BY ReconnectAt, Zenon DEF Acceptable
  <1>1. /\ TypeOK /\ ControlInv /\ ChainIndexed /\ OutputsInverse /\ BlocksStored /\ TopStored
        /\ BlocksPlaced /\ SpentExact /\ n \in Nat
    BY <1>0, Zenon DEF Reconnecting, LedgerInv, IInv, AcceptInv, NoDoubleSpend, TypeOK, ControlTypeOK
  <1>2. TxHashes[bl] \in Seq(Tx) /\ Len(TxHashes[bl]) \in Nat
    BY <1>0, BlockAssumption
  <1>3. n + 1 \in 1..Len(TxHashes[bl]) /\ n + 1 \in Slots(bl) /\ NextTx = TxAt(bl, n + 1)
    BY <1>1, <1>2 DEF Slots, TxAt, NextTx
  <1>4. \A u \in DOMAIN m_transactions : u # NextTx /\ KeyImages(u) \cap KeyImages(NextTx) = {}
    BY <1>1, <1>3, NotStoredYet
  <1>5. NextTx \in DOMAIN pool
    <2>1. NextTx \in Range(TxHashes[bl])
      BY <1>2, <1>3 DEF Range, NextTx
    <2>. QED  BY <1>0, <1>4, <2>1, Zenon DEF TxsKept
  <1>6. KeyImages(NextTx) \cap m_spent_keys = {}
    BY <1>1, <1>4, Zenon DEF SpentExact
  <1>7. ASSUME NEW ref \in Ring[NextTx]
        PROVE  /\ ref[1] \in DOMAIN m_outputs /\ m_outputs[ref[1]] = ref[2]
               /\ is_tx_spendtime_unlocked(ref[2])
    <2>1. RingBelow(OldChain, Height + 1, n + 1, ref)
      BY <1>0, <1>3, Zenon DEF RingsBelow, NextTx
    <2>2. is_tx_spendtime_unlocked(ref[2])
      <3>1. (Height + 1) - 1 - 1 = Height - 1
        BY <1>0
      <3>2. (Height + 1) - 1 - 1 + DeltaBlocks >= UnlockTime[ref[2]]
        BY <2>1, Zenon DEF RingBelow
      <3>3. Height - 1 + DeltaBlocks >= UnlockTime[ref[2]]
        BY <3>1, <3>2, Zenon
      <3>. QED  BY <3>3, Zenon DEF is_tx_spendtime_unlocked
    <2>a. PICK h \in 1..(Height + 1) : \E p \in Slots(OldChain[h]) :
             /\ h < Height + 1 \/ p < n + 1
             /\ ref[1] = FirstIndex[OldChain[h]] + p /\ ref[2] = TxAt(OldChain[h], p)
      BY <2>1, Zenon DEF RingBelow
    <2>3. PICK p \in Slots(OldChain[h]) :
             /\ h < Height + 1 \/ p < n + 1
             /\ ref[1] = FirstIndex[OldChain[h]] + p /\ ref[2] = TxAt(OldChain[h], p)
      BY <2>a, Zenon
    <2>4. ref[2] \in DOMAIN m_transactions /\ IndexOf(ref[2]) = ref[1]
      <3>1. CASE h \in 1..Height
        <4>1. /\ h \in 1..Whole /\ p \in Slots(m_blocks[h].id) /\ OldChain[h] = m_blocks[h].id
              /\ IInv /\ LedgerInv /\ AcceptInv /\ ~pool_refused
          BY <1>0, <2>3, <3>1, Zenon DEF Reconnecting
        <4>2. /\ TxAt(m_blocks[h].id, p) \in DOMAIN m_transactions
              /\ IndexOf(TxAt(m_blocks[h].id, p)) = FirstIndex[m_blocks[h].id] + p
          BY <4>1, StoredAt, Zenon
        <4>. QED  BY <2>3, <4>1, <4>2, Zenon
      <3>2. CASE h = Height + 1
        <4>1. OldChain[h] = bl /\ p \in 0..n
          BY <1>0, <1>1, <2>3, <3>2 DEF Slots
        <4>2. /\ Stored(m_transactions, bl, Height, n)
              /\ IndexOf(MinerTx[bl]) = EndOf(m_blocks[Height].id) + 1
          BY <1>0, <1>1, Zenon DEF TopStored
        <4>3. IndexOf(MinerTx[bl]) = FirstIndex[bl] /\ IndexOf(MinerTx[bl]) \in Nat
          <5>1. PrevId[bl] = m_blocks[Height].id /\ m_blocks[Height].id \in Block /\ bl # Genesis
            <6>1. OldChain[1] = Genesis
              BY <1>0, <1>1 DEF ChainIndexed
            <6>2. NoTxTwice(OldChain) /\ 1 \in DOMAIN OldChain /\ 0 \in Slots(bl) /\ Height + 1 # 1
              BY <1>0, <1>2, ReconnectAt, SMTT(30) DEF Acceptable, Slots
            <6>3. bl # Genesis
              BY <1>0, <6>1, <6>2, Zenon DEF NoTxTwice
            <6>. QED  BY <1>0, <1>1, <6>3, LedgerTypes, Zenon DEF ControlInv, get_tail_id
          <5>2. IndexOf(MinerTx[m_blocks[Height].id]) = FirstIndex[m_blocks[Height].id]
            BY <1>0, <1>1 DEF BlocksPlaced
          <5>3. MinerTx[bl] \in DOMAIN m_transactions
            BY <4>2, Zenon DEF Stored
          <5>. QED  BY <1>0, <1>1, <4>2, <5>1, <5>2, <5>3, TreeAssumption, LedgerTypes DEF EndOf
        <4>4. CASE p = 0
          <5>1. FirstIndex[bl] + p = FirstIndex[bl]
            BY <4>3, <4>4
          <5>2. MinerTx[bl] \in DOMAIN m_transactions
            BY <4>2, Zenon DEF Stored
          <5>. QED  BY <2>3, <4>1, <4>3, <4>4, <5>1, <5>2, Zenon DEF TxAt
        <4>5. CASE p \in 1..n
          <5>1. /\ TxHashes[bl][p] \in DOMAIN m_transactions
                /\ IndexOf(TxHashes[bl][p]) = IndexOf(MinerTx[bl]) + p
            BY <4>2, <4>5, Zenon DEF Stored, IndexOf
          <5>2. p # 0
            BY <4>5
          <5>. QED  BY <2>3, <4>1, <4>3, <5>1, <5>2, Zenon DEF TxAt
        <4>. QED  BY <1>1, <4>1, <4>4, <4>5
      <3>. QED  BY <1>0, <3>1, <3>2
    <2>5. ref[1] \in 1..Len(m_outputs) /\ m_outputs[ref[1]] = ref[2]
      BY <1>1, <2>4, Zenon DEF OutputsInverse
    <2>6. DOMAIN m_outputs = 1..Len(m_outputs)
      BY <1>1 DEF TypeOK, ChainTypeOK
    <2>. QED  BY <2>2, <2>5, <2>6, Zenon
  <1>. QED  BY <1>5, <1>6, <1>7, Zenon DEF check_tx_inputs

\* The block itself is accepted again.
LEMMA BlockAcceptedAgain ==
    ASSUME Reconnecting, pc = "txs"
    PROVE  bl \in RewardOk /\ bl \notin DOMAIN m_blocks_index
  <1>0. /\ \A i \in 1..Height : i \in DOMAIN OldChain /\ OldChain[i] = m_blocks[i].id
        /\ Height + 1 \in DOMAIN OldChain /\ OldChain[Height + 1] = bl
        /\ Height \in Nat /\ Height >= 1 /\ bl \in Block
        /\ OneAfterTheOther(OldChain) /\ NoTxTwice(OldChain)
    BY ReconnectAt, Zenon DEF Acceptable
  <1>1. bl \in RewardOk
    BY <1>0 DEF OneAfterTheOther
  <1>2. ASSUME NEW i \in 1..Height PROVE m_blocks[i].id # bl
    <2>1. 0 \in Slots(bl) /\ i # Height + 1
      BY <1>0, BlockAssumption DEF Slots
    <2>. QED  BY <1>0, <2>1, Zenon DEF NoTxTwice
  <1>. QED  BY <1>1, <1>2, Zenon DEF Reconnecting, IInv, ChainIndexed

\* What makes handle_block_to_main_chain refuse a block.
LEMMA RefusalCases ==
    /\ MainHeaderRefused => pc = "main" /\ ~(MainHeaderOk(bl) /\ CanAdd(MinerTx[bl]))
    /\ UnknownTx => pc = "txs" /\ n < Len(TxHashes[bl]) /\ NextTx \notin DOMAIN pool
    /\ WrongInputs => pc = "txs" /\ n < Len(TxHashes[bl]) /\ ~check_tx_inputs(NextTx)
    /\ BlockRefused => pc = "txs" /\ (bl \notin RewardOk \/ bl \in DOMAIN m_blocks_index)
  BY Zenon DEF MainHeaderRefused, UnknownTx, WrongInputs, BlockRefused

\* A rollback goes back through the blocks of the chain it gives up and forth
\* through those of disconnected_chain, one after the other.
LEMMA RestoreInvStep ==
    ASSUME IInv, LedgerInv, AcceptInv, ModeInv, HeightInv, OldChainInv, RestoreInv, [Next]_vars
    PROVE  RestoreInv'
  <1>. SUFFICES ASSUME mode' \in {"undo", "restore"}, ~Exempt'
                PROVE  /\ pc' \in {"pop", "popping", "popped", "main", "txs", "ret"}
                       /\ pc' \in {"main", "txs"} =>
                             bl' = disconnected_chain'[j'] /\ Reconnected(j - 1)'
                       /\ pc' = "ret" => r' /\ Reconnected(j)'
    BY Zenon DEF RestoreInv
  <1>0. /\ TypeOK /\ ControlInv /\ ChainIndexed /\ Height \in Nat /\ split_height \in Nat
        /\ j \in Nat /\ disconnected_chain \in Seq(Block)
    BY LedgerTypes, Zenon DEF IInv, TypeOK, ControlTypeOK
  <1>1. CASE ConnectFailed \/ PushFailed
    BY <1>1, Zenon DEF ConnectFailed, PushFailed
  <1>2. CASE ~(ConnectFailed \/ PushFailed)
    <2>1. /\ mode = mode'
          /\ UNCHANGED <<disconnected_chain, split_height>>
      <3>1. ~Ends /\ mode' \notin {"add", "checkpoint"}
        BY Zenon DEF Ends
      <3>2. Advances => ReconnectFirst \/ ReconnectNext
        BY <1>2, Zenon DEF Advances, DisconnectDone, ConnectNext, PushOldChain, PushNext
      <3>3. ReconnectFirst \/ ReconnectNext => mode' = mode
        BY Zenon DEF ReconnectFirst, ReconnectNext
      <3>4. ~Reorganize
        BY Zenon DEF Reorganize
      <3>. QED  BY <3>1, <3>2, <3>3, <3>4, SwitchCases, Zenon
    <2>2. Switching /\ m_checkpoints' = m_checkpoints
      <3>1. mode # "none" /\ Switching
        BY <2>1, Zenon DEF Switching
      <3>2. pc # "idle"
        BY <3>1, Zenon DEF ModeInv
      <3>. QED  BY <3>1, <3>2, CheckpointsStay, Zenon
    <2>3. ~Exempt
      BY <1>0, <2>1, <2>2, RefusedStays, Zenon DEF Exempt, check_block
    <2>4. /\ pc \in {"pop", "popping", "popped", "main", "txs", "ret"}
          /\ pc \in {"main", "txs"} => bl = disconnected_chain[j] /\ Reconnected(j - 1)
          /\ pc = "ret" => r /\ Reconnected(j)
          /\ pc \in {"main", "txs"} => Reconnecting
      BY <2>1, <2>3, Zenon DEF RestoreInv, Reconnecting
    <2>s. ASSUME UNCHANGED <<m_blocks, j>>
          PROVE  /\ Reconnected(j - 1) => Reconnected(j - 1)'
                 /\ Reconnected(j) => Reconnected(j)'
      BY <2>1, <2>s, Zenon DEF Reconnected, Height
    <2>5. CASE AddMinerTx
      <3>1. UNCHANGED <<m_blocks, j, bl>> /\ pc = "main" /\ pc' = "txs"
        BY <2>5, Zenon DEF AddMinerTx, frame
      <3>. QED  BY <2>1, <2>4, <2>s, <3>1, Zenon
    <2>6. CASE AddBlockTx
      <3>1. pc = "txs" /\ n < Len(TxHashes[bl]) /\ CanAdd(NextTx)
        BY <2>3, <2>6, CheckedCanAdd, Zenon DEF AddBlockTx, Exempt
      <3>2. UNCHANGED <<m_blocks, j, bl>> /\ pc' = "txs"
        BY <2>6, <3>1, Zenon DEF AddBlockTx, frame
      <3>. QED  BY <2>1, <2>4, <2>s, <3>1, <3>2, Zenon
    <2>7. CASE PushBlock
      <3>1. /\ pc = "txs" /\ pc' = "ret" /\ r' /\ j' = j
            /\ m_blocks' = Append(m_blocks, PushedEntry(bl))
        BY <2>7, Zenon DEF PushBlock, Return, frame
      <3>2. /\ bl = disconnected_chain[j] /\ j \in DOMAIN disconnected_chain
            /\ Height = split_height + (j - 1)
            /\ \A i \in 1..(j - 1) : m_blocks[split_height + i].id = disconnected_chain[i]
        BY <2>4, <3>1, Zenon DEF Reconnected
      <3>3. /\ Len(m_blocks') = Height + 1 /\ m_blocks'[Height + 1].id = bl
            /\ \A i \in 1..Height : m_blocks'[i] = m_blocks[i]
        <4>1. m_blocks \in Seq(BlockEntry)
          BY <1>0, Zenon DEF TypeOK, ChainTypeOK
        <4>. QED  BY <3>1, <4>1 DEF Height, PushedEntry
      <3>4. ASSUME NEW i \in 1..j PROVE m_blocks'[split_height + i].id = disconnected_chain[i]
        <4>1. CASE i = j
          <5>1. split_height + j = Height + 1
            BY <1>0, <3>2
          <5>. QED  BY <3>2, <3>3, <4>1, <5>1, Zenon
        <4>2. CASE i \in 1..(j - 1)
          <5>1. split_height + i \in 1..Height
            BY <1>0, <3>2, <4>2
          <5>. QED  BY <3>2, <3>3, <4>2, <5>1, Zenon
        <4>. QED  BY <1>0, <4>1, <4>2
      <3>5. Len(m_blocks') = split_height + j
        BY <1>0, <3>2, <3>3
      <3>. QED  BY <2>1, <3>1, <3>2, <3>4, <3>5, Zenon DEF Reconnected, Height
    <2>8. CASE PurgeStep
      BY <2>4, <2>8, Zenon DEF PurgeStep
    <2>9. CASE PopBlock
      BY <2>9, Zenon DEF PopBlock
    <2>10. CASE QuietMain
      <3>1. ~MainHeaderRefused /\ ~UnknownTx /\ ~WrongInputs /\ ~BlockRefused
        BY <2>4, HeaderAcceptedAgain, TxAcceptedAgain, BlockAcceptedAgain, RefusalCases, Zenon
      <3>2. ~ReturnAfterPurge
        BY <2>4, Zenon DEF ReturnAfterPurge
      <3>. QED  BY <2>10, <3>1, <3>2, Zenon DEF QuietMain
    <2>11. CASE QuietPop
      <3>1. ~PopGenesis
        <4>1. split_height \in 1..Height
          BY <2>2, Zenon DEF HeightInv
        <4>2. PopGenesis => Height > split_height /\ Height <= 1
          BY Zenon DEF PopGenesis
        <4>. QED  BY <1>0, <4>1, <4>2
      <3>2. ~PopFailed
        BY <2>3, Zenon DEF PopFailed, LedgerInv, Exempt, PopSucceeds
      <3>3. CASE PopNext
        BY <3>3, Zenon DEF PopNext
      <3>. QED  BY <2>11, <3>1, <3>2, <3>3, Zenon DEF QuietPop
    <2>12. CASE AltStep
      BY <2>4, <2>12, Zenon DEF AltStep, AltRefused, AltOrphaned, AltBegin, AltWalk, AltHeaderRefused,
           AddedAsAlternative, Reorganize
    <2>13. CASE SwitchStep
      <3>1. CASE ReconnectFirst
        <4>1. /\ Height = split_height /\ disconnected_chain # <<>>
          BY <1>0, <2>1, <2>2, <3>1 DEF ReconnectFirst, HeightInv, ControlInv
        <4>2. /\ pc' = "main" /\ j' = 1 /\ bl' = disconnected_chain[1] /\ m_blocks' = m_blocks
          BY <3>1, Zenon DEF ReconnectFirst, ReconnectBlock, data, chain
        <4>3. 1 \in DOMAIN disconnected_chain /\ Height + 0 = Height /\ 1 - 1 = 0
          BY <1>0, <4>1
        <4>. QED  BY <1>0, <2>1, <4>1, <4>2, <4>3 DEF Reconnected, Height
      <3>2. CASE ReconnectNext
        <4>1. /\ pc' = "main" /\ j' = j + 1 /\ bl' = disconnected_chain[j + 1] /\ m_blocks' = m_blocks
              /\ pc = "ret" /\ j < Len(disconnected_chain)
          BY <3>2, Zenon DEF ReconnectNext, ReconnectBlock, data, chain
        <4>2. j + 1 \in DOMAIN disconnected_chain /\ (j + 1) - 1 = j
          BY <1>0, <4>1
        <4>. QED  BY <1>0, <2>1, <2>4, <4>1, <4>2, Zenon DEF Reconnected, Height
      <3>. QED  BY <1>2, <2>1, <2>13, <3>1, <3>2, Zenon DEF SwitchStep, DisconnectDone, DisconnectFailed,
                  ConnectNext, PushOldChain, PushNext, SwitchSucceeded, UndoDone, RestoreDone, Finish
    <2>14. CASE Enter \/ Leave
      BY <2>14, Zenon DEF Enter, Leave, add_new_block, CheckpointRollback, ReturnFromAdd,
           CheckpointRollbackDone, Finish
    <2>15. CASE Outside \/ UNCHANGED vars
      <3>1. UNCHANGED <<m_blocks, pc, bl, r, j>>
        BY <2>15, OutsideUnchanged, Zenon DEF vars, data, chain, control, frame
      <3>. QED  BY <2>1, <2>4, <2>s, <3>1, Zenon
    <2>. QED  BY <2>5, <2>6, <2>7, <2>8, <2>9, <2>10, <2>11, <2>12, <2>13, <2>14, <2>15,
               NextCases, Zenon DEF Quiet
  <1>. QED  BY <1>1, <1>2, Zenon

\* Nothing is being switched when the node starts.
LEMMA SwitchInit == Init => SwitchInv
  <1>. SUFFICES ASSUME Init PROVE SwitchInv
    OBVIOUS
  <1>1. /\ m_blocks = <<[id |-> Genesis, cumulative_difficulty |-> Difficulty[Genesis]]>>
        /\ DOMAIN m_transactions = {MinerTx[Genesis]} /\ m_transactions[MinerTx[Genesis]].m_global_output_index = 1
        /\ DOMAIN m_alternative_chains = {} /\ pc = "idle" /\ mode = "none"
        /\ disconnected_chain = <<>>
    BY Zenon DEF Init, InitChain, InitBlockThread
  <1>2. Height = 1 /\ Whole = 1 /\ m_blocks[1].id = Genesis
    BY <1>1, Zenon DEF Height, Whole
  <1>3. AcceptInv
    <2>1. HeadersChecked
      BY <1>1, <1>2 DEF HeadersChecked
    <2>2. DOMAIN m_transactions \cap Tx = {}
      BY <1>1, BlockAssumption, Zenon DEF Coinbase
    <2>3. BlocksPlaced
      BY <1>1, <1>2, TreeAssumption DEF BlocksPlaced, IndexOf
    <2>. QED  BY <2>1, <2>2, <2>3, Zenon DEF AcceptInv, RingsChecked
  <1>4. ModeInv
    BY <1>1, Zenon DEF ModeInv
  <1>. QED  BY <1>1, <1>3, <1>4, Zenon DEF SwitchInv, HeightInv, OldChainInv, RestoreInv, Switching

\* No step of any thread breaks what a switch relies on.
LEMMA SwitchInvStep == IInv /\ LedgerInv /\ SwitchInv /\ [Next]_vars => SwitchInv'
  <1>. SUFFICES ASSUME IInv, LedgerInv, SwitchInv, [Next]_vars PROVE SwitchInv'
    OBVIOUS
  <1>1. AcceptInv /\ ModeInv /\ HeightInv /\ OldChainInv /\ RestoreInv
    BY Zenon DEF SwitchInv
  <1>2. AcceptInv'
    BY <1>1, AcceptStep, Zenon
  <1>3. ModeInv' /\ HeightInv'
    BY <1>1, ModeInvStep, HeightInvStep, Zenon DEF IInv
  <1>4. OldChainInv' /\ RestoreInv'
    BY <1>1, OldChainStep, RestoreInvStep, Zenon
  <1>. QED  BY <1>2, <1>3, <1>4, Zenon DEF SwitchInv

\* The step that ends a rollback ends it at the chain the switch began with.
LEMMA RollbackRestores ==
    ASSUME IInv, SwitchInv, [Next]_vars, pc # "idle", pc' = "idle", mode \in {"undo", "restore"},
           ~Exempt
    PROVE  /\ Height = split_height + Len(disconnected_chain)
           /\ \A i \in DOMAIN disconnected_chain : m_blocks[split_height + i].id = disconnected_chain[i]
  <1>1. RollbackOver
    <2>1. CASE AddMinerTx \/ AddBlockTx \/ PushBlock \/ QuietMain \/ PurgeStep \/ PopBlock \/ QuietPop
      BY <2>1, Zenon DEF AddMinerTx, AddBlockTx, PushBlock, QuietMain, MainHeaderRefused, UnknownTx,
           WrongInputs, BlockRefused, ReturnAfterPurge, Return, PurgeStep, PopBlock, QuietPop, PopNext,
           PopGenesis, PopFailed
    <2>2. CASE AltStep
      BY <2>2, Zenon DEF AltStep, AltRefused, AltOrphaned, AltBegin, AltWalk, AltHeaderRefused,
           AddedAsAlternative, Reorganize, Return
    <2>3. CASE SwitchStep
      BY <2>3, Zenon DEF SwitchStep, DisconnectDone, DisconnectFailed, ConnectNext, ConnectFailed,
           PushOldChain, PushNext, PushFailed, SwitchSucceeded, ReconnectFirst, ReconnectNext,
           UndoDone, RestoreDone, ConnectBlock, PushOldBlock, ReconnectBlock
    <2>4. CASE Enter \/ Leave
      BY <2>4, Zenon DEF Enter, Leave, add_new_block, CheckpointRollback, ReturnFromAdd,
           CheckpointRollbackDone
    <2>5. CASE Outside \/ UNCHANGED vars
      BY <2>5, OutsideUnchanged, Zenon DEF vars, control
    <2>. QED  BY <2>1, <2>2, <2>3, <2>4, <2>5, NextCases, Zenon DEF Quiet
  <1>2. r /\ Reconnected(j)
    BY <1>1, Zenon DEF SwitchInv, RestoreInv, RollbackOver
  <1>3. disconnected_chain \in Seq(Block)
    BY Zenon DEF IInv, TypeOK, ControlTypeOK
  <1>. QED  BY <1>1, <1>2, <1>3 DEF RollbackOver, Reconnected

\* switch_to_alternative_blockchain and rollback_blockchain_switching: a switch
\* that fails, while it connects the other chain or while it stores the old one
\* as alternative blocks, ends with the main chain it began with, unless a block
\* of it contradicts a checkpoint or the pool refused a transaction.
THEOREM FailedSwitchRestores == Spec => FailedReorgRestores
  <1>. DEFINE Inv == IInv /\ LedgerInv /\ SwitchInv
  <1>1. Init => Inv
    BY IInvInit, LedgerInit, SwitchInit, Zenon
  <1>2. Inv /\ [Next]_vars => Inv'
    BY IInvStep, LedgerStep, SwitchInvStep, Zenon
  <1>3. Inv /\ [Next]_vars =>
          [(pc # "idle" /\ pc' = "idle" /\ mode \in {"undo", "restore"}) =>
             \/ pool_refused
             \/ \E i \in DOMAIN disconnected_chain :
                   ~check_block(split_height + i - 1, disconnected_chain[i])
             \/ /\ Height = split_height + Len(disconnected_chain)
                /\ \A i \in DOMAIN disconnected_chain :
                      m_blocks[split_height + i].id = disconnected_chain[i]]_vars
    BY RollbackRestores, Zenon DEF Exempt
  <1>. QED  BY <1>1, <1>2, <1>3, PTL DEF Spec, FailedReorgRestores

-----------------------------------------------------------------------------
(* Where a block may be.  During a switch a block can be in two containers *)
(* for a while, and these are the blocks that can.                         *)

\* The blocks below the one that the new chain branches off.
Base == {m_blocks[i].id : i \in 1..split_height}

\* Blocks that are about to be taken out of the alternative chains as invalid.
InvalidTried ==
    IF mode = "undo" \/ (mode = "connect" /\ (pc \in {"purge", "purged"} \/ (pc = "ret" /\ ~r)))
    THEN {alt_chain[k]} ELSE {}
ReconnectRefused ==
    mode \in {"undo", "restore"} /\ (pc \in {"purge", "purged"} \/ (pc = "ret" /\ ~r))

\* Which blocks may be in two of the containers.
MainApart ==
    /\ Main \cap m_invalid_blocks = {}
    /\ mode \in {"none", "add", "checkpoint", "disconnect"} => Main \cap Alt = {}
    /\ mode \in {"connect", "push", "undo", "restore"} => Main \cap Alt \subseteq Range(alt_chain)
    /\ mode \in {"undo", "restore"} /\ pc \in {"main", "txs", "purge", "purged", "ret"} =>
          Main \cap Alt = {}
    /\ Switching => Base \cap Alt = {}
AltApart == Alt \cap m_invalid_blocks \subseteq InvalidTried
OldApart ==
    /\ mode \in {"disconnect", "connect", "undo", "restore"} => Old \cap Alt = {}
    /\ ReconnectRefused \/ Old \cap m_invalid_blocks = {}
    /\ mode \in {"disconnect", "connect", "push"} => Old \cap Main = {}
ContainersInv == pool_refused \/ (MainApart /\ AltApart /\ OldApart)

\* The disconnected blocks that are alternative blocks by now, each at its height.
Pushed == IF pc = "ret" /\ r THEN j ELSE j - 1
PushedHeights ==
    \A i \in DOMAIN disconnected_chain :
        /\ disconnected_chain[i] \in Alt <=> i <= Pushed
        /\ i <= Pushed => m_alternative_chains[disconnected_chain[i]].height = split_height + i - 1
PushInv ==
    (mode = "push" /\ ~pool_refused) =>
        /\ PushedHeights
        /\ j > 1 \/ pc = "walk" \/ (pc = "ret" /\ r) =>
              is_alternative_block_allowed(Height, split_height)
        /\ pc = "walk" =>
              /\ Len(path) < j
              /\ \A i \in DOMAIN path : path[i] = disconnected_chain[j - 1 - Len(path) + i]
        /\ pc = "ret" /\ ~r => j = 1 /\ DOMAIN m_checkpoints # {}

\* The state a step starts from.
Before == IInv /\ LedgerInv /\ SwitchInv /\ WorkInv /\ PlacesInv /\ ReasonInv

\* The disconnected blocks follow one another from split_height on.
LEMMA OldBlock ==
    ASSUME Before, mode = "push", ~pool_refused, NEW i \in DOMAIN disconnected_chain
    PROVE  /\ disconnected_chain \in Seq(Block) /\ split_height \in 1..Height /\ Height \in Nat
           /\ GenOf(disconnected_chain[i]) = split_height + i - 1
           /\ prevalidate_miner_transaction(disconnected_chain[i], split_height + i - 1)
           /\ disconnected_chain[i] \in WorkOk
           /\ PrevId[disconnected_chain[i]] =
                IF i = 1 THEN m_blocks[split_height].id ELSE disconnected_chain[i - 1]
           /\ \A h \in DOMAIN disconnected_chain : h # i => disconnected_chain[h] # disconnected_chain[i]
  <1>0. /\ disconnected_chain \in Seq(Block) /\ split_height \in 1..Height /\ Height \in Nat
        /\ Acceptable(OldChain) /\ \A b \in Block : Len(TxHashes[b]) \in Nat
    <2>1. TypeOK /\ ControlInv /\ ChainIndexed /\ HeightInv /\ OldChainInv /\ Switching
      BY Zenon DEF Before, IInv, SwitchInv, Switching
    <2>. QED  BY <2>1, LedgerTypes, Zenon DEF TypeOK, ControlTypeOK, HeightInv, OldChainInv
  <1>1. Kept = split_height /\ split_height \in Nat /\ split_height >= 1
        /\ \A h \in DOMAIN disconnected_chain : h \in Nat /\ h >= 1
    <2>1. Kept = split_height
      BY Zenon DEF Kept
    <2>2. DOMAIN disconnected_chain = 1..Len(disconnected_chain) /\ Len(disconnected_chain) \in Nat
      BY <1>0
    <2>. QED  BY <1>0, <2>1, <2>2
  <1>2. \A h \in DOMAIN disconnected_chain :
            split_height + h \in DOMAIN OldChain /\ OldChain[split_height + h] = disconnected_chain[h]
    BY <1>0, <1>1 DEF OldChain
  <1>3. split_height \in DOMAIN OldChain /\ OldChain[split_height] = m_blocks[split_height].id
    BY <1>0, <1>1 DEF OldChain
  <1>8. OneAfterTheOther(OldChain) /\ NoTxTwice(OldChain)
    BY <1>0, Zenon DEF Acceptable
  <1>4. split_height + i \in DOMAIN OldChain \ {1}
    BY <1>1, <1>2
  <1>5. /\ PrevId[OldChain[split_height + i]] = OldChain[(split_height + i) - 1]
        /\ HeaderChecked(OldChain[split_height + i], (split_height + i) - 1)
    <2>1. \A m \in DOMAIN OldChain \ {1} :
              PrevId[OldChain[m]] = OldChain[m - 1] /\ HeaderChecked(OldChain[m], m - 1)
      BY <1>8, Zenon DEF OneAfterTheOther
    <2>. QED  BY <1>4, <2>1, Zenon
  <1>6. OldChain[split_height + i - 1] =
            IF i = 1 THEN m_blocks[split_height].id ELSE disconnected_chain[i - 1]
    <2>1. CASE i = 1
      BY <1>0, <1>3, <2>1
    <2>2. CASE i # 1
      <3>1. i - 1 \in DOMAIN disconnected_chain /\ split_height + (i - 1) = split_height + i - 1
        BY <1>0, <2>2
      <3>. QED  BY <1>2, <2>2, <3>1, Zenon
    <2>. QED  BY <2>1, <2>2, Zenon
  <1>7. \A h \in DOMAIN disconnected_chain : h # i => disconnected_chain[h] # disconnected_chain[i]
    <2>. SUFFICES ASSUME NEW h \in DOMAIN disconnected_chain, h # i
                  PROVE  disconnected_chain[h] # disconnected_chain[i]
      OBVIOUS
    <2>1. disconnected_chain[h] \in Block /\ disconnected_chain[i] \in Block
      BY <1>0
    <2>2. 0 \in Slots(disconnected_chain[h]) /\ 0 \in Slots(disconnected_chain[i])
      BY <1>0, <2>1 DEF Slots
    <2>3. split_height + h # split_height + i
      BY <1>1
    <2>4. TxAt(disconnected_chain[h], 0) # TxAt(disconnected_chain[i], 0)
      BY <1>2, <1>8, <2>2, <2>3 DEF NoTxTwice
    <2>. QED  BY <2>4, Zenon
  <1>9. (split_height + i) - 1 = split_height + i - 1
    BY <1>1
  <1>10. prevalidate_miner_transaction(disconnected_chain[i], split_height + i - 1)
    BY <1>2, <1>5, <1>9, Zenon DEF HeaderChecked
  <1>. QED  BY <1>0, <1>2, <1>5, <1>6, <1>7, <1>9, <1>10, Zenon DEF HeaderChecked, prevalidate_miner_transaction, GenOf

\* What is known of the block that is being put back.
LEMMA PushFacts ==
    ASSUME Before, mode = "push", ~pool_refused
    PROVE  /\ IInv /\ ModeInv /\ HeadersChecked /\ WorkInv /\ PlacesInv /\ ReasonInv
           /\ j \in DOMAIN disconnected_chain /\ bl = disconnected_chain[j]
           /\ DOMAIN disconnected_chain = 1..Len(disconnected_chain)
           /\ Len(disconnected_chain) \in Nat /\ j \in Nat /\ j >= 1
           /\ path \in Seq(Block) /\ Height \in Nat /\ split_height \in 1..Height
           /\ DOMAIN m_checkpoints \subseteq Nat
  <1>1. /\ IInv /\ ModeInv /\ HeadersChecked /\ WorkInv /\ PlacesInv /\ ReasonInv /\ TypeOK
    BY Zenon DEF Before, SwitchInv, AcceptInv, IInv
  <1>2. j \in DOMAIN disconnected_chain /\ bl = disconnected_chain[j]
    BY <1>1, Zenon DEF PlacesInv, PushPlace
  <1>3. disconnected_chain \in Seq(Block) /\ Height \in Nat /\ split_height \in 1..Height
    BY <1>2, OldBlock, Zenon
  <1>4. path \in Seq(Block) /\ DOMAIN m_checkpoints \subseteq Nat
    BY <1>1, Zenon DEF TypeOK, ControlTypeOK, CheckpointTypeOK
  <1>. QED  BY <1>1, <1>2, <1>3, <1>4

\* Where the walk back through the alternative blocks has got to.
LEMMA PushHead ==
    ASSUME Before, ContainersInv, PushInv, mode = "push", ~pool_refused, pc = "walk"
    PROVE  /\ Len(path) \in Nat /\ Len(path) < j
           /\ \/ j - Len(path) = 1 /\ PathHead = m_blocks[split_height].id /\ PathHead \notin Alt
              \/ /\ j - Len(path) > 1 /\ PathHead = disconnected_chain[j - 1 - Len(path)]
                 /\ PathHead \in Alt
           /\ path # <<>> => path[1] = disconnected_chain[j - Len(path)]
  <1>0. /\ j \in DOMAIN disconnected_chain /\ bl = disconnected_chain[j]
        /\ DOMAIN disconnected_chain = 1..Len(disconnected_chain)
        /\ Len(disconnected_chain) \in Nat /\ j \in Nat /\ j >= 1
        /\ path \in Seq(Block) /\ Height \in Nat /\ split_height \in 1..Height
    BY PushFacts, Zenon
  <1>1. Len(path) \in Nat /\ Len(path) < j
    BY <1>0 DEF PushInv
  <1>2. path # <<>> => path[1] = disconnected_chain[j - Len(path)]
    <2>1. \A i \in DOMAIN path : path[i] = disconnected_chain[j - 1 - Len(path) + i]
      BY Zenon DEF PushInv
    <2>2. path # <<>> => 1 \in DOMAIN path
      BY <1>0
    <2>3. j - 1 - Len(path) + 1 = j - Len(path)
      BY <1>0, <1>1
    <2>. QED  BY <2>1, <2>2, <2>3, Zenon
  <1>3. j - Len(path) \in DOMAIN disconnected_chain
    BY <1>0, <1>1
  <1>4. PathHead = PrevId[disconnected_chain[j - Len(path)]]
    <2>1. CASE path = <<>>
      BY <1>0, <2>1 DEF PathHead
    <2>2. CASE path # <<>>
      BY <1>2, <2>2, Zenon DEF PathHead
    <2>. QED  BY <2>1, <2>2, Zenon
  <1>5. CASE j - Len(path) = 1
    <2>1. PathHead = m_blocks[split_height].id
      BY <1>3, <1>4, <1>5, OldBlock, Zenon
    <2>2. split_height \in 1..split_height
      BY <1>0
    <2>3. PathHead \in Base
      BY <2>1, <2>2, Zenon DEF Base
    <2>4. Base \cap Alt = {}
      BY Zenon DEF ContainersInv, MainApart, Switching
    <2>. QED  BY <1>1, <1>2, <1>5, <2>1, <2>3, <2>4, Zenon
  <1>6. CASE j - Len(path) # 1
    <2>1. PathHead = disconnected_chain[j - Len(path) - 1]
      BY <1>3, <1>4, <1>6, OldBlock, Zenon
    <2>2. j - Len(path) - 1 = j - 1 - Len(path) /\ j - Len(path) > 1
      BY <1>0, <1>1, <1>6
    <2>3. j - 1 - Len(path) \in DOMAIN disconnected_chain /\ j - 1 - Len(path) <= j - 1
      BY <1>0, <1>1, <2>2
    <2>4. Pushed = j - 1
      BY Zenon DEF Pushed
    <2>5. disconnected_chain[j - 1 - Len(path)] \in Alt
      BY <2>3, <2>4, Zenon DEF PushInv, PushedHeights
    <2>. QED  BY <1>1, <1>2, <2>1, <2>2, <2>5, Zenon
  <1>. QED  BY <1>5, <1>6, Zenon

\* handle_alternative_block accepts a disconnected block: it follows a block of
\* the main chain or one that was put back before it, at the height it was at.
LEMMA PushAccepted ==
    ASSUME Before, ContainersInv, PushInv, mode = "push", ~pool_refused, pc = "walk",
           PathHead \notin DOMAIN m_alternative_chains
    PROVE  AltHeaderOk /\ AltHeight = split_height + j - 1
  <1>0. /\ j \in DOMAIN disconnected_chain /\ bl = disconnected_chain[j]
        /\ DOMAIN disconnected_chain = 1..Len(disconnected_chain)
        /\ Len(disconnected_chain) \in Nat /\ j \in Nat /\ j >= 1
        /\ path \in Seq(Block) /\ Height \in Nat /\ split_height \in 1..Height
        /\ Pushed = j - 1 /\ IInv
    BY PushFacts, Zenon DEF Pushed
  <1>1. /\ j - Len(path) = 1 /\ Len(path) \in Nat /\ PathHead = m_blocks[split_height].id
        /\ path # <<>> => path[1] = disconnected_chain[1]
    BY PushHead, Zenon DEF Alt
  <1>2. /\ GenOf(bl) = split_height + j - 1 /\ bl \in WorkOk
        /\ prevalidate_miner_transaction(bl, split_height + j - 1)
        /\ PrevId[bl] = IF j = 1 THEN m_blocks[split_height].id ELSE disconnected_chain[j - 1]
    BY <1>0, OldBlock, Zenon
  <1>3. PushedHeights
    BY Zenon DEF PushInv
  <1>4. bl \notin DOMAIN m_alternative_chains
    <2>1. ~(j <= Pushed)
      BY <1>0
    <2>. QED  BY <1>0, <1>3, <2>1, Zenon DEF PushedHeights, Alt
  <1>5. ASSUME path # <<>>
        PROVE  PathConnects /\ AltHeight = split_height + j - 1
    <2>1. j > 1 /\ 1 \in DOMAIN disconnected_chain /\ 1 <= Pushed
          /\ j - 1 \in DOMAIN disconnected_chain /\ j - 1 <= Pushed
      <3>1. Len(path) > 0
        BY <1>0, <1>5
      <3>. QED  BY <1>0, <1>1, <3>1
    <2>2. /\ m_alternative_chains[disconnected_chain[1]].height = split_height + 1 - 1
          /\ m_alternative_chains[disconnected_chain[j - 1]].height = split_height + (j - 1) - 1
      BY <1>3, <2>1, Zenon DEF PushedHeights
    <2>3. m_alternative_chains[path[1]].height = split_height
      <3>1. split_height + 1 - 1 = split_height
        BY <1>0
      <3>. QED  BY <1>1, <1>5, <2>2, <3>1, Zenon
    <2>4. PrevId[path[1]] = m_blocks[split_height].id
      BY <1>1, <1>5, <2>1, OldBlock, Zenon
    <2>5. Height > split_height
      <3>1. get_tail_id = Top /\ Top \in Alt
        BY PushFacts, NewTail, Zenon DEF Switching, PlacesInv, PushPlace
      <3>2. Base \cap Alt = {}
        BY Zenon DEF ContainersInv, MainApart, Switching
      <3>3. Height \in 1..split_height => get_tail_id \in Base
        BY Zenon DEF Base, get_tail_id
      <3>. QED  BY <1>0, <3>1, <3>2, <3>3
    <2>6. PathConnects
      BY <2>3, <2>4, <2>5, Zenon DEF PathConnects
    <2>7. AltHeight = split_height + j - 1
      BY <1>0, <1>2, <1>5, <2>1, <2>2 DEF AltHeight
    <2>. QED  BY <2>6, <2>7, Zenon
  <1>6. ASSUME path = <<>>
        PROVE  PathConnects /\ AltHeight = split_height + j - 1
    <2>1. j = 1
      BY <1>0, <1>1, <1>6
    <2>2. m_blocks_index[m_blocks[split_height].id] = split_height - 1
      BY <1>0, Zenon DEF IInv, ChainIndexed
    <2>3. AltHeight = m_blocks_index[m_blocks[split_height].id] + 1
      BY <1>2, <1>6, <2>1, Zenon DEF AltHeight
    <2>. QED  BY <1>0, <1>6, <2>1, <2>2, <2>3 DEF PathConnects
  <1>7. PathConnects /\ AltHeight = split_height + j - 1
    BY <1>5, <1>6, Zenon
  <1>8. GenOf(bl) \notin DOMAIN m_checkpoints
    BY PushFacts, NoPointThere, Zenon
  <1>9. check_block(AltHeight, bl) /\ prevalidate_miner_transaction(bl, AltHeight)
    BY <1>2, <1>7, <1>8, Zenon DEF check_block
  <1>. QED  BY <1>2, <1>4, <1>7, <1>9, Zenon DEF AltHeaderOk

\* A point that forbids a block forbids the ones below it.
LEMMA AllowedAbove ==
    ASSUME NEW h, NEW m \in Nat, NEW l \in Nat, m <= l, m # 0, DOMAIN m_checkpoints \subseteq Nat,
           is_alternative_block_allowed(h, m)
    PROVE  is_alternative_block_allowed(h, l)
  <1>1. l # 0
    OBVIOUS
  <1>2. \A g \in DOMAIN m_checkpoints : g < m => g < l
    OBVIOUS
  <1>. QED  BY <1>1, <1>2, Zenon DEF is_alternative_block_allowed

\* The steps of handle_alternative_block on a disconnected block.
LEMMA PushAltStep ==
    ASSUME Before, ContainersInv, PushInv, AltStep, mode = "push", ~pool_refused
    PROVE  PushInv'
  <1>. USE DEF data, chain, env, frame
  <1>0. /\ j \in DOMAIN disconnected_chain /\ bl = disconnected_chain[j]
        /\ DOMAIN disconnected_chain = 1..Len(disconnected_chain)
        /\ Len(disconnected_chain) \in Nat /\ j \in Nat /\ j >= 1
        /\ path \in Seq(Block) /\ Height \in Nat /\ split_height \in 1..Height
        /\ DOMAIN m_checkpoints \subseteq Nat
    BY PushFacts, Zenon
  <1>1. /\ pc \in {"alt", "walk"}
        /\ UNCHANGED <<mode, m_blocks, m_blocks_index, bl, j, split_height, disconnected_chain,
                       m_checkpoints>>
    BY Zenon DEF AltStep, AltRefused, AltOrphaned, AltBegin, AltWalk, AltHeaderRefused,
       AddedAsAlternative, Reorganize
  <1>2. Height' = Height /\ Pushed = j - 1
    BY <1>1, Zenon DEF Height, Pushed
  <1>3. /\ GenOf(bl) = split_height + j - 1
        /\ PrevId[bl] = IF j = 1 THEN m_blocks[split_height].id ELSE disconnected_chain[j - 1]
    BY <1>0, OldBlock, Zenon
  <1>4. PushedHeights /\ (j > 1 => is_alternative_block_allowed(Height, split_height))
    BY Zenon DEF PushInv
  <1>5. CASE AltRefused
    <2>1. pc = "alt" /\ pc' = "ret" /\ ~r' /\ m_alternative_chains' = m_alternative_chains
          /\ ~is_alternative_block_allowed(Height, GenOf(bl))
      BY <1>5, Zenon DEF AltRefused, Return, GenOf, alts
    <2>2. j = 1
      <3>1. ASSUME j > 1 PROVE FALSE
        <4>1. split_height \in Nat /\ split_height # 0 /\ GenOf(bl) \in Nat /\ split_height <= GenOf(bl)
          BY <1>0, <1>3
        <4>. QED  BY <1>0, <1>4, <2>1, <3>1, <4>1, AllowedAbove, Zenon
      <3>. QED  BY <1>0, <3>1
    <2>3. DOMAIN m_checkpoints # {}
      <3>1. GenOf(bl) # 0
        BY <1>0, <1>3
      <3>. QED  BY <2>1, <3>1, Zenon DEF is_alternative_block_allowed
    <2>4. Pushed' = j - 1 /\ Alt' = Alt
      BY <1>1, <2>1, Zenon DEF Pushed, Alt
    <2>5. PushedHeights'
      BY <1>1, <1>2, <1>4, <2>1, <2>4, Zenon DEF PushedHeights
    <2>. QED  BY <1>1, <2>1, <2>2, <2>3, <2>5 DEF PushInv
  <1>6. ~AltOrphaned
    <2>1. CASE j = 1
      <3>1. m_blocks[split_height].id \in DOMAIN m_blocks_index
        BY <1>0, Zenon DEF Before, IInv, ChainIndexed
      <3>. QED  BY <1>3, <2>1, <3>1, Zenon DEF AltOrphaned
    <2>2. CASE j # 1
      <3>1. j - 1 \in DOMAIN disconnected_chain /\ j - 1 <= Pushed
        BY <1>0, <1>2, <2>2
      <3>2. disconnected_chain[j - 1] \in Alt
        BY <1>4, <3>1, Zenon DEF PushedHeights
      <3>. QED  BY <1>3, <2>2, <3>2, Zenon DEF AltOrphaned, Alt
    <2>. QED  BY <2>1, <2>2, Zenon
  <1>7. CASE AltBegin
    <2>1. pc' = "walk" /\ path' = <<>> /\ m_alternative_chains' = m_alternative_chains
          /\ is_alternative_block_allowed(Height, GenOf(bl))
      BY <1>7, Zenon DEF AltBegin, GenOf, alts
    <2>2. is_alternative_block_allowed(Height, split_height)
      <3>1. j = 1 => GenOf(bl) = split_height
        BY <1>0, <1>3
      <3>2. j = 1 \/ j > 1
        BY <1>0
      <3>. QED  BY <1>4, <2>1, <3>1, <3>2, Zenon
    <2>3. Pushed' = j - 1 /\ Alt' = Alt
      BY <1>1, <2>1, Zenon DEF Pushed, Alt
    <2>4. PushedHeights'
      BY <1>1, <1>2, <1>4, <2>1, <2>3, Zenon DEF PushedHeights
    <2>5. is_alternative_block_allowed(Height, split_height)'
      BY <1>1, <1>2, <2>2, Zenon DEF is_alternative_block_allowed
    <2>. QED  BY <1>0, <1>1, <2>1, <2>4, <2>5 DEF PushInv
  <1>8. CASE AltWalk
    <2>1. /\ pc = "walk" /\ pc' = "walk" /\ path' = <<PathHead>> \o path /\ PathHead \in Alt
          /\ m_alternative_chains' = m_alternative_chains
      BY <1>8, Zenon DEF AltWalk, alts, Alt
    <2>2. /\ Len(path) \in Nat /\ j - Len(path) > 1
          /\ PathHead = disconnected_chain[j - 1 - Len(path)]
      BY <2>1, PushHead, Zenon
    <2>3. Len(path') = Len(path) + 1 /\ DOMAIN path' = 1..(Len(path) + 1) /\ path'[1] = PathHead
          /\ DOMAIN path = 1..Len(path) /\ \A i \in DOMAIN path : path'[i + 1] = path[i]
      BY <1>0, <2>1
    <2>4. \A i \in DOMAIN path : path[i] = disconnected_chain[j - 1 - Len(path) + i]
      BY <2>1, Zenon DEF PushInv
    <2>5. \A i \in DOMAIN path' : path'[i] = disconnected_chain[j - 1 - Len(path') + i]
      <3>. SUFFICES ASSUME NEW i \in 1..(Len(path) + 1)
                    PROVE  path'[i] = disconnected_chain[j - 1 - Len(path') + i]
        BY <2>3, Zenon
      <3>1. CASE i = 1
        <4>1. j - 1 - Len(path') + i = j - 1 - Len(path)
          BY <1>0, <2>2, <2>3, <3>1
        <4>. QED  BY <2>2, <2>3, <3>1, <4>1, Zenon
      <3>2. CASE i # 1
        <4>1. i - 1 \in DOMAIN path /\ (i - 1) + 1 = i
              /\ j - 1 - Len(path') + i = j - 1 - Len(path) + (i - 1)
          BY <1>0, <2>2, <2>3, <3>2
        <4>. QED  BY <2>3, <2>4, <4>1, Zenon
      <3>. QED  BY <3>1, <3>2, Zenon
    <2>6. Len(path') < j
      BY <1>0, <2>2, <2>3
    <2>7. Pushed' = j - 1 /\ Alt' = Alt
      BY <1>1, <2>1, Zenon DEF Pushed, Alt
    <2>8. PushedHeights'
      BY <1>1, <1>2, <1>4, <2>1, <2>7, Zenon DEF PushedHeights
    <2>9. is_alternative_block_allowed(Height, split_height)'
      BY <1>1, <1>2, <2>1, Zenon DEF is_alternative_block_allowed, PushInv
    <2>. QED  BY <1>1, <2>1, <2>5, <2>6, <2>8, <2>9, Zenon DEF PushInv
  <1>9. ~AltHeaderRefused
    BY PushAccepted, Zenon DEF AltHeaderRefused
  <1>10. CASE AddedAsAlternative
    <2>1. /\ pc = "walk" /\ PathHead \notin DOMAIN m_alternative_chains /\ pc' = "ret" /\ r'
          /\ m_alternative_chains' = Put(m_alternative_chains, bl,
                [height |-> AltHeight, cumulative_difficulty |-> AltDifficulty])
      BY <1>10, Zenon DEF AddedAsAlternative, Return, InsertAlternative
    <2>2. AltHeight = split_height + j - 1
      BY <2>1, PushAccepted, Zenon
    <2>3. /\ Alt' = Alt \cup {bl} /\ m_alternative_chains'[bl].height = split_height + j - 1
          /\ \A b \in Alt : b # bl => m_alternative_chains'[b] = m_alternative_chains[b]
      BY <2>1, <2>2, Zenon DEF Put, Alt
    <2>4. Pushed' = j
      BY <1>1, <2>1, Zenon DEF Pushed
    <2>5. PushedHeights'
      <3>. SUFFICES ASSUME NEW i \in DOMAIN disconnected_chain
                    PROVE  /\ disconnected_chain[i] \in Alt' <=> i <= j
                           /\ i <= j => m_alternative_chains'[disconnected_chain[i]].height
                                            = split_height + i - 1
        BY <1>1, <2>4, Zenon DEF PushedHeights
      <3>1. CASE i = j
        BY <1>0, <2>3, <3>1
      <3>2. CASE i # j
        <4>1. disconnected_chain[i] # bl
          BY <1>0, <3>2, OldBlock, Zenon
        <4>2. i <= j - 1 <=> i <= j
          BY <1>0, <3>2
        <4>. QED  BY <1>2, <1>4, <2>3, <4>1, <4>2, Zenon DEF PushedHeights
      <3>. QED  BY <3>1, <3>2, Zenon
    <2>6. is_alternative_block_allowed(Height, split_height)'
      BY <1>1, <1>2, <2>1, Zenon DEF is_alternative_block_allowed, PushInv
    <2>. QED  BY <1>1, <2>1, <2>5, <2>6, Zenon DEF PushInv
  <1>11. ~Reorganize
    BY Zenon DEF Reorganize
  <1>. QED  BY <1>5, <1>6, <1>7, <1>8, <1>9, <1>10, <1>11, Zenon DEF AltStep

\* The disconnected blocks become alternative blocks from the first to the last,
\* and none is refused unless the first is, for a checkpoint.
LEMMA PushInvStep ==
    ASSUME Before, ContainersInv, PushInv, [Next]_vars
    PROVE  PushInv'
  <1>. USE DEF data, frame, env
  <1>. SUFFICES ASSUME mode' = "push", ~pool_refused' PROVE PushInv'
    BY Zenon DEF PushInv
  <1>0. TypeOK /\ IInv /\ ModeInv /\ ~pool_refused
    BY RefusedStays, Zenon DEF Before, IInv, SwitchInv
  <1>1. CASE MainWork
    <2>1. mode = "push" /\ (InMain \/ pc \in {"purge", "purged"})
      BY <1>0, <1>1, MainWorkChanges, Zenon
    <2>. QED  BY <1>0, <2>1, Zenon DEF InMain, ModeInv
  <1>2. CASE PopWork
    <2>1. mode = "push" /\ pc \in {"pop", "popping", "popped"}
      BY <1>0, <1>2, PopWorkChanges, Zenon
    <2>. QED  BY <1>0, <2>1, Zenon DEF ModeInv
  <1>3. CASE AltStep
    <2>1. mode = "push"
      BY <1>3, Zenon DEF AltStep, AltRefused, AltOrphaned, AltBegin, AltWalk,
         AltHeaderRefused, AddedAsAlternative, Reorganize
    <2>. QED  BY <1>0, <1>3, <2>1, PushAltStep, Zenon
  <1>4. CASE SwitchStep
    <2>1. /\ UNCHANGED <<chain, m_checkpoints>>
          /\ Advances /\ UNCHANGED <<alts, disconnected_chain, split_height>>
      BY <1>4, SwitchMoves, Zenon DEF Finish
    <2>2. Height' = Height /\ Alt' = Alt /\ m_alternative_chains' = m_alternative_chains
      BY <2>1, Zenon DEF chain, alts, Height, Alt
    <2>3. CASE PushOldChain
      <3>1. mode = "connect" /\ j' = 1 /\ pc' = "alt"
        BY <2>3, Zenon DEF PushOldChain, PushOldBlock
      <3>2. Pushed' = 0
        BY <3>1 DEF Pushed
      <3>3. Old \cap Alt = {}
        BY <1>0, <3>1, Zenon DEF ContainersInv, OldApart
      <3>4. \A i \in DOMAIN disconnected_chain : disconnected_chain[i] \notin Alt /\ ~(i <= 0)
        <4>1. disconnected_chain \in Seq(Block)
          BY <1>0, Zenon DEF TypeOK, ControlTypeOK
        <4>. QED  BY <3>3, <4>1 DEF Old, Range
      <3>5. PushedHeights'
        BY <2>1, <2>2, <3>2, <3>4, Zenon DEF PushedHeights
      <3>. QED  BY <3>1, <3>5 DEF PushInv
    <2>4. CASE PushNext
      <3>1. mode = "push" /\ pc = "ret" /\ r /\ j' = j + 1 /\ pc' = "alt" /\ j \in Nat
        BY <1>0, <2>4, Zenon DEF PushNext, PushOldBlock, TypeOK, ControlTypeOK
      <3>2. Pushed' = Pushed
        BY <3>1 DEF Pushed
      <3>3. PushedHeights'
        BY <1>0, <2>1, <2>2, <3>1, <3>2, Zenon DEF PushedHeights, PushInv
      <3>4. is_alternative_block_allowed(Height, split_height)'
        BY <1>0, <2>1, <2>2, <3>1, Zenon DEF is_alternative_block_allowed, PushInv
      <3>. QED  BY <3>1, <3>3, <3>4, Zenon DEF PushInv
    <2>5. ~(DisconnectDone \/ ConnectNext \/ ConnectFailed \/ PushFailed \/ ReconnectFirst
            \/ ReconnectNext)
      BY Zenon DEF DisconnectDone, ConnectNext, ConnectFailed, PushFailed, ReconnectFirst, ReconnectNext
    <2>. QED  BY <2>1, <2>3, <2>4, <2>5, Zenon DEF Advances
  <1>5. CASE Enter \/ Leave
    BY <1>5, Zenon DEF Enter, Leave, add_new_block, CheckpointRollback, ReturnFromAdd,
       CheckpointRollbackDone, Finish
  <1>6. CASE Outside \/ UNCHANGED vars
    <2>1. UNCHANGED <<control, chain, alts>>
      BY <1>6, OutsideUnchanged, Zenon DEF vars
    <2>2. UNCHANGED <<mode, pc, r, j, path, disconnected_chain, split_height, m_blocks,
                      m_alternative_chains>>
      BY <2>1, Zenon DEF control, chain, alts
    <2>3. m_checkpoints' = m_checkpoints
      <3>1. pc # "idle"
        BY <1>0, <2>2, Zenon DEF ModeInv
      <3>. QED  BY <3>1, CheckpointsStay, Zenon
    <2>4. Pushed' = Pushed /\ Alt' = Alt /\ Height' = Height
      BY <2>2, Zenon DEF Pushed, Alt, Height
    <2>5. PushedHeights' /\ (is_alternative_block_allowed(Height, split_height)' <=>
                             is_alternative_block_allowed(Height, split_height))
      BY <1>0, <2>2, <2>3, <2>4, Zenon DEF PushedHeights, is_alternative_block_allowed, PushInv
    <2>. QED  BY <1>0, <2>2, <2>3, <2>5, Zenon DEF PushInv
  <1>. QED  BY <1>1, <1>2, <1>3, <1>4, <1>5, <1>6, NextWork, Zenon
=============================================================================
