-------------------------------- MODULE ReorgProofs -------------------------
(***************************************************************************)
(* What a reorganisation leaves behind: no switch starts inside another,   *)
(* no block is in two containers, and without checkpoints the node is on   *)
(* the heaviest chain it has accepted.                                     *)
(***************************************************************************)
EXTENDS SwitchProofs

\* A block whose transactions are being added is not in the main chain: the ledger
\* has its miner_tx at the height above the last block.
LEMMA AddedNotInMain ==
    ASSUME IInv, LedgerInv, ~pool_refused, pc = "txs"
    PROVE  bl \notin Main
  <1>0. /\ Height \in Nat /\ bl \in Block /\ ChainIndexed
        /\ \A b \in Block : Len(TxHashes[b]) \in Nat /\ \A i \in 1..Height : m_blocks[i].id \in Block
    BY LedgerTypes, Zenon DEF IInv
  <1>1. Whole = Height /\ Partial
    BY Zenon DEF Whole, Partial
  <1>2. Stored(m_transactions, bl, Height, n) /\ n \in Nat
    BY <1>1, Zenon DEF LedgerInv, TopStored, IInv, TypeOK, ControlTypeOK
  <1>3. m_transactions[MinerTx[bl]].m_keeper_block_height = Height
    BY <1>2, Zenon DEF Stored
  <1>. SUFFICES ASSUME bl \in Main PROVE FALSE
    OBVIOUS
  <1>4. PICK i \in 1..Height : m_blocks[i].id = bl
    BY <1>0, Zenon DEF ChainIndexed, Main
  <1>5. Stored(m_transactions, bl, i - 1, Len(TxHashes[bl]))
    BY <1>1, <1>4, Zenon DEF LedgerInv, BlocksStored
  <1>6. m_transactions[MinerTx[bl]].m_keeper_block_height = i - 1
    BY <1>0, <1>5, Zenon DEF Stored
  <1>. QED  BY <1>0, <1>3, <1>4, <1>6

\* The steps of handle_block_to_main_chain keep the containers apart.
LEMMA MainApartStep ==
    ASSUME Before, ContainersInv, MainWork, [Next]_vars, ~pool_refused
    PROVE  MainApart' /\ AltApart' /\ OldApart'
  <1>. USE DEF frame
  <1>0. /\ TypeOK /\ IInv /\ ModeInv /\ HeightInv /\ PlacesInv /\ LedgerInv
        /\ MainApart /\ AltApart /\ OldApart
    BY Zenon DEF Before, IInv, SwitchInv, ContainersInv
  <1>1. /\ UNCHANGED <<mode, bl, alt_chain, k, j, disconnected_chain, split_height,
                       m_alternative_chains>>
        /\ pc \in {"main", "txs", "purge", "purged"} /\ pc' \in {"txs", "purge", "purged", "ret"}
        /\ pc' = "txs" => pc \in {"main", "txs"}
        /\ pc' = "ret" /\ r' => PushBlock
        /\ PushBlock \/ UNCHANGED <<m_blocks, m_blocks_index>>
        /\ UNCHANGED m_invalid_blocks \/ WrongInputs
    BY <1>0, MainWorkChanges, Zenon DEF InMain
  <1>2. mode \in {"add", "connect", "undo", "restore"}
    BY <1>0, <1>1, Zenon DEF ModeInv, TypeOK, ControlTypeOK, Modes
  <1>3. Alt' = Alt /\ Old' = Old /\ Switching' = Switching
    BY <1>1, Zenon DEF Alt, Old, Switching
  <1>4. mode = "add" => Old = {}
    BY <1>0 DEF HeightInv, Switching, Old, Range
  <1>5. InvalidTried \subseteq InvalidTried' /\ (ReconnectRefused => ReconnectRefused')
    <2>1. pc \in {"purge", "purged"} => pc' \in {"purge", "purged"} \/ (pc' = "ret" /\ ~r')
      BY <1>1, Zenon DEF PushBlock
    <2>. QED  BY <1>1, <2>1, Zenon DEF InvalidTried, ReconnectRefused
  <1>6. mode = "connect" => bl = alt_chain[k] /\ bl \in Alt /\ bl \in Range(alt_chain)
    BY <1>0, Zenon DEF PlacesInv, ConnectPlace, Switching, Range
  <1>7. mode \in {"undo", "restore"} /\ pc = "txs" => bl \in Old
    BY <1>0, Zenon DEF PlacesInv, RollbackPlace, InMain, Range, Old
  <1>8. mode = "add" /\ pc = "txs" => bl \notin Main \cup Alt \cup m_invalid_blocks
    BY <1>0, Zenon DEF PlacesInv, AddPlace, InMain, have_block, Main, Alt
  <1>9. CASE PushBlock
    <2>1. pc = "txs" /\ Main' = Main \cup {bl} /\ m_invalid_blocks' = m_invalid_blocks /\ pc' = "ret" /\ r'
      BY <1>9, Zenon DEF PushBlock, Put, Main, Return, alts
    <2>2. Switching => Base' = Base
      <3>1. Switching => \A i \in 1..split_height : m_blocks'[i] = m_blocks[i]
        <4>1. Switching => split_height \in 1..Height /\ Height \in Nat
          BY <1>0, LedgerTypes, Zenon DEF HeightInv, IInv
        <4>2. \A i \in 1..Height : m_blocks'[i] = m_blocks[i]
          BY <1>0, <1>9, BlocksChanged, Zenon DEF IInv, PopBlock, PushBlock
        <4>. QED  BY <4>1, <4>2
      <3>. QED  BY <1>1, <3>1, Zenon DEF Base
    <2>3. bl \notin m_invalid_blocks
      <3>1. CASE mode = "connect"
        <4>1. InvalidTried = {}
          BY <2>1, <3>1, Zenon DEF InvalidTried
        <4>. QED  BY <1>0, <1>6, <3>1, <4>1, Zenon DEF AltApart
      <3>2. CASE mode \in {"undo", "restore"}
        <4>1. ~ReconnectRefused
          BY <2>1, Zenon DEF ReconnectRefused
        <4>. QED  BY <1>0, <1>7, <2>1, <3>2, <4>1, Zenon DEF OldApart
      <3>. QED  BY <1>2, <1>8, <2>1, <3>1, <3>2, Zenon
    <2>4. mode \in {"add", "undo", "restore"} => bl \notin Alt
      BY <1>0, <1>7, <1>8, <2>1, Zenon DEF OldApart
    <2>5. mode = "connect" => bl \notin Old
      BY <1>0, <1>6, Zenon DEF OldApart
    <2>6. MainApart'
      BY <1>0, <1>1, <1>2, <1>3, <1>6, <2>1, <2>2, <2>3, <2>4, Zenon DEF MainApart
    <2>7. AltApart' /\ OldApart'
      BY <1>0, <1>1, <1>2, <1>3, <1>5, <2>1, <2>5, Zenon DEF AltApart, OldApart
    <2>. QED  BY <2>6, <2>7, Zenon
  <1>10. CASE ~PushBlock
    <2>1. m_blocks' = m_blocks /\ Main' = Main /\ Base' = Base
      BY <1>1, <1>10, Zenon DEF Main, Base
    <2>2. CASE m_invalid_blocks' = m_invalid_blocks
      <3>1. MainApart'
        BY <1>0, <1>1, <1>3, <2>1, <2>2, Zenon DEF MainApart
      <3>2. AltApart' /\ OldApart'
        BY <1>0, <1>1, <1>3, <1>5, <2>1, <2>2, Zenon DEF AltApart, OldApart
      <3>. QED  BY <3>1, <3>2, Zenon
    <2>3. CASE WrongInputs
      <3>1. pc = "txs" /\ pc' = "purge" /\ m_invalid_blocks' = m_invalid_blocks \cup {bl}
        BY <2>3, Zenon DEF WrongInputs
      <3>2. bl \notin Main
        BY <1>0, <3>1, AddedNotInMain, Zenon
      <3>3. MainApart'
        BY <1>0, <1>1, <1>3, <2>1, <3>1, <3>2, Zenon DEF MainApart
      <3>4. AltApart'
        <4>1. bl \in Alt => mode = "connect"
          BY <1>0, <1>2, <1>7, <1>8, <3>1, Zenon DEF OldApart
        <4>2. mode = "connect" => bl \in InvalidTried'
          BY <1>1, <1>6, <3>1, Zenon DEF InvalidTried
        <4>. QED  BY <1>0, <1>3, <1>5, <3>1, <4>1, <4>2, Zenon DEF AltApart
      <3>5. OldApart'
        <4>1. mode \in {"undo", "restore"} => ReconnectRefused'
          BY <1>1, <3>1, Zenon DEF ReconnectRefused
        <4>2. mode \in {"add", "connect"} => bl \notin Old
          BY <1>0, <1>4, <1>6, Zenon DEF OldApart
        <4>. QED  BY <1>0, <1>1, <1>2, <1>3, <1>5, <2>1, <3>1, <4>1, <4>2, Zenon DEF OldApart
      <3>. QED  BY <3>3, <3>4, <3>5, Zenon
    <2>. QED  BY <1>1, <2>2, <2>3, Zenon
  <1>. QED  BY <1>9, <1>10, Zenon

\* During a switch pop_block_from_blockchain does not fail.
LEMMA PopKeepsOn ==
    ASSUME Before, PopWork, ~pool_refused, Switching
    PROVE  pc' # "ret" /\ split_height \in 1..Height /\ Height \in Nat
  <1>0. TypeOK /\ HeightInv /\ LedgerInv /\ IInv
    BY Zenon DEF Before, IInv, SwitchInv
  <1>1. Height \in Nat /\ PopSucceeds
    BY <1>0, LedgerTypes, Zenon DEF IInv, LedgerInv
  <1>2. split_height \in 1..Height
    BY <1>0, Zenon DEF HeightInv
  <1>3. pc' = "ret" => PopGenesis \/ PopFailed
    <2>1. PurgeStep => pc' \in {"purge", "purged", "popping", "popped"}
      BY <1>0, Zenon DEF PurgeStep, TypeOK, ControlTypeOK
    <2>. QED  BY <2>1, Zenon DEF PopWork, QuietPop, PopNext, PopBlock
  <1>4. ~PopFailed
    BY <1>1, Zenon DEF PopSucceeds, PopFailed
  <1>5. PopGenesis => Height > split_height /\ Height <= 1
    BY Zenon DEF PopGenesis
  <1>. QED  BY <1>1, <1>2, <1>3, <1>4, <1>5

\* A block that a switch takes off the main chain joins disconnected_chain.
LEMMA PoppedIsOld ==
    ASSUME TypeOK, PopBlock
    PROVE  Old' = IF mode = "disconnect" THEN Old \cup {bl} ELSE Old
  <1>1. disconnected_chain \in Seq(Block) /\ bl \in Block
    BY Zenon DEF TypeOK, ControlTypeOK
  <1>2. CASE mode = "disconnect"
    <2>1. disconnected_chain' = <<bl>> \o disconnected_chain
      BY <1>2, Zenon DEF PopBlock
    <2>2. /\ DOMAIN disconnected_chain' = 1..(Len(disconnected_chain) + 1)
          /\ DOMAIN disconnected_chain = 1..Len(disconnected_chain) /\ Len(disconnected_chain) \in Nat
          /\ disconnected_chain'[1] = bl
          /\ \A i \in DOMAIN disconnected_chain : disconnected_chain'[i + 1] = disconnected_chain[i]
      BY <1>1, <2>1
    <2>3. /\ 1 \in DOMAIN disconnected_chain'
          /\ \A i \in DOMAIN disconnected_chain : i + 1 \in DOMAIN disconnected_chain'
      BY <2>2
    <2>4. ASSUME NEW i \in DOMAIN disconnected_chain', i # 1
          PROVE  disconnected_chain'[i] \in Old
      <3>1. i - 1 \in DOMAIN disconnected_chain /\ (i - 1) + 1 = i
        BY <2>2, <2>4
      <3>2. disconnected_chain[i - 1] = disconnected_chain'[i]
        BY <2>2, <3>1, Zenon
      <3>. QED  BY <3>1, <3>2, Zenon DEF Old, Range
    <2>5. Old \cup {bl} \subseteq Old'
      BY <2>2, <2>3, Zenon DEF Old, Range
    <2>6. Old' \subseteq Old \cup {bl}
      BY <2>2, <2>4, Zenon DEF Old, Range
    <2>. QED  BY <1>2, <2>5, <2>6, Zenon
  <1>3. CASE mode # "disconnect"
    BY <1>3, Zenon DEF PopBlock, Old
  <1>. QED  BY <1>2, <1>3, Zenon

\* Taking blocks off the main chain keeps the containers apart.
LEMMA PopApartStep ==
    ASSUME Before, ContainersInv, PopWork, [Next]_vars, ~pool_refused
    PROVE  MainApart' /\ AltApart' /\ OldApart'
  <1>0. /\ TypeOK /\ IInv /\ ModeInv /\ HeightInv /\ LedgerInv /\ MainApart /\ AltApart /\ OldApart
    BY Zenon DEF Before, IInv, SwitchInv, ContainersInv
  <1>1. /\ UNCHANGED <<mode, alt_chain, k, split_height, m_alternative_chains, m_invalid_blocks>>
        /\ pc \in {"pop", "popping", "popped"} /\ pc' \in {"pop", "popping", "popped", "ret"}
        /\ PopBlock \/ UNCHANGED <<m_blocks, m_blocks_index, disconnected_chain>>
    BY <1>0, PopWorkChanges, Zenon DEF alts
  <1>2. mode \in {"add", "disconnect", "checkpoint", "undo", "restore"}
    BY <1>0, <1>1, Zenon DEF ModeInv, TypeOK, ControlTypeOK, Modes
  <1>3. Alt' = Alt /\ Switching' = Switching
    BY <1>1, Zenon DEF Alt, Switching
  <1>4. Switching => pc' # "ret" /\ split_height \in 1..Height /\ Height \in Nat
    BY PopKeepsOn, Zenon
  <1>5. InvalidTried' = InvalidTried /\ ~ReconnectRefused /\ ~ReconnectRefused'
    <2>1. mode \in {"undo", "restore"} => Switching
      BY Zenon DEF Switching
    <2>. QED  BY <1>1, <1>2, <1>4, <2>1, Zenon DEF InvalidTried, ReconnectRefused
  <1>6. mode' \in {"undo", "restore"} => pc' \notin {"main", "txs", "purge", "purged", "ret"}
    BY <1>1, <1>4, Zenon DEF Switching
  <1>7. CASE PopBlock
    <2>1. /\ Main' = Main \ {bl} /\ bl \in Main
      <3>1. Main' = Main \ {bl} /\ pc = "popped"
        BY <1>7, Zenon DEF PopBlock, Without, Main
      <3>2. bl = get_tail_id /\ Height > 1 /\ Height \in Nat
        BY <1>0, <3>1, LedgerTypes, Zenon DEF IInv, ControlInv
      <3>3. Height \in 1..Height
        BY <3>2
      <3>. QED  BY <1>0, <3>1, <3>2, <3>3, Zenon DEF IInv, ChainIndexed, get_tail_id, Main
    <2>2. Switching => Base' = Base
      <3>1. Switching => split_height \in 1..(Height - 1)
        BY <1>0, <1>4, <1>7 DEF HeightInv, PopBlock
      <3>2. \A i \in 1..(Height - 1) : m_blocks'[i] = m_blocks[i]
        BY <1>0, <1>7, BlocksChanged, Zenon DEF IInv, PopBlock, PushBlock
      <3>3. Switching => \A i \in 1..split_height : m_blocks'[i] = m_blocks[i]
        BY <1>4, <3>1, <3>2
      <3>. QED  BY <1>1, <3>3, Zenon DEF Base
    <2>3. Old' = IF mode = "disconnect" THEN Old \cup {bl} ELSE Old
      BY <1>0, <1>7, PoppedIsOld, Zenon
    <2>4. MainApart'
      BY <1>0, <1>1, <1>2, <1>3, <1>6, <2>1, <2>2, Zenon DEF MainApart
    <2>5. AltApart'
      BY <1>0, <1>1, <1>3, <1>5, Zenon DEF AltApart
    <2>6. mode = "disconnect" => bl \notin Alt /\ bl \notin m_invalid_blocks
      BY <1>0, <2>1, Zenon DEF MainApart
    <2>7. OldApart'
      BY <1>0, <1>1, <1>2, <1>3, <1>5, <2>1, <2>3, <2>6, Zenon DEF OldApart
    <2>. QED  BY <2>4, <2>5, <2>7, Zenon
  <1>8. CASE ~PopBlock
    <2>1. Main' = Main /\ Base' = Base /\ Old' = Old
      BY <1>1, <1>8, Zenon DEF Main, Base, Old
    <2>2. MainApart'
      BY <1>0, <1>1, <1>3, <1>6, <2>1, Zenon DEF MainApart
    <2>3. AltApart' /\ OldApart'
      BY <1>0, <1>1, <1>3, <1>5, <2>1, Zenon DEF AltApart, OldApart
    <2>. QED  BY <2>2, <2>3, Zenon
  <1>. QED  BY <1>7, <1>8, Zenon

\* The steps of handle_alternative_block keep the containers apart: a block of an
\* alternative chain is new to the node, or was taken off the main chain.
LEMMA AltApartStep ==
    ASSUME Before, ContainersInv, AltStep, [Next]_vars, ~pool_refused
    PROVE  MainApart' /\ AltApart' /\ OldApart'
  <1>. USE DEF chain, alts, frame
  <1>0. /\ TypeOK /\ IInv /\ ModeInv /\ HeightInv /\ PlacesInv /\ MainApart /\ AltApart /\ OldApart
    BY Zenon DEF Before, IInv, SwitchInv, ContainersInv
  <1>1. /\ pc \in {"alt", "walk"} /\ pc' \in {"walk", "ret", "pop"}
        /\ UNCHANGED <<m_blocks, m_blocks_index, m_invalid_blocks>>
    BY Zenon DEF AltStep, AltRefused, AltOrphaned, AltBegin, AltWalk, AltHeaderRefused,
       AddedAsAlternative, Reorganize, data, Return
  <1>2. mode \in {"add", "push"}
    BY <1>0, <1>1, Zenon DEF ModeInv, TypeOK, ControlTypeOK, Modes
  <1>3. Main' = Main /\ ~ReconnectRefused /\ InvalidTried = {}
    BY <1>1, <1>2, Zenon DEF Main, ReconnectRefused, InvalidTried
  <1>4. CASE Reorganize
    <2>1. /\ mode = "add" /\ pc = "walk" /\ mode' = "disconnect" /\ disconnected_chain' = <<>>
      BY <1>4, Zenon DEF Reorganize
    <2>2. Alt' = Alt \cup {bl}
      BY <1>4, Zenon DEF Reorganize, InsertAlternative, Put, Alt
    <2>3. bl \notin Main \cup Alt \cup m_invalid_blocks
      BY <1>0, <2>1, Zenon DEF PlacesInv, AddPlace, have_block, Main, Alt
    <2>4. Base' \subseteq Main
      <3>1. split_height' \in 1..Height /\ Height \in Nat
        BY <1>0, <1>4, SplitInside, LedgerTypes, Zenon DEF IInv
      <3>2. \A i \in 1..Height : m_blocks[i].id \in Main
        BY <1>0, Zenon DEF IInv, ChainIndexed, Main
      <3>3. \A i \in 1..split_height' : i \in 1..Height
        BY <3>1
      <3>. QED  BY <1>1, <3>2, <3>3, Zenon DEF Base
    <2>5. Old' = {}
      BY <2>1 DEF Old, Range
    <2>6. ~ReconnectRefused' /\ InvalidTried' = {}
      BY <2>1, Zenon DEF ReconnectRefused, InvalidTried
    <2>7. MainApart'
      BY <1>0, <1>1, <1>3, <2>1, <2>2, <2>3, <2>4, Zenon DEF MainApart
    <2>8. AltApart' /\ OldApart'
      BY <1>0, <1>1, <1>3, <2>1, <2>2, <2>3, <2>5, <2>6, Zenon DEF AltApart, OldApart
    <2>. QED  BY <2>7, <2>8, Zenon
  <1>5. CASE ~Reorganize
    <2>1. UNCHANGED <<mode, alt_chain, k, split_height, disconnected_chain>>
      BY <1>5, Zenon DEF AltStep, AltRefused, AltOrphaned, AltBegin, AltWalk, AltHeaderRefused,
         AddedAsAlternative
    <2>2. Base' = Base /\ Old' = Old /\ Switching' = Switching
      BY <1>1, <2>1, Zenon DEF Base, Old, Switching
    <2>3. ~ReconnectRefused' /\ InvalidTried' = {}
      BY <1>2, <2>1, Zenon DEF ReconnectRefused, InvalidTried
    <2>4. mode = "add" => Old = {}
      BY <1>0 DEF HeightInv, Switching, Old, Range
    <2>5. CASE AddedAsAlternative
      <3>1. pc = "walk" /\ Alt' = Alt \cup {bl}
        BY <2>5, Zenon DEF AddedAsAlternative, InsertAlternative, Put, Alt
      <3>2. mode = "add" => bl \notin Main \cup Alt \cup m_invalid_blocks
        BY <1>0, <3>1, Zenon DEF PlacesInv, AddPlace, have_block, Main, Alt
      <3>3. mode = "push" => bl \in Old /\ bl \notin Main /\ bl \notin m_invalid_blocks
        <4>1. mode = "push" => bl \in Old
          BY <1>0, Zenon DEF PlacesInv, PushPlace, Old, Range
        <4>. QED  BY <1>0, <1>3, <4>1, Zenon DEF OldApart
      <3>4. mode = "push" => bl \notin Base
        <4>1. mode = "push" => split_height \in 1..Height /\ Height \in Nat
          BY <1>0, LedgerTypes, Zenon DEF IInv, HeightInv, Switching
        <4>2. \A i \in 1..Height : m_blocks[i].id \in Main
          BY <1>0, Zenon DEF IInv, ChainIndexed, Main
        <4>3. mode = "push" => \A i \in 1..split_height : i \in 1..Height
          BY <4>1
        <4>. QED  BY <3>3, <4>2, <4>3, Zenon DEF Base
      <3>5. MainApart'
        BY <1>0, <1>1, <1>2, <1>3, <2>1, <2>2, <3>1, <3>2, <3>3, <3>4, Zenon DEF MainApart, Switching
      <3>6. AltApart' /\ OldApart'
        BY <1>0, <1>1, <1>2, <1>3, <2>1, <2>2, <2>3, <2>4, <3>1, <3>2, <3>3, Zenon DEF AltApart, OldApart
      <3>. QED  BY <3>5, <3>6, Zenon
    <2>6. CASE ~AddedAsAlternative
      <3>1. Alt' = Alt
        BY <1>5, <2>6, Zenon DEF AltStep, AltRefused, AltOrphaned, AltBegin, AltWalk,
           AltHeaderRefused, data, Alt
      <3>2. MainApart'
        BY <1>0, <1>1, <1>2, <1>3, <2>1, <2>2, <3>1, Zenon DEF MainApart
      <3>3. AltApart' /\ OldApart'
        BY <1>0, <1>1, <1>3, <2>1, <2>2, <2>3, <3>1, Zenon DEF AltApart, OldApart
      <3>. QED  BY <3>2, <3>3, Zenon
    <2>. QED  BY <2>5, <2>6, Zenon
  <1>. QED  BY <1>4, <1>5, Zenon

\* Going from one block of a switch to the next keeps the containers apart.
LEMMA AdvanceApart ==
    ASSUME Before, ContainersInv, PushInv, Advances, ~pool_refused,
           UNCHANGED <<chain, alts, alt_chain, disconnected_chain, split_height>>
    PROVE  MainApart' /\ AltApart' /\ OldApart'
  <1>. USE DEF frame
  <1>0. /\ TypeOK /\ IInv /\ ModeInv /\ HeightInv /\ PlacesInv /\ MainApart /\ AltApart /\ OldApart
    BY Zenon DEF Before, IInv, SwitchInv, ContainersInv
  <1>1. /\ Main' = Main /\ Alt' = Alt /\ Old' = Old /\ Base' = Base
        /\ UNCHANGED <<m_invalid_blocks, alt_chain>>
    BY Zenon DEF Main, Alt, Old, Base, chain, alts
  <1>2. CASE DisconnectDone \/ ConnectNext \/ PushOldChain \/ PushNext
    <2>1. /\ \/ mode = "disconnect" /\ mode' = "connect"
             \/ mode = "connect" /\ r /\ mode' = "connect" /\ pc = "ret"
             \/ mode = "connect" /\ r /\ mode' = "push" /\ pc = "ret"
             \/ mode = "push" /\ mode' = "push"
          /\ pc' \in {"main", "alt"}
      BY <1>2, Zenon DEF DisconnectDone, ConnectNext, PushOldChain, PushNext, ConnectBlock, PushOldBlock
    <2>2. InvalidTried = {} /\ InvalidTried' = {} /\ ~ReconnectRefused
      BY <2>1, Zenon DEF InvalidTried, ReconnectRefused
    <2>3. MainApart'
      BY <1>0, <1>1, <2>1, Zenon DEF MainApart, Switching
    <2>4. AltApart' /\ OldApart'
      BY <1>0, <1>1, <2>1, <2>2, Zenon DEF AltApart, OldApart
    <2>. QED  BY <2>3, <2>4, Zenon
  <1>3. CASE ConnectFailed
    <2>1. mode = "connect" /\ pc = "ret" /\ ~r /\ mode' = "undo" /\ pc' = "pop" /\ k' = k
      BY <1>3, Zenon DEF ConnectFailed
    <2>2. InvalidTried' = InvalidTried /\ ~ReconnectRefused
      BY <1>1, <2>1, Zenon DEF InvalidTried, ReconnectRefused
    <2>3. MainApart'
      BY <1>0, <1>1, <2>1, Zenon DEF MainApart, Switching
    <2>4. AltApart' /\ OldApart'
      BY <1>0, <1>1, <2>1, <2>2, Zenon DEF AltApart, OldApart
    <2>. QED  BY <2>3, <2>4, Zenon
  <1>4. CASE PushFailed
    <2>1. mode = "push" /\ pc = "ret" /\ ~r /\ mode' = "restore" /\ pc' = "pop"
      BY <1>4, Zenon DEF PushFailed
    <2>2. InvalidTried = {} /\ InvalidTried' = {} /\ ~ReconnectRefused
      BY <2>1, Zenon DEF InvalidTried, ReconnectRefused
    <2>3. Old \cap Alt = {}
      <3>1. Pushed = 0 /\ PushedHeights
        BY <2>1 DEF PushInv, Pushed
      <3>2. disconnected_chain \in Seq(Block)
        BY <1>0, Zenon DEF TypeOK, ControlTypeOK
      <3>3. \A i \in DOMAIN disconnected_chain : ~(i <= 0)
        BY <3>2
      <3>4. \A i \in DOMAIN disconnected_chain : disconnected_chain[i] \notin Alt
        BY <3>1, <3>3, Zenon DEF PushedHeights
      <3>. QED  BY <3>4, Zenon DEF Old, Range
    <2>4. MainApart'
      BY <1>0, <1>1, <2>1, Zenon DEF MainApart, Switching
    <2>5. AltApart' /\ OldApart'
      BY <1>0, <1>1, <2>1, <2>2, <2>3, Zenon DEF AltApart, OldApart
    <2>. QED  BY <2>4, <2>5, Zenon
  <1>5. CASE ReconnectFirst \/ ReconnectNext
    <2>1. /\ mode \in {"undo", "restore"} /\ mode' = mode /\ pc' = "main" /\ k' = k
          /\ \/ pc = "pop" /\ Height <= split_height
             \/ pc = "ret" /\ r
      BY <1>5, Zenon DEF ReconnectFirst, ReconnectNext, ReconnectBlock
    <2>2. InvalidTried' = InvalidTried /\ ~ReconnectRefused
      BY <1>1, <2>1, Zenon DEF InvalidTried, ReconnectRefused
    <2>3. Main \cap Alt = {}
      <3>1. CASE pc = "ret"
        BY <1>0, <2>1, <3>1, Zenon DEF MainApart
      <3>2. CASE pc = "pop" /\ Height <= split_height
        <4>1. split_height = Height
          BY <1>0, <2>1, <3>2, LedgerTypes DEF IInv, HeightInv, Switching
        <4>2. Main \subseteq Base
          BY <1>0, <4>1, Zenon DEF IInv, ChainIndexed, Main, Base
        <4>3. Base \cap Alt = {}
          BY <1>0, <2>1, Zenon DEF MainApart, Switching
        <4>. QED  BY <4>2, <4>3, Zenon
      <3>. QED  BY <2>1, <3>1, <3>2, Zenon
    <2>4. MainApart'
      BY <1>0, <1>1, <2>1, <2>3, Zenon DEF MainApart, Switching
    <2>5. AltApart' /\ OldApart'
      BY <1>0, <1>1, <2>1, <2>2, Zenon DEF AltApart, OldApart
    <2>. QED  BY <2>4, <2>5, Zenon
  <1>. QED  BY <1>2, <1>3, <1>4, <1>5, Zenon DEF Advances

\* When the block thread is done, no block is in two containers.
LEMMA FinishApart ==
    ASSUME Before, ContainersInv, SwitchStep \/ Leave, Finish, ~pool_refused
    PROVE  MainApart' /\ AltApart' /\ OldApart'
  <1>. USE DEF data, chain, alts
  <1>0. /\ TypeOK /\ IInv /\ ModeInv /\ PlacesInv /\ MainApart /\ AltApart /\ OldApart
    BY Zenon DEF Before, IInv, SwitchInv, ContainersInv
  <1>1. mode' = "none" /\ pc' = "idle" /\ disconnected_chain' = <<>>
    BY Zenon DEF Finish
  <1>2. Main' = Main
    BY Zenon DEF SwitchStep, Leave, DisconnectDone, DisconnectFailed, ConnectNext, ConnectFailed,
       PushOldChain, PushNext, PushFailed, SwitchSucceeded, ReconnectFirst, ReconnectNext,
       UndoDone, RestoreDone, ReturnFromAdd, CheckpointRollbackDone, Main
  <1>. SUFFICES Main \cap Alt' = {} /\ Main \cap m_invalid_blocks' = {} /\ Alt' \cap m_invalid_blocks' = {}
    <2>1. Old' = {} /\ ~Switching'
      BY <1>1 DEF Old, Range, Switching
    <2>. QED  BY <1>1, <1>2, <2>1, Zenon DEF MainApart, AltApart, OldApart
  <1>3. Main \cap m_invalid_blocks = {} /\ Alt \cap m_invalid_blocks \subseteq InvalidTried
    BY <1>0, Zenon DEF MainApart, AltApart
  <1>4. CASE SwitchSucceeded
    <2>1. /\ mode \in {"connect", "push"} /\ pc = "ret" /\ r /\ m_invalid_blocks' = m_invalid_blocks
          /\ m_alternative_chains' = Without(m_alternative_chains, Range(alt_chain))
      BY <1>4, Zenon DEF SwitchSucceeded
    <2>2. Alt' = Alt \ Range(alt_chain)
      BY <2>1, Zenon DEF Without, Alt
    <2>3. InvalidTried = {} /\ Main \cap Alt \subseteq Range(alt_chain)
      BY <1>0, <2>1, Zenon DEF InvalidTried, MainApart
    <2>. QED  BY <1>3, <2>1, <2>2, <2>3, Zenon
  <1>5. CASE UndoDone
    <2>1. /\ mode = "undo" /\ pc = "ret"
          /\ m_invalid_blocks' = m_invalid_blocks \cup {alt_chain[i] : i \in {k, k + 1} \cap DOMAIN alt_chain}
          /\ m_alternative_chains' =
                Without(m_alternative_chains, {alt_chain[i] : i \in k..Len(alt_chain)})
      BY <1>5, Zenon DEF UndoDone, RollbackOver
    <2>2. Alt' = Alt \ {alt_chain[i] : i \in k..Len(alt_chain)}
      BY <2>1, Zenon DEF Without, Alt
    <2>3. /\ alt_chain \in Seq(Block) /\ k \in DOMAIN alt_chain
          /\ \A i \in DOMAIN alt_chain : alt_chain[i] \in Alt
      BY <1>0, <2>1, Zenon DEF TypeOK, ControlTypeOK, PlacesInv, RollbackPlace, Switching, Range
    <2>4. \A i \in {k, k + 1} \cap DOMAIN alt_chain : i \in k..Len(alt_chain) /\ alt_chain[i] \in Alt
      BY <2>3
    <2>5. k \in k..Len(alt_chain) /\ InvalidTried = {alt_chain[k]}
      BY <2>1, <2>3 DEF InvalidTried
    <2>6. Main \cap Alt = {}
      BY <1>0, <2>1, Zenon DEF MainApart
    <2>7. \A b \in m_invalid_blocks' : b \in m_invalid_blocks \/ (b \in Alt /\ b \notin Alt')
      BY <2>1, <2>2, <2>4, Zenon
    <2>8. \A b \in m_invalid_blocks : b \notin Alt'
      BY <1>3, <2>2, <2>5, Zenon
    <2>. QED  BY <1>3, <2>2, <2>6, <2>7, <2>8, Zenon
  <1>6. CASE ~SwitchSucceeded /\ ~UndoDone
    <2>1. UNCHANGED <<m_alternative_chains, m_invalid_blocks>> /\ mode \in {"disconnect", "restore", "add", "checkpoint"}
          /\ (mode = "restore" => pc = "ret")
      <3>1. ~(DisconnectDone \/ ConnectNext \/ ConnectFailed \/ PushOldChain \/ PushNext
              \/ PushFailed \/ ReconnectFirst \/ ReconnectNext)
        BY <1>1, Zenon DEF DisconnectDone, ConnectNext, ConnectFailed, PushOldChain, PushNext, PushFailed,
           ReconnectFirst, ReconnectNext
      <3>. QED  BY <1>6, <3>1, Zenon DEF SwitchStep, Leave, DisconnectFailed, RestoreDone, RollbackOver,
           ReturnFromAdd, CheckpointRollbackDone
    <2>2. Main \cap Alt = {} /\ InvalidTried = {} /\ Alt' = Alt
      BY <1>0, <2>1, Zenon DEF MainApart, InvalidTried, Alt
    <2>. QED  BY <1>3, <2>1, <2>2, Zenon
  <1>. QED  BY <1>4, <1>5, <1>6, Zenon

\* No step puts a block where another container has it, other than the blocks that
\* a running switch is about to move.
LEMMA ContainersInvStep ==
    ASSUME Before, ContainersInv, PushInv, [Next]_vars
    PROVE  ContainersInv'
  <1>. USE DEF data, chain, alts, frame
  <1>. SUFFICES ASSUME ~pool_refused' PROVE MainApart' /\ AltApart' /\ OldApart'
    BY Zenon DEF ContainersInv
  <1>0. ~pool_refused /\ ModeInv /\ HeightInv /\ MainApart /\ AltApart /\ OldApart
    BY RefusedStays, Zenon DEF Before, IInv, SwitchInv, ContainersInv
  <1>1. CASE MainWork \/ PopWork \/ AltStep
    BY <1>0, <1>1, MainApartStep, PopApartStep, AltApartStep, Zenon
  <1>2. CASE SwitchStep /\ ~Finish
    BY <1>0, <1>2, SwitchMoves, AdvanceApart, Zenon
  <1>3. CASE (SwitchStep \/ Leave) /\ Finish
    BY <1>0, <1>3, FinishApart, Zenon
  <1>4. Leave => Finish
    BY Zenon DEF Leave, ReturnFromAdd, CheckpointRollbackDone
  <1>5. CASE Enter
    <2>1. /\ pc = "idle" /\ mode' \in {"add", "checkpoint"}
          /\ UNCHANGED <<m_blocks_index, m_alternative_chains, m_invalid_blocks, disconnected_chain>>
      BY <1>5, Zenon DEF Enter, add_new_block, CheckpointRollback
    <2>2. mode = "none"
      BY <1>0, <2>1, Zenon DEF ModeInv
    <2>3. Main' = Main /\ Alt' = Alt /\ Old' = Old /\ ~Switching' /\ ~ReconnectRefused /\ InvalidTried = {}
      BY <2>1, <2>2, Zenon DEF Main, Alt, Old, Switching, ReconnectRefused, InvalidTried
    <2>. QED  BY <1>0, <2>1, <2>2, <2>3, Zenon DEF MainApart, AltApart, OldApart
  <1>6. CASE Outside \/ UNCHANGED vars
    <2>1. UNCHANGED <<control, chain, alts>>
      BY <1>6, OutsideUnchanged, Zenon DEF vars
    <2>2. /\ Main' = Main /\ Alt' = Alt /\ Old' = Old /\ Base' = Base /\ Switching' = Switching
          /\ ReconnectRefused' = ReconnectRefused /\ InvalidTried' = InvalidTried
      BY <2>1, Zenon DEF control, Main, Alt, Old, Base, Switching, ReconnectRefused, InvalidTried
    <2>. QED  BY <1>0, <2>1, <2>2, Zenon DEF control, MainApart, AltApart, OldApart
  <1>. QED  BY <1>1, <1>2, <1>3, <1>4, <1>5, <1>6, NextWork, Zenon

-----------------------------------------------------------------------------
\* The tail of the chain that a switch replaces.
OldTop == OldChain[Kept + Len(disconnected_chain)]

\* Without checkpoints a switch is begun and finished for more work only, and a
\* switch that fails leaves no heavier chain behind.
NoPoints == DOMAIN m_checkpoints = {} /\ ~pool_refused
Lighter(S, w) == \A b \in S : Work[b] <= w
HeaviestInv ==
    /\ cp_pc # "idle" => DOMAIN m_checkpoints # {}
    /\ NoPoints =>
          /\ mode \notin {"restore", "checkpoint"} /\ ~discard
          /\ mode \in {"none", "add"} => Lighter(Alt, MainDifficulty)
          /\ mode = "disconnect" => MainDifficulty <= Work[OldTop] /\ pc # "ret"
          /\ Switching => Lighter((Alt \ {Top}) \cup Old, Work[OldTop]) /\ Work[OldTop] \in Nat

\* Points are only added, and update_checkpoints works on some.
LEMMA PointsStep ==
    ASSUME [Next]_vars
    PROVE  \/ m_checkpoints' = m_checkpoints /\ (cp_pc' # "idle" => cp_pc # "idle")
           \/ DOMAIN m_checkpoints' # {}
  <1>. USE DEF data, env
  <1>1. CASE AddMinerTx \/ AddBlockTx \/ PurgeStep \/ PushBlock \/ PopBlock
    BY <1>1, Zenon DEF AddMinerTx, AddBlockTx, PurgeStep, PushBlock, PopBlock
  <1>2. CASE QuietMain \/ QuietPop \/ AltStep \/ SwitchStep
    BY <1>2, Zenon DEF QuietMain, MainHeaderRefused, UnknownTx, WrongInputs, BlockRefused,
         ReturnAfterPurge, QuietPop, PopNext, PopGenesis, PopFailed, AltStep, AltRefused,
         AltOrphaned, AltBegin, AltWalk, AltHeaderRefused, AddedAsAlternative, Reorganize,
         SwitchStep, DisconnectDone, DisconnectFailed, ConnectNext, ConnectFailed,
         PushOldChain, PushNext, PushFailed, SwitchSucceeded, ReconnectFirst, ReconnectNext,
         UndoDone, RestoreDone
  <1>3. CASE Enter \/ Leave
    <2>1. CASE CheckpointRollback
      BY <2>1, Zenon DEF CheckpointRollback
    <2>. QED  BY <1>3, <2>1, Zenon DEF Enter, Leave, add_new_block, ReturnFromAdd, CheckpointRollbackDone
  <1>4. CASE Outside
    <2>1. CASE \E S \in SUBSET (DOMAIN Checkpoints \ DOMAIN m_checkpoints) : load_new_checkpoints(S)
      BY <2>1, Zenon DEF load_new_checkpoints
    <2>2. CASE check_against_checkpoints \/ CheckpointsPassed
      BY <2>2, Zenon DEF check_against_checkpoints, CheckpointsPassed
    <2>. QED  BY <1>4, <2>1, <2>2, Zenon DEF Outside,
         handle_incoming_tx, IncomingThread, IncomingHaveTx, IncomingImages,
         IncomingInputs, IncomingInsert, remove_stuck_transactions, TimePasses
  <1>5. CASE UNCHANGED vars
    BY <1>5, Zenon DEF vars
  <1>. QED  BY <1>1, <1>2, <1>3, <1>4, <1>5, NextCases, Zenon DEF Quiet

\* While a switch runs the chain it replaces has the same tail.
LEMMA OldTopSame ==
    ASSUME Before, [Next]_vars, Switching, Switching'
    PROVE  OldTop' = OldTop
  <1>0. /\ IInv /\ ModeInv /\ HeightInv /\ Height \in Nat /\ split_height \in 1..Height
        /\ disconnected_chain \in Seq(Block)
    BY LedgerTypes, Zenon DEF Before, SwitchInv, IInv, HeightInv, TypeOK, ControlTypeOK
  <1>1. OldChain' = OldChain
    BY <1>0, OldChainSame, Zenon
  <1>2. IInv' /\ HeightInv'
    <2>1. IInv'
      BY <1>0, IInvStep, Zenon
    <2>. QED  BY <1>0, <2>1, HeightInvStep, Zenon
  <1>3. /\ Height' \in Nat /\ split_height' \in 1..Height' /\ disconnected_chain' \in Seq(Block)
    <2>1. TypeOK' /\ split_height' \in 1..Height'
      BY <1>2, Zenon DEF IInv, HeightInv
    <2>. QED  BY <2>1 DEF TypeOK, ChainTypeOK, ControlTypeOK, Height
  <1>4. Kept + Len(disconnected_chain) \in Nat /\ (Kept + Len(disconnected_chain))' \in Nat
    BY <1>0, <1>3 DEF Kept
  <1>5. /\ DOMAIN OldChain = 1..(Kept + Len(disconnected_chain))
        /\ DOMAIN OldChain' = 1..(Kept + Len(disconnected_chain))'
    BY Zenon DEF OldChain
  <1>6. (Kept + Len(disconnected_chain))' = Kept + Len(disconnected_chain)
    BY <1>1, <1>4, <1>5
  <1>. QED  BY <1>1, <1>6, Zenon DEF OldTop

\* It is the tail of the main chain when the switch begins, and the last block of
\* disconnected_chain when the blocks are off.
LEMMA OldTopIs ==
    ASSUME IInv, HeightInv, Switching
    PROVE  /\ disconnected_chain = <<>> /\ mode = "disconnect" => OldTop = get_tail_id
           /\ disconnected_chain # <<>> =>
                OldTop = disconnected_chain[Len(disconnected_chain)] /\ OldTop \in Old
  <1>0. /\ Height \in Nat /\ split_height \in 1..Height /\ disconnected_chain \in Seq(Block)
        /\ Kept \in Nat /\ Kept >= 1
    BY LedgerTypes DEF IInv, HeightInv, TypeOK, ControlTypeOK, Kept
  <1>1. ASSUME disconnected_chain = <<>>, mode = "disconnect" PROVE OldTop = get_tail_id
    <2>1. Kept = Height /\ Kept + Len(disconnected_chain) = Height
      BY <1>0, <1>1 DEF Kept
    <2>. QED  BY <1>0, <2>1 DEF OldTop, OldChain, get_tail_id
  <1>2. ASSUME disconnected_chain # <<>>
        PROVE  OldTop = disconnected_chain[Len(disconnected_chain)] /\ OldTop \in Old
    <2>1. Len(disconnected_chain) \in DOMAIN disconnected_chain /\ Len(disconnected_chain) >= 1
      BY <1>0, <1>2
    <2>2. /\ Kept + Len(disconnected_chain) \in 1..(Kept + Len(disconnected_chain))
          /\ ~(Kept + Len(disconnected_chain) <= Kept)
          /\ (Kept + Len(disconnected_chain)) - Kept = Len(disconnected_chain)
      BY <1>0, <2>1
    <2>3. OldTop = disconnected_chain[Len(disconnected_chain)]
      BY <2>2, Zenon DEF OldTop, OldChain
    <2>. QED  BY <2>1, <2>3, Zenon DEF Old, Range
  <1>. QED  BY <1>1, <1>2, Zenon

\* A step within a switch that brings no heavier block in.
LEMMA HeavySwitch ==
    ASSUME Before, HeaviestInv, [Next]_vars, NoPoints, Switching, ~(cp_pc' # "idle"),
           mode' \in {"disconnect", "connect", "push", "undo"}, UNCHANGED <<alt_chain, discard>>,
           \A b \in Alt' : b \in Alt \cup Old,
           \A b \in Old' : b \in Old \/ Work[b] <= Work[OldTop],
           mode' = "disconnect" => MainDifficulty' <= Work[OldTop] /\ pc' # "ret"
    PROVE  HeaviestInv'
  <1>1. Switching' /\ mode' \notin {"restore", "checkpoint", "none", "add"}
    BY Zenon DEF Switching
  <1>2. OldTop' = OldTop /\ Top' = Top
    BY <1>1, OldTopSame, Zenon DEF Top
  <1>3. Lighter((Alt \ {Top}) \cup Old, Work[OldTop]) /\ Work[OldTop] \in Nat /\ ~discard
    BY Zenon DEF HeaviestInv
  <1>4. Lighter((Alt' \ {Top}) \cup Old', Work[OldTop])
    BY <1>3, Zenon DEF Lighter
  <1>. QED  BY <1>1, <1>2, <1>3, <1>4, Zenon DEF HeaviestInv, Lighter

\* The main chain grows heavier with each block; the blocks of a switch are known.
LEMMA HeavyMain ==
    ASSUME Before, HeaviestInv, [Next]_vars, MainWork, NoPoints, ~(cp_pc' # "idle")
    PROVE  HeaviestInv'
  <1>. USE DEF frame
  <1>0. TypeOK /\ IInv /\ ModeInv /\ WorkInv
    BY Zenon DEF Before, IInv, SwitchInv
  <1>1. /\ UNCHANGED <<mode, alt_chain, disconnected_chain, discard, m_alternative_chains>>
        /\ pc \in {"main", "txs", "purge", "purged"}
        /\ PushBlock \/ m_blocks' = m_blocks
    BY <1>0, MainWorkChanges, Zenon DEF InMain
  <1>2. Alt' = Alt /\ Old' = Old
    BY <1>1, Zenon DEF Alt, Old
  <1>3. mode \in {"add", "connect", "undo"}
    <2>1. mode \in {"add", "connect", "undo", "restore"}
      <3>1. mode \in Modes
        BY <1>0, Zenon DEF TypeOK, ControlTypeOK
      <3>. QED  BY <1>0, <1>1, <3>1, Zenon DEF ModeInv, Modes
    <2>2. mode # "restore"
      BY Zenon DEF HeaviestInv
    <2>. QED  BY <2>1, <2>2, Zenon
  <1>4. CASE mode \in {"connect", "undo"}
    <2>1. Switching /\ mode' \in {"disconnect", "connect", "push", "undo"} /\ mode' # "disconnect"
      BY <1>1, <1>4, Zenon DEF Switching
    <2>2. \A b \in Alt' : b \in Alt \cup Old
      BY <1>2, Zenon
    <2>. QED  BY <1>1, <1>2, <2>1, <2>2, HeavySwitch, Zenon
  <1>5. CASE mode = "add"
    <2>1. Lighter(Alt, MainDifficulty) /\ ~discard
      BY <1>5, Zenon DEF HeaviestInv
    <2>2. \A b \in Alt : Work[b] \in Nat
      <3>1. \A b \in Alt : m_alternative_chains[b].cumulative_difficulty \in Nat
        BY <1>0, Zenon DEF TypeOK, AltTypeOK, Alt
      <3>. QED  BY <1>0, <3>1, Zenon DEF WorkInv
    <2>3. MainDifficulty' = MainDifficulty \/
          (MainDifficulty \in Nat /\ MainDifficulty' \in Nat /\ MainDifficulty <= MainDifficulty')
      <3>1. CASE PushBlock
        <4>0. m_blocks' = Append(m_blocks, PushedEntry(bl)) /\ m_blocks \in Seq(BlockEntry) /\ bl \in Block
          <5>1. TypeOK /\ ControlInv /\ ChainIndexed
            BY <1>0, Zenon DEF IInv
          <5>2. bl \in Block
            BY <5>1, LedgerTypes, Zenon
          <5>. QED  BY <3>1, <5>1, <5>2, Zenon DEF PushBlock, TypeOK, ChainTypeOK
        <4>9. Height > 0
          BY <1>0, Zenon DEF IInv, ChainIndexed
        <4>1. m_blocks' = Append(m_blocks, PushedEntry(bl)) /\ m_blocks \in Seq(BlockEntry)
              /\ bl \in Block /\ Height \in 1..Len(m_blocks)
          BY <4>0, <4>9 DEF Height
        <4>2. m_blocks[Height] \in BlockEntry
          BY <4>1
        <4>3. MainDifficulty \in Nat /\ Difficulty[bl] \in Nat
          BY <4>1, <4>2, BlockAssumption, Zenon DEF BlockEntry, MainDifficulty
        <4>4. MainDifficulty' = PushedEntry(bl).cumulative_difficulty
          BY <4>1 DEF MainDifficulty, Height
        <4>. QED  BY <4>3, <4>4 DEF PushedEntry
      <3>2. CASE m_blocks' = m_blocks
        BY <3>2, Zenon DEF MainDifficulty, Height
      <3>. QED  BY <1>1, <3>1, <3>2, Zenon
    <2>4. Lighter(Alt', MainDifficulty')
      BY <1>2, <2>1, <2>2, <2>3 DEF Lighter
    <2>. QED  BY <1>1, <1>5, <2>1, <2>4, Zenon DEF HeaviestInv, Lighter, Switching
  <1>. QED  BY <1>3, <1>4, <1>5, Zenon

\* A switch takes the old chain off from its tail, which is the heaviest of it.
LEMMA HeavyPop ==
    ASSUME Before, HeaviestInv, [Next]_vars, PopWork, NoPoints, ~(cp_pc' # "idle")
    PROVE  HeaviestInv'
  <1>. USE DEF alts
  <1>0. TypeOK /\ IInv /\ ModeInv /\ WorkInv /\ ControlInv /\ ChainIndexed /\ Height \in Nat /\ ~pool_refused
    BY LedgerTypes, Zenon DEF Before, IInv, SwitchInv, NoPoints
  <1>1. /\ UNCHANGED <<mode, alt_chain, discard, m_alternative_chains>>
        /\ pc \in {"pop", "popping", "popped"}
        /\ PopBlock \/ UNCHANGED <<m_blocks, disconnected_chain>>
    BY <1>0, PopWorkChanges, Zenon
  <1>2. mode \in {"disconnect", "undo"}
    <2>1. mode \in {"disconnect", "undo", "restore", "checkpoint"}
      BY <1>0, <1>1, Zenon DEF ModeInv, TypeOK, ControlTypeOK, Modes
    <2>2. mode \notin {"restore", "checkpoint"}
      BY Zenon DEF HeaviestInv
    <2>. QED  BY <2>1, <2>2, Zenon
  <1>3. Switching /\ Alt' = Alt /\ mode' \in {"disconnect", "connect", "push", "undo"} /\ pc' # "ret"
    <2>1. Switching
      BY <1>2, Zenon DEF Switching
    <2>2. pc' # "ret"
      BY <1>0, <2>1, PopKeepsOn, Zenon
    <2>. QED  BY <1>1, <1>2, <2>1, <2>2, Zenon DEF Alt
  <1>4. mode = "disconnect" => MainDifficulty <= Work[OldTop]
    BY Zenon DEF HeaviestInv
  <1>5. CASE PopBlock
    <2>1. /\ Height' = Height - 1 /\ Height > 1 /\ bl = m_blocks[Height].id
          /\ m_blocks'[Height - 1] = m_blocks[Height - 1]
      <3>1. ~PushBlock
        BY <1>5, Zenon DEF PopBlock, PushBlock
      <3>. QED  BY <1>0, <1>5, <3>1, BlocksChanged
    <2>2. MainDifficulty = Work[bl]
      BY <1>0, <2>1 DEF WorkInv, MainDifficulty
    <2>3. Old' = IF mode = "disconnect" THEN Old \cup {bl} ELSE Old
      BY <1>0, <1>5, PoppedIsOld, Zenon
    <2>4. mode = "disconnect" => MainDifficulty' <= Work[OldTop]
      <3>1. Height \in 2..Height /\ Height - 1 \in 1..Len(m_blocks) /\ m_blocks \in Seq(BlockEntry)
            /\ bl \in Block
        BY <1>0, <2>1 DEF TypeOK, ChainTypeOK, ControlTypeOK, Height
      <3>2. m_blocks[Height - 1] \in BlockEntry
        BY <3>1
      <3>3. m_blocks[Height].cumulative_difficulty = m_blocks[Height - 1].cumulative_difficulty + Difficulty[bl]
        BY <1>0, <2>1, <3>1, Zenon DEF ChainIndexed
      <3>4. Difficulty[bl] \in Nat /\ m_blocks[Height - 1].cumulative_difficulty \in Nat
        BY <3>1, <3>2, BlockAssumption, Zenon DEF BlockEntry
      <3>5. Work[OldTop] \in Nat
        BY <1>3, Zenon DEF HeaviestInv
      <3>6. MainDifficulty' = m_blocks[Height - 1].cumulative_difficulty
        BY <2>1, Zenon DEF MainDifficulty
      <3>. QED  BY <1>4, <3>3, <3>4, <3>5, <3>6 DEF MainDifficulty
    <2>5. \A b \in Old' : b \in Old \/ Work[b] <= Work[OldTop]
      BY <1>4, <2>2, <2>3, Zenon
    <2>6. \A b \in Alt' : b \in Alt \cup Old
      BY <1>3, Zenon
    <2>. QED  BY <1>1, <1>3, <2>4, <2>5, <2>6, HeavySwitch, Zenon
  <1>6. CASE UNCHANGED <<m_blocks, disconnected_chain>>
    <2>1. Old' = Old /\ MainDifficulty' = MainDifficulty
      BY <1>6, Zenon DEF Old, MainDifficulty, Height
    <2>2. \A b \in Alt' : b \in Alt \cup Old
      BY <1>3, Zenon
    <2>. QED  BY <1>1, <1>3, <1>4, <2>1, <2>2, HeavySwitch, Zenon
  <1>. QED  BY <1>1, <1>5, <1>6, Zenon

\* handle_alternative_block begins a switch as soon as a block is heavier.
LEMMA HeavyAlt ==
    ASSUME Before, HeaviestInv, [Next]_vars, AltStep, NoPoints, ~(cp_pc' # "idle")
    PROVE  HeaviestInv'
  <1>. USE DEF chain, alts, frame
  <1>0. TypeOK /\ IInv /\ ModeInv /\ WorkInv /\ PlacesInv
    BY Zenon DEF Before, IInv, SwitchInv
  <1>1. /\ pc \in {"alt", "walk"} /\ pc' \in {"walk", "ret", "pop"} /\ m_blocks' = m_blocks
    BY Zenon DEF AltStep, AltRefused, AltOrphaned, AltBegin, AltWalk, AltHeaderRefused,
       AddedAsAlternative, Reorganize, data, Return
  <1>2. mode \in {"add", "push"} /\ ~discard /\ (mode = "add" => Lighter(Alt, MainDifficulty))
    <2>1. mode \in Modes
      BY <1>0, Zenon DEF TypeOK, ControlTypeOK
    <2>2. mode \in {"add", "push"}
      BY <1>0, <1>1, <2>1, Zenon DEF ModeInv, Modes
    <2>. QED  BY <2>2, Zenon DEF HeaviestInv
  <1>3. MainDifficulty' = MainDifficulty
    BY <1>1, Zenon DEF MainDifficulty, Height
  <1>4. CASE Reorganize
    <2>1. /\ pc = "walk" /\ PathHead \notin DOMAIN m_alternative_chains /\ mode = "add"
          /\ mode' = "disconnect" /\ disconnected_chain' = <<>> /\ discard' = is_a_checkpoint
          /\ alt_chain' = Append(path, bl) /\ pc' = "pop"
      BY <1>4, Zenon DEF Reorganize
    <2>2. Alt' = Alt \cup {bl} /\ ~is_a_checkpoint
      BY <1>4, Zenon DEF Reorganize, InsertAlternative, Put, Alt, NoPoints, is_a_checkpoint
    <2>3. Top' = bl /\ Old' = {}
      <3>1. path \in Seq(Block) /\ bl \in Block
        BY <1>0, Zenon DEF TypeOK, ControlTypeOK
      <3>. QED  BY <2>1, <3>1 DEF Top, Old, Range
    <2>4. OldTop' = get_tail_id'
      <3>1. Height \in Nat /\ Height >= 1 /\ Height' = Height
        BY <1>0, <1>1, LedgerTypes DEF IInv, ChainIndexed, Height
      <3>2. Kept' = Height' /\ (Kept + Len(disconnected_chain))' = Height'
        BY <2>1, <3>1 DEF Kept
      <3>. QED  BY <3>1, <3>2 DEF OldTop, OldChain, get_tail_id
    <2>5. Work[get_tail_id'] = MainDifficulty /\ MainDifficulty \in Nat
      <3>1. Height \in 1..Len(m_blocks) /\ m_blocks \in Seq(BlockEntry) /\ Height \in 1..Height
        BY <1>0, LedgerTypes DEF IInv, ChainIndexed, TypeOK, ChainTypeOK, Height
      <3>2. m_blocks[Height] \in BlockEntry
        BY <3>1
      <3>3. MainDifficulty = Work[m_blocks[Height].id]
        BY <1>0, <3>1, Zenon DEF WorkInv, MainDifficulty
      <3>4. get_tail_id' = m_blocks[Height].id
        BY <1>1, Zenon DEF get_tail_id, Height
      <3>. QED  BY <3>2, <3>3, <3>4, Zenon DEF BlockEntry, MainDifficulty
    <2>6. Lighter((Alt' \ {Top'}) \cup Old', Work[OldTop'])
      BY <1>2, <2>1, <2>2, <2>3, <2>4, <2>5, Zenon DEF Lighter
    <2>7. MainDifficulty' <= Work[OldTop'] /\ Work[OldTop'] \in Nat
      BY <1>3, <2>4, <2>5
    <2>. QED  BY <2>1, <2>2, <2>6, <2>7, Zenon DEF HeaviestInv, Lighter, Switching
  <1>5. CASE ~Reorganize
    <2>1. UNCHANGED <<mode, alt_chain, discard, disconnected_chain>>
      BY <1>5, Zenon DEF AltStep, AltRefused, AltOrphaned, AltBegin, AltWalk, AltHeaderRefused,
         AddedAsAlternative
    <2>2. Old' = Old
      BY <2>1, Zenon DEF Old
    <2>3. Alt' = Alt \/ (AddedAsAlternative /\ Alt' = Alt \cup {bl})
      <3>1. CASE AddedAsAlternative
        BY <3>1, Zenon DEF AddedAsAlternative, InsertAlternative, Put, Alt
      <3>2. CASE ~AddedAsAlternative
        BY <1>5, <3>2, Zenon DEF AltStep, AltRefused, AltOrphaned, AltBegin, AltWalk,
           AltHeaderRefused, data, Alt
      <3>. QED  BY <3>1, <3>2, Zenon
    <2>4. CASE mode = "push"
      <3>1. bl \in Old
        BY <1>0, <2>4, Zenon DEF PlacesInv, PushPlace, Old, Range
      <3>2. \A b \in Alt' : b \in Alt \cup Old
        BY <2>3, <3>1, Zenon
      <3>3. Switching /\ mode' \in {"disconnect", "connect", "push", "undo"} /\ mode' # "disconnect"
        BY <2>1, <2>4, Zenon DEF Switching
      <3>. QED  BY <2>1, <2>2, <3>2, <3>3, HeavySwitch, Zenon
    <2>5. CASE mode = "add"
      <3>1. AddedAsAlternative => Work[bl] <= MainDifficulty
        <4>1. SUFFICES ASSUME AddedAsAlternative PROVE Work[bl] <= MainDifficulty
          OBVIOUS
        <4>2. pc = "walk" /\ PathHead \notin DOMAIN m_alternative_chains /\ ~SwitchNeeded
          BY <2>5, <4>1, Zenon DEF AddedAsAlternative
        <4>3. AltDifficulty = Work[bl] /\ AltDifficulty \in Nat
          BY <1>0, <4>2, AltEntry, Zenon
        <4>4. MainDifficulty \in Nat
          <5>1. Height \in 1..Len(m_blocks) /\ m_blocks \in Seq(BlockEntry)
            BY <1>0, LedgerTypes, SMTT(30) DEF IInv, ChainIndexed, TypeOK, ChainTypeOK, Height
          <5>2. m_blocks[Height] \in BlockEntry
            BY <5>1
          <5>. QED  BY <5>2, Zenon DEF BlockEntry, MainDifficulty
        <4>. QED  BY <4>2, <4>3, <4>4 DEF SwitchNeeded
      <3>2. Lighter(Alt', MainDifficulty)
        BY <1>2, <2>3, <2>5, <3>1, Zenon DEF Lighter
      <3>. QED  BY <1>2, <1>3, <2>1, <2>5, <3>2, Zenon DEF HeaviestInv, Lighter, Switching
    <2>. QED  BY <1>2, <2>4, <2>5, Zenon
  <1>. QED  BY <1>4, <1>5, Zenon

\* A switch ends on the heavier chain, or back on the old one without the blocks
\* that were heavier.
LEMMA HeavyFinish ==
    ASSUME Before, HeaviestInv, [Next]_vars, SwitchStep \/ Leave, Finish, NoPoints, ~(cp_pc' # "idle")
    PROVE  HeaviestInv'
  <1>. USE DEF data, chain, alts
  <1>0. TypeOK /\ IInv /\ ModeInv /\ WorkInv /\ PlacesInv /\ HeightInv /\ ReasonInv /\ SwitchInv
    BY Zenon DEF Before, IInv, SwitchInv
  <1>1. mode' = "none" /\ pc' = "idle" /\ ~discard' /\ ~discard /\ mode \notin {"restore", "checkpoint"}
        /\ ~(mode = "disconnect" /\ pc = "ret")
    BY Zenon DEF Finish, HeaviestInv
  <1>2. m_blocks' = m_blocks
    BY Zenon DEF SwitchStep, Leave, DisconnectDone, DisconnectFailed, ConnectNext, ConnectFailed,
       PushOldChain, PushNext, PushFailed, SwitchSucceeded, ReconnectFirst, ReconnectNext,
       UndoDone, RestoreDone, ReturnFromAdd, CheckpointRollbackDone
  <1>3. MainDifficulty' = MainDifficulty
    BY <1>2, Zenon DEF MainDifficulty, Height
  <1>. SUFFICES Lighter(Alt', MainDifficulty)
    BY <1>1, <1>3, Zenon DEF HeaviestInv, Lighter, Switching
  <1>4. Switching => Lighter((Alt \ {Top}) \cup Old, Work[OldTop]) /\ Work[OldTop] \in Nat
    BY Zenon DEF HeaviestInv
  <1>5. \A b \in Alt : Work[b] \in Nat
    <2>1. \A b \in Alt : m_alternative_chains[b].cumulative_difficulty \in Nat
      BY <1>0, Zenon DEF TypeOK, AltTypeOK, Alt
    <2>. QED  BY <1>0, <2>1, Zenon DEF WorkInv
  <1>6. Height \in 1..Height /\ MainDifficulty = Work[get_tail_id]
    <2>1. Height \in 1..Height
      BY <1>0, LedgerTypes DEF IInv, ChainIndexed
    <2>. QED  BY <1>0, <2>1, Zenon DEF WorkInv, MainDifficulty, get_tail_id
  <1>7. alt_chain \in Seq(Block) /\ disconnected_chain \in Seq(Block)
    BY <1>0, Zenon DEF TypeOK, ControlTypeOK
  <1>8. CASE SwitchSucceeded
    <2>1. mode = "push" /\ m_alternative_chains' = Without(m_alternative_chains, Range(alt_chain))
      BY <1>1, <1>8, Zenon DEF SwitchSucceeded
    <2>2. Switching /\ get_tail_id = Top /\ alt_chain # <<>> /\ disconnected_chain # <<>>
      BY <1>0, <2>1, Zenon DEF Switching, PlacesInv, PushPlace, IInv, ControlInv
    <2>3. Top \in Range(alt_chain)
      BY <1>7, <2>2 DEF Top, Range
    <2>4. Alt' = Alt \ Range(alt_chain)
      BY <2>1, Zenon DEF Without, Alt
    <2>5. OldTop \in Old
      BY <1>0, <2>2, OldTopIs, Zenon
    <2>6. Work[OldTop] < Work[Top] /\ Work[Top] \in Nat
      BY <1>0, <1>1, <2>2, <2>5, NewTail, Zenon DEF ReasonInv
    <2>7. \A b \in Alt' : Work[b] <= Work[OldTop] /\ Work[b] \in Nat
      BY <1>4, <1>5, <2>2, <2>3, <2>4, Zenon DEF Lighter
    <2>. QED  BY <1>4, <1>6, <2>2, <2>6, <2>7 DEF Lighter
  <1>9. CASE UndoDone
    <2>1. /\ mode = "undo" /\ pc = "ret"
          /\ m_alternative_chains' =
                Without(m_alternative_chains, {alt_chain[i] : i \in k..Len(alt_chain)})
      BY <1>9, Zenon DEF UndoDone, RollbackOver
    <2>2. Switching /\ disconnected_chain # <<>> /\ k \in DOMAIN alt_chain
      BY <1>0, <2>1, Zenon DEF Switching, PlacesInv, RollbackPlace, IInv, ControlInv
    <2>3. Alt' \subseteq Alt \ {Top}
      <3>1. Len(alt_chain) \in k..Len(alt_chain)
        BY <1>7, <2>2
      <3>. QED  BY <2>1, <3>1, Zenon DEF Without, Alt, Top
    <2>4. ~Exempt
      BY Zenon DEF Exempt, NoPoints, check_block
    <2>5. /\ Height = split_height + Len(disconnected_chain)
          /\ \A i \in DOMAIN disconnected_chain : m_blocks[split_height + i].id = disconnected_chain[i]
      BY <1>0, <1>1, <2>1, <2>4, RollbackRestores, Zenon
    <2>6. Len(disconnected_chain) \in DOMAIN disconnected_chain
      BY <1>7, <2>2
    <2>7. get_tail_id = OldTop
      BY <1>0, <2>2, <2>5, <2>6, OldTopIs, Zenon DEF get_tail_id
    <2>. QED  BY <1>4, <1>6, <2>2, <2>3, <2>7, Zenon DEF Lighter
  <1>10. CASE ~SwitchSucceeded /\ ~UndoDone
    <2>1. mode = "add" /\ m_alternative_chains' = m_alternative_chains
      <3>1. ~(DisconnectDone \/ ConnectNext \/ ConnectFailed \/ PushOldChain \/ PushNext
              \/ PushFailed \/ ReconnectFirst \/ ReconnectNext)
        BY <1>1, Zenon DEF DisconnectDone, ConnectNext, ConnectFailed, PushOldChain, PushNext, PushFailed,
           ReconnectFirst, ReconnectNext
      <3>2. ~DisconnectFailed /\ ~RestoreDone /\ ~CheckpointRollbackDone
        BY <1>1, Zenon DEF DisconnectFailed, RestoreDone, CheckpointRollbackDone
      <3>. QED  BY <1>10, <3>1, <3>2, Zenon DEF SwitchStep, Leave, ReturnFromAdd
    <2>. QED  BY <2>1, Zenon DEF HeaviestInv, Alt
  <1>. QED  BY <1>8, <1>9, <1>10, Zenon

\* Between its phases a switch changes no block and no chain.
LEMMA HeavyAdvance ==
    ASSUME Before, HeaviestInv, PushInv, [Next]_vars, SwitchStep, ~Finish, NoPoints,
           ~(cp_pc' # "idle")
    PROVE  HeaviestInv'
  <1>1. Advances /\ UNCHANGED <<alts, alt_chain, disconnected_chain, discard>>
    BY SwitchMoves, Zenon
  <1>2. ~PushFailed
    BY Zenon DEF PushFailed, PushInv, NoPoints
  <1>3. mode \notin {"restore", "checkpoint"}
    BY Zenon DEF HeaviestInv
  <1>4. Switching /\ mode' \in {"connect", "push", "undo"}
    BY <1>1, <1>2, <1>3, Zenon DEF Advances, Switching, DisconnectDone, ConnectNext, ConnectFailed,
       PushOldChain, PushNext, ReconnectFirst, ReconnectNext
  <1>5. Alt' = Alt /\ Old' = Old /\ UNCHANGED <<alt_chain, discard>>
    BY <1>1, Zenon DEF alts, Alt, Old
  <1>6. mode' \in {"disconnect", "connect", "push", "undo"} /\ mode' # "disconnect"
    BY <1>4, Zenon
  <1>7. \A b \in Alt' : b \in Alt \cup Old
    BY <1>5, Zenon
  <1>8. \A b \in Old' : b \in Old \/ Work[b] <= Work[OldTop]
    BY <1>5, Zenon
  <1>. QED  BY <1>4, <1>5, <1>6, <1>7, <1>8, HeavySwitch, Zenon

\* No step leaves a chain with more work aside while no checkpoint is known.
LEMMA HeaviestInvStep ==
    ASSUME Before, HeaviestInv, PushInv, [Next]_vars
    PROVE  HeaviestInv'
  <1>. USE DEF data, chain, alts, frame
  <1>0. TypeOK /\ ModeInv
    BY Zenon DEF Before, IInv, SwitchInv
  <1>1. CASE DOMAIN m_checkpoints' # {}
    BY <1>1, Zenon DEF HeaviestInv, NoPoints
  <1>2. CASE DOMAIN m_checkpoints' = {}
    <2>1. m_checkpoints' = m_checkpoints /\ (cp_pc' # "idle" => cp_pc # "idle")
      BY <1>2, PointsStep, Zenon
    <2>2. ~(cp_pc' # "idle") /\ ~(cp_pc # "idle")
      BY <1>2, <2>1, Zenon DEF HeaviestInv
    <2>3. CASE pool_refused'
      BY <2>2, <2>3, Zenon DEF HeaviestInv, NoPoints
    <2>4. CASE ~pool_refused'
      <3>0. NoPoints
        BY <1>0, <1>2, <2>1, <2>4, RefusedStays, Zenon DEF NoPoints
      <3>1. CASE MainWork \/ PopWork \/ AltStep
        BY <2>2, <3>0, <3>1, HeavyMain, HeavyPop, HeavyAlt, Zenon
      <3>2. CASE SwitchStep /\ ~Finish
        BY <2>2, <3>0, <3>2, HeavyAdvance, Zenon
      <3>3. CASE (SwitchStep \/ Leave) /\ Finish
        BY <2>2, <3>0, <3>3, HeavyFinish, Zenon
      <3>4. Leave => Finish
        BY Zenon DEF Leave, ReturnFromAdd, CheckpointRollbackDone
      <3>5. CASE Enter
        <4>1. ~CheckpointRollback
          BY <2>2, Zenon DEF CheckpointRollback
        <4>2. /\ pc = "idle" /\ mode' = "add" /\ discard' = discard
              /\ UNCHANGED <<m_blocks, m_alternative_chains>>
          BY <3>5, <4>1, Zenon DEF Enter, add_new_block
        <4>3. mode = "none"
          BY <1>0, <4>2, Zenon DEF ModeInv
        <4>4. MainDifficulty' = MainDifficulty /\ Alt' = Alt
          BY <4>2, Zenon DEF MainDifficulty, Height, Alt
        <4>5. ~discard /\ Lighter(Alt, MainDifficulty)
          BY <3>0, <4>3, Zenon DEF HeaviestInv
        <4>. QED  BY <2>2, <4>2, <4>4, <4>5, Zenon DEF HeaviestInv, Lighter, Switching
      <3>6. CASE Outside \/ UNCHANGED vars
        <4>1. UNCHANGED <<control, chain, alts>>
          BY <3>6, OutsideUnchanged, Zenon DEF vars
        <4>2. /\ Alt' = Alt /\ Old' = Old /\ Top' = Top /\ OldTop' = OldTop
              /\ MainDifficulty' = MainDifficulty /\ Switching' = Switching
          BY <4>1, Zenon DEF control, Alt, Old, Top, OldTop, OldChain, Kept, MainDifficulty, Height,
             Switching
        <4>. QED  BY <2>2, <3>0, <4>1, <4>2, Zenon DEF control, HeaviestInv, Lighter
      <3>. QED  BY <3>1, <3>2, <3>3, <3>4, <3>5, <3>6, NextWork, Zenon
    <2>. QED  BY <2>3, <2>4, Zenon
  <1>. QED  BY <1>1, <1>2, Zenon

-----------------------------------------------------------------------------
\* The node starts with the genesis block alone, and no thread at work.
LEMMA WorkInit == Init => WorkInv /\ PlacesInv /\ ReasonInv
  <1>. SUFFICES ASSUME Init PROVE WorkInv /\ PlacesInv /\ ReasonInv
    OBVIOUS
  <1>1. /\ m_blocks = <<[id |-> Genesis, cumulative_difficulty |-> Difficulty[Genesis]]>>
        /\ DOMAIN m_alternative_chains = {} /\ pc = "idle" /\ mode = "none"
        /\ disconnected_chain = <<>>
    BY Zenon DEF Init, InitChain, InitBlockThread
  <1>2. Height = 1 /\ m_blocks[1] = [id |-> Genesis, cumulative_difficulty |-> Difficulty[Genesis]]
    BY <1>1, Zenon DEF Height
  <1>3. WorkInv
    BY <1>1, <1>2, TreeAssumption DEF WorkInv, Alt
  <1>4. PlacesInv
    BY <1>1 DEF PlacesInv, AddPlace, ConnectPlace, PushPlace, RollbackPlace, WalkPlace, Switching,
       Alt, Old, Range
  <1>. QED  BY <1>1, <1>3, <1>4, Zenon DEF ReasonInv, Switching

\* At the start the containers hold the genesis block alone.
LEMMA ContainersInit == Init => ContainersInv /\ PushInv /\ HeaviestInv
  <1>. SUFFICES ASSUME Init PROVE ContainersInv /\ PushInv /\ HeaviestInv
    OBVIOUS
  <1>1. /\ m_invalid_blocks = {} /\ ~discard /\ cp_pc = "idle"
        /\ Alt = {} /\ pc = "idle" /\ mode = "none" /\ Old = {}
    BY DEF Init, InitChain, InitBlockThread, InitOthers, Alt, Old, Range
  <1>2. ContainersInv
    BY <1>1, Zenon DEF ContainersInv, MainApart, AltApart, OldApart, InvalidTried, Switching
  <1>. QED  BY <1>1, <1>2, Zenon DEF PushInv, HeaviestInv, Lighter, Switching

\* The invariant of the block thread and its switches, as one.
SwitchingInv == Before /\ ContainersInv /\ PushInv /\ HeaviestInv

\* It holds at the start and is kept by every step of every thread.
LEMMA SwitchingInvHolds ==
    /\ Init => SwitchingInv
    /\ SwitchingInv /\ [Next]_vars => SwitchingInv'
  <1>1. Init => SwitchingInv
    BY IInvInit, LedgerInit, SwitchInit, WorkInit, ContainersInit, Zenon DEF SwitchingInv, Before
  <1>2. ASSUME SwitchingInv, [Next]_vars PROVE SwitchingInv'
    <2>0. Before /\ ContainersInv /\ PushInv /\ HeaviestInv
      BY <1>2, Zenon DEF SwitchingInv
    <2>1. IInv /\ LedgerInv /\ SwitchInv /\ ModeInv /\ HeadersChecked /\ WorkInv /\ PlacesInv /\ ReasonInv
      BY <2>0, Zenon DEF Before, SwitchInv, AcceptInv
    <2>2. IInv' /\ LedgerInv' /\ SwitchInv'
      BY <1>2, <2>1, IInvStep, LedgerStep, SwitchInvStep, Zenon
    <2>3. WorkInv' /\ PlacesInv' /\ ReasonInv'
      BY <1>2, <2>1, WorkInvStep, PlacesInvStep, ReasonInvStep, Zenon
    <2>4. ContainersInv' /\ PushInv' /\ HeaviestInv'
      BY <1>2, <2>0, ContainersInvStep, PushInvStep, HeaviestInvStep, Zenon
    <2>. QED  BY <2>2, <2>3, <2>4, Zenon DEF SwitchingInv, Before
  <1>. QED  BY <1>1, <1>2, Zenon

\* switch_to_alternative_blockchain stores the chain it took off through
\* handle_alternative_block, which could itself decide to switch: it never does,
\* so a switch never starts inside another.
THEOREM SwitchesDoNotNest == Spec => []NoNestedReorg
  <1>1. SwitchingInv => NoNestedReorg
    BY NestedExcluded, Zenon DEF SwitchingInv, Before, SwitchInv, AcceptInv
  <1>. QED  BY <1>1, SwitchingInvHolds, PTL DEF Spec

\* Between two block operations no block is in two of the main chain, the
\* alternative chains and the invalid blocks, unless the pool refused to take back
\* a transaction of a block that was purged.
THEOREM ContainersStayApart == Spec => [](pool_refused \/ ContainersDisjoint)
  <1>1. SwitchingInv => (pool_refused \/ ContainersDisjoint)
    <2>. SUFFICES ASSUME SwitchingInv, ~pool_refused, pc = "idle"
                  PROVE  /\ DOMAIN m_blocks_index \cap DOMAIN m_alternative_chains = {}
                         /\ DOMAIN m_blocks_index \cap m_invalid_blocks = {}
                         /\ DOMAIN m_alternative_chains \cap m_invalid_blocks = {}
      BY Zenon DEF ContainersDisjoint
    <2>1. ModeInv /\ MainApart /\ AltApart
      BY Zenon DEF SwitchingInv, Before, SwitchInv, ContainersInv
    <2>2. mode = "none"
      BY <2>1, Zenon DEF ModeInv
    <2>3. InvalidTried = {}
      BY <2>2, Zenon DEF InvalidTried
    <2>. QED  BY <2>1, <2>2, <2>3, Zenon DEF MainApart, AltApart, Main, Alt
  <1>. QED  BY <1>1, SwitchingInvHolds, PTL DEF Spec

\* As long as no checkpoint is known the node ends every block operation on the
\* heaviest chain that it has accepted, whatever switches failed before.
THEOREM OnTheHeaviestChain == Spec => []HeaviestChain
  <1>1. SwitchingInv => HeaviestChain
    <2>. SUFFICES ASSUME SwitchingInv, pc = "idle", NoPoints, NEW b \in Alt
                  PROVE  m_alternative_chains[b].cumulative_difficulty <= MainDifficulty
      BY Zenon DEF HeaviestChain, NoPoints, Alt
    <2>1. ModeInv /\ WorkInv /\ HeaviestInv
      BY Zenon DEF SwitchingInv, Before, SwitchInv
    <2>2. mode = "none"
      BY <2>1, Zenon DEF ModeInv
    <2>3. Lighter(Alt, MainDifficulty)
      BY <2>1, <2>2, Zenon DEF HeaviestInv
    <2>4. m_alternative_chains[b].cumulative_difficulty = Work[b]
      BY <2>1, Zenon DEF WorkInv
    <2>. QED  BY <2>3, <2>4, Zenon DEF Lighter
  <1>. QED  BY <1>1, SwitchingInvHolds, PTL DEF Spec
=============================================================================
