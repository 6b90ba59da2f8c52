SPECIFICATION Spec
CONSTANTS
    g = g
    b1 = b1
    b2 = b2
    b3 = b3
    c1 = c1
    c2 = c2
    c3 = c3
    d2 = d2
    d3 = d3
    e1 = e1
    t1 = t1
    t2 = t2
    t3 = t3
    k1 = k1
    k2 = k2
    Block <- RaceBlock
    Genesis = g
    PrevId <- RacePrevId
    TxHashes <- RaceTxHashes
    MinerTx <- RaceMinerTx
    Difficulty <- RaceDifficulty
    WorkOk = {g, b1, c1, c2, d2}
    RewardOk = {g, b1, c1, c2, d2}
    EarlyBlock = {}
    Tx = {t1}
    KeyImage = {k1}
    Vin <- OneVin
    Ring <- OneRing
    UnlockTime <- RaceUnlockTime
    GenHeight <- RaceGenHeight
    Relayable = {t1}
    UnlockWindow = 1
    DeltaBlocks = 1
    Checkpoints <- NoPoints
INVARIANTS
    PurgedTxReturns
