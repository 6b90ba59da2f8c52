SPECIFICATION LiveSpec
CONSTANTS
    g = g
    b1 = b1
    b2 = b2
    b3 = b3
    c1 = c1
    c2 = c2
    c3 = c3
    d2 = d2
    d3 = d3
    e1 = e1
    t1 = t1
    t2 = t2
    t3 = t3
    k1 = k1
    k2 = k2
    Block <- PointBlock
    Genesis = g
    PrevId <- PointPrevId
    TxHashes <- PointTxHashes
    MinerTx <- PointMinerTx
    Difficulty <- PointDifficulty
    WorkOk = {g, b1, b2, b3, c1, c2, c3}
    RewardOk = {g, b1, b2, b3, c1, c2, c3}
    EarlyBlock = {}
    Tx = {t1}
    KeyImage = {k1}
    Vin <- OneVin
    Ring <- OneRing
    UnlockTime <- PointUnlockTime
    GenHeight <- PointGenHeight
    Relayable = {t1}
    UnlockWindow = 1
    DeltaBlocks = 1
    Checkpoints <- HighPoints
INVARIANTS
    ControlInv
    
PROPERTIES
    FailedReorgRestores
    
