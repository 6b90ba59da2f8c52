SPECIFICATION Spec
CONSTANTS
    g = g
    b1 = b1
    b2 = b2
    b3 = b3
    c1 = c1
    c2 = c2
    c3 = c3
    d2 = d2
    d3 = d3
    e1 = e1
    t1 = t1
    t2 = t2
    t3 = t3
    k1 = k1
    k2 = k2
    Block <- ReorgBlock
    Genesis = g
    PrevId <- ReorgPrevId
    TxHashes <- ReorgTxHashes
    MinerTx <- ReorgMinerTx
    Difficulty <- ReorgDifficulty
    WorkOk = {g, b1, b2, c1, c2, c3, d3, e1}
    RewardOk = {g, b1, b2, c1, c2, c3, d3}
    EarlyBlock = {c2}
    Tx = {t1, t2, t3}
    KeyImage = {k1, k2}
    Vin <- ReorgVin
    Ring <- ReorgRing
    UnlockTime <- ReorgUnlockTime
    GenHeight <- ReorgGenHeight
    Relayable = {t1, t2, t3}
    UnlockWindow = 1
    DeltaBlocks = 1
    Checkpoints <- NoPoints
INVARIANTS
    NoDoubleSpend
    ChainIndexed
    LedgerMatchesChain
    NoNestedReorg
    ContainersDisjoint
    HeaviestChain
PROPERTIES
    NoTxLost
    FailedReorgRestores
