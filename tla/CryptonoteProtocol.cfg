SPECIFICATION LiveSpec
CONSTANTS
    Blocks <- TreeBlocks
    Genesis = "g"
    Parent <- TreeParent
    Difficulty <- TreeDifficulty
    Peers = {"p1", "p2"}
    Conns = {"k1", "k2"}
    PeerOf <- TreePeerOf
    LocalTip = "b1"
    PeerTips <- TreePeerTips
    OnlyLonger = TRUE
    IdsCount = 3
    BlocksCount = 2
    RecentCount = 2
    MaxDrops = 1
INVARIANTS  NoOrphanInSync
PROPERTY SyncCompletes
