SPECIFICATION Spec
CONSTANTS
    Clients = {c1, c2}
    None = None
    MaxCalls = 2
    Commands = {"OPEN", "BLOCKS", "PUT", "SAVE_BC", "OUTPUT_INDEXES", "START", "GET_INFO", "GET_PEER_LIST", "SET_LOG_HASH_RATE", "SET_LOG_LEVEL", "START_SAVE_GRAPH", "STOP_SAVE_GRAPH", "GET_BLOCK_HASH"}
INVARIANTS SessionSound 
PROPERTIES ClientRecovers
\* The wallet may be done, and the daemon may be gone for good.
CHECK_DEADLOCK FALSE
