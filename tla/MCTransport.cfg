SPECIFICATION Spec
INVARIANTS
    
    ReleasedCleanly
    LimitsKept
PROPERTIES
    PacketsWhole
    EverythingReturns
\* a connection, a server and the calls over a connection end for good
CHECK_DEADLOCK FALSE
