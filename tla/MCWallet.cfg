SPECIFICATION Spec
CONSTANTS
    Spends = {s1, s2}
    Passwords = {p1, p2}
    MaxRuns = 3
    OldFiles = TRUE
INVARIANTS   KeysKept
PROPERTIES WalletReturns
