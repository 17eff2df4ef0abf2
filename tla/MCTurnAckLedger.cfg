CONSTANTS
    r1 = r1  a1 = a1  a1b = a1b  a1c = a1c  a2 = a2
    Items = {r1, a1, a1b, a1c, a2}
    KeyOf <- ItemKey
    RoleOf <- ItemRole
    None = None
    MaxAttempts = 2
    MaxGenerationTurns = 1
SPECIFICATION LedgerSpec
CHECK_DEADLOCK FALSE
SYMMETRY Symmetry
VIEW View
CONSTRAINT Situations
INVARIANTS NoAckAfterResult QueuedAckHasChain
