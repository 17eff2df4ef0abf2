\* An ack admitted at the end of another utterance, not by its own chain.
CONSTANTS
    r1 = r1  a1 = a1  a1b = a1b  a1c = a1c  a2 = a2
    Items = {r1, a1}
    KeyOf <- ItemKey
    RoleOf <- ItemRole
    None = None
    MaxAttempts = 4
    MaxGenerationTurns = 1
SPECIFICATION LedgerSpec
CHECK_DEADLOCK FALSE
INVARIANTS AbandonedNeverSpoken
