CONSTANTS
    r1 = r1  n2 = n2  r3 = r3  a1 = a1  a1b = a1b
    Items = {r1, n2, r3, a1, a1b}
    KeyOf <- ItemKey
    RoleOf <- ItemRole
    None = None
    MaxAttempts = 2
    MaxGenerationTurns = 1
SPECIFICATION QueueSpec
CHECK_DEADLOCK FALSE
PROPERTIES QueueDrains AckBounded
