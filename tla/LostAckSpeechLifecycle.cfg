\* One generation whose cleanup is under way when an interruption arrives.
CONSTANTS
    Tokens = {t1}
    None = None
    TombstoneLimit = 1
    MaxTasks = 20
SPECIFICATION FairSpec
CHECK_DEADLOCK FALSE
PROPERTIES CleanupResolves
