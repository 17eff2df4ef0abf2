\* One generation and every race of its own coroutines; MaxTasks is never reached.
CONSTANTS
    Tokens = {t1}
    None = None
    TombstoneLimit = 1
    MaxTasks = 20
SPECIFICATION FairSpec
CHECK_DEADLOCK FALSE
PROPERTIES DeadlinesFire InterruptionResolves
