\* Two generations pass through the slot; the newest context is remembered.
CONSTANTS
    Tokens = {t1, t2}
    None = None
    TombstoneLimit = 1
    MaxTasks = 2
SPECIFICATION Spec
SYMMETRY Symmetry
CHECK_DEADLOCK FALSE
INVARIANT SlotSafe
PROPERTIES OutputBarrier TombstoneFence ImplementsSlot
