SPECIFICATION QfSpec
CONSTANTS
    QfTasks = {1, 2}
    QfSize = 4
    QfPage = 2
    QfSector = 2
    QfChunk = 3
    QfRanges <- FlashRanges
    QfLockAlways = FALSE
    QfDepth = 2
    QfOps = 2
INVARIANTS
    FlashReadFilled
CHECK_DEADLOCK FALSE
