SPECIFICATION WpSpec
CONSTANTS
    WpThreads = {t1, t2}
    Timeouts = FALSE
    UINT_MOD = 8
INVARIANTS
    WriterExclusive
CHECK_DEADLOCK FALSE
