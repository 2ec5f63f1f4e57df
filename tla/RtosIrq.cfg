SPECIFICATION FairSpec
CONSTANTS
    LogicalCores = {c3, c5}
    Peripherals = {p1}
    RTOS_MAX_CORE_COUNT = 2
    MAX_ADDITIONAL_SOURCES = 1
    None = None
INVARIANTS
    DispatchFindsIsr
    NoLostIrq
    ReadyMeansEnabled
PROPERTIES
    NoFlagDropped
    Delivered
