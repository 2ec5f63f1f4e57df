SPECIFICATION Spec
CONSTANTS
    LogicalCores = {c3}
    Peripherals = {p1, p2}
    RTOS_MAX_CORE_COUNT = 1
    MAX_ADDITIONAL_SOURCES = 1
    None = None
INVARIANTS
    RegisteredInRange
