SPECIFICATION Spec
CONSTANTS
    Senders = {s1, s2}
    Ports = {pa, pb}
    Lengths = {2}
    ChanCapacity = 2
    MaxMessages = 3
    EmptyTails = {s1}
    None = None
INVARIANTS
    OnlyListenerReceives
CHECK_DEADLOCK FALSE
