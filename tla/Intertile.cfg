SPECIFICATION Spec
CONSTANTS
    Senders = {s1, s2}
    Ports = {pa, pb}
    Lengths = {1, 2}
    ChanCapacity = 2
    MaxMessages = 3
    EmptyTails = {}
    None = None
INVARIANTS
    PortsDeliver
    LengthsFree
PROPERTIES
    ImplementsPortChannel
CHECK_DEADLOCK FALSE
