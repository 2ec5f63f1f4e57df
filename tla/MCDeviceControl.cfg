SPECIFICATION Spec
CONSTANTS
    g1 = g1
    g2 = g2
    s1 = s1
    s2 = s2
    a = a
    b = b
    None = None
    Special = special
    Gateways = {g1, g2}
    Servicers = {s1, s2}
    Resources = {special, a, b, x}
    Setups <- MCSetups
    Order <- MCOrder
INVARIANTS
    QueueEmptyAtReply
    RegisteredExactly
    OneInFlight
    ReplyIsMine

    
