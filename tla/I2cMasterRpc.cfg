SPECIFICATION RpcSpec
CONSTANTS
    Threads = {c1, t1}
    Clients = {c1}
    Devices = {d1}
    Registers = {r1, r2}
    None = None
INVARIANTS
    CallsDoNotMix
PROPERTIES
    ServedAsLocal
