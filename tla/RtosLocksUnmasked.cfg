SPECIFICATION Spec
CONSTANTS
    Cores = {c0, c1}
    MaskedTasks = {}
    MaxDepth = 2
    None = None
INVARIANTS
    MutualExclusion
