SPECIFICATION Spec
CONSTANTS
    Pulls <- MCPulls
    Presets <- MCPresets
    Openings <- MCOpenings
    u1 = u1
    u2 = u2
    MaxOld = 1
    Limit = 2
    Reviewers = {u1, u2}
    MaxList = 2
    MaxChanges = 2
    MaxSyncs = 2
CHECK_DEADLOCK FALSE
INVARIANTS
    PassingIsComplete
