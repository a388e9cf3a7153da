SPECIFICATION MCSpec
CONSTANTS
    t1 = t1  t2 = t2
    v1 = v1
    None = None
    MaxStarts = 2
    Turns = {t1, t2}
    Verifiers = {v1}
    MaxCommits = 1
SYMMETRY Symmetry
INVARIANTS
    ProcessIsOwned
    RunningJobIsActive
    AnswerReachesAsker
    SucceededHasEnded
PROPERTIES
    GateIsVerified
