SPECIFICATION Spec
CONSTANTS
    t1 = t1  t2 = t2
    c1 = c1  c2 = c2
    None = None
    Tasks = {t1, t2}
    Callers = {c1, c2}
    Approvals <- MCApprovals
    Crashes = TRUE
SYMMETRY Symmetry
INVARIANTS
    TypeOK
    PreparationIsExclusive
    SaveIsFresh
    ClaimsTellOutcome
    PreparedHasTree
PROPERTIES
    ApprovalIsSingleUse
    LifecycleOnly
