SPECIFICATION Spec
CONSTANTS
    t1 = t1  t2 = t2  pr = pr  issue = issue
    mergeA = mergeA  mergeB = mergeB  review = review  comment = comment
    push = push  close = close  queue = queue
    w1 = w1  w2 = w2
    None = None
    Tasks = {t1}
    Items = {issue}
    Actions = {close, push}
    Workers = {w1, w2}
    MaxApprovals = 1
    ItemOf <- MCItemOf
    TargetOf <- MCTargetOf
    KindOf <- MCKindOf
    IsPull <- MCIsPull
    Permitted <- MCPermitted
    CodexTasks = {t1}
    GatewayErrors = FALSE
SYMMETRY Symmetry
INVARIANTS
    CompletedIsRemote
