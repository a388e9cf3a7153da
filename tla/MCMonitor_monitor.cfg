SPECIFICATION MCSpec
CONSTANTS
    m1 = m1  m2 = m2
    s1 = s1  s2 = s2
    h1 = h1  h2 = h2
    None = None
    Monitors = {m1, m2}
    Syncs = {s1, s2}
    Shas = {h1, h2}
    Budget = 1
    MaxChanges = 1
SYMMETRY Symmetry
INVARIANTS
    OneSuccessMovesTask
    SuccessIsEvidenced
