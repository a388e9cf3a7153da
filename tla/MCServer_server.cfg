SPECIFICATION Spec
CONSTANTS
    e1 = e1  e2 = e2  e3 = e3
    None = None
    Engines = {e1, e2, e3}
    MaxBinds = 4
SYMMETRY Symmetry
INVARIANTS
    OneEngine
    ServesAtPath
    StaleIsFailure
