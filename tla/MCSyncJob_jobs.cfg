SPECIFICATION FairSpec
CONSTANTS
    j1 = j1  j2 = j2  c1 = c1
    Jobs = {j1, j2}
    Callers = {c1}
INVARIANTS
    TypeOK
    SingleFlight
    AcknowledgedMeansCancelled
    RunningHasWorker
PROPERTIES
    OutcomeIsFinal
    RegistryDrains
