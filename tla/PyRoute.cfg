CONSTANTS
    r1 = r1  r2 = r2  r3 = r3  r4 = r4  w1 = w1  w2 = w2  w3 = w3
    NoOwner = NoOwner
    Requests <- MC_Requests
    Workers <- MC_Workers
    Configs <- MC_LoadingConfigs
SPECIFICATION Spec
CHECK_DEADLOCK FALSE
INVARIANTS
    TypeOK
    NoWorkerInFinalizedPython
PROPERTIES
    RequestsEventuallyRouted
    DestructorCompletes
