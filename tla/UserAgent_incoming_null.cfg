SPECIFICATION Spec
CONSTANTS
    t1 = t1  t2 = t2  f1 = f1  f2 = f2
    Threads <- MC_OneThread
    Flows <- MC_OneFlow
    NoFlow = NoFlow
    MaxProfiles = 2
    MaxSubscriptions = 0
    MaxPublications = 0
    MaxCalls = 2
INVARIANT NoCrash
CHECK_DEADLOCK FALSE
