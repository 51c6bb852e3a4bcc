SPECIFICATION Spec
CONSTANTS
    t1 = t1  t2 = t2  f1 = f1  f2 = f2
    Threads <- MC_Threads
    Flows <- MC_OneFlow
    NoFlow = NoFlow
    MaxProfiles = 1
    MaxSubscriptions = 1
    MaxPublications = 0
    MaxCalls = 0
INVARIANT NoCrash
CHECK_DEADLOCK FALSE
