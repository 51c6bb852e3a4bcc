SPECIFICATION Spec
CONSTANTS
    t1 = t1  t2 = t2  f1 = f1  f2 = f2
    Threads <- MC_Threads
    Flows <- MC_OneFlow
    NoFlow = NoFlow
    MaxProfiles = 1
    MaxSubscriptions = 0
    MaxPublications = 1
    MaxCalls = 0
PROPERTY ShutdownCompletes
CHECK_DEADLOCK FALSE
