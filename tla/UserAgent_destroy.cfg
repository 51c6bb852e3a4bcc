SPECIFICATION Spec
CONSTANTS
    t1 = t1  t2 = t2  f1 = f1  f2 = f2
    Threads <- MC_OneThread
    Flows <- MC_OneFlow
    NoFlow = NoFlow
    MaxProfiles = 1
    MaxSubscriptions = 1
    MaxPublications = 1
    MaxCalls = 3
INVARIANT TypeOK
PROPERTY DestroyedEntitiesRemoved
PROPERTY EntityHandlesRefined
PROPERTY DestroyedProfileUnregisters
CHECK_DEADLOCK FALSE
