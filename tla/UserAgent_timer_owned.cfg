SPECIFICATION Spec
CONSTANTS
    t1 = t1  t2 = t2  f1 = f1  f2 = f2
    Threads <- MC_Threads
    Flows <- MC_OneFlow
    NoFlow = NoFlow
    MaxProfiles = 0
    MaxSubscriptions = 0
    MaxPublications = 0
    MaxCalls = 1
INVARIANT PostedMessagesOwned
CHECK_DEADLOCK FALSE
