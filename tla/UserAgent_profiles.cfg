SPECIFICATION SafetySpec
CONSTANTS
    t1 = t1  t2 = t2  f1 = f1  f2 = f2
    Threads <- MC_Threads
    Flows <- MC_Flows
    NoFlow = NoFlow
    MaxProfiles = 2
    MaxSubscriptions = 0
    MaxPublications = 0
    MaxCalls = 2
SYMMETRY MC_Symmetry
INVARIANT TypeOK
INVARIANT DefaultNamesAddedProfile
INVARIANT OrphanRegistrationEnding
INVARIANT NoRegistrationOnDeadFlow
PROPERTY ProfileHandlesRefined
CHECK_DEADLOCK FALSE
