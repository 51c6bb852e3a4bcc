CONSTANTS
    t1 = t1  t2 = t2  t3 = t3
    Threads <- MC_Threads
    Width = 2
    MaxAllocs = 3
    PublicationStarts <- MC_InitialisedStart
SYMMETRY MC_Symmetry
INIT Init
NEXT Next
INVARIANTS
    HandleContract
CHECK_DEADLOCK FALSE
