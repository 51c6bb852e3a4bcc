CONSTANTS
    Protocols <- MC_Protocols
    ConfiguredPorts <- MC_ConfiguredPorts
    EphemeralBase = 40000
    Unset = Unset
    MaxTransports = 4
INIT Init
NEXT Next
INVARIANT TypeOK
INVARIANT PortMinusOneFollowsLastAdded
CHECK_DEADLOCK FALSE
