---------------------------- MODULE MC_Transports ----------------------------
EXTENDS Transports

MC_Protocols == {"UDP", "TCP"}
MC_ConfiguredPorts == {5060, 5061}
=============================================================================
