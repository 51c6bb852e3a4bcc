------------------------------ MODULE Transports ------------------------------
(***************************************************************************)
(* UserAgent::addTransports (src/resip/recon/UserAgent.cxx, 482-548),      *)
(* called once from the constructor (line 88).                             *)
(*                                                                         *)
(* The loop walks the profile's transport list in order.  A transport     *)
(* configured with port -1 asks for the actual port of the last transport *)
(* added (lastActualPort, 0 before any); port 0 lets the stack bind an    *)
(* ephemeral port.  SipStack::addTransport throws when the bind fails:    *)
(* the port is taken by an earlier transport of the same protocol, or     *)
(* the transport is broken for a reason of its own (interface, TLS        *)
(* material); the exception is caught and the transport skipped.  On     *)
(* success mActualPort is filled in and becomes lastActualPort.           *)
(***************************************************************************)
EXTENDS Integers, Sequences, SequencesExt

CONSTANTS
    Protocols,      \* transport types
    ConfiguredPorts,\* positive ports a TransportInfo may name
    EphemeralBase,  \* ports the stack picks for port 0 are above this
    Unset,          \* mActualPort not filled in
    MaxTransports   \* length of the transport list

TransportInfo == [protocol : Protocols, port : ConfiguredPorts \cup {0, -1},
                  broken : BOOLEAN]

\* Mutant: the configured port passed on as it is, -1 included.
RequestedPortUnmapped(ti, lastActualPort) == ti.port

\* The port handed to addTransport (line 510).
RequestedPort(ti, lastActualPort) ==
    IF ti.port = -1 THEN lastActualPort ELSE ti.port

\* The port the stack binds: the requested one, or a fresh ephemeral one.
BoundPort(port, i) == IF port = 0 THEN EphemeralBase + i ELSE port

\* The bind fails on a port an earlier transport of the protocol holds.
BindFails(ti, port, added) ==
    \/ ti.broken
    \/ \E a \in added : a.protocol = ti.protocol /\ a.port = port

\* Mutant: the requested port, not the bound one, remembered for -1.
RECURSIVE AddFromRequested(_, _, _, _)
AddFromRequested(tis, i, lastActualPort, added) ==
    IF i > Len(tis) THEN <<>>
    ELSE LET ti   == tis[i]
             port == BoundPort(RequestedPort(ti, lastActualPort), i)
         IN  IF BindFails(ti, port, added)
             THEN <<Unset>> \o AddFromRequested(tis, i + 1, lastActualPort, added)
             ELSE <<port>> \o
                  AddFromRequested(tis, i + 1, RequestedPort(ti, lastActualPort),
                          added \cup {[protocol |-> ti.protocol, port |-> port]})

\* Lines 487-547, from transport i on; added holds the transports bound so
\* far; the result is the mActualPort of every transport from i on.
RECURSIVE AddFrom(_, _, _, _)
AddFrom(tis, i, lastActualPort, added) ==
    IF i > Len(tis) THEN <<>>
    ELSE LET ti   == tis[i]
             port == BoundPort(RequestedPort(ti, lastActualPort), i)
         IN  IF BindFails(ti, port, added)
             THEN <<Unset>> \o AddFrom(tis, i + 1, lastActualPort, added)
             ELSE <<port>> \o
                  AddFrom(tis, i + 1, port,
                          added \cup {[protocol |-> ti.protocol, port |-> port]})

AddTransports(tis) == AddFrom(tis, 1, 0, {})

-----------------------------------------------------------------------------
(***************************************************************************)
(* Every transport list of up to MaxTransports entries is a profile the   *)
(* constructor can be given; AddTransportsRun records the outcome.         *)
(***************************************************************************)
VARIABLES transports, actualPorts

Init ==
    /\ transports \in UNION {[1..n -> TransportInfo] : n \in 1..MaxTransports}
    /\ actualPorts = <<>>

AddTransportsRun ==
    /\ actualPorts = <<>>
    /\ actualPorts' = AddTransports(transports)
    /\ UNCHANGED transports

Next == AddTransportsRun

Spec == Init /\ [][Next]_<<transports, actualPorts>>

-----------------------------------------------------------------------------
Ports == ConfiguredPorts \cup {EphemeralBase + i : i \in 1..MaxTransports}

\* Every variable holds a value of its type: each transport ends with a
\* real bound port or no port at all.
TypeOK ==
    /\ transports \in Seq(TransportInfo)
    /\ actualPorts \in Seq(Ports \cup {Unset})

\* The transports that end up added, by index.
Added == {i \in DOMAIN actualPorts : actualPorts[i] # Unset}

(***************************************************************************)
(* The rule of the comment at line 510 and of the spec's "transport       *)
(* failures are skipped, remaining transports still attempt to bind": a   *)
(* transport with port -1 binds to the actual port of the last transport  *)
(* before it that was added (an ephemeral one when none was), a failed    *)
(* transport does not stop the rest, and a transport fails exactly when   *)
(* it is broken or its protocol and port are already bound.                *)
(***************************************************************************)
PortMinusOneFollowsLastAdded ==
    actualPorts # <<>> =>
    \A i \in DOMAIN transports :
        LET before  == {j \in Added : j < i}
            inherit == IF before = {} THEN 0
                       ELSE actualPorts[CHOOSE j \in before :
                                           \A k \in before : k <= j]
            wanted  == IF transports[i].port = -1 THEN inherit
                                                  ELSE transports[i].port
            port    == IF wanted = 0 THEN EphemeralBase + i ELSE wanted
            taken   == \E j \in before : /\ transports[j].protocol = transports[i].protocol
                                         /\ actualPorts[j] = port
        IN  actualPorts[i] = IF transports[i].broken \/ taken THEN Unset ELSE port
=============================================================================
