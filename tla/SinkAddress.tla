---------------------------- MODULE SinkAddress ----------------------------
(***************************************************************************)
(* How cmd_connect (__main__.py) comes to know where to cast to: a group   *)
(* over NetworkManager, whose owner hands out the addresses; so either the *)
(* sink owns it and its address is known, or the DHCP server runs until    *)
(* the first lease.  The composition of NMActivation and DHCPServer.       *)
(***************************************************************************)
EXTENDS NMActivation, DHCPServer

VARIABLE sinkIp     \* cmd_connect's sink_ip

vars == <<nmVars, dhcpVars, sinkIp>>

OwnerIp == 1 + Cardinality(Clients)    \* x.y.z.1, outside the pool

Init == NMInit /\ DHCPInit /\ sinkIp = Nobody

-----------------------------------------------------------------------------
Goto(from, to) ==
    /\ pc = from /\ pc' = to
    /\ UNCHANGED <<attempt, deviceVars, outcome, bus, act, dhcpVars>>

(* We are a client of the sink's group: it is at the group owner's address. *)
SinkKnown ==
    /\ ip = "client"
    /\ Goto("connected", "cast")
    /\ sinkIp' = OwnerIp

StartDHCP ==
    /\ ip = "owner"
    /\ Goto("connected", "leasing")
    /\ UNCHANGED sinkIp

Leased ==
    /\ lease # Nobody
    /\ Goto("leasing", "cast")
    /\ sinkIp' = lease

(* Sixty seconds without a lease, or as it comes.                          *)
LeaseTimedOut == Goto("leasing", "leaving") /\ UNCHANGED sinkIp

(* The server listens from StartDHCP until the finally clause.             *)
Serving == pc \in {"leasing", "cast"} /\ ip = "owner"

ServerStep == Serving /\ Server /\ UNCHANGED <<nmVars, sinkIp>>
ClientsStep ==
    /\ Serving /\ \E m \in Clients : ClientStep(m)
    /\ UNCHANGED <<nmVars, sinkIp>>
NMStep == NMNext /\ UNCHANGED <<dhcpVars, sinkIp>>

Addressing == SinkKnown \/ StartDHCP \/ Leased
Finished == pc = "closed" /\ UNCHANGED vars

Next == NMStep \/ Addressing \/ LeaseTimedOut \/ ServerStep \/ ClientsStep \/ Finished

(* Besides what NMActivation assumes: the caller goes on, datagrams that   *)
(* are sent again and again arrive, and clients keep asking.               *)
Spec ==
    /\ Init /\ [][Next]_vars
    /\ NMFairness
    /\ WF_vars(Addressing) /\ WF_vars(ServerStep) /\ WF_vars(ClientsStep)

-----------------------------------------------------------------------------
(* Every variable has its type. *)
TypeOK == NMTypeOK /\ DHCPTypeOK /\ sinkIp \in Addresses \cup {Nobody, OwnerIp}

(* The cast goes to the owner of the group we joined, or to the address of *)
(* exactly one client of the group we own.                                 *)
CastReachesOne ==
    pc = "cast" =>
        IF ip = "client" THEN sinkIp = OwnerIp
        ELSE /\ \E m \in Clients : leases[m] = sinkIp
             /\ \A m, k \in Clients : leases[m] = sinkIp /\ leases[k] = sinkIp => m = k

(* A sink that asks gets its lease, even when it first asks for an address *)
(* of another network, unless the wait is given up.                        *)
SinkGetsLease == pc = "leasing" ~> lease # Nobody \/ pc # "leasing"
=============================================================================
