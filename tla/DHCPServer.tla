----------------------------- MODULE DHCPServer -----------------------------
(***************************************************************************)
(* The one-interface DHCP server of p2p/dhcp.py and on_lease of            *)
(* cmd_connect (__main__.py), with the clients it serves.                  *)
(*                                                                         *)
(* Datagrams are broadcast: they may be lost, repeated and reordered, so   *)
(* what has been sent stays in `sent', to be received any number of times  *)
(* or never.  Addresses are counted from the start of the pool.            *)
(***************************************************************************)
EXTENDS Naturals, FiniteSets

CONSTANT Clients    \* the hardware addresses on the group interface

ASSUME ClientsAssumption == IsFiniteSet(Clients)

VARIABLES
    leases,   \* self.leases
    next,     \* self._next_ip
    lease,    \* cmd_connect's lease_fut
    sent,     \* the datagrams sent so far
    client,   \* what each client is doing
    asked     \* the address it asks for, and then holds

serverVars == <<leases, next, lease>>
clientVars == <<client, asked>>
dhcpVars == <<serverVars, clientVars, sent>>

Nobody == 0
Addresses == 1..Cardinality(Clients)

(* The exchange (xid) tells an answer to the first REQUEST of a client     *)
(* that reboots from the answers to what it sends later.                   *)
Datagrams ==
    [ip : Addresses \cup {Nobody}, mac : Clients, xid : 0..1,
     type : {"DISCOVER", "OFFER", "REQUEST", "ACK", "NAK"}]

Datagram(type, mac, xid, ip) == [ip |-> ip, mac |-> mac, type |-> type, xid |-> xid]
Send(type, mac, xid, ip) == sent' = sent \cup {Datagram(type, mac, xid, ip)}

DHCPInit ==
    /\ leases = [m \in Clients |-> Nobody] /\ next = 1 /\ lease = Nobody
    /\ sent = {}
    /\ client = [m \in Clients |-> "away"]
    /\ asked = [m \in Clients |-> Nobody]

-----------------------------------------------------------------------------
(* The server: one datagram at a time.                                     *)

(* Mutant: every DISCOVER gets the next address. *)
AllocateAnew(mac) == next

(* The address of a client, a new one if it has none.                      *)
Allocate(mac) == IF leases[mac] # Nobody THEN leases[mac] ELSE next

Allocated(mac) ==
    /\ leases' = [leases EXCEPT ![mac] = Allocate(mac)]
    /\ next' = IF Allocate(mac) = next THEN next + 1 ELSE next

OnDiscover(d) ==
    /\ d.type = "DISCOVER"
    /\ Allocated(d.mac)
    /\ Send("OFFER", d.mac, d.xid, Allocate(d.mac))
    /\ UNCHANGED <<lease, clientVars>>

(* Mutant: the address asked for is given, whoever's it is. *)
AckAsked(d) ==
    /\ d.type = "REQUEST"
    /\ Allocated(d.mac)
    /\ Send("ACK", d.mac, d.xid, d.ip)
    /\ lease' = IF lease = Nobody THEN d.ip ELSE lease
    /\ UNCHANGED clientVars

(* Mutant: a refused REQUEST is not answered. *)
RefuseSilently(d) ==
    /\ d.type = "REQUEST" /\ d.ip \notin {Nobody, Allocate(d.mac)}
    /\ Allocated(d.mac)
    /\ UNCHANGED <<lease, clientVars, sent>>

(* A REQUEST for another address allocates one as well, and is refused.    *)
OnForeignRequest(d) ==
    /\ d.type = "REQUEST" /\ d.ip \notin {Nobody, Allocate(d.mac)}
    /\ Allocated(d.mac)
    /\ Send("NAK", d.mac, d.xid, Nobody)
    /\ UNCHANGED <<lease, clientVars>>

(* on_lease: the first ACK tells cmd_connect where to cast to.             *)
OnRequest(d) ==
    /\ d.type = "REQUEST" /\ d.ip \in {Nobody, Allocate(d.mac)}
    /\ Allocated(d.mac)
    /\ Send("ACK", d.mac, d.xid, Allocate(d.mac))
    /\ lease' = IF lease = Nobody THEN Allocate(d.mac) ELSE lease
    /\ UNCHANGED clientVars

DatagramReceived(d) == OnDiscover(d) \/ OnForeignRequest(d) \/ OnRequest(d)
Server == \E d \in sent : DatagramReceived(d)

-----------------------------------------------------------------------------
(* A client.                                                               *)

Xid(m) == IF client[m] = "reclaiming" THEN 0 ELSE 1
Becomes(m, state) == client' = [client EXCEPT ![m] = state]

(* A client asks for the address it had on some network, or starts afresh. *)
Reclaim(m) ==
    /\ client[m] = "away"
    /\ \E ip \in Addresses :
          /\ asked' = [asked EXCEPT ![m] = ip]
          /\ Send("REQUEST", m, 0, ip)
    /\ Becomes(m, "reclaiming")
    /\ UNCHANGED serverVars

Discover(m) ==
    /\ client[m] \in {"away", "refused"}
    /\ Send("DISCOVER", m, 1, Nobody)
    /\ Becomes(m, "selecting")
    /\ UNCHANGED <<serverVars, asked>>

OnOffer(m) ==
    /\ client[m] = "selecting"
    /\ \E ip \in Addresses :
          /\ Datagram("OFFER", m, 1, ip) \in sent
          /\ asked' = [asked EXCEPT ![m] = ip]
          /\ Send("REQUEST", m, 1, ip)
    /\ Becomes(m, "requesting")
    /\ UNCHANGED serverVars

(* Half way through the lease: a REQUEST that names no address.            *)
Renew(m) ==
    /\ client[m] = "bound"
    /\ Send("REQUEST", m, 1, Nobody)
    /\ Becomes(m, "renewing")
    /\ UNCHANGED <<serverVars, asked>>

OnAck(m) ==
    /\ client[m] \in {"reclaiming", "requesting", "renewing"}
    /\ \E ip \in Addresses :
          /\ Datagram("ACK", m, Xid(m), ip) \in sent
          /\ asked' = [asked EXCEPT ![m] = ip]
    /\ Becomes(m, "bound")
    /\ UNCHANGED <<serverVars, sent>>

OnNak(m) ==
    /\ client[m] \in {"reclaiming", "requesting", "renewing"}
    /\ Datagram("NAK", m, Xid(m), Nobody) \in sent
    /\ Becomes(m, "refused")
    /\ UNCHANGED <<serverVars, asked, sent>>

ClientStep(m) ==
    Reclaim(m) \/ Discover(m) \/ OnOffer(m) \/ Renew(m) \/ OnAck(m) \/ OnNak(m)

-----------------------------------------------------------------------------
(* Every variable has its type; the pool is used up by clients, not by     *)
(* their retransmissions or by refused requests.                           *)
DHCPTypeOK ==
    /\ leases \in [Clients -> Addresses \cup {Nobody}]
    /\ next = 1 + Cardinality({m \in Clients : leases[m] # Nobody})
    /\ lease \in Addresses \cup {Nobody}
    /\ sent \subseteq Datagrams
    /\ client \in [Clients -> {"away", "reclaiming", "refused", "selecting",
                               "requesting", "bound", "renewing"}]
    /\ asked \in [Clients -> Addresses \cup {Nobody}]

Holding == {"bound", "renewing"}

(* A client holds the address the server has down for it, and nobody else  *)
(* does, however the datagrams are repeated, lost or reordered.            *)
BoundDistinct ==
    \A m \in Clients :
        client[m] \in Holding =>
            /\ leases[m] = asked[m]
            /\ \A k \in Clients \ {m} :
                  leases[k] # asked[m] /\ (client[k] \in Holding => asked[k] # asked[m])
=============================================================================
